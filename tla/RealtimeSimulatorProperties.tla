---------------------- MODULE RealtimeSimulatorProperties ----------------------
(***************************************************************************)
(* What RealtimeSimulator has to guarantee to the models written on it and *)
(* to the threads that feed it.                                            *)
(***************************************************************************)
EXTENDS RealtimeSimulator

Uids == 1..MaxEvents
Events == [ts : Nat, uid : Uids]

(* Every variable has its type; the clock never shows less than the origin. *)
TypeOK ==
    /\ m_events \subseteq Events
    /\ m_uid \in 0..MaxEvents
    /\ m_currentTs \in Nat
    /\ m_currentUid \in 0..MaxEvents
    /\ m_unscheduledEvents \in Int
    /\ m_cancel \subseteq Uids
    /\ m_stop \in BOOLEAN
    /\ m_running \in BOOLEAN
    /\ m_realtimeOriginNano \in 0..wall
    /\ m_condition \in BOOLEAN
    /\ wall \in Nat
    /\ pc \in {"outside", "origin", "loop", "end", "next", "take", "invoke",
               "synchronize", "sleep", "drift", "spin"}
    /\ awaits \in {"event", "idle"}
    /\ tsNext \in Nat
    /\ runs \in 0..MaxRuns
    /\ mutex \in Threads \cup {Nobody}
    /\ posting \in [at : {"idle", "insert", "signal"}, ts : Nat]

InSynchronize == pc \in {"synchronize", "sleep", "drift", "spin"}

(* The main thread in DoSynchronize awaits the earliest event there is, or
   none when there is none, unless the condition is set or the thread that
   inserted an earlier one is about to set it: an event that another thread
   schedules between the computation of the wait, under m_mutex, and the wait
   itself, made without it, never sleeps behind a later one. *)
NoLostWakeup ==
    InSynchronize /\ ~m_condition /\ posting.at # "signal" =>
        IF awaits = "event"
        THEN \A e \in m_events : tsNext <= e.ts
        ELSE m_events = {}

(* No handler runs before the wall clock shows its event's time, although the
   event that ProcessOneEvent takes need not be the one it has waited for. *)
NeverEarly == pc = "invoke" => m_currentTs <= GetCurrentRealtime

(* Events are scheduled, by any thread and by either clock, for no time that
   the simulation has passed: the assertion of every schedule method, and the
   one of ProcessOneEvent that time does not move backward. *)
NoEventInThePast ==
    /\ \A e \in m_events : m_currentTs <= e.ts
    /\ posting.at = "insert" => m_currentTs <= posting.ts

(* Every event scheduled is run or removed, or the simulation is stopped: the
   handshake between m_mutex, the condition and the clock never leaves the
   main thread waiting for something else. *)
EveryEventRuns ==
    \A u \in Uids :
        (\E e \in m_events : e.uid = u) ~>
            (m_stop \/ \A e \in m_events : e.uid # u)
================================================================================
