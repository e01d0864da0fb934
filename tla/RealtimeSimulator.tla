--------------------------- MODULE RealtimeSimulator ---------------------------
(***************************************************************************)
(* ns3::RealtimeSimulatorImpl (core/model/realtime-simulator-impl.cc) and  *)
(* the ns3::WallClockSynchronizer it waits in: the loop of the main        *)
(* thread, which runs each event when the wall clock reaches its time, the *)
(* calls its handlers make, and the other threads that schedule events     *)
(* while the main thread waits.                                            *)
(*                                                                         *)
(* A step of the main thread is one hold of m_mutex or one look at the     *)
(* clock or at m_condition made without it.  Another thread locks, reads   *)
(* the clock, inserts and signals in steps of their own, as the main       *)
(* thread, in Synchronize, holds no lock and sees each of them.            *)
(* Time is counted in jiffies.  The mode is SYNC_BEST_EFFORT, the default. *)
(***************************************************************************)
EXTENDS EventQueue, FiniteSets

CONSTANTS
    Threads,      \* the threads other than the main one
    Delays,       \* the delays the callers use
    Epoch,        \* what the wall clock shows when the program starts
    SleepMargin,  \* a sleep ends this long before the time awaited (3)
    IdleDelay,    \* how long the main thread waits when there is no event
    MaxTs,        \* bound: no event is later, and the clock stops there
    MaxEvents,    \* bound: number of events scheduled
    MaxRuns       \* bound: calls of Run

ASSUME DelaysAssumption == Delays \subseteq Nat
ASSUME TimesAssumption ==
    /\ Epoch \in Nat
    /\ SleepMargin \in Nat
    /\ IdleDelay \in Nat
ASSUME BoundsAssumption == MaxTs \in Nat /\ MaxEvents \in Nat /\ MaxRuns \in Nat

Nobody == "nobody"
ASSUME NobodyAssumption == Nobody \notin Threads

VARIABLES
    m_events,             \* the scheduler's list: set of [ts, uid]
    m_uid,                \* uid of the last event scheduled
    m_currentTs,          \* timestamp of the event being or last executed
    m_currentUid,         \* its uid
    m_unscheduledEvents,
    m_cancel,             \* uids of the events cancelled
    m_stop,
    m_running,
    m_realtimeOriginNano, \* what the wall clock showed when Run was called
    m_condition,          \* the synchronizer was signalled
    wall,                 \* the wall clock
    pc,                   \* where the main thread is
    awaits,               \* what it is in Synchronize for: "event" or "idle"
    tsNext,               \* the time Synchronize waits for, 0 out of it
    runs,                 \* calls of Run so far
    mutex,                \* the other thread that holds m_mutex, or Nobody
    posting               \* what that thread has done, and its event's ts

list  == <<m_events, m_uid, m_unscheduledEvents>>
now   == <<m_currentTs, m_currentUid>>
flow  == <<m_stop, m_running, pc, runs>>
wait  == <<awaits, tsNext>>
clock == <<wall, m_realtimeOriginNano>>
post  == <<mutex, posting>>
vars  == <<list, now, m_cancel, flow, m_condition, wait, clock, post>>

Idle == [at |-> "idle", ts |-> 0]

Init ==
    /\ m_events = {}
    /\ m_uid = 0
    /\ m_currentTs = 0
    /\ m_currentUid = 0
    /\ m_unscheduledEvents = 0
    /\ m_cancel = {}
    /\ m_stop = FALSE
    /\ m_running = FALSE
    /\ m_realtimeOriginNano = 0
    /\ m_condition = FALSE
    /\ wall = Epoch
    /\ pc = "outside"
    /\ awaits = "event"
    /\ tsNext = 0
    /\ runs = 0
    /\ mutex = Nobody
    /\ posting = Idle

(* WallClockSynchronizer::GetNormalizedRealtime. *)
GetCurrentRealtime == wall - m_realtimeOriginNano

(* Wall-clock time passes, whatever the threads do. *)
Tick ==
    /\ GetCurrentRealtime < MaxTs
    /\ wall' = wall + 1
    /\ UNCHANGED <<list, now, m_cancel, flow, m_condition, wait,
                   m_realtimeOriginNano, post>>

-------------------------------------------------------------------------------
(* The calls of the main thread: before and between the runs, and in the
   handler of an event that was not cancelled. *)

InCaller ==
    \/ pc = "outside"
    \/ pc = "invoke" /\ m_currentUid \notin m_cancel

(* Insert a new event with timestamp ts and signal the synchronizer. *)
InsertAndSignal(ts) ==
    /\ mutex = Nobody
    /\ m_uid < MaxEvents
    /\ ts <= MaxTs
    /\ m_uid' = m_uid + 1
    /\ m_events' = m_events \cup {[ts |-> ts, uid |-> m_uid + 1]}
    /\ m_unscheduledEvents' = m_unscheduledEvents + 1
    /\ m_condition' = TRUE

(* Schedule, ScheduleNow (no delay) and ScheduleWithContext, which all count
   from the current simulation time. *)
Schedule(d) ==
    /\ InCaller
    /\ InsertAndSignal(m_currentTs + d)
    /\ UNCHANGED <<now, m_cancel, flow, wait, clock, post>>

(* ScheduleRealtimeWithContext, which counts from the wall clock. *)
ScheduleRealtime(d) ==
    /\ InCaller
    /\ InsertAndSignal(GetCurrentRealtime + d)
    /\ UNCHANGED <<now, m_cancel, flow, wait, clock, post>>

IsExpired(e) ==
    \/ e.ts < m_currentTs
    \/ e.ts = m_currentTs /\ e.uid <= m_currentUid
    \/ e.uid \in m_cancel

Cancel(e) ==
    /\ InCaller
    /\ ~IsExpired(e)
    /\ m_cancel' = m_cancel \cup {e.uid}
    /\ UNCHANGED <<list, now, flow, m_condition, wait, clock, post>>

(* Remove does not signal: the condition set for the event stays. *)
Remove(e) ==
    /\ InCaller
    /\ mutex = Nobody
    /\ ~IsExpired(e)
    /\ m_events' = m_events \ {e}
    /\ m_unscheduledEvents' = m_unscheduledEvents - 1
    /\ m_cancel' = m_cancel \cup {e.uid}
    /\ UNCHANGED <<m_uid, now, flow, m_condition, wait, clock, post>>

(* Stop sets the flag and does not signal. *)
Stop ==
    /\ InCaller
    /\ pc = "invoke"
    /\ ~m_stop
    /\ m_stop' = TRUE
    /\ UNCHANGED <<list, now, m_cancel, m_running, pc, runs, m_condition, wait,
                   clock, post>>

Calls ==
    \/ \E d \in Delays : Schedule(d) \/ ScheduleRealtime(d)
    \/ \E e \in m_events : Cancel(e) \/ Remove(e)
    \/ Stop

-------------------------------------------------------------------------------
(* RealtimeSimulatorImpl::Run. *)

Run ==
    /\ pc = "outside"
    /\ runs < MaxRuns
    /\ runs' = runs + 1
    /\ m_stop' = FALSE
    /\ m_running' = TRUE
    /\ pc' = "origin"
    /\ UNCHANGED <<list, now, m_cancel, m_condition, wait, clock, post>>

(* DoSetOrigin takes the wall clock for the origin and ignores m_currentTs. *)
SetOrigin ==
    /\ pc = "origin"
    /\ m_realtimeOriginNano' = wall
    /\ pc' = "loop"
    /\ UNCHANGED <<list, now, m_cancel, m_stop, m_running, runs, m_condition,
                   wait, wall, post>>

LoopEnds ==
    /\ pc = "loop"
    /\ m_stop
    /\ pc' = "end"
    /\ UNCHANGED <<list, now, m_cancel, m_stop, m_running, runs, m_condition,
                   wait, clock, post>>

LoopProcesses ==
    /\ pc = "loop"
    /\ ~m_stop
    /\ mutex = Nobody
    /\ m_events # {}
    /\ pc' = "next"
    /\ UNCHANGED <<list, now, m_cancel, m_stop, m_running, runs, m_condition,
                   wait, clock, post>>

(* There is no event: the condition is left as it is. *)
LoopWaits ==
    /\ pc = "loop"
    /\ ~m_stop
    /\ mutex = Nobody
    /\ m_events = {}
    /\ awaits' = "idle"
    /\ tsNext' = GetCurrentRealtime + IdleDelay
    /\ pc' = "synchronize"
    /\ UNCHANGED <<list, now, m_cancel, m_stop, m_running, runs, m_condition,
                   clock, post>>

RunReturns ==
    /\ pc = "end"
    /\ mutex = Nobody
    /\ m_running' = FALSE
    /\ pc' = "outside"
    /\ UNCHANGED <<list, now, m_cancel, m_stop, runs, m_condition, wait, clock,
                   post>>

-------------------------------------------------------------------------------
(* RealtimeSimulatorImpl::ProcessOneEvent. *)

(* tsNow + tsDelay is the timestamp of the next event, or now when that is
   past: for Synchronize the two are the same. *)
PrepareWait ==
    /\ pc = "next"
    /\ mutex = Nobody
    /\ awaits' = "event"
    /\ \E e \in m_events : IsEarliest(e, m_events) /\ tsNext' = e.ts
    /\ m_condition' = FALSE
    /\ pc' = "synchronize"
    /\ UNCHANGED <<list, now, m_cancel, m_stop, m_running, runs, clock, post>>

(* The head of the list is taken, which need not be the event awaited. *)
TakeEvent ==
    /\ pc = "take"
    /\ mutex = Nobody
    /\ \E e \in m_events :
          /\ IsEarliest(e, m_events)
          /\ m_events' = m_events \ {e}
          /\ m_currentTs' = e.ts
          /\ m_currentUid' = e.uid
    /\ m_unscheduledEvents' = m_unscheduledEvents - 1
    /\ pc' = "invoke"
    /\ UNCHANGED <<m_uid, m_cancel, m_stop, m_running, runs, m_condition, wait,
                   clock, post>>

HandlerReturns ==
    /\ pc = "invoke"
    /\ pc' = "loop"
    /\ UNCHANGED <<list, now, m_cancel, m_stop, m_running, runs, m_condition,
                   wait, clock, post>>

-------------------------------------------------------------------------------
(* WallClockSynchronizer::DoSynchronize. *)

(* Mutant of Returned: an interrupted wait is taken for a complete one. *)
Returned_Always(done) ==
    /\ pc' = IF awaits = "event" THEN "take" ELSE "loop"
    /\ tsNext' = 0

(* Mutant of Returned: Run ends when nothing has come for IdleDelay. *)
Returned_EndsIdle(done) ==
    /\ pc' = CASE awaits = "idle" /\ done -> "end"
               [] awaits = "idle" /\ ~done -> "loop"
               [] awaits = "event" /\ done -> "take"
               [] awaits = "event" /\ ~done -> "next"
    /\ tsNext' = 0

(* What the caller does with the result: ProcessOneEvent prepares another wait
   unless this one is complete; the loop of Run looks at the list again. *)
Returned(done) ==
    /\ pc' = CASE awaits = "idle" -> "loop"
               [] awaits = "event" /\ done -> "take"
               [] awaits = "event" /\ ~done -> "next"
    /\ tsNext' = 0

(* Mutant of Synchronize: the condition is reset where the wait begins. *)
Synchronize_Resets ==
    /\ pc = "synchronize"
    /\ pc' = IF tsNext - GetCurrentRealtime > SleepMargin
             THEN "sleep" ELSE "drift"
    /\ m_condition' = FALSE
    /\ UNCHANGED <<list, now, m_cancel, m_stop, m_running, runs, wait, clock,
                   post>>

(* DriftCorrect gives the time left; when it is too short for a sleep, the
   drift is looked at once more. *)
Synchronize ==
    /\ pc = "synchronize"
    /\ pc' = IF tsNext - GetCurrentRealtime > SleepMargin
             THEN "sleep" ELSE "drift"
    /\ UNCHANGED <<list, now, m_cancel, m_stop, m_running, runs, m_condition,
                   wait, clock, post>>

(* wait_for returns its predicate: SleepWait is true when it was signalled and
   the wait goes on to SpinWait, which sees the condition. *)
SleepSignalled ==
    /\ pc = "sleep"
    /\ m_condition
    /\ pc' = "drift"
    /\ UNCHANGED <<list, now, m_cancel, m_stop, m_running, runs, m_condition,
                   wait, clock, post>>

(* SleepWait is false when it timed out, and so is DoSynchronize. *)
SleepTimesOut ==
    /\ pc = "sleep"
    /\ ~m_condition
    /\ GetCurrentRealtime >= tsNext - SleepMargin
    /\ Returned(FALSE)
    /\ UNCHANGED <<list, now, m_cancel, m_stop, m_running, runs, m_condition,
                   awaits, clock, post>>

CheckDrift ==
    /\ pc = "drift"
    /\ IF GetCurrentRealtime >= tsNext
       THEN Returned(TRUE)
       ELSE pc' = "spin" /\ UNCHANGED tsNext
    /\ UNCHANGED <<list, now, m_cancel, m_stop, m_running, runs, m_condition,
                   awaits, clock, post>>

SpinReachesTime ==
    /\ pc = "spin"
    /\ GetCurrentRealtime >= tsNext
    /\ Returned(TRUE)
    /\ UNCHANGED <<list, now, m_cancel, m_stop, m_running, runs, m_condition,
                   awaits, clock, post>>

(* The condition is read after the clock, which may have moved on. *)
SpinSignalled ==
    /\ pc = "spin"
    /\ m_condition
    /\ Returned(FALSE)
    /\ UNCHANGED <<list, now, m_cancel, m_stop, m_running, runs, m_condition,
                   awaits, clock, post>>

MainThread ==
    \/ Run \/ SetOrigin
    \/ LoopEnds \/ LoopProcesses \/ LoopWaits \/ RunReturns
    \/ PrepareWait \/ TakeEvent \/ HandlerReturns
    \/ Synchronize \/ SleepSignalled \/ SleepTimesOut \/ CheckDrift
    \/ SpinReachesTime \/ SpinSignalled

-------------------------------------------------------------------------------
(* ScheduleWithContext and ScheduleRealtimeWithContext on another thread. *)

(* The first reads m_running, which Run writes without the mutex, and takes
   m_currentTs when it is not set; the second always reads the clock. *)
PostLock(t, d) ==
    /\ mutex = Nobody
    /\ m_uid < MaxEvents
    /\ mutex' = t
    /\ \E base \in {GetCurrentRealtime, IF m_running THEN GetCurrentRealtime
                                                     ELSE m_currentTs} :
          /\ base + d <= MaxTs
          /\ posting' = [at |-> "insert", ts |-> base + d]
    /\ UNCHANGED <<list, now, m_cancel, flow, m_condition, wait, clock>>

PostInsert(t) ==
    /\ mutex = t
    /\ posting.at = "insert"
    /\ m_uid' = m_uid + 1
    /\ m_events' = m_events \cup {[ts |-> posting.ts, uid |-> m_uid + 1]}
    /\ m_unscheduledEvents' = m_unscheduledEvents + 1
    /\ posting' = [posting EXCEPT !.at = "signal"]
    /\ UNCHANGED <<now, m_cancel, flow, m_condition, wait, clock, mutex>>

PostSignal(t) ==
    /\ mutex = t
    /\ posting.at = "signal"
    /\ m_condition' = TRUE
    /\ mutex' = Nobody
    /\ posting' = Idle
    /\ UNCHANGED <<list, now, m_cancel, flow, wait, clock>>

PosterUnlocks(t) == PostInsert(t) \/ PostSignal(t)

Next ==
    \/ Tick
    \/ Calls
    \/ MainThread
    \/ \E t \in Threads :
          (\E d \in Delays : PostLock(t, d)) \/ PosterUnlocks(t)

Spec == Init /\ [][Next]_vars

(* The clock and the main thread go on (the program calls Run and handlers
   return), and a thread that holds the mutex gives it back. *)
FairSpec ==
    /\ Spec
    /\ WF_vars(Tick)
    /\ WF_vars(MainThread)
    /\ WF_vars(\E t \in Threads : PosterUnlocks(t))
================================================================================
