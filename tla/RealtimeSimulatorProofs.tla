----------------------- MODULE RealtimeSimulatorProofs -----------------------
(***************************************************************************)
(* Proofs about RealtimeSimulator for any threads, delays, margins and     *)
(* bounds.  While the main thread is in Synchronize nobody removes an      *)
(* event, so the one it awaits stays in the list and whatever else is      *)
(* there by the time it takes one is no later.                             *)
(***************************************************************************)
EXTENDS RealtimeSimulatorProperties, TLAPS

(* A thread is between its steps only when it holds the mutex, and while it is
   its event still has a place. *)
PostingLocked ==
    /\ mutex = Nobody => posting.at = "idle"
    /\ posting.at = "insert" => m_uid < MaxEvents

(* The event awaited is in the list, or one as early. *)
AwaitedListed ==
    InSynchronize /\ awaits = "event" => \E e \in m_events : e.ts <= tsNext

(* When an event is taken one is due. *)
DueListed == pc = "take" => \E e \in m_events : e.ts <= GetCurrentRealtime

IInv ==
    /\ TypeOK
    /\ PostingLocked
    /\ NoLostWakeup
    /\ AwaitedListed
    /\ DueListed
    /\ NeverEarly

(* During a first Run the simulation is never ahead of the wall clock, which
   starts at zero together with it. *)
FirstRun ==
    /\ runs = 0 => pc = "outside" /\ m_currentTs = 0
    /\ pc = "origin" => m_currentTs = 0
    /\ m_currentTs <= GetCurrentRealtime

-----------------------------------------------------------------------------
(* Initially every part holds. *)
LEMMA InitIInv == Init => IInv
<1> SUFFICES ASSUME Init PROVE IInv
    OBVIOUS
<1>1. TypeOK
  <2>1. posting \in [at : {"idle", "insert", "signal"}, ts : Nat]
        BY DEF Init, Idle
  <2>2. 0 \in 0..MaxEvents /\ 0 \in 0..MaxRuns /\ 0 \in 0..wall /\ wall \in Nat
        BY TimesAssumption, BoundsAssumption DEF Init
  <2>3. m_stop \in BOOLEAN /\ m_running \in BOOLEAN /\ m_condition \in BOOLEAN
        BY DEF Init
  <2>4. /\ m_events \subseteq Events
        /\ m_cancel \subseteq Uids
        /\ m_unscheduledEvents \in Int
        BY DEF Init
  <2>5. QED
        BY <2>1, <2>2, <2>3, <2>4 DEF Init, TypeOK
<1>2. PostingLocked /\ NoLostWakeup /\ AwaitedListed /\ DueListed /\ NeverEarly
      BY DEF Init, PostingLocked, NoLostWakeup, AwaitedListed, DueListed,
             NeverEarly, InSynchronize, Idle
<1>3. QED
      BY <1>1, <1>2 DEF IInv

(* Every step keeps the types. *)
LEMMA NextTypeOK == TypeOK /\ PostingLocked /\ [Next]_vars => TypeOK'
<1> SUFFICES ASSUME TypeOK, PostingLocked, [Next]_vars PROVE TypeOK'
    OBVIOUS
<1> USE DelaysAssumption, TimesAssumption, BoundsAssumption
        DEF TypeOK, Uids, Events, list, now, flow, wait, clock, post
<1>1. CASE Tick
      BY <1>1 DEF Tick, GetCurrentRealtime
<1>2. ASSUME NEW d \in Delays, Schedule(d) PROVE TypeOK'
      BY <1>2 DEF Schedule, InsertAndSignal
<1>3. ASSUME NEW d \in Delays, ScheduleRealtime(d) PROVE TypeOK'
      BY <1>3 DEF ScheduleRealtime, InsertAndSignal, GetCurrentRealtime
<1>4. ASSUME NEW e \in m_events, Cancel(e) PROVE TypeOK'
      BY <1>4 DEF Cancel
<1>5. ASSUME NEW e \in m_events, Remove(e) PROVE TypeOK'
      <2>1. e.uid \in Uids
            OBVIOUS
      <2>2. m_events' \subseteq Events /\ m_cancel' \subseteq Uids
            BY <1>5, <2>1 DEF Remove
      <2>3. QED
            BY <1>5, <2>2 DEF Remove
<1>6. CASE Stop
      BY <1>6 DEF Stop
<1>7. CASE Run
      <2>1. runs + 1 \in 0..MaxRuns
            BY <1>7 DEF Run
      <2>2. QED
            BY <1>7, <2>1 DEF Run
<1>8. CASE SetOrigin
      BY <1>8 DEF SetOrigin
<1>9. CASE LoopEnds
      BY <1>9 DEF LoopEnds
<1>10. CASE LoopProcesses
       BY <1>10 DEF LoopProcesses
<1>11. CASE LoopWaits
       BY <1>11 DEF LoopWaits, GetCurrentRealtime
<1>12. CASE RunReturns
       BY <1>12 DEF RunReturns
<1>13. CASE PrepareWait
       BY <1>13 DEF PrepareWait, IsEarliest, KeyLess
<1>14. CASE TakeEvent
       BY <1>14 DEF TakeEvent, IsEarliest, KeyLess
<1>15. CASE HandlerReturns
       BY <1>15 DEF HandlerReturns
<1>16. CASE Synchronize
       BY <1>16 DEF Synchronize
<1>17. CASE SleepSignalled
       BY <1>17 DEF SleepSignalled
<1>18. CASE SleepTimesOut
       BY <1>18 DEF SleepTimesOut, Returned
<1>19. CASE CheckDrift
       BY <1>19 DEF CheckDrift, Returned
<1>20. CASE SpinReachesTime
       BY <1>20 DEF SpinReachesTime, Returned
<1>21. CASE SpinSignalled
       BY <1>21 DEF SpinSignalled, Returned
<1>22. ASSUME NEW t \in Threads, NEW d \in Delays, PostLock(t, d) PROVE TypeOK'
       BY <1>22 DEF PostLock, GetCurrentRealtime
<1>23. ASSUME NEW t \in Threads, PostInsert(t) PROVE TypeOK'
       BY <1>23 DEF PostInsert, PostingLocked
<1>24. ASSUME NEW t \in Threads, PostSignal(t) PROVE TypeOK'
       BY <1>24 DEF PostSignal, Idle
<1>25. CASE UNCHANGED vars
     BY <1>25 DEF vars
<1>26. QED
     BY <1>1, <1>2, <1>3, <1>4, <1>5, <1>6, <1>7, <1>8, <1>9, <1>10, <1>11,
        <1>12, <1>13, <1>14, <1>15, <1>16, <1>17, <1>18, <1>19, <1>20, <1>21,
        <1>22, <1>23, <1>24, <1>25
        DEF Next, Calls, MainThread, PosterUnlocks

(* Every step keeps the other parts. *)
LEMMA NextIInv == IInv /\ [Next]_vars => IInv'
<1> SUFFICES ASSUME IInv, [Next]_vars PROVE IInv'
    OBVIOUS
<1> DEFINE Rest == PostingLocked /\ NoLostWakeup /\ AwaitedListed /\ DueListed
                    /\ NeverEarly
<1>1. TypeOK /\ TypeOK'
      BY NextTypeOK DEF IInv
<1>2. Rest'
  <2> USE <1>1, NobodyAssumption, DelaysAssumption, TimesAssumption
          DEF IInv, TypeOK, PostingLocked, NoLostWakeup, AwaitedListed,
             DueListed,
              NeverEarly, InSynchronize, GetCurrentRealtime, Uids, Events,
              list, now, flow, wait, clock, post
  <2>1. CASE Tick
        BY <2>1 DEF Tick, GetCurrentRealtime
  <2>2. ASSUME NEW d \in Delays, Schedule(d) PROVE Rest'
        BY <2>2 DEF Schedule, InsertAndSignal
  <2>3. ASSUME NEW d \in Delays, ScheduleRealtime(d) PROVE Rest'
        BY <2>3 DEF ScheduleRealtime, InsertAndSignal, GetCurrentRealtime
  <2>4. ASSUME NEW e \in m_events, Cancel(e) PROVE Rest'
        BY <2>4 DEF Cancel
  <2>5. ASSUME NEW e \in m_events, Remove(e) PROVE Rest'
        BY <2>5 DEF Remove, InCaller
  <2>6. CASE Stop
        BY <2>6 DEF Stop
  <2>7. CASE Run
        BY <2>7 DEF Run
  <2>8. CASE SetOrigin
        BY <2>8 DEF SetOrigin
  <2>9. CASE LoopEnds
        BY <2>9 DEF LoopEnds
  <2>10. CASE LoopProcesses
         BY <2>10 DEF LoopProcesses
  <2>11. CASE LoopWaits
         BY <2>11 DEF LoopWaits, GetCurrentRealtime
  <2>12. CASE RunReturns
         BY <2>12 DEF RunReturns
  <2>13. CASE PrepareWait
         BY <2>13 DEF PrepareWait, IsEarliest, KeyLess
  <2>14. CASE TakeEvent
         BY <2>14 DEF TakeEvent, IsEarliest, KeyLess
  <2>15. CASE HandlerReturns
         BY <2>15 DEF HandlerReturns
  <2>16. CASE Synchronize
         BY <2>16 DEF Synchronize
  <2>17. CASE SleepSignalled
         BY <2>17 DEF SleepSignalled
  <2>18. CASE SleepTimesOut
         BY <2>18 DEF SleepTimesOut, Returned
  <2>19. CASE CheckDrift
         BY <2>19 DEF CheckDrift, Returned
  <2>20. CASE SpinReachesTime
         BY <2>20 DEF SpinReachesTime, Returned
  <2>21. CASE SpinSignalled
         BY <2>21 DEF SpinSignalled, Returned
  <2>22. ASSUME NEW t \in Threads, NEW d \in Delays, PostLock(t, d) PROVE Rest'
         BY <2>22 DEF PostLock, GetCurrentRealtime
  <2>23. ASSUME NEW t \in Threads, PostInsert(t) PROVE Rest'
         BY <2>23 DEF PostInsert
  <2>24. ASSUME NEW t \in Threads, PostSignal(t) PROVE Rest'
         BY <2>24 DEF PostSignal, Idle
  <2>25. CASE UNCHANGED vars
       BY <2>25 DEF vars
  <2>26. QED
       BY <2>1, <2>2, <2>3, <2>4, <2>5, <2>6, <2>7, <2>8, <2>9, <2>10, <2>11,
          <2>12, <2>13, <2>14, <2>15, <2>16, <2>17, <2>18, <2>19, <2>20, <2>21,
          <2>22, <2>23, <2>24, <2>25
          DEF Next, Calls, MainThread, PosterUnlocks
<1>3. QED
      BY <1>1, <1>2 DEF IInv

(* The types, for any threads, delays and bounds. *)
THEOREM TypeCorrect == Spec => []TypeOK
<1>1. IInv => TypeOK
      BY DEF IInv
<1>2. QED
      BY InitIInv, NextIInv, <1>1, PTL DEF Spec

(* No wakeup is lost: whatever the order in which the wait is computed, the
   condition reset, an event inserted and the condition set. *)
THEOREM WakeupsAreKept == Spec => []NoLostWakeup
<1>1. IInv => NoLostWakeup
      BY DEF IInv
<1>2. QED
      BY InitIInv, NextIInv, <1>1, PTL DEF Spec

(* No event runs before its time, in any run. *)
THEOREM EventsRunOnTime == Spec => []NeverEarly
<1>1. IInv => NeverEarly
      BY DEF IInv
<1>2. QED
      BY InitIInv, NextIInv, <1>1, PTL DEF Spec

-----------------------------------------------------------------------------
(* A program that calls Run once keeps the simulation behind the clock and the
   events after the simulation. *)
LEMMA NextFirstRun ==
    ASSUME MaxRuns = 1, IInv, FirstRun, NoEventInThePast, [Next]_vars
    PROVE  FirstRun' /\ NoEventInThePast'
<1>1. TypeOK /\ TypeOK'
      BY NextTypeOK DEF IInv
<1> DEFINE Goal == FirstRun /\ NoEventInThePast
<1> USE <1>1, DelaysAssumption, NobodyAssumption, TimesAssumption
        DEF IInv, TypeOK, PostingLocked, DueListed, FirstRun, NoEventInThePast,
            GetCurrentRealtime, Uids, Events, list, now, flow, wait, clock,
               post
<1>a1. CASE Tick
      BY <1>a1 DEF Tick, GetCurrentRealtime
<1>a2. ASSUME NEW d \in Delays, Schedule(d) PROVE Goal'
      BY <1>a2 DEF Schedule, InsertAndSignal
<1>a3. ASSUME NEW d \in Delays, ScheduleRealtime(d) PROVE Goal'
      BY <1>a3 DEF ScheduleRealtime, InsertAndSignal, GetCurrentRealtime
<1>a4. ASSUME NEW e \in m_events, Cancel(e) PROVE Goal'
      BY <1>a4 DEF Cancel
<1>a5. ASSUME NEW e \in m_events, Remove(e) PROVE Goal'
      BY <1>a5 DEF Remove
<1>a6. CASE Stop
      BY <1>a6 DEF Stop
<1>a7. CASE Run
      BY <1>a7 DEF Run
<1>a8. CASE SetOrigin
      BY <1>a8 DEF SetOrigin
<1>a9. CASE LoopEnds
      BY <1>a9 DEF LoopEnds
<1>a10. CASE LoopProcesses
       BY <1>a10 DEF LoopProcesses
<1>a11. CASE LoopWaits
       BY <1>a11 DEF LoopWaits, GetCurrentRealtime
<1>a12. CASE RunReturns
       BY <1>a12 DEF RunReturns
<1>a13. CASE PrepareWait
       BY <1>a13 DEF PrepareWait, IsEarliest, KeyLess
<1>a14. CASE TakeEvent
       BY <1>a14 DEF TakeEvent, IsEarliest, KeyLess
<1>a15. CASE HandlerReturns
       BY <1>a15 DEF HandlerReturns
<1>a16. CASE Synchronize
       BY <1>a16 DEF Synchronize
<1>a17. CASE SleepSignalled
       BY <1>a17 DEF SleepSignalled
<1>a18. CASE SleepTimesOut
       BY <1>a18 DEF SleepTimesOut, Returned
<1>a19. CASE CheckDrift
       BY <1>a19 DEF CheckDrift, Returned
<1>a20. CASE SpinReachesTime
       BY <1>a20 DEF SpinReachesTime, Returned
<1>a21. CASE SpinSignalled
       BY <1>a21 DEF SpinSignalled, Returned
<1>a22. ASSUME NEW t \in Threads, NEW d \in Delays, PostLock(t, d) PROVE Goal'
       BY <1>a22 DEF PostLock, GetCurrentRealtime
<1>a23. ASSUME NEW t \in Threads, PostInsert(t) PROVE Goal'
       BY <1>a23 DEF PostInsert
<1>a24. ASSUME NEW t \in Threads, PostSignal(t) PROVE Goal'
       BY <1>a24 DEF PostSignal, Idle
<1>a25. CASE UNCHANGED vars
     BY <1>a25 DEF vars
<1>a26. QED
     BY <1>a1, <1>a2, <1>a3, <1>a4, <1>a5, <1>a6, <1>a7, <1>a8, <1>a9, <1>a10,
        <1>a11, <1>a12, <1>a13, <1>a14, <1>a15, <1>a16, <1>a17, <1>a18, <1>a19,
        <1>a20, <1>a21, <1>a22, <1>a23, <1>a24, <1>a25
        DEF Next, Calls, MainThread, PosterUnlocks

(* With one Run no event is ever scheduled for a time that has passed; with two
   that is false (run realtime_again). *)
THEOREM NothingInThePast ==
    ASSUME MaxRuns = 1
    PROVE  Spec => []NoEventInThePast
<1>1. Init => FirstRun /\ NoEventInThePast
      BY TimesAssumption
         DEF Init, FirstRun, NoEventInThePast, GetCurrentRealtime, Idle
<1>2. IInv /\ FirstRun /\ NoEventInThePast /\ [Next]_vars
        => FirstRun' /\ NoEventInThePast'
      BY NextFirstRun
<1>3. QED
      BY InitIInv, NextIInv, <1>1, <1>2, PTL DEF Spec
==============================================================================
