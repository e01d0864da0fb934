# The ns-3 simulation core in TLA+

ns-3 is a discrete-event network simulator: a program builds nodes, devices and
protocols, all of which do nothing but schedule events on one simulator object
and react to them. Whether a result of ns-3 can be trusted therefore rests first
on a small part of the tree: the simulators that execute events in order, alone,
against the wall clock or split over several MPI processes, and the event lists
they use. This directory specifies that part in TLA+, and two of the mechanisms
that most traffic of a simulated network passes through: the flow control
between queue discs and devices, and the block acknowledgements of Wi-Fi. TLC
checks the modules on small instances; TLAPS proves their central properties.

Paths below are relative to `src/ns-3.45/src/` unless they start with `src/`.

## 1. Inventory of the system

| Part | State | Operations | Interacts with | What is hard | Status |
|---|---|---|---|---|---|
| Simulation kernel `core/model/default-simulator-impl.*`, `event-impl.*`, `event-id.*` | event list, clock, current uid, next uid, count of pending events, destroy events, posts of other threads, stop flag; cancel flag and reference count of each event | Schedule, ScheduleWithContext, ScheduleDestroy, Stop, Cancel, Remove, IsExpired, Run, Destroy, DoDispose | calls an event list; calls the handlers of events, which call back; other threads post to it under a mutex | re-entrance, the unlocked read of a flag, expiry decided from keys, ownership of events | modelled, proved |
| Event lists `core/model/scheduler.h`, `heap-scheduler.*`, `calendar-scheduler.*` | the pending events in a heap, in buckets of days, or in a sorted list | Insert, PeekNext, RemoveNext, Remove, IsEmpty; resizing, exchange of one for another | used by every simulator | order after any mixture of operations, boundaries of years and sizes | modelled and proved, with the sorted list and SetScheduler; map and priority queue are wrappers of the C++ library |
| Granted time windows `mpi/model/distributed-simulator-impl.*`, `granted-time-window-mpi-interface.*`, `point-to-point/model/point-to-point-remote-channel.cc` | per rank: event list, clock, lookahead, granted time, counts of packets sent and received | Run, CalculateLookAhead, SendPacket, ReceiveMessages, Stop | ranks through MPI messages and MPI_Allgather | packets in flight during a collective, zero lookahead, leaving the loop together | modelled, proved |
| Null messages `mpi/model/null-message-*`, `remote-channel-bundle*` | per rank: event list, clock, safe time; per neighbour: guarantee and the event that sends the next null message | Run, NullMessageEventHandler, CalculateGuaranteeTime, SendPacket, ReceiveMessages (both forms) | neighbours through MPI messages | guarantees given while a handler runs, mutual waiting | modelled |
| Real-time simulator `core/model/realtime-simulator-impl.*`, `wall-clock-synchronizer.*` | as the kernel, plus a condition, the wall clock and its origin | as the kernel, plus the schedule calls of other threads, Synchronize, Signal | other threads under a mutex, a condition variable | lost wake-ups, an earlier event during a wait, a Stop during a wait | modelled, proved |
| Traffic control and device queues `traffic-control/model/traffic-control-layer.cc`, `queue-disc.cc`, `fifo-queue-disc.cc`, `network/utils/net-device-queue-interface.*`, `dynamic-queue-limits.cc`, `queue.h`, the transmitter of `point-to-point/model/point-to-point-net-device.cc` | packets of the disc, the requeued one, quota; stopped flags, byte limits and their counters; the device queue and its transmitter | Send, Run, Requeue, Transmit; Enqueue, Dequeue, Stop, Wake, Queued, Completed; TransmitStart, TransmitComplete | the disc calls the device, whose queue calls back; wakes and notifications are events of their own | wakes that arrive late, requeueing, quota, wrapping counters | modelled, proved; discs with classes and the dropping disciplines are not |
| Wi-Fi block ack agreements `wifi/model/block-ack-*`, `originator-` and `recipient-block-ack-agreement.cc`, `qos-txop.cc`, `wifi-mac-queue.cc`, `ht/ht-frame-exchange-manager.cc` | both windows of sequence numbers, frames in flight, the EDCA queue and its lifetimes, the request in the queue, the recipient's scoreboard and buffer | queue, send, receive, acknowledge, miss an ack, expire, give up, request | the queue, the manager and the frame exchange manager call each other; frames go over a lossy medium | loss of frames and responses, sequence numbers that start over, expiry during an exchange | modelled for one established agreement |
| Rest of Wi-Fi: channel access, association, protection, multi-link, rate control | protocol state | protocol handlers | medium, timers | timeouts, contention | not modelled |
| Timers `core/model/timer.*`, `watchdog.*`, `trickle-timer.*` | one event and flags | Schedule, Cancel, Remove, Suspend, Resume, Ping | client of the kernel | suspension under the three destroy policies | not modelled |
| CSMA, bridge | shared channel with back-off; learned ports | Send, TransmitStart, Receive | kernel, channel, queues | back-off | not modelled |
| Internet stack, ad hoc routing, LTE, WiMAX, 802.15.4, applications | protocol state of each model | protocol handlers | kernel, devices, sockets | timeouts, retries, reordering | not modelled |
| Propagation, spectrum, mobility, energy, antenna, underwater channels | real numbers | numerical | devices | numerical | not modelled: no finite model says anything useful |
| Object system, packets, statistics, bindings, examples, the study in `src/ns-3.45/scratch` | configuration and output | - | everything | little beyond sequential code | not modelled |

What makes the modelled parts correct:

* **kernel**: events execute in the order of (time stamp, uid); `IsExpired` tells
  exactly whether an event is still to run and never goes back; each event is
  released once, by whoever is last to hold it; posts of other threads are
  neither lost nor reordered; the count that `Run` asserts is right at every step.
* **event list**: `RemoveNext` returns the earliest event after any sequence of
  operations.
* **parallel simulators**: no rank ever receives an event from its past, the
  ranks together execute what one sequential simulator would, each in order,
  and all of them end, together where the collective demands it.
* **real-time simulator**: an event scheduled by any thread at any moment is never
  slept over, no handler runs before the wall clock shows its time, and no thread
  can schedule an event that the simulation has passed.
* **traffic control**: the packets of a transmission queue leave in the order in
  which they were accepted; a device that is asked only while it is not stopped
  has room; byte counts stay right when they wrap; a stopped queue is woken and a
  disc is emptied.
* **block ack**: frames reach the layer above once and in order; whatever the
  originator takes for acknowledged was received; every frame is settled in the
  end, and the recipient is told what it need not wait for.

## 2. Modules

| Module | Models | Notes |
|---|---|---|
| `EventQueue` | the order on `Scheduler::EventKey` | shared by the kernel and the lists |
| `EventList` | abstract: the contract of `scheduler.h` | what the three lists implement |
| `HeapScheduler`, `MCHeapScheduler` | the heap: array, exchanges, `BottomUp`, `TopDown`, three operations | `removed` is a history variable; `Up` and `Down` are one pass of a loop, `Ups` and `Downs` the passes |
| `CalendarScheduler` | the calendar queue: days, years, both resizings, the sampling of a new width | a bucket is a set of events: whether it is sorted forwards or backwards does not show |
| `ListScheduler` | the sorted list | |
| `SetScheduler`, `SetSchedulerProperties`, `MCSetScheduler`, `SetSchedulerProofs` | one of the three lists at a time, and `DefaultSimulatorImpl::SetScheduler`, which moves the events to another | composes the three and implements `EventList` |
| `NumberLemmas` | nothing: induction on numbers and loops, stated over sets; remainders | used by the proofs |
| `DefaultSimulator`, `DefaultSimulatorProperties`, `MCDefaultSimulator`, `DefaultSimulatorProofs` | the kernel | see below |
| `ParallelSimulation` | abstract: every rank executes the events of its models, those on their way included, in order; what it executes for itself only moves its clock | what the parallel simulators promise |
| `GrantedTimeWindow`, `GrantedTimeWindowProperties`, `MCGrantedTimeWindow`, `GrantedTimeWindowProofs` | windows | implements `ParallelSimulation` |
| `NullMessage`, `NullMessageProperties`, `MCNullMessage`, `NullMessageProofs` | null messages | implements `ParallelSimulation`; the topology is chosen in the initial state |
| `RealtimeSimulator`, `RealtimeSimulatorProperties`, `MCRealtimeSimulator`, `RealtimeSimulatorProofs` | the loop against the wall clock, the synchronizer, the calls of handlers and of other threads | |
| `DynamicQueueLimits` | `ns3::DynamicQueueLimits` as functions on a record | used by `QueueDisc` |
| `QueueDisc`, `QueueDiscProperties`, `MCQueueDisc`, `QueueDiscProofs` | traffic control layer, FIFO queue disc, device queue interface, device queue and transmitter | |
| `BlockAckWindow` | `ns3::BlockAckWindow` and the distance of sequence numbers | used by both sides |
| `BlockAckOriginator`, `BlockAckRecipient` | the two sides of an agreement, as functions on records: their handlers run to the end | |
| `BlockAck`, `BlockAckProperties`, `MCBlockAck`, `BlockAckProofs` | the frame exchanges that compose them | |

Variables carry the names of the fields they stand for (`m_events`,
`m_grantedTime`, ...), actions those of the functions. `PROJECT.json` maps each
definition to its lines. Definitions whose comment says *Mutant of* are deliberate
mistakes: each property is known to fail when one of them replaces the original.

**Atomicity.** In `DefaultSimulator` the main thread owns everything except the
list of posts and its flag, so a call of the API is one step; it is cut where
another thread can come in between: at the read of `m_eventsWithContextEmpty`
without the mutex (a read that races with the write may return either value), at
the swap under the mutex, and between the append and the write of the flag that a
posting thread makes. Handlers are not atomic: `ProcessOneEvent` ends where
`Invoke` begins, after which the handler makes any sequence of calls until
`HandlerReturns`. In the parallel models the ranks share nothing, so a rank's step
reaches from one point where MPI can intervene to the next: sending, one receive,
entering the collective, leaving it. The collective completes in one step once
every rank has entered it, and ranks leave it one by one.

In `RealtimeSimulator` a step of the main thread is one hold of the mutex or one
look at the clock or the condition made without it; another thread locks and reads
the clock, inserts, and signals in three steps, because the main thread holds no
mutex in Synchronize and sees each of them. In `QueueDisc` the loop of `Run` is cut
at each packet; the wake of a device queue and the notification of transmitted
bytes are events of their own, scheduled for the same instant, which come in any
order with everything else. In `BlockAck` each handler is one step, as the simulator runs one
at a time; the steps between an exchange's start and its end are the arrival at
the recipient and the arrival of the response or the timeout.

**What is left out of them.** The execution context of an event and tracing.
The parallel
simulators repeat the kernel's Cancel, Remove, ScheduleDestroy and disposal; only
`DefaultSimulator` models those. MPI is external: in `GrantedTimeWindow` messages
on their way form a set (several receives are posted and complete in any order),
in `NullMessage` there is one channel per pair of ranks, with one receive posted,
so messages between two ranks stay in order. Polling may find nothing although
a message was sent. Packets are identified, never looked into.

*Real-time simulator.* Time is counted in jiffies. One other thread stands for any
number of them, since a thread keeps nothing between two holds of the mutex. The result of
`WallClockSynchronizer::SleepWait` is the inverse of what its comment says:
`wait_for` with a predicate returns the predicate (`wall-clock-synchronizer.cc:207-222`;
the comment is `wall-clock-synchronizer.h:109-115`, the use at `.cc:321-333`). The
model does what the code does; `SpinWait` looks at the condition again, so
nothing is lost by it. Not modelled: SYNC_HARD_LIMIT, destroy events and the
ownership of events, which the kernel's module covers.

*Traffic control.* A point-to-point device has one transmission queue; where the
model has several, each has such a transmitter of its own, which stands for the
devices with several queues. The counters of the byte limits are words that
wrap; `Posdiff` subtracts them as signed numbers, which compilers
translate to a subtraction that wraps. Not modelled: `Peek` and discs with classes, the
disciplines that drop by rate or delay, statistics, devices without flow control,
`ResetQueueLimits`.

*Block ack.* One link, one recipient, one traffic identifier, an established agreement.
The numbers of frames start over after `SEQNO_SPACE_SIZE`, at least four windows.
Frames that have no number yet are only counted. The lifetimes of frames end
in the order of the queue, as MaxDelay is one value. One threshold stands for both tests of a
lifetime, the wipe's `<= now` and `TtlExceeded`'s `now >`, and no exchange ends at the instant at
which an Expired trace is still due: each exchange begins with the wipe, so that the instant of
the boundary makes no difference to what is sent. A request fits the TXOP;
BaThreshold is 0, its default, so every A-MPDU asks for its block ack itself. The
response timer is as long as a response takes: no response is late. Best effort
and background traffic have a TXOP limit of zero, video and voice do not, as
`WifiMac::ConfigureDcf` sets them. Not modelled: the set-up, tear-down and
inactivity timeout of agreements, A-MSDUs, fragments, group addresses, RTS/CTS,
several links.

## 3. Runs

| Run | Instance | Shows |
|---|---|---|
| `kernel` | 2 posting threads, 3 events, delays 0 and 1, clock to 1 | all of the kernel's safety properties, and that everything allocated is released in the end |
| `schedulers` | 6 events, delays 0, 1, 8, up to 4 buckets | heap, calendar and sorted list, and every exchange of one for another, implement the contract (the heap until the first Remove); Remove takes out one event only |
| `heap_order` | 7 events, delays 0 and 1 | **violation**: after a Remove, RemoveNext can return an event that is not the earliest |
| `windows` | 3 ranks in a line, link delays 0 and 2, the last rank calls BoundLookAhead | safety, the refinement of `ParallelSimulation`, and termination of all ranks; windows of one time stamp and a lookahead from BoundLookAhead are part of it |
| `null_messages` | 3 ranks in a line, or 2 with a channel and one without neighbours; Stop at 3; a SchedulerTune of 0.75, so that the delay of a null message event is rounded | guarantees are kept and never late, Next() is never called on an empty queue, no packet from the past, the refinement of `ParallelSimulation`, every rank stops |
| `null_parallel` | 2 ranks with two channels between them | **violation**: a packet arrives before a guarantee given earlier |
| `realtime` | one other thread, 3 events, delays on both sides of the sleep margin, one call of Run | no lost wake-up, no early event, none in the past, every event runs |
| `realtime_again` | the same, Run called twice | **violation**: in the second Run an event can be scheduled in the past |
| `queue_disc` | 1 or 2 transmission queues, byte limits on any of them, device queues of 1 packet or 3 bytes, quota 2, 5 packets of 2 sizes | order, no drop, byte counts, every stop ends, the disc empties |
| `queue_header` | one queue of 4 bytes, a header of 1 byte | **violation**: the device drops a packet it was told it had room for |
| `block_ack` | 4 frames, window 3, 14 numbers that start over at the third frame, retry limit 2, four combinations of attributes | the six properties of `BlockAckProperties` that hold |
| `block_ack_quarter` | 10 frames, window 2, 8 numbers that start over at the ninth frame, retry limit 2 | **violation**: a frame that was lost is taken for acknowledged |

**Why the bounds are enough.** Three events are what the kernel's questions need:
two that are tied or whose order matters and one that the handler of the first
creates, cancels or removes; two threads are needed for posts that race with each
other as well as with the loop. The heap first has a last left child at two
events and two full levels below the root at seven, the fewest with which a Remove can
leave it out of order. The
calendar starts with 2 buckets and doubles at 5 events, so six events pass
through both resizings, and delay 8 leaves several years empty. Three ranks
in a line have a rank that forwards between two that do not know each other, with different
lookaheads. For the real-time simulator three events are one that is waited for, one that
arrives in the wait and one that a handler makes. Of five packets, one is being sent,
one is in the device queue, one is requeued and two are in the disc, whose quota
they exceed. Four frames are one more than a window, so the window moves
and its last frame meets a number beyond the end of the space; at a retry limit of 2
a frame is sent again once and then given up. Every bound is a constant (`Max...`) in the guard of the action that
would exceed it and limits only what a program may do, not what the simulator
does with it. `MaxTime` stands for GetMaximumSimulationTime and exceeds every
time a run can reach.

**Fairness.** Safety is checked under `Spec`. `FairSpec` adds, for the kernel,
weak fairness of the loop and of the teardown (the main thread runs, handlers
return, as a program without endless handlers does), strong fairness of
Destroy (a program that calls Run again and again ends some time, with
Simulator::Destroy), and weak fairness of unlocking (a thread holding the mutex
runs on). For the ranks: handlers return, the loop goes on, a collective that all
have entered completes (MPI's progress guarantee); a packet that is polled for
again and again arrives (strong fairness of Receive, since the rank leaves
the poll in between); MPI_Waitany returns when something has arrived. No fairness
is assumed of the program's calls: it may never schedule, send or stop.
For the real-time simulator: the clock ticks, the main thread goes on, a thread
that holds the mutex gives it back. For `QueueDisc`: the loop goes on, and
scheduled events (wakes, notifications, ends of transmissions) run. For
`BlockAck`: time passes, scheduled events run, the channel is granted in the end
and an exchange ends; the medium may lose everything for ever. There the fairness
is stated by guards, `[]<>~guard`: each step makes its guard false or does so after
finitely many repetitions, so this is the same as weak fairness, and TLC need
not evaluate ENABLED of steps made of loops. `BufferedIsForwarded` says itself what it
needs of the medium. Deadlock checking is off everywhere because the modelled
programs end, or nobody has to send.

## 4. Proofs

TLAPS proves the following for any number of threads, ranks, links, events and
delays. The assumptions are the ASSUMEs of the modules (types of the constants,
delays are natural numbers, at least two ranks, each link has two ends) and the
ones named here.

*Kernel* (`DefaultSimulatorProofs`).
`TypeCorrect`: `Spec => []TypeOK`, which includes that uids keep to their width.
`KeyOrder` and `ExpiredIsExact` assume `NoWrap`, that fewer events are allocated
than there are uids. Neither property is inductive: whether the next event is
later than the current one depends on everything that is queued, and that on the
uids still to be given out. The invariant `IInv` says therefore that `m_uid`
and the posts not yet inserted account for all allocations (`UidCounts`), that
every queued key lies between the current key and `m_uid` (`QueueAhead`), and
that an EventId ahead of the current key and not cancelled is queued (`IdsExact`).
Without `NoWrap` the order is false of the code, since `m_uid` is 32 bits wide.

Its second part uses `IInv` to prove who holds what. `CountIsExact`: a
Remove that passes the test of the key does take an event out of the queue, and
posts are inserted under uids nobody has, so the counter follows the size of the
queue. `RefsAreExact`: `Owned` says that every list holds an impl at most once, that a
post is not queued yet and that something is on the stack only inside a handler;
the references then add up step by step. `ExpiryIsFinal` adds `Named`: the EventId of
an impl that is held carries the key under which it is held.

`PostsKeepTheirOrder` is about the hand-over of the posts of other threads: the posts
that the main thread has not taken are the last ones, in their order
(`ListedPosts`), and those it has taken were inserted under uids that grow with
the position (`TakenPosts`); events of one time stamp run in the order of their uids.

*Event lists* (`SetSchedulerProofs`). `HeapStaysOrdered`, `SizeStaysExact`,
`NothingFallsBehind`, `HeapRemovesOne` and `SchedulersImplementTheContract`, the
refinement of `EventList`, for any number of events, any delays, any bound on the
number of buckets and any exchange of one class for another. The invariant `IInv`
names the set `E` of pending events: no uid occurs twice in it and all are below the
next one (`Pool`); the class in use holds exactly `E`, the others nothing
(`Share`); the array of the heap has each event once and, unless Remove was
called, no entry below a larger one (`HeapSound`); the calendar is the one that
`E`, a number of buckets, a width and a day determine, and no event lies before the
day (`StandsAt`, `CalendarSound`); the list is sorted (`ListSound`).
Most of the module is about loops. `BottomUp`: only the entry that
moves up may be smaller than its parent (`UpOrder`), and it stops before the array
ends. `TopDown`: only the entry that moves down may be larger than its
children (`DownOrder`); what it leaves is ordered if it started at the root, which is why
`HeapStaysOrdered` ends with the first Remove, and holds the same events wherever it started, which is all
that `HeapRemovesOne` needs. The calendar's search: the first
day with an event before that day's end holds the earliest event, since each bucket
has one day of a year and the days before it have none (`DayHit`); if no day of the
year has one, the earliest of all is taken. Sampling a new width takes events out of
a copy, so resizing changes the buckets and not the events. SetScheduler: the
n-th event taken out of the old list leaves the rest in it
(`HeapDrains`, `CalendarDrains`), and the new list holds the first n events after n
insertions (`HeapFills`, `CalendarFills`, `ListFills`). Assumed: `DelaysAssumption`, delays are
natural numbers (time stamps are unsigned), and `BoundsAssumption`.

*Granted time windows* (`GrantedTimeWindowProofs`). `TypeCorrect`,
`NothingFromThePast`, `FinishIsGlobal`, `WindowsNeverShrink`, `Refinement` (of
`ParallelSimulation`). The argument turns on `floor`, a history variable with
the smallest time of the last round whose counts agreed. No window reaches more
than one lookahead beyond it (`WindowsBounded`) and clocks stay in the windows
(`ClocksBounded`); a packet is sent at or after `floor` over a link no shorter
than the lookahead, so it is received at or after the end of every window
(`AheadOfFloor`). `floor` moves only when sent and received counts agree; they
are contributed at different moments, but a rank inside the collective changes
neither (`ContributionsExact`), so agreement means that nothing is on its way
(`CountsExact`). Two events never share an id (`IdsUnique`), which the refinement
needs because a packet that becomes an event must be a stutter, and no queued event
lies before the clock (`QueueAhead`).

*Null messages* (`NullMessageProofs`). `GuaranteesHold`, `NothingFromThePast`,
`GuaranteesLeadTheClock` and `Refinement` (of `ParallelSimulation`) assume `OneChannelEach`, that two ranks
share at most one channel; with two the first is false of the code (run
`null_parallel`). The invariant `NInv` says of every guarantee that a neighbour has
received or that is on its way why its sender will keep it (`Bound`): the
clock, plus the delay, has reached it (`HasReached`); or no handler is running and
nothing queued but the null message event of the bundle comes before it
(`IsIdle`); or the device is busy, and neither the end of its transmission nor that
event comes before it (`IsBusy`). A new guarantee is then at least as large as
those before it, and so is the receive time of the packet it goes with
(`WireOrder`). The clock of the receiver stays within its safe time, and that within
what it was guaranteed (`Ahead`), so that whatever a rank executes is no later than
any packet on its way to it. For the refinement `IdsOK` tells packets from null messages
and from each other, since a packet that becomes an event must be a stutter; it needs
`PositiveDelays`, because the code takes a packet due at time zero for a null message.
`NextHasAnEvent` holds for any topology and assumes a
Stop event on each rank.

*Real-time simulator* (`RealtimeSimulatorProofs`). `TypeCorrect`,
`WakeupsAreKept`, `EventsRunOnTime`, and `NothingInThePast` for a program that calls
Run once. `NoLostWakeup` alone is not inductive: `IInv` adds that a thread which posts
holds the mutex, that the event waited for is the head of the list or the
condition says otherwise, and that what is taken after a wait is due. That the
simulation is never ahead of the clock (`FirstRun`) is true of the first Run
only, which is what the run `realtime_again` shows.

*Traffic control* (`QueueDiscProofs`). `LimitsAccount`, `StopsEnd`, and
`NothingIsDropped` for a device without a header. The invariant says of each queue
how its bytes, counters modulo the word, stopped flags, pending notifications and
the transmitter's state hang together (`DeviceOK`, `LimitsOK`, `Served`, `HasRoom`);
a completion lowers the limit, so that the stop for bytes must be reconsidered
in the same step. Assumed: `MaxLimit` is less than half a word (the default is far
below), the device queue has room for one frame, and `HeaderSize = 0` in the third.

`PacketsStayInOrder`: up to the first packet that the device drops, what a queue
has transmitted, what it holds, the requeued packet and what the disc holds for it
are, one after the other, what the disc accepted for it (`OrderOK`). `OrderWithoutHeader` is
`InOrder` itself, for a device that drops none (`HeaderSize = 0`).

*Block acks* (`BlockAckProofs`). `AgreementHolds` (the invariant `IInv`),
`FramesStayInOrder`, `AcknowledgedAreReceived`, `RetriesStayWanted` and
`InFlightStaysCovered`, for any number of frames, any even space of sequence numbers, any
retry limit and every combination of attributes. All assume `NarrowWindow`, a window of less
than a quarter of the space: with a quarter the second is false of the code (run
`block_ack_quarter`), and the proof of the others rests on the same invariant.
The code compares remainders; the invariant speaks of the frames behind them. It says
at which frame each of three windows begins: the originator's at `a`
(`WindowOK`), the reordering buffer at `b` (`BufferingOK`), the scoreboard at `c`
(`ScoreboardOK`). The next frame is at most one window after `a` and `b` and two after `c`, so a
remainder tells which frame is meant (`DistanceAhead`, `OldIsBefore`, `SameNumber`).
None of the five properties is inductive: what keeps the three windows together is that
while the originator's is ahead of the buffer, or by more than a window ahead of the scoreboard,
a request is in the queue, on the air or waits for data (`TogetherOK`), and no new
frame is sent before it (`StartFrameExchange`). For that the request on the air must
stand for a window that is not ahead of the originator's, and its answer for one the
recipient has moved to (`BarOK`); frames on the air are those in flight and others that are
already behind `a` (`SentOK`); those in flight are exactly those stored, and come
before the ones that wait (`QueueOK`, `InFlightFirst`); and an expired frame whose
trace is still due is below every frame that may be sent again (`ExpiredOK`), because
the head of the queue expires first. `BufferingOK`, which
the lemmas show wherever frames are about to leave the buffer, implies the assertion of
`recipient-block-ack-agreement.cc:77`: no frame in the buffer is old. The proof is by
handler: for each operator of the two sides one lemma says what it does to `a`, `b` and `c`
(`HandleDiscardedMpduDoes`, `NotifyReceivedMpduDoes`, ...), the loops over frames by
`LoopKeeps`, and one lemma per action puts them together (`SendDataStep`, ...).

*Induction* (`NumberLemmas`). The library's induction theorems take an operator as
a parameter, which the provers cannot instantiate. The lemmas of this module are about a
set of numbers instead: that it contains every number (`Induction`, `InductionUpTo`,
`StrongInduction`), that the function a recursive definition asks for exists
(`RecursionUpTo`), and, for a loop given by the function that makes one pass, that it runs
(`LoopRuns`) and keeps what each pass keeps (`LoopKeeps`). They rest on the
well-foundedness of the order of the natural numbers. Every
loop of the event lists and of the block ack handlers is an instance, which is why those are
written as recursive functions over the number of passes.

*Only model-checked.* Liveness (that everything ends, is released, settled or
passed on: `EveryMpduIsSettled`, `BufferedIsForwarded` and their like), which the prover
cannot do, and what the five violations show.

## 5. What was found

* `HeapScheduler::Remove` (`core/model/heap-scheduler.cc:226`) restores the heap
  downwards only. With seven events it can leave an entry above a smaller
  one, after which `RemoveNext` returns events out of order (run `heap_order`).
  Programs that never call `Simulator::Remove` are not affected (run `schedulers`), and
  MapScheduler is the default.
* The guarantee sent with a packet (`mpi/model/null-message-simulator-impl.cc:554`)
  is computed in the middle of a handler. With two channels between the same ranks the handler can
  still send a packet that arrives earlier (run `null_parallel`). With one
  channel the device is busy, and its TransmitComplete event bounds the guarantee.
* `WallClockSynchronizer::DoSetOrigin` (`core/model/wall-clock-synchronizer.cc:103`)
  ignores the simulation time it is given, so the real time starts from zero
  at every `Run`. In a second one `m_currentTs` is positive while other threads take
  their time from a clock at zero: an event is scheduled in the past (run
  `realtime_again`).
* A device queue counted in bytes is asked whether an MTU fits
  (`network/utils/net-device-queue-interface.h:341`), and gets a frame with a
  header: it can drop a packet it should have stopped the disc for (run
  `queue_header`).
* `RecipientBlockAckAgreement::NotifyReceivedBar`
  (`wifi/model/recipient-block-ack-agreement.cc:190`) ignores a request whose number
  is half the space or more ahead of the scoreboard. The scoreboard may begin a window
  behind the originator's, which may give up the whole of it before a request
  arrives: with a window of a quarter of the space (1024 of 4096, the
  default for 802.11be) the distance can be exactly half. The scoreboard then stays
  behind, and once the numbers have started over its old bits acknowledge a frame
  that was lost (run `block_ack_quarter`). With fewer frames than a quarter the distance
  stays below half, and `AcknowledgedAreReceived` proves that no such state exists.

Limits of the code that the models make visible without a run of their own:
a parenthesis in the wrong place in `DoIncrementRetryCountOnTxFailure`
(`wifi/model/wifi-remote-station-manager.cc:1171`), by which the agreement is looked up for
identifier 0 or 1 only, so that for others retries are counted although the
attribute is off (`RetryIsCounted`);
uids wrap after 2^32 events (excluded by `NoWrap`, and by the bounds of `kernel`);
without a Stop event, a null message event that finds nothing else queued aborts
in `Next()` (`null-message-simulator-impl.cc:246`), which a Stop on every rank avoids (run
`null_messages`, property `NextIsDefined`); ranks with different stop times can wait for
ever for a neighbour that has gone; a `SchedulerTune` so small that its product with the delay
rounds to zero (`core/model/nstime.h:175`) makes null messages repeat at one time stamp, without end.

A queue disc whose loop ends for its quota is resumed by nothing: `NothingStranded`
excepts that case, and with two transmission queues packets can really stay behind.
A block ack request that is lost when nothing is in flight waits for new data,
and the recipient's buffer with it.

## 6. Not modelled, and what would come next

The tree has some 800,000 lines, most of them models of protocols and of physics;
the modules cover its core and two mechanisms on top of it. What a continuation
would take up, in this order:

1. `Timer` and `Watchdog` as clients of the kernel's contract: a suspended timer
   does not fire, a resumed one fires once; `timer.cc:170` treats one of the
   destroy policies differently.
2. The set-up and tear-down of block ack agreements (ADDBA, DELBA, inactivity
   timeouts at both ends) on top of `BlockAck`.
3. The connection states of TCP; loop freedom of AODV and DSDV under stale routes.
4. Proofs: which block ack properties survive a window of exactly a quarter; uids that
   wrap, when no two pending events are 2^32 allocations apart.

Numerical models (propagation, spectrum, mobility, energy, congestion control) and
pure input and output stay outside: a finite model of them shows nothing.
