---------------------- MODULE DefaultSimulatorProperties ----------------------
(***************************************************************************)
(* What DefaultSimulator has to guarantee to the models written on it.     *)
(***************************************************************************)
EXTENDS DefaultSimulator

EventKeys == [ts : Nat, uid : 0..(UidModulus - 1), impl : Impls]

QueueType ==
    /\ m_events \subseteq EventKeys
    /\ m_uid \in 0..(UidModulus - 1)
    /\ m_currentUid \in 0..(UidModulus - 1)
    /\ m_currentTs \in Nat
    /\ m_unscheduledEvents \in Int

SharedType ==
    /\ m_eventsWithContext \in Seq([delay : Delays, impl : Impls])
    /\ m_eventsWithContextEmpty \in BOOLEAN
    /\ mutex \in Threads \cup {Nobody}
    /\ posts \in Seq([delay : Delays, impl : Impls])

FlowType ==
    /\ m_stop \in BOOLEAN
    /\ pc \in {"outside", "run", "poll", "swap", "loop", "invoke", "destroy",
               "destroyInvoke", "dispose", "disposed"}
    /\ after \in {"outside", "run", "loop", "dispose"}
    /\ running \in Impls \cup {0}

ObjectsType ==
    /\ allocated \in 0..MaxEvents
    /\ m_cancel \subseteq Impls
    /\ refs \in [Impls -> Int]
    /\ ids \subseteq EventKeys
    /\ ran \subseteq Impls

(* Every variable has its type; uids keep to the width of m_uid. *)
TypeOK ==
    /\ QueueType
    /\ m_destroyEvents \in Seq(EventKeys)
    /\ SharedType
    /\ FlowType
    /\ ObjectsType

(* The event that ProcessOneEvent executes always has a greater key than the
   one before: simulated time never goes back and tied events keep the order
   of their uids, whatever the handlers scheduled, removed or posted. *)
EventsRunInKeyOrder ==
    [][<<m_currentTs, m_currentUid>>' # <<m_currentTs, m_currentUid>> =>
         KeyLess([ts |-> m_currentTs, uid |-> m_currentUid],
                 [ts |-> m_currentTs', uid |-> m_currentUid'])]_vars

(* IsExpired, which looks at the key of an EventId and never at the queue,
   tells exactly whether the event is still to run: it is listed, in the queue
   or among the destroy events, and not cancelled. *)
ExpiredExact ==
    pc # "disposed" =>
    \A id \in ids :
       ~IsExpired(id) <=> /\ id \in m_events \/ IsListed(id)
                          /\ id.impl \notin m_cancel

(* m_unscheduledEvents counts the queue: what Run asserts when it returns for
   lack of events (default-simulator-impl.cc:191) holds at every step. *)
UnscheduledExact ==
    pc # "disposed" => m_unscheduledEvents = Cardinality(m_events)

(* The number of places an impl is held in by the simulator. *)
Holders(i) ==
    Cardinality({e \in m_events : e.impl = i})
    + Cardinality({k \in DOMAIN m_destroyEvents : m_destroyEvents[k].impl = i})
    + Cardinality({k \in DOMAIN m_eventsWithContext :
                        m_eventsWithContext[k].impl = i})
    + IF running = i THEN 1 ELSE 0

(* Each impl has one reference per place that holds it and one for the EventId
   returned: nothing is freed while it is queued, posted or executing, nothing
   is released twice, and nothing leaks when the simulator is disposed. *)
RefsExact ==
    \A i \in 1..allocated :
       refs[i] = Holders(i) + IF \E id \in ids : id.impl = i THEN 1 ELSE 0

(* Expiry is final: once an event has run, or was cancelled or removed, its
   EventId stays expired and its handler is never notified (again), whatever is
   scheduled at the same time stamp later. *)
ExpiredIsFinal ==
    [][\A id \in ids :
          IsExpired(id) => /\ IsExpired(id)'
                           /\ id.impl \notin ran' \ ran]_vars

(* Events that other threads post with the same delay run in the order of the
   posts, although the list is handed over to the main thread in pieces: when
   one is notified, each earlier one has already left every queue. *)
Waiting(i) ==
    \/ \E e \in m_events : e.impl = i
    \/ \E k \in DOMAIN m_eventsWithContext : m_eventsWithContext[k].impl = i

PostsRunInOrder ==
    [][\A j, k \in DOMAIN posts :
          (j < k /\ posts[j].delay = posts[k].delay /\ posts[k].impl \in ran' \ ran)
          => ~Waiting(posts[j].impl)]_vars

(* Whatever was allocated ends outside every list: executed, removed or
   released by DoDispose, a post that no poll of the loop noticed included. *)
EverythingReleased ==
    \A i \in Impls : (allocated >= i) ~> (Holders(i) = 0)
===============================================================================
