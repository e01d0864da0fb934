---------------------- MODULE GrantedTimeWindowProperties ----------------------
(***************************************************************************)
(* What the granted time windows have to guarantee.                        *)
(***************************************************************************)
EXTENDS GrantedTimeWindow

Ids == Ranks \X (0..MaxCreated)
LbtsMessages == [rx : Nat, tx : Nat, finished : BOOLEAN, time : 0..MaxTime]

(* Every variable has its type. *)
TypeOK ==
    /\ m_lookAhead \in [Ranks -> 0..MaxTime]
    /\ m_grantedTime \in [Ranks -> Nat]
    /\ m_events \in [Ranks -> SUBSET [ts : 0..MaxTs, id : Ids]]
    /\ m_currentTs \in [Ranks -> 0..MaxTs]
    /\ m_stop \subseteq Ranks
    /\ pc \in [Ranks -> {"loop", "invoke", "receive", "gather", "grant", "finished"}]
    /\ g_txCount \in [Ranks -> Nat]
    /\ g_rxCount \in [Ranks -> Nat]
    /\ contribution \in [Ranks -> LbtsMessages]
    /\ m_pLBTS \in [Ranks -> LbtsMessages]
    /\ messages \subseteq [dst : Ranks, ts : 0..MaxTs, id : Ids]
    /\ created \in [Ranks -> 0..MaxCreated]
    /\ floor \in 0..MaxTime

(* No packet is on its way to a rank whose clock has passed the time at which
   it is to be received: the event from the past of mpi/doc/distributed.rst,
   which the receiver could only execute out of order. *)
NoMessageFromThePast ==
    \A m \in messages : m.ts >= m_currentTs[m.dst]

(* No rank leaves its loop while another one still has something to execute, or
   while a packet is on its way to one that has not been stopped. *)
FinishedTogether ==
    (\E r \in Ranks : pc[r] = "finished") =>
       messages = {} /\ \A r \in Ranks : IsLocalFinished(r)

(* The window of a rank never shrinks, though the ranks leave the Allgather at
   different times and the fast ones send packets before the slow ones have
   computed theirs. *)
WindowsGrow == [][\A r \in Ranks : m_grantedTime'[r] >= m_grantedTime[r]]_vars

(* The ranks together are one simulation in time-stamped order. *)
Pending == [r \in Ranks |-> m_events[r] \cup
              {[ts |-> m.ts, id |-> m.id] : m \in {x \in messages : x.dst = r}}]
Abstract == INSTANCE ParallelSimulation WITH now <- m_currentTs, pending <- Pending
ImplementsParallelSimulation == Abstract!Spec

(* Every rank leaves its loop in the end. *)
AllRanksFinish == <>(\A r \in Ranks : pc[r] = "finished")
===============================================================================
