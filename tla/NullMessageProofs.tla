--------------------------- MODULE NullMessageProofs ---------------------------
(***************************************************************************)
(* Proofs about NullMessage for any ranks, topologies, delays and tuning,  *)
(* as long as no two ranks share more than one channel.  A guarantee is    *)
(* kept because the sender can say of every one it has given why nothing   *)
(* it does before that time can reach the neighbour: see Bound.            *)
(***************************************************************************)
EXTENDS NullMessageProperties, SequenceTheorems, WellFoundedInduction, TLAPS

(* Ranks have at most one channel in common. *)
OneChannelEach ==
    \A T \in Topologies : \A c, d \in T : ChannelEnds[c] = ChannelEnds[d] => c = d

-------------------------------------------------------------------------------
(* The inductive invariant. *)

Kinds == {"model", "complete", "cancelled", "stop", "null"}
Ids   == (Ranks \cup Channels) \X Nat
EventType   == [ts : Nat, kind : Kinds, id : Ids]
MessageType == [time : Nat, guarantee : Nat, id : Ids]

EventsType   == m_events \in [Ranks -> SUBSET EventType]
ClocksType   == m_currentTs \in [Ranks -> Nat] /\ m_safeTime \in [Ranks -> Nat]
ReceivedType == m_guaranteeTime \in [Ranks -> [Ranks -> Nat]]
WireType     == wire \in [Ranks -> [Ranks -> Seq(MessageType)]]
ControlType  ==
    /\ channels \in Topologies
    /\ pc \in [Ranks -> {"start", "loop", "invoke", "poll", "stopped", "aborted"}]
    /\ created \in [Ranks -> Nat]

Types == EventsType /\ ClocksType /\ ReceivedType /\ WireType /\ ControlType

Tick(r, q) == Nearest(SchedulerTune * BundleDelay(r, q))
OwnNull(r, q) == {e \in m_events[r] : e.kind = "null" /\ e.id[1] = q}

(* Before Run a rank has neither sent anything nor set up null messages. *)
Fresh(r) ==
    pc[r] = "start" =>
       /\ m_currentTs[r] = 0
       /\ \A q \in Ranks : wire[r][q] = <<>> /\ m_guaranteeTime[q][r] = 0
       /\ \A e \in m_events[r] : e.kind # "null"

(* Only neighbours exchange messages. *)
Connected(r) ==
    /\ \A q \in Ranks : wire[r][q] # <<>> => q \in Neighbours(r)
    /\ \A e \in m_events[r] : e.kind = "null" => e.id[1] \in Neighbours(r)

(* There is one null message event for each neighbour, no later than a tick
   from now. *)
Ticking(r) ==
    pc[r] \notin {"start", "aborted"} =>
       \A q \in Neighbours(r) : \E n \in m_events[r] :
          OwnNull(r, q) = {n} /\ n.ts <= m_currentTs[r] + Tick(r, q)

(* Everything queued is ahead of the clock, the clock is within the safe time,
   and that is within what the neighbours guaranteed. *)
Ahead(r) ==
    /\ \A e \in m_events[r] : m_currentTs[r] <= e.ts
    /\ m_currentTs[r] <= m_safeTime[r] /\ m_safeTime[r] <= MaxTime
    /\ \A q \in Neighbours(r) : m_safeTime[r] <= m_guaranteeTime[r][q]

(* The guarantees r has given to q that are not superseded at q. *)
Sent(r, q) == {m_guaranteeTime[q][r]} \cup
              {wire[r][q][k].guarantee : k \in DOMAIN wire[r][q]}

(* Why r keeps its guarantee g to q, whose bundle has the delay D.  Either its
   clock has reached g - D; or it is between two events and none but the null
   message event of the bundle comes before g - D; or neither that event does
   nor the end of the transmission that keeps the device busy. *)
HasReached(r, q, g) == g <= m_currentTs[r] + BundleDelay(r, q)

IsIdle(r, q, g) ==
    /\ pc[r] # "invoke"
    /\ \A e \in m_events[r] \ OwnNull(r, q) : g <= e.ts + BundleDelay(r, q)

IsBusy(r, q, g) ==
    /\ \A e \in OwnNull(r, q) : g <= e.ts + BundleDelay(r, q)
    /\ \A c \in Bundle(r, q) :
          /\ <<r, c>> \in transmitting
          /\ \A e \in m_events[r] :
                e.kind = "complete" /\ e.id[1] = c => g <= e.ts + BundleDelay(r, q)

Bound(r, q, g) ==
    /\ g <= m_safeTime[r] + BundleDelay(r, q)
    /\ HasReached(r, q, g) \/ IsIdle(r, q, g) \/ IsBusy(r, q, g)

Bounded(r) == \A q \in Neighbours(r) : \A g \in Sent(r, q) : Bound(r, q, g)

RankOK(r) == Fresh(r) /\ Connected(r) /\ Ticking(r) /\ Ahead(r) /\ Bounded(r)

(* The message m respects the guarantee g. *)
Later(m, g) == g <= m.guarantee /\ (m.time > 0 => g <= m.time)

(* Every message respects the guarantees given before it. *)
WireOrder ==
    \A r, q \in Ranks : \A k \in DOMAIN wire[r][q] :
       /\ Later(wire[r][q][k], m_guaranteeTime[q][r])
       /\ \A j \in 1 .. (k - 1) : Later(wire[r][q][k], wire[r][q][j].guarantee)

NInv == Types /\ WireOrder /\ \A r \in Ranks : RankOK(r)

-------------------------------------------------------------------------------
(* Facts about the operators. *)

LEMMA MinIs ==
  ASSUME NEW S, S \subseteq Nat, S # {}
  PROVE  Min(S) \in S /\ \A x \in S : Min(S) <= x
<1>1. PICK x \in S : \A y \in S : ~ (<<y, x>> \in OpToRel(<, Nat))
  BY NatLessThanWellFounded, WFMin
<1>2. \A y \in S : x <= y
  <2> SUFFICES ASSUME NEW y \in S, y < x PROVE FALSE
    OBVIOUS
  <2>1. <<y, x>> \in Nat \X Nat /\ <<y, x>>[1] < <<y, x>>[2]
    OBVIOUS
  <2>2. <<y, x>> \in OpToRel(<, Nat)
    BY <2>1 DEF OpToRel
  <2> QED
    BY <1>1, <2>2
<1> QED
  BY <1>2 DEF Min

(* A bundle is the same seen from its two ends. *)
LEMMA BundlesAreSymmetric ==
  ASSUME NEW r \in Ranks, NEW q \in Ranks
  PROVE  /\ Bundle(q, r) = Bundle(r, q)
         /\ q \in Neighbours(r) <=> r \in Neighbours(q)
         /\ q \in Neighbours(r) => q # r
<1>1. {q, r} = {r, q}
  OBVIOUS
<1>2. Bundle(q, r) = Bundle(r, q)
  BY <1>1 DEF Bundle
<1> QED
  BY <1>2 DEF Neighbours, Bundle

LEMMA BundleDelayIs ==
  ASSUME channels \in Topologies, NEW r \in Ranks, NEW q \in Neighbours(r)
  PROVE  /\ BundleDelay(r, q) \in Nat
         /\ \A c \in Bundle(r, q) : BundleDelay(r, q) <= ChannelDelay[c]
<1> DEFINE S == {ChannelDelay[c] : c \in Bundle(r, q)}
<1>1. Bundle(r, q) \subseteq Channels /\ Bundle(r, q) # {}
  BY ChannelsAssumption DEF Bundle, Neighbours
<1>2. S \subseteq Nat /\ S # {}
  BY <1>1, ChannelsAssumption
<1>3. Min(S) \in S /\ \A x \in S : Min(S) <= x
  <2> HIDE DEF S
  <2> QED
    BY <1>2, MinIs
<1>4. BundleDelay(r, q) = Min(S)
  BY DEF BundleDelay
<1> QED
  BY <1>2, <1>3, <1>4

LEMMA TickType ==
  ASSUME channels \in Topologies, NEW r \in Ranks, NEW q \in Neighbours(r)
  PROVE  Tick(r, q) \in Nat
<1>1. BundleDelay(r, q) \in Nat /\ SchedulerTune \in Nat
  BY BundleDelayIs, NumbersAssumption
<1>2. SchedulerTune * BundleDelay(r, q) \in Nat
  BY <1>1
<1> QED
  BY <1>2 DEF Tick, Nearest

(* The guarantee is the first of what r may do next, and the delay. *)
LEMMA GuaranteeIs ==
  ASSUME Types, NEW r \in Ranks, NEW q \in Neighbours(r),
         NEW E, E \subseteq EventType
  PROVE  /\ Guarantee(r, q, E) \in Nat
         /\ \A e \in E : Guarantee(r, q, E) <= e.ts + BundleDelay(r, q)
         /\ Guarantee(r, q, E) <= m_safeTime[r] + BundleDelay(r, q)
         /\ \A g \in Int : (/\ \A e \in E : g <= e.ts + BundleDelay(r, q)
                            /\ g <= m_safeTime[r] + BundleDelay(r, q))
                           => g <= Guarantee(r, q, E)
<1> DEFINE S == {e.ts : e \in E} \cup {m_safeTime[r]}
<1>1. S \subseteq Nat /\ S # {}
  BY DEF Types, ClocksType, EventType
<1>2. Min(S) \in S /\ \A x \in S : Min(S) <= x
  <2> HIDE DEF S
  <2> QED
    BY <1>1, MinIs
<1>3. BundleDelay(r, q) \in Nat
  BY BundleDelayIs DEF Types, ControlType
<1>4. Guarantee(r, q, E) = Min(S) + BundleDelay(r, q)
  BY DEF Guarantee
<1>5. Min(S) \in Nat /\ m_safeTime[r] \in Nat /\ \A e \in E : e.ts \in Nat
  BY <1>1, <1>2
<1>6. Min(S) <= m_safeTime[r] /\ \A e \in E : Min(S) <= e.ts
  BY <1>2
<1>7. ASSUME NEW g \in Int, \A e \in E : g <= e.ts + BundleDelay(r, q),
             g <= m_safeTime[r] + BundleDelay(r, q)
      PROVE  g <= Min(S) + BundleDelay(r, q)
  BY <1>2, <1>7
<1> HIDE DEF S
<1> QED
  BY <1>3, <1>4, <1>5, <1>6, <1>7

(* The topology does not change, nor what depends on it. *)
LEMMA TopologyIsFixed ==
  ASSUME UNCHANGED channels
  PROVE  /\ \A r, q : Bundle(r, q)' = Bundle(r, q)
         /\ \A r : Neighbours(r)' = Neighbours(r)
         /\ \A r, q : BundleDelay(r, q)' = BundleDelay(r, q)
         /\ \A r, q : Tick(r, q)' = Tick(r, q)
BY DEF Bundle, Neighbours, BundleDelay, Tick, Nearest

(* The guarantees are numbers. *)
LEMMA SentType ==
  ASSUME Types, NEW r \in Ranks, NEW q \in Ranks
  PROVE  Sent(r, q) \subseteq Nat
<1>1. wire[r][q] \in Seq(MessageType)
  BY DEF Types, WireType
<1>2. \A k \in DOMAIN wire[r][q] : wire[r][q][k] \in MessageType
  BY <1>1
<1> QED
  BY <1>2 DEF Sent, Types, ReceivedType, MessageType

(* A message sent last, if it respects the guarantees before it. *)
LEMMA SendOrder ==
  ASSUME Types, WireOrder, NEW r \in Ranks, NEW q \in Ranks, NEW m \in MessageType,
         wire' = Send(r, q, m), UNCHANGED m_guaranteeTime,
         \A g \in Sent(r, q) : Later(m, g)
  PROVE  /\ WireType' /\ WireOrder'
         /\ Sent(r, q)' = Sent(r, q) \cup {m.guarantee}
         /\ \A s, p \in Ranks : ~(s = r /\ p = q) => /\ Sent(s, p)' = Sent(s, p)
                                                     /\ wire'[s][p] = wire[s][p]
<1> DEFINE w == wire[r][q]
           L == Len(w)
<1>1. w \in Seq(MessageType)
  BY DEF Types, WireType
<1>2. /\ wire'[r][q] = Append(w, m)
      /\ \A s, p \in Ranks : ~(s = r /\ p = q) => wire'[s][p] = wire[s][p]
  BY DEF Send, Types, WireType
<1>3. /\ Append(w, m) \in Seq(MessageType)
      /\ DOMAIN w = 1 .. L /\ L \in Nat
      /\ DOMAIN Append(w, m) = 1 .. (L + 1)
      /\ Append(w, m)[L + 1] = m
      /\ \A k \in 1 .. L : Append(w, m)[k] = w[k]
  BY <1>1
<1>4. WireType'
  <2>1. wire' = [wire EXCEPT ![r] = [@ EXCEPT ![q] = Append(w, m)]]
    BY DEF Send
  <2> QED
    BY <1>3, <2>1 DEF Types, WireType
<1>5. \A s, p \in Ranks : ~(s = r /\ p = q) => Sent(s, p)' = Sent(s, p)
  BY <1>2 DEF Sent
<1>6. Sent(r, q)' = Sent(r, q) \cup {m.guarantee}
  <2>1. Sent(r, q)' = {m_guaranteeTime[q][r]} \cup
                      {Append(w, m)[k].guarantee : k \in 1 .. (L + 1)}
    BY <1>2, <1>3 DEF Sent
  <2>2. Sent(r, q) = {m_guaranteeTime[q][r]} \cup {w[k].guarantee : k \in 1 .. L}
    BY <1>3 DEF Sent
  <2>3. {Append(w, m)[k].guarantee : k \in 1 .. (L + 1)}
           = {w[k].guarantee : k \in 1 .. L} \cup {m.guarantee}
    <3>1. \A k \in 1 .. (L + 1) : k \in 1 .. L \/ k = L + 1
      BY <1>3
    <3>2. 1 .. L \subseteq 1 .. (L + 1) /\ L + 1 \in 1 .. (L + 1)
      BY <1>3
    <3> HIDE DEF w, L
    <3>3. \A k \in 1 .. (L + 1) :
             Append(w, m)[k].guarantee = IF k = L + 1 THEN m.guarantee ELSE w[k].guarantee
      BY <1>3, <3>1
    <3>4. \A k \in 1 .. L : k # L + 1
      BY <1>3
    <3> QED
      BY <3>1, <3>2, <3>3, <3>4
  <2> QED
    BY <2>1, <2>2, <2>3
<1>7. WireOrder'
  <2> SUFFICES ASSUME NEW s \in Ranks, NEW p \in Ranks, NEW k \in DOMAIN wire'[s][p]
               PROVE  /\ Later(wire'[s][p][k], m_guaranteeTime[p][s])
                      /\ \A j \in 1 .. (k - 1) :
                            Later(wire'[s][p][k], wire'[s][p][j].guarantee)
    BY DEF WireOrder, Later
  <2>1. CASE ~(s = r /\ p = q)
    BY <1>2, <2>1 DEF WireOrder
  <2>2. CASE s = r /\ p = q /\ k \in 1 .. L
    <3>1. wire'[s][p][k] = w[k]
      BY <1>2, <1>3, <2>2
    <3>2. ASSUME NEW j \in 1 .. (k - 1) PROVE j \in 1 .. L /\ wire'[s][p][j] = w[j]
      <4>1. j \in 1 .. L
        BY <1>3, <2>2
      <4> QED
        BY <1>2, <1>3, <2>2, <4>1
    <3> QED
      BY <1>3, <2>2, <3>1, <3>2 DEF WireOrder
  <2>3. CASE s = r /\ p = q /\ k = L + 1
    <3>1. wire'[s][p][k] = m
      BY <1>2, <1>3, <2>3
    <3>2. ASSUME NEW j \in 1 .. (k - 1) PROVE j \in 1 .. L /\ wire'[s][p][j] = w[j]
      <4>1. j \in 1 .. L
        BY <1>3, <2>3
      <4> QED
        BY <1>2, <1>3, <2>3, <4>1
    <3>3. \A j \in 1 .. L : w[j].guarantee \in Sent(r, q)
      BY <1>3 DEF Sent
    <3>4. m_guaranteeTime[q][r] \in Sent(r, q)
      BY DEF Sent
    <3> QED
      BY <2>3, <3>1, <3>2, <3>3, <3>4
  <2>4. ASSUME s = r, p = q PROVE k \in 1 .. L \/ k = L + 1
    <3>1. k \in 1 .. (L + 1)
      BY <1>2, <1>3, <2>4
    <3> HIDE DEF L
    <3> QED
      BY <1>3, <3>1
  <2> HIDE DEF w, L
  <2> QED
    BY <2>1, <2>2, <2>3, <2>4
<1> QED
  BY <1>2, <1>4, <1>5, <1>6, <1>7

(* The head of a wire is received: its guarantee takes the place of the one
   before, and the rest respects it. *)
LEMMA ReceiveOrder ==
  ASSUME NInv, NEW r \in Ranks, NEW q \in Ranks, ReceiveMessage(r, q)
  PROVE  LET m == Head(wire[q][r])
         IN  /\ q \in Neighbours(r) /\ r \in Neighbours(q) /\ q # r
             /\ m \in MessageType /\ Later(m, m_guaranteeTime[r][q])
             /\ WireType' /\ ReceivedType' /\ WireOrder'
             /\ m_guaranteeTime'[r][q] = m.guarantee
             /\ \A s, p \in Ranks : ~(s = r /\ p = q) =>
                   m_guaranteeTime'[s][p] = m_guaranteeTime[s][p]
             /\ wire[q][r] # <<>> /\ Sent(q, r)' \subseteq Sent(q, r)
             /\ \A s, p \in Ranks : ~(s = q /\ p = r) =>
                   Sent(s, p)' = Sent(s, p) /\ wire'[s][p] = wire[s][p]
<1> DEFINE w == wire[q][r]
           L == Len(w)
           m == Head(w)
           T == Tail(w)
<1> USE DEF NInv
<1>0. wire[q][r] = w
  OBVIOUS
<1>1. /\ w \in Seq(MessageType) /\ w # <<>>
      /\ m_guaranteeTime' = [m_guaranteeTime EXCEPT ![r][q] = m.guarantee]
      /\ wire' = [wire EXCEPT ![q][r] = T]
  BY DEF ReceiveMessage, Types, WireType
<1>2. /\ L \in Nat /\ L >= 1 /\ DOMAIN w = 1 .. L
      /\ m = w[1] /\ m \in MessageType
      /\ T \in Seq(MessageType)
      /\ DOMAIN T = 1 .. (L - 1)
      /\ \A k \in 1 .. (L - 1) : T[k] = w[k + 1]
  BY <1>1, HeadTailProperties
<1>3. q \in Neighbours(r) /\ r \in Neighbours(q) /\ q # r
  BY <1>1, BundlesAreSymmetric DEF RankOK, Connected
<1>4. Later(m, m_guaranteeTime[r][q])
  BY <1>2 DEF WireOrder
<1>5. /\ wire'[q][r] = T
      /\ \A s, p \in Ranks : ~(s = q /\ p = r) => wire'[s][p] = wire[s][p]
      /\ m_guaranteeTime'[r][q] = m.guarantee
      /\ \A s, p \in Ranks : ~(s = r /\ p = q) =>
            m_guaranteeTime'[s][p] = m_guaranteeTime[s][p]
  BY <1>1 DEF Types, WireType, ReceivedType
<1> HIDE DEF w, L, m, T
<1>6. WireType'
  <2>1. wire' = [wire EXCEPT ![q] = [@ EXCEPT ![r] = T]]
    BY <1>1
  <2> QED
    BY <1>2, <2>1 DEF Types, WireType
<1>7. ReceivedType'
  <2>1. m_guaranteeTime' = [m_guaranteeTime EXCEPT ![r] = [@ EXCEPT ![q] = m.guarantee]]
    BY <1>1
  <2>2. m.guarantee \in Nat
    BY <1>2 DEF MessageType
  <2> QED
    BY <2>1, <2>2 DEF Types, ReceivedType
<1>8. \A s, p \in Ranks : ~(s = q /\ p = r) => Sent(s, p)' = Sent(s, p)
  BY <1>5 DEF Sent
<1>9. Sent(q, r)' \subseteq Sent(q, r)
  <2>1. Sent(q, r)' = {m.guarantee} \cup {T[k].guarantee : k \in 1 .. (L - 1)}
    <3>1. /\ DOMAIN wire'[q][r] = 1 .. (L - 1) /\ m_guaranteeTime'[r][q] = m.guarantee
          /\ wire'[q][r] = T
      BY <1>2, <1>5
    <3> QED
      BY <3>1 DEF Sent
  <2>2. \A k \in 1 .. L : w[k].guarantee \in Sent(q, r)
    BY <1>0, <1>2 DEF Sent
  <2>3. \A k \in 1 .. (L - 1) : k + 1 \in 1 .. L
    BY <1>2
  <2>4. 1 \in 1 .. L
    BY <1>2
  <2> QED
    BY <1>2, <2>1, <2>2, <2>3, <2>4
<1>10. WireOrder'
  <2> SUFFICES ASSUME NEW s \in Ranks, NEW p \in Ranks, NEW k \in DOMAIN wire'[s][p]
               PROVE  /\ Later(wire'[s][p][k], m_guaranteeTime'[p][s])
                      /\ \A j \in 1 .. (k - 1) :
                            Later(wire'[s][p][k], wire'[s][p][j].guarantee)
    BY DEF WireOrder, Later
  <2>1. CASE ~(s = q /\ p = r)
    BY <1>5, <2>1 DEF WireOrder
  <2>2. CASE s = q /\ p = r
    <3>1. /\ k \in 1 .. (L - 1) /\ k + 1 \in 1 .. L
          /\ wire'[s][p][k] = w[k + 1]
      BY <1>2, <1>5, <2>2
    <3>2. \A i \in 1 .. k : Later(w[k + 1], w[i].guarantee)
      <4>1. (k + 1) - 1 = k
        BY <3>1
      <4> QED
        BY <1>0, <1>2, <3>1, <4>1 DEF WireOrder
    <3>3. Later(w[k + 1], m.guarantee)
      BY <1>2, <3>1, <3>2
    <3>4. ASSUME NEW j \in 1 .. (k - 1)
          PROVE  Later(w[k + 1], wire'[s][p][j].guarantee)
      <4>1. j + 1 \in 1 .. k /\ j \in 1 .. (L - 1)
        BY <1>2, <3>1
      <4>2. wire'[s][p][j] = w[j + 1]
        BY <1>2, <1>5, <2>2, <4>1
      <4> QED
        BY <3>2, <4>1, <4>2
    <3> QED
      BY <1>5, <2>2, <3>1, <3>3, <3>4
  <2> QED
    BY <2>1, <2>2
<1> QED
  BY <1>0, <1>1, <1>2, <1>3, <1>4, <1>5, <1>6, <1>7, <1>8, <1>9, <1>10 DEF m

-------------------------------------------------------------------------------
(* The steps of a rank. *)

(* What belongs to the other ranks is left alone... *)
Local(r) ==
    \A s \in Ranks \ {r} :
       /\ m_events'[s] = m_events[s]
       /\ m_currentTs'[s] = m_currentTs[s] /\ m_safeTime'[s] = m_safeTime[s]
       /\ m_guaranteeTime'[s] = m_guaranteeTime[s]
       /\ pc'[s] = pc[s]
       /\ \A c : (<<s, c>> \in transmitting') <=> (<<s, c>> \in transmitting)

(* ... but for what they have sent, of which a message may be received. *)
Incoming(r) ==
    \A s \in Ranks \ {r} : \A q \in Ranks :
       /\ Sent(s, q)' \subseteq Sent(s, q)
       /\ wire[s][q] = <<>> => /\ wire'[s][q] = <<>>
                               /\ m_guaranteeTime'[q][s] = m_guaranteeTime[q][s]

LEMMA OtherRanks ==
  ASSUME NInv, NEW r \in Ranks, Local(r), Incoming(r), UNCHANGED channels,
         NEW s \in Ranks, s # r
  PROVE  RankOK(s)'
<1>1. /\ m_events'[s] = m_events[s] /\ m_currentTs'[s] = m_currentTs[s]
      /\ m_safeTime'[s] = m_safeTime[s] /\ m_guaranteeTime'[s] = m_guaranteeTime[s]
      /\ pc'[s] = pc[s]
      /\ \A c : (<<s, c>> \in transmitting') <=> (<<s, c>> \in transmitting)
  BY DEF Local
<1>2. \A q : OwnNull(s, q)' = OwnNull(s, q)
  BY <1>1 DEF OwnNull
<1>3. /\ Fresh(s) /\ Connected(s) /\ Ticking(s) /\ Ahead(s) /\ Bounded(s)
  BY DEF NInv, RankOK
<1>4. Fresh(s)'
  BY <1>1, <1>3 DEF Fresh, Incoming
<1>5. Connected(s)'
  BY <1>1, <1>3, TopologyIsFixed DEF Connected, Incoming
<1>6. Ticking(s)'
  BY <1>1, <1>2, <1>3, TopologyIsFixed DEF Ticking
<1>7. Ahead(s)'
  BY <1>1, <1>3, TopologyIsFixed DEF Ahead
<1>8. Bounded(s)'
  <2> SUFFICES ASSUME NEW q \in Neighbours(s), NEW g \in Sent(s, q)'
               PROVE  Bound(s, q, g)'
    BY TopologyIsFixed DEF Bounded
  <2>1. g \in Sent(s, q)
    BY DEF Incoming, Neighbours
  <2>2. Bound(s, q, g)
    BY <1>3, <2>1 DEF Bounded
  <2>3. /\ HasReached(s, q, g)' <=> HasReached(s, q, g)
        /\ IsIdle(s, q, g)' <=> IsIdle(s, q, g)
        /\ IsBusy(s, q, g)' <=> IsBusy(s, q, g)
    BY <1>1, <1>2, TopologyIsFixed DEF HasReached, IsIdle, IsBusy
  <2> QED
    BY <1>1, <2>2, <2>3, TopologyIsFixed DEF Bound
<1> QED
  BY <1>4, <1>5, <1>6, <1>7, <1>8 DEF RankOK

(* A step of r that receives nothing and keeps its own state in order. *)
LEMMA LocalStep ==
  ASSUME NInv, NEW r \in Ranks, Local(r), Incoming(r), UNCHANGED channels,
         Types', WireOrder', RankOK(r)'
  PROVE  NInv'
<1>1. \A s \in Ranks : RankOK(s)'
  BY OtherRanks
<1> QED
  BY <1>1 DEF NInv

LEMMA RankTypes ==
  ASSUME NInv, NEW r \in Ranks
  PROVE  /\ RankOK(r)
         /\ m_events[r] \subseteq EventType
         /\ \A e \in m_events[r] : e.ts \in Nat
         /\ m_currentTs[r] \in Nat /\ m_safeTime[r] \in Nat
         /\ \A q \in Ranks : m_guaranteeTime[r][q] \in Nat
         /\ \A q \in Neighbours(r) : /\ q \in Ranks
                                     /\ BundleDelay(r, q) \in Nat /\ Tick(r, q) \in Nat
                                     /\ Sent(r, q) \subseteq Nat
<1>1. Types /\ channels \in Topologies
  BY DEF NInv, Types, ControlType
<1>2. \A q \in Neighbours(r) : q \in Ranks
  BY DEF Neighbours
<1>3. \A q \in Neighbours(r) : /\ BundleDelay(r, q) \in Nat /\ Tick(r, q) \in Nat
                               /\ Sent(r, q) \subseteq Nat
  BY <1>1, <1>2, BundleDelayIs, TickType, SentType
<1> QED
  BY <1>1, <1>2, <1>3
     DEF NInv, Types, EventsType, ClocksType, ReceivedType, EventType

(* An event other than a null message event is taken. *)
LEMMA TakeKeeps ==
  ASSUME NInv, NEW r \in Ranks, NEW e \in m_events[r], Take(r, e), e.kind # "null",
         m_events' = [m_events EXCEPT ![r] = @ \ {e}],
         NEW x \in {"invoke", "poll"}, pc' = [pc EXCEPT ![r] = x],
         transmitting' = IF e.kind = "complete"
                         THEN transmitting \ {<<r, e.id[1]>>} ELSE transmitting,
         UNCHANGED <<wire, channels>>
  PROVE  NInv'
<1> USE RankTypes, TopologyIsFixed
<1>1. /\ pc[r] = "loop" /\ e.ts <= m_safeTime[r]
      /\ \A f \in m_events[r] : e.ts <= f.ts
      /\ m_currentTs' = [m_currentTs EXCEPT ![r] = e.ts]
      /\ UNCHANGED <<m_safeTime, m_guaranteeTime, created>>
  BY DEF Take
<1>2. /\ m_events'[r] = m_events[r] \ {e} /\ m_currentTs'[r] = e.ts /\ pc'[r] = x
      /\ e.ts \in Nat /\ m_currentTs[r] <= e.ts
  BY <1>1 DEF NInv, Types, EventsType, ClocksType, ControlType, RankOK, Ahead
<1>3. Local(r) /\ Incoming(r)
  BY <1>1 DEF Local, Incoming, Sent, NInv, Types, EventsType, ClocksType, ControlType
<1>4. Types' /\ WireOrder'
  BY <1>1, <1>2 DEF NInv, Types, EventsType, ClocksType, ReceivedType, WireType,
                    ControlType, WireOrder
<1>5. \A q : OwnNull(r, q)' = OwnNull(r, q)
  BY <1>2 DEF OwnNull
<1>6. Fresh(r)' /\ Connected(r)'
  BY <1>2 DEF RankOK, Fresh, Connected
<1>7. Ticking(r)'
  <2> SUFFICES ASSUME NEW q \in Neighbours(r)
               PROVE  \E n \in m_events'[r] : /\ OwnNull(r, q) = {n}
                                              /\ n.ts <= m_currentTs'[r] + Tick(r, q)
    BY <1>5 DEF Ticking
  <2>1. PICK n \in m_events[r] : /\ OwnNull(r, q) = {n}
                                 /\ n.ts <= m_currentTs[r] + Tick(r, q)
    BY <1>1 DEF RankOK, Ticking
  <2>2. n # e
    BY <2>1 DEF OwnNull
  <2> QED
    BY <1>2, <2>1, <2>2
<1>8. Ahead(r)'
  BY <1>1, <1>2 DEF RankOK, Ahead
<1>9. Bounded(r)'
  <2> SUFFICES ASSUME NEW q \in Neighbours(r), NEW g \in Sent(r, q)
               PROVE  Bound(r, q, g)'
    BY <1>1 DEF Bounded, Sent
  <2>1. Bound(r, q, g) /\ g \in Nat
    BY DEF RankOK, Bounded
  <2>2. CASE HasReached(r, q, g)
    BY <1>1, <1>2, <2>1, <2>2 DEF Bound, HasReached
  <2>3. CASE IsIdle(r, q, g)
    <3>1. g <= e.ts + BundleDelay(r, q)
      BY <2>3 DEF IsIdle, OwnNull
    <3> QED
      BY <1>1, <1>2, <2>1, <3>1 DEF Bound, HasReached
  <2>4. CASE IsBusy(r, q, g)
    <3>1. CASE e.kind = "complete" /\ e.id[1] \in Bundle(r, q)
      <4>1. g <= e.ts + BundleDelay(r, q)
        BY <2>4, <3>1 DEF IsBusy
      <4> QED
        BY <1>1, <1>2, <2>1, <4>1 DEF Bound, HasReached
    <3>2. CASE ~(e.kind = "complete" /\ e.id[1] \in Bundle(r, q))
      <4>1. \A c \in Bundle(r, q) : <<r, c>> \in transmitting'
        BY <2>4, <3>2 DEF IsBusy
      <4>2. IsBusy(r, q, g)'
        BY <1>2, <1>5, <2>4, <4>1 DEF IsBusy
      <4> QED
        BY <1>1, <2>1, <4>2 DEF Bound
    <3> QED
      BY <3>1, <3>2
  <2> QED
    BY <2>1, <2>2, <2>3, <2>4 DEF Bound
<1> QED
  BY <1>3, <1>4, <1>6, <1>7, <1>8, <1>9, LocalStep DEF RankOK

(* The handler of a null message event: what it promises is what r may do
   next, and it has kept what it promised before. *)
LEMMA NullMessageKeeps ==
  ASSUME NInv, NEW r \in Ranks, NEW e \in m_events[r], ProcessNullMessageEvent(r, e),
         UNCHANGED channels
  PROVE  NInv'
<1> DEFINE q0   == e.id[1]
           rest == m_events[r] \ {e}
           G    == Guarantee(r, q0, rest)
           m    == NullMessage(r, G)
           n    == NullMessageEvent(r, q0, e.ts)
<1> USE RankTypes, TopologyIsFixed
<1>1. /\ pc[r] = "loop" /\ e.kind = "null" /\ e.ts <= m_safeTime[r]
      /\ \A f \in m_events[r] : e.ts <= f.ts
      /\ m_currentTs' = [m_currentTs EXCEPT ![r] = e.ts]
      /\ UNCHANGED <<m_safeTime, m_guaranteeTime, created, transmitting>>
  BY DEF ProcessNullMessageEvent, Take
<1>2. q0 \in Neighbours(r) /\ q0 \in Ranks
  BY <1>1 DEF RankOK, Connected
<1>3. OwnNull(r, q0) = {e}
  <2>1. e \in OwnNull(r, q0)
    BY <1>1 DEF OwnNull
  <2> QED
    BY <1>1, <1>2, <2>1 DEF RankOK, Ticking
<1>4. /\ e.ts \in Nat /\ m_currentTs[r] <= e.ts
      /\ m_currentTs'[r] = e.ts
  BY <1>1 DEF NInv, Types, ClocksType, RankOK, Ahead
<1>5. /\ n.ts = e.ts + Tick(r, q0) /\ n.kind = "null" /\ n.id = <<q0, 0>>
      /\ n \in EventType
  BY <1>2, <1>4 DEF NullMessageEvent, Tick, EventType, Kinds, Ids
<1>6. /\ G \in Nat
      /\ \A f \in rest : G <= f.ts + BundleDelay(r, q0)
      /\ G <= m_safeTime[r] + BundleDelay(r, q0)
      /\ \A g \in Int : (/\ \A f \in rest : g <= f.ts + BundleDelay(r, q0)
                         /\ g <= m_safeTime[r] + BundleDelay(r, q0)) => g <= G
  BY <1>2, GuaranteeIs DEF NInv
<1>7. ASSUME NEW g \in Sent(r, q0) PROVE g \in Nat /\ g <= G
  <2>1. g \in Nat /\ Bound(r, q0, g)
    BY <1>2 DEF RankOK, Bounded
  <2>2. \A f \in rest : g <= f.ts + BundleDelay(r, q0)
    <3>1. CASE HasReached(r, q0, g)
      BY <1>2, <2>1, <3>1 DEF HasReached, RankOK, Ahead
    <3>2. CASE IsIdle(r, q0, g)
      BY <1>3, <3>2 DEF IsIdle
    <3>3. CASE IsBusy(r, q0, g)
      BY <1>1, <1>2, <1>3, <2>1, <3>3 DEF IsBusy
    <3> QED
      BY <2>1, <3>1, <3>2, <3>3 DEF Bound
  <2>3. g <= m_safeTime[r] + BundleDelay(r, q0) /\ g \in Int
    BY <2>1 DEF Bound
  <2> HIDE DEF G, rest, q0
  <2> QED
    BY <1>6, <2>1, <2>2, <2>3
<1>8. m \in MessageType /\ m.guarantee = G /\ m.time = 0
  BY <1>6 DEF NullMessage, MessageType, Ids
<1> HIDE DEF n, m, G
<1>9. ASSUME rest # {}, wire' = Send(r, q0, m),
             m_events' = [m_events EXCEPT ![r] = rest \cup {n}],
             pc' = [pc EXCEPT ![r] = "poll"]
      PROVE  NInv'
  <2>1. /\ WireType' /\ WireOrder'
        /\ Sent(r, q0)' = Sent(r, q0) \cup {G}
        /\ \A s, p \in Ranks : ~(s = r /\ p = q0) => /\ Sent(s, p)' = Sent(s, p)
                                                     /\ wire'[s][p] = wire[s][p]
    BY <1>1, <1>2, <1>7, <1>8, <1>9, SendOrder DEF NInv, Later
  <2>2. m_events'[r] = rest \cup {n} /\ pc'[r] = "poll"
    BY <1>9 DEF NInv, Types, EventsType, ControlType
  <2>3. Local(r) /\ Incoming(r)
    BY <1>1, <1>9, <2>1 DEF Local, Incoming, NInv, Types, EventsType, ClocksType, ControlType
  <2>4. Types'
    BY <1>1, <1>4, <1>5, <1>9, <2>1
       DEF NInv, Types, EventsType, ClocksType, ReceivedType, ControlType
  <2>5. /\ OwnNull(r, q0)' = {n}
        /\ \A q : q # q0 => OwnNull(r, q)' = OwnNull(r, q)
    BY <1>3, <1>5, <2>2 DEF OwnNull
  <2>6. Fresh(r)'
    BY <2>2 DEF Fresh
  <2>7. Connected(r)'
    <3>1. \A q \in Ranks : wire'[r][q] # <<>> => q \in Neighbours(r)
      BY <1>2, <2>1 DEF RankOK, Connected
    <3> QED
      BY <1>2, <1>5, <2>2, <3>1 DEF RankOK, Connected
  <2>8. Ticking(r)'
    <3> SUFFICES ASSUME NEW q \in Neighbours(r)
                 PROVE  \E k \in m_events'[r] : /\ OwnNull(r, q)' = {k}
                                                /\ k.ts <= m_currentTs'[r] + Tick(r, q)
      BY DEF Ticking
    <3>1. CASE q = q0
      BY <1>4, <1>5, <2>2, <2>5, <3>1
    <3>2. CASE q # q0
      <4>1. PICK k \in m_events[r] : /\ OwnNull(r, q) = {k}
                                     /\ k.ts <= m_currentTs[r] + Tick(r, q)
        BY <1>1 DEF RankOK, Ticking
      <4>2. k # e
        BY <3>2, <4>1 DEF OwnNull
      <4> QED
        BY <1>4, <2>2, <2>5, <3>2, <4>1, <4>2
    <3> QED
      BY <3>1, <3>2
  <2>9. Ahead(r)'
    BY <1>1, <1>2, <1>4, <1>5, <2>2 DEF RankOK, Ahead
  <2>10. Bounded(r)'
    <3> SUFFICES ASSUME NEW q \in Neighbours(r), NEW g \in Sent(r, q)'
                 PROVE  Bound(r, q, g)'
      BY DEF Bounded
    <3>1. CASE q = q0
      <4>1. g \in Nat /\ g <= G
        BY <1>6, <1>7, <2>1, <3>1
      <4>2. \A f \in rest : g <= f.ts + BundleDelay(r, q0)
        BY <1>2, <1>6, <4>1
      <4>3. g <= m_safeTime[r] + BundleDelay(r, q0)
        BY <1>2, <1>6, <4>1
      <4> QED
        BY <1>1, <2>2, <2>5, <3>1, <4>2, <4>3 DEF Bound, IsIdle
    <3>2. CASE q # q0
      <4>1. g \in Nat /\ Bound(r, q, g)
        BY <2>1, <3>2 DEF RankOK, Bounded
      <4>2. CASE HasReached(r, q, g)
        BY <1>1, <1>4, <4>1, <4>2 DEF Bound, HasReached
      <4>3. CASE IsIdle(r, q, g)
        <5>1. g <= e.ts + BundleDelay(r, q)
          BY <3>2, <4>3 DEF IsIdle, OwnNull
        <5> QED
          BY <1>1, <1>4, <4>1, <5>1 DEF Bound, HasReached
      <4>4. CASE IsBusy(r, q, g)
        <5>1. IsBusy(r, q, g)'
          BY <1>1, <1>5, <2>2, <2>5, <3>2, <4>4 DEF IsBusy
        <5> QED
          BY <1>1, <4>1, <5>1 DEF Bound
      <4> QED
        BY <4>1, <4>2, <4>3, <4>4 DEF Bound
    <3> QED
      BY <3>1, <3>2
  <2> QED
    BY <2>1, <2>3, <2>4, <2>6, <2>7, <2>8, <2>9, <2>10, LocalStep DEF RankOK
<1>10. ASSUME rest = {}, m_events' = [m_events EXCEPT ![r] = rest],
              pc' = [pc EXCEPT ![r] = "aborted"], UNCHANGED wire
       PROVE  NInv'
  <2>1. m_events'[r] = {} /\ pc'[r] = "aborted"
    BY <1>10 DEF NInv, Types, EventsType, ControlType
  <2>2. Local(r) /\ Incoming(r)
    BY <1>1, <1>10 DEF Local, Incoming, Sent, NInv, Types, EventsType, ClocksType, ControlType
  <2>3. Types' /\ WireOrder'
    BY <1>1, <1>4, <1>10 DEF NInv, Types, EventsType, ClocksType, ReceivedType, WireType,
                             ControlType, WireOrder
  <2>4. Fresh(r)' /\ Connected(r)' /\ Ticking(r)'
    BY <1>10, <2>1 DEF RankOK, Fresh, Connected, Ticking
  <2>5. Ahead(r)'
    BY <1>1, <1>4, <2>1 DEF RankOK, Ahead
  <2>6. Bounded(r)'
    BY <1>1, <1>10, <2>1 DEF RankOK, Bounded, Bound, Sent, IsIdle
  <2> QED
    BY <2>2, <2>3, <2>4, <2>5, <2>6, LocalStep DEF RankOK
<1> QED
  BY <1>9, <1>10 DEF ProcessNullMessageEvent, n, m, G

(* A handler schedules an event: only what the clock or a transmission keeps
   can be outstanding at that time. *)
LEMMA ScheduleKeeps ==
  ASSUME NInv, NEW r \in Ranks, NEW d \in Delays, Schedule(r, d), UNCHANGED channels
  PROVE  NInv'
<1> DEFINE n == [ts |-> m_currentTs[r] + d, kind |-> "model", id |-> <<r, created[r] + 1>>]
<1> USE RankTypes, TopologyIsFixed
<1>1. /\ pc[r] = "invoke" /\ created' = [created EXCEPT ![r] = @ + 1]
      /\ m_events' = [m_events EXCEPT ![r] = @ \cup {n}]
      /\ UNCHANGED <<m_currentTs, m_safeTime, m_guaranteeTime, pc, transmitting, wire>>
  BY DEF Schedule, Create
<1>2. n \in EventType /\ n.ts >= m_currentTs[r] /\ n.kind = "model"
  BY NumbersAssumption DEF NInv, Types, ControlType, EventType, Kinds, Ids
<1> HIDE DEF n
<1>3. m_events'[r] = m_events[r] \cup {n}
  BY <1>1 DEF NInv, Types, EventsType
<1>4. Local(r) /\ Incoming(r)
  <2>1. \A q \in Ranks \ {r} : m_events'[q] = m_events[q] /\ created'[q] = created[q]
    <3>1. m_events \in [Ranks -> SUBSET EventType] /\ created \in [Ranks -> Nat]
      BY DEF NInv, Types, EventsType, ControlType
    <3> QED
      BY <1>1, <3>1
  <2>2. Local(r)
    BY <1>1, <2>1 DEF Local
  <2>3. Incoming(r)
    BY <1>1 DEF Incoming, Sent
  <2> QED
    BY <2>2, <2>3
<1>5. Types' /\ WireOrder'
  <2>1. EventsType'
    BY <1>1, <1>2 DEF NInv, Types, EventsType
  <2>2. Types'
    BY <1>1, <2>1 DEF NInv, Types, ClocksType, ReceivedType, WireType, ControlType
  <2>3. WireOrder'
    BY <1>1 DEF NInv, WireOrder
  <2> QED
    BY <2>2, <2>3
<1>6. \A q : OwnNull(r, q)' = OwnNull(r, q)
  BY <1>2, <1>3 DEF OwnNull
<1>7. Fresh(r)' /\ Connected(r)' /\ Ticking(r)' /\ Ahead(r)'
  <2>1. Fresh(r)' /\ Connected(r)'
    BY <1>1, <1>2, <1>3 DEF RankOK, Fresh, Connected
  <2>2. Ticking(r)'
    BY <1>1, <1>3, <1>6 DEF RankOK, Ticking
  <2>3. Ahead(r)'
    BY <1>1, <1>2, <1>3 DEF RankOK, Ahead
  <2> QED
    BY <2>1, <2>2, <2>3
<1>8. Bounded(r)'
  <2> SUFFICES ASSUME NEW q \in Neighbours(r), NEW g \in Sent(r, q)
               PROVE  Bound(r, q, g)'
    BY <1>1 DEF Bounded, Sent
  <2>1. Bound(r, q, g) /\ ~IsIdle(r, q, g)
    BY <1>1 DEF RankOK, Bounded, IsIdle
  <2>2. IsBusy(r, q, g) => IsBusy(r, q, g)'
    BY <1>1, <1>2, <1>3, <1>6 DEF IsBusy
  <2>3. HasReached(r, q, g) => HasReached(r, q, g)'
    BY <1>1 DEF HasReached
  <2> QED
    BY <1>1, <2>1, <2>2, <2>3 DEF Bound
<1> QED
  BY <1>4, <1>5, <1>7, <1>8, LocalStep DEF RankOK

(* A packet is sent.  The only device of the bundle was free, so the clock has
   reached what was promised; the new promise is kept by the device, which is
   busy until the end of the transmission, and by the null message event. *)
LEMMA SendPacketKeeps ==
  ASSUME OneChannelEach, NInv, NEW r \in Ranks, NEW q0 \in Ranks, NEW c \in channels,
         NEW x \in TxTimes, SendPacket(r, q0, c, x), UNCHANGED channels
  PROVE  NInv'
<1> DEFINE now == m_currentTs[r]
           D   == BundleDelay(r, q0)
           complete == [ts |-> now + x + InterframeGap, kind |-> "complete", id |-> <<c, 0>>]
           pending == {e \in m_events[r] : e.kind = "null" /\ e.id[1] = q0}
           cancelled == {[e EXCEPT !.kind = "cancelled"] : e \in pending}
           n == NullMessageEvent(r, q0, now)
           E == m_events[r] \cup {complete}
           G == Guarantee(r, q0, E)
           m == [time |-> now + x + ChannelDelay[c], id |-> <<r, created[r] + 1>>,
                 guarantee |-> G]
<1> USE RankTypes, TopologyIsFixed
<1>1. /\ pc[r] = "invoke" /\ created' = [created EXCEPT ![r] = @ + 1]
      /\ c \in Bundle(r, q0) /\ <<r, c>> \notin transmitting
      /\ transmitting' = transmitting \cup {<<r, c>>}
      /\ wire' = Send(r, q0, m)
      /\ m_events' = [m_events EXCEPT ![r] =
            (@ \ pending) \cup cancelled \cup {complete, n}]
      /\ UNCHANGED <<m_currentTs, m_safeTime, m_guaranteeTime, pc>>
  BY DEF SendPacket, Create
<1>2. q0 \in Neighbours(r) /\ c \in Channels
  BY <1>1, ChannelsAssumption DEF Neighbours, NInv, Types, ControlType
<1>3. /\ now \in Nat /\ D \in Nat /\ x \in Nat /\ InterframeGap \in Nat
      /\ ChannelDelay[c] \in Nat /\ D <= ChannelDelay[c] /\ Tick(r, q0) \in Nat
      /\ created[r] + 1 \in Nat
  BY <1>1, <1>2, BundleDelayIs, ChannelsAssumption, NumbersAssumption
     DEF NInv, Types, ControlType
<1>4. /\ complete \in EventType /\ complete.ts >= now
      /\ complete.kind = "complete" /\ complete.id[1] = c
  BY <1>2, <1>3 DEF EventType, Kinds, Ids
<1>5. /\ n.ts = now + Tick(r, q0) /\ n.kind = "null" /\ n.id = <<q0, 0>>
      /\ n \in EventType
  BY <1>2, <1>3 DEF NullMessageEvent, Tick, EventType, Kinds, Ids
<1>6. pending = OwnNull(r, q0)
  BY DEF OwnNull
<1>7. \A f \in cancelled : /\ f \in EventType /\ f.kind = "cancelled"
                           /\ \E e \in m_events[r] : f.ts = e.ts
  BY DEF EventType, Kinds
<1>8. \A e \in m_events[r] : now <= e.ts
  BY DEF RankOK, Ahead
<1>9. /\ G \in Nat
      /\ \A f \in E : G <= f.ts + D
      /\ G <= m_safeTime[r] + D
      /\ \A g \in Int : (/\ \A f \in E : g <= f.ts + D
                         /\ g <= m_safeTime[r] + D) => g <= G
  <2>1. E \subseteq EventType
    BY <1>4
  <2> HIDE DEF E
  <2> QED
    BY <1>2, <2>1, GuaranteeIs DEF NInv
<1>10. ASSUME NEW g \in Sent(r, q0)
       PROVE  g \in Nat /\ g <= G /\ g <= now + D
  <2>1. g \in Nat /\ Bound(r, q0, g)
    BY <1>2 DEF RankOK, Bounded
  <2>2. ~IsIdle(r, q0, g) /\ ~IsBusy(r, q0, g)
    BY <1>1 DEF IsIdle, IsBusy
  <2>3. g <= now + D /\ g <= m_safeTime[r] + D /\ g \in Int
    BY <2>1, <2>2 DEF Bound, HasReached
  <2>4. \A f \in E : now <= f.ts /\ f.ts \in Nat
    BY <1>4, <1>8 DEF EventType
  <2> HIDE DEF E, G, D, now
  <2>5. \A f \in E : g <= f.ts + D
    BY <1>3, <2>3, <2>4
  <2> QED
    BY <1>9, <2>1, <2>3, <2>5
<1>11. /\ m \in MessageType /\ m.guarantee = G
       /\ m.time = now + x + ChannelDelay[c]
  BY <1>3, <1>9 DEF MessageType, Ids
<1>12. ASSUME NEW g \in Sent(r, q0) PROVE Later(m, g)
  <2>1. g \in Nat /\ g <= G /\ g <= now + D
    BY <1>10
  <2> HIDE DEF m, G, now, D
  <2> QED
    BY <1>3, <1>11, <2>1 DEF Later
<1> HIDE DEF E, G, m, n, complete, cancelled, pending
<1>13. /\ WireType' /\ WireOrder'
       /\ Sent(r, q0)' = Sent(r, q0) \cup {G}
       /\ \A s, p \in Ranks : ~(s = r /\ p = q0) => /\ Sent(s, p)' = Sent(s, p)
                                                    /\ wire'[s][p] = wire[s][p]
  BY <1>1, <1>11, <1>12, SendOrder DEF NInv
<1>14. m_events'[r] = (m_events[r] \ pending) \cup cancelled \cup {complete, n}
  BY <1>1 DEF NInv, Types, EventsType
<1>15. Local(r) /\ Incoming(r)
  BY <1>1, <1>13 DEF Local, Incoming, NInv, Types, EventsType
<1>16. Types'
  <2>1. EventsType'
    <3>1. (m_events[r] \ pending) \cup cancelled \cup {complete, n} \subseteq EventType
      BY <1>4, <1>5, <1>7
    <3> QED
      BY <1>1, <3>1 DEF NInv, Types, EventsType
  <2> QED
    BY <1>1, <1>13, <2>1 DEF NInv, Types, ClocksType, ReceivedType, ControlType
<1>17. /\ OwnNull(r, q0)' = {n}
       /\ \A q : q # q0 => OwnNull(r, q)' = OwnNull(r, q)
  <2>1. OwnNull(r, q0)' = {n}
    BY <1>4, <1>5, <1>6, <1>7, <1>14 DEF OwnNull
  <2>2. ASSUME NEW q, q # q0 PROVE OwnNull(r, q)' = OwnNull(r, q)
    BY <1>4, <1>5, <1>6, <1>7, <1>14, <2>2 DEF OwnNull
  <2> QED
    BY <2>1, <2>2
<1>18. Fresh(r)' /\ Connected(r)'
  <2>1. \A q \in Ranks : wire'[r][q] # <<>> => q \in Neighbours(r)
    BY <1>2, <1>13 DEF RankOK, Connected
  <2>2. \A e \in m_events'[r] : e.kind = "null" => e.id[1] \in Neighbours(r)
    BY <1>2, <1>4, <1>5, <1>7, <1>14 DEF RankOK, Connected
  <2> QED
    BY <1>1, <2>1, <2>2 DEF Fresh, Connected
<1>19. Ticking(r)'
  <2> SUFFICES ASSUME NEW q \in Neighbours(r)
               PROVE  \E k \in m_events'[r] : /\ OwnNull(r, q)' = {k}
                                              /\ k.ts <= m_currentTs'[r] + Tick(r, q)
    BY DEF Ticking
  <2>1. CASE q = q0
    BY <1>1, <1>5, <1>14, <1>17, <2>1
  <2>2. CASE q # q0
    <3>1. PICK k \in m_events[r] : /\ OwnNull(r, q) = {k}
                                   /\ k.ts <= m_currentTs[r] + Tick(r, q)
      BY <1>1 DEF RankOK, Ticking
    <3>2. k \notin pending
      BY <1>6, <2>2, <3>1 DEF OwnNull
    <3> QED
      BY <1>1, <1>14, <1>17, <2>2, <3>1, <3>2
  <2> QED
    BY <2>1, <2>2
<1>20. Ahead(r)'
  <2>1. \A e \in m_events'[r] : now <= e.ts
    BY <1>3, <1>4, <1>5, <1>7, <1>8, <1>14
  <2> QED
    BY <1>1, <2>1 DEF RankOK, Ahead
<1>21. Bounded(r)'
  <2> SUFFICES ASSUME NEW q \in Neighbours(r), NEW g \in Sent(r, q)'
               PROVE  Bound(r, q, g)'
    BY DEF Bounded
  <2>1. CASE q = q0
    <3>1. g \in Nat /\ g <= G
      BY <1>9, <1>10, <1>13, <2>1
    <3>2. g <= m_safeTime[r] + D
      BY <1>3, <1>9, <3>1
    <3>3. \A f \in E : g <= f.ts + D
      <4>1. \A f \in E : f.ts \in Nat
        BY <1>4 DEF E, EventType
      <4> HIDE DEF D
      <4> QED
        BY <1>3, <1>9, <3>1, <4>1
    <3>4. g <= n.ts + D
      <4>1. PICK k \in m_events[r] : k.ts <= now + Tick(r, q0)
        BY <1>1, <1>2 DEF RankOK, Ticking
      <4>2. g <= k.ts + D /\ k.ts \in Nat
        BY <3>3 DEF E
      <4> HIDE DEF D, now
      <4> QED
        BY <1>3, <1>5, <3>1, <4>1, <4>2
    <3>5. ASSUME NEW d \in Bundle(r, q0)
          PROVE  /\ <<r, d>> \in transmitting'
                 /\ \A e \in m_events'[r] :
                       e.kind = "complete" /\ e.id[1] = d => g <= e.ts + D
      <4>1. d = c
        BY <1>1 DEF OneChannelEach, Bundle, NInv, Types, ControlType
      <4>2. \A e \in m_events'[r] : e.kind = "complete" => e \in E
        BY <1>5, <1>7, <1>14 DEF E
      <4> QED
        BY <1>1, <3>3, <4>1, <4>2
    <3>6. IsBusy(r, q0, g)'
      BY <1>17, <3>4, <3>5 DEF IsBusy
    <3> QED
      BY <1>1, <2>1, <3>2, <3>6 DEF Bound
  <2>2. CASE q # q0
    <3>1. Bound(r, q, g) /\ ~IsIdle(r, q, g)
      BY <1>1, <1>13, <2>2 DEF RankOK, Bounded, IsIdle
    <3>2. c \notin Bundle(r, q)
      <4>1. {r, q} # {r, q0}
        BY <2>2, <1>2, BundlesAreSymmetric
      <4> QED
        BY <1>1, <4>1 DEF Bundle
    <3>3. IsBusy(r, q, g) => IsBusy(r, q, g)'
      <4>1. ASSUME NEW e \in m_events'[r], e.kind = "complete", e.id[1] \in Bundle(r, q)
            PROVE  e \in m_events[r]
        BY <1>4, <1>5, <1>7, <1>14, <3>2, <4>1
      <4> QED
        BY <1>1, <1>17, <2>2, <4>1 DEF IsBusy
    <3>4. HasReached(r, q, g) => HasReached(r, q, g)'
      BY <1>1 DEF HasReached
    <3> QED
      BY <1>1, <3>1, <3>3, <3>4 DEF Bound
  <2> QED
    BY <2>1, <2>2
<1> QED
  BY <1>13, <1>15, <1>16, <1>18, <1>19, <1>20, <1>21, LocalStep DEF RankOK

(* Only the control of r moves: back to the loop, or out of Run. *)
LEMMA ControlKeeps ==
  ASSUME NInv, NEW r \in Ranks, HandlerReturns(r) \/ Stop(r), UNCHANGED channels
  PROVE  NInv'
<1> USE RankTypes, TopologyIsFixed
<1>1. /\ pc[r] \in {"invoke", "loop"}
      /\ \E x \in {"poll", "stopped"} : pc' = [pc EXCEPT ![r] = x]
      /\ UNCHANGED <<m_events, m_currentTs, m_safeTime, m_guaranteeTime, transmitting,
                     wire, created>>
  BY DEF HandlerReturns, Stop
<1>2. pc'[r] \in {"poll", "stopped"}
  BY <1>1 DEF NInv, Types, ControlType
<1>3. Local(r) /\ Incoming(r)
  BY <1>1 DEF Local, Incoming, Sent, NInv, Types, ControlType
<1>4. Types' /\ WireOrder'
  BY <1>1 DEF NInv, Types, EventsType, ClocksType, ReceivedType, WireType, ControlType,
              WireOrder
<1>5. \A q : OwnNull(r, q)' = OwnNull(r, q)
  BY <1>1 DEF OwnNull
<1>6. Fresh(r)' /\ Connected(r)' /\ Ticking(r)' /\ Ahead(r)'
  <2>1. Fresh(r)' /\ Connected(r)'
    BY <1>1, <1>2 DEF RankOK, Fresh, Connected
  <2>2. Ticking(r)'
    BY <1>1, <1>5 DEF RankOK, Ticking
  <2>3. Ahead(r)'
    BY <1>1 DEF RankOK, Ahead
  <2> QED
    BY <2>1, <2>2, <2>3
<1>7. Bounded(r)'
  <2> SUFFICES ASSUME NEW q \in Neighbours(r), NEW g \in Sent(r, q)
               PROVE  Bound(r, q, g)'
    BY <1>1 DEF Bounded, Sent
  <2>1. Bound(r, q, g)
    BY DEF RankOK, Bounded
  <2>2. /\ HasReached(r, q, g) => HasReached(r, q, g)'
        /\ IsIdle(r, q, g) => IsIdle(r, q, g)'
        /\ IsBusy(r, q, g) => IsBusy(r, q, g)'
    BY <1>1, <1>2, <1>5 DEF HasReached, IsIdle, IsBusy
  <2> QED
    BY <1>1, <2>1, <2>2 DEF Bound
<1> QED
  BY <1>3, <1>4, <1>6, <1>7, LocalStep DEF RankOK

(* The safe time, computed anew, has not become smaller. *)
LEMMA SafeTimeGrows ==
  ASSUME NInv, NEW r \in Ranks, CalculateSafeTime(r), UNCHANGED channels,
         ReceivedType', \A q \in Neighbours(r) : m_safeTime[r] <= m_guaranteeTime'[r][q]
  PROVE  /\ m_safeTime' \in [Ranks -> Nat]
         /\ \A s \in Ranks \ {r} : m_safeTime'[s] = m_safeTime[s]
         /\ m_safeTime[r] <= m_safeTime'[r] /\ m_safeTime'[r] <= MaxTime
         /\ \A q \in Neighbours(r) : m_safeTime'[r] <= m_guaranteeTime'[r][q]
<1> DEFINE S == {MaxTime} \cup {m_guaranteeTime'[r][q] : q \in Neighbours(r)}
<1>1. S \subseteq Nat /\ S # {}
  BY NumbersAssumption DEF ReceivedType, Neighbours
<1>2. Min(S) \in S /\ \A y \in S : Min(S) <= y
  <2> HIDE DEF S
  <2> QED
    BY <1>1, MinIs
<1>3. m_safeTime' = [m_safeTime EXCEPT ![r] = Min(S)]
  BY DEF CalculateSafeTime, GetSafeTime
<1>4. m_safeTime \in [Ranks -> Nat] /\ m_safeTime[r] <= MaxTime
  BY DEF NInv, Types, ClocksType, RankOK, Ahead
<1>5. m_safeTime'[r] = Min(S)
  BY <1>3, <1>4
<1>6. \A y \in S : m_safeTime[r] <= y
  BY <1>4
<1>7. MaxTime \in S /\ \A q \in Neighbours(r) : m_guaranteeTime'[r][q] \in S
  OBVIOUS
<1>8. m_safeTime[r] <= Min(S)
  BY <1>2, <1>6
<1>9. Min(S) \in Nat
  BY <1>1, <1>2
<1> HIDE DEF S
<1> QED
  BY <1>2, <1>3, <1>4, <1>5, <1>7, <1>8, <1>9

(* A larger safe time, and an event received from beyond it, change nothing in
   what r has promised. *)
LEMMA ReceiptKeepsBounds ==
  ASSUME NInv, NEW r \in Ranks, UNCHANGED <<channels, m_currentTs, transmitting, pc>>,
         m_events[r] \subseteq m_events'[r],
         \A e \in m_events'[r] \ m_events[r] :
            e.kind = "model" /\ e.ts \in Nat /\ m_safeTime[r] <= e.ts,
         m_safeTime'[r] \in Nat, m_safeTime[r] <= m_safeTime'[r],
         NEW q \in Neighbours(r), NEW g \in Nat, Bound(r, q, g)
  PROVE  Bound(r, q, g)'
<1> USE RankTypes, TopologyIsFixed
<1>1. OwnNull(r, q)' = OwnNull(r, q)
  BY DEF OwnNull
<1>2. g <= m_safeTime[r] + BundleDelay(r, q)
  BY DEF Bound
<1>3. \A e \in m_events'[r] \ m_events[r] : g <= e.ts + BundleDelay(r, q)
  BY <1>2
<1>4. /\ HasReached(r, q, g) => HasReached(r, q, g)'
      /\ IsIdle(r, q, g) => IsIdle(r, q, g)'
      /\ IsBusy(r, q, g) => IsBusy(r, q, g)'
  <2>1. HasReached(r, q, g) => HasReached(r, q, g)'
    BY DEF HasReached
  <2>2. IsIdle(r, q, g) => IsIdle(r, q, g)'
    BY <1>1, <1>3 DEF IsIdle
  <2>3. IsBusy(r, q, g) => IsBusy(r, q, g)'
    BY <1>1 DEF IsBusy
  <2> QED
    BY <2>1, <2>2, <2>3
<1>5. g <= m_safeTime'[r] + BundleDelay(r, q)
  BY <1>2
<1> QED
  BY <1>4, <1>5 DEF Bound

(* A message is received, in a poll or after a wait; in the second case the
   safe time is computed as well. *)
LEMMA ReceiveKeeps ==
  ASSUME NInv, NEW r \in Ranks, NEW q0 \in Ranks, ReceiveMessage(r, q0),
         UNCHANGED <<pc, channels>>,
         UNCHANGED m_safeTime \/ CalculateSafeTime(r)
  PROVE  NInv'
<1> DEFINE m == Head(wire[q0][r])
           n == [ts |-> m.time, kind |-> "model", id |-> m.id]
<1> USE RankTypes, TopologyIsFixed
<1>1. /\ m_events' = [m_events EXCEPT ![r] = IF m.time = 0 THEN @ ELSE @ \cup {n}]
      /\ UNCHANGED <<m_currentTs, transmitting, created>>
  BY DEF ReceiveMessage
<1>2. /\ q0 \in Neighbours(r) /\ q0 # r
      /\ m \in MessageType /\ Later(m, m_guaranteeTime[r][q0])
      /\ WireType' /\ ReceivedType' /\ WireOrder'
      /\ m_guaranteeTime'[r][q0] = m.guarantee
      /\ \A s, p \in Ranks : ~(s = r /\ p = q0) =>
            m_guaranteeTime'[s][p] = m_guaranteeTime[s][p]
      /\ wire[q0][r] # <<>> /\ Sent(q0, r)' \subseteq Sent(q0, r)
      /\ \A s, p \in Ranks : ~(s = q0 /\ p = r) =>
            Sent(s, p)' = Sent(s, p) /\ wire'[s][p] = wire[s][p]
  BY ReceiveOrder
<1>3. /\ n \in EventType /\ n.kind = "model" /\ n.ts = m.time /\ m.time \in Nat
  BY <1>2 DEF EventType, MessageType, Kinds
<1> HIDE DEF m, n
<1>4. m_events'[r] = IF m.time = 0 THEN m_events[r] ELSE m_events[r] \cup {n}
  BY <1>1 DEF NInv, Types, EventsType
<1>5. /\ m_safeTime[r] <= m_guaranteeTime[r][q0]
      /\ \A q \in Neighbours(r) : m_safeTime[r] <= m_guaranteeTime'[r][q]
  <2>1. \A q \in Neighbours(r) : m_safeTime[r] <= m_guaranteeTime[r][q]
    BY DEF RankOK, Ahead
  <2>2. m_guaranteeTime[r][q0] <= m_guaranteeTime'[r][q0] /\ m_guaranteeTime'[r][q0] \in Nat
    BY <1>2 DEF Later, MessageType
  <2>3. m_safeTime[r] <= m_guaranteeTime'[r][q0]
    BY <1>2, <2>1, <2>2
  <2> QED
    BY <1>2, <2>1, <2>3
<1>6. /\ m_safeTime' \in [Ranks -> Nat]
      /\ \A s \in Ranks \ {r} : m_safeTime'[s] = m_safeTime[s]
      /\ m_safeTime[r] <= m_safeTime'[r] /\ m_safeTime'[r] <= MaxTime
      /\ \A q \in Neighbours(r) : m_safeTime'[r] <= m_guaranteeTime'[r][q]
  <2>1. CASE UNCHANGED m_safeTime
    BY <1>5, <2>1 DEF NInv, Types, ClocksType, RankOK, Ahead
  <2>2. CASE CalculateSafeTime(r)
    BY <1>2, <1>5, <2>2, SafeTimeGrows
  <2> QED
    BY <2>1, <2>2
<1>7. m.time # 0 => m_safeTime[r] <= n.ts
  BY <1>2, <1>3, <1>5 DEF Later
<1>8. Local(r)
  <2>1. ASSUME NEW s \in Ranks, s # r PROVE m_guaranteeTime'[s] = m_guaranteeTime[s]
    <3>1. \A p \in Ranks : m_guaranteeTime'[s][p] = m_guaranteeTime[s][p]
      BY <1>2, <2>1
    <3>2. m_guaranteeTime'[s] \in [Ranks -> Nat] /\ m_guaranteeTime[s] \in [Ranks -> Nat]
      BY <1>2 DEF NInv, Types, ReceivedType
    <3> QED
      BY <3>1, <3>2
  <2> QED
    BY <1>1, <1>6, <2>1 DEF Local, NInv, Types, EventsType
<1>9. Incoming(r)
  BY <1>2 DEF Incoming
<1>10. Types'
  <2>1. EventsType'
    BY <1>1, <1>3 DEF NInv, Types, EventsType
  <2> QED
    BY <1>1, <1>2, <1>6, <2>1 DEF NInv, Types, ClocksType, ControlType
<1>11. \A q : OwnNull(r, q)' = OwnNull(r, q)
  BY <1>3, <1>4 DEF OwnNull
<1>12. Fresh(r)' /\ Connected(r)'
  <2>1. \A q \in Ranks : wire'[r][q] = wire[r][q] /\ m_guaranteeTime'[q][r] = m_guaranteeTime[q][r]
    BY <1>2
  <2> QED
    BY <1>1, <1>3, <1>4, <2>1 DEF RankOK, Fresh, Connected
<1>13. Ticking(r)'
  BY <1>1, <1>4, <1>11 DEF RankOK, Ticking
<1>14. Ahead(r)'
  <2>1. m_currentTs[r] <= m_safeTime[r] /\ \A e \in m_events[r] : m_currentTs[r] <= e.ts
    BY DEF RankOK, Ahead
  <2>2. \A e \in m_events'[r] : m_currentTs[r] <= e.ts
    BY <1>3, <1>4, <1>7, <2>1
  <2>3. m_currentTs[r] <= m_safeTime'[r]
    BY <1>6, <2>1
  <2> QED
    BY <1>1, <1>6, <2>2, <2>3 DEF Ahead
<1>15. Bounded(r)'
  <2> SUFFICES ASSUME NEW q \in Neighbours(r), NEW g \in Sent(r, q)'
               PROVE  Bound(r, q, g)'
    BY DEF Bounded
  <2>1. g \in Sent(r, q)
    BY <1>2
  <2>2. Bound(r, q, g) /\ g \in Nat
    BY <2>1 DEF RankOK, Bounded
  <2>3. /\ m_events[r] \subseteq m_events'[r]
        /\ \A e \in m_events'[r] \ m_events[r] :
              e.kind = "model" /\ e.ts \in Nat /\ m_safeTime[r] <= e.ts
    BY <1>3, <1>4, <1>7
  <2>4. m_safeTime'[r] \in Nat
    BY <1>6
  <2> QED
    BY <1>1, <1>6, <2>2, <2>3, <2>4, ReceiptKeepsBounds
<1> QED
  BY <1>2, <1>8, <1>9, <1>10, <1>12, <1>13, <1>14, <1>15, LocalStep DEF RankOK

(* The safe time is computed after a poll, or by a rank without neighbours. *)
LEMMA RecalculateKeeps ==
  ASSUME NInv, NEW r \in Ranks, PollEnds(r) \/ WaitForNobody(r), UNCHANGED channels
  PROVE  NInv'
<1> USE RankTypes, TopologyIsFixed
<1>1. /\ pc[r] \in {"poll", "loop"} /\ pc' = [pc EXCEPT ![r] = "loop"]
      /\ CalculateSafeTime(r)
      /\ UNCHANGED <<m_events, m_currentTs, m_guaranteeTime, transmitting, wire, created>>
  <2>1. CASE PollEnds(r)
    BY <2>1 DEF PollEnds
  <2>2. CASE WaitForNobody(r)
    <3>1. pc \in [Ranks -> {"start", "loop", "invoke", "poll", "stopped", "aborted"}]
      BY DEF NInv, Types, ControlType
    <3>2. pc[r] = "loop" /\ UNCHANGED pc
      BY <2>2 DEF WaitForNobody, Unsafe
    <3>3. pc' = [pc EXCEPT ![r] = "loop"]
      BY <3>1, <3>2
    <3> QED
      BY <2>2, <3>2, <3>3 DEF WaitForNobody
  <2> QED
    BY <2>1, <2>2
<1>2. pc'[r] = "loop"
  BY <1>1 DEF NInv, Types, ControlType
<1>3. /\ m_safeTime' \in [Ranks -> Nat]
      /\ \A s \in Ranks \ {r} : m_safeTime'[s] = m_safeTime[s]
      /\ m_safeTime[r] <= m_safeTime'[r] /\ m_safeTime'[r] <= MaxTime
      /\ \A q \in Neighbours(r) : m_safeTime'[r] <= m_guaranteeTime'[r][q]
  <2>1. ReceivedType'
    BY <1>1 DEF NInv, Types, ReceivedType
  <2>2. \A q \in Neighbours(r) : m_safeTime[r] <= m_guaranteeTime'[r][q]
    BY <1>1 DEF RankOK, Ahead
  <2> QED
    BY <1>1, <2>1, <2>2, SafeTimeGrows
<1>4. Local(r) /\ Incoming(r)
  BY <1>1, <1>3 DEF Local, Incoming, Sent, NInv, Types, ControlType
<1>5. Types' /\ WireOrder'
  BY <1>1, <1>3 DEF NInv, Types, EventsType, ClocksType, ReceivedType, WireType,
                    ControlType, WireOrder
<1>6. \A q : OwnNull(r, q)' = OwnNull(r, q)
  BY <1>1 DEF OwnNull
<1>7. Fresh(r)' /\ Connected(r)'
  BY <1>1, <1>2 DEF RankOK, Fresh, Connected
<1>8. Ticking(r)'
  BY <1>1, <1>6 DEF RankOK, Ticking
<1>9. Ahead(r)'
  <2>1. m_currentTs[r] <= m_safeTime'[r]
    BY <1>3 DEF RankOK, Ahead
  <2> QED
    BY <1>1, <1>3, <2>1 DEF RankOK, Ahead
<1>10. Bounded(r)'
  <2> SUFFICES ASSUME NEW q \in Neighbours(r), NEW g \in Sent(r, q)
               PROVE  Bound(r, q, g)'
    BY <1>1 DEF Bounded, Sent
  <2>1. Bound(r, q, g) /\ g \in Nat
    BY DEF RankOK, Bounded
  <2>2. /\ HasReached(r, q, g) => HasReached(r, q, g)'
        /\ IsIdle(r, q, g) => IsIdle(r, q, g)'
        /\ IsBusy(r, q, g) => IsBusy(r, q, g)'
    BY <1>1, <1>2, <1>6 DEF HasReached, IsIdle, IsBusy
  <2>3. g <= m_safeTime'[r] + BundleDelay(r, q)
    <3>1. /\ g <= m_safeTime[r] + BundleDelay(r, q)
          /\ m_safeTime'[r] \in Nat /\ m_safeTime[r] <= m_safeTime'[r]
      BY <1>3, <2>1 DEF Bound
    <3> QED
      BY <2>1, <3>1
  <2> QED
    BY <2>1, <2>2, <2>3 DEF Bound
<1> QED
  BY <1>4, <1>5, <1>7, <1>8, <1>9, <1>10, LocalStep DEF RankOK

(* Run begins: the first promise to a neighbour is the delay of the bundle. *)
LEMMA StartKeeps ==
  ASSUME NInv, NEW r \in Ranks, Start(r), UNCHANGED channels
  PROVE  NInv'
<1> DEFINE m(q) == NullMessage(r, BundleDelay(r, q))
           n(q) == NullMessageEvent(r, q, 0)
<1> USE RankTypes, TopologyIsFixed
<1>1. /\ pc[r] = "start" /\ pc' = [pc EXCEPT ![r] = "loop"]
      /\ wire' = [wire EXCEPT ![r] = [q \in Ranks |->
            IF q \in Neighbours(r) THEN Append(@[q], m(q)) ELSE @[q]]]
      /\ m_events' = [m_events EXCEPT ![r] = @ \cup {n(q) : q \in Neighbours(r)}]
      /\ UNCHANGED <<m_currentTs, m_safeTime, m_guaranteeTime, transmitting, created>>
  BY DEF Start
<1>2. /\ m_currentTs[r] = 0
      /\ \A q \in Ranks : wire[r][q] = <<>> /\ m_guaranteeTime[q][r] = 0
      /\ \A e \in m_events[r] : e.kind # "null"
  BY <1>1 DEF RankOK, Fresh
<1>3. \A q \in Neighbours(r) : m(q) \in MessageType /\ m(q).guarantee = BundleDelay(r, q)
                               /\ m(q).time = 0
  BY DEF NullMessage, MessageType, Ids
<1>4. \A q \in Neighbours(r) : /\ n(q) \in EventType /\ n(q).ts = Tick(r, q)
                               /\ n(q).kind = "null" /\ n(q).id[1] = q
  BY DEF NullMessageEvent, Tick, EventType, Kinds, Ids
<1> HIDE DEF m, n
<1>5. /\ m_events'[r] = m_events[r] \cup {n(q) : q \in Neighbours(r)}
      /\ pc'[r] = "loop"
  BY <1>1 DEF NInv, Types, EventsType, ControlType
<1>6. /\ \A q \in Neighbours(r) : wire'[r][q] = <<m(q)>>
      /\ \A q \in Ranks \ Neighbours(r) : wire'[r][q] = <<>>
      /\ \A s \in Ranks \ {r} : wire'[s] = wire[s]
  <2>1. wire'[r] = [q \in Ranks |-> IF q \in Neighbours(r)
                                    THEN Append(wire[r][q], m(q)) ELSE wire[r][q]]
    BY <1>1 DEF NInv, Types, WireType
  <2>2. \A q : Append(<<>>, m(q)) = <<m(q)>>
    OBVIOUS
  <2> QED
    BY <1>1, <1>2, <2>1, <2>2 DEF NInv, Types, WireType
<1>7. Local(r)
  BY <1>1 DEF Local, NInv, Types, EventsType, ControlType
<1>8. Incoming(r)
  BY <1>1, <1>6 DEF Incoming, Sent
<1>9. WireType'
  <2>1. ASSUME NEW q \in Ranks PROVE wire'[r][q] \in Seq(MessageType)
    <3>1. CASE q \in Neighbours(r)
      <4>1. m(q) \in MessageType
        BY <1>3, <3>1
      <4>2. <<m(q)>> \in Seq(MessageType)
        BY <4>1
      <4> QED
        BY <1>6, <3>1, <4>2
    <3>2. CASE q \notin Neighbours(r)
      <4>1. wire'[r][q] = <<>>
        BY <1>6, <3>2
      <4> QED
        BY <4>1
    <3> QED
      BY <3>1, <3>2
  <2>2. wire'[r] \in [Ranks -> Seq(MessageType)]
    BY <1>1, <2>1 DEF NInv, Types, WireType
  <2> QED
    BY <1>1, <2>2 DEF NInv, Types, WireType
<1>10. Types'
  <2>1. EventsType'
    BY <1>1, <1>4 DEF NInv, Types, EventsType
  <2> QED
    BY <1>1, <1>9, <2>1 DEF NInv, Types, ClocksType, ReceivedType, ControlType
<1>11. WireOrder'
  <2> SUFFICES ASSUME NEW s \in Ranks, NEW p \in Ranks, NEW k \in DOMAIN wire'[s][p]
               PROVE  /\ Later(wire'[s][p][k], m_guaranteeTime'[p][s])
                      /\ \A j \in 1 .. (k - 1) :
                            Later(wire'[s][p][k], wire'[s][p][j].guarantee)
    BY DEF WireOrder, Later
  <2>1. CASE s # r
    BY <1>1, <1>6, <2>1 DEF NInv, WireOrder
  <2>2. CASE s = r /\ p \in Neighbours(r)
    <3>1. k = 1 /\ wire'[s][p][k] = m(p)
      BY <1>6, <2>2
    <3>2. Later(m(p), 0)
      BY <1>3, <2>2 DEF Later
    <3> QED
      BY <1>1, <1>2, <2>2, <3>1, <3>2
  <2>3. CASE s = r /\ p \notin Neighbours(r)
    BY <1>6, <2>3
  <2> QED
    BY <2>1, <2>2, <2>3
<1>12. \A q \in Neighbours(r) : OwnNull(r, q)' = {n(q)}
  BY <1>2, <1>4, <1>5 DEF OwnNull
<1>13. Fresh(r)' /\ Connected(r)'
  <2>1. \A q \in Ranks : wire'[r][q] # <<>> => q \in Neighbours(r)
    BY <1>6
  <2>2. \A e \in m_events'[r] : e.kind = "null" => e.id[1] \in Neighbours(r)
    BY <1>2, <1>4, <1>5
  <2> QED
    BY <1>5, <2>1, <2>2 DEF Fresh, Connected
<1>14. Ticking(r)'
  <2> SUFFICES ASSUME NEW q \in Neighbours(r)
               PROVE  \E k \in m_events'[r] : /\ OwnNull(r, q)' = {k}
                                              /\ k.ts <= m_currentTs'[r] + Tick(r, q)
    BY DEF Ticking
  <2>1. n(q) \in m_events'[r] /\ OwnNull(r, q)' = {n(q)}
    BY <1>5, <1>12
  <2>2. n(q).ts <= m_currentTs'[r] + Tick(r, q)
    BY <1>1, <1>2, <1>4
  <2> QED
    BY <2>1, <2>2
<1>15. Ahead(r)'
  BY <1>1, <1>2, <1>4, <1>5 DEF RankOK, Ahead
<1>16. Bounded(r)'
  <2> SUFFICES ASSUME NEW q \in Neighbours(r), NEW g \in Sent(r, q)'
               PROVE  Bound(r, q, g)'
    BY DEF Bounded
  <2>1. g = 0 \/ g = BundleDelay(r, q)
    <3>1. DOMAIN wire'[r][q] = {1} /\ wire'[r][q][1] = m(q)
      BY <1>6
    <3> QED
      BY <1>1, <1>2, <1>3, <3>1 DEF Sent
  <2> QED
    BY <1>1, <1>2, <2>1 DEF Bound, HasReached
<1> QED
  BY <1>7, <1>8, <1>10, <1>11, <1>13, <1>14, <1>15, <1>16, LocalStep DEF RankOK

-------------------------------------------------------------------------------
(* The invariant. *)

LEMMA InitNInv == Init => NInv
<1> SUFFICES ASSUME Init PROVE NInv
  OBVIOUS
<1>1. /\ channels \in Topologies
      /\ m_events = [r \in Ranks |->
            {[ts |-> t, kind |-> "model", id |-> <<r, 0>>] : t \in InitialTimes[r]}
            \cup {[ts |-> t, kind |-> "stop", id |-> <<r, 0>>] : t \in StopTimes[r]}]
      /\ m_currentTs = [r \in Ranks |-> 0] /\ m_safeTime = [r \in Ranks |-> 0]
      /\ m_guaranteeTime = [r \in Ranks |-> [q \in Ranks |-> 0]]
      /\ pc = [r \in Ranks |-> "start"]
      /\ wire = [r \in Ranks |-> [q \in Ranks |-> <<>>]]
      /\ created = [r \in Ranks |-> 0]
  BY DEF Init
<1>2. ASSUME NEW r \in Ranks, NEW e \in m_events[r]
      PROVE  e \in EventType /\ e.kind # "null"
  BY <1>1, NumbersAssumption DEF EventType, Kinds, Ids
<1>3. Types
  <2>1. \A r \in Ranks : m_events[r] \subseteq EventType
    BY <1>2
  <2>2. EventsType
    <3>1. \A r \in Ranks : m_events[r] \in SUBSET EventType
      BY <2>1
    <3>2. m_events = [r \in Ranks |-> m_events[r]]
      BY <1>1
    <3> QED
      BY <3>1, <3>2 DEF EventsType
  <2>3. WireType
    <3>1. <<>> \in Seq(MessageType)
      OBVIOUS
    <3> QED
      BY <1>1, <3>1 DEF WireType
  <2> QED
    BY <1>1, <2>2, <2>3 DEF Types, ClocksType, ReceivedType, ControlType
<1>4. WireOrder
  BY <1>1 DEF WireOrder
<1>5. ASSUME NEW r \in Ranks PROVE RankOK(r)
  <2>1. Fresh(r) /\ Connected(r) /\ Ticking(r)
    BY <1>1, <1>2 DEF Fresh, Connected, Ticking
  <2>2. Ahead(r)
    <3>1. \A e \in m_events[r] : 0 <= e.ts
      BY <1>2 DEF EventType
    <3> QED
      BY <1>1, <3>1, NumbersAssumption DEF Ahead, Neighbours
  <2>3. Bounded(r)
    <3> SUFFICES ASSUME NEW q \in Neighbours(r), NEW g \in Sent(r, q) PROVE Bound(r, q, g)
      BY DEF Bounded
    <3>1. q \in Ranks /\ BundleDelay(r, q) \in Nat
      BY <1>1, BundleDelayIs DEF Neighbours
    <3>2. g = 0
      BY <1>1, <3>1 DEF Sent
    <3> QED
      BY <1>1, <3>1, <3>2 DEF Bound, HasReached
  <2> QED
    BY <2>1, <2>2, <2>3 DEF RankOK
<1> QED
  BY <1>3, <1>4, <1>5 DEF NInv

LEMMA StutterNInv ==
  ASSUME NInv, UNCHANGED vars
  PROVE  NInv'
<1>1. /\ UNCHANGED <<channels, m_events, m_currentTs, m_safeTime>>
      /\ UNCHANGED <<m_guaranteeTime, pc, transmitting, wire, created>>
  BY DEF vars
<1>2. Types' /\ WireOrder'
  BY <1>1 DEF NInv, Types, EventsType, ClocksType, ReceivedType, WireType, ControlType,
              WireOrder
<1>3. ASSUME NEW r \in Ranks PROVE RankOK(r)'
  <2>1. Local(r) /\ Incoming(r)
    BY <1>1 DEF Local, Incoming, Sent
  <2>2. \A q : OwnNull(r, q)' = OwnNull(r, q) /\ Sent(r, q)' = Sent(r, q)
    BY <1>1 DEF OwnNull, Sent
  <2>3. RankOK(r)
    BY DEF NInv
  <2>4. Fresh(r)' /\ Connected(r)'
    BY <1>1, <2>3, TopologyIsFixed DEF RankOK, Fresh, Connected
  <2>5. Ticking(r)' /\ Ahead(r)'
    BY <1>1, <2>2, <2>3, TopologyIsFixed DEF RankOK, Ticking, Ahead
  <2>6. \A q, g : /\ HasReached(r, q, g)' <=> HasReached(r, q, g)
                  /\ IsIdle(r, q, g)' <=> IsIdle(r, q, g)
                  /\ IsBusy(r, q, g)' <=> IsBusy(r, q, g)
    BY <1>1, <2>2, TopologyIsFixed DEF HasReached, IsIdle, IsBusy
  <2>7. Bounded(r)'
    BY <1>1, <2>2, <2>3, <2>6, TopologyIsFixed DEF RankOK, Bounded, Bound
  <2> QED
    BY <2>4, <2>5, <2>7 DEF RankOK
<1> QED
  BY <1>2, <1>3 DEF NInv

LEMMA NextNInv ==
  ASSUME OneChannelEach, NInv, [Next]_vars
  PROVE  NInv'
<1>1. CASE UNCHANGED vars
  BY <1>1, StutterNInv
<1>2. ASSUME NEW r \in Ranks, Loop(r), UNCHANGED channels PROVE NInv'
  <2>1. CASE Start(r)
    BY <1>2, <2>1, StartKeeps
  <2>2. CASE Process(r)
    <3> SUFFICES ASSUME NEW e \in m_events[r],
                        \/ ProcessModelEvent(r, e) \/ ProcessTransmitComplete(r, e)
                        \/ ProcessCancelledEvent(r, e) \/ ProcessStopEvent(r, e)
                        \/ ProcessNullMessageEvent(r, e)
                 PROVE  NInv'
      BY <2>2 DEF Process
    <3>1. CASE ProcessModelEvent(r, e)
      BY <1>2, <3>1, TakeKeeps DEF ProcessModelEvent
    <3>2. CASE ProcessTransmitComplete(r, e)
      BY <1>2, <3>2, TakeKeeps DEF ProcessTransmitComplete
    <3>3. CASE ProcessCancelledEvent(r, e)
      BY <1>2, <3>3, TakeKeeps DEF ProcessCancelledEvent
    <3>4. CASE ProcessStopEvent(r, e)
      BY <1>2, <3>4, TakeKeeps DEF ProcessStopEvent
    <3>5. CASE ProcessNullMessageEvent(r, e)
      BY <1>2, <3>5, NullMessageKeeps
    <3> QED
      BY <3>1, <3>2, <3>3, <3>4, <3>5
  <2>3. CASE PollEnds(r) \/ WaitForNobody(r)
    BY <1>2, <2>3, RecalculateKeeps
  <2>4. CASE Stop(r)
    BY <1>2, <2>4, ControlKeeps
  <2> QED
    BY <1>2, <2>1, <2>2, <2>3, <2>4 DEF Loop
<1>3. ASSUME NEW r \in Ranks, Handler(r), UNCHANGED channels PROVE NInv'
  BY <1>3, ScheduleKeeps, SendPacketKeeps, ControlKeeps DEF Handler
<1>4. ASSUME NEW r \in Ranks, Receive(r), UNCHANGED channels PROVE NInv'
  <2>1. PICK q \in Ranks : Poll(r, q) \/ Wait(r, q)
    BY <1>4 DEF Receive
  <2> QED
    BY <1>4, <2>1, ReceiveKeeps DEF Poll, Wait
<1> QED
  BY <1>1, <1>2, <1>3, <1>4 DEF Next

THEOREM Invariance == ASSUME OneChannelEach PROVE Spec => []NInv
<1>1. NInv /\ [Next]_vars => NInv'
  BY NextNInv
<1> QED
  BY <1>1, InitNInv, PTL DEF Spec

-------------------------------------------------------------------------------
(* What the null messages guarantee. *)

(* A packet on its way respects every guarantee its sender gave before it, and
   the last one its receiver has seen: the guarantee of SendPacket and
   NullMessageEventHandler, the earliest of the queue and the safe time plus the
   delay, is a lower bound on what the rank sends later. *)
THEOREM GuaranteesHold == ASSUME OneChannelEach PROVE Spec => []GuaranteesKept
<1>1. NInv => GuaranteesKept
  BY DEF NInv, WireOrder, Later, GuaranteesKept, Packets
<1> QED
  BY <1>1, Invariance, PTL

(* No packet reaches a rank whose clock has passed its receive time: the clock
   is within the safe time, that within the guarantee received, and the packet
   respects it. *)
THEOREM NothingFromThePast == ASSUME OneChannelEach PROVE Spec => []NoMessageFromThePast
<1>1. ASSUME NInv PROVE NoMessageFromThePast
  <2> SUFFICES ASSUME NEW r \in Ranks, NEW q \in Ranks, NEW k \in Packets(r, q)
               PROVE  wire[r][q][k].time >= m_currentTs[q]
    BY DEF NoMessageFromThePast
  <2>1. k \in DOMAIN wire[r][q] /\ wire[r][q][k].time > 0
    BY DEF Packets
  <2>2. wire[r][q] \in Seq(MessageType)
    BY <1>1 DEF NInv, Types, WireType
  <2>3. r \in Neighbours(q)
    BY <1>1, <2>1, <2>2, BundlesAreSymmetric DEF NInv, RankOK, Connected
  <2>4. m_guaranteeTime[q][r] <= wire[r][q][k].time
    BY <1>1, <2>1 DEF NInv, WireOrder, Later
  <2>5. m_currentTs[q] <= m_safeTime[q] /\ m_safeTime[q] <= m_guaranteeTime[q][r]
    BY <1>1, <2>3 DEF NInv, RankOK, Ahead
  <2>6. m_currentTs[q] \in Nat /\ m_safeTime[q] \in Nat /\ m_guaranteeTime[q][r] \in Nat
    BY <1>1 DEF NInv, Types, ClocksType, ReceivedType
  <2>7. wire[r][q][k].time \in Nat
    <3>1. wire[r][q][k] \in MessageType
      BY <2>1, <2>2
    <3> QED
      BY <3>1 DEF MessageType
  <2> QED
    BY <2>4, <2>5, <2>6, <2>7
<1> QED
  BY <1>1, Invariance, PTL

(* A guarantee is not in the past of its receiver: the assertion of
   RemoteChannelBundle::SetGuaranteeTime. *)
THEOREM GuaranteesLeadTheClock == ASSUME OneChannelEach PROVE Spec => []GuaranteesAreAhead
<1>1. ASSUME NInv PROVE GuaranteesAreAhead
  <2> SUFFICES ASSUME NEW r \in Ranks, NEW q \in Ranks, wire[r][q] # <<>>
               PROVE  Head(wire[r][q]).guarantee >= m_currentTs[q]
    BY DEF GuaranteesAreAhead
  <2>1. wire[r][q] \in Seq(MessageType)
    BY <1>1 DEF NInv, Types, WireType
  <2>2. /\ 1 \in DOMAIN wire[r][q] /\ Head(wire[r][q]) = wire[r][q][1]
        /\ Head(wire[r][q]) \in MessageType
    BY <2>1, HeadTailProperties
  <2>3. r \in Neighbours(q)
    BY <1>1, BundlesAreSymmetric DEF NInv, RankOK, Connected
  <2>4. m_guaranteeTime[q][r] <= Head(wire[r][q]).guarantee
    BY <1>1, <2>2 DEF NInv, WireOrder, Later
  <2>5. m_currentTs[q] <= m_safeTime[q] /\ m_safeTime[q] <= m_guaranteeTime[q][r]
    BY <1>1, <2>3 DEF NInv, RankOK, Ahead
  <2>6. /\ m_currentTs[q] \in Nat /\ m_safeTime[q] \in Nat /\ m_guaranteeTime[q][r] \in Nat
        /\ Head(wire[r][q]).guarantee \in Nat
    BY <1>1, <2>2 DEF NInv, Types, ClocksType, ReceivedType, MessageType
  <2> QED
    BY <2>4, <2>5, <2>6
<1> QED
  BY <1>1, Invariance, PTL

-------------------------------------------------------------------------------
(* The refinement.  A packet due at time zero would be taken for a null message. *)

PositiveDelays == \A c \in Channels : ChannelDelay[c] > 0

(* Messages and events bear ids of their creators; packets are the messages with
   an id of their own, which nothing else at their receiver has. *)
IdsOK ==
    /\ \A r, q \in Ranks : \A k \in DOMAIN wire[r][q] :
          /\ wire[r][q][k].id[1] = r /\ wire[r][q][k].id[2] <= created[r]
          /\ wire[r][q][k].time = 0 <=> wire[r][q][k].id[2] = 0
          /\ wire[r][q][k].id[2] # 0 =>
                \A j \in DOMAIN wire[r][q] :
                   j # k => wire[r][q][j].id # wire[r][q][k].id
    /\ \A q \in Ranks : \A e \in m_events[q] : e.kind = "model" =>
          /\ e.id[1] \in Ranks /\ e.id[2] <= created[e.id[1]]
          /\ \A r \in Ranks : \A k \in DOMAIN wire[r][q] :
                wire[r][q][k].id[2] # 0 => wire[r][q][k].id # e.id

(* The events a rank has yet to execute only become fewer, and nothing is sent. *)
LEMMA IdsStay ==
  ASSUME Types, IdsOK, UNCHANGED <<wire, created>>,
         \A s \in Ranks : \A e \in m_events'[s] : e.kind = "model" => e \in m_events[s]
  PROVE  IdsOK'
BY DEF IdsOK

LEMMA InitIds == Init => IdsOK
<1> SUFFICES ASSUME Init PROVE IdsOK
  OBVIOUS
<1>1. \A r, q \in Ranks : wire[r][q] = <<>> /\ created[r] = 0
  BY DEF Init
<1>2. \A q \in Ranks : \A e \in m_events[q] : e.id = <<q, 0>>
  BY DEF Init
<1> QED
  BY <1>1, <1>2 DEF IdsOK

(* A message is sent, of a packet or of none. *)
LEMMA IdsOfSent ==
  ASSUME Types, Types', IdsOK, NEW r \in Ranks, NEW q \in Ranks, NEW m \in MessageType,
         wire' = Send(r, q, m),
         \A s \in Ranks : \A e \in m_events'[s] : e.kind = "model" => e \in m_events[s],
         \A s \in Ranks : created[s] <= created'[s],
         m.id[1] = r, m.id[2] <= created'[r], m.time = 0 <=> m.id[2] = 0,
         m.id[2] # 0 => m.id[2] > created[r]
  PROVE  IdsOK'
<1> DEFINE w == wire[r][q]
           L == Len(w)
<1>1. /\ wire'[r][q] = Append(w, m)
      /\ \A s, p \in Ranks : ~(s = r /\ p = q) => wire'[s][p] = wire[s][p]
      /\ w \in Seq(MessageType)
  BY DEF Send, Types, WireType
<1>2. /\ DOMAIN w = 1 .. L /\ L \in Nat
      /\ DOMAIN Append(w, m) = 1 .. (L + 1)
      /\ Append(w, m)[L + 1] = m
      /\ \A k \in 1 .. L : Append(w, m)[k] = w[k]
  BY <1>1
<1>3. \A s \in Ranks : created[s] \in Nat /\ created'[s] \in Nat
  BY DEF Types, ControlType
<1>4. ASSUME NEW s \in Ranks, NEW p \in Ranks, NEW k \in DOMAIN wire[s][p]
      PROVE  wire[s][p][k].id[2] \in Nat
  <2>1. wire[s][p] \in Seq(MessageType)
    BY DEF Types, WireType
  <2>2. wire[s][p][k] \in MessageType
    BY <2>1
  <2> QED
    BY <2>2 DEF MessageType, Ids
<1>5. \A k \in 1 .. L : /\ w[k].id[2] \in Nat /\ w[k].id[2] <= created[r] /\ w[k].id[1] = r
                        /\ (w[k].time = 0 <=> w[k].id[2] = 0)
                        /\ m.id[2] # 0 => w[k].id # m.id
                        /\ w[k].id[2] # 0 =>
                              /\ w[k].id # m.id
                              /\ \A j \in 1 .. L : j # k => w[j].id # w[k].id
  <2>1. ASSUME NEW k \in 1 .. L
        PROVE  /\ w[k].id[2] \in Nat /\ w[k].id[2] <= created[r] /\ w[k].id[1] = r
               /\ (w[k].time = 0 <=> w[k].id[2] = 0)
               /\ w[k].id[2] # 0 => \A j \in 1 .. L : j # k => w[j].id # w[k].id
    BY <1>2, <1>4 DEF IdsOK
  <2>2. m.id[2] \in Nat
    BY DEF MessageType, Ids
  <2> HIDE DEF w, L
  <2>3. ASSUME NEW k \in 1 .. L
        PROVE  /\ m.id[2] # 0 => w[k].id # m.id
               /\ w[k].id[2] # 0 => w[k].id # m.id
    <3>1. w[k].id[2] # m.id[2] \/ (w[k].id[2] = 0 /\ m.id[2] = 0)
      BY <1>3, <2>1, <2>2
    <3> QED
      BY <3>1
  <2> QED
    BY <2>1, <2>3
<1> HIDE DEF w, L
<1>6. ASSUME NEW s \in Ranks, NEW p \in Ranks, NEW k \in DOMAIN wire'[s][p]
      PROVE  /\ wire'[s][p][k].id[1] = s /\ wire'[s][p][k].id[2] <= created'[s]
             /\ wire'[s][p][k].time = 0 <=> wire'[s][p][k].id[2] = 0
             /\ wire'[s][p][k].id[2] # 0 =>
                   \A j \in DOMAIN wire'[s][p] :
                      j # k => wire'[s][p][j].id # wire'[s][p][k].id
  <2>1. CASE ~(s = r /\ p = q)
    <3>1. /\ wire[s][p][k].id[1] = s /\ wire[s][p][k].id[2] <= created[s]
          /\ wire[s][p][k].time = 0 <=> wire[s][p][k].id[2] = 0
          /\ wire[s][p][k].id[2] # 0 =>
                \A j \in DOMAIN wire[s][p] : j # k => wire[s][p][j].id # wire[s][p][k].id
          /\ wire[s][p][k].id[2] \in Nat
      BY <1>1, <1>4, <2>1 DEF IdsOK
    <3>2. wire'[s][p] = wire[s][p]
      BY <1>1, <2>1
    <3>3. wire[s][p][k].id[2] <= created'[s]
      BY <1>3, <3>1
    <3> QED
      BY <3>1, <3>2, <3>3
  <2>2. CASE s = r /\ p = q
    <3>1. k \in 1 .. (L + 1) /\ wire'[s][p] = Append(w, m)
      BY <1>1, <1>2, <2>2
    <3>2. CASE k = L + 1
      <4>1. wire'[s][p][k] = m
        BY <1>2, <3>1, <3>2
      <4>2. ASSUME NEW j \in DOMAIN wire'[s][p], j # k, m.id[2] # 0
            PROVE  wire'[s][p][j].id # m.id
        <5>1. j \in 1 .. L
          BY <1>2, <3>1, <3>2, <4>2
        <5> QED
          BY <1>2, <1>5, <3>1, <4>2, <5>1
      <4> QED
        BY <2>2, <4>1, <4>2
    <3>3. CASE k \in 1 .. L
      <4>1. wire'[s][p][k] = w[k]
        BY <1>2, <3>1, <3>3
      <4>2. ASSUME NEW j \in DOMAIN wire'[s][p], j # k, w[k].id[2] # 0
            PROVE  wire'[s][p][j].id # w[k].id
        <5>1. CASE j \in 1 .. L
          BY <1>2, <1>5, <3>1, <3>3, <4>2, <5>1
        <5>2. CASE j = L + 1
          BY <1>2, <1>5, <3>1, <3>3, <4>2, <5>2
        <5> QED
          BY <1>2, <3>1, <5>1, <5>2
      <4>3. w[k].id[2] <= created'[r]
        BY <1>3, <1>5, <3>3
      <4> QED
        BY <1>5, <2>2, <3>3, <4>1, <4>2, <4>3
    <3> QED
      BY <1>2, <3>1, <3>2, <3>3
  <2> QED
    BY <2>1, <2>2
<1>7. ASSUME NEW p \in Ranks, NEW e \in m_events'[p], e.kind = "model"
      PROVE  /\ e.id[1] \in Ranks /\ e.id[2] <= created'[e.id[1]]
             /\ \A s \in Ranks : \A k \in DOMAIN wire'[s][p] :
                   wire'[s][p][k].id[2] # 0 => wire'[s][p][k].id # e.id
  <2>1. /\ e \in m_events[p] /\ e.id[1] \in Ranks /\ e.id[2] <= created[e.id[1]]
        /\ \A s \in Ranks : \A k \in DOMAIN wire[s][p] :
              wire[s][p][k].id[2] # 0 => wire[s][p][k].id # e.id
    BY <1>7 DEF IdsOK
  <2>2. e.id[2] \in Nat
    BY <2>1 DEF Types, EventsType, EventType, Ids
  <2>3. e.id[2] <= created'[e.id[1]]
    BY <1>3, <2>1, <2>2
  <2>4. ASSUME NEW s \in Ranks, NEW k \in DOMAIN wire'[s][p], wire'[s][p][k].id[2] # 0
        PROVE  wire'[s][p][k].id # e.id
    <3>1. CASE ~(s = r /\ p = q)
      BY <1>1, <2>1, <2>4, <3>1
    <3>2. CASE s = r /\ p = q /\ k \in 1 .. L
      <4>1. wire'[s][p][k] = wire[s][p][k] /\ k \in DOMAIN wire[s][p]
        BY <1>1, <1>2, <3>2 DEF w
      <4> QED
        BY <2>1, <2>4, <4>1
    <3>3. CASE s = r /\ p = q /\ k = L + 1
      <4>1. wire'[s][p][k] = m
        BY <1>1, <1>2, <3>3
      <4>2. m.id[2] \in Nat /\ m.id[2] > created[r]
        BY <2>4, <4>1 DEF MessageType, Ids
      <4>3. CASE e.id[1] = r
        <5>1. e.id[2] # m.id[2]
          BY <1>3, <2>1, <2>2, <4>2, <4>3
        <5> QED
          BY <4>1, <5>1
      <4>4. CASE e.id[1] # r
        BY <4>1, <4>4
      <4> QED
        BY <4>3, <4>4
    <3>4. s = r /\ p = q => k \in 1 .. L \/ k = L + 1
      BY <1>1, <1>2
    <3> QED
      BY <3>1, <3>2, <3>3, <3>4
  <2> QED
    BY <2>1, <2>3, <2>4
<1> QED
  BY <1>6, <1>7 DEF IdsOK

(* A message is received: what it becomes bears its id. *)
LEMMA IdsOfReceived ==
  ASSUME NInv, IdsOK, NEW r \in Ranks, NEW q \in Ranks, ReceiveMessage(r, q)
  PROVE  IdsOK'
<1> DEFINE w == wire[q][r]
           L == Len(w)
           m == Head(w)
           T == Tail(w)
           n == PacketEvent(m)
<1>1. /\ w \in Seq(MessageType) /\ w # <<>>
      /\ m_events' = [m_events EXCEPT ![r] = IF m.time = 0 THEN @ ELSE @ \cup {n}]
      /\ wire'[q][r] = T /\ created' = created
      /\ \A s, p \in Ranks : ~(s = q /\ p = r) => wire'[s][p] = wire[s][p]
  BY DEF ReceiveMessage, PacketEvent, NInv, Types, WireType
<1>2. /\ L \in Nat /\ L >= 1 /\ DOMAIN w = 1 .. L
      /\ m = w[1] /\ m \in MessageType
      /\ DOMAIN T = 1 .. (L - 1)
      /\ \A k \in 1 .. (L - 1) : T[k] = w[k + 1]
  BY <1>1, HeadTailProperties
<1>3. \A k \in 1 .. L : /\ w[k].id[1] = q /\ w[k].id[2] <= created[q]
                        /\ w[k].time = 0 <=> w[k].id[2] = 0
                        /\ w[k].id[2] # 0 => \A j \in 1 .. L : j # k => w[j].id # w[k].id
  BY <1>2 DEF IdsOK
<1>4. n.id = m.id /\ n.kind = "model"
  BY DEF PacketEvent
<1>5. \A p \in Ranks : m_events'[p] = IF p = r /\ m.time # 0 THEN m_events[p] \cup {n}
                                                             ELSE m_events[p]
  BY <1>1 DEF NInv, Types, EventsType
<1> HIDE DEF w, L, m, T, n
<1>6. ASSUME NEW s \in Ranks, NEW p \in Ranks, NEW k \in DOMAIN wire'[s][p]
      PROVE  /\ wire'[s][p][k].id[1] = s /\ wire'[s][p][k].id[2] <= created'[s]
             /\ wire'[s][p][k].time = 0 <=> wire'[s][p][k].id[2] = 0
             /\ wire'[s][p][k].id[2] # 0 =>
                   \A j \in DOMAIN wire'[s][p] :
                      j # k => wire'[s][p][j].id # wire'[s][p][k].id
  <2>1. CASE ~(s = q /\ p = r)
    <3>1. wire'[s][p] = wire[s][p] /\ created'[s] = created[s]
      BY <1>1, <2>1
    <3>2. k \in DOMAIN wire[s][p]
      BY <3>1
    <3> QED
      BY <3>1, <3>2 DEF IdsOK
  <2>2. CASE s = q /\ p = r
    <3>1. /\ k \in 1 .. (L - 1) /\ k + 1 \in 1 .. L /\ DOMAIN wire'[s][p] = 1 .. (L - 1)
          /\ wire'[s][p][k] = w[k + 1]
      BY <1>1, <1>2, <2>2
    <3>2. ASSUME NEW j \in DOMAIN wire'[s][p], j # k, w[k + 1].id[2] # 0
          PROVE  wire'[s][p][j].id # w[k + 1].id
      <4>1. j + 1 \in 1 .. L /\ j + 1 # k + 1 /\ wire'[s][p][j] = w[j + 1]
        <5>1. j \in 1 .. (L - 1) /\ j \in Int /\ k \in Int /\ L \in Nat
          BY <1>2, <3>1, <3>2
        <5>2. wire'[s][p][j] = T[j]
          BY <1>1, <2>2
        <5> QED
          BY <1>2, <3>2, <5>1, <5>2
      <4>2. w[j + 1].id # w[k + 1].id
        BY <1>3, <3>1, <3>2, <4>1
      <4> QED
        BY <4>1, <4>2
    <3>3. created'[s] = created[q]
      BY <1>1, <2>2
    <3>4. /\ w[k + 1].id[1] = s /\ w[k + 1].id[2] <= created'[s]
          /\ w[k + 1].time = 0 <=> w[k + 1].id[2] = 0
      BY <1>3, <2>2, <3>1, <3>3
    <3> QED
      BY <3>1, <3>2, <3>4
  <2> QED
    BY <2>1, <2>2
<1>7. ASSUME NEW s \in Ranks, NEW p \in Ranks, NEW k \in DOMAIN wire'[s][p]
      PROVE  \E j \in DOMAIN wire[s][p] : /\ wire'[s][p][k] = wire[s][p][j]
                                          /\ s = q /\ p = r => j # 1
  <2>1. CASE ~(s = q /\ p = r)
    BY <1>1, <2>1
  <2>2. CASE s = q /\ p = r
    <3>1. k + 1 \in 1 .. L /\ k + 1 # 1 /\ wire'[s][p][k] = w[k + 1]
      BY <1>1, <1>2, <2>2
    <3> QED
      BY <1>2, <2>2, <3>1 DEF w
  <2> QED
    BY <2>1, <2>2
<1>8. ASSUME NEW p \in Ranks, NEW e \in m_events'[p], e.kind = "model"
      PROVE  /\ e.id[1] \in Ranks /\ e.id[2] <= created'[e.id[1]]
             /\ \A s \in Ranks : \A k \in DOMAIN wire'[s][p] :
                   wire'[s][p][k].id[2] # 0 => wire'[s][p][k].id # e.id
  <2>1. CASE e \in m_events[p]
    <3>1. /\ e.id[1] \in Ranks /\ e.id[2] <= created[e.id[1]]
          /\ \A s \in Ranks : \A k \in DOMAIN wire[s][p] :
                wire[s][p][k].id[2] # 0 => wire[s][p][k].id # e.id
      BY <1>8, <2>1 DEF IdsOK
    <3> QED
      BY <1>1, <1>7, <3>1
  <2>2. CASE p = r /\ e = n /\ m.time # 0
    <3>1. 1 \in 1 .. L /\ m.id[2] # 0 /\ m.id[1] = q /\ m.id[2] <= created[q]
      BY <1>2, <1>3, <2>2
    <3>2. ASSUME NEW s \in Ranks, NEW k \in DOMAIN wire'[s][r] PROVE wire'[s][r][k].id # m.id
      <4>1. PICK j \in DOMAIN wire[s][r] : /\ wire'[s][r][k] = wire[s][r][j]
                                           /\ s = q => j # 1
        BY <1>7
      <4>2. CASE s = q
        <5>1. j \in 1 .. L /\ wire[s][r][j] = w[j]
          BY <1>2, <4>2 DEF w
        <5> QED
          BY <1>2, <1>3, <3>1, <4>1, <4>2, <5>1
      <4>3. CASE s # q
        <5>1. wire[s][r][j].id[1] = s
          BY DEF IdsOK
        <5> QED
          BY <3>1, <4>1, <4>3, <5>1
      <4> QED
        BY <4>2, <4>3
    <3> QED
      BY <1>1, <1>4, <2>2, <3>1, <3>2
  <2> QED
    BY <1>5, <2>1, <2>2
<1> QED
  BY <1>6, <1>8 DEF IdsOK

(* An event is scheduled, with an id that was not given out. *)
LEMMA IdsOfScheduled ==
  ASSUME Types, IdsOK, NEW r \in Ranks, NEW d \in Delays, Schedule(r, d)
  PROVE  IdsOK'
<1> DEFINE n == [ts |-> m_currentTs[r] + d, kind |-> "model", id |-> <<r, created[r] + 1>>]
<1>1. /\ created' = [created EXCEPT ![r] = @ + 1] /\ wire' = wire
      /\ \A p \in Ranks : m_events'[p] = IF p = r THEN m_events[p] \cup {n} ELSE m_events[p]
  BY DEF Schedule, Create, Types, EventsType
<1>2. \A s \in Ranks : /\ created[s] \in Nat /\ created'[s] \in Nat
                       /\ created[s] <= created'[s]
  BY <1>1 DEF Types, ControlType
<1>3. n.id = <<r, created[r] + 1>> /\ created'[r] = created[r] + 1
  BY <1>1 DEF Types, ControlType
<1> HIDE DEF n
<1>4. ASSUME NEW s \in Ranks, NEW p \in Ranks, NEW k \in DOMAIN wire[s][p]
      PROVE  /\ wire[s][p][k].id[2] \in Nat
             /\ wire[s][p][k].id[1] = s /\ wire[s][p][k].id[2] <= created[s]
  <2>1. wire[s][p] \in Seq(MessageType)
    BY DEF Types, WireType
  <2>2. wire[s][p][k] \in MessageType
    BY <2>1
  <2> QED
    BY <2>2 DEF MessageType, Ids, IdsOK
<1>5. \A s, p \in Ranks : \A k \in DOMAIN wire[s][p] : wire[s][p][k].id[2] <= created'[s]
  BY <1>2, <1>4
<1>6. ASSUME NEW p \in Ranks, NEW e \in m_events'[p], e.kind = "model"
      PROVE  /\ e.id[1] \in Ranks /\ e.id[2] <= created'[e.id[1]]
             /\ \A s \in Ranks : \A k \in DOMAIN wire[s][p] :
                   wire[s][p][k].id[2] # 0 => wire[s][p][k].id # e.id
  <2>1. CASE e \in m_events[p]
    <3>1. /\ e.id[1] \in Ranks /\ e.id[2] <= created[e.id[1]]
          /\ \A s \in Ranks : \A k \in DOMAIN wire[s][p] :
                wire[s][p][k].id[2] # 0 => wire[s][p][k].id # e.id
      BY <1>6, <2>1 DEF IdsOK
    <3>2. e.id[2] \in Nat
      BY <2>1 DEF Types, EventsType, EventType, Ids
    <3> QED
      BY <1>2, <3>1, <3>2
  <2>2. CASE e = n
    <3>1. ASSUME NEW s \in Ranks, NEW k \in DOMAIN wire[s][p] PROVE wire[s][p][k].id # e.id
      <4>1. e.id[1] = r /\ e.id[2] = created[r] + 1
        BY <1>3, <2>2
      <4>2. s = r => wire[s][p][k].id[2] # e.id[2]
        BY <1>2, <1>4, <4>1
      <4> QED
        BY <1>4, <4>1, <4>2
    <3> QED
      BY <1>2, <1>3, <2>2, <3>1
  <2> QED
    BY <1>1, <2>1, <2>2
<1> QED
  BY <1>1, <1>5, <1>6 DEF IdsOK

LEMMA NextIds ==
  ASSUME PositiveDelays, NInv, NInv', IdsOK, [Next]_vars
  PROVE  IdsOK'
<1>t. Types /\ Types'
  BY DEF NInv
<1>1. CASE UNCHANGED vars
  BY <1>t, <1>1, IdsStay DEF vars
<1>2. ASSUME NEW r \in Ranks, NEW e \in m_events[r],
             \/ ProcessModelEvent(r, e) \/ ProcessTransmitComplete(r, e)
             \/ ProcessCancelledEvent(r, e) \/ ProcessStopEvent(r, e)
      PROVE  IdsOK'
  <2>1. m_events' = [m_events EXCEPT ![r] = @ \ {e}] /\ UNCHANGED <<wire, created>>
    BY <1>2 DEF ProcessModelEvent, ProcessTransmitComplete, ProcessCancelledEvent,
                ProcessStopEvent, Take
  <2>2. \A s \in Ranks : m_events'[s] \subseteq m_events[s]
    BY <1>t, <2>1 DEF Types, EventsType
  <2> QED
    BY <1>t, <2>1, <2>2, IdsStay
<1>3. ASSUME NEW r \in Ranks, NEW e \in m_events[r], ProcessNullMessageEvent(r, e),
             UNCHANGED channels
      PROVE  IdsOK'
  <2> DEFINE q    == e.id[1]
             rest == m_events[r] \ {e}
             G    == Guarantee(r, q, rest)
             m    == NullMessage(r, G)
             n    == NullMessageEvent(r, q, e.ts)
  <2>1. e.kind = "null" /\ created' = created
    BY <1>3 DEF ProcessNullMessageEvent, Take
  <2>2. CASE /\ rest # {} /\ wire' = Send(r, q, m)
             /\ m_events' = [m_events EXCEPT ![r] = rest \cup {n}]
    <3>1. q \in Neighbours(r) /\ q \in Ranks
      BY <2>1 DEF NInv, RankOK, Connected, Neighbours
    <3>2. G \in Nat
      BY <1>t, <3>1, GuaranteeIs DEF Types, EventsType
    <3>3. /\ m \in MessageType /\ m.id[1] = r /\ m.id[2] = 0 /\ m.time = 0
      BY <3>2 DEF NullMessage, MessageType, Ids
    <3>4. n.kind = "null"
      BY DEF NullMessageEvent
    <3> HIDE DEF n, m
    <3>5. \A s \in Ranks : \A f \in m_events'[s] : f.kind = "model" => f \in m_events[s]
      BY <1>t, <2>2, <3>4 DEF Types, EventsType
    <3>6. \A s \in Ranks : created[s] \in Nat
      BY <1>t DEF Types, ControlType
    <3>7. \A s \in Ranks : 0 <= created[s] /\ created[s] <= created'[s]
      BY <2>1, <3>6
    <3> QED
      BY <1>t, <2>2, <3>1, <3>3, <3>5, <3>7, <2>1, IdsOfSent
  <2>3. CASE m_events' = [m_events EXCEPT ![r] = rest] /\ UNCHANGED wire
    <3>1. \A s \in Ranks : m_events'[s] \subseteq m_events[s]
      BY <1>t, <2>3 DEF Types, EventsType
    <3> QED
      BY <1>t, <2>1, <2>3, <3>1, IdsStay
  <2> QED
    BY <1>3, <2>2, <2>3 DEF ProcessNullMessageEvent
<1>4. ASSUME NEW r \in Ranks, Start(r), UNCHANGED channels PROVE IdsOK'
  <2> DEFINE m(q) == NullMessage(r, BundleDelay(r, q))
  <2>1. \A q \in Ranks : wire[r][q] = <<>>
    BY <1>4 DEF Start, NInv, RankOK, Fresh
  <2>2. /\ \A q \in Ranks : wire'[r][q] = <<m(q)>> \/ wire'[r][q] = <<>>
        /\ \A s \in Ranks \ {r} : wire'[s] = wire[s]
        /\ created' = created
    <3>1. wire'[r] = [q \in Ranks |-> IF q \in Neighbours(r)
                                      THEN Append(wire[r][q], m(q)) ELSE wire[r][q]]
      BY <1>t, <1>4 DEF Start, Types, WireType
    <3>2. \A q : Append(<<>>, m(q)) = <<m(q)>>
      OBVIOUS
    <3> QED
      BY <1>t, <1>4, <2>1, <3>1, <3>2 DEF Start, Types, WireType
  <2>3. \A q : m(q).id = <<r, 0>> /\ m(q).time = 0
    BY DEF NullMessage
  <2> HIDE DEF m
  <2>4. \A q \in Ranks : \A k \in DOMAIN wire'[r][q] :
           wire'[r][q][k].id = <<r, 0>> /\ wire'[r][q][k].time = 0
    BY <2>2, <2>3
  <2>5. \A s \in Ranks : \A e \in m_events'[s] : e.kind = "model" => e \in m_events[s]
    <3>1. \A q : NullMessageEvent(r, q, 0).kind = "null"
      BY DEF NullMessageEvent
    <3> QED
      BY <1>t, <1>4, <3>1 DEF Start, Types, EventsType
  <2>6. \A s \in Ranks : 0 <= created[s]
    BY <1>t DEF Types, ControlType
  <2>7. ASSUME NEW s \in Ranks, NEW q \in Ranks, NEW k \in DOMAIN wire'[s][q]
        PROVE  /\ wire'[s][q][k].id[1] = s /\ wire'[s][q][k].id[2] <= created'[s]
               /\ wire'[s][q][k].time = 0 <=> wire'[s][q][k].id[2] = 0
               /\ wire'[s][q][k].id[2] # 0 =>
                     \A j \in DOMAIN wire'[s][q] :
                        j # k => wire'[s][q][j].id # wire'[s][q][k].id
    <3>1. CASE s = r
      BY <2>2, <2>4, <2>6, <3>1
    <3>2. CASE s # r
      BY <2>2, <3>2 DEF IdsOK
    <3> QED
      BY <3>1, <3>2
  <2>8. ASSUME NEW q \in Ranks, NEW e \in m_events'[q], e.kind = "model"
        PROVE  /\ e.id[1] \in Ranks /\ e.id[2] <= created'[e.id[1]]
               /\ \A s \in Ranks : \A k \in DOMAIN wire'[s][q] :
                     wire'[s][q][k].id[2] # 0 => wire'[s][q][k].id # e.id
    <3>1. e \in m_events[q]
      BY <2>5, <2>8
    <3> QED
      BY <2>2, <2>4, <2>8, <3>1 DEF IdsOK
  <2> QED
    BY <2>7, <2>8 DEF IdsOK
<1>5. ASSUME NEW r \in Ranks, PollEnds(r) \/ WaitForNobody(r) \/ Stop(r) \/ HandlerReturns(r)
      PROVE  IdsOK'
  BY <1>t, <1>5, IdsStay DEF PollEnds, WaitForNobody, Stop, HandlerReturns
<1>6. ASSUME NEW r \in Ranks, NEW q \in Ranks, NEW c \in channels, NEW x \in TxTimes,
             SendPacket(r, q, c, x)
      PROVE  IdsOK'
  <2> DEFINE now == m_currentTs[r]
             complete == [ts |-> now + x + InterframeGap, kind |-> "complete", id |-> <<c, 0>>]
             pending == {e \in m_events[r] : e.kind = "null" /\ e.id[1] = q}
             cancelled == {[e EXCEPT !.kind = "cancelled"] : e \in pending}
             n == NullMessageEvent(r, q, now)
             G == Guarantee(r, q, m_events[r] \cup {complete})
             m == [time |-> now + x + ChannelDelay[c], id |-> <<r, created[r] + 1>>,
                   guarantee |-> G]
  <2>1. /\ c \in Bundle(r, q) /\ created' = [created EXCEPT ![r] = @ + 1]
        /\ wire' = Send(r, q, m)
        /\ m_events' = [m_events EXCEPT ![r] =
              (@ \ pending) \cup cancelled \cup {complete, n}]
    BY <1>6 DEF SendPacket, Create
  <2>2. /\ q \in Neighbours(r) /\ c \in Channels
        /\ now \in Nat /\ x \in Nat /\ InterframeGap \in Nat
        /\ ChannelDelay[c] \in Nat /\ ChannelDelay[c] > 0
    BY <1>t, <2>1, ChannelsAssumption, NumbersAssumption
       DEF Neighbours, Types, ControlType, ClocksType, PositiveDelays
  <2>3. complete \in EventType
    BY <2>2 DEF EventType, Kinds, Ids
  <2>4. G \in Nat
    <3>1. m_events[r] \cup {complete} \subseteq EventType
      BY <1>t, <2>3 DEF Types, EventsType
    <3> HIDE DEF complete
    <3> QED
      BY <1>t, <2>2, <3>1, GuaranteeIs
  <2>5. /\ \A s \in Ranks : created[s] \in Nat /\ created[s] <= created'[s]
        /\ created'[r] = created[r] + 1
    BY <1>t, <2>1 DEF Types, ControlType
  <2> HIDE DEF G
  <2>6. /\ m \in MessageType /\ m.id[1] = r /\ m.id[2] = created[r] + 1
        /\ m.time = now + x + ChannelDelay[c]
    BY <2>2, <2>4, <2>5 DEF MessageType, Ids
  <2>7. m.time # 0 /\ m.id[2] # 0 /\ m.id[2] > created[r] /\ m.id[2] <= created'[r]
    <3> HIDE DEF m, now
    <3> QED
      BY <2>2, <2>5, <2>6
  <2>8. /\ complete.kind = "complete" /\ n.kind = "null"
        /\ \A f \in cancelled : f.kind = "cancelled"
    BY <1>t DEF NullMessageEvent, Types, EventsType, EventType
  <2> HIDE DEF m, n, complete, cancelled, pending
  <2>9. \A s \in Ranks : \A f \in m_events'[s] : f.kind = "model" => f \in m_events[s]
    BY <1>t, <2>1, <2>8 DEF Types, EventsType
  <2> QED
    BY <1>t, <2>1, <2>5, <2>6, <2>7, <2>9, IdsOfSent
<1>7. ASSUME NEW r \in Ranks, NEW q \in Ranks, Poll(r, q) \/ Wait(r, q) PROVE IdsOK'
  BY <1>7, IdsOfReceived DEF Poll, Wait
<1>8. ASSUME NEW r \in Ranks, Process(r), UNCHANGED channels PROVE IdsOK'
  BY <1>2, <1>3, <1>8 DEF Process
<1>9. ASSUME NEW r \in Ranks, NEW d \in Delays, Schedule(r, d) PROVE IdsOK'
  BY <1>t, <1>9, IdsOfScheduled
<1> QED
  BY <1>1, <1>4, <1>5, <1>6, <1>7, <1>8, <1>9 DEF Next, Loop, Handler, Receive

(* What is on the way to a rank after a message has been sent or received. *)
LEMMA PacketsInAppend ==
  ASSUME NEW w \in Seq(MessageType), NEW m \in MessageType
  PROVE  PacketsIn(Append(w, m)) =
            PacketsIn(w) \cup {x \in {PacketEvent(m)} : m.id[2] # 0}
<1> DEFINE L == Len(w)
<1>1. /\ DOMAIN w = 1 .. L /\ L \in Nat
      /\ DOMAIN Append(w, m) = 1 .. (L + 1)
      /\ Append(w, m)[L + 1] = m
      /\ \A k \in 1 .. L : Append(w, m)[k] = w[k]
  OBVIOUS
<1>2. \A k \in 1 .. (L + 1) : k \in 1 .. L \/ k = L + 1
  BY <1>1
<1>3. 1 .. L \subseteq 1 .. (L + 1) /\ L + 1 \in 1 .. (L + 1)
  BY <1>1
<1> HIDE DEF L
<1>4. Range(Append(w, m)) = Range(w) \cup {m}
  BY <1>1, <1>2, <1>3 DEF Range
<1> QED
  BY <1>4 DEF PacketsIn

LEMMA PacketsInTail ==
  ASSUME NEW w \in Seq(MessageType), w # <<>>
  PROVE  PacketsIn(w) = PacketsIn(Tail(w)) \cup
                        {x \in {PacketEvent(Head(w))} : Head(w).id[2] # 0}
<1> DEFINE L == Len(w)
           T == Tail(w)
           m == Head(w)
<1>1. /\ L \in Nat /\ L >= 1 /\ DOMAIN w = 1 .. L
      /\ m = w[1]
      /\ DOMAIN T = 1 .. (L - 1)
      /\ \A k \in 1 .. (L - 1) : T[k] = w[k + 1]
  BY HeadTailProperties
<1>2. \A k \in 1 .. L : k = 1 \/ (k - 1 \in 1 .. (L - 1) /\ (k - 1) + 1 = k)
  BY <1>1
<1>3. 1 \in 1 .. L /\ \A k \in 1 .. (L - 1) : k + 1 \in 1 .. L
  BY <1>1
<1> HIDE DEF L, T, m
<1>4. \A x : (\E k \in 1 .. L : w[k] = x) <=> (x = m \/ \E k \in 1 .. (L - 1) : T[k] = x)
  <2>1. ASSUME NEW k \in 1 .. L PROVE w[k] = m \/ \E j \in 1 .. (L - 1) : T[j] = w[k]
    BY <1>1, <1>2
  <2>2. ASSUME NEW k \in 1 .. (L - 1) PROVE \E j \in 1 .. L : w[j] = T[k]
    BY <1>1, <1>3
  <2>3. \E k \in 1 .. L : w[k] = m
    BY <1>1, <1>3
  <2> QED
    BY <2>1, <2>2, <2>3
<1>5. Range(w) = Range(T) \cup {m}
  <2>1. \A x : x \in Range(w) <=> \E k \in 1 .. L : w[k] = x
    BY <1>1 DEF Range
  <2>2. \A x : x \in Range(T) <=> \E k \in 1 .. (L - 1) : T[k] = x
    BY <1>1 DEF Range
  <2> QED
    BY <1>4, <2>1, <2>2
<1> QED
  BY <1>5 DEF PacketsIn, T, m

(* A packet on its way is beyond the safe time of its receiver. *)
LEMMA PacketsAreAhead ==
  ASSUME NInv, IdsOK, NEW q \in Ranks, NEW f \in PacketEvents(q)
  PROVE  /\ f.ts \in Nat /\ m_safeTime[q] <= f.ts
         /\ \A e \in Models(q) : e # f
<1>0. PICK r \in Ranks : f \in PacketsIn(wire[r][q])
  BY DEF PacketEvents
<1>1. PICK k \in DOMAIN wire[r][q] :
         f = PacketEvent(wire[r][q][k]) /\ wire[r][q][k].id[2] # 0
  BY <1>0 DEF PacketsIn, Range
<1> DEFINE m == wire[r][q][k]
<1>2. wire[r][q] \in Seq(MessageType)
  BY DEF NInv, Types, WireType
<1>3. m \in MessageType
  BY <1>2
<1>4. m.time \in Nat /\ m.time > 0
  BY <1>1, <1>3 DEF MessageType, IdsOK
<1>5. f.ts = m.time /\ f.id = m.id
  BY <1>1 DEF PacketEvent
<1>6. r \in Neighbours(q)
  BY <1>1, <1>2, BundlesAreSymmetric DEF NInv, RankOK, Connected
<1>7. m_guaranteeTime[q][r] <= m.time
  BY <1>4 DEF NInv, WireOrder, Later
<1>8. m_safeTime[q] <= m_guaranteeTime[q][r]
  BY <1>6 DEF NInv, RankOK, Ahead
<1>9. m_safeTime[q] \in Nat /\ m_guaranteeTime[q][r] \in Nat
  BY DEF NInv, Types, ClocksType, ReceivedType
<1>10. \A e \in Models(q) : e.id # m.id
  BY <1>1 DEF IdsOK, Models
<1> HIDE DEF m
<1> QED
  BY <1>4, <1>5, <1>7, <1>8, <1>9, <1>10

(* Every step is one of the abstract simulation, or none. *)
LEMMA NextAbstract ==
  ASSUME PositiveDelays, NInv, NInv', IdsOK, [Next]_vars
  PROVE  [Abstract!Next]_(Abstract!vars)
<1> DEFINE Goal == [Abstract!Next]_(Abstract!vars)
<1>t. Types /\ Types'
  BY DEF NInv
<1>p. \A q \in Ranks : Pending[q] = Models(q) \cup PacketEvents(q)
  BY DEF Pending
<1>1. ASSUME UNCHANGED m_currentTs,
             \A q \in Ranks : (Models(q) \cup PacketEvents(q))' = Models(q) \cup PacketEvents(q)
      PROVE  Goal
  BY <1>1 DEF Abstract!vars, Pending
<1>2. ASSUME UNCHANGED wire PROVE \A q : PacketEvents(q)' = PacketEvents(q)
  BY <1>2 DEF PacketEvents
<1>3. ASSUME NEW r \in Ranks, NEW e \in m_events[r], Take(r, e)
      PROVE  /\ m_currentTs' = [m_currentTs EXCEPT ![r] = e.ts]
             /\ m_currentTs'[r] = e.ts /\ m_currentTs[r] <= e.ts
             /\ \A f \in Pending[r] : e.ts <= f.ts
             /\ e \notin PacketEvents(r) \/ e.kind # "model"
  <2>1. /\ m_currentTs' = [m_currentTs EXCEPT ![r] = e.ts] /\ e.ts <= m_safeTime[r]
        /\ \A f \in m_events[r] : e.ts <= f.ts
    BY <1>3 DEF Take
  <2>2. m_currentTs'[r] = e.ts /\ m_currentTs[r] <= e.ts
    BY <1>t, <2>1 DEF Types, ClocksType, NInv, RankOK, Ahead
  <2>3. e.ts \in Nat /\ m_safeTime[r] \in Nat
    BY <1>t DEF Types, ClocksType, EventsType, EventType
  <2>4. \A f \in PacketEvents(r) : e.ts <= f.ts /\ (e \in Models(r) => e # f)
    BY <2>1, <2>3, PacketsAreAhead
  <2> QED
    BY <1>p, <2>1, <2>2, <2>4 DEF Models
<1>4. ASSUME NEW r \in Ranks, NEW e \in m_events[r], Take(r, e),
             \A q \in Ranks : (Models(q) \cup PacketEvents(q))' = Models(q) \cup PacketEvents(q)
      PROVE  Goal
  <2>1. Pending' = Pending
    BY <1>4 DEF Pending
  <2>2. Abstract!Advance(r)
    BY <1>3, <1>4, <2>1 DEF Abstract!Advance
  <2> QED
    BY <2>2 DEF Abstract!Next
<1>5. ASSUME NEW r \in Ranks, NEW e \in m_events[r],
             \/ ProcessTransmitComplete(r, e) \/ ProcessCancelledEvent(r, e)
             \/ ProcessStopEvent(r, e)
      PROVE  Goal
  <2>1. /\ m_events' = [m_events EXCEPT ![r] = @ \ {e}] /\ UNCHANGED wire
        /\ e.kind # "model" /\ Take(r, e)
    BY <1>5 DEF ProcessTransmitComplete, ProcessCancelledEvent, ProcessStopEvent
  <2>2. \A q \in Ranks : Models(q)' = Models(q)
    BY <1>t, <2>1 DEF Models, Types, EventsType
  <2> QED
    BY <1>2, <1>4, <2>1, <2>2
<1>6. ASSUME NEW r \in Ranks, NEW e \in m_events[r], ProcessModelEvent(r, e) PROVE Goal
  <2>1. /\ m_events' = [m_events EXCEPT ![r] = @ \ {e}] /\ UNCHANGED wire
        /\ e.kind = "model" /\ Take(r, e)
    BY <1>6 DEF ProcessModelEvent
  <2>2. \A q \in Ranks : Models(q)' = IF q = r THEN Models(q) \ {e} ELSE Models(q)
    BY <1>t, <2>1 DEF Models, Types, EventsType
  <2>3. \A q \in Ranks : (Models(q) \cup PacketEvents(q))' =
           IF q = r THEN (Models(q) \cup PacketEvents(q)) \ {e}
                    ELSE Models(q) \cup PacketEvents(q)
    BY <1>2, <1>3, <2>1, <2>2
  <2>4. Pending' = [Pending EXCEPT ![r] = @ \ {e}]
    BY <2>3 DEF Pending
  <2>5. e \in Pending[r]
    BY <1>p, <2>1 DEF Models
  <2>6. Abstract!Execute(r)
    BY <1>3, <2>1, <2>4, <2>5 DEF Abstract!Execute
  <2> QED
    BY <2>6 DEF Abstract!Next
(* A message that r sends to q0, of a packet or of none. *)
<1>7. ASSUME NEW r \in Ranks, NEW q0 \in Ranks, NEW m \in MessageType, wire' = Send(r, q0, m)
      PROVE  \A q \in Ranks : PacketEvents(q)' =
                IF q = q0 /\ m.id[2] # 0 THEN PacketEvents(q) \cup {PacketEvent(m)}
                                         ELSE PacketEvents(q)
  <2>1. /\ wire'[r][q0] = Append(wire[r][q0], m) /\ wire[r][q0] \in Seq(MessageType)
        /\ \A s, q \in Ranks : ~(s = r /\ q = q0) => wire'[s][q] = wire[s][q]
    BY <1>t, <1>7 DEF Send, Types, WireType
  <2>2. PacketsIn(wire'[r][q0]) =
           PacketsIn(wire[r][q0]) \cup {x \in {PacketEvent(m)} : m.id[2] # 0}
    BY <2>1, PacketsInAppend
  <2>3. \A s, q \in Ranks : ~(s = r /\ q = q0) => PacketsIn(wire'[s][q]) = PacketsIn(wire[s][q])
    BY <2>1
  <2>4. \A q : PacketEvents(q)' = UNION {PacketsIn(wire'[s][q]) : s \in Ranks}
    BY DEF PacketEvents, PacketsIn, PacketEvent
  <2>5. \A q : PacketEvents(q) = UNION {PacketsIn(wire[s][q]) : s \in Ranks}
    BY DEF PacketEvents
  <2>6. ASSUME NEW q \in Ranks, q # q0 PROVE PacketEvents(q)' = PacketEvents(q)
    <3>1. {PacketsIn(wire'[s][q]) : s \in Ranks} = {PacketsIn(wire[s][q]) : s \in Ranks}
      BY <2>3, <2>6
    <3> QED
      BY <2>4, <2>5, <3>1
  <2>7. CASE m.id[2] = 0
    <3>1. \A s, q \in Ranks : PacketsIn(wire'[s][q]) = PacketsIn(wire[s][q])
      BY <2>2, <2>3, <2>7
    <3>2. \A q \in Ranks : PacketEvents(q)' = PacketEvents(q)
      BY <2>4, <2>5, <3>1
    <3> QED
      BY <2>7, <3>2
  <2>8. CASE m.id[2] # 0
    <3>1. PacketsIn(wire'[r][q0]) = PacketsIn(wire[r][q0]) \cup {PacketEvent(m)}
      BY <2>2, <2>8
    <3>2. \A s \in Ranks \ {r} : PacketsIn(wire'[s][q0]) = PacketsIn(wire[s][q0])
      BY <2>3
    <3>3. PacketEvents(q0)' = PacketEvents(q0) \cup {PacketEvent(m)}
      BY <2>4, <2>5, <3>1, <3>2
    <3> QED
      BY <2>6, <2>8, <3>3
  <2> QED
    BY <2>7, <2>8
<1>8. ASSUME NEW r \in Ranks, NEW e \in m_events[r], ProcessNullMessageEvent(r, e),
             UNCHANGED channels
      PROVE  Goal
  <2> DEFINE q0   == e.id[1]
             rest == m_events[r] \ {e}
             G    == Guarantee(r, q0, rest)
             m    == NullMessage(r, G)
             n    == NullMessageEvent(r, q0, e.ts)
  <2>1. e.kind = "null" /\ Take(r, e)
    BY <1>8 DEF ProcessNullMessageEvent
  <2>2. CASE /\ wire' = Send(r, q0, m)
             /\ m_events' = [m_events EXCEPT ![r] = rest \cup {n}]
    <3>1. q0 \in Neighbours(r) /\ q0 \in Ranks
      BY <2>1 DEF NInv, RankOK, Connected, Neighbours
    <3>2. G \in Nat
      BY <1>t, <3>1, GuaranteeIs DEF Types, EventsType
    <3>3. m \in MessageType /\ m.id[2] = 0
      BY <3>2 DEF NullMessage, MessageType, Ids
    <3>4. n.kind = "null"
      BY DEF NullMessageEvent
    <3> HIDE DEF n, m
    <3>5. \A q \in Ranks : PacketEvents(q)' = PacketEvents(q)
      <4>1. wire' = Send(r, q0, m)
        BY <2>2
      <4> HIDE DEF q0
      <4> QED
        BY <1>7, <3>1, <3>3, <4>1
    <3>6. \A q \in Ranks : Models(q)' = Models(q)
      BY <1>t, <2>1, <2>2, <3>4 DEF Models, Types, EventsType
    <3> QED
      BY <1>4, <2>1, <3>5, <3>6
  <2>3. CASE m_events' = [m_events EXCEPT ![r] = rest] /\ UNCHANGED wire
    <3>1. \A q \in Ranks : Models(q)' = Models(q)
      BY <1>t, <2>1, <2>3 DEF Models, Types, EventsType
    <3> QED
      BY <1>2, <1>4, <2>1, <2>3, <3>1
  <2> QED
    BY <1>8, <2>2, <2>3 DEF ProcessNullMessageEvent
<1>9. ASSUME NEW r \in Ranks, Start(r), UNCHANGED channels PROVE Goal
  <2>1. \A q \in Ranks : wire[r][q] = <<>>
    BY <1>9 DEF Start, NInv, RankOK, Fresh
  <2>2. /\ \A q \in Ranks : \A k \in DOMAIN wire'[r][q] : wire'[r][q][k].id[2] = 0
        /\ \A s \in Ranks \ {r} : wire'[s] = wire[s]
    <3>1. wire'[r] = [q \in Ranks |->
             IF q \in Neighbours(r) THEN Append(wire[r][q], NullMessage(r, BundleDelay(r, q)))
                                    ELSE wire[r][q]]
      BY <1>t, <1>9 DEF Start, Types, WireType
    <3>2. \A q : NullMessage(r, BundleDelay(r, q)).id[2] = 0
      BY DEF NullMessage
    <3>3. \A x : \A k \in DOMAIN Append(<<>>, x) : Append(<<>>, x)[k] = x
      OBVIOUS
    <3>4. \A s \in Ranks \ {r} : wire'[s] = wire[s]
      BY <1>t, <1>9 DEF Start, Types, WireType
    <3> QED
      BY <2>1, <3>1, <3>2, <3>3, <3>4
  <2>3. \A q \in Ranks : PacketsIn(wire'[r][q]) = PacketsIn(wire[r][q])
    BY <2>1, <2>2 DEF PacketsIn, Range
  <2>4. \A s \in Ranks : \A q \in Ranks : PacketsIn(wire'[s][q]) = PacketsIn(wire[s][q])
    BY <2>2, <2>3
  <2>5. \A q \in Ranks : PacketEvents(q)' = PacketEvents(q)
    <3>1. \A q : PacketEvents(q)' = UNION {PacketsIn(wire'[s][q]) : s \in Ranks}
      BY DEF PacketEvents, PacketsIn, PacketEvent
    <3> QED
      BY <2>4, <3>1 DEF PacketEvents
  <2>6. \A q \in Ranks : Models(q)' = Models(q)
    <3>1. \A q : NullMessageEvent(r, q, 0).kind = "null"
      BY DEF NullMessageEvent
    <3>2. /\ m_events'[r] = m_events[r] \cup {NullMessageEvent(r, q, 0) : q \in Neighbours(r)}
          /\ \A q \in Ranks \ {r} : m_events'[q] = m_events[q]
      BY <1>t, <1>9 DEF Start, Types, EventsType
    <3> QED
      BY <3>1, <3>2 DEF Models
  <2> QED
    BY <1>1, <1>9, <2>5, <2>6 DEF Start
<1>10. ASSUME NEW r \in Ranks, NEW q0 \in Ranks, NEW e,
              Pending' = [Pending EXCEPT ![q0] = @ \cup {e}], UNCHANGED m_currentTs,
              e.ts >= m_currentTs[r], e.ts >= m_currentTs[q0]
       PROVE  Goal
  <2>1. e \in Pending'[q0]
    BY <1>10 DEF Pending
  <2>2. Abstract!Create(r, q0)
    BY <1>10, <2>1 DEF Abstract!Create
  <2> QED
    BY <2>2 DEF Abstract!Next
<1>11. ASSUME NEW r \in Ranks, NEW d \in Delays, Schedule(r, d) PROVE Goal
  <2> DEFINE n == [ts |-> m_currentTs[r] + d, kind |-> "model", id |-> <<r, created[r] + 1>>]
  <2>1. m_events' = [m_events EXCEPT ![r] = @ \cup {n}] /\ UNCHANGED <<wire, m_currentTs>>
    BY <1>11 DEF Schedule
  <2>2. n.kind = "model" /\ n.ts >= m_currentTs[r]
    BY <1>t, NumbersAssumption DEF Types, ClocksType
  <2> HIDE DEF n
  <2>3. \A q \in Ranks : Models(q)' = IF q = r THEN Models(q) \cup {n} ELSE Models(q)
    BY <1>t, <2>1, <2>2 DEF Models, Types, EventsType
  <2>4. \A q \in Ranks : (Models(q) \cup PacketEvents(q))' =
           IF q = r THEN (Models(q) \cup PacketEvents(q)) \cup {n}
                    ELSE Models(q) \cup PacketEvents(q)
    BY <1>2, <2>1, <2>3
  <2>5. Pending' = [Pending EXCEPT ![r] = @ \cup {n}]
    BY <2>4 DEF Pending
  <2> QED
    BY <1>10, <2>1, <2>2, <2>5
<1>12. ASSUME NEW r \in Ranks, NEW q0 \in Ranks, NEW c \in channels, NEW x \in TxTimes,
              SendPacket(r, q0, c, x)
       PROVE  Goal
  <2> DEFINE now == m_currentTs[r]
             complete == [ts |-> now + x + InterframeGap, kind |-> "complete", id |-> <<c, 0>>]
             pending == {e \in m_events[r] : e.kind = "null" /\ e.id[1] = q0}
             cancelled == {[e EXCEPT !.kind = "cancelled"] : e \in pending}
             n == NullMessageEvent(r, q0, now)
             G == Guarantee(r, q0, m_events[r] \cup {complete})
             m == [time |-> now + x + ChannelDelay[c], id |-> <<r, created[r] + 1>>,
                   guarantee |-> G]
  <2>1. /\ c \in Bundle(r, q0) /\ UNCHANGED m_currentTs
        /\ wire' = Send(r, q0, m)
        /\ m_events' = [m_events EXCEPT ![r] =
              (@ \ pending) \cup cancelled \cup {complete, n}]
    BY <1>12 DEF SendPacket
  <2>2. /\ q0 \in Neighbours(r) /\ c \in Channels
        /\ now \in Nat /\ x \in Nat /\ InterframeGap \in Nat
        /\ ChannelDelay[c] \in Nat /\ ChannelDelay[c] > 0 /\ created[r] \in Nat
    BY <1>t, <2>1, ChannelsAssumption, NumbersAssumption
       DEF Neighbours, Types, ControlType, ClocksType, PositiveDelays
  <2>3. complete \in EventType
    BY <2>2 DEF EventType, Kinds, Ids
  <2>4. G \in Nat
    <3>1. m_events[r] \cup {complete} \subseteq EventType
      BY <1>t, <2>3 DEF Types, EventsType
    <3> HIDE DEF complete
    <3> QED
      BY <1>t, <2>2, <3>1, GuaranteeIs
  <2> HIDE DEF G
  <2>5. m \in MessageType /\ m.id[2] = created[r] + 1 /\ m.time = now + x + ChannelDelay[c]
    BY <2>2, <2>4 DEF MessageType, Ids
  <2>6. /\ complete.kind = "complete" /\ n.kind = "null"
        /\ \A f \in cancelled : f.kind = "cancelled"
        /\ \A f \in pending : f.kind = "null"
    BY <1>t DEF NullMessageEvent, Types, EventsType, EventType
  <2>7. m.id[2] # 0 /\ m.time > 0 /\ m.time >= now
    <3> HIDE DEF m, now
    <3> QED
      BY <2>2, <2>5
  <2>8. PacketEvent(m).ts = m.time
    BY DEF PacketEvent
  <2> HIDE DEF m, n, complete, cancelled, pending
  <2>9. \A q \in Ranks : Models(q)' = Models(q)
    <3>1. /\ m_events'[r] = (m_events[r] \ pending) \cup cancelled \cup {complete, n}
          /\ \A q \in Ranks \ {r} : m_events'[q] = m_events[q]
      BY <1>t, <2>1 DEF Types, EventsType
    <3> QED
      BY <2>6, <3>1 DEF Models
  <2>10. \A q \in Ranks : PacketEvents(q)' =
            IF q = q0 THEN PacketEvents(q) \cup {PacketEvent(m)} ELSE PacketEvents(q)
    <3>1. wire' = Send(r, q0, m) /\ m \in MessageType /\ m.id[2] # 0
      BY <2>1, <2>5, <2>7
    <3> QED
      BY <1>7, <3>1
  <2>11. \A q \in Ranks : (Models(q) \cup PacketEvents(q))' =
            IF q = q0 THEN (Models(q) \cup PacketEvents(q)) \cup {PacketEvent(m)}
                      ELSE Models(q) \cup PacketEvents(q)
    BY <2>9, <2>10
  <2>12. Pending' = [Pending EXCEPT ![q0] = @ \cup {PacketEvent(m)}]
    BY <2>11 DEF Pending
  <2>13. m.time >= m_currentTs[q0]
    <3>1. /\ wire[r][q0] \in Seq(MessageType)
          /\ wire'[r][q0] = Append(wire[r][q0], m)
      BY <1>t, <2>1 DEF Send, Types, WireType
    <3>2. \E k \in DOMAIN wire'[r][q0] : wire'[r][q0][k] = m
      <4>1. /\ Len(wire[r][q0]) + 1 \in DOMAIN Append(wire[r][q0], m)
            /\ Append(wire[r][q0], m)[Len(wire[r][q0]) + 1] = m
        BY <3>1
      <4> QED
        BY <3>1, <4>1
    <3>3. m_guaranteeTime'[q0][r] <= m.time
      BY <2>7, <3>2 DEF NInv, WireOrder, Later
    <3>4. m_guaranteeTime' = m_guaranteeTime
      BY <1>12 DEF SendPacket
    <3>5. r \in Neighbours(q0)
      BY <2>2, BundlesAreSymmetric
    <3>6. /\ m_currentTs[q0] <= m_safeTime[q0]
          /\ m_safeTime[q0] <= m_guaranteeTime[q0][r]
      BY <3>5 DEF NInv, RankOK, Ahead
    <3>7. /\ m_currentTs[q0] \in Nat /\ m_safeTime[q0] \in Nat
          /\ m_guaranteeTime[q0][r] \in Nat /\ m.time \in Nat
      BY <1>t, <2>5 DEF Types, ClocksType, ReceivedType, MessageType
    <3> QED
      BY <3>3, <3>4, <3>6, <3>7
  <2> QED
    BY <1>10, <2>1, <2>7, <2>8, <2>12, <2>13
<1>13. ASSUME NEW r \in Ranks, NEW q0 \in Ranks, Poll(r, q0) \/ Wait(r, q0) PROVE Goal
  <2> DEFINE w == wire[q0][r]
             m == Head(w)
             N == {x \in {PacketEvent(m)} : m.id[2] # 0}
  <2>1. /\ w \in Seq(MessageType) /\ w # <<>> /\ UNCHANGED m_currentTs
        /\ m_events' = [m_events EXCEPT ![r] = IF m.time = 0 THEN @ ELSE @ \cup {PacketEvent(m)}]
        /\ wire'[q0][r] = Tail(w)
        /\ \A s, q \in Ranks : ~(s = q0 /\ q = r) => wire'[s][q] = wire[s][q]
    <3>1. ReceiveMessage(r, q0)
      BY <1>13 DEF Poll, Wait
    <3>2. /\ w # <<>> /\ UNCHANGED m_currentTs /\ wire' = [wire EXCEPT ![q0][r] = Tail(@)]
          /\ m_events' = [m_events EXCEPT ![r] =
                            IF m.time = 0 THEN @ ELSE @ \cup {PacketEvent(m)}]
      BY <3>1 DEF ReceiveMessage, PacketEvent
    <3>3. wire \in [Ranks -> [Ranks -> Seq(MessageType)]]
      BY <1>t DEF Types, WireType
    <3> HIDE DEF m
    <3>4. /\ wire'[q0][r] = Tail(w)
          /\ \A s, q \in Ranks : ~(s = q0 /\ q = r) => wire'[s][q] = wire[s][q]
      BY <3>2, <3>3
    <3> QED
      BY <3>2, <3>3, <3>4
  <2>2. m.time = 0 <=> m.id[2] = 0
    <3>1. 1 \in DOMAIN w /\ m = w[1]
      BY <2>1, HeadTailProperties
    <3> QED
      BY <3>1 DEF IdsOK
  <2>3. PacketsIn(w) = PacketsIn(Tail(w)) \cup N
    BY <2>1, PacketsInTail
  <2>4. PacketEvent(m).kind = "model"
    BY DEF PacketEvent
  <2>5. \A q \in Ranks : m_events'[q] = IF q = r THEN m_events[q] \cup N ELSE m_events[q]
    BY <1>t, <2>1, <2>2 DEF Types, EventsType
  <2> HIDE DEF m
  <2>6. \A q \in Ranks : Models(q)' = IF q = r THEN Models(q) \cup N ELSE Models(q)
    BY <2>4, <2>5 DEF Models
  <2> HIDE DEF N
  <2>7. \A q \in Ranks : PacketEvents(q) =
           IF q = r THEN PacketEvents(q)' \cup N ELSE PacketEvents(q)'
    <3>1. \A q : PacketEvents(q)' = UNION {PacketsIn(wire'[s][q]) : s \in Ranks}
      BY DEF PacketEvents, PacketsIn, PacketEvent
    <3>2. \A q : PacketEvents(q) = UNION {PacketsIn(wire[s][q]) : s \in Ranks}
      BY DEF PacketEvents
    <3>3. PacketsIn(wire[q0][r]) = PacketsIn(wire'[q0][r]) \cup N
      BY <2>1, <2>3
    <3>4. \A s, q \in Ranks : ~(s = q0 /\ q = r) => PacketsIn(wire'[s][q]) = PacketsIn(wire[s][q])
      BY <2>1
    <3> HIDE DEF w
    <3>5. ASSUME NEW q \in Ranks, q # r PROVE PacketEvents(q) = PacketEvents(q)'
      <4>1. \A s \in Ranks : PacketsIn(wire'[s][q]) = PacketsIn(wire[s][q])
        BY <3>4, <3>5
      <4>2. {PacketsIn(wire'[s][q]) : s \in Ranks} = {PacketsIn(wire[s][q]) : s \in Ranks}
        BY <4>1
      <4> QED
        BY <3>1, <3>2, <4>2
    <3>6. \A s \in Ranks \ {q0} : PacketsIn(wire'[s][r]) = PacketsIn(wire[s][r])
      BY <3>4
    <3>7. PacketEvents(r) = PacketEvents(r)' \cup N
      BY <3>1, <3>2, <3>3, <3>6
    <3> QED
      BY <3>5, <3>7
  <2>8. \A q \in Ranks : (Models(q) \cup PacketEvents(q))' = Models(q) \cup PacketEvents(q)
    BY <2>6, <2>7
  <2> QED
    BY <1>1, <2>1, <2>8
<1>14. ASSUME UNCHANGED <<m_events, wire, m_currentTs>> PROVE Goal
  BY <1>1, <1>2, <1>14 DEF Models
<1>15. ASSUME NEW r \in Ranks,
              PollEnds(r) \/ WaitForNobody(r) \/ Stop(r) \/ HandlerReturns(r)
       PROVE  UNCHANGED <<m_events, wire, m_currentTs>>
  BY <1>15 DEF PollEnds, WaitForNobody, Stop, HandlerReturns
<1>16. ASSUME NEW r \in Ranks, Process(r), UNCHANGED channels PROVE Goal
  BY <1>5, <1>6, <1>8, <1>16 DEF Process
<1>17. ASSUME UNCHANGED vars PROVE UNCHANGED <<m_events, wire, m_currentTs>>
  BY <1>17 DEF vars
<1> HIDE DEF Goal
<1>18. Goal
  BY <1>9, <1>11, <1>12, <1>13, <1>14, <1>15, <1>16, <1>17
     DEF Next, Loop, Handler, Receive
<1> QED
  BY <1>18 DEF Goal

(* The ranks together implement one simulation in time-stamped order, as
   NullMessageSimulatorImpl promises: each executes the earliest event of its
   models, the packets on their way to it included, and none from its past, the
   assertion of ProcessOneEvent. *)
THEOREM Refinement ==
  ASSUME OneChannelEach, PositiveDelays
  PROVE  Spec => ImplementsParallelSimulation
<1>1. Init => Abstract!Init
  BY DEF Init, Abstract!Init
<1>2. IdsOK /\ NInv /\ NInv' /\ [Next]_vars => IdsOK' /\ [Abstract!Next]_(Abstract!vars)
  BY NextIds, NextAbstract
<1> QED
  BY <1>1, <1>2, InitIds, Invariance, PTL DEF Spec, ImplementsParallelSimulation, Abstract!Spec

-------------------------------------------------------------------------------
(* Why Next() never finds an empty queue: until a rank has stopped its stop
   event is queued, and afterwards it executes no event. *)

StopsToCome ==
    /\ DOMAIN m_events = Ranks /\ DOMAIN pc = Ranks
    /\ \A r \in Ranks :
          /\ pc[r] # "aborted"
          /\ r \notin m_stop => \E e \in m_events[r] : e.kind = "stop"
          /\ r \in m_stop => pc[r] \in {"poll", "loop", "stopped"}

(* If every rank is told to stop at some time, the queue is not empty when a
   null message event looks at the next one: the assertion of
   NullMessageSimulatorImpl::Next. *)
THEOREM NextHasAnEvent ==
  ASSUME \A r \in Ranks : StopTimes[r] # {}
  PROVE  Spec => []NextIsDefined
<1>1. Init => StopsToCome
  <2> SUFFICES ASSUME Init PROVE StopsToCome
    OBVIOUS
  <2>1. DOMAIN m_events = Ranks /\ pc = [r \in Ranks |-> "start"] /\ m_stop = {}
    BY DEF Init
  <2>2. ASSUME NEW r \in Ranks PROVE \E e \in m_events[r] : e.kind = "stop"
    <3>1. PICK t \in StopTimes[r] : TRUE
      OBVIOUS
    <3>2. [ts |-> t, kind |-> "stop", id |-> <<r, 0>>] \in m_events[r]
      BY DEF Init
    <3> QED
      BY <3>2
  <2> QED
    BY <2>1, <2>2 DEF StopsToCome
<1>2. ASSUME StopsToCome, [Next]_vars PROVE StopsToCome'
  <2> USE DEF StopsToCome
  <2>1. CASE UNCHANGED vars
    BY <1>2, <2>1 DEF vars
  <2>2. ASSUME NEW r \in Ranks, Process(r) PROVE StopsToCome'
    <3> SUFFICES ASSUME NEW e \in m_events[r],
                        \/ ProcessModelEvent(r, e) \/ ProcessTransmitComplete(r, e)
                        \/ ProcessCancelledEvent(r, e) \/ ProcessStopEvent(r, e)
                        \/ ProcessNullMessageEvent(r, e)
                 PROVE  StopsToCome'
      BY <2>2 DEF Process
    <3>1. r \notin m_stop
      BY DEF ProcessModelEvent, ProcessTransmitComplete, ProcessCancelledEvent,
             ProcessStopEvent, ProcessNullMessageEvent, Take, IsFinished
    <3>2. PICK f \in m_events[r] : f.kind = "stop"
      BY <1>2, <3>1
    <3>3. CASE ProcessModelEvent(r, e)
      BY <1>2, <3>1, <3>2, <3>3 DEF ProcessModelEvent
    <3>4. CASE ProcessTransmitComplete(r, e)
      BY <1>2, <3>1, <3>2, <3>4 DEF ProcessTransmitComplete
    <3>5. CASE ProcessCancelledEvent(r, e)
      BY <1>2, <3>1, <3>2, <3>5 DEF ProcessCancelledEvent
    <3>6. CASE ProcessStopEvent(r, e)
      BY <1>2, <3>6 DEF ProcessStopEvent
    <3>7. CASE ProcessNullMessageEvent(r, e)
      <4>1. e.kind = "null" /\ f \in m_events[r] \ {e}
        BY <3>2, <3>7 DEF ProcessNullMessageEvent
      <4>2. /\ UNCHANGED m_stop /\ pc' = [pc EXCEPT ![r] = "poll"]
            /\ \E n : m_events' = [m_events EXCEPT ![r] = (m_events[r] \ {e}) \cup {n}]
        BY <3>7, <4>1 DEF ProcessNullMessageEvent
      <4> QED
        BY <1>2, <3>1, <3>2, <4>1, <4>2
    <3> QED
      BY <3>3, <3>4, <3>5, <3>6, <3>7
  <2>3. ASSUME NEW r \in Ranks, Start(r) PROVE StopsToCome'
    <3>1. \E N : m_events' = [m_events EXCEPT ![r] = @ \cup N]
      BY <2>3 DEF Start
    <3> QED
      BY <1>2, <2>3, <3>1 DEF Start
  <2>4. ASSUME NEW r \in Ranks, PollEnds(r) \/ WaitForNobody(r) \/ Stop(r) \/ HandlerReturns(r)
        PROVE  StopsToCome'
    BY <1>2, <2>4 DEF PollEnds, WaitForNobody, Stop, HandlerReturns
  <2>5. ASSUME NEW r \in Ranks, NEW d \in Delays, Schedule(r, d) PROVE StopsToCome'
    BY <1>2, <2>5 DEF Schedule
  <2>6. ASSUME NEW r \in Ranks, NEW q \in Ranks, NEW c \in channels, NEW x \in TxTimes,
               SendPacket(r, q, c, x)
        PROVE  StopsToCome'
    <3> DEFINE pending == {e \in m_events[r] : e.kind = "null" /\ e.id[1] = q}
    <3>1. /\ UNCHANGED <<m_stop, pc>>
          /\ \E N : m_events' = [m_events EXCEPT ![r] = (m_events[r] \ pending) \cup N]
      <4>1. PICK A, B : m_events' = [m_events EXCEPT ![r] =
                                       ((m_events[r] \ pending) \cup A) \cup B]
        BY <2>6 DEF SendPacket
      <4> HIDE DEF pending
      <4>2. ((m_events[r] \ pending) \cup A) \cup B = (m_events[r] \ pending) \cup (A \cup B)
        OBVIOUS
      <4>3. m_events' = [m_events EXCEPT ![r] = (m_events[r] \ pending) \cup (A \cup B)]
        BY <4>1, <4>2
      <4>4. UNCHANGED <<m_stop, pc>>
        BY <2>6 DEF SendPacket
      <4> QED
        BY <4>3, <4>4
    <3>2. \A e \in m_events[r] : e.kind = "stop" => e \notin pending
      OBVIOUS
    <3> HIDE DEF pending
    <3> QED
      BY <1>2, <3>1, <3>2
  <2>7. ASSUME NEW r \in Ranks, NEW q \in Ranks, Poll(r, q) \/ Wait(r, q)
        PROVE  StopsToCome'
    <3>1. /\ UNCHANGED <<m_stop, pc>>
          /\ \E N : m_events' = [m_events EXCEPT ![r] = m_events[r] \cup N]
      <4>1. UNCHANGED <<m_stop, pc>> /\ ReceiveMessage(r, q)
        BY <2>7 DEF Poll, Wait, ReceiveMessage
      <4> DEFINE m == Head(wire[q][r])
                 n == [ts |-> m.time, kind |-> "model", id |-> m.id]
      <4>2. m_events' = [m_events EXCEPT ![r] = IF m.time = 0 THEN @ ELSE @ \cup {n}]
        BY <4>1 DEF ReceiveMessage
      <4> HIDE DEF m, n
      <4>3. m_events[r] = m_events[r] \cup {}
        OBVIOUS
      <4>4. m_events' = [m_events EXCEPT ![r] =
                           m_events[r] \cup (IF m.time = 0 THEN {} ELSE {n})]
        BY <4>2, <4>3
      <4> QED
        BY <4>1, <4>4
    <3> QED
      BY <1>2, <3>1
  <2> QED
    BY <1>2, <2>1, <2>2, <2>3, <2>4, <2>5, <2>6, <2>7 DEF Next, Loop, Handler, Receive
<1>3. StopsToCome => NextIsDefined
  BY DEF StopsToCome, NextIsDefined
<1>4. StopsToCome /\ [Next]_vars => StopsToCome'
  BY <1>2
<1> QED
  BY <1>1, <1>3, <1>4, PTL DEF Spec
===============================================================================
