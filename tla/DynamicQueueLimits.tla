-------------------------- MODULE DynamicQueueLimits --------------------------
(***************************************************************************)
(* ns3::DynamicQueueLimits (network/utils/dynamic-queue-limits.cc): how    *)
(* many bytes a device may hold before its queue stops, adapted at every   *)
(* completion.  The counters m_numQueued, m_numCompleted and the values    *)
(* compared with them never return to zero: they are words that start over *)
(* after 2 * HalfWord - 1, and only their differences mean anything.       *)
(***************************************************************************)
EXTENDS Integers

CONSTANTS
    HalfWord,     \* words count modulo 2 * HalfWord (2^32 in the code)
    MinLimit,     \* m_minLimit
    MaxLimit      \* m_maxLimit

ASSUME WordAssumption == HalfWord \in Nat \ {0}
ASSUME LimitsAssumption == MinLimit \in Nat /\ MaxLimit \in 0 .. HalfWord - 1

Word == 2 * HalfWord

Words == 0 .. Word - 1

(* Error: a difference of counters that have started over is taken for 0.  *)
Minus_Saturated(a, b) == IF b <= a THEN a - b ELSE 0

(* Addition, subtraction and conversion to int32_t of two words *)
Plus(a, b)  == IF a + b < Word THEN a + b ELSE a + b - Word
Minus(a, b) == IF b <= a THEN a - b ELSE a - b + Word
Signed(a)   == IF a < HalfWord THEN a ELSE a - Word

(* Posdiff.  The parameters are int32_t; where their difference overflows, *)
(* what the compilers emit is a subtraction that wraps and a test of its   *)
(* sign.                                                                   *)
Posdiff(a, b) == IF Signed(Minus(a, b)) > 0 THEN Minus(a, b) ELSE 0

NoSlack == Word - 1  \* UINTMAX

Larger(a, b)  == IF a < b THEN b ELSE a
Smaller(a, b) == IF a < b THEN a ELSE b

(* Reset, which only the constructor calls.  adjLimit is initialised where *)
(* it is declared; Reset does not touch it.                                *)
Fresh ==
    [limit |-> 0, adjLimit |-> 0,
     numQueued |-> 0, numCompleted |-> 0, lastObjCnt |-> 0,
     prevNumQueued |-> 0, prevLastObjCnt |-> 0, prevOvlimit |-> 0,
     lowestSlack |-> NoSlack]

QueueLimits ==
    [limit: Words, adjLimit: Words, numQueued: Words, numCompleted: Words,
     lastObjCnt: Words, prevNumQueued: Words, prevLastObjCnt: Words,
     prevOvlimit: Words, lowestSlack: Words]

Available(dql) == Signed(Minus(dql.adjLimit, dql.numQueued))

Queued(dql, count) ==
    [dql EXCEPT !.lastObjCnt = count,
                !.numQueued = Plus(dql.numQueued, count)]

(* Bytes queued and not yet completed *)
InProgress(dql) == Minus(dql.numQueued, dql.numCompleted)

(* The interval just completed, seen from dql with count more bytes        *)
AllPrevCompleted(dql, count) ==
    Minus(Plus(dql.numCompleted, count), dql.prevNumQueued) < HalfWord

Ovlimit(dql) == Posdiff(InProgress(dql), dql.limit)

Starved(dql, count) ==
    \/ Ovlimit(dql) # 0 /\ InProgress(dql) = count
    \/ dql.prevOvlimit # 0 /\ AllPrevCompleted(dql, count)

BusyThroughout(dql, count) ==
    /\ InProgress(dql) # count
    /\ dql.prevNumQueued # dql.numCompleted
    /\ ~ AllPrevCompleted(dql, count)

Slack(dql, count) ==
    LET bytes   == Posdiff(Plus(dql.limit, dql.prevOvlimit), Plus(count, count))
        lastObj == IF dql.prevOvlimit = 0 THEN 0
                   ELSE Posdiff(dql.prevLastObjCnt, dql.prevOvlimit)
    IN  Smaller(Larger(bytes, lastObj), dql.lowestSlack)

(* The limit this completion asks for, and the slack to remember.  held:   *)
(* m_slackHoldTime has not passed since m_slackStartTime.                  *)
Adapted(dql, count, held) ==
    IF Starved(dql, count)
    THEN [limit |-> Plus(Plus(dql.limit,
                              Posdiff(Plus(dql.numCompleted, count), dql.prevNumQueued)),
                         dql.prevOvlimit),
          slack |-> NoSlack]
    ELSE IF ~ BusyThroughout(dql, count)
    THEN [limit |-> dql.limit, slack |-> dql.lowestSlack]
    ELSE IF held
    THEN [limit |-> dql.limit, slack |-> Slack(dql, count)]
    ELSE [limit |-> Posdiff(dql.limit, Slack(dql, count)), slack |-> NoSlack]

Bounded(limit) == Smaller(Larger(limit, MinLimit), MaxLimit)

Completed(dql, count, held) ==
    LET adapted   == Adapted(dql, count, held)
        limit     == Bounded(adapted.limit)
        completed == Plus(dql.numCompleted, count)
    IN  [limit          |-> limit,
         adjLimit       |-> Plus(limit, completed),
         numQueued      |-> dql.numQueued,
         numCompleted   |-> completed,
         lastObjCnt     |-> dql.lastObjCnt,
         prevNumQueued  |-> dql.numQueued,
         prevLastObjCnt |-> dql.lastObjCnt,
         prevOvlimit    |-> IF limit = dql.limit THEN Ovlimit(dql) ELSE 0,
         lowestSlack    |-> adapted.slack]
===============================================================================
