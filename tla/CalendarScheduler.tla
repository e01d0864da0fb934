--------------------------- MODULE CalendarScheduler ---------------------------
(***************************************************************************)
(* ns3::CalendarScheduler (core/model/calendar-scheduler.cc): events are   *)
(* hashed by their time into the days (buckets) of a year, RemoveNext goes *)
(* through the days from the current one, and the number and the width of  *)
(* the days follow the number of events.                                   *)
(*                                                                         *)
(* A bucket is a list kept sorted by DoInsert with an end, chosen by the   *)
(* Reverse attribute, from which the earliest event is taken: here it is   *)
(* a set and its earliest member.                                          *)
(***************************************************************************)
EXTENDS EventQueue, FiniteSets, Sequences

CONSTANTS
    Delays,          \* delays between the clock and an inserted event
    MaxEvents,       \* bound: number of events inserted
    MaxBuckets       \* ResizeUp stops at this number of buckets

VARIABLES
    cal,             \* the calendar: m_buckets, m_nBuckets, m_width,
                     \* m_lastBucket, m_lastPrio, m_bucketTop
    m_qSize,         \* number of events
    clock,           \* time stamp of the event removed last
    uid              \* the uid of the next event

(* Hash, in a calendar of n buckets of the given width. *)
Hash(ts, n, width) == (ts \div width) % n

(* Init(nBuckets, width, startPrio) of the class. *)
InitCalendar(n, width, start) ==
    [buckets    |-> [i \in 0..(n - 1) |-> {}],
     n          |-> n,
     width      |-> width,
     lastBucket |-> Hash(start, n, width),
     lastPrio   |-> start,
     top        |-> (start \div width + 1) * width]

Init ==
    /\ cal = InitCalendar(2, 1, 0)
    /\ m_qSize = 0
    /\ clock = 0
    /\ uid = 0

DoInsert(c, e) ==
    [c EXCEPT !.buckets[Hash(e.ts, c.n, c.width)] = @ \cup {e}]

Earliest(q) == CHOOSE e \in q : IsEarliest(e, q)

Day(c, k) == (c.lastBucket + k) % c.n

(* The k-th day from the current one has an event that falls in this year. *)
Hit(c, k) ==
    /\ c.buckets[Day(c, k)] # {}
    /\ Earliest(c.buckets[Day(c, k)]).ts < c.top + k * c.width

(* The first hit. *)
FirstHit(c) ==
    CHOOSE k \in 0..(c.n - 1) :
       Hit(c, k) /\ \A j \in 0..(c.n - 1) : Hit(c, j) => k <= j

(* DoRemoveNext: the first day whose earliest event falls in this year; or else
   the smallest of all, whose day becomes the current one. *)
DoRemoveNext(c) ==
    LET days == 0..(c.n - 1)
    IN  IF \E k \in days : Hit(c, k)
        THEN LET k == FirstHit(c)
                 e == Earliest(c.buckets[Day(c, k)])
             IN  [event |-> e,
                  cal   |-> [c EXCEPT !.buckets[Day(c, k)] = @ \ {e},
                                      !.lastBucket = Day(c, k),
                                      !.lastPrio = e.ts,
                                      !.top = @ + k * c.width]]
        ELSE LET e == Earliest(UNION {c.buckets[d] : d \in days})
                 b == Hash(e.ts, c.n, c.width)
             IN  [event |-> e,
                  cal   |-> [c EXCEPT !.buckets[b] = @ \ {e},
                                      !.lastBucket = b,
                                      !.lastPrio = e.ts,
                                      !.top = (e.ts \div c.width + 1) * c.width]]

-------------------------------------------------------------------------------
(* Resizing, for a queue of size q. *)

NSamples(q) == LET n == IF q <= 5 THEN q ELSE 5 + q \div 10
               IN  IF n > 25 THEN 25 ELSE n

(* The i-th of n successive calls of DoRemoveNext, and the calendar that it
   leaves; the calendar is then put back. *)
Samples(c, n) ==
    LET sample[i \in 1..n] == DoRemoveNext(IF i = 1 THEN c ELSE sample[i - 1].cal)
    IN  sample

(* The sum of those of n separations d that are at most max. *)
SumUpTo(d, n, max) ==
    LET sum[i \in 0..n] == IF i = 0 THEN 0
                           ELSE sum[i - 1] + (IF d[i] <= max THEN d[i] ELSE 0)
    IN  sum[n]

(* CalculateNewWidth: three times the separations of the next events that are
   at most twice the average. *)
CalculateNewWidth(c, q) ==
    IF q < 2 THEN 1
    ELSE LET n == NSamples(q)
             s == Samples(c, n)
             separation == [i \in 1..(n - 1) |-> s[i + 1].event.ts - s[i].event.ts]
             total == s[n].event.ts - s[1].event.ts
             sum == 3 * SumUpTo(separation, n - 1, (total \div (n - 1)) * 2)
         IN  IF sum > 1 THEN sum ELSE 1

(* Mutant of DoResize: the day stays the one of the old calendar. *)
DoResize_KeepsDay(c, n, width) ==
    LET moved == UNION {c.buckets[i] : i \in 0..(c.n - 1)}
    IN  [InitCalendar(n, width, c.lastPrio) EXCEPT
           !.lastBucket = c.lastBucket % n,
           !.buckets = [i \in 0..(n - 1) |->
                          {e \in moved : Hash(e.ts, n, width) = i}]]

(* DoResize: every event is inserted in a calendar that starts at m_lastPrio. *)
DoResize(c, n, width) ==
    LET moved == UNION {c.buckets[i] : i \in 0..(c.n - 1)}
    IN  [InitCalendar(n, width, c.lastPrio) EXCEPT
           !.buckets = [i \in 0..(n - 1) |->
                          {e \in moved : Hash(e.ts, n, width) = i}]]

Resize(c, q, n) == DoResize(c, n, CalculateNewWidth(c, q))

ResizeUp(c, q) ==
    IF q > c.n * 2 /\ c.n < MaxBuckets THEN Resize(c, q, c.n * 2) ELSE c

ResizeDown(c, q) ==
    IF q < c.n \div 2 THEN Resize(c, q, c.n \div 2) ELSE c

-------------------------------------------------------------------------------
Insert(d) ==
    /\ uid < MaxEvents
    /\ m_qSize' = m_qSize + 1
    /\ cal' = ResizeUp(DoInsert(cal, [ts |-> clock + d, uid |-> uid]), m_qSize')
    /\ uid' = uid + 1
    /\ UNCHANGED clock

RemoveNext ==
    /\ m_qSize # 0
    /\ m_qSize' = m_qSize - 1
    /\ LET r == DoRemoveNext(cal)
       IN  /\ clock' = r.event.ts
           /\ cal' = ResizeDown(r.cal, m_qSize')
    /\ UNCHANGED uid

(* Mutant of Remove: m_qSize is left alone. *)
Remove_KeepsSize(e) ==
    /\ cal' = ResizeDown([cal EXCEPT
                  !.buckets[Hash(e.ts, cal.n, cal.width)] = @ \ {e}], m_qSize)
    /\ UNCHANGED <<m_qSize, clock, uid>>

Remove(e) ==
    /\ e \in cal.buckets[Hash(e.ts, cal.n, cal.width)]
    /\ m_qSize' = m_qSize - 1
    /\ cal' = ResizeDown([cal EXCEPT
                  !.buckets[Hash(e.ts, cal.n, cal.width)] = @ \ {e}], m_qSize')
    /\ UNCHANGED <<clock, uid>>

Events == UNION {cal.buckets[i] : i \in 0..(cal.n - 1)}

Next ==
    \/ \E d \in Delays : Insert(d)
    \/ RemoveNext
    \/ \E e \in Events : Remove(e)
===============================================================================
