------------------------------- MODULE Paging --------------------------------
(***************************************************************************)
(* Reading the database page by page while it is written to: Db::read_range*)
(* (db.rs), the log route (routes/logs.rs) with the browser that follows   *)
(* its next position, and the metrics route (routes/metrics.rs) with the   *)
(* keys of metrics.rs.                                                     *)
(*                                                                         *)
(* A column family is a set of keys in their order.  A log is keyed by     *)
(* timestamp.  All metrics of a period share one column family: the key of *)
(* a data point is the name of the metric, padded, and then the tick, here *)
(* the number metric * (MaxTick + 1) + tick.                               *)
(***************************************************************************)
EXTENDS Naturals, FiniteSets

CONSTANTS
  MaxTick,    \* MAX_TICK, and the last timestamp of a log
  Metrics,    \* the metrics, numbered in the order of their names
  Counts,     \* page sizes
  NoKey,      \* None, for a key
  MaxWrites,  \* bound on the records written
  MaxPages    \* bound on the pages of one query

ASSUME ConstantsAssumption ==
  /\ MaxTick \in Nat
  /\ Metrics \subseteq Nat
  /\ Counts \subseteq Nat \ {0}
  /\ NoKey \notin Nat
  /\ MaxWrites \in Nat /\ MaxPages \in Nat

Ticks == 0..MaxTick
Forward == "Forward"
Backward == "Backward"

(* get_lookup_key, and DataPoint::try_from, which takes a key apart.        *)
Key(m, t) == m * (MaxTick + 1) + t
MetricOf(k) == k \div (MaxTick + 1)
TickOf(k) == k % (MaxTick + 1)
PointKeys == {Key(m, t) : m \in Metrics, t \in Ticks}

VARIABLES
  log,       \* the keys of a log
  points,    \* the keys of the data points
  writes,
  route,     \* what is being read: none, logs or metrics
  metric, direction, count,   \* the query
  from,      \* where the next page starts
  status,    \* idle, paging or done
  got,       \* the keys returned so far
  again,     \* those of them that were returned more than once
  start,     \* the keys the query stood for when it began
  pages

db == <<log, points, writes>>
query == <<route, metric, direction, count, start>>
vars == <<db, query, from, status, got, again, pages>>

(* Every variable holds a value of the kind the code keeps in it, and only  *)
(* what is stored and asked for is ever returned.                           *)
TypeOK ==
  /\ log \subseteq Ticks /\ points \subseteq PointKeys
  /\ writes \in 0..MaxWrites
  /\ route \in {"none", "logs", "metrics"}
  /\ metric \in Metrics /\ direction \in {Forward, Backward} /\ count \in Counts
  /\ from \in Ticks \cup {NoKey}
  /\ status \in {"idle", "paging", "done"}
  /\ again \subseteq got
  /\ got \cup start \subseteq
       IF route = "logs" THEN log ELSE {k \in points : MetricOf(k) = metric}
  /\ pages \in 0..MaxPages

Init ==
  /\ log = {} /\ points = {} /\ writes = 0
  /\ route = "none" /\ status = "idle" /\ from = NoKey
  /\ metric \in Metrics /\ direction \in {Forward, Backward} /\ count \in Counts
  /\ got = {} /\ again = {} /\ start = {} /\ pages = 0

-----------------------------------------------------------------------------
(* The database                                                            *)

Before(j, k, d) == IF d = Forward THEN j < k ELSE j > k

(* Where an iterator from k starts, present or not; the head or the tail    *)
(* if there is no key.                                                      *)
Beyond(S, k, d) == IF k = NoKey THEN S ELSE {j \in S : ~Before(j, k, d)}

Rank(S, k, d) == Cardinality({j \in S : Before(j, k, d)})

(* Mutant: the last record of the page is the one to continue from. *)
ContinueFromLast(S, d, n) == IF \E k \in S : Rank(S, k, d) = n
                             THEN CHOOSE k \in S : Rank(S, k, d) = n - 1 ELSE NoKey

(* read_range_internal: n records and, to continue from, the key after them.*)
Records(S, d, n) == {k \in S : Rank(S, k, d) < n}

ContinueFrom(S, d, n) == IF \E k \in S : Rank(S, k, d) = n
                         THEN CHOOSE k \in S : Rank(S, k, d) = n ELSE NoKey

(* Ingestion stores a line under its timestamp.  A slow connection can      *)
(* bring an old one late.                                                   *)
WriteLog(t) ==
  /\ writes < MaxWrites
  /\ log' = log \cup {t}
  /\ writes' = writes + 1
  /\ UNCHANGED <<points, query, from, status, got, again, pages>>

(* The RPC handler stores a data point.  Handlers run side by side, and a   *)
(* game that is loaded again repeats its ticks.                             *)
WritePoint(m, t) ==
  /\ writes < MaxWrites
  /\ points' = points \cup {Key(m, t)}
  /\ writes' = writes + 1
  /\ UNCHANGED <<log, query, from, status, got, again, pages>>

-----------------------------------------------------------------------------
(* The routes, and a client that follows next                              *)

OfMetric(m) == {k \in points : MetricOf(k) = m}

Begin(r, m, d, n, f) ==
  /\ status # "paging"
  /\ route' = r /\ metric' = m /\ direction' = d /\ count' = n
  /\ from' = f
  /\ start' = IF r = "logs" THEN Beyond(log, f, d)
              ELSE Beyond(OfMetric(m), IF f = NoKey THEN NoKey ELSE Key(m, f), d)
  /\ status' = "paging"
  /\ got' = {} /\ again' = {} /\ pages' = 0
  /\ UNCHANGED db

(* The client asks for the next page until there is no next.                *)
Turn(records, next) ==
  /\ status = "paging" /\ pages < MaxPages
  /\ pages' = pages + 1
  /\ got' = got \cup records
  /\ again' = again \cup (got \cap records)
  /\ from' = next
  /\ status' = IF next = NoKey THEN "done" ELSE "paging"
  /\ UNCHANGED <<db, query>>

(* routes::logs::get                                                        *)
GetLogs ==
  LET S == Beyond(log, from, direction)
  IN  /\ route = "logs"
      /\ Turn(Records(S, direction, count), ContinueFrom(S, direction, count))

(* Mutant: the metric of a record is not looked at. *)
GetMetricsUnfiltered ==
  LET t == IF from # NoKey THEN from ELSE IF direction = Forward THEN 0 ELSE MaxTick
      S == Beyond(points, Key(metric, t), direction)
      next == ContinueFrom(S, direction, count)
  IN  /\ route = "metrics"
      /\ Turn(Records(S, direction, count), IF next = NoKey THEN NoKey ELSE TickOf(next))

(* routes::metrics::get starts at tick 0 or MAX_TICK of the metric and      *)
(* drops what belongs to another; next is the tick of the key to continue   *)
(* from, unless such a record was met in the page.                          *)
GetMetrics ==
  LET t == IF from # NoKey THEN from ELSE IF direction = Forward THEN 0 ELSE MaxTick
      S == Beyond(points, Key(metric, t), direction)
      records == Records(S, direction, count)
      next == ContinueFrom(S, direction, count)
  IN  /\ route = "metrics"
      /\ Turn({k \in records : MetricOf(k) = metric},
              IF next = NoKey \/ \E k \in records : MetricOf(k) # metric
              THEN NoKey ELSE TickOf(next))

Next ==
  \/ \E t \in Ticks : WriteLog(t)
  \/ \E m \in Metrics, t \in Ticks : WritePoint(m, t)
  \/ \E r \in {"logs", "metrics"}, m \in Metrics, d \in {Forward, Backward}, n \in Counts,
        f \in Ticks \cup {NoKey} : Begin(r, m, d, n, f)
  \/ GetLogs
  \/ GetMetrics

Spec == Init /\ [][Next]_vars

-----------------------------------------------------------------------------
(* Whatever is written meanwhile, a query loses nothing that was stored     *)
(* when it began: what has not been returned is still ahead, and in the end *)
(* all has been returned.  Pages of a log follow each other: none repeats a *)
(* record, and the next starts beyond the last.                             *)
PagerExact ==
  /\ status = "done" => start \subseteq got
  /\ status = "paging" /\ from # NoKey /\ route = "logs" =>
       /\ \A k \in start \ got : ~Before(k, from, direction)
       /\ pages > 0 => \A k \in got : Before(k, from, direction)
  /\ route = "logs" => again = {}

(* "Iteration position of the next iteration of this metrics query": no     *)
(* page of a metric repeats a data point that an earlier one has returned.  *)
MetricPagesRepeatNothing == route = "metrics" => again = {}
=============================================================================
