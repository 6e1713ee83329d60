---------------------------- MODULE MetricsProofs ----------------------------
(***************************************************************************)
(* The counters of the gateway add up and its metrics file is whole, for   *)
(* every capacity of the ring, every number of points and failures and     *)
(* every set of text lengths.                                              *)
(*                                                                         *)
(* A counter lags behind what it counts by one step of the thread that     *)
(* increments it.  The invariant makes that exact: each of its equations   *)
(* adds one for every thread that stands between the event and the atomic  *)
(* increment.                                                              *)
(***************************************************************************)
EXTENDS Metrics, FiniteSetTheorems, TLAPS

Label == {"check", "push", "count", "depth", "set depth", "dropped", "set dropped", "pop",
          "insert", "processed", "publish", "mark", "pending", "set pending", "elapsed", "write",
          "close", "last", "close last", "fetch", "replay", "count replay", "done"}

One(b) == IF b THEN 1 ELSE 0

(* The shapes of the variables. *)
Positions == pc \in [Thread -> Label]
Values == got \in [Thread -> Nat] /\ metric \in [Counter \cup Gauge -> Nat]
(* The flags, and the failures there have been. *)
Limits == running \in BOOLEAN /\ harm \subseteq Harm /\ failures \in 0 .. MaxFailures

(* A delivered point was counted, was dropped, or is still to be pushed or *)
(* counted.                                                                *)
Received ==
    /\ delivered \in 0 .. MaxPoints /\ batch \in 0 .. MaxBatch
    /\ dropped \in Nat /\ ring \in 0 .. Capacity
    /\ metric["ingress_points"] + dropped + batch = delivered
    /\ batch > 0 <=> pc["ingress"] \in {"push", "count"}

(* A received point is in the ring, in the hand of the worker, or was      *)
(* processed; a processed point has an outcome.                            *)
Handled ==
    /\ metric["processed_points"] + ring + One(pc["worker"] \in {"insert", "processed"})
          = metric["ingress_points"] + One(pc["ingress"] = "count")
    /\ metric["mqtt_publish_ok"] + metric["mqtt_publish_fail"] + One(pc["worker"] = "publish")
          = metric["processed_points"]

(* Rows come from processed points. *)
Kept ==
    /\ rows \in Nat /\ stored \in 0 .. rows
    /\ pending \subseteq 1 .. rows /\ fetched \subseteq 1 .. rows
    /\ rows <= metric["processed_points"] + One(pc["worker"] = "processed")

(* A row that is not pending was counted as published or as replayed, and  *)
(* a row that is pending or fetched was not yet counted as replayed.       *)
Accounted ==
    /\ rows + One(pc["worker"] = "mark")
          <= metric["mqtt_publish_ok"] + metric["mqtt_replay_total"] + Cardinality(pending)
             + One(pc["monitor"] = "count replay")
    /\ metric["mqtt_replay_total"] + One(pc["monitor"] = "count replay")
          + Cardinality(pending \cup fetched) <= rows

(* A gauge holds something that was true of the ring or the table once, so *)
(* does the copy that is on its way to it.                                 *)
Gauged ==
    /\ metric["queue_depth"] <= Capacity
    /\ \A g \in Gauge : metric[g] <= MaxPoints
    /\ \A t \in Thread : got[t] <= MaxPoints /\ (pc[t] = "set depth" => got[t] <= Capacity)

(* Who writes alone has truncated the file himself; two who have it open   *)
(* together have said so; and what the file looks like has its reason.     *)
Texts ==
    /\ file \in [text : Nat, tail : Nat]
    /\ HasItOpen("worker") /\ HasItOpen("monitor") => "overlap" \in harm
    /\ (HasItOpen("worker") \/ HasItOpen("monitor")) /\ "overlap" \notin harm =>
          file.text = 0 /\ file.tail = 0
    /\ file.text # 0 /\ file.tail # 0 => "overlap" \in harm
    /\ file.text = 0 /\ file.tail # 0 => "failed write" \in harm
    /\ file.text = 0 /\ file.tail = 0 =>
          \/ "not opened" \in harm \/ "failed write" \in harm
          \/ HasItOpen("worker") \/ HasItOpen("monitor")

MetricsInv == Positions /\ Values /\ Limits /\ Received /\ Handled /\ Kept /\ Accounted /\ Gauged /\ Texts

-----------------------------------------------------------------------------
LEMMA Bounds ==
    /\ Capacity \in Nat /\ Capacity > 0 /\ MaxPoints \in Nat /\ MaxPoints > 0
    /\ MaxBatch \in Nat /\ MaxBatch > 0 /\ MaxFailures \in Nat
    /\ 0 <= Capacity /\ 0 <= MaxPoints
BY BoundsAssumption

(* What the equations bound: no counter and no depth exceeds the number of *)
(* points delivered.                                                       *)
LEMMA Sizes ==
    ASSUME MetricsInv
    PROVE  /\ IsFiniteSet(pending) /\ Cardinality(pending) \in Nat /\ Cardinality(pending) <= rows
           /\ IsFiniteSet(pending \cup fetched) /\ Cardinality(pending \cup fetched) \in Nat
           /\ rows <= MaxPoints /\ ring <= MaxPoints /\ dropped <= MaxPoints
           /\ \A c \in Counter : metric[c] <= MaxPoints
<1>1. rows \in Nat /\ pending \subseteq 1 .. rows /\ pending \cup fetched \subseteq 1 .. rows
  BY DEF MetricsInv, Kept
<1>2. IsFiniteSet(1 .. rows) /\ Cardinality(1 .. rows) = rows
  BY <1>1, FS_Interval
<1>3. IsFiniteSet(pending) /\ Cardinality(pending) <= rows /\ IsFiniteSet(pending \cup fetched)
  BY <1>1, <1>2, FS_Subset
<1>4. Cardinality(pending) \in Nat /\ Cardinality(pending \cup fetched) \in Nat
  BY <1>3, FS_CardinalityType
<1>5. \A c \in Counter : metric[c] \in Nat
  BY DEF MetricsInv, Values
<1>6. metric["ingress_points"] + One(pc["ingress"] = "count") + dropped <= delivered
  BY <1>5 DEF MetricsInv, Received, Counter, One
<1>7. metric["processed_points"] + ring + One(pc["worker"] \in {"insert", "processed"}) <= delivered
  BY <1>5, <1>6 DEF MetricsInv, Received, Handled, Counter, One
<1>8. rows <= delivered /\ metric["mqtt_publish_ok"] <= delivered /\ metric["mqtt_publish_fail"] <= delivered
  <2>1. metric["mqtt_publish_ok"] <= delivered /\ metric["mqtt_publish_fail"] <= delivered
    BY <1>5, <1>7 DEF MetricsInv, Received, Handled, Counter, One
  <2>2. rows <= metric["processed_points"] + One(pc["worker"] = "processed")
    BY DEF MetricsInv, Kept
  <2>3. rows <= delivered
    BY <1>1, <1>5, <1>7, <2>2 DEF MetricsInv, Received, Counter, One
  <2> QED
    BY <2>1, <2>3
<1>9. metric["mqtt_replay_total"] <= rows
  <2> DEFINE replayed == metric["mqtt_replay_total"]
             both == Cardinality(pending \cup fetched)
             late == One(pc["monitor"] = "count replay")
  <2>1. replayed \in Nat /\ both \in Nat /\ late \in Nat /\ replayed + late + both <= rows
    BY <1>4, <1>5 DEF MetricsInv, Accounted, Counter, One
  <2> HIDE DEF replayed, both, late
  <2>2. replayed <= rows
    BY <1>1, <2>1
  <2> QED
    BY <2>2 DEF replayed
<1>10. ring <= MaxPoints /\ dropped <= MaxPoints /\ metric["ingress_points"] <= MaxPoints
       /\ metric["processed_points"] <= MaxPoints
  BY <1>5, <1>6, <1>7, Bounds DEF MetricsInv, Received, Counter, One
<1>11. rows <= MaxPoints /\ metric["mqtt_publish_ok"] <= MaxPoints
       /\ metric["mqtt_publish_fail"] <= MaxPoints /\ metric["mqtt_replay_total"] <= MaxPoints
  BY <1>1, <1>5, <1>8, <1>9, Bounds DEF MetricsInv, Received, Counter
<1> QED
  BY <1>3, <1>4, <1>10, <1>11 DEF Counter

LEMMA Counting ==
    ASSUME MetricsInv, NEW m \in Counter, Count(m)
    PROVE  /\ metric' \in [Counter \cup Gauge -> Nat]
           /\ metric[m] \in Nat /\ metric'[m] = metric[m] + 1
           /\ \A n \in (Counter \cup Gauge) \ {m} : metric'[n] = metric[n] /\ metric[n] \in Nat
BY DEF MetricsInv, Values, Count

LEMMA MetricsInit == Init => MetricsInv
<1> SUFFICES ASSUME Init PROVE MetricsInv
  OBVIOUS
<1>1. /\ pc = [t \in Thread |-> "check"] /\ delivered = 0 /\ batch = 0 /\ ring = 0 /\ dropped = 0
      /\ rows = 0 /\ stored = 0 /\ pending = {} /\ fetched = {} /\ failures = 0
      /\ metric = [m \in Counter \cup Gauge |-> 0] /\ got = [t \in Thread |-> 0]
  BY DEF Init
<1>2. Cardinality(pending) = 0 /\ Cardinality(pending \cup fetched) = 0
  BY <1>1, FS_EmptySet
<1>3. Limits
  <2>1. failures \in 0 .. MaxFailures
    BY <1>1, Bounds
  <2> QED
    BY <2>1 DEF Init, Limits, Harm
<1>4. Positions /\ Values
  <2>1. Positions
    BY <1>1 DEF Positions, Label
  <2>2. Values
    BY <1>1 DEF Values
  <2> QED
    BY <2>1, <2>2
<1>5. Received /\ Handled
  BY <1>1, Bounds DEF Received, Handled, One, Counter, Gauge, Thread
<1>6. Gauged
  BY <1>1, Bounds DEF Gauged, Counter, Gauge, Thread
<1>7. Texts
  BY DEF Init, Texts, HasItOpen, Thread
<1>8. Kept /\ Accounted
  BY <1>1, <1>2 DEF Kept, Accounted, One, Thread, Counter, Gauge
<1> QED
  BY <1>3, <1>4, <1>5, <1>6, <1>7, <1>8 DEF MetricsInv

-----------------------------------------------------------------------------
(* The ingress thread. *)
LEMMA PollMoves == MetricsInv /\ Poll => MetricsInv'
<1> SUFFICES ASSUME MetricsInv, Poll PROVE MetricsInv'
  OBVIOUS
<1> USE DEF Poll, Goto, table, text
<1>1. Positions'
  BY DEF MetricsInv, Positions, Label
<1>2. Values'
  BY DEF MetricsInv, Values
<1>3. Limits'
  BY DEF MetricsInv, Limits
<1>4. Received'
  BY Bounds DEF MetricsInv, Positions, Values, Received, Thread, Counter
<1>5. Handled' /\ Kept' /\ Accounted' /\ Gauged' /\ Texts'
  BY DEF MetricsInv, Positions, Values, Handled, Kept, Accounted, Gauged, Texts, HasItOpen, One,
     Thread
<1> QED
  BY <1>1, <1>2, <1>3, <1>4, <1>5 DEF MetricsInv

LEMMA PushMoves == MetricsInv /\ Push => MetricsInv'
<1> SUFFICES ASSUME MetricsInv, Push PROVE MetricsInv'
  OBVIOUS
<1> USE DEF Push, AfterPush, Goto, table, text
<1>1. Positions'
  BY DEF MetricsInv, Positions, Label
<1>2. Values'
  BY DEF MetricsInv, Values
<1>3. Limits'
  BY DEF MetricsInv, Limits
<1>4. Received'
  BY Bounds DEF MetricsInv, Positions, Values, Received, Thread, Counter
<1>5. Handled'
  BY Bounds DEF MetricsInv, Positions, Values, Received, Handled, Thread, Counter, One
<1>6. Kept' /\ Accounted' /\ Gauged' /\ Texts'
  BY DEF MetricsInv, Positions, Values, Kept, Accounted, Gauged, Texts, HasItOpen, One, Thread
<1> QED
  BY <1>1, <1>2, <1>3, <1>4, <1>5, <1>6 DEF MetricsInv

LEMMA CountIngressMoves == MetricsInv /\ CountIngress => MetricsInv'
<1> SUFFICES ASSUME MetricsInv, CountIngress PROVE MetricsInv'
  OBVIOUS
<1> USE DEF CountIngress, AfterPush, Goto, Count, table, text
<1>1. Positions'
  BY DEF MetricsInv, Positions, Label
<1>2. Values'
  BY DEF MetricsInv, Values, Counter
<1>3. Limits'
  BY DEF MetricsInv, Limits
<1>4. Received'
  <2>1. metric'["ingress_points"] = metric["ingress_points"] + 1 /\ metric["ingress_points"] \in Nat
    BY DEF MetricsInv, Values, Counter
  <2>2. pc'["ingress"] = AfterPush
    BY DEF MetricsInv, Positions, Thread
  <2> QED
    BY <2>1, <2>2, Bounds DEF MetricsInv, Received
<1>5. Handled'
  BY Bounds DEF MetricsInv, Positions, Values, Received, Handled, Thread, Counter, One
<1>6. Kept' /\ Accounted' /\ Gauged' /\ Texts'
  BY DEF MetricsInv, Positions, Values, Kept, Accounted, Gauged, Texts, HasItOpen, One, Thread,
     Counter, Gauge
<1> QED
  BY <1>1, <1>2, <1>3, <1>4, <1>5, <1>6 DEF MetricsInv

-----------------------------------------------------------------------------
(* Loading and storing a gauge.  A COUNT that fails loads 0. *)
LEMMA LoadMoves ==
    ASSUME MetricsInv, NEW t \in Thread, NEW to \in Label, NEW value \in Nat, value <= MaxPoints,
           pc[t] \in {"depth", "dropped", "pending"}, to \in {"set depth", "set dropped", "set pending"},
           to = "set depth" => value <= Capacity,
           Goto(t, to), got' = [got EXCEPT ![t] = value], failures' \in 0 .. MaxFailures,
           UNCHANGED <<running, queue, rows, stored, pending, fetched, metric, text>>
    PROVE  MetricsInv'
<1> USE DEF Goto, text, queue
<1>1. Positions'
  BY DEF MetricsInv, Positions, Label
<1>2. Values'
  BY Bounds DEF MetricsInv, Values
<1>3. Limits'
  BY DEF MetricsInv, Limits
<1>4. Received' /\ Handled' /\ Kept' /\ Accounted'
  BY DEF MetricsInv, Positions, Values, Received, Handled, Kept, Accounted, One, Thread
<1>5. Gauged'
  <2> SUFFICES ASSUME NEW u \in Thread
             PROVE  /\ got'[u] <= MaxPoints
                    /\ pc'[u] = "set depth" => got'[u] <= Capacity
    BY DEF MetricsInv, Gauged, Gauge
  <2> QED
    BY Bounds DEF MetricsInv, Positions, Values, Gauged
<1>6. Texts'
  BY DEF MetricsInv, Positions, Values, Texts, HasItOpen, Thread
<1> QED
  BY <1>1, <1>2, <1>3, <1>4, <1>5, <1>6 DEF MetricsInv
LEMMA StoreMoves ==
    ASSUME MetricsInv, NEW t \in Thread, NEW from \in Label, NEW to \in Label, NEW gauge \in Gauge,
           Store(t, from, to, gauge),
           from \in {"set depth", "set dropped", "set pending"},
           to \in {"dropped", "pending", "check", "elapsed", "write"},
           gauge = "queue_depth" => from = "set depth"
    PROVE  MetricsInv'
<1>1. 0 <= MaxPoints
  BY Bounds
<1> USE DEF Store, Goto, table, text, queue
<1>2. Positions'
  BY DEF MetricsInv, Positions, Label
<1>3. Values'
  BY DEF MetricsInv, Values
<1>4. Limits'
  BY DEF MetricsInv, Limits
<1>5. Received' /\ Handled' /\ Kept' /\ Accounted'
  BY DEF MetricsInv, Positions, Values, Received, Handled, Kept, Accounted, One, Thread,
     Counter, Gauge
<1>6. Gauged'
  <2>1. \A u \in Thread : got'[u] <= MaxPoints /\ (pc'[u] = "set depth" => got'[u] <= Capacity)
    <3>1. \A u \in Thread : /\ got'[u] = (IF u = t THEN 0 ELSE got[u]) /\ got[u] \in Nat
                            /\ pc'[u] = (IF u = t THEN to ELSE pc[u])
      BY DEF MetricsInv, Positions, Values
    <3>2. \A u \in Thread : got[u] <= MaxPoints /\ (pc[u] = "set depth" => got[u] <= Capacity)
      BY DEF MetricsInv, Gauged
    <3> SUFFICES ASSUME NEW u \in Thread
               PROVE  got'[u] <= MaxPoints /\ (pc'[u] = "set depth" => got'[u] <= Capacity)
      OBVIOUS
    <3>3. CASE u = t
      <4>1. got'[u] = 0 /\ pc'[u] = to
        BY <3>1, <3>3
      <4>2. to # "set depth"
        OBVIOUS
      <4> QED
        BY <4>1, <4>2, <1>1
    <3>4. CASE u # t
      BY <3>1, <3>2, <3>4
    <3> QED
      BY <3>3, <3>4
  <2>2. \A g \in Gauge : metric'[g] = IF g = gauge THEN got[t] ELSE metric[g]
    BY DEF MetricsInv, Values
  <2>3. \A g \in Gauge : metric'[g] <= MaxPoints
    BY <2>2 DEF MetricsInv, Gauged
  <2>4. metric'["queue_depth"] <= Capacity
    BY <2>2 DEF MetricsInv, Gauged, Gauge
  <2> QED
    BY <2>1, <2>3, <2>4 DEF Gauged
<1>7. Texts'
  BY DEF MetricsInv, Positions, Values, Texts, HasItOpen, Thread
<1> QED
  BY <1>2, <1>3, <1>4, <1>5, <1>6, <1>7 DEF MetricsInv

(* Steps that only move a thread between positions no counter, gauge or    *)
(* file depends on.                                                        *)
Marked == {"push", "count", "set depth", "insert", "processed", "publish", "mark", "count replay",
           "close", "close last"}

LEMMA WalkMoves ==
    ASSUME MetricsInv, NEW t \in Thread, NEW to \in Label, Goto(t, to),
           pc[t] \notin Marked, to \notin Marked,
           UNCHANGED <<running, queue, table, metric, got, text>>
    PROVE  MetricsInv'
<1> USE DEF Goto, table, text, queue, Marked
<1>1. Positions'
  BY DEF MetricsInv, Positions, Label
<1>2. Values'
  BY DEF MetricsInv, Values
<1>3. Limits'
  BY DEF MetricsInv, Limits
<1>4. Received' /\ Handled'
  BY DEF MetricsInv, Positions, Values, Received, Handled, One, Thread
<1>5. Kept' /\ Accounted'
  BY DEF MetricsInv, Positions, Values, Kept, Accounted, One, Thread
<1>6. Gauged'
  BY DEF MetricsInv, Positions, Values, Gauged
<1>7. Texts'
  BY DEF MetricsInv, Positions, Values, Texts, HasItOpen, Thread
<1> QED
  BY <1>1, <1>2, <1>3, <1>4, <1>5, <1>6, <1>7 DEF MetricsInv

-----------------------------------------------------------------------------
(* The worker. *)
LEMMA PopMoves == MetricsInv /\ Pop => MetricsInv'
<1> SUFFICES ASSUME MetricsInv, Pop PROVE MetricsInv'
  OBVIOUS
<1> USE DEF Pop, Goto, table, text
<1>1. Positions'
  BY DEF MetricsInv, Positions, Label
<1>2. Values'
  BY DEF MetricsInv, Values
<1>3. Limits'
  BY DEF MetricsInv, Limits
<1>4. Received' /\ Handled'
  BY Bounds DEF MetricsInv, Positions, Values, Received, Handled, One, Thread, Counter
<1>5. Kept' /\ Accounted'
  BY DEF MetricsInv, Positions, Values, Kept, Accounted, One, Thread
<1>6. Gauged'
  BY DEF MetricsInv, Positions, Values, Gauged, Thread
<1>7. Texts'
  BY DEF MetricsInv, Positions, Values, Texts, HasItOpen, Thread
<1> QED
  BY <1>1, <1>2, <1>3, <1>4, <1>5, <1>6, <1>7 DEF MetricsInv

LEMMA CountProcessedMoves == MetricsInv /\ CountProcessed => MetricsInv'
<1> SUFFICES ASSUME MetricsInv, CountProcessed PROVE MetricsInv'
  OBVIOUS
<1> USE DEF CountProcessed, Goto, queue, table, text
<1>1. /\ metric' \in [Counter \cup Gauge -> Nat]
      /\ metric'["processed_points"] = metric["processed_points"] + 1
      /\ metric["processed_points"] \in Nat
      /\ \A n \in (Counter \cup Gauge) \ {"processed_points"} :
            metric'[n] = metric[n] /\ metric[n] \in Nat
  BY Counting DEF Counter
<1>2. /\ pc["worker"] = "processed" /\ pc'["worker"] = "publish"
      /\ pc'["ingress"] = pc["ingress"] /\ pc'["monitor"] = pc["monitor"]
  BY DEF MetricsInv, Positions, Thread
<1>3. Positions'
  BY DEF MetricsInv, Positions, Label
<1>4. Values'
  BY <1>1 DEF MetricsInv, Values
<1>5. Limits'
  BY DEF MetricsInv, Limits
<1>6. Received'
  BY <1>1, <1>2 DEF MetricsInv, Received, Counter
<1>7. Handled'
  BY <1>1, <1>2 DEF MetricsInv, Received, Handled, One, Counter
<1>8. Kept'
  BY <1>1, <1>2 DEF MetricsInv, Kept, One, Counter
<1>9. Accounted'
  BY <1>1, <1>2 DEF MetricsInv, Accounted, One, Counter
<1>10. Gauged'
  BY <1>1 DEF MetricsInv, Positions, Gauged, Thread, Counter, Gauge
<1>11. Texts'
  BY <1>2 DEF MetricsInv, Texts, HasItOpen
<1> QED
  BY <1>3, <1>4, <1>5, <1>6, <1>7, <1>8, <1>10, <1>11, <1>9 DEF MetricsInv

LEMMA PublishMoves == MetricsInv /\ Publish => MetricsInv'
<1> SUFFICES ASSUME MetricsInv, Publish PROVE MetricsInv'
  OBVIOUS
<1>1. PICK m \in {"mqtt_publish_ok", "mqtt_publish_fail"}, next \in {"mark", "depth"} :
         /\ Count(m) /\ Goto("worker", next) /\ (next = "mark" => m = "mqtt_publish_ok")
  BY DEF Publish
<1>2. /\ metric' \in [Counter \cup Gauge -> Nat]
      /\ metric'[m] = metric[m] + 1 /\ metric[m] \in Nat
      /\ \A n \in (Counter \cup Gauge) \ {m} : metric'[n] = metric[n] /\ metric[n] \in Nat
  BY <1>1, Counting DEF Counter
<1>3. /\ pc["worker"] = "publish" /\ pc'["worker"] = next
      /\ pc'["ingress"] = pc["ingress"] /\ pc'["monitor"] = pc["monitor"]
  BY <1>1 DEF MetricsInv, Positions, Publish, Goto, Thread
<1>4. UNCHANGED <<running, delivered, batch, ring, dropped, rows, pending, fetched, failures,
                  got, file, harm>> /\ stored' \in {0, stored}
  BY DEF Publish, queue, text
<1>5. Positions'
  BY <1>1 DEF MetricsInv, Positions, Label, Goto
<1>6. Values'
  BY <1>2, <1>4 DEF MetricsInv, Values
<1>7. Limits'
  BY <1>4 DEF MetricsInv, Limits
<1>8. Received'
  BY <1>2, <1>3, <1>4 DEF MetricsInv, Received, Counter
<1>9. Handled'
  <2>1. metric'["processed_points"] = metric["processed_points"]
        /\ metric'["ingress_points"] = metric["ingress_points"]
    BY <1>2 DEF Counter
  <2>2. metric'["mqtt_publish_ok"] + metric'["mqtt_publish_fail"]
           = metric["mqtt_publish_ok"] + metric["mqtt_publish_fail"] + 1
    BY <1>2 DEF Counter
  <2> QED
    BY <1>2, <1>3, <1>4, <2>1, <2>2 DEF MetricsInv, Values, Received, Handled, One, Counter
<1>10. Kept'
  BY <1>2, <1>3, <1>4 DEF MetricsInv, Kept, One, Counter
<1>11. Accounted'
  <2> DEFINE ok == metric["mqtt_publish_ok"]
             replayed == metric["mqtt_replay_total"]
             waiting == Cardinality(pending)
             both == Cardinality(pending \cup fetched)
             late == One(pc["monitor"] = "count replay")
  <2>1. /\ ok \in Nat /\ replayed \in Nat /\ waiting \in Nat /\ late \in Nat /\ rows \in Nat
        /\ rows + 0 <= ok + replayed + waiting + late
        /\ replayed + late + both <= rows
    BY <1>2, <1>3, Sizes DEF MetricsInv, Values, Kept, Accounted, One, Counter
  <2>2. /\ ok' = ok + One(m = "mqtt_publish_ok") /\ replayed' = replayed /\ waiting' = waiting
        /\ both' = both /\ late' = late
    BY <1>2, <1>3, <1>4 DEF One, Counter
  <2>3. One(pc'["worker"] = "mark") <= One(m = "mqtt_publish_ok")
    BY <1>1, <1>3 DEF One
  <2> HIDE DEF ok, replayed, waiting, both, late
  <2>4. rows' + One(pc'["worker"] = "mark") <= ok' + replayed' + waiting' + late'
        /\ replayed' + late' + both' <= rows'
    BY <1>4, <2>1, <2>2, <2>3 DEF One
  <2> QED
    BY <2>4 DEF Accounted, ok, replayed, waiting, both, late
<1>12. Gauged'
  BY <1>2, <1>3, <1>4 DEF MetricsInv, Gauged, Thread, Counter, Gauge
<1>13. Texts'
  BY <1>3, <1>4 DEF MetricsInv, Texts, HasItOpen
<1> QED
  BY <1>5, <1>6, <1>7, <1>8, <1>9, <1>10, <1>12, <1>13, <1>11 DEF MetricsInv

LEMMA InsertMoves == MetricsInv /\ Insert => MetricsInv'
<1> SUFFICES ASSUME MetricsInv, Insert PROVE MetricsInv'
  OBVIOUS
<1>1. /\ pc["worker"] = "insert" /\ pc'["worker"] = "processed"
      /\ pc'["ingress"] = pc["ingress"] /\ pc'["monitor"] = pc["monitor"]
  BY DEF MetricsInv, Positions, Insert, Goto, Thread
<1>2. UNCHANGED <<running, delivered, batch, ring, dropped, fetched, metric, got, file, harm>>
  BY DEF Insert, queue, text
<1>3. Positions'
  BY DEF MetricsInv, Positions, Insert, Goto, Label
<1>4. Values'
  BY <1>2 DEF MetricsInv, Values
<1>5. Limits'
  <2>1. (failures \in 0 .. MaxFailures)'
    BY Bounds DEF MetricsInv, Limits, Insert, Fails
  <2> QED
    BY <1>2, <2>1 DEF MetricsInv, Limits
<1>6. Received' /\ Handled'
  BY <1>1, <1>2 DEF MetricsInv, Received, Handled, One
<1>7. Gauged' /\ Texts'
  BY <1>1, <1>2 DEF MetricsInv, Gauged, Texts, HasItOpen, Thread
<1>8. CASE /\ rows' = rows + 1 /\ stored' = rows' /\ pending' = pending \cup {rows'}
  <2> DEFINE ok == metric["mqtt_publish_ok"]
             replayed == metric["mqtt_replay_total"]
             waiting == Cardinality(pending)
             both == Cardinality(pending \cup fetched)
             late == One(pc["monitor"] = "count replay")
  <2>1. /\ rows \in Nat /\ rows + 1 \notin pending /\ rows + 1 \notin pending \cup fetched
        /\ pending' = pending \cup {rows + 1}
        /\ (pending \cup fetched)' = (pending \cup fetched) \cup {rows + 1}
    BY <1>2, <1>8 DEF MetricsInv, Kept
  <2>2. waiting' = waiting + 1 /\ both' = both + 1
    BY <2>1, Sizes, FS_AddElement
  <2>3. Kept'
    BY <1>1, <1>2, <1>8 DEF MetricsInv, Values, Kept, One, Counter
  <2>4. /\ ok \in Nat /\ replayed \in Nat /\ waiting \in Nat /\ late \in Nat /\ both \in Nat
        /\ rows + 0 <= ok + replayed + waiting + late
        /\ replayed + late + both <= rows
    BY <1>1, <2>1, Sizes DEF MetricsInv, Values, Accounted, One, Counter
  <2>5. ok' = ok /\ replayed' = replayed /\ late' = late
    BY <1>1, <1>2
  <2> HIDE DEF ok, replayed, waiting, both, late
  <2>6. rows' + 0 <= ok' + replayed' + waiting' + late' /\ replayed' + late' + both' <= rows'
    BY <1>8, <2>1, <2>2, <2>4, <2>5
  <2>7. Accounted'
    BY <1>1, <2>6 DEF Accounted, One, ok, replayed, waiting, both, late
  <2> QED
    BY <1>3, <1>4, <1>5, <1>6, <1>7, <2>3, <2>7 DEF MetricsInv
<1>9. CASE stored' = 0 /\ UNCHANGED <<rows, pending>>
  <2>1. Kept'
    BY <1>1, <1>2, <1>9 DEF MetricsInv, Values, Kept, One, Counter
  <2>2. Accounted'
    BY <1>1, <1>2, <1>9 DEF MetricsInv, Accounted, One
  <2> QED
    BY <1>3, <1>4, <1>5, <1>6, <1>7, <2>1, <2>2 DEF MetricsInv
<1> QED
  BY <1>8, <1>9 DEF Insert

LEMMA MarkMoves == MetricsInv /\ Mark => MetricsInv'
<1> SUFFICES ASSUME MetricsInv, Mark PROVE MetricsInv'
  OBVIOUS
<1>1. /\ pc["worker"] = "mark" /\ pc'["worker"] = "depth"
      /\ pc'["ingress"] = pc["ingress"] /\ pc'["monitor"] = pc["monitor"]
  BY DEF MetricsInv, Positions, Mark, Goto, Thread
<1>2. /\ UNCHANGED <<running, delivered, batch, ring, dropped, rows, fetched, metric, got, file, harm>>
      /\ stored' = 0 /\ pending' \in {pending, pending \ {stored}}
  BY DEF Mark, queue, text
<1>3. Positions'
  BY DEF MetricsInv, Positions, Mark, Goto, Label
<1>4. Values'
  BY <1>2 DEF MetricsInv, Values
<1>5. Limits'
  <2>1. (failures \in 0 .. MaxFailures)'
    BY Bounds DEF MetricsInv, Limits, Mark, Fails
  <2> QED
    BY <1>2, <2>1 DEF MetricsInv, Limits
<1>6. Received' /\ Handled'
  BY <1>1, <1>2 DEF MetricsInv, Received, Handled, One
<1>7. Gauged' /\ Texts'
  BY <1>1, <1>2 DEF MetricsInv, Gauged, Texts, HasItOpen, Thread
<1>8. Kept'
  BY <1>1, <1>2 DEF MetricsInv, Values, Kept, One, Counter
<1>9. Accounted'
  <2> DEFINE ok == metric["mqtt_publish_ok"]
             replayed == metric["mqtt_replay_total"]
             waiting == Cardinality(pending)
             both == Cardinality(pending \cup fetched)
             late == One(pc["monitor"] = "count replay")
  <2>1. waiting' \in Nat /\ waiting <= waiting' + 1
    <3>1. CASE pending' = pending
      BY <3>1, Sizes
    <3>2. CASE pending' = pending \ {stored}
      <4>1. Cardinality(pending \ {stored}) = IF stored \in pending THEN waiting - 1 ELSE waiting
        BY Sizes, FS_RemoveElement
      <4>2. IsFiniteSet(pending \ {stored})
        BY Sizes, FS_RemoveElement
      <4>3. Cardinality(pending \ {stored}) \in Nat
        BY <4>2, FS_CardinalityType
      <4> QED
        BY <3>2, <4>1, <4>3, Sizes
    <3> QED
      BY <1>2, <3>1, <3>2
  <2>2. both' \in Nat /\ both' <= both
    <3>1. (pending \cup fetched)' \subseteq pending \cup fetched
      BY <1>2
    <3> QED
      BY <3>1, Sizes, FS_Subset, FS_CardinalityType
  <2>3. /\ ok \in Nat /\ replayed \in Nat /\ waiting \in Nat /\ late \in Nat /\ both \in Nat
        /\ rows \in Nat /\ rows + 1 <= ok + replayed + waiting + late
        /\ replayed + late + both <= rows
    BY <1>1, Sizes DEF MetricsInv, Values, Kept, Accounted, One, Counter
  <2>4. rows' = rows /\ ok' = ok /\ replayed' = replayed /\ late' = late
    BY <1>1, <1>2
  <2> HIDE DEF ok, replayed, waiting, both, late
  <2>5. PICK w \in Nat, b \in Nat : w = waiting' /\ b = both' /\ waiting <= w + 1 /\ b <= both
    BY <2>1, <2>2
  <2>6. waiting <= w + 1 /\ b <= both
    BY <2>5
  <2>7. rows + 0 <= ok + replayed + w + late
    BY <2>3, <2>6
  <2>8. replayed + late + b <= rows
    BY <2>3, <2>6
  <2>9. rows' + 0 <= ok' + replayed' + waiting' + late'
    BY <2>4, <2>5, <2>7
  <2>10. replayed' + late' + both' <= rows'
    BY <2>4, <2>5, <2>8
  <2> QED
    BY <1>1, <2>9, <2>10 DEF Accounted, One, ok, replayed, waiting, both, late
<1> QED
  BY <1>3, <1>4, <1>5, <1>6, <1>7, <1>8, <1>9 DEF MetricsInv

-----------------------------------------------------------------------------
(* The monitor. *)

(* Fetching and giving up a batch change the fetched rows, and nothing     *)
(* that is pending.                                                        *)
LEMMA BatchMoves ==
    ASSUME MetricsInv, NEW to \in Label, pc["monitor"] \in {"fetch", "replay"},
           to \in {"replay", "pending", "write"}, Goto("monitor", to) \/ UNCHANGED pc,
           fetched' \subseteq pending \cup fetched, failures' \in 0 .. MaxFailures,
           UNCHANGED <<running, queue, rows, stored, pending, metric, got, text>>
    PROVE  MetricsInv'
<1>1. /\ pc["monitor"] \notin Marked /\ pc'["monitor"] \notin Marked
      /\ pc'["ingress"] = pc["ingress"] /\ pc'["worker"] = pc["worker"]
  BY DEF MetricsInv, Positions, Goto, Thread, Marked
<1>2. UNCHANGED <<running, delivered, batch, ring, dropped, rows, stored, pending, metric, got, file, harm>>
  BY DEF queue, text
<1>3. Positions'
  BY DEF MetricsInv, Positions, Goto
<1>4. Values'
  BY <1>2 DEF MetricsInv, Values
<1>5. Limits'
  BY <1>2 DEF MetricsInv, Limits
<1>6. Received' /\ Handled'
  BY <1>1, <1>2 DEF MetricsInv, Received, Handled, One
<1>7. Gauged' /\ Texts'
  BY <1>1, <1>2 DEF MetricsInv, Gauged, Texts, HasItOpen, Thread, Marked
<1>8. Kept'
  BY <1>1, <1>2 DEF MetricsInv, Kept, One
<1>9. Accounted'
  <2> DEFINE replayed == metric["mqtt_replay_total"]
             both == Cardinality(pending \cup fetched)
  <2>1. (pending \cup fetched)' \subseteq pending \cup fetched
    BY <1>2
  <2>2. PICK b \in Nat : b = both' /\ b <= both
    BY <2>1, Sizes, FS_Subset, FS_CardinalityType
  <2>3. rows \in Nat /\ replayed \in Nat /\ both \in Nat /\ replayed + 0 + both <= rows
    BY <1>1, Sizes DEF MetricsInv, Values, Kept, Accounted, One, Counter, Marked
  <2>4. replayed' = replayed /\ rows' = rows
    BY <1>2
  <2> HIDE DEF replayed, both
  <2>5. b <= both
    BY <2>2
  <2>6. replayed + 0 + b <= rows
    BY <2>3, <2>5
  <2>7. replayed' + 0 + both' <= rows'
    BY <2>2, <2>4, <2>6
  <2>8. metric'["mqtt_replay_total"] + One(pc'["monitor"] = "count replay")
          + Cardinality((pending \cup fetched)') <= rows'
    BY <1>1, <2>7 DEF One, Marked, replayed, both
  <2>9. rows' + One(pc'["worker"] = "mark")
          <= metric'["mqtt_publish_ok"] + metric'["mqtt_replay_total"] + Cardinality(pending')
             + One(pc'["monitor"] = "count replay")
    BY <1>1, <1>2 DEF MetricsInv, Accounted, One, Marked
  <2> QED
    BY <2>8, <2>9 DEF Accounted
<1> QED
  BY <1>3, <1>4, <1>5, <1>6, <1>7, <1>8, <1>9 DEF MetricsInv

(* A row that was sent and marked leaves both sets before it is counted;   *)
(* one that could not be marked is not counted and stays pending.          *)
LEMMA ReplayMoves == MetricsInv /\ Replay => MetricsInv'
<1> SUFFICES ASSUME MetricsInv, Replay PROVE MetricsInv'
  OBVIOUS
<1> DEFINE Taken(row) == /\ fetched' = fetched \ {row} /\ pending' = pending \ {row}
                         /\ UNCHANGED failures /\ Goto("monitor", "count replay")
           Failed(row) == /\ fetched' = fetched \ {row} /\ Fails /\ UNCHANGED <<pc, pending>>
<1>1. PICK row \in fetched : pc["monitor"] = "replay" /\ (Taken(row) \/ Failed(row))
  BY DEF Replay
<1>2. CASE Taken(row)
  <2>1. /\ pc'["monitor"] = "count replay"
        /\ pc'["ingress"] = pc["ingress"] /\ pc'["worker"] = pc["worker"]
    BY <1>2 DEF MetricsInv, Positions, Goto, Thread
  <2>2. UNCHANGED <<running, delivered, batch, ring, dropped, rows, stored, failures, metric, got, file, harm>>
    BY <1>2 DEF Replay, queue, text
  <2>3. Positions'
    BY <1>2 DEF MetricsInv, Positions, Goto, Label
  <2>4. Values'
    BY <2>2 DEF MetricsInv, Values
  <2>5. Limits'
    BY <2>2 DEF MetricsInv, Limits
  <2>6. Received' /\ Handled'
    BY <2>1, <2>2 DEF MetricsInv, Received, Handled, One
  <2>7. Gauged' /\ Texts'
    <3>1. Gauged'
      BY <2>1, <2>2 DEF MetricsInv, Gauged, Thread
    <3>2. Texts'
      BY <1>1, <2>1, <2>2 DEF MetricsInv, Texts, HasItOpen
    <3> QED
      BY <3>1, <3>2
  <2>8. Kept'
    BY <1>1, <1>2, <2>1, <2>2 DEF MetricsInv, Kept, One
  <2>9. Accounted'
    <3> DEFINE ok == metric["mqtt_publish_ok"]
               replayed == metric["mqtt_replay_total"]
               waiting == Cardinality(pending)
               both == Cardinality(pending \cup fetched)
               inHand == One(pc["worker"] = "mark")
    <3>1. PICK w \in Nat : w = waiting' /\ waiting <= w + 1
      <4>1. Cardinality(pending \ {row}) = IF row \in pending THEN waiting - 1 ELSE waiting
        BY Sizes, FS_RemoveElement
      <4>2. IsFiniteSet(pending \ {row})
        BY Sizes, FS_RemoveElement
      <4>3. Cardinality(pending \ {row}) \in Nat
        BY <4>2, FS_CardinalityType
      <4>4. waiting' = Cardinality(pending \ {row})
        BY <1>2
      <4>5. waiting <= Cardinality(pending \ {row}) + 1
        BY <4>1, Sizes
      <4> QED
        BY <4>3, <4>4, <4>5
    <3>2. both' = both - 1
      <4>1. (pending \cup fetched)' = (pending \cup fetched) \ {row}
        BY <1>1, <1>2
      <4> QED
        BY <4>1, Sizes, FS_RemoveElement
    <3>3. /\ ok \in Nat /\ replayed \in Nat /\ waiting \in Nat /\ both \in Nat /\ inHand \in Nat
          /\ rows \in Nat /\ rows + inHand <= ok + replayed + waiting + 0
          /\ replayed + 0 + both <= rows
      BY <1>1, Sizes DEF MetricsInv, Values, Kept, Accounted, One, Counter
    <3>4. rows' = rows /\ ok' = ok /\ replayed' = replayed /\ inHand' = inHand
      BY <2>1, <2>2
    <3> HIDE DEF ok, replayed, waiting, both, inHand
    <3>5. waiting <= w + 1
      BY <3>1
    <3>6. rows + inHand <= ok + replayed + w + 1
      BY <3>3, <3>5
    <3>7. replayed + 1 + (both - 1) <= rows
      BY <3>3
    <3>8. rows' + inHand' <= ok' + replayed' + waiting' + 1 /\ replayed' + 1 + both' <= rows'
      BY <3>1, <3>2, <3>4, <3>6, <3>7
    <3> QED
      BY <2>1, <3>8 DEF Accounted, One, ok, replayed, waiting, both, inHand
  <2> QED
    BY <2>3, <2>4, <2>5, <2>6, <2>7, <2>8, <2>9 DEF MetricsInv
<1>3. CASE Failed(row)
  <2>1. failures' \in 0 .. MaxFailures
    BY <1>3, Bounds DEF MetricsInv, Limits, Fails
  <2>2. UNCHANGED <<running, queue, rows, stored, pending, metric, got, text>>
    BY <1>3 DEF Replay
  <2> QED
    BY <1>1, <1>3, <2>1, <2>2, BatchMoves DEF Label
<1> QED
  BY <1>1, <1>2, <1>3

LEMMA CountReplayMoves == MetricsInv /\ CountReplay => MetricsInv'
<1> SUFFICES ASSUME MetricsInv, CountReplay PROVE MetricsInv'
  OBVIOUS
<1>1. /\ metric' \in [Counter \cup Gauge -> Nat]
      /\ metric'["mqtt_replay_total"] = metric["mqtt_replay_total"] + 1
      /\ metric["mqtt_replay_total"] \in Nat
      /\ \A n \in (Counter \cup Gauge) \ {"mqtt_replay_total"} :
            metric'[n] = metric[n] /\ metric[n] \in Nat
  BY Counting DEF CountReplay, Counter
<1>2. /\ pc["monitor"] = "count replay" /\ pc'["monitor"] = "replay"
      /\ pc'["ingress"] = pc["ingress"] /\ pc'["worker"] = pc["worker"]
  BY DEF MetricsInv, Positions, CountReplay, Goto, Thread
<1>3. UNCHANGED <<running, delivered, batch, ring, dropped, rows, stored, pending, fetched,
                   failures, got, file, harm>>
  BY DEF CountReplay, queue, table, text
<1>4. Positions'
  BY DEF MetricsInv, Positions, CountReplay, Goto, Label
<1>5. Values'
  BY <1>1, <1>3 DEF MetricsInv, Values
<1>6. Limits'
  BY <1>3 DEF MetricsInv, Limits
<1>7. Received' /\ Handled'
  BY <1>1, <1>2, <1>3 DEF MetricsInv, Received, Handled, One, Counter
<1>8. Kept'
  BY <1>1, <1>2, <1>3 DEF MetricsInv, Kept, One, Counter
<1>9. Accounted'
  <2> DEFINE ok == metric["mqtt_publish_ok"]
             replayed == metric["mqtt_replay_total"]
             waiting == Cardinality(pending)
             both == Cardinality(pending \cup fetched)
             inHand == One(pc["worker"] = "mark")
  <2>1. /\ ok \in Nat /\ replayed \in Nat /\ waiting \in Nat /\ both \in Nat /\ inHand \in Nat
        /\ rows \in Nat /\ rows + inHand <= ok + replayed + waiting + 1
        /\ replayed + 1 + both <= rows
    BY <1>2, Sizes DEF MetricsInv, Values, Kept, Accounted, One, Counter
  <2>2. /\ rows' = rows /\ ok' = ok /\ replayed' = replayed + 1 /\ waiting' = waiting
        /\ both' = both /\ inHand' = inHand
    BY <1>1, <1>2, <1>3 DEF Counter
  <2> HIDE DEF ok, replayed, waiting, both, inHand
  <2>3. rows + inHand <= ok + (replayed + 1) + waiting + 0 /\ (replayed + 1) + 0 + both <= rows
    BY <2>1
  <2>4. rows' + inHand' <= ok' + replayed' + waiting' + 0 /\ replayed' + 0 + both' <= rows'
    BY <2>2, <2>3
  <2> QED
    BY <1>2, <2>4 DEF Accounted, One, ok, replayed, waiting, both, inHand
<1>10. Gauged'
  BY <1>1, <1>2, <1>3 DEF MetricsInv, Gauged, Thread, Counter, Gauge
<1>11. Texts'
  BY <1>2, <1>3 DEF MetricsInv, Texts, HasItOpen
<1> QED
  BY <1>4, <1>5, <1>6, <1>7, <1>8, <1>9, <1>10, <1>11 DEF MetricsInv

-----------------------------------------------------------------------------
(* The file.  A step of a writer touches nothing but the file. *)
LEMMA WriterMoves ==
    ASSUME MetricsInv, NEW t \in Writer, NEW to \in Label, Goto(t, to),
           pc[t] \in {"write", "last", "close", "close last"}, to \in {"check", "done", "close", "close last"},
           UNCHANGED <<running, queue, rows, stored, pending, fetched, metric, got>>,
           failures' \in 0 .. MaxFailures, harm' \subseteq Harm, Texts'
    PROVE  MetricsInv'
<1> USE DEF Goto, queue
<1>1. t \in Thread
  BY DEF Writer, Thread
<1>2. Positions'
  BY DEF MetricsInv, Positions
<1>3. Values'
  BY DEF MetricsInv, Values
<1>4. Limits'
  BY DEF MetricsInv, Limits
<1>5. Received' /\ Handled'
  BY <1>1 DEF MetricsInv, Positions, Received, Handled, One, Thread
<1>6. Kept' /\ Accounted'
  BY <1>1 DEF MetricsInv, Positions, Kept, Accounted, One, Thread
<1>7. Gauged'
  BY <1>1 DEF MetricsInv, Positions, Gauged
<1> QED
  BY <1>2, <1>3, <1>4, <1>5, <1>6, <1>7 DEF MetricsInv

LEMMA FailureIsCounted == MetricsInv /\ (Fails \/ UNCHANGED failures) => failures' \in 0 .. MaxFailures
BY Bounds DEF MetricsInv, Limits, Fails

LEMMA OpenMoves ==
    ASSUME MetricsInv, NEW t \in Writer, NEW from \in {"write", "last"},
           NEW to \in {"close", "close last"}, NEW after \in {"check", "done"},
           Open(t, from, to, after)
    PROVE  MetricsInv'
<1>1. /\ pc[t] = from /\ UNCHANGED <<running, queue, rows, stored, pending, fetched, metric, got>>
      /\ failures' \in 0 .. MaxFailures
  BY FailureIsCounted DEF Open
<1>2. CASE /\ Goto(t, to) /\ file' = [text |-> 0, tail |-> 0]
           /\ harm' = IF OpenElsewhere(t) THEN {"overlap"} ELSE {}
  <2>1. HasItOpen(t)' /\ \A u \in Writer \ {t} : HasItOpen(u)' <=> HasItOpen(u)
    BY <1>2 DEF MetricsInv, Positions, Goto, HasItOpen, Writer, Thread
  <2>2. harm' \subseteq Harm
    BY <1>2 DEF Harm
  <2>3. HasItOpen("worker")' /\ HasItOpen("monitor")' => "overlap" \in harm'
    BY <1>2, <2>1 DEF OpenElsewhere, Writer
  <2>4. HasItOpen("worker")' \/ HasItOpen("monitor")'
    BY <2>1 DEF Writer
  <2>5. file'.text = 0 /\ file'.tail = 0 /\ file' \in [text : Nat, tail : Nat]
    BY <1>2
  <2>6. Texts'
    BY <2>3, <2>4, <2>5 DEF Texts
  <2> QED
    BY <1>1, <1>2, <2>2, <2>6, WriterMoves DEF Label
<1>3. CASE Goto(t, after) /\ UNCHANGED text
  <2>1. \A u \in Writer : HasItOpen(u)' <=> HasItOpen(u)
    BY <1>1, <1>3 DEF MetricsInv, Positions, Goto, HasItOpen, Writer, Thread
  <2>2. harm' = harm /\ file' = file /\ harm' \subseteq Harm
    BY <1>3 DEF text, MetricsInv, Limits
  <2>3. Texts'
    BY <2>1, <2>2 DEF MetricsInv, Texts, Writer
  <2> QED
    BY <1>1, <1>3, <2>2, <2>3, WriterMoves DEF Label
<1> QED
  BY <1>2, <1>3 DEF Open

LEMMA Overwrite ==
    ASSUME MetricsInv, NEW n \in Nat
    PROVE  /\ Rest(n) \in Nat /\ n + Rest(n) \in Nat
           /\ n # 0 => n + Rest(n) # 0
           /\ Rest(n) > 0 <=> Rest(n) # 0
           /\ file.text = 0 /\ file.tail = 0 => Rest(n) = 0
<1>1. file.text \in Nat /\ file.tail \in Nat
  BY DEF MetricsInv, Texts
<1> QED
  BY <1>1 DEF Rest, Size

(* Closing: the text is written, or the write fails. *)
LEMMA WriteTextMoves ==
    ASSUME MetricsInv, NEW t \in Writer, NEW n \in Lengths, WriteText(t, n),
           HasItOpen(t), ~HasItOpen(t)', \A u \in Writer \ {t} : HasItOpen(u)' <=> HasItOpen(u)
    PROVE  harm' \subseteq Harm /\ Texts'
<1>1. n \in Nat /\ n # 0
  BY BoundsAssumption
<1>2. /\ Rest(n) \in Nat /\ (Rest(n) > 0 <=> Rest(n) # 0)
      /\ file.text = 0 /\ file.tail = 0 => Rest(n) = 0
  BY <1>1, Overwrite
<1>3. OpenElsewhere(t) \/ Rest(n) > 0 => "overlap" \in harm
  <2>1. CASE OpenElsewhere(t)
    BY <2>1 DEF MetricsInv, Texts, OpenElsewhere, Writer
  <2>2. CASE Rest(n) > 0
    BY <1>2, <2>2 DEF MetricsInv, Texts, Writer
  <2> QED
    BY <2>1, <2>2
<1>4. ~(HasItOpen("worker")' /\ HasItOpen("monitor")')
  BY DEF Writer
<1>5. CASE OpenElsewhere(t) \/ Rest(n) > 0
  <2>1. file' = [text |-> n, tail |-> Rest(n)] /\ harm' = harm
    BY <1>5 DEF WriteText
  <2>2. file' \in [text : Nat, tail : Nat] /\ file'.text # 0 /\ "overlap" \in harm'
    BY <1>1, <1>2, <1>3, <1>5, <2>1
  <2>3. harm' \subseteq Harm
    BY <2>1 DEF MetricsInv, Limits
  <2> QED
    BY <1>4, <2>2, <2>3 DEF Texts
<1>6. CASE ~(OpenElsewhere(t) \/ Rest(n) > 0)
  <2>1. file' = [text |-> 1, tail |-> 0] /\ harm' = {}
    BY <1>6 DEF WriteText
  <2>2. file' \in [text : Nat, tail : Nat] /\ file'.text # 0 /\ file'.tail = 0
    BY <2>1
  <2>3. ~HasItOpen("worker")' /\ ~HasItOpen("monitor")'
    BY <1>6 DEF OpenElsewhere, Writer
  <2> QED
    BY <2>1, <2>2, <2>3 DEF Texts
<1> QED
  BY <1>5, <1>6

LEMMA WriteFailsMoves ==
    ASSUME MetricsInv, NEW t \in Writer, NEW k \in Nat, WriteFails(k),
           HasItOpen(t), ~HasItOpen(t)', \A u \in Writer \ {t} : HasItOpen(u)' <=> HasItOpen(u)
    PROVE  harm' \subseteq Harm /\ Texts'
<1>1. /\ harm' \subseteq Harm /\ "failed write" \in harm'
      /\ "overlap" \in harm => "overlap" \in harm'
  BY DEF WriteFails, MetricsInv, Limits, Harm
<1>2. ~(HasItOpen("worker")' /\ HasItOpen("monitor")')
  BY DEF Writer
<1>3. HasItOpen("worker")' \/ HasItOpen("monitor")' => "overlap" \in harm'
  BY <1>1 DEF MetricsInv, Texts, Writer
<1>4. CASE k = 0
  <2>1. file' = file
    BY <1>4 DEF WriteFails
  <2> QED
    BY <1>1, <1>2, <1>3, <2>1 DEF MetricsInv, Texts
<1>5. CASE k # 0
  <2>1. file' = [text |-> 0, tail |-> k + Rest(k)]
    BY <1>5 DEF WriteFails
  <2>2. file' \in [text : Nat, tail : Nat] /\ file'.text = 0 /\ file'.tail # 0
    BY <1>5, <2>1, Overwrite
  <2> QED
    BY <1>1, <1>2, <1>3, <2>2 DEF Texts
<1> QED
  BY <1>4, <1>5

LEMMA Beginnings == \A n \in Nat : \A k \in 0 .. n - 1 : k \in Nat
OBVIOUS

LEMMA CloseMoves ==
    ASSUME MetricsInv, NEW t \in Writer, NEW from \in {"close", "close last"},
           NEW to \in {"check", "done"}, Close(t, from, to)
    PROVE  MetricsInv'
<1>1. /\ pc[t] = from /\ Goto(t, to)
      /\ UNCHANGED <<running, queue, rows, stored, pending, fetched, metric, got>>
  BY DEF Close
<1>2. /\ HasItOpen(t) /\ ~HasItOpen(t)'
      /\ \A u \in Writer \ {t} : HasItOpen(u)' <=> HasItOpen(u)
  BY <1>1 DEF MetricsInv, Positions, Goto, HasItOpen, Writer, Thread
<1>3. PICK n \in Lengths : \/ WriteText(t, n) /\ UNCHANGED failures
                           \/ Fails /\ \E k \in 0 .. n - 1 : WriteFails(k)
  BY DEF Close
<1>4. failures' \in 0 .. MaxFailures
  BY <1>3, FailureIsCounted
<1>5. harm' \subseteq Harm /\ Texts'
  <2>1. CASE WriteText(t, n)
    BY <1>2, <2>1, WriteTextMoves
  <2>2. CASE \E k \in 0 .. n - 1 : WriteFails(k)
    <3>1. n \in Nat
      BY BoundsAssumption
    <3>2. \E k \in Nat : WriteFails(k)
      BY <2>2, <3>1, Beginnings
    <3>3. PICK k \in Nat : WriteFails(k)
      BY <3>2
    <3> QED
      BY <1>2, <3>3, WriteFailsMoves
  <2> QED
    BY <1>3, <2>1, <2>2
<1> QED
  BY <1>1, <1>4, <1>5, WriterMoves DEF Label

-----------------------------------------------------------------------------
(* The threads. *)
LEMMA RefreshQueueMoves ==
    ASSUME MetricsInv, NEW t \in Thread, NEW next \in {"check", "pending"}, RefreshQueue(t, next)
    PROVE  MetricsInv'
<1>1. /\ ring \in Nat /\ ring <= MaxPoints /\ ring <= Capacity
      /\ dropped \in Nat /\ dropped <= MaxPoints
  BY Sizes DEF MetricsInv, Received
<1>2. failures \in 0 .. MaxFailures
  BY DEF MetricsInv, Limits
<1>3. CASE Load(t, "depth", "set depth", ring)
  BY <1>1, <1>2, <1>3, LoadMoves DEF Load, table, Label
<1>4. CASE Load(t, "dropped", "set dropped", dropped)
  BY <1>1, <1>2, <1>4, LoadMoves DEF Load, table, Label
<1>5. CASE Store(t, "set depth", "dropped", "queue_depth")
  BY <1>5, StoreMoves DEF Label, Gauge
<1>6. CASE Store(t, "set dropped", next, "queue_dropped")
  BY <1>6, StoreMoves DEF Label, Gauge
<1> QED
  BY <1>3, <1>4, <1>5, <1>6 DEF RefreshQueue

LEMMA RefreshPendingMoves ==
    ASSUME MetricsInv, NEW t \in Thread, NEW next \in {"elapsed", "write"}, RefreshPending(t, next)
    PROVE  MetricsInv'
<1>1. Cardinality(pending) \in Nat /\ Cardinality(pending) <= MaxPoints
  BY Sizes, Bounds DEF MetricsInv, Kept
<1>2. failures \in 0 .. MaxFailures
  BY DEF MetricsInv, Limits
<1>3. CASE Load(t, "pending", "set pending", Cardinality(pending))
  BY <1>1, <1>2, <1>3, LoadMoves DEF Load, table, Label
<1>4. CASE /\ pc[t] = "pending" /\ Goto(t, "set pending")
           /\ Fails /\ got' = [got EXCEPT ![t] = 0]
           /\ UNCHANGED <<running, queue, rows, stored, pending, fetched, metric, text>>
  <2>1. failures' \in 0 .. MaxFailures
    BY <1>4, FailureIsCounted
  <2> QED
    BY <1>4, <2>1, Bounds, LoadMoves DEF Label
<1>5. CASE Store(t, "set pending", next, "storage_pending_count")
  BY <1>5, StoreMoves DEF Label, Gauge
<1> QED
  BY <1>3, <1>4, <1>5 DEF RefreshPending

LEMMA IngressMoves == MetricsInv /\ IngressStep => MetricsInv'
<1> SUFFICES ASSUME MetricsInv, IngressStep PROVE MetricsInv'
  OBVIOUS
<1>1. CASE Poll
  BY <1>1, PollMoves
<1>2. CASE Push
  BY <1>2, PushMoves
<1>3. CASE CountIngress
  BY <1>3, CountIngressMoves
<1>4. CASE RefreshQueue("ingress", "check")
  BY <1>4, RefreshQueueMoves DEF Thread
<1>5. CASE IngressLeaves
  BY <1>5, WalkMoves DEF IngressLeaves, Thread, Label, Marked
<1> QED
  BY <1>1, <1>2, <1>3, <1>4, <1>5 DEF IngressStep

LEMMA WorkerMoves == MetricsInv /\ WorkerStep => MetricsInv'
<1> SUFFICES ASSUME MetricsInv, WorkerStep PROVE MetricsInv'
  OBVIOUS
<1>1. "worker" \in Thread /\ "worker" \in Writer
  BY DEF Thread, Writer
<1>2. CASE WorkerCheck
  BY <1>1, <1>2, WalkMoves DEF WorkerCheck, Label, Marked
<1>3. CASE Pop \/ Insert \/ CountProcessed \/ Publish \/ Mark
  BY <1>3, PopMoves, InsertMoves, CountProcessedMoves, PublishMoves, MarkMoves
<1>4. CASE RefreshQueue("worker", "pending") \/ RefreshPending("worker", "elapsed")
  BY <1>1, <1>4, RefreshQueueMoves, RefreshPendingMoves
<1>5. CASE Elapsed
  BY <1>1, <1>5, WalkMoves DEF Elapsed, Label, Marked
<1>6. CASE Open("worker", "write", "close", "check") \/ Open("worker", "last", "close last", "done")
  BY <1>1, <1>6, OpenMoves
<1>7. CASE Close("worker", "close", "check") \/ Close("worker", "close last", "done")
  BY <1>1, <1>7, CloseMoves
<1> QED
  BY <1>2, <1>3, <1>4, <1>5, <1>6, <1>7 DEF WorkerStep

LEMMA MonitorMoves == MetricsInv /\ MonitorStep => MetricsInv'
<1> SUFFICES ASSUME MetricsInv, MonitorStep PROVE MetricsInv'
  OBVIOUS
<1>1. "monitor" \in Thread /\ "monitor" \in Writer /\ "monitor" # "worker"
  BY DEF Thread, Writer
<1>2. CASE MonitorCheck
  BY <1>1, <1>2, WalkMoves DEF MonitorCheck, Label, Marked
<1>3. CASE Fetch
  <2>1. failures' \in 0 .. MaxFailures
    BY <1>3, Bounds DEF MetricsInv, Limits, Fetch, Fails
  <2> QED
    BY <1>3, <2>1, BatchMoves DEF Fetch, Label
<1>4. CASE Replay
  BY <1>4, ReplayMoves
<1>5. CASE CountReplay
  BY <1>5, CountReplayMoves
<1>6. CASE ReplayEnds
  <2>1. failures' \in 0 .. MaxFailures
    BY <1>6 DEF MetricsInv, Limits, ReplayEnds
  <2> QED
    BY <1>6, <2>1, BatchMoves DEF ReplayEnds, Label
<1>7. CASE RefreshPending("monitor", "write")
  BY <1>1, <1>7, RefreshPendingMoves
<1>8. CASE Open("monitor", "write", "close", "check")
  BY <1>1, <1>8, OpenMoves
<1>9. CASE Close("monitor", "close", "check")
  BY <1>1, <1>9, CloseMoves
<1> QED
  BY <1>2, <1>3, <1>4, <1>5, <1>6, <1>7, <1>8, <1>9 DEF MonitorStep

LEMMA StopMoves == MetricsInv /\ (Stop \/ UNCHANGED vars) => MetricsInv'
<1> SUFFICES ASSUME MetricsInv, Stop \/ UNCHANGED vars PROVE MetricsInv'
  OBVIOUS
<1>1. UNCHANGED <<pc, delivered, batch, ring, dropped, rows, stored, pending, fetched, metric, got,
                  file, harm, failures>>
  BY DEF Stop, vars, queue, table, text
<1>2. running' \in BOOLEAN
  BY DEF MetricsInv, Limits, Stop, vars
<1>3. Limits'
  BY <1>1, <1>2 DEF MetricsInv, Limits
<1>4. Positions' /\ Values' /\ Received' /\ Handled' /\ Kept' /\ Accounted'
  BY <1>1 DEF MetricsInv, Positions, Values, Received, Handled, Kept, Accounted
<1>5. Gauged' /\ Texts'
  BY <1>1 DEF MetricsInv, Gauged, Texts, HasItOpen
<1> QED
  BY <1>3, <1>4, <1>5 DEF MetricsInv

LEMMA MetricsSpec == Spec => []MetricsInv
<1>1. MetricsInv /\ [Next]_vars => MetricsInv'
  BY IngressMoves, WorkerMoves, MonitorMoves, StopMoves DEF Next
<1> QED
  BY <1>1, MetricsInit, PTL DEF Spec

-----------------------------------------------------------------------------
(* The counters, gauges and rows keep their types and bounds: no counter   *)
(* exceeds the points delivered and the depth never the capacity, although *)
(* two threads store it (metrics.c, app.c:50 and 128).                     *)
THEOREM TypeCorrect == Spec => []TypeOK
<1>1. MetricsInv => TypeOK
  <2> SUFFICES ASSUME MetricsInv PROVE TypeOK
    OBVIOUS
  <2>1. /\ delivered \in 0 .. MaxPoints /\ batch \in 0 .. MaxBatch /\ ring \in 0 .. Capacity
        /\ dropped \in 0 .. MaxPoints
    BY Sizes, Bounds DEF MetricsInv, Received
  <2>2. /\ rows \in 0 .. MaxPoints /\ stored \in 0 .. rows
        /\ pending \subseteq 1 .. rows /\ fetched \subseteq 1 .. rows
    BY Sizes, Bounds DEF MetricsInv, Kept
  <2>3. ASSUME NEW m \in Counter \cup Gauge PROVE metric[m] \in 0 .. MaxPoints
    <3>1. metric[m] \in Nat /\ metric[m] <= MaxPoints
      BY Sizes DEF MetricsInv, Values, Gauged
    <3> QED
      BY <3>1, Bounds
  <2>4. metric["queue_depth"] <= Capacity
    BY DEF MetricsInv, Gauged
  <2> QED
    BY <2>1, <2>2, <2>3, <2>4 DEF MetricsInv, Limits, TypeOK
<1> QED
  BY <1>1, MetricsSpec, PTL

(* At every moment the counters of the three threads tell one story, and   *)
(* after a stop they account for every point the adapters delivered        *)
(* (app.c:44, 73 and 118; mqtt_session.c:321).                             *)
THEOREM TheCountersAddUp == Spec => []CountersAddUp
<1>1. MetricsInv => CountersAddUp
  <2> SUFFICES ASSUME MetricsInv PROVE CountersAddUp
    OBVIOUS
  <2>1. \A c \in Counter : metric[c] \in Nat
    BY DEF MetricsInv, Values
  <2>2. /\ metric["processed_points"] <= metric["ingress_points"] + 1
        /\ metric["mqtt_publish_ok"] + metric["mqtt_publish_fail"]
              \in {metric["processed_points"] - 1, metric["processed_points"]}
    BY <2>1 DEF MetricsInv, Received, Handled, One, Counter
  <2>3. rows - Cardinality(pending)
          <= metric["mqtt_publish_ok"] + metric["mqtt_replay_total"]
             + (IF pc["monitor"] = "count replay" THEN 1 ELSE 0)
    <3> DEFINE waiting == Cardinality(pending)
               inHand == One(pc["worker"] = "mark")
               late == One(pc["monitor"] = "count replay")
               sent == metric["mqtt_publish_ok"] + metric["mqtt_replay_total"]
    <3>1. rows + inHand <= sent + waiting + late
      BY DEF MetricsInv, Accounted
    <3>2. rows \in Nat /\ waiting \in Nat
      BY Sizes DEF MetricsInv, Kept
    <3>3. inHand \in Nat /\ late \in Nat
      BY DEF One
    <3>4. sent \in Nat
      BY <2>1 DEF Counter
    <3> HIDE DEF waiting, inHand, late, sent
    <3>5. rows - waiting <= sent + late
      BY <3>1, <3>2, <3>3, <3>4
    <3> QED
      BY <3>5 DEF waiting, late, sent, One
  <2>4. pc["ingress"] = "done" /\ pc["worker"] = "done" =>
          /\ metric["ingress_points"] = metric["processed_points"] + ring
          /\ metric["processed_points"] = metric["mqtt_publish_ok"] + metric["mqtt_publish_fail"]
          /\ metric["ingress_points"] + dropped = delivered
    BY <2>1 DEF MetricsInv, Received, Handled, One, Counter
  <2> QED
    BY <2>2, <2>3, <2>4 DEF CountersAddUp
<1> QED
  BY <1>1, MetricsSpec, PTL

(* Whatever a reader finds in the metrics file other than one whole text   *)
(* has its reason in what happened since the file was last truncated: a    *)
(* write under way, one that failed, or two at once (metrics.c:34 and 60). *)
THEOREM TheFileIsWhole == Spec => []FileIsWhole
<1>1. MetricsInv => FileIsWhole
  <2> SUFFICES ASSUME MetricsInv PROVE FileIsWhole
    OBVIOUS
  <2>1. file.text \in Nat /\ file.tail \in Nat
    BY DEF MetricsInv, Texts
  <2>2. CASE file.text = 0 /\ file.tail = 0
    <3>1. Status = "empty"
      BY <2>2 DEF Status, Size
    <3> QED
      BY <2>2, <3>1 DEF MetricsInv, Texts, FileIsWhole, Writer
  <2>3. CASE file.text # 0 /\ file.tail = 0
    <3>1. Status = "whole"
      BY <2>1, <2>3 DEF Status, Size
    <3> QED
      BY <3>1 DEF FileIsWhole
  <2>4. CASE file.text # 0 /\ file.tail # 0
    <3>1. Status = "torn"
      BY <2>1, <2>4 DEF Status, Size
    <3> QED
      BY <2>4, <3>1 DEF MetricsInv, Texts, FileIsWhole
  <2>5. CASE file.text = 0 /\ file.tail # 0
    <3>1. Status = "cut"
      BY <2>1, <2>5 DEF Status, Size
    <3> QED
      BY <2>5, <3>1 DEF MetricsInv, Texts, FileIsWhole
  <2> QED
    BY <2>2, <2>3, <2>4, <2>5
<1> QED
  BY <1>1, MetricsSpec, PTL
=============================================================================
