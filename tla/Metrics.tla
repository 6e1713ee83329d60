------------------------------- MODULE Metrics -------------------------------
(***************************************************************************)
(* What the gateway says of itself (platform/metrics.c): counters that     *)
(* ingress, worker and monitor increment, gauges that two threads load and *)
(* store without a lock, and the text file that worker and monitor both    *)
(* truncate and rewrite while edgeflow-cli reads it.  Every access to an   *)
(* atomic is a step; so is a statement of SQLite.  A text is shorter than  *)
(* the buffer of stdio, so fclose writes it at once and at offset 0, and   *)
(* only its length matters: numbers change their number of digits.  The    *)
(* file may refuse to be opened (no directory, no permission) or to be     *)
(* written (a full disk): nobody looks at the answer.                      *)
(***************************************************************************)
EXTENDS Integers, FiniteSets

CONSTANTS Capacity,        \* points the ring holds
          MaxPoints,       \* bound: points the adapters deliver
          MaxBatch,        \* points of one poll
          MaxFailures,     \* bound: failed statements, and failed fopen and fclose
          Lengths          \* lengths a text can have

ASSUME BoundsAssumption ==
    /\ {Capacity, MaxPoints, MaxBatch} \subseteq Nat \ {0} /\ MaxFailures \in Nat
    /\ Lengths \subseteq Nat \ {0} /\ Lengths # {}

VARIABLES
    pc,                    \* per thread: its next step
    running,               \* app->running
    delivered, batch,      \* points polled so far; of the current poll, not yet pushed
    ring, dropped,         \* spsc_ring_count and spsc_ring_dropped
    rows, stored,          \* rows inserted so far; row_id of the point in hand, or 0
    pending,               \* the rows with uploaded = 0
    fetched,               \* the rows the monitor has fetched and not yet replayed
    metric,                \* the counters and gauges of gateway_metrics_t
    got,                   \* per thread: the value it has loaded and not yet stored
    file,                  \* the length of the text it begins with, and of what follows that
    harm,                  \* history: what has befallen the file since it was truncated
    failures

vars == <<pc, running, delivered, batch, ring, dropped, rows, stored, pending, fetched,
          metric, got, file, harm, failures>>

Thread == {"ingress", "worker", "monitor"}
Writer == {"worker", "monitor"}
Counter == {"ingress_points", "processed_points", "mqtt_publish_ok", "mqtt_publish_fail",
            "mqtt_replay_total"}
Gauge == {"queue_depth", "queue_dropped", "storage_pending_count"}
Harm == {"not opened", "overlap", "failed write"}

(* metrics_init; there is no file yet. *)
Init ==
    /\ pc = [t \in Thread |-> "check"]
    /\ running = TRUE /\ delivered = 0 /\ batch = 0
    /\ ring = 0 /\ dropped = 0
    /\ rows = 0 /\ stored = 0 /\ pending = {} /\ fetched = {}
    /\ metric = [m \in Counter \cup Gauge |-> 0]
    /\ got = [t \in Thread |-> 0]
    /\ file = [text |-> 0, tail |-> 0] /\ harm = {"not opened"}
    /\ failures = 0

Goto(t, label) == pc' = [pc EXCEPT ![t] = label]
Count(m) == metric' = [metric EXCEPT ![m] = @ + 1]
Fails == failures < MaxFailures /\ failures' = failures + 1

queue == <<delivered, batch, ring, dropped>>
table == <<rows, stored, pending, fetched, failures>>
text == <<file, harm>>

-----------------------------------------------------------------------------
(* Refreshing a gauge: atomic_store of what another atomic, or a SELECT    *)
(* COUNT, has just returned.                                               *)
Load(t, from, to, value) ==
    /\ pc[t] = from /\ Goto(t, to)
    /\ got' = [got EXCEPT ![t] = value]
    /\ UNCHANGED <<running, queue, table, metric, text>>

Store(t, from, to, gauge) ==
    /\ pc[t] = from /\ Goto(t, to)
    /\ metric' = [metric EXCEPT ![gauge] = got[t]]
    /\ got' = [got EXCEPT ![t] = 0]
    /\ UNCHANGED <<running, queue, table, text>>

(* spsc_ring_count and spsc_ring_dropped, in ingress and worker. *)
RefreshQueue(t, next) ==
    \/ Load(t, "depth", "set depth", ring)
    \/ Store(t, "set depth", "dropped", "queue_depth")
    \/ Load(t, "dropped", "set dropped", dropped)
    \/ Store(t, "set dropped", next, "queue_dropped")

(* storage_pending_telemetry_count answers 0 when the statement cannot be  *)
(* prepared.                                                               *)
RefreshPending(t, next) ==
    \/ Load(t, "pending", "set pending", Cardinality(pending))
    \/ /\ pc[t] = "pending" /\ Goto(t, "set pending")
       /\ Fails /\ got' = [got EXCEPT ![t] = 0]
       /\ UNCHANGED <<running, queue, rows, stored, pending, fetched, metric, text>>
    \/ Store(t, "set pending", next, "storage_pending_count")

-----------------------------------------------------------------------------
(* Mutant: the gauges are refreshed only when the poll delivered points. *)
PollBusy ==
    /\ pc["ingress"] = "check" /\ running
    /\ \E n \in 0 .. MaxBatch :
          /\ delivered + n <= MaxPoints
          /\ delivered' = delivered + n /\ batch' = n
          /\ Goto("ingress", IF n > 0 THEN "push" ELSE "check")
    /\ UNCHANGED <<running, ring, dropped, table, metric, got, text>>

(* ingress_main *)
Poll ==
    /\ pc["ingress"] = "check" /\ running
    /\ \E n \in 0 .. MaxBatch :
          /\ delivered + n <= MaxPoints
          /\ delivered' = delivered + n /\ batch' = n
          /\ Goto("ingress", IF n > 0 THEN "push" ELSE "depth")
    /\ UNCHANGED <<running, ring, dropped, table, metric, got, text>>

AfterPush == IF batch = 1 THEN "depth" ELSE "push"

(* Mutants: the full test is off by one; a refused point is counted as received. *)
PushOverfull ==
    /\ pc["ingress"] = "push" /\ ring <= Capacity
    /\ ring' = ring + 1
    /\ Goto("ingress", "count")
    /\ UNCHANGED <<running, delivered, batch, dropped, table, metric, got, text>>

PushCountsDropped ==
    /\ pc["ingress"] = "push"
    /\ IF ring < Capacity
       THEN ring' = ring + 1 /\ UNCHANGED dropped
       ELSE dropped' = dropped + 1 /\ UNCHANGED ring
    /\ Goto("ingress", "count")
    /\ UNCHANGED <<running, delivered, batch, table, metric, got, text>>

(* spsc_ring_push *)
Push ==
    /\ pc["ingress"] = "push"
    /\ IF ring < Capacity
       THEN /\ ring' = ring + 1
            /\ Goto("ingress", "count")
            /\ UNCHANGED <<batch, dropped>>
       ELSE /\ dropped' = dropped + 1
            /\ batch' = batch - 1 /\ Goto("ingress", AfterPush)
            /\ UNCHANGED ring
    /\ UNCHANGED <<running, delivered, table, metric, got, text>>

CountIngress ==
    /\ pc["ingress"] = "count"
    /\ Count("ingress_points")
    /\ batch' = batch - 1 /\ Goto("ingress", AfterPush)
    /\ UNCHANGED <<running, delivered, ring, dropped, table, got, text>>

IngressLeaves ==
    /\ pc["ingress"] = "check" /\ ~running
    /\ Goto("ingress", "done")
    /\ UNCHANGED <<running, queue, table, metric, got, text>>

IngressStep == Poll \/ Push \/ CountIngress \/ RefreshQueue("ingress", "check") \/ IngressLeaves

-----------------------------------------------------------------------------
(* metrics_write_file, called by worker and monitor. *)
HasItOpen(t) == pc[t] \in {"close", "close last"}
OpenElsewhere(t) == \E u \in Writer \ {t} : HasItOpen(u)

(* Mutant: the file is not truncated. *)
OpenUntruncated(t, from, to, after) ==
    /\ pc[t] = from
    /\ \/ /\ Goto(t, to)
          /\ file' = [text |-> 0, tail |-> file.text + file.tail]
          /\ harm' = IF OpenElsewhere(t) THEN {"overlap"} ELSE {}
          /\ UNCHANGED failures
       \/ Fails /\ Goto(t, after) /\ UNCHANGED text
    /\ UNCHANGED <<running, queue, rows, stored, pending, fetched, metric, got>>

(* fopen(path, "w") truncates the file, or returns NULL and leaves it.     *)
Open(t, from, to, after) ==
    /\ pc[t] = from
    /\ \/ /\ Goto(t, to)
          /\ file' = [text |-> 0, tail |-> 0]
          /\ harm' = IF OpenElsewhere(t) THEN {"overlap"} ELSE {}
          /\ UNCHANGED failures
       \/ Fails /\ Goto(t, after) /\ UNCHANGED text
    /\ UNCHANGED <<running, queue, rows, stored, pending, fetched, metric, got>>

(* What n bytes written at the beginning leave of an older and longer file. *)
Size == file.text + file.tail
Rest(n) == IF Size > n THEN Size - n ELSE 0

(* fclose writes the text over the beginning of whatever is there.  Once   *)
(* nobody has the file open its length does not matter any more.           *)
WriteText(t, n) ==
    IF OpenElsewhere(t) \/ Rest(n) > 0
    THEN file' = [text |-> n, tail |-> Rest(n)] /\ UNCHANGED harm
    ELSE file' = [text |-> 1, tail |-> 0] /\ harm' = {}

(* The write fails after k bytes of the text: none, or a beginning.        *)
WriteFails(k) ==
    /\ file' = IF k = 0 THEN file ELSE [text |-> 0, tail |-> k + Rest(k)]
    /\ harm' = harm \cup {"failed write"}

(* fprintf into the buffer and fclose *)
Close(t, from, to) ==
    /\ pc[t] = from /\ Goto(t, to)
    /\ \E n \in Lengths : \/ WriteText(t, n) /\ UNCHANGED failures
                          \/ Fails /\ \E k \in 0 .. n - 1 : WriteFails(k)
    /\ UNCHANGED <<running, queue, rows, stored, pending, fetched, metric, got>>

(* What edgeflow-cli status finds in the file: a text and nothing else, a  *)
(* text with the end of another one, or only a piece of one.               *)
Status ==
    CASE Size = 0                       -> "empty"
      [] file.text > 0 /\ file.tail = 0 -> "whole"
      [] file.text > 0 /\ file.tail > 0 -> "torn"
      [] file.text = 0 /\ file.tail > 0 -> "cut"

-----------------------------------------------------------------------------
(* worker_main *)
WorkerCheck ==
    /\ pc["worker"] = "check"
    /\ Goto("worker", IF running THEN "pop" ELSE "last")
    /\ UNCHANGED <<running, queue, table, metric, got, text>>

Pop ==
    /\ pc["worker"] = "pop"
    /\ IF ring > 0 THEN ring' = ring - 1 /\ Goto("worker", "insert")
       ELSE Goto("worker", "check") /\ UNCHANGED ring
    /\ UNCHANGED <<running, delivered, batch, dropped, table, metric, got, text>>

Insert ==
    /\ pc["worker"] = "insert" /\ Goto("worker", "processed")
    /\ \/ /\ rows' = rows + 1 /\ stored' = rows' /\ pending' = pending \cup {rows'}
          /\ UNCHANGED failures
       \/ Fails /\ stored' = 0 /\ UNCHANGED <<rows, pending>>
    /\ UNCHANGED <<running, queue, fetched, metric, got, text>>

CountProcessed ==
    /\ pc["worker"] = "processed" /\ Goto("worker", "publish")
    /\ Count("processed_points")
    /\ UNCHANGED <<running, queue, table, got, text>>

(* mqtt_session_publish_telemetry, and its counter. *)
Publish ==
    /\ pc["worker"] = "publish"
    /\ \/ /\ Count("mqtt_publish_ok") /\ Goto("worker", IF stored > 0 THEN "mark" ELSE "depth")
          /\ UNCHANGED stored
       \/ Count("mqtt_publish_fail") /\ Goto("worker", "depth") /\ stored' = 0
    /\ UNCHANGED <<running, queue, rows, pending, fetched, failures, got, text>>

Mark ==
    /\ pc["worker"] = "mark" /\ Goto("worker", "depth")
    /\ \/ pending' = pending \ {stored} /\ UNCHANGED failures
       \/ Fails /\ UNCHANGED pending
    /\ stored' = 0
    /\ UNCHANGED <<running, queue, rows, fetched, metric, got, text>>

(* A second has passed since the worker last wrote the file, or not. *)
Elapsed ==
    /\ pc["worker"] = "elapsed"
    /\ \E next \in {"write", "check"} : Goto("worker", next)
    /\ UNCHANGED <<running, queue, table, metric, got, text>>

WorkerStep ==
    \/ WorkerCheck \/ Pop \/ Insert \/ CountProcessed \/ Publish \/ Mark
    \/ RefreshQueue("worker", "pending") \/ RefreshPending("worker", "elapsed") \/ Elapsed
    \/ Open("worker", "write", "close", "check") \/ Close("worker", "close", "check")
    \/ Open("worker", "last", "close last", "done") \/ Close("worker", "close last", "done")

-----------------------------------------------------------------------------
(* monitor_on_timer, as far as the metrics go. *)
MonitorCheck ==
    /\ pc["monitor"] = "check"
    /\ Goto("monitor", IF running THEN "fetch" ELSE "done")
    /\ UNCHANGED <<running, queue, table, metric, got, text>>

(* mqtt_session_replay_pending: without its rows it returns at once, and   *)
(* the gauge stays as it is.                                               *)
Fetch ==
    /\ pc["monitor"] = "fetch"
    /\ \/ fetched' = pending /\ Goto("monitor", "replay") /\ UNCHANGED failures
       \/ Fails /\ Goto("monitor", "write") /\ UNCHANGED fetched
    /\ UNCHANGED <<running, queue, rows, stored, pending, metric, got, text>>

(* The next row is sent and marked; the worker may have done both since    *)
(* the fetch.  Only a row that could be marked is counted.                 *)
Replay ==
    /\ pc["monitor"] = "replay"
    /\ \E row \in fetched :
          /\ \A later \in fetched : row <= later
          /\ fetched' = fetched \ {row}
          /\ \/ /\ pending' = pending \ {row} /\ UNCHANGED failures
                /\ Goto("monitor", "count replay")
             \/ Fails /\ UNCHANGED <<pc, pending>>
    /\ UNCHANGED <<running, queue, rows, stored, metric, got, text>>

CountReplay ==
    /\ pc["monitor"] = "count replay" /\ Goto("monitor", "replay")
    /\ Count("mqtt_replay_total")
    /\ UNCHANGED <<running, queue, table, got, text>>

(* The batch is done, or there is no connection, or a send failed. *)
ReplayEnds ==
    /\ pc["monitor"] = "replay" /\ Goto("monitor", "pending")
    /\ fetched' = {}
    /\ UNCHANGED <<running, queue, rows, stored, pending, failures, metric, got, text>>

MonitorStep ==
    \/ MonitorCheck \/ Fetch \/ Replay \/ CountReplay \/ ReplayEnds
    \/ RefreshPending("monitor", "write")
    \/ Open("monitor", "write", "close", "check") \/ Close("monitor", "close", "check")

Stop ==
    /\ running /\ running' = FALSE
    /\ UNCHANGED <<pc, queue, table, metric, got, text>>

Next == IngressStep \/ WorkerStep \/ MonitorStep \/ Stop

(* The ingress keeps polling, the worker keeps looking at the ring and the *)
(* monitor's timer keeps firing.                                           *)
Spec == Init /\ [][Next]_vars
        /\ WF_vars(IngressStep) /\ WF_vars(WorkerStep) /\ WF_vars(MonitorStep)

-----------------------------------------------------------------------------
(* Types; a depth is never more than the ring can hold. *)
TypeOK ==
    /\ running \in BOOLEAN /\ delivered \in 0 .. MaxPoints /\ batch \in 0 .. MaxBatch
    /\ ring \in 0 .. Capacity /\ dropped \in 0 .. MaxPoints
    /\ rows \in 0 .. MaxPoints /\ stored \in 0 .. rows
    /\ pending \subseteq 1 .. rows /\ fetched \subseteq 1 .. rows
    /\ \A m \in Counter \cup Gauge : metric[m] \in 0 .. MaxPoints
    /\ metric["queue_depth"] <= Capacity
    /\ harm \subseteq Harm /\ failures \in 0 .. MaxFailures

(* The counters of three threads tell one story at every moment: a point   *)
(* may be processed before it is counted as received, by one; every        *)
(* processed point has an outcome, but for the one in hand; every row that *)
(* is marked was counted as published or as replayed, but for the one the  *)
(* monitor has just marked; and when ingress and worker have stopped, each *)
(* delivered point was dropped, was processed, or is one of those the      *)
(* worker left in the ring (app.c:44, 73, 118; mqtt_session.c:321).        *)
CountersAddUp ==
    LET in == metric["ingress_points"]
        done == metric["processed_points"]
        outcomes == metric["mqtt_publish_ok"] + metric["mqtt_publish_fail"]
        marked == rows - Cardinality(pending)
        sent == metric["mqtt_publish_ok"] + metric["mqtt_replay_total"]
    IN  /\ done <= in + 1
        /\ outcomes \in {done - 1, done}
        /\ marked <= sent + (IF pc["monitor"] = "count replay" THEN 1 ELSE 0)
        /\ pc["ingress"] = "done" /\ pc["worker"] = "done" =>
              in = done + ring /\ done = outcomes /\ in + dropped = delivered

(* Whoever reads the metrics file, whenever, finds one text and nothing    *)
(* else, unless what has happened since the file was last truncated        *)
(* explains what he finds: it is empty while somebody writes it, because   *)
(* the write failed, or because nobody could open it yet; it ends with     *)
(* another text only if worker and monitor had it open together; it is cut *)
(* short only by a failed write.  So no damage outlives the next write     *)
(* that opens the file alone and succeeds (metrics.c:34 and 60, app.c:135, *)
(* 141 and 180).                                                           *)
FileIsWhole ==
    \/ Status = "whole"
    \/ Status = "empty" /\ (harm \cap {"not opened", "failed write"} # {} \/ \E t \in Writer : HasItOpen(t))
    \/ Status = "torn" /\ "overlap" \in harm
    \/ Status = "cut" /\ "failed write" \in harm

(* The load and the store of a gauge race between two threads and a stale  *)
(* value may win, but once points stop coming the gauges agree with the    *)
(* ring and with the table for good: the next poll and the next round      *)
(* refresh them (app.c:50-51, mqtt_session.c:332).                         *)
GaugesSettle ==
    <>[](running => /\ metric["queue_depth"] = ring
                    /\ metric["queue_dropped"] = dropped
                    /\ metric["storage_pending_count"] = Cardinality(pending))
=============================================================================
