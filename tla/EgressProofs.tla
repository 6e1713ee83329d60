---------------------------- MODULE EgressProofs ----------------------------
(***************************************************************************)
(* Proofs about Egress, for any number of points, any batch size and any   *)
(* number of outages, crashes and failed statements.  The SELECT of the    *)
(* replay runs while the worker inserts and marks rows, so none of the     *)
(* three properties is inductive: what the batch in flight still owes to   *)
(* the table has to be said.                                               *)
(***************************************************************************)
EXTENDS Egress, SequenceTheorems, TLAPS

(* The types that TypeOK leaves out. *)
Typed ==
    /\ TypeOK
    /\ job \in [Thread -> {"none", "telemetry", "replay", "ping", "heartbeat"}]
    /\ taken \in 0 .. MaxRows
    /\ wpoint \in [row : 0 .. MaxRows, quality : Quality] /\ wpoint.row <= Len(rows)
    /\ cursor \in [n : 0 .. Batch, last : 0 .. MaxRows]
    /\ written \in [Rows -> Nat]
    /\ crashes \in Nat /\ markFailures \in Nat

(* Which call a thread can be in at each place. *)
Control ==
    /\ pc["worker"] # "fetch"
    /\ pc["worker"] # "idle" => job["worker"] = "telemetry"
    /\ pc["worker"] = "mark" => wpoint.row # 0
    /\ pc["monitor"] # "sent" /\ job["monitor"] # "telemetry"
    /\ pc["monitor"] = "mark" => job["monitor"] = "replay"
    /\ pc["monitor"] \in {"send", "mark"} /\ job["monitor"] = "replay" => mrows # <<>>

InBatch(i) == \E k \in 1 .. Len(mrows) : mrows[k] = i

(* The batch is an increasing selection of the table. *)
Selected ==
    /\ \A k \in 1 .. Len(mrows) : mrows[k] <= Len(rows)
    /\ \A k, l \in 1 .. Len(mrows) : k < l => mrows[k] < mrows[l]
    /\ pc["monitor"] = "fetch" =>
          /\ cursor.n = Len(mrows) /\ cursor.last <= Len(rows)
          /\ \A k \in 1 .. Len(mrows) : mrows[k] <= cursor.last

(* A row that the SELECT has passed over, or that is older than one of the *)
(* batch, was written or is of the batch too.                              *)
NothingSkipped ==
    /\ \A k \in 1 .. Len(mrows) : \A j \in 1 .. mrows[k] - 1 : written[j] >= 1 \/ InBatch(j)
    /\ pc["monitor"] = "fetch" => \A j \in 1 .. cursor.last : written[j] >= 1 \/ InBatch(j)

(* What is marked, or about to be, was written. *)
MarkedWasWritten ==
    /\ UploadedWasWritten
    /\ pc["worker"] \in {"sent", "mark"} /\ wpoint.row # 0 => written[wpoint.row] >= 1
    /\ pc["monitor"] = "mark" => written[mrows[1]] >= 1

(* The writes of row i that can still happen with no failure in between:   *)
(* the worker's, and one by a replay that has it in its batch or can still *)
(* fetch it.  Both together never exceed the bound.                        *)
WorkerOwes(i) == pc["worker"] \in {"lock", "connack", "send"} /\ wpoint.row = i
MonitorOwes(i) ==
    /\ ~(pc["monitor"] = "mark" /\ mrows[1] = i)
    /\ InBatch(i) \/ ~rows[i].uploaded
Owed(i) == (IF WorkerOwes(i) THEN 1 ELSE 0) + (IF MonitorOwes(i) THEN 1 ELSE 0)

Budget ==
    /\ \A i \in 1 .. Len(rows) : written[i] + Owed(i) <= 2 + markFailures + crashes
    /\ \A i \in Len(rows) + 1 .. MaxRows : written[i] = 0

(* The inductive invariant. *)
EgressInv ==
    Typed /\ Control /\ Selected /\ NothingSkipped /\ MarkedWasWritten /\ Budget

Row == [quality : Quality, uploaded : BOOLEAN]
Label == {"idle", "fetch", "lock", "connack", "send", "sent", "mark", "unlock"}

LEMMA EgressInit == Init => EgressInv
<1> SUFFICES ASSUME Init PROVE EgressInv
  OBVIOUS
<1> USE BoundsAssumption
<1>1. Typed
  BY DEF Init, Typed, TypeOK, Thread, Quality, Rows, NoPoint, CursorStart
<1>2. Control /\ Selected /\ NothingSkipped
  BY DEF Init, Control, Selected, NothingSkipped, Thread
<1>3. MarkedWasWritten /\ Budget
  BY DEF Init, MarkedWasWritten, UploadedWasWritten, Budget, Thread, Rows
<1>4. QED
  BY <1>1, <1>2, <1>3 DEF EgressInv

(* A step that touches neither the table, the batch nor the history keeps  *)
(* the invariant if no thread goes where it would owe a row, or have to    *)
(* have written one, without having been there before.                     *)
Quiet ==
    /\ UNCHANGED <<rows, markFailures, crashes, workerVars, monitorVars, history>>
    /\ broker' \in {"up", "down", "hung"} /\ session' \in {"none", "live", "dead"}
    /\ lock' \in Thread \cup {"none"}
    /\ pc' \in [Thread -> Label]
    /\ job' \in [Thread -> {"none", "telemetry", "replay", "ping", "heartbeat"}]
    /\ pc'["monitor"] = "fetch" => pc["monitor"] = "fetch"
    /\ pc'["monitor"] = "mark" <=> pc["monitor"] = "mark"
    /\ pc'["worker"] \in {"lock", "connack", "send"} => pc["worker"] \in {"lock", "connack", "send"}
    /\ pc'["worker"] \in {"sent", "mark"} => pc["worker"] \in {"sent", "mark"}

LEMMA QuietStep ==
    ASSUME EgressInv, Quiet, Control'
    PROVE  EgressInv'
<1> USE DEF Quiet, workerVars, monitorVars, history
<1>1. Typed'
  BY DEF EgressInv, Typed, TypeOK, Label
<1>2. Selected' /\ NothingSkipped'
  BY DEF EgressInv, Selected, NothingSkipped, InBatch
<1>3. MarkedWasWritten'
  BY DEF EgressInv, MarkedWasWritten, UploadedWasWritten
<1>4. Budget'
  <2>1. ASSUME NEW i \in 1 .. Len(rows) PROVE Owed(i)' <= Owed(i)
    <3>1. WorkerOwes(i)' => WorkerOwes(i)
      BY DEF WorkerOwes
    <3>2. MonitorOwes(i)' <=> MonitorOwes(i)
      BY DEF MonitorOwes, InBatch
    <3>3. QED
      BY <3>1, <3>2 DEF Owed
  <2>2. ASSUME NEW i \in 1 .. Len(rows) PROVE Owed(i) \in Nat /\ Owed(i)' \in Nat /\ written[i] \in Nat
    <3>1. i \in Rows
      BY BoundsAssumption DEF EgressInv, Typed, TypeOK, Rows
    <3>2. QED
      BY <3>1 DEF Owed, EgressInv, Typed
  <2>3. markFailures \in Nat /\ crashes \in Nat
    BY DEF EgressInv, Typed
  <2>4. QED
    BY <2>1, <2>2, <2>3 DEF EgressInv, Budget
<1>5. QED
  BY <1>1, <1>2, <1>3, <1>4 DEF EgressInv

(* storage_mark_telemetry_uploaded changes one row, or counts as failed.   *)
LEMMA MarkRow ==
    ASSUME Typed, NEW i \in 1 .. Len(rows), Mark(i)
    PROVE  /\ rows' \in Seq(Row) /\ Len(rows') = Len(rows) /\ markFailures' \in Nat
           /\ \A j \in 1 .. Len(rows) : j # i => rows'[j] = rows[j]
           /\ \/ rows'[i].uploaded /\ markFailures' = markFailures
              \/ rows'[i] = rows[i] /\ markFailures' = markFailures + 1
<1>1. rows \in Seq(Row) /\ rows[i] \in Row /\ markFailures \in Nat
  <2>1. rows \in Seq(Row) /\ markFailures \in Nat
    BY DEF Typed, TypeOK, Row
  <2>2. QED
    BY <2>1, ElementOfSeq
<1>2. CASE rows' = [rows EXCEPT ![i].uploaded = TRUE] /\ UNCHANGED markFailures
  <2> DEFINE r == [rows[i] EXCEPT !.uploaded = TRUE]
  <2>1. r \in Row /\ r.uploaded = TRUE
    BY <1>1 DEF Row
  <2>2. rows' = [rows EXCEPT ![i] = r]
    BY <1>2
  <2> HIDE DEF r
  <2>3. /\ rows' \in Seq(Row) /\ Len(rows') = Len(rows) /\ rows'[i] = r
        /\ \A j \in 1 .. Len(rows) : j # i => rows'[j] = rows[j]
    BY <1>1, <2>1, <2>2, ExceptSeq
  <2>4. QED
    BY <1>1, <1>2, <2>1, <2>3
<1>3. CASE markFailures' = markFailures + 1 /\ UNCHANGED rows
  BY <1>1, <1>3
<1>4. QED
  BY <1>2, <1>3 DEF Mark

LEMMA BatchTyped ==
    ASSUME Typed
    PROVE  /\ Len(mrows) \in Nat /\ \A k \in 1 .. Len(mrows) : mrows[k] \in Rows /\ mrows[k] \in Nat
           /\ Len(rows) \in Nat /\ \A i \in 1 .. Len(rows) : i \in Rows /\ written[i] \in Nat
<1>1. mrows \in Seq(Rows) /\ Rows \subseteq Nat /\ Len(rows) \in Nat
  BY BoundsAssumption DEF Typed, TypeOK, Rows
<1>2. \A k \in 1 .. Len(mrows) : mrows[k] \in Rows
  BY <1>1, ElementOfSeq
<1>3. ASSUME NEW i \in 1 .. Len(rows) PROVE i \in Rows
  BY BoundsAssumption DEF Typed, TypeOK, Rows
<1>4. \A i \in Rows : written[i] \in Nat
  BY DEF Typed
<1>5. Len(mrows) \in Nat
  BY <1>1, LenProperties
<1>6. QED
  BY <1>1, <1>2, <1>3, <1>4, <1>5

(* The steps of a call that only move control, and the broker's. *)
LEMMA ControlMoves ==
    ASSUME EgressInv, NEW t \in Thread,
           \/ FetchDone \/ FetchFails \/ Ping \/ PublishHeartbeat
           \/ Acquire(t) \/ Connack(t) \/ SendFails(t) \/ Unlock(t)
           \/ BrokerFails \/ BrokerRecovers
    PROVE  EgressInv'
<1> USE DEF Goto, Call, DbFails, db, world, history, workerVars, monitorVars
<1>0. TypeOK /\ Control /\ job \in [Thread -> {"none", "telemetry", "replay", "ping", "heartbeat"}]
  BY DEF EgressInv, Typed
<1> USE <1>0 DEF Thread, Label
<1>1. CASE FetchDone \/ FetchFails \/ Ping \/ PublishHeartbeat
  <2>1. Quiet /\ Control'
    BY <1>1 DEF FetchDone, FetchFails, Ping, PublishHeartbeat, Quiet, Control, TypeOK
  <2>2. QED
    BY <2>1, QuietStep
<1>2. CASE Acquire(t)
  <2>1. Quiet /\ Control'
    BY <1>2 DEF Acquire, FirstSend, Quiet, Control, TypeOK
  <2>2. QED
    BY <2>1, QuietStep
<1>3. CASE Connack(t)
  <2>1. Quiet /\ Control'
    BY <1>3 DEF Connack, FirstSend, Quiet, Control, TypeOK
  <2>2. QED
    BY <2>1, QuietStep
<1>4. CASE SendFails(t) \/ Unlock(t)
  <2>1. Quiet /\ Control'
    BY <1>4 DEF SendFails, Unlock, Quiet, Control, TypeOK
  <2>2. QED
    BY <2>1, QuietStep
<1>5. CASE BrokerFails \/ BrokerRecovers
  <2>1. Quiet /\ Control'
    BY <1>5 DEF BrokerFails, BrokerRecovers, Quiet, Control, TypeOK
  <2>2. QED
    BY <2>1, QuietStep
<1>6. QED
  BY <1>1, <1>2, <1>3, <1>4, <1>5

LEMMA AppendMoves ==
    ASSUME EgressInv, AppendTelemetry
    PROVE  EgressInv'
<1> USE BoundsAssumption
<1>1. /\ pc["worker"] = "idle" /\ taken < MaxRows /\ taken' = taken + 1
      /\ pc' = [pc EXCEPT !["worker"] = "lock"] /\ job' = [job EXCEPT !["worker"] = "telemetry"]
      /\ UNCHANGED <<markFailures, crashes, broker, session, lock, mrows, cursor, written, received>>
  BY DEF AppendTelemetry, Call, Goto, world, monitorVars, history
<1>2. PICK quality \in PointQuality :
        \/ /\ rows' = Append(rows, [quality |-> quality, uploaded |-> FALSE])
           /\ wpoint' = [row |-> Len(rows) + 1, quality |-> quality]
        \/ rows' = rows /\ wpoint' = [row |-> 0, quality |-> quality]
  BY DEF AppendTelemetry
<1> DEFINE new == [quality |-> quality, uploaded |-> FALSE]
<1>3. /\ Len(rows) \in Nat /\ Len(rows) < MaxRows /\ new \in Row /\ rows \in Seq(Row)
      /\ quality \in Quality /\ taken \in Nat /\ Len(rows) <= taken /\ MaxRows \in Nat
  BY <1>1 DEF EgressInv, Typed, TypeOK, Row, Quality
<1>4. /\ rows' \in Seq(Row) /\ Len(rows') \in {Len(rows), Len(rows) + 1}
      /\ \A i \in 1 .. Len(rows) : rows'[i] = rows[i]
      /\ \/ /\ wpoint' = [row |-> 0, quality |-> quality]
            /\ Len(rows') = Len(rows)
         \/ /\ wpoint' = [row |-> Len(rows) + 1, quality |-> quality]
            /\ Len(rows') = Len(rows) + 1 /\ rows'[Len(rows) + 1] = new
  <2>1. CASE rows' = Append(rows, new) /\ wpoint' = [row |-> Len(rows) + 1, quality |-> quality]
    BY <1>3, <2>1, AppendProperties
  <2>2. CASE rows' = rows /\ wpoint' = [row |-> 0, quality |-> quality]
    BY <1>3, <2>2
  <2>3. QED
    BY <1>2, <2>1, <2>2
<1> HIDE DEF new
<1>5. Typed'
  <2>1. TypeOK'
    BY <1>1, <1>3, <1>4 DEF EgressInv, Typed, TypeOK, Thread, Row
  <2>2. QED
    BY <1>1, <1>3, <1>4, <2>1 DEF EgressInv, Typed, Thread
<1>6. pc'["worker"] = "lock" /\ pc'["monitor"] = pc["monitor"]
      /\ job'["worker"] = "telemetry" /\ job'["monitor"] = job["monitor"]
  BY <1>1 DEF EgressInv, Typed, TypeOK, Thread
<1>7. Control'
  BY <1>1, <1>6 DEF EgressInv, Control
<1>8. Selected' /\ NothingSkipped'
  <2>1. \A k \in 1 .. Len(mrows) : mrows[k] \in Nat
    BY BatchTyped DEF EgressInv
  <2>2. QED
    BY SMTT(30), <1>1, <1>3, <1>4, <1>6, <2>1 DEF EgressInv, Typed, Selected, NothingSkipped, InBatch
<1>9. MarkedWasWritten'
  <2>1. UploadedWasWritten'
    <3>1. ASSUME NEW i \in 1 .. Len(rows'), rows'[i].uploaded PROVE written[i] >= 1
      BY <1>3, <1>4, <3>1 DEF new, EgressInv, MarkedWasWritten, UploadedWasWritten
    <3>2. QED
      BY <1>1, <1>4, <3>1 DEF UploadedWasWritten
  <2>2. QED
    BY <1>1, <1>6, <2>1 DEF EgressInv, MarkedWasWritten
<1>10. Budget'
  <2>1. ASSUME NEW i \in 1 .. Len(rows') PROVE written[i] + Owed(i)' <= 2 + markFailures + crashes
    <3>1. CASE i \in 1 .. Len(rows)
      <4>1. ~WorkerOwes(i)'
        BY <1>3, <1>4, <3>1 DEF WorkerOwes
      <4>2. MonitorOwes(i)' <=> MonitorOwes(i)
        BY <1>1, <1>4, <1>6, <3>1 DEF MonitorOwes, InBatch
      <4>3. Owed(i)' <= Owed(i) /\ Owed(i) \in Nat /\ Owed(i)' \in Nat
        BY <4>1, <4>2 DEF Owed
      <4>4. i \in Rows
        BY <1>3, <3>1 DEF Rows
      <4>5. QED
        BY SMTT(30), <3>1, <4>3, <4>4 DEF EgressInv, Typed, Budget
    <3>2. CASE i = Len(rows) + 1
      <4>1. written[i] = 0
        BY <1>3, <3>2 DEF EgressInv, Budget
      <4>2. Owed(i)' \in 0 .. 2
        BY DEF Owed
      <4>3. QED
        BY <4>1, <4>2 DEF EgressInv, Typed
    <3>3. QED
      BY <1>3, <1>4, <3>1, <3>2
  <2>2. \A i \in Len(rows') + 1 .. MaxRows : written[i] = 0
    BY <1>3, <1>4 DEF EgressInv, Budget
  <2>3. QED
    BY <1>1, <2>1, <2>2 DEF Budget
<1>11. QED
  BY <1>5, <1>7, <1>8, <1>9, <1>10 DEF EgressInv

LEMMA BatchMoves ==
    ASSUME EgressInv, BeginRound
    PROVE  EgressInv'
<1> USE BoundsAssumption
<1>1. /\ pc["monitor"] = "idle" /\ pc' = [pc EXCEPT !["monitor"] = "fetch"]
      /\ mrows' = <<>> /\ cursor' = [n |-> 0, last |-> 0]
      /\ UNCHANGED <<rows, markFailures, crashes, broker, session, lock, job, taken, wpoint, written, received>>
  BY DEF BeginRound, Goto, world, db, workerVars, history, CursorStart
<1>2. pc'["monitor"] = "fetch" /\ pc'["worker"] = pc["worker"]
  BY <1>1 DEF EgressInv, Typed, TypeOK, Thread
<1>3. Typed'
  BY <1>1 DEF EgressInv, Typed, TypeOK, Thread
<1>4. Control'
  BY <1>1, <1>2 DEF EgressInv, Control
<1>5. Selected' /\ NothingSkipped'
  BY <1>1 DEF EgressInv, Typed, TypeOK, Selected, NothingSkipped
<1>6. MarkedWasWritten'
  BY <1>1, <1>2 DEF EgressInv, MarkedWasWritten, UploadedWasWritten
<1>7. Budget'
  <2>1. ASSUME NEW i \in 1 .. Len(rows) PROVE Owed(i)' <= Owed(i) /\ Owed(i) \in Nat /\ Owed(i)' \in Nat
    <3>1. WorkerOwes(i)' <=> WorkerOwes(i)
      BY <1>1, <1>2 DEF WorkerOwes
    <3>2. MonitorOwes(i)' => MonitorOwes(i)
      BY <1>1, <1>2 DEF MonitorOwes, InBatch
    <3>3. QED
      BY <3>1, <3>2 DEF Owed
  <2>2. ASSUME NEW i \in 1 .. Len(rows) PROVE written[i] \in Nat
    BY DEF EgressInv, Typed, TypeOK, Rows
  <2>3. QED
    BY SMTT(30), <1>1, <2>1, <2>2 DEF EgressInv, Typed, Budget
<1>8. QED
  BY <1>3, <1>4, <1>5, <1>6, <1>7 DEF EgressInv

LEMMA FetchMoves ==
    ASSUME EgressInv, FetchStep
    PROVE  EgressInv'
<1> USE BoundsAssumption
<1>1. PICK i \in 1 .. Len(rows) :
        /\ pc["monitor"] = "fetch" /\ cursor.n < Batch
        /\ i > cursor.last /\ ~rows[i].uploaded
        /\ \A j \in cursor.last + 1 .. i - 1 : rows[j].uploaded
        /\ mrows' = Append(mrows, i)
        /\ cursor' = [n |-> cursor.n + 1, last |-> i]
        /\ UNCHANGED <<rows, markFailures, crashes, broker, session, lock, pc, job, taken, wpoint, written, received>>
  <2>1. DOMAIN rows = 1 .. Len(rows)
    BY DEF EgressInv, Typed, TypeOK
  <2>2. QED
    BY <2>1 DEF FetchStep, Fetch, Pending, world, db, workerVars, history
<1> DEFINE m == Len(mrows)
<1>2. /\ m \in Nat /\ mrows \in Seq(Rows) /\ i \in Rows /\ i \in Nat /\ Len(rows) \in Nat
      /\ \A k \in 1 .. m : mrows[k] \in Nat
  BY SMTT(30), BatchTyped DEF EgressInv, Typed, TypeOK
<1>3. /\ Len(mrows') = m + 1 /\ mrows'[m + 1] = i /\ mrows' \in Seq(Rows)
      /\ \A k \in 1 .. m : mrows'[k] = mrows[k]
  BY <1>1, <1>2, AppendProperties
<1>4. /\ cursor.n = m /\ cursor.last <= Len(rows) /\ cursor.n \in Nat /\ cursor.last \in Nat
      /\ \A k \in 1 .. m : mrows[k] <= cursor.last
  BY <1>1 DEF EgressInv, Typed, Selected
<1>5. cursor'.n = m + 1 /\ cursor'.last = i /\ m + 1 <= Batch
  BY <1>1, <1>2, <1>4
<1>6. Typed'
  <2>1. TypeOK'
    BY <1>1, <1>3, <1>5 DEF EgressInv, Typed, TypeOK
  <2>2. cursor' \in [n : 0 .. Batch, last : 0 .. MaxRows]
    BY <1>1, <1>2, <1>4, <1>5 DEF Rows
  <2>3. QED
    BY <1>1, <2>1, <2>2 DEF EgressInv, Typed
<1>7. Control'
  BY <1>1, <1>2, <1>3 DEF EgressInv, Control
<1>8. \A k \in 1 .. m + 1 : k = m + 1 \/ k \in 1 .. m
  BY <1>2
<1>9. Selected'
  <2>1. \A k \in 1 .. m + 1 : mrows'[k] <= Len(rows)
    BY SMTT(30), <1>2, <1>3, <1>8 DEF EgressInv, Selected
  <2>2. ASSUME NEW k \in 1 .. m + 1, NEW l \in 1 .. m + 1, k < l PROVE mrows'[k] < mrows'[l]
    <3>1. k \in 1 .. m
      BY <1>2, <2>2
    <3>2. CASE l = m + 1
      BY <1>1, <1>2, <1>3, <1>4, <3>1, <3>2
    <3>3. CASE l \in 1 .. m
      BY <1>3, <2>2, <3>1, <3>3 DEF EgressInv, Selected
    <3>4. QED
      BY <1>8, <3>2, <3>3
  <2>3. \A k \in 1 .. m + 1 : mrows'[k] <= i
    BY <1>1, <1>2, <1>3, <1>4, <1>8
  <2>4. QED
    BY <1>1, <1>3, <1>5, <2>1, <2>2, <2>3 DEF Selected
<1>10. NothingSkipped'
  <2>1. ASSUME NEW j, InBatch(j) PROVE InBatch(j)'
    BY <1>2, <1>3, <2>1 DEF InBatch
  <2>2. InBatch(i)'
    BY <1>2, <1>3 DEF InBatch
  <2>3. ASSUME NEW j \in 1 .. i - 1 PROVE written[j] >= 1 \/ InBatch(j)'
    <3>1. CASE j \in 1 .. cursor.last
      BY <1>1, <2>1, <3>1 DEF EgressInv, NothingSkipped
    <3>2. CASE j \in cursor.last + 1 .. i - 1
      <4>1. rows[j].uploaded /\ j \in DOMAIN rows
        BY SMTT(30), <1>1, <1>2, <1>4, <3>2 DEF EgressInv, Typed, TypeOK
      <4>2. QED
        BY <4>1 DEF EgressInv, MarkedWasWritten, UploadedWasWritten
    <3>3. QED
      BY <1>2, <1>4, <3>1, <3>2
  <2>4. ASSUME NEW k \in 1 .. m + 1, NEW j \in 1 .. mrows'[k] - 1 PROVE written[j] >= 1 \/ InBatch(j)'
    <3>1. CASE k = m + 1
      BY <1>3, <2>3, <3>1
    <3>2. CASE k \in 1 .. m
      <4>1. j \in 1 .. mrows[k] - 1
        BY <1>3, <3>2
      <4>2. QED
        BY <2>1, <3>2, <4>1 DEF EgressInv, NothingSkipped
    <3>3. QED
      BY <1>8, <3>1, <3>2
  <2>5. \A j \in 1 .. i : written[j] >= 1 \/ InBatch(j)'
    BY <1>2, <2>2, <2>3
  <2>6. QED
    BY <1>1, <1>3, <1>5, <2>4, <2>5 DEF NothingSkipped
<1>11. MarkedWasWritten'
  BY <1>1 DEF EgressInv, MarkedWasWritten, UploadedWasWritten
<1>12. Budget'
  <2>1. ASSUME NEW j \in 1 .. Len(rows) PROVE Owed(j)' = Owed(j)
    <3>1. WorkerOwes(j)' <=> WorkerOwes(j)
      BY <1>1 DEF WorkerOwes
    <3>2. InBatch(j)' => InBatch(j) \/ j = i
      BY <1>3, <1>8 DEF InBatch
    <3>3. InBatch(j) => InBatch(j)'
      BY <1>2, <1>3 DEF InBatch
    <3>4. MonitorOwes(j)' <=> MonitorOwes(j)
      BY <1>1, <3>2, <3>3 DEF MonitorOwes
    <3>5. QED
      BY <3>1, <3>4 DEF Owed
  <2>2. QED
    BY <1>1, <2>1 DEF EgressInv, Budget
<1>13. QED
  BY <1>6, <1>7, <1>9, <1>10, <1>11, <1>12 DEF EgressInv

LEMMA SendMoves ==
    ASSUME EgressInv, NEW t \in Thread, Send(t)
    PROVE  EgressInv'
<1> USE BoundsAssumption
<1> DEFINE p == Packet(t)
           label == IF job[t] = "telemetry" THEN "sent" ELSE IF job[t] = "replay" THEN "mark" ELSE "unlock"
<1>1. /\ pc[t] = "send" /\ pc' = [pc EXCEPT ![t] = label]
      /\ UNCHANGED <<rows, markFailures, crashes, broker, session, lock, job, taken, wpoint, mrows, cursor>>
  BY DEF Send, Goto, world, db, workerVars, monitorVars
<1>2. IF p.row = 0 THEN UNCHANGED history
      ELSE /\ written' = [written EXCEPT ![p.row] = @ + 1]
           /\ received' = IF session = "live" THEN [received EXCEPT ![p.row] = @ \cup {p.quality}]
                          ELSE received
  BY DEF Send
<1>3. t = "worker" => job[t] = "telemetry" /\ p = wpoint /\ label = "sent"
  <2>1. t = "worker" => job[t] = "telemetry"
    BY <1>1 DEF EgressInv, Control
  <2>2. QED
    BY <2>1 DEF Packet
<1>4. t = "monitor" /\ job[t] = "replay" =>
        /\ mrows # <<>> /\ label = "mark"
        /\ p.row = mrows[1] /\ p.quality = "good"
  <2> SUFFICES ASSUME t = "monitor", job[t] = "replay"
               PROVE  mrows # <<>> /\ label = "mark" /\ p.row = mrows[1] /\ p.quality = "good"
    OBVIOUS
  <2>1. mrows # <<>> /\ Head(mrows) = mrows[1]
    BY <1>1 DEF EgressInv, Control, Typed, TypeOK
  <2>2. QED
    BY <2>1 DEF Packet
<1>5. t = "monitor" /\ job[t] # "replay" => p.row = 0 /\ p.quality = "good" /\ label = "unlock"
  <2>1. t = "monitor" => job[t] # "telemetry"
    BY DEF EgressInv, Control
  <2>2. QED
    BY <2>1 DEF Packet, NoPoint
<1>6. t \in {"worker", "monitor"}
  BY DEF Thread
<1>7. mrows # <<>> => 1 \in 1 .. Len(mrows)
  BY BatchTyped DEF EgressInv, Typed, TypeOK
<1>8. p.row \in 0 .. Len(rows) /\ p.quality \in Quality /\ (p.row # 0 => p.row \in Rows) /\ Len(rows) \in Nat
  BY <1>3, <1>4, <1>5, <1>6, <1>7, BatchTyped DEF EgressInv, Typed, NoPoint, Quality, Selected
<1> HIDE DEF p, label
<1>9. /\ written' \in [Rows -> Nat] /\ received' \in [Rows -> SUBSET Quality]
      /\ \A i \in Rows : i # p.row => written'[i] = written[i]
      /\ p.row # 0 => written'[p.row] = written[p.row] + 1
      /\ \A i \in Rows : written'[i] >= written[i] /\ written[i] \in Nat
  <2>1. written \in [Rows -> Nat] /\ received \in [Rows -> SUBSET Quality]
    BY DEF EgressInv, Typed, TypeOK
  <2>2. CASE p.row = 0
    BY <1>2, <2>1, <2>2 DEF history
  <2>3. CASE p.row # 0
    <3>1. p.row \in Rows /\ written' = [written EXCEPT ![p.row] = @ + 1]
      BY <1>2, <1>8, <2>3
    <3>2. received' \in [Rows -> SUBSET Quality]
      BY <1>2, <1>8, <2>1, <2>3
    <3>3. written' \in [Rows -> Nat] /\ \A i \in Rows : written'[i] = IF i = p.row THEN written[i] + 1 ELSE written[i]
      BY <2>1, <3>1
    <3>4. QED
      BY <2>1, <3>1, <3>2, <3>3
  <2>4. QED
    BY <2>2, <2>3
<1>10. /\ pc' \in [Thread -> Label] /\ pc'[t] = label /\ \A s \in Thread : s # t => pc'[s] = pc[s]
  BY <1>1, <1>3, <1>4, <1>5, <1>6 DEF EgressInv, Typed, TypeOK, Label
<1>11. Typed'
  <2>1. TypeOK'
    BY <1>1, <1>9, <1>10 DEF EgressInv, Typed, TypeOK, Label
  <2>2. QED
    BY <1>1, <1>9, <2>1 DEF EgressInv, Typed
<1>12. Control'
  BY <1>1, <1>3, <1>4, <1>5, <1>6, <1>10 DEF EgressInv, Control, Thread
<1>13. Selected' /\ NothingSkipped'
  <2>1. pc'["monitor"] = "fetch" => pc["monitor"] = "fetch"
    BY <1>1, <1>3, <1>4, <1>5, <1>6, <1>10 DEF Thread
  <2>2. ASSUME NEW j \in 1 .. Len(rows), written[j] >= 1 PROVE written'[j] >= 1
    BY <1>9, <2>2, BatchTyped DEF EgressInv
  <2>3. Selected'
    BY <1>1, <2>1 DEF EgressInv, Selected
  <2>4. ASSUME NEW k \in 1 .. Len(mrows), NEW j \in 1 .. mrows[k] - 1 PROVE j \in 1 .. Len(rows)
    BY BatchTyped DEF EgressInv, Selected
  <2>5. ASSUME pc["monitor"] = "fetch", NEW j \in 1 .. cursor.last PROVE j \in 1 .. Len(rows)
    BY <1>8, <2>5 DEF EgressInv, Typed, Selected
  <2>6. NothingSkipped'
    BY <1>1, <2>1, <2>2, <2>4, <2>5 DEF EgressInv, NothingSkipped, InBatch
  <2>7. QED
    BY <2>3, <2>6
<1>14. MarkedWasWritten'
  <2>1. UploadedWasWritten'
    <3>1. DOMAIN rows = 1 .. Len(rows) /\ \A i \in 1 .. Len(rows) : i \in Rows
      BY BatchTyped DEF EgressInv, Typed, TypeOK
    <3>2. QED
      BY <1>1, <1>9, <3>1 DEF EgressInv, MarkedWasWritten, UploadedWasWritten
  <2>2. ASSUME pc'["worker"] \in {"sent", "mark"}, wpoint.row # 0 PROVE written'[wpoint.row] >= 1
    <3>1. wpoint.row \in Rows
      BY <2>2 DEF EgressInv, Typed, Rows
    <3>2. CASE t = "worker"
      BY <1>3, <1>4, <1>5, <1>6, <1>9, <2>2, <3>1, <3>2
    <3>3. CASE t # "worker"
      BY <1>9, <1>10, <2>2, <3>1, <3>3 DEF EgressInv, MarkedWasWritten, Thread
    <3>4. QED
      BY <3>2, <3>3
  <2>3. ASSUME pc'["monitor"] = "mark" PROVE written'[mrows[1]] >= 1
    <3>1. mrows # <<>>
      BY <1>1, <1>12, <2>3 DEF Control
    <3>2. mrows[1] \in Rows /\ mrows[1] \in Nat /\ mrows[1] # 0
      BY <1>7, <3>1, BatchTyped DEF EgressInv, Rows
    <3>3. CASE t = "monitor"
      BY <1>3, <1>4, <1>5, <1>6, <1>9, <1>10, <2>3, <3>2, <3>3
    <3>4. CASE t # "monitor"
      BY <1>9, <1>10, <2>3, <3>2, <3>4 DEF EgressInv, MarkedWasWritten, Thread
    <3>5. QED
      BY <3>3, <3>4
  <2>4. QED
    BY <1>1, <2>1, <2>2, <2>3 DEF MarkedWasWritten
<1>15. Budget'
  <2>1. ASSUME NEW i \in 1 .. Len(rows) PROVE written'[i] + Owed(i)' <= written[i] + Owed(i)
    <3>1. i \in Rows /\ written[i] \in Nat /\ written'[i] \in Nat
      BY <1>9, BatchTyped DEF EgressInv
    <3>2. CASE t = "worker"
      <4>1. ~WorkerOwes(i)' /\ (MonitorOwes(i)' <=> MonitorOwes(i))
        BY <1>1, <1>3, <1>4, <1>5, <1>6, <1>10, <3>2 DEF WorkerOwes, MonitorOwes, InBatch,
           Thread
      <4>2. WorkerOwes(i) <=> p.row = i
        BY <1>1, <1>3, <1>4, <1>5, <1>6, <3>2 DEF WorkerOwes
      <4>3. QED
        BY SMTT(30), <1>9, <3>1, <4>1, <4>2 DEF Owed
    <3>3. CASE t = "monitor" /\ job[t] = "replay"
      <4>1. WorkerOwes(i)' <=> WorkerOwes(i)
        BY <1>1, <1>10, <3>3 DEF WorkerOwes, Thread
      <4>2. MonitorOwes(i)' => MonitorOwes(i)
        BY <1>1, <1>10, <3>3 DEF MonitorOwes, InBatch
      <4>3. p.row = i => MonitorOwes(i) /\ ~MonitorOwes(i)'
        BY <1>1, <1>3, <1>4, <1>5, <1>6, <1>7, <1>10, <3>3 DEF MonitorOwes, InBatch
      <4>4. CASE p.row = i
        BY <1>9, <3>1, <4>1, <4>3, <4>4 DEF Owed
      <4>5. CASE p.row # i
        BY SMTT(30), <1>9, <3>1, <4>1, <4>2, <4>5 DEF Owed
      <4>6. QED
        BY <4>4, <4>5
    <3>4. CASE t = "monitor" /\ job[t] # "replay"
      <4>1. p.row # i /\ pc["monitor"] # "mark" /\ pc'["monitor"] # "mark"
        BY <1>1, <1>3, <1>4, <1>5, <1>6, <1>10, <3>4 DEF NoPoint
      <4>2. (WorkerOwes(i)' <=> WorkerOwes(i)) /\ (MonitorOwes(i)' <=> MonitorOwes(i))
        BY <1>1, <1>10, <3>4, <4>1 DEF WorkerOwes, MonitorOwes, InBatch, Thread
      <4>3. QED
        BY <1>9, <3>1, <4>1, <4>2 DEF Owed
    <3>5. QED
      BY <3>2, <3>3, <3>4 DEF Thread
  <2>2. ASSUME NEW i \in Len(rows) + 1 .. MaxRows PROVE written'[i] = 0
    BY <1>8, <1>9 DEF EgressInv, Budget, Rows
  <2>3. ASSUME NEW i \in 1 .. Len(rows) PROVE written'[i] \in Nat /\ written[i] \in Nat /\ Owed(i) \in Nat /\ Owed(i)' \in Nat
    BY <1>9, BatchTyped DEF Owed, EgressInv
  <2>4. ASSUME NEW i \in 1 .. Len(rows) PROVE written'[i] + Owed(i)' <= 2 + markFailures + crashes
    <3>1. written[i] + Owed(i) <= 2 + markFailures + crashes /\ markFailures \in Nat /\ crashes \in Nat
      BY DEF EgressInv, Typed, Budget
    <3>2. QED
      BY SMTT(30), <2>1, <2>3, <3>1
  <2>5. QED
    BY <1>1, <2>2, <2>4 DEF Budget
<1>16. QED
  BY <1>11, <1>12, <1>13, <1>14, <1>15 DEF EgressInv

LEMMA WorkerMarkMoves ==
    ASSUME EgressInv, WorkerMark
    PROVE  EgressInv'
<1> USE BoundsAssumption
<1> DEFINE i == wpoint.row
<1>1. /\ pc["worker"] = "mark" /\ Mark(i) /\ pc' = [pc EXCEPT !["worker"] = "idle"]
      /\ UNCHANGED <<crashes, broker, session, lock, job, taken, wpoint, mrows, cursor, written, received>>
  BY DEF WorkerMark, Goto, world, workerVars, monitorVars, history
<1>2. i \in 1 .. Len(rows) /\ i \in Rows /\ written[i] >= 1
  <2>1. i # 0 /\ i \in 0 .. MaxRows /\ i <= Len(rows) /\ Len(rows) \in Nat
    BY <1>1, BatchTyped DEF EgressInv, Control, Typed
  <2>2. QED
    BY <1>1, <2>1 DEF EgressInv, MarkedWasWritten, Rows
<1>3. /\ rows' \in Seq(Row) /\ Len(rows') = Len(rows) /\ markFailures' \in Nat
      /\ \A j \in 1 .. Len(rows) : j # i => rows'[j] = rows[j]
      /\ \/ rows'[i].uploaded /\ markFailures' = markFailures
         \/ rows'[i] = rows[i] /\ markFailures' = markFailures + 1
  BY <1>1, <1>2, MarkRow DEF EgressInv
<1> HIDE DEF i
<1>4. pc'["worker"] = "idle" /\ pc'["monitor"] = pc["monitor"]
  BY <1>1 DEF EgressInv, Typed, TypeOK, Thread
<1>5. Typed'
  BY <1>1, <1>3 DEF EgressInv, Typed, TypeOK, Row, Thread
<1>6. Control'
  BY <1>1, <1>4 DEF EgressInv, Control
<1>7. Selected' /\ NothingSkipped'
  BY <1>1, <1>3, <1>4 DEF EgressInv, Selected, NothingSkipped, InBatch
<1>8. MarkedWasWritten'
  <2>1. DOMAIN rows = 1 .. Len(rows) /\ DOMAIN rows' = 1 .. Len(rows)
    BY <1>3 DEF EgressInv, Typed, TypeOK
  <2>2. UploadedWasWritten'
    BY <1>1, <1>2, <1>3, <2>1 DEF EgressInv, MarkedWasWritten, UploadedWasWritten
  <2>3. QED
    BY <1>1, <1>4, <2>2 DEF EgressInv, MarkedWasWritten
<1>9. Budget'
  <2>1. ASSUME NEW j \in 1 .. Len(rows) PROVE Owed(j)' <= Owed(j) /\ Owed(j) \in Nat /\ Owed(j)' \in Nat
    <3>1. ~WorkerOwes(j)'
      BY <1>4 DEF WorkerOwes
    <3>2. MonitorOwes(j)' => MonitorOwes(j)
      BY <1>1, <1>3, <1>4 DEF MonitorOwes, InBatch
    <3>3. QED
      BY <3>1, <3>2 DEF Owed
  <2>2. ASSUME NEW j \in 1 .. Len(rows) PROVE written[j] + Owed(j)' <= 2 + markFailures' + crashes
    <3>1. /\ written[j] + Owed(j) <= 2 + markFailures + crashes
          /\ markFailures \in Nat /\ crashes \in Nat /\ written[j] \in Nat
      BY BatchTyped DEF EgressInv, Typed, Budget
    <3>2. markFailures' \in {markFailures, markFailures + 1}
      BY <1>3
    <3>3. QED
      BY SMTT(30), <2>1, <3>1, <3>2
  <2>3. QED
    BY <1>1, <1>3, <2>2 DEF EgressInv, Budget
<1>10. QED
  BY <1>5, <1>6, <1>7, <1>8, <1>9 DEF EgressInv

LEMMA ReplayMarkMoves ==
    ASSUME EgressInv, ReplayMark
    PROVE  EgressInv'
<1> USE BoundsAssumption
<1> DEFINE m == Len(mrows)
           label == IF mrows' = <<>> THEN "unlock" ELSE "send"
<1>1. PICK i : i = mrows[1]
  OBVIOUS
<1>2. mrows # <<>> /\ Head(mrows) = i /\ job["monitor"] = "replay"
  BY <1>1 DEF ReplayMark, EgressInv, Control, Typed, TypeOK
<1>3. /\ pc["monitor"] = "mark" /\ Mark(i) /\ mrows' = Tail(mrows) /\ pc' = [pc EXCEPT !["monitor"] = label]
      /\ UNCHANGED <<crashes, broker, session, lock, job, taken, wpoint, cursor, written, received>>
  BY <1>2 DEF ReplayMark, Goto, world, workerVars, history
<1>4. /\ m \in Nat /\ m >= 1 /\ mrows' \in Seq(Rows) /\ Len(mrows') = m - 1
      /\ \A k \in 1 .. m - 1 : mrows'[k] = mrows[k + 1]
  BY SMTT(30), <1>2, <1>3 DEF EgressInv, Typed, TypeOK
<1>5. i \in 1 .. Len(rows) /\ i \in Rows /\ i \in Nat /\ Len(rows) \in Nat /\ written[i] >= 1
  BY <1>1, <1>3, <1>4, BatchTyped DEF EgressInv, Selected, MarkedWasWritten, Rows
<1>6. /\ rows' \in Seq(Row) /\ Len(rows') = Len(rows) /\ markFailures' \in Nat
      /\ \A j \in 1 .. Len(rows) : j # i => rows'[j] = rows[j]
      /\ \/ rows'[i].uploaded /\ markFailures' = markFailures
         \/ rows'[i] = rows[i] /\ markFailures' = markFailures + 1
  BY <1>3, <1>5, MarkRow DEF EgressInv
<1>7. ASSUME NEW j PROVE InBatch(j) <=> j = i \/ InBatch(j)'
  <2>1. ASSUME NEW k \in 1 .. m PROVE k = 1 \/ (k - 1 \in 1 .. m - 1 /\ mrows'[k - 1] = mrows[k])
    BY <1>4
  <2>2. ASSUME NEW k \in 1 .. m - 1 PROVE k + 1 \in 1 .. m
    BY <1>4
  <2>3. 1 \in 1 .. m
    BY <1>4
  <2>4. QED
    BY <1>1, <1>4, <2>1, <2>2, <2>3 DEF InBatch
<1>8. ASSUME NEW k \in 1 .. m - 1 PROVE k + 1 \in 1 .. m /\ mrows'[k] = mrows[k + 1] /\ i < mrows'[k]
  BY <1>1, <1>4 DEF EgressInv, Selected
<1> HIDE DEF m
<1>9. /\ pc'["monitor"] \in {"unlock", "send"} /\ (pc'["monitor"] = "send" => mrows' # <<>>)
      /\ pc'["worker"] = pc["worker"]
  BY <1>3 DEF EgressInv, Typed, TypeOK, Thread
<1>10. Typed'
  <2>1. TypeOK'
    BY <1>3, <1>4, <1>6 DEF EgressInv, Typed, TypeOK, Row, Thread, m
  <2>2. QED
    BY <1>3, <1>6, <2>1 DEF EgressInv, Typed
<1>11. Control'
  BY <1>2, <1>3, <1>9 DEF EgressInv, Control
<1>12. Selected'
  <2>1. \A k \in 1 .. m - 1 : mrows'[k] <= Len(rows)
    BY <1>8 DEF EgressInv, Selected, m
  <2>2. ASSUME NEW k \in 1 .. m - 1, NEW l \in 1 .. m - 1, k < l PROVE mrows'[k] < mrows'[l]
    BY <1>8, <2>2 DEF EgressInv, Selected, m
  <2>3. QED
    BY <1>4, <1>6, <1>9, <2>1, <2>2 DEF Selected
<1>13. NothingSkipped'
  <2>1. ASSUME NEW k \in 1 .. m - 1, NEW j \in 1 .. mrows'[k] - 1 PROVE written[j] >= 1 \/ InBatch(j)'
    <3>1. written[j] >= 1 \/ InBatch(j)
      BY <1>8, <2>1 DEF EgressInv, NothingSkipped, m
    <3>2. QED
      BY <1>5, <1>7, <3>1
  <2>2. QED
    BY <1>3, <1>4, <1>9, <2>1 DEF NothingSkipped
<1>14. MarkedWasWritten'
  <2>1. DOMAIN rows = 1 .. Len(rows) /\ DOMAIN rows' = 1 .. Len(rows)
    BY <1>6 DEF EgressInv, Typed, TypeOK
  <2>2. UploadedWasWritten'
    BY <1>3, <1>5, <1>6, <2>1 DEF EgressInv, MarkedWasWritten, UploadedWasWritten
  <2>3. QED
    BY <1>3, <1>9, <2>2 DEF EgressInv, MarkedWasWritten
<1>15. Budget'
  <2>1. ~InBatch(i)'
    <3>1. ASSUME NEW k \in 1 .. m - 1 PROVE mrows'[k] # i
      <4>1. i < mrows'[k] /\ i \in Nat
        BY <1>5, <1>8
      <4>2. QED
        BY <4>1
    <3>2. QED
      BY <1>4, <3>1 DEF InBatch
  <2>2. ASSUME NEW j \in 1 .. Len(rows)
        PROVE  Owed(j)' + markFailures <= Owed(j) + markFailures' /\ Owed(j) \in Nat /\ Owed(j)' \in Nat
    <3>1. WorkerOwes(j)' <=> WorkerOwes(j)
      BY <1>3, <1>9 DEF WorkerOwes
    <3>2. CASE j = i
      <4>1. ~MonitorOwes(j)
        BY <1>1, <1>3, <3>2 DEF MonitorOwes
      <4>2. MonitorOwes(j)' => markFailures' = markFailures + 1
        BY <1>6, <2>1, <3>2 DEF MonitorOwes
      <4>3. markFailures \in Nat /\ markFailures' \in {markFailures, markFailures + 1}
        BY <1>6 DEF EgressInv, Typed
      <4>4. CASE MonitorOwes(j)'
        <5>1. Owed(j)' = Owed(j) + 1 /\ Owed(j) \in Nat
          BY <3>1, <4>1, <4>4 DEF Owed
        <5>2. QED
          BY <4>2, <4>3, <4>4, <5>1
      <4>5. CASE ~MonitorOwes(j)'
        <5>1. Owed(j)' = Owed(j) /\ Owed(j) \in Nat
          BY <3>1, <4>1, <4>5 DEF Owed
        <5>2. QED
          BY <4>3, <5>1
      <4>6. QED
        BY <4>4, <4>5
    <3>3. CASE j # i
      <4>1. MonitorOwes(j)' => MonitorOwes(j)
        BY <1>1, <1>3, <1>6, <1>7, <3>3 DEF MonitorOwes
      <4>2. markFailures \in Nat /\ markFailures' \in {markFailures, markFailures + 1}
        BY <1>6 DEF EgressInv, Typed
      <4>3. Owed(j)' <= Owed(j) /\ Owed(j) \in Nat /\ Owed(j)' \in Nat
        BY <3>1, <4>1 DEF Owed
      <4>4. QED
        BY <4>2, <4>3
    <3>4. QED
      BY <3>2, <3>3
  <2>3. ASSUME NEW j \in 1 .. Len(rows) PROVE written[j] + Owed(j)' <= 2 + markFailures' + crashes
    <3>1. /\ written[j] + Owed(j) <= 2 + markFailures + crashes
          /\ markFailures \in Nat /\ crashes \in Nat /\ written[j] \in Nat
      BY BatchTyped DEF EgressInv, Typed, Budget
    <3>2. Owed(j)' + markFailures <= Owed(j) + markFailures' /\ Owed(j) \in Nat /\ Owed(j)' \in Nat
      BY <2>2
    <3>3. ASSUME NEW w \in Nat, NEW o1 \in Nat, NEW o2 \in Nat, NEW f1 \in Nat, NEW f2 \in Nat, NEW c \in Nat,
                 w + o1 <= 2 + f1 + c, o2 + f1 <= o1 + f2
          PROVE  w + o2 <= 2 + f2 + c
      BY <3>3
    <3>4. QED
      BY <1>6, <3>1, <3>2, <3>3
  <2>4. QED
    BY <1>3, <1>6, <2>3 DEF EgressInv, Budget
<1>16. QED
  BY <1>10, <1>11, <1>12, <1>13, <1>14, <1>15 DEF EgressInv

(* A crash costs a row at most one more write: whoever was going to write  *)
(* it is gone, and the replay after the restart may send it again.         *)
LEMMA RestartMoves ==
    ASSUME EgressInv, Restart
    PROVE  EgressInv'
<1> USE BoundsAssumption
<1>1. /\ session' = "none" /\ lock' = "none" /\ pc' = [t \in Thread |-> "idle"]
      /\ job' = [t \in Thread |-> "none"] /\ wpoint' = [row |-> 0, quality |-> "good"]
      /\ mrows' = <<>> /\ cursor' = [n |-> 0, last |-> 0] /\ crashes' = crashes + 1
      /\ UNCHANGED <<rows, markFailures, broker, taken, written, received>>
  BY DEF Restart, NoPoint, CursorStart, db, history
<1>2. pc'["worker"] = "idle" /\ pc'["monitor"] = "idle"
  BY <1>1 DEF Thread
<1>3. Typed'
  BY <1>1 DEF EgressInv, Typed, TypeOK, Thread, Quality
<1>4. Control'
  BY <1>1, <1>2 DEF Control, Thread
<1>5. Selected' /\ NothingSkipped'
  BY <1>1, <1>2 DEF Selected, NothingSkipped
<1>6. MarkedWasWritten'
  BY <1>1, <1>2 DEF EgressInv, MarkedWasWritten, UploadedWasWritten
<1>7. Budget'
  <2>1. ASSUME NEW i \in 1 .. Len(rows) PROVE Owed(i)' <= Owed(i) + 1 /\ Owed(i) \in Nat /\ Owed(i)' \in Nat
    <3>1. ~WorkerOwes(i)'
      BY <1>2 DEF WorkerOwes
    <3>2. QED
      BY <3>1 DEF Owed
  <2>2. ASSUME NEW i \in 1 .. Len(rows) PROVE written[i] + Owed(i)' <= 2 + markFailures + (crashes + 1)
    <3>1. /\ written[i] + Owed(i) <= 2 + markFailures + crashes
          /\ markFailures \in Nat /\ crashes \in Nat /\ written[i] \in Nat
      BY BatchTyped DEF EgressInv, Typed, Budget
    <3>2. QED
      BY <2>1, <3>1
  <2>3. QED
    BY <1>1, <2>2 DEF EgressInv, Budget
<1>8. QED
  BY <1>3, <1>4, <1>5, <1>6, <1>7 DEF EgressInv

LEMMA EgressNext == EgressInv /\ [Next]_vars => EgressInv'
<1> SUFFICES ASSUME EgressInv, [Next]_vars PROVE EgressInv'
  OBVIOUS
<1>1. CASE UNCHANGED vars
  BY <1>1 DEF vars, EgressInv, Typed, TypeOK, Control, Selected, NothingSkipped, InBatch,
     MarkedWasWritten,
     UploadedWasWritten, Budget, Owed, WorkerOwes, MonitorOwes
<1>2. CASE AppendTelemetry
  BY <1>2, AppendMoves
<1>3. CASE MonitorStep
  <2>1. "worker" \in Thread
    BY DEF Thread
  <2>2. QED
    BY <1>3, <2>1, BatchMoves, FetchMoves, ControlMoves, ReplayMarkMoves DEF MonitorStep
<1>4. CASE WorkerMark
  BY <1>4, WorkerMarkMoves
<1>5. ASSUME NEW t \in Thread, Acquire(t) \/ Step(t) PROVE EgressInv'
  BY <1>5, ControlMoves, SendMoves DEF Step
<1>6. CASE BrokerFails \/ BrokerRecovers
  <2>1. "worker" \in Thread
    BY DEF Thread
  <2>2. QED
    BY <1>6, <2>1, ControlMoves
<1>7. CASE Crash \/ SigpipeKills
  BY <1>7, RestartMoves DEF Crash, SigpipeKills
<1>8. QED
  BY <1>1, <1>2, <1>3, <1>4, <1>5, <1>6, <1>7 DEF Next

LEMMA EgressSpec == Spec => []EgressInv
BY EgressInit, EgressNext, PTL DEF Spec

-----------------------------------------------------------------------------
(* The table never outgrows what the worker has taken, and the replay's    *)
(* array never holds more than the batch (mqtt_session.c:305).             *)
THEOREM TypeCorrect == Spec => []TypeOK
BY EgressSpec, PTL DEF EgressInv, Typed

(* No error path, race or crash marks a row that nobody has sent: what the *)
(* UPDATE of storage.c marks was written whole to some connection.         *)
THEOREM OnlyWrittenIsMarked == Spec => []UploadedWasWritten
BY EgressSpec, PTL DEF EgressInv, MarkedWasWritten

(* Replay sends the rows in the order of the table, although the SELECT    *)
(* shares its connection with the worker's INSERT and UPDATE.              *)
THEOREM ReplayNeverOvertakes == Spec => []ReplayInOrder
<1>1. EgressInv => ReplayInOrder
  <2> SUFFICES ASSUME EgressInv, pc["monitor"] = "send", job["monitor"] = "replay",
                      NEW j \in 1 .. Head(mrows) - 1
               PROVE  written[j] >= 1
    BY DEF ReplayInOrder
  <2>1. mrows # <<>> /\ Head(mrows) = mrows[1]
    BY DEF EgressInv, Control, Typed, TypeOK
  <2>2. 1 \in 1 .. Len(mrows) /\ mrows[1] \in Nat
    BY <2>1, BatchTyped DEF EgressInv, Typed, TypeOK
  <2>3. ~InBatch(j)
    <3>1. ASSUME NEW k \in 1 .. Len(mrows) PROVE mrows[1] <= mrows[k]
      <4>1. k = 1 \/ 1 < k
        OBVIOUS
      <4>2. QED
        BY <2>2, <4>1, BatchTyped DEF EgressInv, Selected
    <3>2. QED
      BY <2>1, <2>2, <3>1, BatchTyped DEF EgressInv, InBatch
  <2>4. QED
    BY <2>1, <2>2, <2>3 DEF EgressInv, NothingSkipped
<1>2. QED
  BY <1>1, EgressSpec, PTL

(* A row is sent at most twice, once live and once by a replay, plus once  *)
(* for every failed UPDATE and every crash.                                *)
THEOREM DuplicatesAreBounded == Spec => []DuplicatesBounded
<1>1. EgressInv => DuplicatesBounded
  <2> SUFFICES ASSUME EgressInv, NEW i \in Rows
               PROVE  written[i] <= 2 + markFailures + crashes
    BY DEF DuplicatesBounded
  <2>1. written[i] \in Nat /\ Owed(i) \in Nat /\ markFailures \in Nat /\ crashes \in Nat
    BY DEF EgressInv, Typed, Owed
  <2>2. CASE i \in 1 .. Len(rows)
    BY <2>1, <2>2 DEF EgressInv, Budget
  <2>3. CASE i \in Len(rows) + 1 .. MaxRows
    BY <2>1, <2>3 DEF EgressInv, Budget
  <2>4. QED
    BY <2>2, <2>3, BatchTyped, BoundsAssumption DEF EgressInv, Rows
<1>2. QED
  BY <1>1, EgressSpec, PTL
=============================================================================
