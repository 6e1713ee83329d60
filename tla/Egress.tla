------------------------------- MODULE Egress -------------------------------
(***************************************************************************)
(* From a processed point to the broker: the worker stores a telemetry row *)
(* and publishes it live (runtime/app.c:86-125), the monitor replays rows  *)
(* that are not marked uploaded (egress/mqtt_session.c:286-336), and both  *)
(* mark what they have written (platform/storage.c).  MqttSession shows    *)
(* that a packet is written whole under the session's lock, so here it is  *)
(* one step.  The broker fails and recovers, a connection can be dead      *)
(* before anyone notices, statements fail, the process crashes.            *)
(***************************************************************************)
EXTENDS Integers, Sequences

CONSTANTS MaxRows,             \* bound: points the worker takes
          Batch,               \* rows per replay round (mqtt_replay_batch, 1 .. 64)
          MaxOutages,          \* bound: failures of the broker
          MaxCrashes,          \* bound: crashes of the process
          MaxDbFailures,       \* bound: failed INSERT, SELECT and, counted apart, UPDATE
          PointQuality,        \* qualities that the quality rule leaves points with
          MayHang,             \* can the broker accept connections and not answer?
          SigpipeIgnored       \* does whoever starts the gateway ignore SIGPIPE?

ASSUME BoundsAssumption ==
    /\ {MaxRows, Batch} \subseteq Nat \ {0}
    /\ {MaxOutages, MaxCrashes, MaxDbFailures} \subseteq Nat
    /\ PointQuality \subseteq {"good", "bad"}
    /\ MayHang \in BOOLEAN /\ SigpipeIgnored \in BOOLEAN

VARIABLES
    rows,          \* the telemetry table; the row id is the index
    broker,        \* "up", "down" or "hung"
    session,       \* the connection: "none", "live", or "dead" and not noticed yet
    lock,          \* session->lock: its owner, or "none"
    pc, job,       \* per thread: where it is, and which call it is in
    taken,         \* points the worker has taken from the ring
    wpoint,        \* the worker's point: its row id (0: the insert failed) and quality
    mrows,         \* ids the monitor has fetched and not yet replayed
    cursor,        \* the monitor's SELECT: how many rows it has, and the last id
    written,       \* history: written[i] counts complete writes of row i
    received,      \* history: received[i] is the set of qualities the broker got for row i
    outages, crashes, dbFailures, markFailures

vars == <<rows, broker, session, lock, pc, job, taken, wpoint, mrows, cursor,
          written, received, outages, crashes, dbFailures, markFailures>>

Thread == {"worker", "monitor"}
Quality == {"good", "bad"}
Rows == 1 .. MaxRows
NoPoint == [row |-> 0, quality |-> "good"]
CursorStart == [n |-> 0, last |-> 0]

Init ==
    /\ rows = <<>>
    /\ broker = "up" /\ session = "none" /\ lock = "none"
    /\ pc = [t \in Thread |-> "idle"] /\ job = [t \in Thread |-> "none"]
    /\ taken = 0 /\ wpoint = NoPoint
    /\ mrows = <<>> /\ cursor = CursorStart
    /\ written = [i \in Rows |-> 0] /\ received = [i \in Rows |-> {}]
    /\ outages = 0 /\ crashes = 0 /\ dbFailures = 0 /\ markFailures = 0

Goto(t, label) == pc' = [pc EXCEPT ![t] = label]
Call(t, kind) ==
    /\ Goto(t, "lock")
    /\ job' = [job EXCEPT ![t] = kind]
DbFails ==
    /\ dbFailures < MaxDbFailures
    /\ dbFailures' = dbFailures + 1

db == <<rows, dbFailures, markFailures>>
world == <<broker, outages, crashes>>
history == <<written, received>>
workerVars == <<taken, wpoint>>
monitorVars == <<mrows, cursor>>

-----------------------------------------------------------------------------
(* The worker: storage_append_telemetry, then mqtt_session_publish_telemetry. *)
AppendTelemetry ==
    /\ pc["worker"] = "idle" /\ taken < MaxRows
    /\ taken' = taken + 1
    /\ \E quality \in PointQuality :
          \/ /\ rows' = Append(rows, [quality |-> quality, uploaded |-> FALSE])
             /\ wpoint' = [row |-> Len(rows) + 1, quality |-> quality]
             /\ UNCHANGED dbFailures
          \/ /\ DbFails
             /\ wpoint' = [row |-> 0, quality |-> quality]
             /\ UNCHANGED rows
    /\ Call("worker", "telemetry")
    /\ UNCHANGED <<markFailures, world, session, lock, monitorVars, history>>

(* Mutant: the rows a failed replay left over are not forgotten. *)
BeginRoundLeftover ==
    /\ pc["monitor"] = "idle" /\ job["monitor"] \in {"none", "heartbeat"}
    /\ Goto("monitor", "fetch")
    /\ cursor' = CursorStart
    /\ UNCHANGED <<world, db, session, lock, job, workerVars, mrows, history>>

(* The monitor's round: fetch and replay, ping, heartbeat.                 *)
BeginRound ==
    /\ pc["monitor"] = "idle" /\ job["monitor"] \in {"none", "heartbeat"}
    /\ Goto("monitor", "fetch")
    /\ mrows' = <<>> /\ cursor' = CursorStart
    /\ UNCHANGED <<world, db, session, lock, job, workerVars, history>>

Pending(i) == ~rows[i].uploaded

Fetch(i) ==
    /\ mrows' = Append(mrows, i)
    /\ cursor' = [n |-> cursor.n + 1, last |-> i]
    /\ UNCHANGED <<world, db, session, lock, pc, job, workerVars, history>>

(* Mutant: no ORDER BY. *)
FetchUnordered ==
    /\ pc["monitor"] = "fetch" /\ cursor.n < Batch
    /\ \E i \in DOMAIN rows : i > cursor.last /\ Pending(i) /\ Fetch(i)

(* One sqlite3_step of storage_fetch_pending_telemetry.  The statement is  *)
(* not atomic: the worker shares the connection and may insert and mark    *)
(* rows between two steps, outside the session's lock.                     *)
FetchStep ==
    /\ pc["monitor"] = "fetch" /\ cursor.n < Batch
    /\ \E i \in DOMAIN rows :
          /\ i > cursor.last /\ Pending(i)
          /\ \A j \in cursor.last + 1 .. i - 1 : ~Pending(j)
          /\ Fetch(i)

FetchDone ==
    /\ pc["monitor"] = "fetch"
    /\ \/ cursor.n = Batch
       \/ \A i \in cursor.last + 1 .. Len(rows) : ~Pending(i)
    /\ Call("monitor", "replay")
    /\ UNCHANGED <<world, db, session, lock, workerVars, monitorVars, history>>

(* The statement cannot be prepared: no replay in this round.  An error in *)
(* a step ends the scan with the rows it has.                              *)
FetchFails ==
    /\ pc["monitor"] = "fetch"
    /\ DbFails
    /\ \/ cursor.n = 0 /\ Goto("monitor", "idle") /\ job' = [job EXCEPT !["monitor"] = "replay"]
       \/ Call("monitor", "replay")
    /\ UNCHANGED <<rows, markFailures, world, session, lock, workerVars, monitorVars, history>>

Ping ==
    /\ pc["monitor"] = "idle" /\ job["monitor"] = "replay"
    /\ Call("monitor", "ping")
    /\ UNCHANGED <<world, db, session, lock, workerVars, monitorVars, history>>

PublishHeartbeat ==
    /\ pc["monitor"] = "idle" /\ job["monitor"] = "ping"
    /\ Call("monitor", "heartbeat")
    /\ UNCHANGED <<world, db, session, lock, workerVars, monitorVars, history>>

-----------------------------------------------------------------------------
(* Inside a call to the session. *)

(* Where a call goes once it has a connection. *)
FirstSend(t) == IF job[t] = "replay" /\ mrows = <<>> THEN "unlock" ELSE "send"

Acquire(t) ==
    /\ pc[t] = "lock" /\ lock = "none"
    /\ lock' = t
    /\ Goto(t, IF session # "none" THEN FirstSend(t)
               ELSE IF job[t] = "ping" \/ broker = "down" THEN "unlock" ELSE "connack")
    /\ UNCHANGED <<world, db, session, job, workerVars, monitorVars, history>>

(* Mutant: every CONNACK is taken for a refusal. *)
ConnackMisread(t) ==
    /\ pc[t] = "connack" /\ broker # "hung"
    /\ session' = "none" /\ Goto(t, "unlock")
    /\ UNCHANGED <<world, db, lock, job, workerVars, monitorVars, history>>

(* CONNECT was sent; a hung broker never answers and read() waits. *)
Connack(t) ==
    /\ pc[t] = "connack" /\ broker # "hung"
    /\ IF broker = "up"
       THEN session' = "live" /\ Goto(t, FirstSend(t))
       ELSE session' = "none" /\ Goto(t, "unlock")
    /\ UNCHANGED <<world, db, lock, job, workerVars, monitorVars, history>>

(* The row and the quality in the packet thread t is about to send: a      *)
(* replayed row is rebuilt with quality GOOD (storage.c:287).              *)
Packet(t) ==
    CASE job[t] = "telemetry" -> wpoint
      [] job[t] = "replay"    -> [row |-> Head(mrows), quality |-> "good"]
      [] OTHER                -> NoPoint

(* write() took the whole packet: the broker gets it from a live           *)
(* connection, nobody gets it from a dead one.  Replay marks the row while *)
(* it holds the lock, the worker after it has released it.                 *)
Send(t) ==
    /\ pc[t] = "send"
    /\ LET p == Packet(t)
       IN  IF p.row = 0 THEN UNCHANGED history
           ELSE /\ written' = [written EXCEPT ![p.row] = @ + 1]
                /\ received' = IF session = "live"
                               THEN [received EXCEPT ![p.row] = @ \cup {p.quality}]
                               ELSE received
    /\ Goto(t, IF job[t] = "telemetry" THEN "sent" ELSE IF job[t] = "replay" THEN "mark" ELSE "unlock")
    /\ UNCHANGED <<world, db, session, lock, job, workerVars, monitorVars>>

(* Mutant: the result of the publish is ignored. *)
SendFailsUnnoticed(t) ==
    /\ pc[t] = "send" /\ session = "dead"
    /\ session' = "none"
    /\ Goto(t, IF job[t] = "telemetry" THEN "sent" ELSE IF job[t] = "replay" THEN "mark" ELSE "unlock")
    /\ UNCHANGED <<world, db, lock, job, workerVars, monitorVars, history>>

(* write() reports the dead connection: the session is shut down, replay   *)
(* gives up the rest of its batch.                                         *)
SendFails(t) ==
    /\ pc[t] = "send" /\ session = "dead"
    /\ session' = "none"
    /\ Goto(t, "unlock")
    /\ UNCHANGED <<world, db, lock, job, workerVars, monitorVars, history>>

(* storage_mark_telemetry_uploaded *)
Mark(i) ==
    \/ /\ rows' = [rows EXCEPT ![i].uploaded = TRUE]
       /\ UNCHANGED markFailures
    \/ /\ markFailures < MaxDbFailures
       /\ markFailures' = markFailures + 1
       /\ UNCHANGED rows

(* Mutant: a replayed row is not marked. *)
ReplayUnmarked ==
    /\ pc["monitor"] = "mark"
    /\ mrows' = Tail(mrows)
    /\ Goto("monitor", IF mrows' = <<>> THEN "unlock" ELSE "send")
    /\ UNCHANGED <<db, world, session, lock, job, workerVars, cursor, history>>

ReplayMark ==
    /\ pc["monitor"] = "mark"
    /\ Mark(Head(mrows))
    /\ mrows' = Tail(mrows)
    /\ Goto("monitor", IF mrows' = <<>> THEN "unlock" ELSE "send")
    /\ UNCHANGED <<dbFailures, world, session, lock, job, workerVars, cursor, history>>

Unlock(t) ==
    /\ pc[t] \in {"unlock", "sent"}
    /\ lock' = "none"
    /\ Goto(t, IF pc[t] = "sent" /\ wpoint.row # 0 THEN "mark" ELSE "idle")
    /\ UNCHANGED <<world, db, session, job, workerVars, monitorVars, history>>

WorkerMark ==
    /\ pc["worker"] = "mark"
    /\ Mark(wpoint.row)
    /\ Goto("worker", "idle")
    /\ UNCHANGED <<dbFailures, world, session, lock, job, workerVars, monitorVars, history>>

-----------------------------------------------------------------------------
(* The environment. *)
BrokerFails ==
    /\ broker = "up" /\ outages < MaxOutages
    /\ outages' = outages + 1
    /\ broker' \in IF MayHang THEN {"down", "hung"} ELSE {"down"}
    /\ session' = IF session = "live" THEN "dead" ELSE session
    /\ UNCHANGED <<crashes, db, lock, pc, job, workerVars, monitorVars, history>>

BrokerRecovers ==
    /\ broker = "down"
    /\ broker' = "up"
    /\ UNCHANGED <<outages, crashes, db, session, lock, pc, job, workerVars, monitorVars, history>>

Restart ==
    /\ session' = "none" /\ lock' = "none"
    /\ pc' = [t \in Thread |-> "idle"] /\ job' = [t \in Thread |-> "none"]
    /\ wpoint' = NoPoint /\ mrows' = <<>> /\ cursor' = CursorStart
    /\ crashes < MaxCrashes
    /\ crashes' = crashes + 1
    /\ UNCHANGED <<db, broker, outages, taken, history>>

Crash == Restart

(* Nothing in the code ignores SIGPIPE: writing to a connection that the   *)
(* peer has reset ends the process.                                        *)
SigpipeKills ==
    /\ ~SigpipeIgnored
    /\ \E t \in Thread : pc[t] = "send" /\ session = "dead"
    /\ Restart

Step(t) == Connack(t) \/ Send(t) \/ SendFails(t) \/ Unlock(t)
MonitorStep == BeginRound \/ FetchStep \/ FetchDone \/ FetchFails
               \/ Ping \/ PublishHeartbeat \/ ReplayMark

Next ==
    \/ AppendTelemetry
    \/ MonitorStep
    \/ WorkerMark
    \/ \E t \in Thread : Acquire(t) \/ Step(t)
    \/ BrokerFails \/ BrokerRecovers
    \/ Crash \/ SigpipeKills

Spec == Init /\ [][Next]_vars

(* Points keep coming, the monitor's timer keeps firing, both threads go   *)
(* on inside their calls, and a thread that waits for the mutex gets it,   *)
(* since the other one sleeps or works elsewhere in between.  A broker     *)
(* that is down comes back; one that hangs stays as it is.                 *)
Fairness ==
    /\ WF_vars(AppendTelemetry) /\ WF_vars(MonitorStep) /\ WF_vars(WorkerMark)
    /\ \A t \in Thread : WF_vars(Step(t)) /\ SF_vars(Acquire(t))
    /\ WF_vars(BrokerRecovers)

FairSpec == Spec /\ Fairness

-----------------------------------------------------------------------------
(* Types of the table and of the threads' state. *)
TypeOK ==
    /\ rows \in Seq([quality : Quality, uploaded : BOOLEAN]) /\ Len(rows) <= taken
    /\ broker \in {"up", "down", "hung"} /\ session \in {"none", "live", "dead"}
    /\ lock \in Thread \cup {"none"}
    /\ pc \in [Thread -> {"idle", "fetch", "lock", "connack", "send", "sent", "mark", "unlock"}]
    /\ mrows \in Seq(Rows) /\ Len(mrows) <= Batch
    /\ received \in [Rows -> SUBSET Quality]

(* A row is marked uploaded only after its packet was written completely:  *)
(* no error path, race or crash marks a row nobody has sent.               *)
UploadedWasWritten == \A i \in DOMAIN rows : rows[i].uploaded => written[i] >= 1

(* Replay never overtakes: when the monitor is about to send a row, every  *)
(* older row has been written at least once, although the worker inserts   *)
(* and marks rows while the SELECT runs (storage.c:279-289).               *)
ReplayInOrder ==
    pc["monitor"] = "send" /\ job["monitor"] = "replay" =>
        \A j \in 1 .. Head(mrows) - 1 : written[j] >= 1

(* A row is sent at most twice, live and by a replay that fetched it       *)
(* before it was marked; only a failed UPDATE or a crash between write and *)
(* mark adds another time.                                                 *)
DuplicatesBounded == \A i \in Rows : written[i] <= 2 + markFailures + crashes

(* Every stored row ends up marked, through outages, failed statements and *)
(* crashes, unless the broker accepts connections and never answers: then  *)
(* the threads wait for ever and only the watchdog helps (Supervision).    *)
PendingDrains ==
    \A i \in Rows : i \in DOMAIN rows ~>
        broker = "hung" \/ (i \in DOMAIN rows /\ rows[i].uploaded)

-----------------------------------------------------------------------------
(* What the code does not keep: the broker is told the quality that the    *)
(* rules gave the point (a replayed row is GOOD, storage.c:287).           *)
QualityPreserved == \A i \in DOMAIN rows : received[i] \subseteq {rows[i].quality}
=============================================================================
