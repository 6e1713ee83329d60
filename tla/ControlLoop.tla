---------------------------- MODULE ControlLoop ----------------------------
(***************************************************************************)
(* The control path of the running gateway (src/src/runtime/app.c): the    *)
(* ingress thread polls the Modbus adapter and pushes the three points of  *)
(* a poll one by one; the worker pops a point, applies the quality rule,   *)
(* runs the state engine, stores the alarm or submits the command and      *)
(* ticks the scheduler, and publishes the point, which may never return.   *)
(* It composes LossyFifo (which SpscRing implements), StateEngine and      *)
(* CommandScheduler, and adds crash and restart: tables survive, memory    *)
(* does not.                                                               *)
(***************************************************************************)
EXTENDS Integers, Sequences

CONSTANTS TempHigh, MinDischargeSoc, PeakShavingThreshold, MaxDischarge, InitialSoc,
          SocReading, TempReading, GridReading,   \* what the three registers can hold
          Cap,                                    \* capacity of the ring: queue_size - 1
          QueueMax,                               \* COMMAND_QUEUE_MAX
          MaxPolls, MaxBoots, MaxStoreFailures    \* bounds of the exploration

ASSUME BoundsAssumption ==
    {Cap, QueueMax, MaxPolls, MaxBoots} \subseteq Nat \ {0} /\ MaxStoreFailures \in Nat
ASSUME ConfigAssumption ==
    /\ {TempHigh, MinDischargeSoc, PeakShavingThreshold, MaxDischarge, InitialSoc} \subseteq Int
    /\ SocReading \cup TempReading \cup GridReading \subseteq Int

VARIABLES
    fifo, dropped, point,                        \* the ring; the worker's current point
    batch, polls,                                \* points still to push; polls answered
    state, soc, temp, grid, nextAlarmId, alarm, command,   \* StateEngine
    queue, nextCommandId, pending, written, log, \* CommandScheduler
    wpc,                                         \* where the worker is in its loop
    alarms,                                      \* rows of the alarms table
    boot, storeFailures,                         \* restarts and failed inserts so far
    lost,                                        \* history: the alarms that were not stored
    seen                                         \* history: the last point of each id processed

ringVars == <<fifo, dropped, point>>
ingressVars == <<batch, polls>>
engineVars == <<state, soc, temp, grid, nextAlarmId, alarm, command>>
schedulerVars == <<queue, nextCommandId, pending, written, log>>
worldVars == <<alarms, boot, storeFailures, lost>>
vars == <<ringVars, ingressVars, engineVars, schedulerVars, wpc, worldVars, seen>>

Timestamp == 0 .. MaxPolls
MaxId == 3 * MaxPolls + 1      \* no id and no counter gets past one per point
MaxAlarmId == MaxId

Engine == INSTANCE StateEngine
    WITH WantAlarm <- TRUE, WantCommand <- TRUE,
         Reading <- SocReading \cup TempReading \cup GridReading
Scheduler == INSTANCE CommandScheduler
Ring == INSTANCE LossyFifo
    WITH Value <- Engine!Telemetry, CounterMod <- MaxId, q <- fifo, out <- point

(* telemetry_init: every point leaves the adapter with quality GOOD. *)
TelemetryInit(id, value, ts) == [point_id |-> id, value |-> value, quality |-> "good", ts |-> ts]

NoPoint == TelemetryInit("soc_percent", InitialSoc, 0)
NothingSeen == [id \in Engine!PointId |-> TelemetryInit(id, 0, 0)]

Init ==
    /\ fifo = <<>> /\ dropped = 0 /\ point = NoPoint
    /\ batch = <<>> /\ polls = 0
    /\ Engine!EngineInit
    /\ Scheduler!SchedulerInit
    /\ wpc = "pop"
    /\ alarms = <<>> /\ boot = 1 /\ storeFailures = 0 /\ lost = {}
    /\ seen = NothingSeen

-----------------------------------------------------------------------------
(* The three points of modbus_poll_simulate / map_registers_to_telemetry.  *)
Batch(s, t, g, ts) ==
    <<TelemetryInit("soc_percent", s, ts),
      TelemetryInit("max_cell_temp_c", t, ts),
      TelemetryInit("grid_power_kw", g, ts)>>

(* Mutant: polls again before the last batch is pushed. *)
PollAllEager ==
    /\ polls < MaxPolls
    /\ polls' = polls + 1
    /\ \E s \in SocReading, t \in TempReading, g \in GridReading :
          batch' = batch \o Batch(s, t, g, polls')
    /\ UNCHANGED <<ringVars, engineVars, schedulerVars, wpc, worldVars, seen>>

(* Mutant: the meter is read before the battery. *)
PollAllGridFirst ==
    /\ batch = <<>>
    /\ polls < MaxPolls
    /\ polls' = polls + 1
    /\ \E s \in SocReading, t \in TempReading, g \in GridReading :
          LET b == Batch(s, t, g, polls') IN batch' = <<b[3], b[1], b[2]>>
    /\ UNCHANGED <<ringVars, engineVars, schedulerVars, wpc, worldVars, seen>>

(* adapter_registry_poll_all on the one Modbus adapter: a poll that fails  *)
(* yields no point and changes nothing.                                    *)
PollAll ==
    /\ batch = <<>>
    /\ polls < MaxPolls
    /\ polls' = polls + 1
    /\ \E s \in SocReading, t \in TempReading, g \in GridReading :
          batch' = Batch(s, t, g, polls')
    /\ UNCHANGED <<ringVars, engineVars, schedulerVars, wpc, worldVars, seen>>

(* One turn of the push loop; a point the ring refuses is gone. *)
Push ==
    /\ batch # <<>>
    /\ Ring!Accept(Head(batch)) \/ Ring!Reject
    /\ batch' = Tail(batch)
    /\ UNCHANGED <<polls, engineVars, schedulerVars, wpc, worldVars, seen>>

-----------------------------------------------------------------------------
ApplyQualityRules(p) ==
    IF p.point_id = "max_cell_temp_c" /\ p.value > TempHigh
    THEN [p EXCEPT !.quality = "bad"]
    ELSE p

Pop ==
    /\ wpc = "pop"
    /\ Ring!Deliver
    /\ wpc' = "evaluate"
    /\ UNCHANGED <<ingressVars, engineVars, schedulerVars, worldVars, seen>>

(* The quality rule and the state engine; the telemetry row itself is the  *)
(* business of the Egress model.                                           *)
Evaluate ==
    /\ wpc = "evaluate"
    /\ Engine!ProcessTelemetry(ApplyQualityRules(point), nextCommandId)
    /\ seen' = [seen EXCEPT ![point.point_id] = point]
    /\ wpc' = IF alarm'.id # 0 THEN "alarm"
              ELSE IF command'.id # 0 THEN "submit" ELSE "publish"
    /\ UNCHANGED <<ringVars, ingressVars, schedulerVars, worldVars>>

(* A failed insert: nothing is stored, the worker goes on. *)
Fails ==
    /\ storeFailures < MaxStoreFailures
    /\ storeFailures' = storeFailures + 1

(* Mutant: after a failed insert alarms are only logged. *)
AppendAlarmGivesUp ==
    /\ wpc = "alarm"
    /\ alarms' = IF storeFailures > 0 THEN alarms ELSE Append(alarms, alarm)
    /\ wpc' = "publish"
    /\ UNCHANGED <<ringVars, ingressVars, engineVars, schedulerVars, boot, storeFailures, lost, seen>>

AppendAlarm ==
    /\ wpc = "alarm"
    /\ \/ /\ alarms' = Append(alarms, alarm)
          /\ UNCHANGED <<storeFailures, lost>>
       \/ /\ Fails
          /\ lost' = lost \cup {alarm}
          /\ UNCHANGED alarms
    /\ wpc' = "publish"
    /\ UNCHANGED <<ringVars, ingressVars, engineVars, schedulerVars, boot, seen>>

SubmitCommand ==
    /\ wpc = "submit"
    /\ Scheduler!Submit([id |-> command.id, state |-> "PENDING"])
    /\ wpc' = IF Scheduler!Full THEN "publish" ELSE "tick"
    /\ UNCHANGED <<ringVars, ingressVars, engineVars, worldVars, seen>>

TickTakesPending ==
    /\ wpc = "tick"
    /\ Scheduler!TickBegin
    /\ wpc' = "write"
    /\ UNCHANGED <<ringVars, ingressVars, engineVars, worldVars, seen>>

(* modbus_write_command answers 0 for every command. *)
TickWritesCommand ==
    /\ wpc = "write"
    /\ Scheduler!TickWrite(TRUE)
    /\ wpc' = "record"
    /\ UNCHANGED <<ringVars, ingressVars, engineVars, worldVars, seen>>

(* Mutant: the outcome is not stored. *)
TickForgetsCommand ==
    /\ wpc = "record"
    /\ Scheduler!TickStore(FALSE)
    /\ wpc' = IF pending' = <<>> THEN "publish" ELSE "write"
    /\ UNCHANGED <<ringVars, ingressVars, engineVars, worldVars, seen>>

TickStoresCommand ==
    /\ wpc = "record"
    /\ \/ Scheduler!TickStore(TRUE) /\ UNCHANGED storeFailures
       \/ Scheduler!TickStore(FALSE) /\ Fails
    /\ wpc' = IF pending' = <<>> THEN "publish" ELSE "write"
    /\ UNCHANGED <<ringVars, ingressVars, engineVars, alarms, boot, lost, seen>>

(* mqtt_session_publish_telemetry: the point reaches the broker or not, to *)
(* the control path it is the same (Egress tells them apart).              *)
PublishReturns ==
    /\ wpc = "publish"
    /\ wpc' = "pop"
    /\ UNCHANGED <<ringVars, ingressVars, engineVars, schedulerVars, worldVars, seen>>

(* Or the worker stays in it: in the read of a CONNACK that never comes,   *)
(* or at a mutex whose holder is there.                                    *)
PublishHangs ==
    /\ wpc = "publish"
    /\ wpc' = "hung"
    /\ UNCHANGED <<ringVars, ingressVars, engineVars, schedulerVars, worldVars, seen>>

-----------------------------------------------------------------------------
(* The process dies and systemd starts it again: everything in memory is   *)
(* back to its initial value, the tables and the PCS are not.              *)
Crash ==
    /\ boot < MaxBoots
    /\ boot' = boot + 1
    /\ fifo' = <<>> /\ dropped' = 0 /\ point' = NoPoint
    /\ batch' = <<>>
    /\ state' = "INIT" /\ soc' = InitialSoc /\ temp' = 0 /\ grid' = 0
    /\ nextAlarmId' = 1 /\ alarm' = Engine!NoAlarm /\ command' = Engine!NoCommand
    /\ queue' = <<>> /\ nextCommandId' = 1 /\ pending' = <<>>
    /\ wpc' = "pop"
    /\ seen' = NothingSeen
    /\ UNCHANGED <<polls, written, log, alarms, storeFailures, lost>>

WorkerStep ==
    \/ Pop
    \/ Evaluate
    \/ AppendAlarm
    \/ SubmitCommand
    \/ TickTakesPending
    \/ TickWritesCommand
    \/ TickStoresCommand
    \/ PublishReturns
    \/ PublishHangs

Next ==
    \/ PollAll
    \/ Push
    \/ WorkerStep
    \/ Crash

Spec == Init /\ [][Next]_vars

(* The worker loop runs for as long as the process does: statements of     *)
(* SQLite and writes to the PCS return.  Of the broker nothing is assumed: *)
(* a hung worker takes no step.                                            *)
FairSpec == Spec /\ WF_vars(WorkerStep)

-----------------------------------------------------------------------------
(* Types of the loop's own state. *)
TypeOK ==
    /\ Len(fifo) <= Cap /\ Len(batch) <= 3
    /\ wpc \in {"pop", "evaluate", "alarm", "submit", "tick", "write", "record",
               "publish", "hung"}
    /\ Engine!EngineTypeOK
    /\ nextCommandId \in 1 .. MaxId + 1
    /\ boot \in 1 .. MaxBoots /\ polls \in 0 .. MaxPolls

(* A discharge command is never based on the start-up defaults of the      *)
(* engine (SOC 80, temperature 0): the queue is FIFO and a poll delivers   *)
(* SOC and temperature before the grid power, so both were measured since  *)
(* the last restart.  And the SOC it is based on is at most as many polls  *)
(* old as the ring has dropped points (app.c:42-46, ring.c:51-54).         *)
DischargeOnRecentSoc ==
    wpc \in {"submit", "tick", "write"} =>
        /\ seen["soc_percent"].ts > 0
        /\ Cap >= 2 => seen["max_cell_temp_c"].ts > 0
        /\ soc = seen["soc_percent"].value
        /\ command.ts - seen["soc_percent"].ts <= dropped

(* Every setpoint given to the PCS has its row in the commands table,      *)
(* except for the one in hand, one per failed insert and one per crash     *)
(* between the write and the insert (command_scheduler.c:66-75).           *)
AuditGap ==
    LET missing == Len(written) - Len(log)
        inHand == IF wpc = "record" THEN 1 ELSE 0
    IN  0 <= missing /\ missing <= inHand + storeFailures + (boot - 1)

(* A low SOC that made it into the ring raises an alarm row, unless the    *)
(* process dies first, the worker is stuck in a publish, or the insert of  *)
(* this very alarm fails: no other failure, of a command's row or of an    *)
(* earlier alarm's, can swallow it (app.c:102-104 and 118).                *)
LowSoc(ts) ==
    \E i \in DOMAIN fifo : /\ fifo[i].point_id = "soc_percent" /\ fifo[i].ts = ts
                           /\ fifo[i].value <= MinDischargeSoc
LowSocAlarm(ts, set) == \E a \in set : a.ts = ts /\ a.code = "BMS_SOC_LOW"
LowSocAlarmed ==
    \A ts \in 1 .. MaxPolls, b \in 1 .. MaxBoots :
        LowSoc(ts) /\ boot = b ~>
            \/ LowSocAlarm(ts, {alarms[i] : i \in DOMAIN alarms})
            \/ boot # b
            \/ wpc = "hung"
            \/ LowSocAlarm(ts, lost)

-----------------------------------------------------------------------------
(* The header of the device model describes the transition                 *)
(* "RUNNING -> FAULT (e.g. BMS temperature high)" (device_model.h:122).    *)
(* The quality rule marks exactly the readings above temp_high as BAD and  *)
(* the engine ignores BAD points, so the gateway never gets there.         *)
MeasuredHotMeansFault == seen["max_cell_temp_c"].value > TempHigh => state = "FAULT"
=============================================================================
