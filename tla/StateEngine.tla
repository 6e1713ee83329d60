---------------------------- MODULE StateEngine ----------------------------
(***************************************************************************)
(* src/src/runtime/state_engine.c: the snapshot of the last measurements,  *)
(* the temperature and SOC alarms, and the peak-shaving rule.  Engineering *)
(* values (doubles in the code) are integers here.  alarm and command are  *)
(* the function's two out-parameters.                                      *)
(***************************************************************************)
EXTENDS Integers

CONSTANTS TempHigh,               \* cfg->temp_high
          MinDischargeSoc,        \* cfg->min_discharge_soc
          PeakShavingThreshold,   \* cfg->peak_shaving_threshold_kw
          MaxDischarge,           \* cfg->max_discharge_kw
          InitialSoc,             \* the 80.0 of state_engine_init
          WantAlarm, WantCommand, \* does the caller pass alarm / command, or NULL?
          Reading,                \* values a measurement can have
          Timestamp,              \* telemetry ts_ms
          MaxAlarmId              \* bound on the alarm ids explored

ASSUME ConfigAssumption ==
    {TempHigh, MinDischargeSoc, PeakShavingThreshold, MaxDischarge, InitialSoc} \subseteq Int
ASSUME CallerAssumption == WantAlarm \in BOOLEAN /\ WantCommand \in BOOLEAN
ASSUME ReadingAssumption == Reading \subseteq Int /\ 0 \in Reading
(* state_engine_init zeroes the temperature and starts outside FAULT. *)
ASSUME StartsCold == TempHigh >= 0

VARIABLES state, soc, temp, grid, nextAlarmId,   \* state_engine_t
          alarm, command                         \* out-parameters of the last call

engine == <<state, soc, temp, grid, nextAlarmId>>
engineVars == <<state, soc, temp, grid, nextAlarmId, alarm, command>>

PointId == {"soc_percent", "max_cell_temp_c", "grid_power_kw"}
Quality == {"good", "bad"}
Telemetry == [point_id : PointId, value : Reading, quality : Quality, ts : Timestamp]

NoAlarm == [id |-> 0, code |-> "none", ts |-> 0]
NoCommand == [id |-> 0, target |-> 0, ts |-> 0]

EngineInit ==
    /\ state = "INIT"
    /\ soc = InitialSoc /\ temp = 0 /\ grid = 0
    /\ nextAlarmId = 1
    /\ alarm = NoAlarm /\ command = NoCommand

-----------------------------------------------------------------------------
UpdateSnapshot(p) ==
    /\ soc' = IF p.point_id = "soc_percent" THEN p.value ELSE soc
    /\ temp' = IF p.point_id = "max_cell_temp_c" THEN p.value ELSE temp
    /\ grid' = IF p.point_id = "grid_power_kw" THEN p.value ELSE grid

(* Mutant: the upper limit is missing. *)
ClampBelowOnly(kw, max) == IF kw < 0 THEN 0 ELSE kw

ClampDischarge(kw, max) == IF kw < 0 THEN 0 ELSE IF kw > max THEN max ELSE kw

MakeAlarm(code, ts) ==
    /\ nextAlarmId <= MaxAlarmId    \* bound: uint64_t in the code
    /\ alarm' = [id |-> nextAlarmId, code |-> code, ts |-> ts]
    /\ nextAlarmId' = nextAlarmId + 1
    /\ command' = NoCommand

(* quality != GOOD: the engine returns before it looks at the value. *)
RejectBadQuality(p) ==
    /\ p.quality # "good"
    /\ alarm' = NoAlarm /\ command' = NoCommand
    /\ UNCHANGED engine

TempHighAlarm(p) ==
    /\ p.quality = "good"
    /\ UpdateSnapshot(p)
    /\ temp' > TempHigh /\ WantAlarm
    /\ state' = "FAULT"
    /\ MakeAlarm("BMS_TEMP_HIGH", p.ts)

(* Returns before state is assigned: the engine keeps the state it is in. *)
SocLowAlarm(p) ==
    /\ p.quality = "good"
    /\ UpdateSnapshot(p)
    /\ temp' <= TempHigh
    /\ soc' <= MinDischargeSoc /\ p.point_id = "soc_percent" /\ WantAlarm
    /\ MakeAlarm("BMS_SOC_LOW", p.ts)
    /\ UNCHANGED state

(* The peak-shaving rule; commandId is the scheduler's next id. *)
ShavePeak(p, commandId) ==
    LET kw == ClampDischarge(grid' - PeakShavingThreshold, MaxDischarge)
        due == /\ p.point_id = "grid_power_kw"
               /\ soc' > MinDischargeSoc
               /\ grid' > PeakShavingThreshold
               /\ kw > 0 /\ WantCommand
    IN  command' = IF due THEN [id |-> commandId, target |-> -kw, ts |-> p.ts]
                          ELSE NoCommand

(* Mutant: a temperature alarm does not end the call. *)
RunThoughHot(p, commandId) ==
    /\ p.quality = "good"
    /\ UpdateSnapshot(p)
    /\ ~(soc' <= MinDischargeSoc /\ p.point_id = "soc_percent" /\ WantAlarm)
    /\ state' = "RUNNING"
    /\ ShavePeak(p, commandId)
    /\ alarm' = NoAlarm
    /\ UNCHANGED nextAlarmId

(* Reached by a hot engine too when alarm is NULL: FAULT is overwritten. *)
Run(p, commandId) ==
    /\ p.quality = "good"
    /\ UpdateSnapshot(p)
    /\ ~(temp' > TempHigh /\ WantAlarm)
    /\ ~(soc' <= MinDischargeSoc /\ p.point_id = "soc_percent" /\ WantAlarm)
    /\ state' = "RUNNING"
    /\ ShavePeak(p, commandId)
    /\ alarm' = NoAlarm
    /\ UNCHANGED nextAlarmId

(* state_engine_process_telemetry. *)
ProcessTelemetry(p, commandId) ==
    \/ RejectBadQuality(p)
    \/ TempHighAlarm(p)
    \/ SocLowAlarm(p)
    \/ Run(p, commandId)

EngineNext == \E p \in Telemetry : ProcessTelemetry(p, 1)

EngineSpec == EngineInit /\ [][EngineNext]_engineVars

-----------------------------------------------------------------------------
(* Types of state_engine_t and of what a call hands back. *)
EngineTypeOK ==
    /\ state \in {"INIT", "RUNNING", "FAULT"}
    /\ soc \in Int /\ temp \in Int /\ grid \in Int
    /\ nextAlarmId \in Nat \ {0}
    /\ alarm.id \in Nat /\ command.id \in Nat /\ command.target \in Int

(* FAULT is entered and left with the temperature: after any sequence of   *)
(* points, of any quality, the engine is in FAULT exactly while the last   *)
(* usable temperature is above the limit; a low SOC or a peak in between   *)
(* can neither clear nor set it (state_engine.c:68-95).  Only a caller     *)
(* that takes alarms gets this: worker_main does.                          *)
FaultIffHot == WantAlarm => (state = "FAULT" <=> temp > TempHigh)

(* Whatever came before, a discharge command is handed out only in         *)
(* RUNNING, with the last usable SOC above its floor and the temperature   *)
(* within its limit; it discharges at most the configured maximum, and     *)
(* never pulls the grid below the threshold (state_engine.c:95-123).       *)
DischargeIsSafe ==
    command # NoCommand =>
        /\ state = "RUNNING"
        /\ soc > MinDischargeSoc /\ (WantAlarm => temp <= TempHigh)
        /\ -MaxDischarge <= command.target /\ command.target < 0
        /\ grid + command.target >= PeakShavingThreshold
=============================================================================
