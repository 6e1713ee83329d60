------------------------------ MODULE FieldBus ------------------------------
(***************************************************************************)
(* The devices' side of the ingress: the adapter registry                  *)
(* (ingress/adapter.c), the Modbus adapter with its simulator and its      *)
(* libmodbus link (ingress/modbus_adapter.c, modbus_rtu.c,                 *)
(* modbus_libmodbus.c), the stub adapter, and any other plugin that keeps  *)
(* the contract of adapter.h.  The device behind the link disappears and   *)
(* comes back at any time; a connection from before is then useless.       *)
(* Registers are unsigned, the quantities behind them are not.             *)
(***************************************************************************)
EXTENDS Integers, Sequences, SequencesExt

CONSTANTS RegistryMax,   \* ADAPTER_REGISTRY_MAX
          Plugin,        \* other adapters
          MaxOut,        \* the ingress thread's telemetry_t points[8]
          RegMod,        \* number of values of a register, 65536
          TempHigh       \* temp_high, in the unit of the register

ASSUME RegistryAssumption == {RegistryMax, MaxOut} \subseteq Nat \ {0}
(* A limit that is no temperature a register can hold makes no sense. *)
ASSUME RegisterAssumption == RegMod \in Nat \ {0} /\ TempHigh \in Nat /\ 2 * TempHigh < RegMod

VARIABLES
    simulate, transport,   \* the configuration
    phase,                 \* "register", "idle", "poll", "read" or "down"
    slots,                 \* the registry: adapters in the order of their registration
    protocol,              \* the protocol of each slot
    out,                   \* the batch: for each point the adapter it came from
    asked,                 \* the adapters this poll has asked: where in the batch each was to
                           \* write, and the points it returned
    ctx,                   \* g_ctx: "null", "connected", or "broken" and not noticed
    device,                \* is the device "up" or "down"?
    truth                  \* the quantities the device measured when it was last read

vars == <<simulate, transport, phase, slots, protocol, out, asked, ctx, device, truth>>

Adapter == {"modbus", "stub"} \cup Plugin
Protocol == {"rtu", "tcp", "simulator", "other"}
Point == {"soc_percent", "max_cell_temp_c", "grid_power_kw"}
Signed == -(RegMod \div 2) .. (RegMod - 1) \div 2
Measured == [Point -> Signed]
Answer == [from : Adapter, at : Nat, points : Nat]

Init ==
    /\ simulate \in BOOLEAN /\ transport \in {"rtu", "tcp"}
    /\ phase = "register" /\ slots = <<>> /\ protocol = <<>>
    /\ out = <<>> /\ asked = <<>>
    /\ ctx = "null"
    /\ device = "up" /\ truth = [p \in Point |-> 0]

config == <<simulate, transport>>
registry == <<slots, protocol>>
polling == <<out, asked>>

-----------------------------------------------------------------------------
(* The registry. *)

(* modbus_adapter_fill, stub_adapter_fill *)
FilledProtocol(a) ==
    CASE a = "modbus" -> "rtu" [] a = "stub" -> "simulator" [] OTHER -> "other"

(* adapter_registry_register; nobody registers a protocol twice. *)
Register(a) ==
    /\ phase = "register"
    /\ a \notin ToSet(slots) /\ Len(slots) < RegistryMax
    /\ slots' = Append(slots, a)
    /\ protocol' = Append(protocol, FilledProtocol(a))
    /\ UNCHANGED <<config, phase, polling, ctx, device, truth>>

(* modbus_init takes its protocol from the configured transport. *)
InitProtocol(i) == IF slots[i] = "modbus" THEN transport ELSE protocol[i]

(* adapter_registry_init_all.  An adapter that fails is kept and polled. *)
InitAll ==
    /\ phase = "register" /\ slots # <<>>
    /\ phase' = "idle"
    /\ protocol' = [i \in DOMAIN slots |-> InitProtocol(i)]
    /\ UNCHANGED <<config, slots, polling, ctx, device, truth>>

(* adapter_registry_find: the first slot of that protocol, 0 for NULL. *)
Find(proto) ==
    LET found == {i \in DOMAIN slots : protocol[i] = proto}
    IN  IF found = {} THEN 0 ELSE CHOOSE i \in found : \A j \in found : i <= j

(* Mutant: commands go out over the serial line only. *)
FindRtuAdapter == Find("rtu")

FindModbusAdapter == IF Find("rtu") # 0 THEN Find("rtu") ELSE Find("tcp")

-----------------------------------------------------------------------------
(* adapter_registry_poll_all, one adapter at a time. *)
BeginPoll ==
    /\ phase = "idle"
    /\ phase' = "poll" /\ out' = <<>> /\ asked' = <<>>
    /\ UNCHANGED <<config, registry, ctx, device, truth>>

(* Mutant: every adapter is offered the whole array. *)
WholeArray == MaxOut

Room == MaxOut - Len(out)

(* The adapter being polled got &out[total] and returned n: its points are *)
(* in out.                                                                 *)
Returned(n) ==
    LET a == slots[Len(asked) + 1]
    IN  /\ phase' = "poll"
        /\ out' = out \o [i \in 1 .. n |-> a]
        /\ asked' = Append(asked, [from |-> a, at |-> Len(out), points |-> n])

(* Mutant: the first adapter that fails ends the poll. *)
FailedEndsPoll ==
    /\ phase' = "idle"
    /\ asked' = Append(asked, [from |-> slots[Len(asked) + 1], at |-> Len(out), points |-> 0])
    /\ UNCHANGED out

(* A negative result, or none: the loop goes on with the next slot. *)
Failed == Returned(0)

Polled(a) == phase = "poll" /\ Len(asked) < Len(slots) /\ Room > 0 /\ slots[Len(asked) + 1] = a

(* stub_poll *)
PollStub ==
    /\ Polled("stub")
    /\ IF Room < 3 \/ ~simulate THEN Failed ELSE Returned(3)
    /\ UNCHANGED <<config, registry, ctx, device, truth>>

(* Any plugin: fails, or writes no more than it was given room for. *)
PollPlugin ==
    /\ \E a \in Plugin : Polled(a)
    /\ Failed \/ \E n \in 1 .. Room : Returned(n)
    /\ UNCHANGED <<config, registry, ctx, device, truth>>

(* modbus_rtu_poll without a device behind it: too little room, or the     *)
(* simulator.                                                              *)
PollSimulated ==
    /\ Polled("modbus") /\ (Room < 3 \/ simulate)
    /\ IF Room < 3 THEN Failed ELSE Returned(3)
    /\ UNCHANGED <<config, registry, ctx, device, truth>>

PollDevice == Polled("modbus") /\ Room >= 3 /\ ~simulate

(* ensure_context: there is one already. *)
KeepContext ==
    /\ PollDevice /\ ctx # "null"
    /\ phase' = "read"
    /\ UNCHANGED <<config, registry, polling, ctx, device, truth>>

(* modbus_new_... and modbus_connect. *)
Connect ==
    /\ PollDevice /\ ctx = "null" /\ device = "up"
    /\ phase' = "read"
    /\ ctx' = "connected"
    /\ UNCHANGED <<config, registry, polling, device, truth>>

(* No context, or no connection: what was created is freed again. *)
ConnectFails ==
    /\ PollDevice /\ ctx = "null"
    /\ Failed
    /\ UNCHANGED <<config, registry, ctx, device, truth>>

(* modbus_read_registers *)
ReadRegisters ==
    /\ phase = "read" /\ ctx = "connected"
    /\ truth' \in Measured
    /\ Returned(3)
    /\ UNCHANGED <<config, registry, ctx, device>>

(* modbus_libmodbus_shutdown *)
CloseContext == ctx' = "null"

(* Mutant: the broken context is kept for the next poll. *)
ReadFailsKept ==
    /\ phase = "read"
    /\ Failed
    /\ UNCHANGED <<config, registry, ctx, device, truth>>

(* A timeout, a reset or an exception: the next poll starts afresh. *)
ReadFails ==
    /\ phase = "read"
    /\ CloseContext
    /\ Failed
    /\ UNCHANGED <<config, registry, device, truth>>

PollEnds ==
    /\ phase = "poll" /\ (Len(asked) = Len(slots) \/ Room = 0)
    /\ phase' = "idle"
    /\ UNCHANGED <<config, registry, polling, ctx, device, truth>>

(* adapter_registry_shutdown_all, when the threads are joined. *)
ShutdownAll ==
    /\ phase = "idle"
    /\ phase' = "down"
    /\ IF "modbus" \in ToSet(slots) THEN CloseContext ELSE UNCHANGED ctx
    /\ UNCHANGED <<config, registry, polling, device, truth>>

DeviceFails ==
    /\ device = "up" /\ device' = "down"
    /\ ctx' = IF ctx = "connected" THEN "broken" ELSE ctx
    /\ UNCHANGED <<config, phase, registry, polling, truth>>

DeviceReturns ==
    /\ device = "down" /\ device' = "up"
    /\ UNCHANGED <<config, phase, registry, polling, ctx, truth>>

PollStep ==
    \/ BeginPoll \/ PollStub \/ PollPlugin \/ PollSimulated \/ KeepContext
    \/ Connect \/ ConnectFails \/ ReadRegisters \/ ReadFails \/ PollEnds

Next ==
    \/ \E a \in Adapter : Register(a)
    \/ InitAll \/ PollStep \/ ShutdownAll
    \/ DeviceFails \/ DeviceReturns

(* The ingress keeps polling; with the device there, connecting and        *)
(* reading do not fail for ever.                                           *)
Spec == /\ Init /\ [][Next]_vars
        /\ WF_vars(PollStep) /\ SF_vars(Connect) /\ SF_vars(ReadRegisters)

-----------------------------------------------------------------------------
(* From a register to a telemetry point. *)

(* map_registers_to_telemetry: the device writes two's complement, the     *)
(* code takes the register as unsigned, in tenths of the unit.             *)
MapRegisters(measured) == [p \in Point |-> measured[p] % RegMod]

(* Mutant: the rule names a point that does not exist. *)
QualityMisspelt(p, value) == IF p = "max_temp_c" /\ value > TempHigh THEN "bad" ELSE "good"

(* apply_quality_rules *)
Quality(p, value) == IF p = "max_cell_temp_c" /\ value > TempHigh THEN "bad" ELSE "good"

-----------------------------------------------------------------------------
(* Types; a batch fits into the array of the ingress thread (app.c:38). *)
TypeOK ==
    /\ simulate \in BOOLEAN /\ transport \in {"rtu", "tcp"}
    /\ phase \in {"register", "idle", "poll", "read", "down"}
    /\ slots \in Seq(Adapter) /\ Len(slots) <= RegistryMax
    /\ protocol \in Seq(Protocol) /\ Len(protocol) = Len(slots)
    /\ asked \in Seq(Answer) /\ Len(asked) <= Len(slots)
    /\ out \in Seq(Adapter) /\ Len(out) <= MaxOut
    /\ ctx \in {"null", "connected", "broken"}
    /\ device \in {"up", "down"} /\ truth \in Measured

(* The adapters asked are the first ones of the registry, in its order. *)
InOrder == \A k \in DOMAIN asked : asked[k].from = slots[k]

(* Their points follow each other in the batch without a gap or an overlap, *)
(* and nothing else is in it.                                              *)
End(k) == asked[k].at + asked[k].points
Contiguous ==
    /\ asked = <<>> => out = <<>>
    /\ asked # <<>> => asked[1].at = 0 /\ End(Len(asked)) = Len(out)
    /\ \A k \in 1 .. Len(asked) - 1 : asked[k + 1].at = End(k)
    /\ \A k \in DOMAIN asked : \A i \in asked[k].at + 1 .. End(k) : out[i] = asked[k].from

(* After a poll the batch is what the adapters delivered, one after the    *)
(* other in the order of registration.  An adapter that failed, or had too *)
(* little room, cost only its own points: those behind it were asked too,  *)
(* unless the array was full (adapter.c:77-90).                            *)
BatchIsComplete ==
    phase \in {"idle", "down"} /\ asked # <<>> =>
        /\ Len(asked) = Len(slots) \/ Room = 0
        /\ InOrder
        /\ Contiguous

(* A command always finds the Modbus adapter, wherever it is in the        *)
(* registry and whichever transport is configured: find_modbus_adapter     *)
(* looks for the protocol that modbus_init has written into the slot       *)
(* (app.c:57-66).  Without it the command queue would never be drained.    *)
CommandFindsBus ==
    phase # "register" /\ "modbus" \in ToSet(slots) =>
        FindModbusAdapter # 0 /\ slots[FindModbusAdapter] = "modbus"

(* A reading that reaches the engine is what the device measured, if it    *)
(* was not negative; a negative temperature reads as a huge one and is     *)
(* marked BAD by the rule, so no GOOD temperature is false                 *)
(* (modbus_libmodbus.c:90-92, app.c:18).                                   *)
ReadingsAreTrue ==
    \A p \in Point :
        LET value == MapRegisters(truth)[p]
        IN  \/ value = truth[p]
            \/ truth[p] < 0 /\ p # "max_cell_temp_c"
            \/ Quality(p, value) = "bad"

(* Once the device stays, its points come again, poll after poll: a failed *)
(* read drops the connection, so the next poll makes a new one             *)
(* (modbus_libmodbus.c:110-114).                                           *)
DeviceInReach ==
    device = "up" /\ ~simulate /\ phase \in {"idle", "poll", "read"} /\ slots[1] = "modbus"
LinkRecovers == <>[]DeviceInReach => []<>(phase = "idle" /\ "modbus" \in ToSet(out))
=============================================================================
