--------------------------- MODULE FieldBusProofs ---------------------------
(***************************************************************************)
(* What FieldBus promises, for every registry size, batch size, register   *)
(* width and set of plugins: the types, that a batch is what the adapters  *)
(* delivered, that a command finds the bus, and that no GOOD temperature   *)
(* is false.                                                               *)
(***************************************************************************)
EXTENDS FieldBus, SequenceTheorems, TLAPS

(* No adapter is registered twice. *)
Distinct == \A i, j \in DOMAIN slots : slots[i] = slots[j] => i = j

(* A slot has the protocol its adapter filled in, until modbus_init         *)
(* replaces it by the configured transport.                                *)
Protocols ==
    \A i \in DOMAIN slots :
        protocol[i] = IF phase # "register" /\ slots[i] = "modbus"
                      THEN transport ELSE FilledProtocol(slots[i])

(* Where a poll is: nothing is asked before the first, there is a slot with *)
(* room behind a read under way, and a poll ends only at the end of the    *)
(* registry or of the array.                                               *)
Progress ==
    /\ phase = "register" => asked = <<>> /\ out = <<>>
    /\ phase = "read" => Len(asked) < Len(slots) /\ Room >= 3
    /\ phase \in {"idle", "down"} /\ asked # <<>> => Len(asked) = Len(slots) \/ Room = 0

(* No adapter's points lie outside the batch.  It follows from Contiguous   *)
(* only by induction over the slots.                                       *)
Within == \A k \in DOMAIN asked : End(k) <= Len(out)

BusInv == TypeOK /\ Distinct /\ Protocols /\ Progress /\ InOrder /\ Contiguous /\ Within
-----------------------------------------------------------------------------
(* The operators. *)

(* The slots are read with ToSet and through DOMAIN. *)
LEMMA InToSet ==
    ASSUME NEW s, NEW a
    PROVE  a \in ToSet(s) <=> \E i \in DOMAIN s : s[i] = a
BY DEF ToSet

(* What an adapter that is polled does to the batch: it appends its points  *)
(* and leaves those of the others where they are (adapter.c:85-88).        *)
LEMMA ReturnedKeeps ==
    ASSUME TypeOK, InOrder, Contiguous, Within,
           Len(asked) < Len(slots),
           NEW n \in Nat, n <= Room,
           Returned(n), UNCHANGED slots
    PROVE  /\ asked' \in Seq(Answer) /\ Len(asked') <= Len(slots')
           /\ out' \in Seq(Adapter) /\ Len(out') <= MaxOut
           /\ phase' = "poll"
           /\ InOrder' /\ Contiguous' /\ Within'
<1> DEFINE a == slots[Len(asked) + 1]
           r == [from |-> a, at |-> Len(out), points |-> n]
           w == [i \in 1 .. n |-> a]
<1>1. /\ slots \in Seq(Adapter) /\ slots' = slots
      /\ asked \in Seq(Answer)
      /\ out \in Seq(Adapter)
      /\ MaxOut \in Nat
    BY RegistryAssumption DEF TypeOK
<1>2. Len(asked) \in Nat /\ Len(out) \in Nat /\ Len(slots) \in Nat
    BY <1>1, LenProperties
<1>3. a \in Adapter
    BY <1>1, <1>2, ElementOfSeq
<1>4. r \in Answer
    BY <1>2, <1>3 DEF Answer
<1>5. w \in Seq(Adapter) /\ Len(w) = n /\ \A i \in 1 .. n : w[i] = a
    BY <1>3
<1>6. asked' = Append(asked, r) /\ out' = out \o w /\ phase' = "poll"
    BY DEF Returned
<1> HIDE DEF r, w
<1>7. /\ asked' \in Seq(Answer)
      /\ Len(asked') = Len(asked) + 1
      /\ asked'[Len(asked) + 1] = r
      /\ \A k \in 1 .. Len(asked) : asked'[k] = asked[k]
    BY <1>1, <1>4, <1>6, AppendProperties
<1>8. /\ out' \in Seq(Adapter)
      /\ Len(out') = Len(out) + n
      /\ \A i \in 1 .. Len(out) : out'[i] = out[i]
      /\ \A i \in Len(out) + 1 .. Len(out) + n : out'[i] = a
  <2>1. out' \in Seq(Adapter) /\ Len(out') = Len(out) + n
      BY <1>1, <1>2, <1>5, <1>6, ConcatProperties
  <2>2. \A i \in 1 .. Len(out) + n : out'[i] = IF i <= Len(out) THEN out[i] ELSE w[i - Len(out)]
      BY <1>1, <1>2, <1>5, <1>6, ConcatProperties
  <2>3. \A i \in 1 .. Len(out) : out'[i] = out[i]
      BY <1>2, <2>2
  <2>4. \A i \in Len(out) + 1 .. Len(out) + n : out'[i] = a
    <3> SUFFICES ASSUME NEW i \in Len(out) + 1 .. Len(out) + n
                 PROVE  out'[i] = a
        OBVIOUS
    <3>1. i \in 1 .. Len(out) + n /\ ~(i <= Len(out)) /\ i - Len(out) \in 1 .. n
        BY <1>2
    <3> QED BY <3>1, <2>2, <1>5
  <2> QED BY <2>1, <2>3, <2>4
<1>9. r.from = a /\ r.at = Len(out) /\ r.points = n
    BY DEF r
<1>10. DOMAIN asked = 1 .. Len(asked) /\ DOMAIN asked' = 1 .. Len(asked) + 1
    BY <1>1, <1>2, <1>7, LenProperties
<1>11. Len(asked') <= Len(slots') /\ Len(out') <= MaxOut
    BY <1>1, <1>2, <1>7, <1>8 DEF Room
<1>12. InOrder'
  <2>1. \A k \in 1 .. Len(asked) + 1 : asked'[k].from = slots[k]
    <3> SUFFICES ASSUME NEW k \in 1 .. Len(asked) + 1
                 PROVE  asked'[k].from = slots[k]
        OBVIOUS
    <3>1. CASE k = Len(asked) + 1
        BY <3>1, <1>7, <1>9
    <3>2. CASE k \in 1 .. Len(asked)
        BY <3>2, <1>7, <1>10 DEF InOrder
    <3> QED BY <3>1, <3>2, <1>2
  <2> QED BY <2>1, <1>1, <1>10 DEF InOrder
<1>13. Contiguous'
  <2>1. \A k \in 1 .. Len(asked) : /\ asked'[k] = asked[k]
                                   /\ asked[k].at \in Nat /\ asked[k].points \in Nat
    <3> SUFFICES ASSUME NEW k \in 1 .. Len(asked)
                 PROVE  asked[k] \in Answer /\ asked'[k] = asked[k]
        BY DEF Answer
    <3> QED BY <1>1, <1>7, ElementOfSeq
  <2>2. asked' # <<>> /\ Len(asked') = Len(asked) + 1
      BY <1>7, <1>2
  <2>3. asked = <<>> => Len(asked) = 0 /\ Len(out) = 0
      BY DEF Contiguous
  <2>4. asked # <<>> => Len(asked) > 0
      BY <1>1, <1>2, EmptySeq
  <2>5. asked'[1].at = 0
    <3>1. CASE asked = <<>>
        BY <3>1, <2>3, <1>7, <1>9
    <3>2. CASE asked # <<>>
        BY <3>2, <2>4, <1>2, <2>1 DEF Contiguous
    <3> QED BY <3>1, <3>2
  <2>6. asked'[Len(asked')].at + asked'[Len(asked')].points = Len(out')
      BY <1>7, <1>8, <1>9
  <2>7. ASSUME NEW k \in 1 .. Len(asked)
        PROVE  asked'[k + 1].at = asked'[k].at + asked'[k].points
    <3>1. CASE k = Len(asked)
      <4>1. asked # <<>>
          BY <3>1, <1>2
      <4> QED BY <4>1, <3>1, <1>7, <1>9, <2>1 DEF Contiguous, End
    <3>2. CASE k # Len(asked)
      <4>1. k \in 1 .. Len(asked) - 1 /\ k + 1 \in 1 .. Len(asked)
          BY <3>2, <1>2
      <4> QED BY <4>1, <2>1 DEF Contiguous, End
    <3> QED BY <3>1, <3>2
  <2>8. ASSUME NEW k \in 1 .. Len(asked) + 1,
               NEW i \in asked'[k].at + 1 .. asked'[k].at + asked'[k].points
        PROVE  out'[i] = asked'[k].from
    <3>1. CASE k = Len(asked) + 1
        BY <3>1, <1>7, <1>8, <1>9
    <3>2. CASE k \in 1 .. Len(asked)
      <4>1. out[i] = asked[k].from
          BY <3>2, <2>1, <1>10 DEF Contiguous, End
      <4>2. i \in 1 .. Len(out)
          BY SMTT(30), <3>2, <2>1, <1>2, <1>10 DEF Within, End
      <4> QED BY <4>1, <4>2, <3>2, <2>1, <1>8
    <3> QED BY <3>1, <3>2, <1>2
  <2> QED
      BY <2>2, <2>5, <2>6, <2>7, <2>8, <1>2, <1>10 DEF Contiguous, End
<1>14. Within'
  <2> SUFFICES ASSUME NEW k \in 1 .. Len(asked) + 1
               PROVE  asked'[k].at + asked'[k].points <= Len(out')
      BY <1>10 DEF Within, End
  <2>1. CASE k = Len(asked) + 1
      BY <2>1, <1>2, <1>7, <1>8, <1>9
  <2>2. CASE k \in 1 .. Len(asked)
    <3>1. asked[k] \in Answer /\ asked'[k] = asked[k]
        BY <2>2, <1>1, <1>7, ElementOfSeq
    <3>2. asked[k].at + asked[k].points <= Len(out)
        BY <2>2, <1>10 DEF Within, End
    <3> QED BY <3>1, <3>2, <1>2, <1>8 DEF Answer
  <2> QED BY <2>1, <2>2, <1>2
<1> QED BY <1>6, <1>7, <1>8, <1>11, <1>12, <1>13, <1>14
(* The steps of the adapter that is polled end in poll_all's loop. *)
LEMMA AnswerKeeps ==
    ASSUME BusInv,
           phase \in {"poll", "read"}, Len(asked) < Len(slots),
           NEW n \in Nat, n <= Room,
           Returned(n),
           UNCHANGED <<config, registry, device>>,
           ctx' \in {"null", "connected", "broken"}, truth' \in Measured
    PROVE  BusInv'
<1>1. /\ slots' = slots /\ protocol' = protocol
      /\ transport' = transport /\ simulate' = simulate /\ device' = device
    BY DEF registry, config
<1>2. /\ asked' \in Seq(Answer) /\ Len(asked') <= Len(slots')
      /\ out' \in Seq(Adapter) /\ Len(out') <= MaxOut
      /\ phase' = "poll"
      /\ InOrder' /\ Contiguous' /\ Within'
    BY <1>1, ReturnedKeeps DEF BusInv
<1>3. TypeOK'
    BY <1>1, <1>2 DEF BusInv, TypeOK
<1>4. Distinct' /\ Protocols'
    BY <1>1, <1>2 DEF BusInv, Distinct, Protocols
<1>5. Progress'
    BY <1>2 DEF Progress
<1> QED BY <1>2, <1>3, <1>4, <1>5 DEF BusInv

(* A slot is added while nothing has been polled (adapter.c:22-37). *)
LEMMA RegisterKeeps ==
    ASSUME BusInv, NEW a \in Adapter, Register(a)
    PROVE  BusInv'
<1>1. /\ slots \in Seq(Adapter) /\ Len(slots) < RegistryMax
      /\ protocol \in Seq(Protocol) /\ Len(protocol) = Len(slots)
      /\ RegistryMax \in Nat
      /\ phase = "register" /\ phase' = phase /\ transport' = transport
    BY RegistryAssumption DEF BusInv, TypeOK, Register, config
<1>2. FilledProtocol(a) \in Protocol
    BY DEF FilledProtocol, Protocol
<1>3. /\ slots' \in Seq(Adapter)
      /\ Len(slots') = Len(slots) + 1
      /\ slots'[Len(slots) + 1] = a
      /\ \A i \in 1 .. Len(slots) : slots'[i] = slots[i]
    BY <1>1, AppendProperties DEF Register
<1>4. /\ protocol' \in Seq(Protocol)
      /\ Len(protocol') = Len(slots) + 1
      /\ protocol'[Len(slots) + 1] = FilledProtocol(a)
      /\ \A i \in 1 .. Len(slots) : protocol'[i] = protocol[i]
    BY <1>1, <1>2, AppendProperties DEF Register
<1>5. /\ Len(slots) \in Nat
      /\ DOMAIN slots = 1 .. Len(slots) /\ DOMAIN slots' = 1 .. Len(slots) + 1
    BY <1>1, <1>3, LenProperties
<1>6. asked = <<>> /\ out = <<>> /\ asked' = asked /\ out' = out
    BY <1>1 DEF BusInv, Progress, Register, polling
<1>7. TypeOK'
  <2>1. /\ simulate' = simulate /\ transport' = transport /\ phase' = phase
        /\ ctx' = ctx /\ device' = device /\ truth' = truth
      BY DEF Register, config
  <2>2. Len(asked) <= Len(slots) + 1 /\ Len(slots) + 1 <= RegistryMax
      BY <1>1, <1>5, <1>6
  <2> QED BY <2>1, <2>2, <1>1, <1>3, <1>4, <1>6 DEF BusInv, TypeOK
<1>8. Distinct'
  <2>1. \A i \in 1 .. Len(slots) : slots[i] # a
      BY <1>5, InToSet DEF Register
  <2>2. ASSUME NEW i \in 1 .. Len(slots) + 1, NEW j \in 1 .. Len(slots) + 1,
               slots'[i] = slots'[j]
        PROVE  i = j
    <3>1. CASE i \in 1 .. Len(slots) /\ j \in 1 .. Len(slots)
        BY <3>1, <2>2, <1>3, <1>5 DEF BusInv, Distinct
    <3>2. CASE i = Len(slots) + 1 /\ j = Len(slots) + 1
        BY <3>2
    <3>3. CASE i = Len(slots) + 1 /\ j \in 1 .. Len(slots)
        BY <3>3, <2>1, <2>2, <1>3
    <3>4. CASE j = Len(slots) + 1 /\ i \in 1 .. Len(slots)
        BY <3>4, <2>1, <2>2, <1>3
    <3> QED BY <3>1, <3>2, <3>3, <3>4, <1>5
  <2> QED BY <2>2, <1>5 DEF Distinct
<1>9. Protocols'
  <2>1. ASSUME NEW i \in 1 .. Len(slots) + 1
        PROVE  protocol'[i] = FilledProtocol(slots'[i])
    <3>1. CASE i \in 1 .. Len(slots)
        BY <3>1, <1>1, <1>3, <1>4, <1>5 DEF BusInv, Protocols
    <3>2. CASE i = Len(slots) + 1
        BY <3>2, <1>3, <1>4
    <3> QED BY <3>1, <3>2, <1>5
  <2> QED BY <2>1, <1>1, <1>5 DEF Protocols
<1>10. Progress' /\ InOrder' /\ Contiguous' /\ Within'
  <2>1. Progress'
      BY <1>1, <1>6 DEF Progress
  <2>2. InOrder' /\ Contiguous' /\ Within'
      BY <1>6 DEF InOrder, Contiguous, Within
  <2> QED BY <2>1, <2>2
<1> QED BY <1>7, <1>8, <1>9, <1>10 DEF BusInv

(* modbus_init writes the transport over the protocol of its own slot, and  *)
(* only there (modbus_adapter.c:20-39).                                    *)
LEMMA InitAllKeeps ==
    ASSUME BusInv, InitAll
    PROVE  BusInv'
<1>1. /\ slots \in Seq(Adapter)
      /\ protocol \in Seq(Protocol) /\ Len(protocol) = Len(slots)
      /\ phase = "register" /\ phase' = "idle" /\ transport' = transport
      /\ slots' = slots /\ asked' = asked /\ out' = out
      /\ transport \in Protocol
    BY DEF BusInv, TypeOK, InitAll, config, polling, Protocol
<1>2. Len(slots) \in Nat /\ DOMAIN slots = 1 .. Len(slots)
    BY <1>1, LenProperties
<1>3. \A i \in 1 .. Len(slots) : protocol[i] \in Protocol
    BY <1>1, ElementOfSeq
<1>4. /\ protocol' = [i \in 1 .. Len(slots) |-> InitProtocol(i)]
      /\ \A i \in 1 .. Len(slots) : InitProtocol(i) \in Protocol
    BY <1>1, <1>2, <1>3 DEF InitAll, InitProtocol
<1>5. protocol' \in Seq(Protocol) /\ Len(protocol') = Len(slots)
    BY <1>2, <1>4
<1>6. TypeOK'
    BY <1>1, <1>5 DEF BusInv, TypeOK, InitAll, config, polling
<1>7. Distinct'
    BY <1>1 DEF BusInv, Distinct
<1>8. Protocols'
    BY <1>1, <1>2, <1>4 DEF BusInv, Protocols, InitProtocol
<1>9. asked = <<>> /\ out = <<>>
    BY <1>1 DEF BusInv, Progress
<1>10. Progress'
    BY <1>1, <1>9 DEF Progress
<1>11. InOrder' /\ Contiguous' /\ Within'
    BY <1>1, <1>9 DEF InOrder, Contiguous, Within
<1> QED BY <1>6, <1>7, <1>8, <1>10, <1>11 DEF BusInv

(* Steps that change neither the registry nor the batch. *)
LEMMA QuietKeeps ==
    ASSUME BusInv,
           UNCHANGED <<config, registry, polling, truth>>,
           phase' \in {"register", "idle", "poll", "read", "down"},
           (phase = "register") <=> (phase' = "register"),
           ctx' \in {"null", "connected", "broken"}, device' \in {"up", "down"},
           Progress'
    PROVE  BusInv'
<1>1. /\ slots' = slots /\ protocol' = protocol
      /\ transport' = transport /\ simulate' = simulate /\ truth' = truth
      /\ asked' = asked /\ out' = out
    BY DEF registry, config, polling
<1>2. TypeOK'
    BY <1>1 DEF BusInv, TypeOK
<1>3. Distinct' /\ Protocols'
    BY <1>1 DEF BusInv, Distinct, Protocols
<1>4. InOrder' /\ Contiguous' /\ Within'
    BY <1>1 DEF BusInv, InOrder, Contiguous, Within, End
<1> QED BY <1>2, <1>3, <1>4 DEF BusInv
-----------------------------------------------------------------------------
(* The invariant. *)

LEMMA InitBus == Init => BusInv
<1> SUFFICES ASSUME Init
             PROVE  BusInv
    OBVIOUS
<1>1. /\ slots = <<>> /\ protocol = <<>> /\ asked = <<>> /\ out = <<>>
      /\ phase = "register"
    BY DEF Init
<1>2. truth \in Measured
  <2>1. 0 \in Signed
      BY RegisterAssumption DEF Signed
  <2> QED BY <2>1 DEF Init, Measured
<1>3. TypeOK
    BY <1>1, <1>2, RegistryAssumption DEF Init, TypeOK
<1>4. Distinct /\ Protocols /\ Progress /\ InOrder /\ Contiguous /\ Within
    BY <1>1 DEF Distinct, Protocols, Progress, InOrder, Contiguous, Within
<1> QED BY <1>3, <1>4 DEF BusInv

LEMMA StepBus == BusInv /\ [Next]_vars => BusInv'
<1> SUFFICES ASSUME BusInv, [Next]_vars
             PROVE  BusInv'
    OBVIOUS
<1>1. /\ Len(out) \in Nat /\ Len(asked) \in Nat /\ Len(slots) \in Nat
      /\ MaxOut \in Nat /\ Room \in Int /\ Room >= 0
      /\ ctx \in {"null", "connected", "broken"} /\ device \in {"up", "down"}
      /\ truth \in Measured
      /\ phase \in {"register", "idle", "poll", "read", "down"}
    BY RegistryAssumption, LenProperties DEF BusInv, TypeOK, Room
<1>2. ASSUME NEW a \in Adapter, Register(a)
      PROVE  BusInv'
    BY <1>2, RegisterKeeps
<1>3. CASE InitAll
    BY <1>3, InitAllKeeps
<1>4. CASE BeginPoll
  <2>1. /\ slots' = slots /\ protocol' = protocol
        /\ transport' = transport /\ simulate' = simulate
        /\ phase = "idle" /\ phase' = "poll" /\ out' = <<>> /\ asked' = <<>>
        /\ ctx' = ctx /\ device' = device /\ truth' = truth
      BY <1>4 DEF BeginPoll, registry, config
  <2>2. TypeOK'
      BY <2>1, <1>1 DEF BusInv, TypeOK
  <2>3. Distinct' /\ Protocols'
      BY <2>1 DEF BusInv, Distinct, Protocols
  <2>4. Progress' /\ InOrder' /\ Contiguous' /\ Within'
      BY <2>1 DEF Progress, InOrder, Contiguous, Within
  <2> QED BY <2>2, <2>3, <2>4 DEF BusInv
<1>5. CASE PollStub
  <2>1. PICK n \in {0, 3} : n <= Room /\ Returned(n)
      BY <1>5, <1>1 DEF PollStub, Failed
  <2> QED
      BY <2>1, <1>1, <1>5, AnswerKeeps DEF PollStub, Polled
<1>6. CASE PollPlugin
  <2>1. PICK n \in 0 .. Room : Returned(n)
      BY <1>6, <1>1 DEF PollPlugin, Failed
  <2>2. phase = "poll" /\ Len(asked) < Len(slots)
      BY <1>6 DEF PollPlugin, Polled
  <2>3. n \in Nat /\ n <= Room
      BY <1>1
  <2> QED
      BY <2>1, <2>2, <2>3, <1>1, <1>6, AnswerKeeps DEF PollPlugin
<1>7. CASE PollSimulated
  <2>1. PICK n \in {0, 3} : n <= Room /\ Returned(n)
      BY <1>7, <1>1 DEF PollSimulated, Failed
  <2> QED
      BY <2>1, <1>1, <1>7, AnswerKeeps DEF PollSimulated, Polled
<1>8. CASE KeepContext \/ Connect
  <2>1. /\ UNCHANGED <<config, registry, polling, device, truth>>
        /\ phase = "poll" /\ phase' = "read"
        /\ ctx' \in {"null", "connected", "broken"}
        /\ Len(asked) < Len(slots) /\ Room >= 3
      BY <1>8, <1>1 DEF KeepContext, Connect, PollDevice, Polled
  <2>2. Progress'
      BY <2>1 DEF Progress, Room, polling, registry
  <2> QED BY <2>1, <2>2, <1>1, QuietKeeps
<1>9. CASE ConnectFails
    BY <1>9, <1>1, AnswerKeeps DEF ConnectFails, PollDevice, Polled, Failed
<1>10. phase = "read" => Len(asked) < Len(slots) /\ Room >= 3
    BY DEF BusInv, Progress
<1>11. CASE ReadRegisters
    BY <1>11, <1>10, <1>1, AnswerKeeps DEF ReadRegisters
<1>12. CASE ReadFails
    BY <1>12, <1>10, <1>1, AnswerKeeps DEF ReadFails, Failed, CloseContext
<1>13. CASE PollEnds
  <2>1. /\ UNCHANGED <<config, registry, polling, device, truth, ctx>>
        /\ phase = "poll" /\ phase' = "idle"
        /\ Len(asked) = Len(slots) \/ Room = 0
      BY <1>13 DEF PollEnds
  <2>2. Progress'
      BY <2>1 DEF Progress, Room, polling, registry
  <2> QED BY <2>1, <2>2, <1>1, QuietKeeps
<1>14. CASE ShutdownAll
  <2>1. /\ UNCHANGED <<config, registry, polling, device, truth>>
        /\ phase = "idle" /\ phase' = "down"
        /\ ctx' \in {"null", "connected", "broken"}
      BY <1>14, <1>1 DEF ShutdownAll, CloseContext
  <2>2. Progress'
      BY <2>1 DEF BusInv, Progress, Room, polling, registry
  <2> QED BY <2>1, <2>2, <1>1, QuietKeeps
<1>15. CASE DeviceFails \/ DeviceReturns \/ UNCHANGED vars
  <2>1. /\ UNCHANGED <<config, registry, polling, truth>> /\ phase' = phase
        /\ ctx' \in {"null", "connected", "broken"} /\ device' \in {"up", "down"}
      BY <1>15, <1>1 DEF DeviceFails, DeviceReturns, vars, config, registry, polling
  <2>2. Progress'
      BY <2>1 DEF BusInv, Progress, Room, polling, registry
  <2> QED BY <2>1, <2>2, <1>1, QuietKeeps
<1> QED
    BY <1>2, <1>3, <1>4, <1>5, <1>6, <1>7, <1>8, <1>9, <1>11, <1>12, <1>13, <1>14, <1>15
    DEF Next, PollStep

LEMMA BusInvariant == Spec => []BusInv
BY InitBus, StepBus, PTL DEF Spec

(* Types; whatever the plugins answer, no batch is longer than the array   *)
(* the ingress thread has for it (app.c:38, adapter.c:81-88).              *)
THEOREM TypeCorrect == Spec => []TypeOK
<1>1. BusInv => TypeOK
    BY DEF BusInv
<1> QED BY <1>1, BusInvariant, PTL

(* After a poll the batch is what the adapters delivered, in the order of  *)
(* the registry and without a gap; a failed adapter cost only its own      *)
(* points (adapter.c:77-90).                                               *)
THEOREM BatchesAreComplete == Spec => []BatchIsComplete
<1>1. BusInv => BatchIsComplete
    BY DEF BusInv, Progress, BatchIsComplete
<1> QED BY <1>1, BusInvariant, PTL

(* In a registry without duplicates one slot at most has a Modbus protocol, *)
(* and after modbus_init it has the one find_modbus_adapter looks for      *)
(* (app.c:57-66).                                                          *)
THEOREM CommandsFindTheBus == Spec => []CommandFindsBus
<1>1. ASSUME BusInv PROVE CommandFindsBus
  <2> SUFFICES ASSUME phase # "register", "modbus" \in ToSet(slots)
               PROVE  FindModbusAdapter # 0 /\ slots[FindModbusAdapter] = "modbus"
      BY DEF CommandFindsBus
  <2>1. slots \in Seq(Adapter) /\ transport \in {"rtu", "tcp"}
      BY <1>1 DEF BusInv, TypeOK
  <2>2. Len(slots) \in Nat /\ DOMAIN slots = 1 .. Len(slots)
      BY <2>1, LenProperties
  <2>3. PICK m \in DOMAIN slots : slots[m] = "modbus"
      BY InToSet
  <2>4. \A i \in DOMAIN slots : protocol[i] \in {"rtu", "tcp"} => i = m
    <3> SUFFICES ASSUME NEW i \in DOMAIN slots, i # m
                 PROVE  protocol[i] \notin {"rtu", "tcp"}
        OBVIOUS
    <3>1. slots[i] # "modbus"
        BY <1>1, <2>3 DEF BusInv, Distinct
    <3> QED BY <1>1, <3>1 DEF BusInv, Protocols, FilledProtocol
  <2>5. protocol[m] = transport
      BY <1>1, <2>3 DEF BusInv, Protocols
  <2>6. \A proto \in {"rtu", "tcp"} : Find(proto) = IF proto = transport THEN m ELSE 0
    <3> SUFFICES ASSUME NEW proto \in {"rtu", "tcp"}
                 PROVE  Find(proto) = IF proto = transport THEN m ELSE 0
        OBVIOUS
    <3> DEFINE found == {i \in DOMAIN slots : protocol[i] = proto}
    <3>1. found = IF proto = transport THEN {m} ELSE {}
        BY <2>3, <2>4, <2>5
    <3>2. Find(proto) = IF found = {} THEN 0
                        ELSE CHOOSE i \in found : \A j \in found : i <= j
        BY DEF Find
    <3> HIDE DEF found
    <3>3. m <= m
        BY <2>2, <2>3
    <3>4. CASE proto = transport
      <4>1. found = {m}
          BY <3>1, <3>4
      <4>2. \E i \in found : \A j \in found : i <= j
          BY <4>1, <3>3
      <4>3. (CHOOSE i \in found : \A j \in found : i <= j) \in found
          BY <4>2
      <4> QED BY <4>1, <4>3, <3>2, <3>4
    <3>5. CASE proto # transport
        BY <3>1, <3>2, <3>5
    <3> QED BY <3>4, <3>5
  <2>7. m # 0
      BY <2>2, <2>3
  <2> QED BY <2>1, <2>3, <2>6, <2>7 DEF FindModbusAdapter
<1> QED BY <1>1, BusInvariant, PTL

(* For every register width and every limit below half of it: a value is   *)
(* what the device measured, or a power or a charge below zero, or a       *)
(* temperature that the rule marks BAD (modbus_libmodbus.c:82-94,          *)
(* app.c:16-21).                                                           *)
THEOREM TheReadingsAreTrue == Spec => []ReadingsAreTrue
<1>1. ASSUME BusInv PROVE ReadingsAreTrue
  <2> SUFFICES ASSUME NEW p \in Point
               PROVE  \/ truth[p] % RegMod = truth[p]
                      \/ truth[p] < 0 /\ p # "max_cell_temp_c"
                      \/ Quality(p, truth[p] % RegMod) = "bad"
      BY DEF ReadingsAreTrue, MapRegisters
  <2> DEFINE x == truth[p]
  <2>1. x \in -(RegMod \div 2) .. (RegMod - 1) \div 2
      BY <1>1 DEF BusInv, TypeOK, Measured, Signed
  <2>2. RegMod \in Nat /\ RegMod > 0 /\ TempHigh \in Nat /\ 2 * TempHigh < RegMod
      BY RegisterAssumption
  <2> HIDE DEF x
  <2>3. CASE x >= 0
    <3>1. x < RegMod
        BY <2>1, <2>2
    <3>2. x % RegMod = x
        BY <2>1, <2>2, <2>3, <3>1
    <3> QED BY <3>2 DEF x
  <2>4. CASE x < 0
    <3>1. x + RegMod < RegMod /\ x + RegMod >= RegMod - RegMod \div 2
        BY <2>1, <2>2, <2>4
    <3>2. RegMod - RegMod \div 2 > TempHigh
        BY <2>2
    <3>3. x % RegMod = x + RegMod
        BY <2>1, <2>2, <2>4, <3>1
    <3>4. x % RegMod > TempHigh
        BY <2>1, <2>2, <3>1, <3>2, <3>3
    <3> QED BY <2>4, <3>4 DEF Quality, x
  <2> QED BY <2>1, <2>2, <2>3, <2>4
<1> QED BY <1>1, BusInvariant, PTL
=============================================================================
