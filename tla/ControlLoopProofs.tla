------------------------- MODULE ControlLoopProofs -------------------------
(***************************************************************************)
(* Proofs about ControlLoop, for a ring of any capacity, any readings and  *)
(* any number of polls, restarts and failed inserts.                       *)
(***************************************************************************)
EXTENDS ControlLoop, SequenceTheorems, FiniteSetTheorems, TLAPS

(* What has been taken from a poll and not processed yet, oldest first. *)
Stream == IF wpc = "evaluate" THEN <<point>> \o fifo ELSE fifo

Sample == [point_id : {"soc_percent", "max_cell_temp_c", "grid_power_kw"},
           value : Int, quality : {"good"}, ts : Nat]
Entry == [id : Nat, state : {"PENDING", "VERIFIED", "FAILED"}]
Order == <<"soc_percent", "max_cell_temp_c", "grid_power_kw">>

Typed ==
    /\ TypeOK
    /\ fifo \in Seq(Sample) /\ batch \in Seq(Sample) /\ point \in Sample
    /\ seen \in [{"soc_percent", "max_cell_temp_c", "grid_power_kw"} -> Sample]
    /\ dropped \in Nat /\ storeFailures \in Nat /\ command.ts \in Nat
    /\ queue \in Seq(Entry) /\ pending \in Seq(Entry) /\ log \in Seq(Entry)
    /\ written \in Seq([id : Nat, ok : BOOLEAN])
    /\ \A i \in 1 .. Len(queue) : queue[i].state = "PENDING"

(* The batch is the rest of the last poll, in the order of the registers,  *)
(* and timestamps never go back on their way to the engine.                *)
InOrder ==
    /\ \A k \in 1 .. Len(batch) :
          batch[k].ts = polls /\ batch[k].point_id = Order[3 - Len(batch) + k]
    /\ batch # <<>> => polls > 0
    /\ seen["soc_percent"].ts <= polls
    /\ \A i \in 1 .. Len(Stream) :
          Stream[i].ts \in 1 .. polls /\ seen["soc_percent"].ts <= Stream[i].ts
    /\ \A i, j \in 1 .. Len(Stream) : i < j => Stream[i].ts <= Stream[j].ts

(* A SOC at most dropped polls older than ts was processed, or is among    *)
(* the first n points of the stream; and the like for any temperature.     *)
SocNear(ts, n) ==
    \/ seen["soc_percent"].ts > 0 /\ ts - seen["soc_percent"].ts <= dropped
    \/ \E j \in 1 .. n : Stream[j].point_id = "soc_percent" /\ ts - Stream[j].ts <= dropped
TempBefore(n) ==
    \/ seen["max_cell_temp_c"].ts > 0
    \/ \E j \in 1 .. n : Stream[j].point_id = "max_cell_temp_c"

(* Since the last restart nothing has been pushed. *)
Fresh == Stream = <<>> /\ seen["soc_percent"].ts = 0 /\ Len(batch) \in {0, 3}

SocComesFirst ==
    /\ \A i \in 1 .. Len(Stream) : SocNear(Stream[i].ts, i)
    /\ Fresh \/ SocNear(IF Len(batch) = 3 THEN polls - 1 ELSE polls, Len(Stream))
    /\ seen["soc_percent"].ts > 0 => soc = seen["soc_percent"].value

TempComesFirst ==
    Cap >= 2 =>
        /\ \A i \in 1 .. Len(Stream) : Stream[i].point_id = "grid_power_kw" => TempBefore(i)
        /\ TempBefore(Len(Stream)) \/ Fresh \/ (Len(batch) = 2 /\ Len(Stream) <= 1)

(* From the engine's decision to the end of the tick the decision stands. *)
Based ==
    wpc \in {"submit", "tick", "write", "record"} =>
        /\ seen["soc_percent"].ts > 0
        /\ Cap >= 2 => seen["max_cell_temp_c"].ts > 0
        /\ command.ts - seen["soc_percent"].ts <= dropped

(* No counter gets past the number of points: neither wraps around. *)
Counted ==
    /\ nextCommandId + Len(Stream) + Len(batch) + dropped
         + (IF wpc = "submit" THEN 1 ELSE 0) <= 3 * polls + 1
    /\ wpc = "submit" => command.id = nextCommandId

Audited ==
    LET missing == Len(written) - Len(log)
        inHand == IF wpc = "record" THEN 1 ELSE 0
    IN  inHand <= missing /\ missing <= inHand + storeFailures + (boot - 1)

(* The inductive invariant. *)
LoopInv == Typed /\ InOrder /\ SocComesFirst /\ TempComesFirst /\ Based /\ Counted /\ Audited

PointIds == {"soc_percent", "max_cell_temp_c", "grid_power_kw"}

LEMMA Bounds ==
    /\ Cap \in Nat \ {0} /\ QueueMax \in Nat \ {0} /\ MaxPolls \in Nat \ {0} /\ MaxBoots \in Nat \ {0}
    /\ TempHigh \in Int /\ MinDischargeSoc \in Int /\ PeakShavingThreshold \in Int
    /\ MaxDischarge \in Int /\ InitialSoc \in Int
    /\ SocReading \subseteq Int /\ TempReading \subseteq Int /\ GridReading \subseteq Int
BY BoundsAssumption, ConfigAssumption

LEMMA LoopInit == Init => LoopInv
<1> SUFFICES ASSUME Init PROVE LoopInv
  OBVIOUS
<1> USE Bounds
<1>1. /\ fifo = <<>> /\ dropped = 0 /\ point = NoPoint /\ batch = <<>> /\ polls = 0 /\ wpc = "pop"
      /\ boot = 1 /\ storeFailures = 0 /\ seen = NothingSeen
      /\ queue = <<>> /\ nextCommandId = 1 /\ pending = <<>> /\ written = <<>> /\ log = <<>>
      /\ state = "INIT" /\ soc = InitialSoc /\ temp = 0 /\ grid = 0 /\ nextAlarmId = 1
      /\ alarm = [id |-> 0, code |-> "none", ts |-> 0] /\ command = [id |-> 0, target |-> 0, ts |-> 0]
  BY DEF Init, Engine!EngineInit, Scheduler!SchedulerInit, Engine!NoAlarm, Engine!NoCommand
<1>2. NoPoint \in Sample /\ NothingSeen \in [PointIds -> Sample] /\ NothingSeen["soc_percent"].ts = 0
  BY DEF NoPoint, NothingSeen, TelemetryInit, Sample, PointIds, Engine!PointId
<1>3. Stream = <<>> /\ Len(Stream) = 0
  BY <1>1 DEF Stream
<1>4. Engine!EngineTypeOK
  BY <1>1 DEF Engine!EngineTypeOK
<1>5. TypeOK
  BY <1>1, <1>4 DEF TypeOK, MaxId
<1>6. Typed
  BY <1>1, <1>2, <1>5 DEF Typed, PointIds
<1>7. InOrder
  BY <1>1, <1>2, <1>3 DEF InOrder
<1>8. Fresh
  BY <1>1, <1>2, <1>3 DEF Fresh
<1>9. SocComesFirst /\ TempComesFirst
  BY <1>1, <1>2, <1>3, <1>8 DEF SocComesFirst, TempComesFirst
<1>10. Based /\ Counted /\ Audited
  BY <1>1, <1>3 DEF Based, Counted, Audited
<1>11. QED
  BY <1>6, <1>7, <1>9, <1>10 DEF LoopInv

(* A point in front of a sequence. *)
LEMMA InFront ==
    ASSUME NEW S, NEW p \in S, NEW f \in Seq(S)
    PROVE  /\ <<p>> \o f \in Seq(S) /\ Len(<<p>> \o f) = Len(f) + 1
           /\ (<<p>> \o f)[1] = p /\ \A i \in 1 .. Len(f) : (<<p>> \o f)[i + 1] = f[i]
OBVIOUS

LEMMA StreamTyped ==
    ASSUME Typed
    PROVE  /\ Stream \in Seq(Sample) /\ Len(Stream) \in Nat
           /\ \A i \in 1 .. Len(Stream) : Stream[i].ts \in Nat
           /\ Len(fifo) \in Nat /\ Len(fifo) <= Len(Stream)
           /\ wpc # "evaluate" => Stream = fifo
<1>1. fifo \in Seq(Sample) /\ point \in Sample /\ Len(fifo) \in Nat
  BY DEF Typed
<1>2. Stream \in Seq(Sample) /\ Len(fifo) <= Len(Stream)
  BY <1>1, InFront DEF Stream
<1>3. Len(Stream) \in Nat
  BY <1>2, LenProperties
<1>4. ASSUME NEW i \in 1 .. Len(Stream) PROVE Stream[i].ts \in Nat
  <2>1. Stream[i] \in Sample
    BY <1>2, ElementOfSeq
  <2>2. QED
    BY <2>1 DEF Sample
<1>5. QED
  BY <1>1, <1>2, <1>3, <1>4 DEF Stream

(* What the engine makes of the point in hand. *)
LEMMA EngineStep ==
    ASSUME Typed, Engine!ProcessTelemetry(ApplyQualityRules(point), nextCommandId)
    PROVE  /\ Engine!EngineTypeOK' /\ command'.ts \in Nat
           /\ soc' = IF point.point_id = "soc_percent" THEN point.value ELSE soc
           /\ alarm'.id = 0 /\ command'.id # 0 =>
                /\ point.point_id = "grid_power_kw"
                /\ command'.id = nextCommandId /\ command'.ts = point.ts
<1> DEFINE p == ApplyQualityRules(point)
<1> USE Bounds
<1>1. /\ point \in Sample /\ Engine!EngineTypeOK /\ nextCommandId \in Nat
  BY SMTT(30) DEF Typed, TypeOK, MaxId
<1>2. /\ p.point_id = point.point_id /\ p.value = point.value /\ p.ts = point.ts
      /\ p.quality # "good" => point.point_id = "max_cell_temp_c"
      /\ p.value \in Int /\ p.ts \in Nat
  BY <1>1 DEF ApplyQualityRules, Sample
<1> HIDE DEF p
<1>3. CASE Engine!RejectBadQuality(p)
  BY <1>1, <1>2, <1>3 DEF Engine!RejectBadQuality, Engine!NoAlarm, Engine!NoCommand,
     Engine!engine, Engine!EngineTypeOK
<1>4. CASE Engine!TempHighAlarm(p)
  BY <1>1, <1>2, <1>4 DEF Engine!TempHighAlarm, Engine!UpdateSnapshot, Engine!MakeAlarm,
     Engine!NoCommand,
     Engine!EngineTypeOK
<1>5. CASE Engine!SocLowAlarm(p)
  BY <1>1, <1>2, <1>5 DEF Engine!SocLowAlarm, Engine!UpdateSnapshot, Engine!MakeAlarm,
     Engine!NoCommand,
     Engine!EngineTypeOK
<1>6. CASE Engine!Run(p, nextCommandId)
  <2> DEFINE kw == Engine!ClampDischarge(grid' - PeakShavingThreshold, MaxDischarge)
  <2>1. /\ soc' = IF p.point_id = "soc_percent" THEN p.value ELSE soc
        /\ soc' \in Int /\ temp' \in Int /\ grid' \in Int /\ state' = "RUNNING"
        /\ alarm'.id = 0 /\ nextAlarmId' = nextAlarmId
    BY <1>1, <1>2, <1>6 DEF Engine!Run, Engine!UpdateSnapshot, Engine!NoAlarm, Engine!EngineTypeOK
  <2>2. kw \in Int
    <3>1. ASSUME NEW x \in Int, NEW max \in Int PROVE Engine!ClampDischarge(x, max) \in Int
      BY DEF Engine!ClampDischarge
    <3>2. grid' - PeakShavingThreshold \in Int
      BY <2>1
    <3>3. QED
      BY <3>1, <3>2
  <2> HIDE DEF kw
  <2>3. \/ command' = Engine!NoCommand
        \/ p.point_id = "grid_power_kw" /\ command' = [id |-> nextCommandId, target |-> -kw, ts |-> p.ts]
    BY <1>6 DEF Engine!Run, Engine!ShavePeak, kw
  <2>4. /\ command'.id \in Nat /\ command'.target \in Int /\ command'.ts \in Nat
        /\ command'.id # 0 => /\ p.point_id = "grid_power_kw"
                              /\ command'.id = nextCommandId /\ command'.ts = p.ts
    BY <1>1, <1>2, <2>2, <2>3 DEF Engine!NoCommand
  <2>5. QED
    BY <1>1, <1>2, <2>1, <2>4 DEF Engine!EngineTypeOK
<1>7. QED
  BY <1>3, <1>4, <1>5, <1>6 DEF Engine!ProcessTelemetry, p

(* Every queued command is PENDING, so the tick takes the whole queue.     *)
LEMMA TakesAll ==
    ASSUME Typed
    PROVE  Scheduler!TakePending = queue
<1> DEFINE found == {i \in DOMAIN queue : queue[i].state = "PENDING"}
           Position(i) == Scheduler!Cardinality({j \in found : j <= i})
           n == Len(queue)
<1>1. n \in Nat /\ queue = [i \in 1 .. n |-> queue[i]] /\ found = 1 .. n
  BY DEF Typed
<1>2. ASSUME NEW m \in Nat PROVE Scheduler!Cardinality(1 .. m) = m
  <2>1. ASSUME NEW S PROVE Scheduler!Cardinality(S) = Cardinality(S)
    BY DEF Scheduler!Cardinality, Cardinality
  <2>2. Cardinality(1 .. m) = m
    BY FS_Interval
  <2>3. QED
    BY <2>1, <2>2
<1>3. ASSUME NEW i \in 1 .. n PROVE Position(i) = i
  <2>1. {j \in found : j <= i} = 1 .. i /\ i \in Nat
    BY <1>1
  <2>2. QED
    BY <1>2, <2>1
<1>4. Scheduler!Cardinality(found) = n
  BY <1>1, <1>2
<1> HIDE DEF Position
<1>5. ASSUME NEW k \in 1 .. n PROVE (CHOOSE i \in found : Position(i) = k) = k
  BY <1>1, <1>3
<1>6. Scheduler!TakePending = [k \in 1 .. n |-> queue[CHOOSE i \in found : Position(i) = k]]
  BY <1>4 DEF Scheduler!TakePending, Position
<1>7. QED
  BY <1>1, <1>5, <1>6

(* The steps after the engine's leave what is on its way to it alone. *)
LEMMA Downstream ==
    ASSUME LoopInv, wpc # "evaluate", wpc' # "evaluate",
           UNCHANGED <<fifo, dropped, point, batch, polls, soc, seen>>
    PROVE  InOrder' /\ SocComesFirst' /\ TempComesFirst' /\ Stream' = Stream
<1>1. Stream' = Stream
  BY DEF Stream
<1>2. InOrder'
  BY <1>1 DEF LoopInv, InOrder
<1>3. ASSUME NEW ts, NEW n PROVE (SocNear(ts, n)' <=> SocNear(ts, n)) /\ (TempBefore(n)' <=> TempBefore(n))
  BY <1>1 DEF SocNear, TempBefore
<1>4. Fresh' <=> Fresh
  BY <1>1 DEF Fresh
<1>5. SocComesFirst'
  BY <1>1, <1>3, <1>4 DEF LoopInv, SocComesFirst
<1>6. TempComesFirst'
  BY <1>1, <1>3, <1>4 DEF LoopInv, TempComesFirst
<1>7. QED
  BY <1>1, <1>2, <1>5, <1>6

LEMMA AlarmMoves ==
    ASSUME LoopInv, AppendAlarm
    PROVE  LoopInv'
<1>1. /\ wpc = "alarm" /\ wpc' = "publish" /\ storeFailures' \in {storeFailures, storeFailures + 1}
      /\ UNCHANGED <<fifo, dropped, point, batch, polls, state, soc, temp, grid, nextAlarmId, alarm, command,
                     queue, nextCommandId, pending, written, log, boot, seen>>
  BY DEF AppendAlarm, Fails, ringVars, ingressVars, engineVars, schedulerVars
<1>2. InOrder' /\ SocComesFirst' /\ TempComesFirst' /\ Stream' = Stream
  BY <1>1, Downstream
<1>3. Typed'
  BY <1>1 DEF LoopInv, Typed, TypeOK, Engine!EngineTypeOK
<1>4. Based' /\ Counted'
  BY <1>1, <1>2 DEF LoopInv, Based, Counted
<1>5. Audited'
  BY SMTT(30), <1>1 DEF LoopInv, Typed, TypeOK, Audited
<1>6. QED
  BY <1>2, <1>3, <1>4, <1>5 DEF LoopInv

(* Publishing, whether it returns or not, changes nothing here. *)
LEMMA PublishMoves ==
    ASSUME LoopInv, PublishReturns \/ PublishHangs
    PROVE  LoopInv'
<1>1. /\ wpc = "publish" /\ wpc' \in {"pop", "hung"}
      /\ UNCHANGED <<fifo, dropped, point, batch, polls, state, soc, temp, grid, nextAlarmId, alarm, command,
                     queue, nextCommandId, pending, written, log, boot, storeFailures, seen>>
  BY DEF PublishReturns, PublishHangs, ringVars, ingressVars, engineVars, schedulerVars, worldVars
<1>2. InOrder' /\ SocComesFirst' /\ TempComesFirst' /\ Stream' = Stream
  BY <1>1, Downstream
<1>3. Typed'
  BY <1>1 DEF LoopInv, Typed, TypeOK, Engine!EngineTypeOK
<1>4. Based' /\ Counted'
  BY <1>1, <1>2 DEF LoopInv, Based, Counted
<1>5. Audited'
  BY <1>1 DEF LoopInv, Audited
<1>6. QED
  BY <1>2, <1>3, <1>4, <1>5 DEF LoopInv

LEMMA SubmitMoves ==
    ASSUME LoopInv, SubmitCommand
    PROVE  LoopInv'
<1> USE Bounds
<1> DEFINE new == [id |-> nextCommandId, state |-> "PENDING"]
<1>1. /\ wpc = "submit" /\ command.id = nextCommandId /\ nextCommandId \in Nat \ {0}
      /\ UNCHANGED <<fifo, dropped, point, batch, polls, state, soc, temp, grid, nextAlarmId, alarm, command,
                     pending, written, log, alarms, boot, storeFailures, seen>>
  BY DEF SubmitCommand, Scheduler!Submit, ringVars, ingressVars, engineVars, worldVars, LoopInv,
     Counted,
     Typed, TypeOK, MaxId
<1>2. \/ wpc' = "publish" /\ UNCHANGED <<queue, nextCommandId>>
      \/ wpc' = "tick" /\ nextCommandId' = nextCommandId + 1 /\ queue' = Append(queue, new)
  <2> DEFINE used == IF command.id = 0 THEN nextCommandId ELSE command.id
  <2>1. used = nextCommandId
    BY <1>1
  <2>2. /\ wpc' = IF Scheduler!Full THEN "publish" ELSE "tick"
        /\ IF Scheduler!Full
           THEN UNCHANGED <<queue, nextCommandId>>
           ELSE /\ nextCommandId' = IF used >= nextCommandId THEN used + 1 ELSE nextCommandId
                /\ queue' = Append(queue, [id |-> used, state |-> "PENDING"])
    BY DEF SubmitCommand, Scheduler!Submit
  <2> HIDE DEF used
  <2>3. QED
    BY <1>1, <2>1, <2>2
<1>3. InOrder' /\ SocComesFirst' /\ TempComesFirst' /\ Stream' = Stream
  BY <1>1, <1>2, Downstream
<1>4. /\ Len(Stream) \in Nat /\ Len(batch) \in Nat /\ dropped \in Nat /\ polls \in 0 .. MaxPolls
      /\ nextCommandId + Len(Stream) + Len(batch) + dropped + 1 <= 3 * polls + 1
  <2>1. Len(Stream) \in Nat
    BY StreamTyped DEF LoopInv
  <2>2. QED
    BY <1>1, <2>1 DEF LoopInv, Typed, TypeOK, Counted
<1>5. Based'
  BY <1>1 DEF LoopInv, Based
<1>6. Counted'
  BY <1>1, <1>2, <1>3, <1>4 DEF Counted
<1>7. nextCommandId' \in 1 .. MaxId + 1
  BY <1>1, <1>2, <1>4 DEF MaxId
<1>8. queue' \in Seq(Entry) /\ \A i \in 1 .. Len(queue') : queue'[i].state = "PENDING"
  <2>1. queue \in Seq(Entry) /\ \A i \in 1 .. Len(queue) : queue[i].state = "PENDING"
    BY DEF LoopInv, Typed
  <2>2. CASE UNCHANGED queue
    BY <2>1, <2>2
  <2>3. CASE queue' = Append(queue, new)
    <3>1. new \in Entry /\ new.state = "PENDING"
      BY <1>1 DEF Entry
    <3> HIDE DEF new
    <3>2. /\ queue' \in Seq(Entry) /\ Len(queue') = Len(queue) + 1 /\ Len(queue) \in Nat
          /\ queue'[Len(queue) + 1] = new /\ \A i \in 1 .. Len(queue) : queue'[i] = queue[i]
      BY <2>1, <2>3, <3>1, AppendProperties
    <3>3. \A i \in 1 .. Len(queue') : i = Len(queue) + 1 \/ i \in 1 .. Len(queue)
      BY <3>2
    <3>4. QED
      BY <2>1, <3>1, <3>2, <3>3
  <2>4. QED
    BY <1>2, <2>2, <2>3
<1>9. Typed'
  <2>1. TypeOK'
    BY <1>1, <1>2, <1>7 DEF LoopInv, Typed, TypeOK, Engine!EngineTypeOK
  <2>2. QED
    BY <1>1, <1>8, <2>1 DEF LoopInv, Typed
<1>10. Audited'
  BY <1>1, <1>2 DEF LoopInv, Audited
<1>11. QED
  BY <1>3, <1>5, <1>6, <1>9, <1>10 DEF LoopInv

LEMMA TickMoves ==
    ASSUME LoopInv, TickTakesPending \/ TickWritesCommand \/ TickStoresCommand
    PROVE  LoopInv'
<1> USE Bounds
<1>1. /\ wpc \in {"tick", "write", "record"} /\ wpc' \in {"publish", "write", "record"}
      /\ UNCHANGED <<fifo, dropped, point, batch, polls, state, soc, temp, grid, nextAlarmId, alarm, command,
                     nextCommandId, alarms, boot, seen>>
  BY DEF TickTakesPending, TickWritesCommand, TickStoresCommand, Scheduler!TickBegin,
     Scheduler!TickWrite,
     Scheduler!TickStore, ringVars, ingressVars, engineVars, worldVars
<1>2. InOrder' /\ SocComesFirst' /\ TempComesFirst' /\ Stream' = Stream
  BY <1>1, Downstream
<1>3. Based' /\ Counted'
  BY <1>1, <1>2 DEF LoopInv, Based, Counted
<1>4. /\ queue \in Seq(Entry) /\ pending \in Seq(Entry) /\ log \in Seq(Entry)
      /\ written \in Seq([id : Nat, ok : BOOLEAN]) /\ storeFailures \in Nat
  BY DEF LoopInv, Typed
<1>5. TypeOK'
  BY <1>1 DEF LoopInv, Typed, TypeOK, Engine!EngineTypeOK
<1>6. boot \in Nat /\ Len(written) \in Nat /\ Len(log) \in Nat
  BY <1>4 DEF LoopInv, Typed, TypeOK
<1>7. CASE TickTakesPending
  <2>1. /\ pending' = queue /\ queue' = <<>> /\ wpc = "tick" /\ wpc' = "write"
        /\ UNCHANGED <<written, log, storeFailures>>
    BY <1>7, TakesAll DEF TickTakesPending, Scheduler!TickBegin, worldVars, LoopInv
  <2>2. Typed' /\ Audited'
    BY <1>1, <1>4, <1>5, <2>1 DEF LoopInv, Typed, Audited
  <2>3. QED
    BY <1>2, <1>3, <2>2 DEF LoopInv
<1>8. CASE TickWritesCommand
  <2> DEFINE answer == [id |-> Head(pending).id, ok |-> TRUE]
             done == [pending[1] EXCEPT !.state = "VERIFIED"]
  <2>1. /\ pending # <<>> /\ wpc = "write" /\ wpc' = "record"
        /\ written' = Append(written, answer)
        /\ pending' = [pending EXCEPT ![1].state = "VERIFIED"]
        /\ UNCHANGED <<queue, log, storeFailures>>
    BY <1>8 DEF TickWritesCommand, Scheduler!TickWrite, worldVars
  <2>2. Head(pending) = pending[1] /\ 1 \in 1 .. Len(pending) /\ pending[1] \in Entry
    BY <1>4, <2>1
  <2>3. answer \in [id : Nat, ok : BOOLEAN] /\ done \in Entry
    BY <2>2 DEF Entry
  <2>4. pending' = [pending EXCEPT ![1] = done]
    BY <2>1
  <2> HIDE DEF done, answer
  <2>5. pending' \in Seq(Entry)
    BY <1>4, <2>2, <2>3, <2>4, ExceptSeq
  <2>6. written' \in Seq([id : Nat, ok : BOOLEAN]) /\ Len(written') = Len(written) + 1 /\ Len(written) \in Nat
    BY <1>4, <2>1, <2>3, AppendProperties
  <2>7. Typed'
    BY <1>1, <1>4, <1>5, <2>1, <2>5, <2>6 DEF LoopInv, Typed
  <2>8. Audited'
    <3>1. 0 <= Len(written) - Len(log) /\ Len(written) - Len(log) <= storeFailures + (boot - 1)
      BY <1>4, <1>6, <2>1 DEF LoopInv, Audited
    <3>2. Len(written') = Len(written) + 1 /\ log' = log /\ boot' = boot /\ storeFailures' = storeFailures
          /\ wpc' = "record" /\ storeFailures \in Nat
      BY <1>1, <1>4, <2>1, <2>6
    <3>3. QED
      BY <1>6, <3>1, <3>2 DEF Audited
  <2>9. QED
    BY <1>2, <1>3, <2>7, <2>8 DEF LoopInv
<1>9. CASE TickStoresCommand
  <2>1. /\ pending # <<>> /\ wpc = "record" /\ wpc' \in {"publish", "write"} /\ pending' = Tail(pending)
        /\ UNCHANGED <<queue, written>>
        /\ \/ log' = Append(log, Head(pending)) /\ storeFailures' = storeFailures
           \/ log' = log /\ storeFailures' = storeFailures + 1
    BY <1>9 DEF TickStoresCommand, Scheduler!TickStore, Fails
  <2>2. Head(pending) \in Entry /\ pending' \in Seq(Entry)
    BY <1>4, <2>1
  <2>3. \/ log' \in Seq(Entry) /\ Len(log') = Len(log) + 1 /\ storeFailures' = storeFailures
        \/ log' = log /\ storeFailures' = storeFailures + 1
    <3>1. CASE log' = Append(log, Head(pending)) /\ storeFailures' = storeFailures
      BY <1>4, <2>2, <3>1, AppendProperties
    <3>2. QED
      BY <2>1, <3>1
  <2>4. Typed'
    BY <1>1, <1>4, <1>5, <2>1, <2>2, <2>3 DEF LoopInv, Typed
  <2>5. Len(written) \in Nat /\ Len(log) \in Nat /\ Len(written') = Len(written)
    BY <1>4, <2>1
  <2>6. Audited'
    BY SMTT(30), <1>1, <1>4, <1>6, <2>1, <2>3, <2>5 DEF LoopInv, Audited
  <2>7. QED
    BY <1>2, <1>3, <2>4, <2>6 DEF LoopInv
<1>10. QED
  BY <1>7, <1>8, <1>9

LEMMA PollMoves ==
    ASSUME LoopInv, PollAll
    PROVE  LoopInv'
<1> USE Bounds
<1>1. /\ batch = <<>> /\ polls < MaxPolls /\ polls' = polls + 1 /\ polls \in Nat
      /\ UNCHANGED <<fifo, dropped, point, state, soc, temp, grid, nextAlarmId, alarm, command,
                     queue, nextCommandId, pending, written, log, wpc, alarms, boot, storeFailures, seen>>
  BY DEF PollAll, ringVars, engineVars, schedulerVars, worldVars, LoopInv, Typed, TypeOK
<1>2. PICK s \in SocReading, t \in TempReading, g \in GridReading : batch' = Batch(s, t, g, polls')
  BY DEF PollAll
<1>3. /\ batch' \in Seq(Sample) /\ Len(batch') = 3
      /\ \A k \in 1 .. 3 : batch'[k].ts = polls' /\ batch'[k].point_id = Order[k]
  <2> DEFINE a == TelemetryInit("soc_percent", s, polls')
             b == TelemetryInit("max_cell_temp_c", t, polls')
             c == TelemetryInit("grid_power_kw", g, polls')
  <2>1. a \in Sample /\ b \in Sample /\ c \in Sample
    BY <1>1 DEF TelemetryInit, Sample
  <2>2. /\ a.ts = polls' /\ b.ts = polls' /\ c.ts = polls'
        /\ a.point_id = Order[1] /\ b.point_id = Order[2] /\ c.point_id = Order[3]
    BY DEF TelemetryInit, Order
  <2>3. batch' = <<a, b, c>>
    BY <1>2 DEF Batch
  <2> HIDE DEF a, b, c
  <2>4. QED
    BY <2>1, <2>2, <2>3
<1>4. Stream' = Stream
  BY <1>1 DEF Stream
<1>5. ASSUME NEW ts, NEW n PROVE (SocNear(ts, n)' <=> SocNear(ts, n)) /\ (TempBefore(n)' <=> TempBefore(n))
  BY <1>1, <1>4 DEF SocNear, TempBefore
<1>6. Fresh => Fresh'
  BY <1>1, <1>3, <1>4 DEF Fresh
<1>7. Typed'
  <2>1. TypeOK'
    BY <1>1, <1>3 DEF LoopInv, Typed, TypeOK, Engine!EngineTypeOK
  <2>2. QED
    BY <1>1, <1>3, <2>1 DEF LoopInv, Typed
<1>8. InOrder'
  <2>1. ASSUME NEW i \in 1 .. Len(Stream) PROVE Stream[i].ts \in 1 .. polls + 1
    BY <1>1 DEF LoopInv, InOrder
  <2>2. ASSUME NEW k \in 1 .. Len(batch')
        PROVE  batch'[k].ts = polls' /\ batch'[k].point_id = Order[3 - Len(batch') + k]
    BY <1>3
  <2>3. QED
    BY SMTT(30), <1>1, <1>4, <2>1, <2>2 DEF LoopInv, Typed, Sample, InOrder
<1>9. SocComesFirst'
  <2>1. Len(batch) = 0 /\ polls = polls' - 1 /\ Len(batch) # 3
    BY <1>1
  <2>2. Fresh \/ SocNear(polls' - 1, Len(Stream))
    BY <2>1 DEF LoopInv, SocComesFirst
  <2>3. Fresh' \/ SocNear(IF Len(batch) = 3 THEN polls - 1 ELSE polls, Len(Stream))'
    <3>1. PICK last, n : last = polls' - 1 /\ n = Len(Stream)
      OBVIOUS
    <3>2. Fresh' \/ SocNear(last, n)'
      BY <1>5, <1>6, <2>2, <3>1
    <3>3. QED
      BY <1>3, <1>4, <3>1, <3>2 DEF SocNear
  <2>4. QED
    BY <1>1, <1>4, <1>5, <2>3 DEF LoopInv, SocComesFirst
<1>10. TempComesFirst'
  <2>1. Len(batch) # 2
    BY <1>1
  <2>2. QED
    BY <1>1, <1>4, <1>5, <1>6, <2>1 DEF LoopInv, TempComesFirst
<1>11. Based' /\ Audited'
  BY <1>1 DEF LoopInv, Based, Audited
<1>12. Counted'
  <2>1. Len(Stream) \in Nat /\ nextCommandId \in Nat /\ dropped \in Nat
    BY StreamTyped DEF LoopInv, Typed, TypeOK, MaxId
  <2>2. QED
    BY <1>1, <1>3, <1>4, <2>1 DEF LoopInv, Counted
<1>13. QED
  BY <1>7, <1>8, <1>9, <1>10, <1>11, <1>12 DEF LoopInv

(* One point goes into the ring, or is refused and counted. *)
LEMMA PushMoves ==
    ASSUME LoopInv, Push
    PROVE  LoopInv'
<1> USE Bounds
<1> DEFINE v == Head(batch)
           b == Len(batch)
           accepted == Len(fifo) < Cap /\ fifo' = Append(fifo, v) /\ UNCHANGED dropped
           refused == Len(fifo) = Cap /\ dropped' = dropped + 1 /\ UNCHANGED fifo
<1>1. /\ batch # <<>> /\ batch' = Tail(batch)
      /\ UNCHANGED <<point, polls, state, soc, temp, grid, nextAlarmId, alarm, command,
                     queue, nextCommandId, pending, written, log, wpc, alarms, boot, storeFailures, seen>>
      /\ \/ Len(fifo) < Cap /\ fifo' = Append(fifo, v) /\ UNCHANGED dropped
         \/ Len(fifo) = Cap /\ dropped' = (dropped + 1) % MaxId /\ UNCHANGED fifo
  BY DEF Push, Ring!Accept, Ring!Reject, engineVars, schedulerVars, worldVars
<1>2. /\ batch \in Seq(Sample) /\ fifo \in Seq(Sample) /\ point \in Sample /\ b \in 0 .. 3 /\ dropped \in Nat
      /\ polls \in 0 .. MaxPolls /\ nextCommandId \in Nat \ {0} /\ Len(fifo) \in Nat /\ Len(fifo) <= Cap
  <2>1. batch \in Seq(Sample) /\ Len(batch) <= 3
    BY DEF LoopInv, Typed, TypeOK
  <2>2. Len(batch) \in Nat
    BY <2>1, LenProperties
  <2>3. b \in 0 .. 3
    <3>1. b \in Nat /\ b <= 3
      BY <2>1, <2>2
    <3> HIDE DEF b
    <3>2. QED
      BY <3>1
  <2>4. QED
    BY <2>1, <2>3 DEF LoopInv, Typed, TypeOK, MaxId
<1>3. /\ b \in 1 .. 3 /\ v = batch[1] /\ v \in Sample /\ batch' \in Seq(Sample) /\ Len(batch') = b - 1
      /\ \A k \in 1 .. b - 1 : batch'[k] = batch[k + 1]
  BY <1>1, <1>2
<1>4. PICK n : n = Len(Stream) /\ n \in Nat /\ Len(fifo) <= n
  BY StreamTyped DEF LoopInv
<1>5. accepted \/ refused
  <2>1. dropped + 1 <= 3 * polls
    BY SMTT(30), <1>2, <1>3, <1>4 DEF LoopInv, Counted
  <2>2. dropped + 1 < MaxId /\ MaxId \in Nat /\ dropped + 1 \in Nat
    BY <1>2, <2>1 DEF MaxId
  <2>3. ASSUME NEW x \in Nat, NEW m \in Nat, x < m PROVE x % m = x
    BY <2>3
  <2>4. (dropped + 1) % MaxId = dropped + 1
    BY <2>2, <2>3
  <2>5. QED
    BY <1>1, <2>4
<1>6. /\ v.ts = polls /\ v.point_id = Order[4 - b] /\ polls > 0 /\ v.ts \in Nat
      /\ \A k \in 1 .. b - 1 : batch'[k].ts = polls /\ batch'[k].point_id = Order[3 - (b - 1) + k]
  <2>1. 1 \in 1 .. b /\ \A k \in 1 .. b - 1 : k + 1 \in 1 .. b
    BY <1>3
  <2>2. 3 - b + 1 = 4 - b /\ \A k \in 1 .. b - 1 : 3 - b + (k + 1) = 3 - (b - 1) + k
    BY <1>3
  <2>3. QED
    BY <1>1, <1>2, <1>3, <2>1, <2>2 DEF LoopInv, InOrder
<1>7. /\ b = 3 => v.point_id = "soc_percent"
      /\ b = 2 => v.point_id = "max_cell_temp_c"
      /\ v.point_id = "soc_percent" => b = 3
      /\ v.point_id = "grid_power_kw" => b = 1
  <2>1. Order[1] = "soc_percent" /\ Order[2] = "max_cell_temp_c" /\ Order[3] = "grid_power_kw"
    BY DEF Order
  <2> HIDE DEF v, b
  <2>2. (b = 1 /\ 4 - b = 3) \/ (b = 2 /\ 4 - b = 2) \/ (b = 3 /\ 4 - b = 1)
    BY <1>3
  <2>3. QED
    BY <1>6, <2>1, <2>2
<1>8. accepted => fifo' \in Seq(Sample) /\ Len(fifo') = Len(fifo) + 1
  BY <1>2, <1>3, AppendProperties
<1>9. \A i \in 1 .. n : Stream[i].ts \in Nat
  BY <1>4, StreamTyped DEF LoopInv
<1>10. /\ accepted => /\ Len(Stream') = n + 1 /\ Stream'[n + 1] = v
                      /\ \A i \in 1 .. n : Stream'[i] = Stream[i]
       /\ refused => Stream' = Stream
  <2>1. refused => Stream' = Stream
    BY <1>1 DEF Stream
  <2>2. ASSUME accepted
        PROVE  Len(Stream') = n + 1 /\ Stream'[n + 1] = v /\ \A i \in 1 .. n : Stream'[i] = Stream[i]
    <3>1. fifo' = Append(fifo, v) /\ wpc' = wpc /\ point' = point
      BY <1>1, <2>2
    <3> HIDE DEF v
    <3>2. CASE wpc = "evaluate"
      <4>1. Stream = <<point>> \o fifo /\ Stream' = <<point>> \o Append(fifo, v)
        BY <3>1, <3>2 DEF Stream
      <4>2. QED
        BY <1>2, <1>3, <1>4, <4>1
    <3>3. CASE wpc # "evaluate"
      <4>1. Stream = fifo /\ Stream' = Append(fifo, v)
        BY <3>1, <3>3 DEF Stream
      <4>2. QED
        BY <1>2, <1>3, <1>4, <4>1, AppendProperties
    <3>4. QED
      BY <3>2, <3>3
  <2>3. QED
    BY <2>1, <2>2
<1> HIDE DEF accepted, refused, v, b
<1>11. /\ accepted => dropped' = dropped
       /\ refused => dropped' = dropped + 1 /\ Len(fifo) = Cap
       /\ refused => n >= Cap
  BY <1>2, <1>4 DEF accepted, refused
<1>12. seen["soc_percent"].ts \in Nat /\ seen["soc_percent"].ts <= polls /\ command.ts \in Nat
  BY DEF LoopInv, Typed, Sample, InOrder
<1>13. ASSUME NEW ts \in Int, NEW m \in 0 .. n, SocNear(ts, m)
       PROVE  SocNear(ts, m)' /\ (refused => SocNear(ts + 1, m)') /\ (accepted => SocNear(ts, m + 1)')
  <2>1. CASE seen["soc_percent"].ts > 0 /\ ts - seen["soc_percent"].ts <= dropped
    <3>1. dropped \in Nat /\ seen' = seen /\ (accepted \/ refused)
      BY <1>1, <1>2, <1>5
    <3>2. /\ ts - seen["soc_percent"].ts <= dropped'
          /\ refused => (ts + 1) - seen["soc_percent"].ts <= dropped'
      BY <1>11, <1>12, <2>1, <3>1
    <3>3. QED
      BY <2>1, <3>1, <3>2 DEF SocNear
  <2>2. ASSUME NEW j \in 1 .. m, Stream[j].point_id = "soc_percent", ts - Stream[j].ts <= dropped
        PROVE  SocNear(ts, m)' /\ (refused => SocNear(ts + 1, m)') /\ (accepted => SocNear(ts, m + 1)')
    <3>1. j \in 1 .. n /\ j \in 1 .. m + 1 /\ Stream'[j] = Stream[j] /\ Stream[j].ts \in Nat
      BY <1>4, <1>5, <1>9, <1>10
    <3>2. /\ ts - Stream'[j].ts <= dropped' /\ Stream'[j].point_id = "soc_percent"
          /\ refused => (ts + 1) - Stream'[j].ts <= dropped'
      BY <1>2, <1>5, <1>11, <2>2, <3>1
    <3>3. QED
      BY <3>1, <3>2 DEF SocNear
  <2>3. QED
    BY <1>13, <2>1, <2>2 DEF SocNear
<1>14. ASSUME NEW m \in 0 .. n, TempBefore(m)
       PROVE  TempBefore(m)' /\ (accepted => TempBefore(m + 1)')
  <2>1. CASE seen["max_cell_temp_c"].ts > 0
    BY <1>1, <2>1 DEF TempBefore
  <2>2. ASSUME NEW j \in 1 .. m, Stream[j].point_id = "max_cell_temp_c"
        PROVE  TempBefore(m)' /\ (accepted => TempBefore(m + 1)')
    <3>1. j \in 1 .. n /\ j \in 1 .. m + 1 /\ Stream'[j] = Stream[j]
      BY <1>4, <1>5, <1>10
    <3>2. QED
      BY <2>2, <3>1 DEF TempBefore
  <2>3. QED
    BY <1>14, <2>1, <2>2 DEF TempBefore
<1>15. Fresh => b = 3 /\ n = 0 /\ accepted
  BY <1>2, <1>3, <1>4, <1>5, <1>11 DEF Fresh, b
<1>16. Typed'
  <2>1. fifo' \in Seq(Sample) /\ Len(fifo') <= Cap /\ dropped' \in Nat
    BY <1>2, <1>5, <1>8 DEF accepted, refused
  <2>2. TypeOK'
    BY <1>1, <1>3, <2>1 DEF LoopInv, Typed, TypeOK, Engine!EngineTypeOK
  <2>3. QED
    BY <1>1, <1>3, <2>1, <2>2 DEF LoopInv, Typed
<1>17. Len(Stream') \in {n, n + 1} /\ (accepted => Len(Stream') = n + 1) /\ (refused => Len(Stream') = n)
       /\ \A i \in 1 .. n : Stream'[i] = Stream[i]
  BY <1>4, <1>5, <1>10
<1>18. \A i \in 1 .. Len(Stream') : i \in 1 .. n \/ (accepted /\ i = n + 1 /\ Stream'[i] = v)
  BY <1>4, <1>5, <1>10, <1>17
<1>19. InOrder'
  <2>1. ASSUME NEW i \in 1 .. Len(Stream')
        PROVE  Stream'[i].ts \in 1 .. polls /\ seen["soc_percent"].ts <= Stream'[i].ts
    BY <1>2, <1>4, <1>6, <1>12, <1>17, <1>18 DEF LoopInv, InOrder
  <2>2. ASSUME NEW i \in 1 .. Len(Stream'), NEW j \in 1 .. Len(Stream'), i < j
        PROVE  Stream'[i].ts <= Stream'[j].ts
    <3>1. i \in 1 .. n
      BY <1>4, <1>17, <2>2
    <3>2. CASE j \in 1 .. n
      BY <1>4, <1>17, <2>2, <3>1, <3>2 DEF LoopInv, InOrder
    <3>3. CASE Stream'[j] = v
      BY <1>6, <2>1, <3>1, <3>3
    <3>4. QED
      BY <1>18, <3>2, <3>3
  <2>3. QED
    BY <1>1, <1>3, <1>6, <1>12, <2>1, <2>2 DEF InOrder
<1>20. PICK now : now = polls /\ now \in Int
  BY <1>2
<1>21. SocNear(now, Len(Stream))'
  <2>1. CASE accepted /\ b = 3
    <3>1. n + 1 \in 1 .. Len(Stream') /\ Stream'[n + 1].point_id = "soc_percent" /\ Stream'[n + 1].ts = now
      BY <1>4, <1>6, <1>7, <1>10, <1>20, <2>1
    <3>2. now - Stream'[n + 1].ts <= dropped'
      BY <1>2, <1>11, <1>20, <2>1, <3>1
    <3>3. QED
      BY <3>1, <3>2 DEF SocNear
  <2>2. CASE refused /\ b = 3
    <3>1. SocNear(now - 1, n)
      BY <1>4, <1>11, <1>15, <1>20, <2>2 DEF LoopInv, SocComesFirst, accepted, refused, b
    <3>2. SocNear((now - 1) + 1, n)'
      BY <1>4, <1>13, <1>20, <2>2, <3>1
    <3>3. (now - 1) + 1 = now
      BY <1>20
    <3>4. QED
      BY <1>17, <2>2, <3>2, <3>3 DEF SocNear
  <2>3. CASE b # 3
    <3>1. SocNear(now, n)
      BY <1>4, <1>15, <1>20, <2>3 DEF LoopInv, SocComesFirst, b
    <3>2. SocNear(now, n)' /\ (accepted => SocNear(now, n + 1)')
      BY <1>4, <1>13, <1>20, <3>1
    <3>3. QED
      BY <1>5, <1>17, <3>2 DEF SocNear
  <2>4. QED
    BY <1>5, <2>1, <2>2, <2>3
<1>22. SocComesFirst'
  <2>1. ASSUME NEW i \in 1 .. Len(Stream') PROVE SocNear(Stream[i].ts, i)'
    <3>1. CASE i \in 1 .. n
      <4>1. PICK ts : ts = Stream[i].ts /\ ts \in Int /\ Stream'[i].ts = ts
        BY <1>9, <1>17, <3>1
      <4>2. SocNear(ts, i)'
        BY <1>4, <1>13, <3>1, <4>1 DEF LoopInv, SocComesFirst
      <4>3. QED
        BY <4>1, <4>2 DEF SocNear
    <3>2. CASE accepted /\ i = n + 1 /\ Stream'[i] = v
      BY <1>6, <1>17, <1>20, <1>21, <3>2 DEF SocNear
    <3>3. QED
      BY <1>18, <3>1, <3>2
  <2>2. SocNear(IF Len(batch) = 3 THEN polls - 1 ELSE polls, Len(Stream))'
    <3>1. Len(batch') # 3 /\ polls' = now
      <4>1. polls' = polls
        BY <1>1
      <4>2. QED
        BY <1>3, <1>20, <4>1
    <3>2. QED
      BY <1>21, <3>1 DEF SocNear
  <2>3. QED
    BY <1>1, <2>1, <2>2 DEF LoopInv, SocComesFirst
<1>23. TempComesFirst'
  <2> SUFFICES ASSUME Cap >= 2
               PROVE  /\ \A i \in 1 .. Len(Stream') : Stream'[i].point_id = "grid_power_kw" => TempBefore(i)'
                      /\ \/ TempBefore(Len(Stream))' \/ Fresh'
                         \/ Len(batch') = 2 /\ Len(Stream') <= 1
    BY DEF TempComesFirst
  <2>1. \/ TempBefore(n)
        \/ b = 3 /\ n = 0 /\ accepted
        \/ b = 2 /\ n <= 1 /\ accepted
    <3>1. TempBefore(n) \/ Fresh \/ (b = 2 /\ n <= 1)
      BY <1>4 DEF LoopInv, TempComesFirst, b
    <3>2. n <= 1 => accepted
      BY <1>4, <1>5, <1>11
    <3>3. QED
      BY <1>15, <3>1, <3>2
  <2>2. CASE TempBefore(n)
    <3>1. TempBefore(n)' /\ (accepted => TempBefore(n + 1)')
      BY <1>4, <1>14, <2>2
    <3>2. TempBefore(Len(Stream))'
      BY <1>5, <1>17, <3>1 DEF TempBefore
    <3>3. ASSUME NEW i \in 1 .. Len(Stream'), Stream'[i].point_id = "grid_power_kw" PROVE TempBefore(i)'
      <4>1. CASE i \in 1 .. n
        BY <1>4, <1>14, <1>17, <3>3, <4>1 DEF LoopInv, TempComesFirst
      <4>2. CASE accepted /\ i = n + 1
        BY <3>1, <4>2
      <4>3. QED
        BY <1>18, <4>1, <4>2
    <3>4. QED
      BY <3>2, <3>3
  <2>3. ASSUME b \in {2, 3}, accepted, NEW i \in 1 .. Len(Stream'), Stream'[i].point_id = "grid_power_kw"
        PROVE  TempBefore(i)'
    <3>1. i \in 1 .. n
      BY <1>7, <1>18, <2>3
    <3>2. QED
      BY <1>4, <1>14, <1>17, <2>3, <3>1 DEF LoopInv, TempComesFirst
  <2>4. CASE b = 3 /\ n = 0 /\ accepted
    <3>1. Len(batch') = 2
      BY <1>3, <2>4
    <3>2. Len(Stream') <= 1
      <4>1. Len(Stream') = n + 1 /\ n = 0
        BY <1>17, <2>4
      <4>2. QED
        BY <4>1
    <3>3. QED
      BY <2>3, <2>4, <3>1, <3>2
  <2>5. CASE b = 2 /\ n <= 1 /\ accepted
    <3>1. n + 1 \in 1 .. Len(Stream') /\ Stream'[n + 1].point_id = "max_cell_temp_c"
      BY <1>4, <1>7, <1>10, <2>5
    <3>2. TempBefore(Len(Stream))'
      BY <3>1 DEF TempBefore
    <3>3. QED
      BY <2>3, <2>5, <3>2
  <2>6. QED
    BY <2>1, <2>2, <2>4, <2>5
<1>24. Based'
  BY <1>1, <1>2, <1>5, <1>11, <1>12 DEF LoopInv, Based
<1>25. Counted'
  <2>1. Len(batch') = Len(batch) - 1 /\ Len(batch) \in Nat
    BY <1>3 DEF b
  <2>2. Len(Stream') + dropped' = Len(Stream) + dropped + 1 /\ Len(Stream') \in Nat /\ dropped' \in Nat
    BY <1>2, <1>4, <1>5, <1>11, <1>17
  <2>3. QED
    BY SMTT(30), <1>1, <1>2, <1>4, <2>1, <2>2 DEF LoopInv, Counted
<1>26. Audited'
  BY <1>1 DEF LoopInv, Audited
<1>27. QED
  BY <1>16, <1>19, <1>22, <1>23, <1>24, <1>25, <1>26 DEF LoopInv

(* The worker takes a point: it is still in the stream. *)
LEMMA PopMoves ==
    ASSUME LoopInv, Pop
    PROVE  LoopInv'
<1> USE Bounds
<1>1. /\ wpc = "pop" /\ wpc' = "evaluate" /\ fifo # <<>> /\ point' = Head(fifo) /\ fifo' = Tail(fifo)
      /\ UNCHANGED <<dropped, batch, polls, state, soc, temp, grid, nextAlarmId, alarm, command,
                     queue, nextCommandId, pending, written, log, alarms, boot, storeFailures, seen>>
  BY DEF Pop, Ring!Deliver, ingressVars, engineVars, schedulerVars, worldVars
<1>2. fifo \in Seq(Sample) /\ Len(fifo) \in Nat /\ Len(fifo) <= Cap
  BY DEF LoopInv, Typed, TypeOK
<1>3. /\ point' \in Sample /\ point' = fifo[1] /\ fifo' \in Seq(Sample) /\ Len(fifo') = Len(fifo) - 1
      /\ \A i \in 1 .. Len(fifo) - 1 : fifo'[i] = fifo[i + 1]
  BY <1>1, <1>2
<1>4. Stream' = Stream
  <2>1. Stream = fifo /\ Stream' = <<point'>> \o fifo'
    BY <1>1 DEF Stream
  <2>2. /\ Stream' \in Seq(Sample) /\ Len(Stream') = Len(fifo) /\ Stream'[1] = fifo[1]
        /\ \A i \in 1 .. Len(fifo) - 1 : Stream'[i + 1] = fifo[i + 1]
    BY <1>2, <1>3, <2>1, InFront
  <2>3. ASSUME NEW i \in 1 .. Len(fifo) PROVE Stream'[i] = fifo[i]
    <3>1. i = 1 \/ (i - 1 \in 1 .. Len(fifo) - 1 /\ (i - 1) + 1 = i)
      BY <1>2
    <3>2. QED
      BY <2>2, <3>1
  <2>4. QED
    BY <1>2, <2>1, <2>2, <2>3, SeqEqual
<1>5. ASSUME NEW ts, NEW n PROVE (SocNear(ts, n)' <=> SocNear(ts, n)) /\ (TempBefore(n)' <=> TempBefore(n))
  BY <1>1, <1>4 DEF SocNear, TempBefore
<1>6. Fresh' <=> Fresh
  BY <1>1, <1>4 DEF Fresh
<1>7. Typed'
  <2>1. TypeOK'
    BY <1>1, <1>2, <1>3 DEF LoopInv, Typed, TypeOK, Engine!EngineTypeOK
  <2>2. QED
    BY <1>1, <1>3, <2>1 DEF LoopInv, Typed
<1>8. InOrder'
  BY <1>1, <1>4 DEF LoopInv, InOrder
<1>9. SocComesFirst' /\ TempComesFirst'
  BY <1>1, <1>4, <1>5, <1>6 DEF LoopInv, SocComesFirst, TempComesFirst
<1>10. Based' /\ Counted' /\ Audited'
  BY <1>1, <1>4 DEF LoopInv, Based, Counted, Audited
<1>11. QED
  BY <1>7, <1>8, <1>9, <1>10 DEF LoopInv

(* The point in hand becomes the last one seen of its kind. *)
LEMMA EvaluateMoves ==
    ASSUME LoopInv, Evaluate
    PROVE  LoopInv'
<1> USE Bounds
<1> DEFINE id == point.point_id
<1>1. /\ wpc = "evaluate" /\ seen' = [seen EXCEPT ![id] = point]
      /\ wpc' = IF alarm'.id # 0 THEN "alarm" ELSE IF command'.id # 0 THEN "submit" ELSE "publish"
      /\ UNCHANGED <<fifo, dropped, point, batch, polls, queue, nextCommandId, pending, written, log,
                     alarms, boot, storeFailures>>
  BY DEF Evaluate, ringVars, ingressVars, schedulerVars, worldVars
<1>2. /\ Engine!EngineTypeOK' /\ command'.ts \in Nat
      /\ soc' = IF id = "soc_percent" THEN point.value ELSE soc
      /\ alarm'.id = 0 /\ command'.id # 0 =>
           id = "grid_power_kw" /\ command'.id = nextCommandId /\ command'.ts = point.ts
  BY EngineStep DEF Evaluate, LoopInv
<1>3. /\ fifo \in Seq(Sample) /\ point \in Sample /\ seen \in [PointIds -> Sample] /\ id \in PointIds
      /\ point.ts \in Nat /\ dropped \in Nat /\ polls \in Nat
  BY DEF LoopInv, Typed, TypeOK, Sample, PointIds
<1>4. /\ seen' \in [PointIds -> Sample] /\ seen'[id] = point
      /\ \A x \in PointIds : x # id => seen'[x] = seen[x]
  BY <1>1, <1>3
<1> HIDE DEF id
<1>5. "soc_percent" \in PointIds /\ "max_cell_temp_c" \in PointIds
  BY DEF PointIds
<1>6. /\ seen["soc_percent"].ts \in Nat /\ seen["max_cell_temp_c"].ts \in Nat
      /\ seen["soc_percent"].ts <= polls
  <2>1. seen["soc_percent"] \in Sample /\ seen["max_cell_temp_c"] \in Sample
    BY <1>3, <1>5
  <2>2. QED
    BY <2>1 DEF Sample, LoopInv, InOrder
<1>7. PICK n : n = Len(Stream) /\ n \in Nat \ {0} /\ Stream[1] = point /\ Len(Stream') = n - 1
               /\ (\A i \in 1 .. n - 1 : Stream'[i] = Stream[i + 1])
               /\ \A i \in 1 .. n : Stream[i].ts \in Nat
  <2>1. Stream = <<point>> \o fifo /\ Stream' = fifo
    BY <1>1 DEF Stream
  <2>2. /\ Len(Stream) = Len(fifo) + 1 /\ Stream[1] = point /\ Len(fifo) \in Nat
        /\ \A i \in 1 .. Len(fifo) : Stream[i + 1] = fifo[i]
    BY <1>3, <2>1, InFront
  <2>3. \A i \in 1 .. Len(Stream) : Stream[i].ts \in Nat
    BY StreamTyped DEF LoopInv
  <2>4. QED
    BY <2>1, <2>2, <2>3
<1>8. /\ point.ts \in 1 .. polls /\ seen["soc_percent"].ts <= point.ts
      /\ \A i \in 1 .. n : point.ts <= Stream[i].ts
  <2>1. 1 \in 1 .. n
    BY <1>7
  <2>2. ASSUME NEW i \in 1 .. n PROVE point.ts <= Stream[i].ts
    <3>1. i = 1 \/ 1 < i
      BY <1>7
    <3>2. QED
      BY <1>3, <1>7, <2>1, <3>1 DEF LoopInv, InOrder
  <2>3. QED
    BY <1>7, <2>1, <2>2 DEF LoopInv, InOrder
<1>9. /\ seen'["soc_percent"].ts \in Nat /\ seen["soc_percent"].ts <= seen'["soc_percent"].ts
      /\ seen'["soc_percent"].ts <= polls
      /\ id = "soc_percent" => seen'["soc_percent"] = point
      /\ id # "soc_percent" => seen'["soc_percent"] = seen["soc_percent"]
      /\ seen["max_cell_temp_c"].ts > 0 => seen'["max_cell_temp_c"].ts > 0
      /\ id = "max_cell_temp_c" => seen'["max_cell_temp_c"].ts > 0
  <2>1. /\ id = "soc_percent" => seen'["soc_percent"] = point
        /\ id # "soc_percent" => seen'["soc_percent"] = seen["soc_percent"]
        /\ id = "max_cell_temp_c" => seen'["max_cell_temp_c"] = point
        /\ id # "max_cell_temp_c" => seen'["max_cell_temp_c"] = seen["max_cell_temp_c"]
    BY <1>4, <1>5
  <2>2. QED
    BY <1>3, <1>6, <1>8, <2>1
<1>10. ASSUME NEW ts \in Int, NEW m \in 1 .. n, SocNear(ts, m)
       PROVE  SocNear(ts, m - 1)'
  <2>1. CASE seen["soc_percent"].ts > 0 /\ ts - seen["soc_percent"].ts <= dropped
    <3>1. seen'["soc_percent"].ts > 0 /\ ts - seen'["soc_percent"].ts <= dropped'
      BY <1>1, <1>3, <1>6, <1>9, <2>1
    <3>2. QED
      BY <3>1 DEF SocNear
  <2>2. ASSUME NEW j \in 1 .. m, Stream[j].point_id = "soc_percent", ts - Stream[j].ts <= dropped
        PROVE  SocNear(ts, m - 1)'
    <3>1. CASE j = 1
      <4>1. seen'["soc_percent"].ts = point.ts /\ point.ts > 0
        BY <1>7, <1>8, <1>9, <2>2, <3>1 DEF id
      <4>2. ts - seen'["soc_percent"].ts <= dropped'
        BY <1>1, <1>7, <2>2, <3>1, <4>1
      <4>3. QED
        BY <1>3, <4>1, <4>2 DEF SocNear
    <3>2. CASE j # 1
      <4>1. j - 1 \in 1 .. m - 1 /\ j - 1 \in 1 .. n - 1 /\ (j - 1) + 1 = j
        BY <1>7, <3>2
      <4>2. Stream'[j - 1] = Stream[j] /\ dropped' = dropped
        BY <1>1, <1>7, <4>1
      <4>3. QED
        BY <2>2, <4>1, <4>2 DEF SocNear
    <3>3. QED
      BY <3>1, <3>2
  <2>3. QED
    BY <1>10, <2>1, <2>2 DEF SocNear
<1>11. ASSUME NEW m \in 1 .. n, TempBefore(m)
       PROVE  TempBefore(m - 1)'
  <2>1. CASE seen["max_cell_temp_c"].ts > 0
    BY <1>9, <2>1 DEF TempBefore
  <2>2. ASSUME NEW j \in 1 .. m, Stream[j].point_id = "max_cell_temp_c"
        PROVE  TempBefore(m - 1)'
    <3>1. CASE j = 1
      BY <1>7, <1>9, <2>2, <3>1 DEF TempBefore, id
    <3>2. CASE j # 1
      <4>1. j - 1 \in 1 .. m - 1 /\ j - 1 \in 1 .. n - 1 /\ (j - 1) + 1 = j
        BY <1>7, <3>2
      <4>2. Stream'[j - 1] = Stream[j]
        BY <1>7, <4>1
      <4>3. QED
        BY <2>2, <4>1, <4>2 DEF TempBefore
    <3>3. QED
      BY <3>1, <3>2
  <2>3. QED
    BY <1>11, <2>1, <2>2 DEF TempBefore
<1>12. ~Fresh
  <2>1. Stream # <<>>
    BY <1>7
  <2>2. QED
    BY <2>1 DEF Fresh
<1>13. Typed'
  <2>1. wpc' \in {"alarm", "submit", "publish"}
    BY <1>1
  <2>2. TypeOK'
    BY <1>1, <1>2, <2>1 DEF LoopInv, Typed, TypeOK
  <2>3. QED
    BY <1>1, <1>2, <1>4, <2>2 DEF LoopInv, Typed, PointIds
<1>14. InOrder'
  <2>1. ASSUME NEW i \in 1 .. n - 1
        PROVE  i + 1 \in 1 .. n /\ Stream'[i] = Stream[i + 1] /\ Stream'[i].ts \in 1 .. polls
               /\ seen'["soc_percent"].ts <= Stream'[i].ts
    <3>1. i + 1 \in 1 .. n /\ Stream'[i] = Stream[i + 1]
      BY <1>7
    <3>2. Stream[i + 1].ts \in 1 .. polls /\ seen["soc_percent"].ts <= Stream[i + 1].ts
      BY <1>7, <3>1 DEF LoopInv, InOrder
    <3>3. point.ts <= Stream[i + 1].ts
      BY <1>8, <3>1
    <3>4. QED
      BY <1>9, <3>1, <3>2, <3>3
  <2>2. ASSUME NEW i \in 1 .. n - 1, NEW j \in 1 .. n - 1, i < j PROVE Stream'[i].ts <= Stream'[j].ts
    BY <1>7, <2>1, <2>2 DEF LoopInv, InOrder
  <2>3. QED
    BY <1>1, <1>7, <1>9, <2>1, <2>2 DEF LoopInv, InOrder
<1>15. SocComesFirst'
  <2>1. ASSUME NEW i \in 1 .. n - 1 PROVE SocNear(Stream[i].ts, i)'
    <3>1. PICK ts : ts = Stream[i + 1].ts /\ ts \in Int /\ Stream'[i].ts = ts
      BY <1>7
    <3>2. i + 1 \in 1 .. n /\ (i + 1) - 1 = i /\ SocNear(ts, i + 1)
      BY <1>7, <3>1 DEF LoopInv, SocComesFirst
    <3>3. SocNear(ts, i)'
      BY <1>10, <3>1, <3>2
    <3>4. QED
      BY <3>1, <3>3 DEF SocNear
  <2>2. SocNear(IF Len(batch) = 3 THEN polls - 1 ELSE polls, Len(Stream))'
    <3>1. PICK ts : ts = (IF Len(batch) = 3 THEN polls - 1 ELSE polls) /\ ts \in Int
      BY <1>3
    <3>2. SocNear(ts, n)
      BY <1>7, <1>12, <3>1 DEF LoopInv, SocComesFirst
    <3>3. SocNear(ts, n - 1)'
      BY <1>7, <1>10, <3>1, <3>2
    <3>4. ts = (IF Len(batch') = 3 THEN polls' - 1 ELSE polls') /\ Len(Stream') = n - 1
      BY <1>1, <1>7, <3>1
    <3>5. QED
      BY <3>3, <3>4 DEF SocNear
  <2>3. seen'["soc_percent"].ts > 0 => soc' = seen'["soc_percent"].value
    BY <1>2, <1>9 DEF LoopInv, SocComesFirst
  <2>4. QED
    BY <1>7, <2>1, <2>2, <2>3 DEF SocComesFirst
<1>16. TempComesFirst'
  <2> SUFFICES ASSUME Cap >= 2
               PROVE  /\ \A i \in 1 .. Len(Stream') : Stream'[i].point_id = "grid_power_kw" => TempBefore(i)'
                      /\ \/ TempBefore(Len(Stream))' \/ Fresh'
                         \/ Len(batch') = 2 /\ Len(Stream') <= 1
    BY DEF TempComesFirst
  <2>1. ASSUME NEW i \in 1 .. n - 1, Stream'[i].point_id = "grid_power_kw" PROVE TempBefore(i)'
    <3>1. i + 1 \in 1 .. n /\ (i + 1) - 1 = i /\ Stream'[i] = Stream[i + 1]
      BY <1>7
    <3>2. TempBefore(i + 1)
      BY <1>7, <2>1, <3>1 DEF LoopInv, TempComesFirst
    <3>3. QED
      BY <1>11, <3>1, <3>2
  <2>2. TempBefore(n) \/ (Len(batch) = 2 /\ n <= 1)
    BY <1>7, <1>12 DEF LoopInv, TempComesFirst
  <2>3. CASE TempBefore(n)
    <3>1. TempBefore(n - 1)'
      BY <1>7, <1>11, <2>3
    <3>2. TempBefore(Len(Stream))'
      BY <1>7, <3>1 DEF TempBefore
    <3>3. QED
      BY <1>7, <2>1, <3>2
  <2>4. CASE Len(batch) = 2 /\ n <= 1
    BY <1>1, <1>7, <2>1, <2>4
  <2>5. QED
    BY <2>2, <2>3, <2>4
<1>17. Based'
  <2> SUFFICES ASSUME wpc' = "submit"
               PROVE  /\ seen'["soc_percent"].ts > 0
                      /\ Cap >= 2 => seen'["max_cell_temp_c"].ts > 0
                      /\ command'.ts - seen'["soc_percent"].ts <= dropped'
    BY <1>1 DEF Based
  <2>1. id = "grid_power_kw" /\ command'.ts = point.ts /\ Stream[1].point_id = "grid_power_kw"
    BY <1>1, <1>2, <1>7 DEF id
  <2>2. 1 \in 1 .. n
    BY <1>7
  <2>3. SocNear(Stream[1].ts, 1) /\ (Cap >= 2 => TempBefore(1))
    BY <1>7, <2>1, <2>2 DEF LoopInv, SocComesFirst, TempComesFirst
  <2>4. ASSUME NEW j \in 1 .. 1 PROVE Stream[j].point_id = "grid_power_kw"
    BY <2>1
  <2>5. /\ seen["soc_percent"].ts > 0 /\ point.ts - seen["soc_percent"].ts <= dropped
        /\ Cap >= 2 => seen["max_cell_temp_c"].ts > 0
    BY <1>7, <2>3, <2>4 DEF SocNear, TempBefore
  <2>6. QED
    BY <1>1, <1>9, <2>1, <2>5
<1>18. Counted'
  <2>1. wpc' = "submit" => command'.id = nextCommandId'
    BY <1>1, <1>2
  <2>2. nextCommandId \in Nat /\ Len(batch) \in Nat
    BY DEF LoopInv, Typed, TypeOK, MaxId
  <2>3. nextCommandId + n + Len(batch) + dropped <= 3 * polls + 1
    BY <1>1, <1>3, <1>7, <2>2 DEF LoopInv, Counted
  <2>4. QED
    BY <1>1, <1>3, <1>7, <2>1, <2>2, <2>3 DEF Counted
<1>19. Audited'
  BY <1>1 DEF LoopInv, Audited
<1>20. QED
  BY <1>13, <1>14, <1>15, <1>16, <1>17, <1>18, <1>19 DEF LoopInv

(* The memory is back to its initial value; the command in hand, if there  *)
(* was one, is the gap that the restart accounts for.                      *)
LEMMA CrashMoves ==
    ASSUME LoopInv, Crash
    PROVE  LoopInv'
<1> USE Bounds
<1>1. /\ boot < MaxBoots /\ boot' = boot + 1 /\ fifo' = <<>> /\ dropped' = 0 /\ point' = NoPoint
      /\ batch' = <<>> /\ state' = "INIT" /\ soc' = InitialSoc /\ temp' = 0 /\ grid' = 0 /\ nextAlarmId' = 1
      /\ alarm' = [id |-> 0, code |-> "none", ts |-> 0] /\ command' = [id |-> 0, target |-> 0, ts |-> 0]
      /\ queue' = <<>> /\ nextCommandId' = 1 /\ pending' = <<>> /\ wpc' = "pop" /\ seen' = NothingSeen
      /\ UNCHANGED <<polls, written, log, alarms, storeFailures>>
  BY DEF Crash, Engine!NoAlarm, Engine!NoCommand
<1>2. NoPoint \in Sample /\ NothingSeen \in [PointIds -> Sample] /\ NothingSeen["soc_percent"].ts = 0
  BY DEF NoPoint, NothingSeen, TelemetryInit, Sample, PointIds, Engine!PointId
<1>3. Stream' = <<>> /\ Len(Stream') = 0 /\ Len(batch') = 0
  BY <1>1 DEF Stream
<1>4. Typed'
  <2>1. Engine!EngineTypeOK'
    BY <1>1 DEF Engine!EngineTypeOK
  <2>2. TypeOK'
    BY <1>1, <2>1 DEF LoopInv, Typed, TypeOK, MaxId
  <2>3. QED
    BY <1>1, <1>2, <2>2 DEF LoopInv, Typed, PointIds
<1>5. InOrder'
  BY <1>1, <1>2, <1>3 DEF LoopInv, Typed, TypeOK, InOrder
<1>6. Fresh'
  BY <1>1, <1>2, <1>3 DEF Fresh
<1>7. SocComesFirst' /\ TempComesFirst'
  BY <1>1, <1>2, <1>3, <1>6 DEF SocComesFirst, TempComesFirst
<1>8. Based' /\ Counted'
  BY <1>1, <1>3 DEF LoopInv, Typed, TypeOK, Based, Counted
<1>9. Audited'
  <2>1. Len(written) \in Nat /\ Len(log) \in Nat /\ storeFailures \in Nat /\ boot \in Nat
    BY DEF LoopInv, Typed, TypeOK
  <2>2. QED
    BY <1>1, <2>1 DEF LoopInv, Audited
<1>10. QED
  BY <1>4, <1>5, <1>7, <1>8, <1>9 DEF LoopInv

LEMMA LoopNext == LoopInv /\ [Next]_vars => LoopInv'
<1> SUFFICES ASSUME LoopInv, [Next]_vars PROVE LoopInv'
  OBVIOUS
<1>1. CASE UNCHANGED vars
  <2> USE <1>1 DEF vars, ringVars, ingressVars, engineVars, schedulerVars, worldVars
  <2>1. Stream' = Stream /\ (Fresh' <=> Fresh)
    BY DEF Stream, Fresh
  <2>2. ASSUME NEW ts, NEW n PROVE (SocNear(ts, n)' <=> SocNear(ts, n)) /\ (TempBefore(n)' <=> TempBefore(n))
    BY <2>1 DEF SocNear, TempBefore
  <2>3. Typed'
    BY DEF LoopInv, Typed, TypeOK, Engine!EngineTypeOK
  <2>4. InOrder' /\ Based' /\ Counted' /\ Audited'
    BY <2>1 DEF LoopInv, InOrder, Based, Counted, Audited
  <2>5. SocComesFirst' /\ TempComesFirst'
    BY <2>1, <2>2 DEF LoopInv, SocComesFirst, TempComesFirst
  <2>6. QED
    BY <2>3, <2>4, <2>5 DEF LoopInv
<1>2. CASE Next
  BY <1>2, PollMoves, PushMoves, PopMoves, EvaluateMoves, AlarmMoves, SubmitMoves, TickMoves,
     PublishMoves, CrashMoves
     DEF Next, WorkerStep
<1>3. QED
  BY <1>1, <1>2

LEMMA LoopSpec == Spec => []LoopInv
BY LoopInit, LoopNext, PTL DEF Spec

-----------------------------------------------------------------------------
(* The ring keeps to its capacity and no counter of the loop gets past one *)
(* per polled point.                                                       *)
THEOREM TypeCorrect == Spec => []TypeOK
BY LoopSpec, PTL DEF LoopInv, Typed

(* Whatever the ring drops and whenever the process restarts, a setpoint   *)
(* reaches the PCS only on the strength of a measured SOC, at most as many *)
(* polls old as points were dropped, and of a measured temperature.        *)
THEOREM SetpointsRestOnMeasurements == Spec => []DischargeOnRecentSoc
<1>1. LoopInv => DischargeOnRecentSoc
  BY DEF LoopInv, SocComesFirst, Based, DischargeOnRecentSoc
<1>2. QED
  BY <1>1, LoopSpec, PTL

(* The commands table misses at most one row per failed insert and per     *)
(* restart.                                                                *)
THEOREM TheAuditGapIsBounded == Spec => []AuditGap
<1>1. LoopInv => AuditGap
  <2> SUFFICES ASSUME LoopInv PROVE AuditGap
    OBVIOUS
  <2>1. Len(written) \in Nat /\ Len(log) \in Nat
    BY DEF LoopInv, Typed
  <2>2. QED
    BY <2>1 DEF LoopInv, Audited, AuditGap
<1>2. QED
  BY <1>1, LoopSpec, PTL
=============================================================================
