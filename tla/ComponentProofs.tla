-------------------------- MODULE ComponentProofs --------------------------
(***************************************************************************)
(* Proofs about the three components that ControlLoop composes: the ring,  *)
(* for every Size >= 2, every set of points and every counter width; the   *)
(* engine, for all thresholds, readings and sequences of points; the       *)
(* scheduler, for a queue of any size and any number of commands.          *)
(***************************************************************************)
EXTENDS SpscRing, StateEngine, CommandScheduler, SequenceTheorems, FiniteSetTheorems, TLAPS

-----------------------------------------------------------------------------
(* SpscRing *)

(* What the ingress thread knows between the atomic accesses of a push: its *)
(* local head is still the shared one, the slot after it is still free, and *)
(* the copied point is still in the slot.                                   *)
IngressInv ==
    /\ ipc \in {"full?", "drop", "copy", "publish"} => ihead = head
    /\ ipc \in {"copy", "publish"} => succ(head) # tail
    /\ ipc = "publish" => buf[head] = point
    /\ ipc = "count" => chead["ingress"] = head

(* What the worker thread knows between the atomic accesses of a pop, and   *)
(* that the head its count has loaded is not behind the tail.               *)
WorkerInv ==
    /\ wpc \in {"empty?", "copy", "release"} => wtail = tail
    /\ wpc \in {"copy", "release"} => head # tail
    /\ wpc = "release" => item = buf[tail]
    /\ wpc = "count" => distance(chead["worker"], tail) <= Occupied

(* The inductive invariant: RingTypeOK alone says nothing about stale locals.   *)
RingInv == RingTypeOK /\ IngressInv /\ WorkerInv

-----------------------------------------------------------------------------
(* The modulo of ring.c:49 and ring.c:77 only wraps the last slot.  *)
LEMMA SuccValue ==
    ASSUME NEW i \in Slot
    PROVE  succ(i) = (IF i + 1 = Size THEN 0 ELSE i + 1)
<1>1. Size \in Nat /\ Size >= 2 /\ i \in Nat /\ i < Size
  BY SizeAssumption DEF Slot
<1>2. CASE i + 1 = Size
  BY <1>1, <1>2 DEF succ
<1>3. CASE i + 1 # Size
  BY <1>1, <1>3 DEF succ
<1>4. QED
  BY <1>2, <1>3

(* succ stays inside the ring. *)
LEMMA SuccSlot ==
    ASSUME NEW i \in Slot
    PROVE  succ(i) \in Slot
BY SuccValue, SizeAssumption DEF Slot

(* How the occupancy changes when head or tail moves, and what its extreme *)
(* values mean: 0 is the empty test, Size - 1 the full test of the code.   *)
LEMMA DistanceFacts ==
    ASSUME NEW h \in Slot, NEW t \in Slot
    PROVE  /\ distance(h, t) \in Slot
           /\ distance(h, t) = 0 <=> h = t
           /\ distance(h, t) = Size - 1 <=> succ(h) = t
           /\ succ(h) # t => distance(succ(h), t) = distance(h, t) + 1
           /\ h # t => distance(h, succ(t)) = distance(h, t) - 1
<1>1. Size \in Nat /\ Size >= 2 /\ h \in 0 .. Size - 1 /\ t \in 0 .. Size - 1
  BY SizeAssumption DEF Slot
<1>2. /\ succ(h) = (IF h + 1 = Size THEN 0 ELSE h + 1)
      /\ succ(t) = (IF t + 1 = Size THEN 0 ELSE t + 1)
  BY SuccValue
<1>3. QED
  BY <1>1, <1>2 DEF distance, Slot

-----------------------------------------------------------------------------
LEMMA RingInvInit == RingInit => RingInv
<1> SUFFICES ASSUME RingInit PROVE RingInv
  OBVIOUS
<1>1. 0 \in Slot /\ 0 \in 0 .. CounterMod - 1
  BY SizeAssumption, CounterAssumption DEF Slot
<1>2. RingTypeOK
  BY <1>1 DEF RingInit, RingTypeOK, IngressPC, WorkerPC
<1>3. QED
  BY <1>2 DEF RingInit, RingInv, IngressInv, WorkerInv

(* Every step of either thread preserves the invariant; the interesting    *)
(* cases are the stores of head and tail, which the other thread's stale   *)
(* local must survive.                                                     *)
LEMMA RingInvNext == RingInv /\ [RingNext]_ringVars => RingInv'
<1> SUFFICES ASSUME RingInv, [RingNext]_ringVars PROVE RingInv'
  OBVIOUS
<1> USE DEF RingInv
<1>1. ASSUME NEW p \in Point, PushLoadHead(p) PROVE RingInv'
  BY <1>1 DEF PushLoadHead, ring, worker, counts, RingTypeOK, IngressPC, IngressInv, WorkerInv, Occupied
<1>2. CASE PushLoadTail
  BY <1>2 DEF PushLoadTail, ring, worker, counts, RingTypeOK, IngressPC, IngressInv, WorkerInv, Occupied
<1>3. CASE PushDrop
  <2>1. (dropped + 1) % CounterMod \in 0 .. CounterMod - 1
    BY CounterAssumption DEF RingTypeOK
  <2>2. QED
    BY <1>3, <2>1 DEF PushDrop, worker, counts, RingTypeOK, IngressPC, IngressInv, WorkerInv, Occupied
<1>4. CASE PushCopy
  <2>1. RingTypeOK'
    BY <1>4 DEF PushCopy, worker, counts, RingTypeOK, IngressPC
  <2>2. IngressInv'
    BY <1>4 DEF PushCopy, worker, counts, RingTypeOK, IngressInv
  <2>3. wpc = "release" => wtail = tail /\ tail # ihead
    BY <1>4 DEF PushCopy, IngressInv, WorkerInv
  <2>4. WorkerInv'
    BY <1>4, <2>3 DEF PushCopy, worker, counts, RingTypeOK, WorkerInv, Occupied
  <2>5. QED
    BY <2>1, <2>2, <2>4
<1>5. CASE PushPublish
  <2>1. head' = succ(head) /\ succ(head) # tail /\ tail' = tail /\ buf' = buf
    BY <1>5 DEF PushPublish, IngressInv
  <2>2. RingTypeOK'
    BY <1>5, SuccSlot DEF PushPublish, worker, counts, RingTypeOK, IngressPC
  <2>3. IngressInv'
    BY <1>5 DEF PushPublish, IngressInv
  <2>4. Occupied \in Int /\ Occupied' = Occupied + 1
    BY <2>1, DistanceFacts, SizeAssumption DEF Occupied, RingTypeOK, Slot
  <2>5. wpc = "count" => distance(chead["worker"], tail) \in Int
    BY DistanceFacts, SizeAssumption DEF RingTypeOK, Slot, Thread
  <2>6. WorkerInv'
    BY <1>5, <2>1, <2>4, <2>5 DEF PushPublish, worker, counts, WorkerInv
  <2>7. QED
    BY <2>2, <2>3, <2>6
<1>6. CASE PopLoadTail
  BY <1>6 DEF PopLoadTail, ring, ingress, counts, RingTypeOK, WorkerPC, IngressInv, WorkerInv
<1>7. CASE PopLoadHead
  BY <1>7 DEF PopLoadHead, ring, ingress, counts, RingTypeOK, WorkerPC, IngressInv, WorkerInv
<1>8. CASE PopCopy
  BY <1>8 DEF PopCopy, ring, ingress, counts, RingTypeOK, WorkerPC, IngressInv, WorkerInv
<1>9. CASE PopRelease
  <2>1. RingTypeOK'
    BY <1>9, SuccSlot DEF PopRelease, ingress, counts, RingTypeOK, WorkerPC
  <2>2. head # tail /\ tail' = succ(tail) /\ head' = head
    BY <1>9 DEF PopRelease, WorkerInv
  <2>3. succ(head) # succ(tail)
    BY <2>2, SuccValue, SizeAssumption DEF RingTypeOK, Slot
  <2>4. IngressInv'
    BY <1>9, <2>2, <2>3 DEF PopRelease, ingress, counts, IngressInv
  <2>5. WorkerInv'
    BY <1>9 DEF PopRelease, WorkerInv
  <2>6. QED
    BY <2>1, <2>4, <2>5
<1>10. ASSUME NEW t \in Thread, CountLoadHead(t) PROVE RingInv'
  <2>1. RingTypeOK'
    BY <1>10 DEF CountLoadHead, ring, RingTypeOK, IngressPC, WorkerPC, Thread
  <2>2. IngressInv'
    BY <1>10 DEF CountLoadHead, ring, RingTypeOK, IngressInv, Thread
  <2>3. Occupied \in Int
    BY DistanceFacts, SizeAssumption DEF Occupied, RingTypeOK, Slot
  <2>4. WorkerInv'
    BY <1>10, <2>3 DEF CountLoadHead, ring, RingTypeOK, WorkerInv, Thread, Occupied
  <2>5. QED
    BY <2>1, <2>2, <2>4
<1>11. ASSUME NEW t \in Thread, CountLoadTail(t) PROVE RingInv'
  <2>1. distance(chead[t], tail) \in Slot
    BY DistanceFacts DEF RingTypeOK
  <2>2. RingTypeOK'
    BY <1>11, <2>1 DEF CountLoadTail, ring, RingTypeOK, IngressPC, WorkerPC, Thread
  <2>3. IngressInv' /\ WorkerInv'
    BY <1>11 DEF CountLoadTail, ring, RingTypeOK, IngressInv, WorkerInv, Thread, Occupied
  <2>4. QED
    BY <2>2, <2>3
<1>12. CASE UNCHANGED ringVars
  BY <1>12 DEF ringVars, RingTypeOK, IngressInv, WorkerInv, Occupied
<1>13. QED
  BY <1>1, <1>2, <1>3, <1>4, <1>5, <1>6, <1>7, <1>8, <1>9, <1>10, <1>11, <1>12
     DEF RingNext, IngressStep, WorkerStep, Thread

LEMMA RingInvSpec == RingSpec => []RingInv
BY RingInvInit, RingInvNext, PTL DEF RingSpec

(* The fields and locals of ring.c keep their types under every            *)
(* interleaving: no index ever leaves the buffer.                          *)
THEOREM RingTypes == RingSpec => []RingTypeOK
BY RingInvSpec, PTL DEF RingInv

(* The unsynchronised copies of ring.c:56 and ring.c:76 never race.        *)
THEOREM RaceFree == RingSpec => []NoDataRace
<1>1. RingInv => NoDataRace
  BY DEF RingInv, IngressInv, WorkerInv, NoDataRace
<1>2. QED
  BY <1>1, RingInvSpec, PTL

(* A depth reported by either thread is a depth the queue has, or had when *)
(* the count began and still has at least.                                 *)
THEOREM CountsAreSound == RingSpec => CountSound
<1> DEFINE Sound ==
      /\ ipc = "count" /\ ipc' # "count" => depth'["ingress"] = Occupied
      /\ wpc = "count" /\ wpc' # "count" => depth'["worker"] \in 0 .. Occupied
<1>1. RingInv /\ [RingNext]_ringVars => [Sound]_ringVars
  <2> SUFFICES ASSUME RingInv, RingNext PROVE Sound
    BY DEF ringVars
  <2>1. CASE CountLoadTail("ingress")
    BY <2>1 DEF CountLoadTail, RingInv, RingTypeOK, IngressInv, Thread, Occupied
  <2>2. CASE CountLoadTail("worker")
    <3>1. chead["worker"] \in Slot /\ head \in Slot /\ tail \in Slot
      BY DEF RingInv, RingTypeOK, Thread
    <3>2. distance(chead["worker"], tail) \in Slot /\ Occupied \in Slot
      BY <3>1, DistanceFacts DEF Occupied
    <3>3. distance(chead["worker"], tail) \in Nat /\ Occupied \in Nat
      BY <3>2, SizeAssumption DEF Slot
    <3>4. QED
      BY <2>2, <3>3 DEF CountLoadTail, RingInv, RingTypeOK, WorkerInv, Thread
  <2>3. CASE ~CountLoadTail("ingress") /\ ~CountLoadTail("worker")
    <3>1. (ipc = "count" => ipc' = ipc) /\ (wpc = "count" => wpc' = wpc)
      BY <2>3 DEF RingNext, IngressStep, WorkerStep, PushLoadHead, PushLoadTail, PushDrop,
         PushCopy, PushPublish, PopLoadTail, PopLoadHead, PopCopy, PopRelease,
         CountLoadHead, ingress, worker
    <3>2. QED
      BY <3>1
  <2>4. QED
    BY <2>1, <2>2, <2>3
<1>2. QED
  BY <1>1, RingInvSpec, PTL DEF RingSpec, CountSound

-----------------------------------------------------------------------------
(* Where the queued points are: the free slot is just past the last one,   *)
(* and advancing the tail shifts every position by one.                    *)
LEMMA SlotFacts ==
    ASSUME NEW h \in Slot, NEW t \in Slot
    PROVE  /\ slotAt(t, 1) = t
           /\ slotAt(t, distance(h, t) + 1) = h
           /\ \A i \in 1 .. Size : slotAt(t, i) \in Slot
           /\ \A i \in 1 .. distance(h, t) : slotAt(t, i) # h
           /\ \A i \in 1 .. Size - 1 : slotAt(succ(t), i) = slotAt(t, i + 1)
<1>1. Size \in Nat /\ Size >= 2 /\ h \in 0 .. Size - 1 /\ t \in 0 .. Size - 1
  BY SizeAssumption DEF Slot
<1>2. succ(t) = (IF t + 1 = Size THEN 0 ELSE t + 1)
  BY SuccValue
<1>3. ASSUME NEW s \in Slot, NEW i \in 1 .. Size
      PROVE  slotAt(s, i) = (IF s + i <= Size THEN s + i - 1 ELSE s + i - 1 - Size)
  <2>1. CASE s + i <= Size
    BY <1>1, <2>1 DEF slotAt, Slot
  <2>2. CASE s + i > Size
    <3>1. s + i - 1 = (s + i - 1 - Size) + Size /\ s + i - 1 - Size \in 0 .. Size - 1
      BY <1>1, <2>2 DEF Slot
    <3>2. QED
      BY <1>1, <2>2, <3>1 DEF slotAt, Slot
  <2>3. QED
    BY <1>1, <2>1, <2>2 DEF Slot
<1>4. succ(t) \in Slot /\ distance(h, t) \in 0 .. Size - 1
  BY SuccSlot, DistanceFacts DEF Slot
<1>5. slotAt(t, 1) = t
  BY <1>1, <1>3
<1>6. slotAt(t, distance(h, t) + 1) = h
  <2>1. distance(h, t) + 1 \in 1 .. Size
    BY <1>1, <1>4
  <2>2. QED
    BY <1>1, <1>3, <2>1 DEF distance
<1>7. \A i \in 1 .. Size : slotAt(t, i) \in Slot
  BY <1>1, <1>3 DEF Slot
<1>8. ASSUME NEW i \in 1 .. distance(h, t) PROVE slotAt(t, i) # h
  <2>1. i \in 1 .. Size
    BY <1>1, <1>4
  <2>2. QED
    BY <1>1, <1>3, <2>1 DEF distance
<1>9. ASSUME NEW i \in 1 .. Size - 1 PROVE slotAt(succ(t), i) = slotAt(t, i + 1)
  BY <1>1, <1>2, <1>3, <1>4
<1>10. QED
  BY <1>5, <1>6, <1>7, <1>8, <1>9

(* Storing the new head appends the copied point to the queue. *)
LEMMA PublishAppends ==
    RingInv /\ PushPublish => Len(Queue) < Size - 1 /\ Queue' = Append(Queue, point)
<1> SUFFICES ASSUME RingInv, PushPublish
             PROVE  Len(Queue) < Size - 1 /\ Queue' = Append(Queue, point)
  OBVIOUS
<1>1. /\ head' = succ(head) /\ succ(head) # tail /\ tail' = tail /\ buf' = buf
      /\ buf[head] = point /\ head \in Slot /\ tail \in Slot
  BY DEF PushPublish, RingInv, IngressInv, RingTypeOK
<1>2. Occupied \in 0 .. Size - 2 /\ Occupied' = Occupied + 1
  BY <1>1, DistanceFacts, SizeAssumption DEF Occupied, Slot
<1>3. slotAt(tail, Occupied + 1) = head
  BY <1>1, SlotFacts DEF Occupied
<1>4. Len(Queue) = Occupied
  BY <1>2, SizeAssumption DEF Queue
<1>5. Queue' = [i \in 1 .. Occupied + 1 |-> buf[slotAt(tail, i)]]
  BY <1>1, <1>2 DEF Queue, slotAt
<1>6. Append(Queue, point) = [i \in 1 .. Occupied + 1 |-> buf[slotAt(tail, i)]]
  BY <1>1, <1>2, <1>3, SizeAssumption DEF Queue
<1>7. QED
  BY <1>2, <1>4, <1>5, <1>6, SizeAssumption

(* Storing the new tail removes the oldest point, the one that was copied. *)
LEMMA ReleaseDelivers ==
    RingInv /\ PopRelease => Queue # <<>> /\ item = Head(Queue) /\ Queue' = Tail(Queue)
<1> SUFFICES ASSUME RingInv, PopRelease
             PROVE  Queue # <<>> /\ item = Head(Queue) /\ Queue' = Tail(Queue)
  OBVIOUS
<1>1. /\ tail' = succ(tail) /\ head # tail /\ head' = head /\ buf' = buf
      /\ item = buf[tail] /\ head \in Slot /\ tail \in Slot
  BY DEF PopRelease, RingInv, WorkerInv, RingTypeOK
<1>2. Occupied \in 1 .. Size - 1 /\ Occupied' = Occupied - 1
  BY <1>1, DistanceFacts, SizeAssumption DEF Occupied, Slot
<1>3. slotAt(tail, 1) = tail /\ \A i \in 1 .. Size - 1 : slotAt(succ(tail), i) = slotAt(tail, i + 1)
  BY <1>1, SlotFacts
<1>4. Len(Queue) = Occupied /\ Queue # <<>>
  BY <1>2, SizeAssumption DEF Queue
<1>5. item = Head(Queue)
  BY <1>1, <1>2, <1>3, <1>4, SizeAssumption DEF Queue
<1>6. Queue' = [i \in 1 .. Occupied - 1 |-> buf[slotAt(tail, i + 1)]]
  BY <1>1, <1>2, <1>3, SizeAssumption DEF Queue, slotAt
<1>7. Tail(Queue) = [i \in 1 .. Occupied - 1 |-> buf[slotAt(tail, i + 1)]]
  BY <1>2, <1>4, SizeAssumption DEF Queue
<1>8. QED
  BY <1>4, <1>5, <1>6, <1>7

(* Copying into the free slot does not change what is queued. *)
LEMMA CopyKeepsQueue == RingInv /\ PushCopy => Queue' = Queue
<1> SUFFICES ASSUME RingInv, PushCopy PROVE Queue' = Queue
  OBVIOUS
<1>1. /\ buf' = [buf EXCEPT ![head] = point] /\ head' = head /\ tail' = tail
      /\ head \in Slot /\ tail \in Slot /\ buf \in [Slot -> Point]
  BY DEF PushCopy, RingInv, IngressInv, RingTypeOK
<1>2. Occupied' = Occupied
  BY <1>1 DEF Occupied
<1>3. \A i \in 1 .. Occupied : slotAt(tail, i) # head
  BY <1>1, SlotFacts DEF Occupied
<1>4. \A i \in 1 .. Occupied : buf'[slotAt(tail', i)] = buf[slotAt(tail, i)]
  BY <1>1, <1>3
<1>5. QED
  BY <1>2, <1>4 DEF Queue

(* core/ring.c implements the lossy FIFO: whatever the interleaving of the *)
(* two threads, points come out in the order they were accepted, each      *)
(* once, and a point is refused only by a full ring and is then counted.   *)
THEOREM RingImplementsFifo == RingSpec => Fifo!Spec
<1>1. RingInit => Fifo!Init
  <2> SUFFICES ASSUME RingInit PROVE Fifo!Init
    OBVIOUS
  <2>1. Occupied = 0
    BY DEF RingInit, Occupied, distance
  <2>2. Queue = <<>>
    BY <2>1 DEF Queue
  <2>3. QED
    BY <2>2 DEF RingInit, Fifo!Init
<1>2. RingInv /\ [RingNext]_ringVars => [Fifo!Next]_(Fifo!vars)
  <2> SUFFICES ASSUME RingInv, [RingNext]_ringVars PROVE [Fifo!Next]_(Fifo!vars)
    OBVIOUS
  <2> DEFINE Dropped == IF ipc = "drop" THEN (dropped + 1) % CounterMod ELSE dropped
             Stutter == UNCHANGED <<buf, head, tail, Dropped, out>>
  <2>1. ASSUME Stutter PROVE UNCHANGED Fifo!vars
    BY <2>1 DEF Fifo!vars, Queue, Occupied, slotAt, distance
  <2>2. ASSUME NEW p \in Point, PushLoadHead(p) PROVE Stutter
    BY <2>2 DEF PushLoadHead, ring, worker
  <2>3. CASE PushLoadTail
    <3>1. CASE succ(head) = tail
      <4>1. Occupied = Size - 1
        BY <3>1, DistanceFacts DEF RingInv, RingTypeOK, Occupied
      <4>2. Len(Queue) = Size - 1
        BY <4>1, SizeAssumption DEF Queue
      <4>3. UNCHANGED <<Queue, out>>
        BY <2>3 DEF PushLoadTail, ring, worker, Queue, Occupied, slotAt, distance
      <4>4. ipc = "full?" /\ ipc' = "drop" /\ dropped' = dropped
        BY <2>3, <3>1 DEF PushLoadTail, ring, RingInv, IngressInv
      <4>5. Fifo!Reject
        BY <4>2, <4>3, <4>4 DEF Fifo!Reject
      <4>6. QED
        BY <4>5 DEF Fifo!Next
    <3>2. CASE succ(head) # tail
      BY <2>1, <2>3, <3>2 DEF PushLoadTail, ring, worker, RingInv, IngressInv
    <3>3. QED
      BY <3>1, <3>2
  <2>4. CASE PushDrop
    BY <2>1, <2>4 DEF PushDrop, worker
  <2>5. CASE PushCopy
    <3>1. UNCHANGED <<Queue, Dropped, out>>
      BY <2>5, CopyKeepsQueue DEF PushCopy, worker
    <3>2. QED
      BY <3>1 DEF Fifo!vars
  <2>6. CASE PushPublish
    <3>1. Len(Queue) < Size - 1 /\ Queue' = Append(Queue, point) /\ point \in Point
      BY <2>6, PublishAppends DEF RingInv, RingTypeOK
    <3>2. UNCHANGED <<Dropped, out>>
      BY <2>6 DEF PushPublish, worker
    <3>3. Fifo!Accept(point)
      BY <3>1, <3>2 DEF Fifo!Accept
    <3>4. QED
      BY <3>1, <3>3 DEF Fifo!Next
  <2>7. CASE PopRelease
    <3>1. Queue # <<>> /\ out' = Head(Queue) /\ Queue' = Tail(Queue)
      BY <2>7, ReleaseDelivers DEF PopRelease
    <3>2. UNCHANGED Dropped
      BY <2>7 DEF PopRelease, ingress
    <3>3. Fifo!Deliver
      BY <3>1, <3>2 DEF Fifo!Deliver
    <3>4. QED
      BY <3>3 DEF Fifo!Next
  <2>8. CASE PopLoadTail \/ PopLoadHead \/ PopCopy
    BY <2>1, <2>8 DEF PopLoadTail, PopLoadHead, PopCopy, ring, ingress
  <2>9. ASSUME NEW t \in Thread, CountLoadHead(t) \/ CountLoadTail(t) PROVE Stutter
    BY <2>9 DEF CountLoadHead, CountLoadTail, ring
  <2>10. CASE UNCHANGED ringVars
    BY <2>1, <2>10 DEF ringVars
  <2>11. QED
    BY <2>1, <2>2, <2>3, <2>4, <2>5, <2>6, <2>7, <2>8, <2>9, <2>10
       DEF RingNext, IngressStep, WorkerStep, Thread
<1>3. QED
  BY <1>1, <1>2, RingInvSpec, PTL DEF RingSpec, Fifo!Spec

-----------------------------------------------------------------------------
(* StateEngine *)

(* FaultIffHot and DischargeIsSafe read off the snapshot; together with    *)
(* EngineTypeOK they are inductive as they stand.                                *)
EngineInv == EngineTypeOK /\ FaultIffHot /\ DischargeIsSafe

(* clamp_discharge stays between 0 and the maximum, and never exceeds what *)
(* it is given unless that is negative.                                    *)
LEMMA ClampBounds ==
    ASSUME NEW kw \in Int, NEW max \in Int, ClampDischarge(kw, max) > 0
    PROVE  /\ ClampDischarge(kw, max) \in Int
           /\ ClampDischarge(kw, max) <= max /\ ClampDischarge(kw, max) <= kw
BY DEF ClampDischarge

LEMMA EngineInvInit == EngineInit => EngineInv
BY ConfigAssumption, StartsCold
   DEF EngineInit, EngineInv, EngineTypeOK, FaultIffHot, DischargeIsSafe, NoAlarm, NoCommand

(* Every kind of call preserves the invariant. *)
LEMMA EngineInvNext == EngineInv /\ [EngineNext]_engineVars => EngineInv'
<1> SUFFICES ASSUME EngineInv, [EngineNext]_engineVars PROVE EngineInv'
  OBVIOUS
<1> USE DEF EngineInv
<1>1. CASE UNCHANGED engineVars
  BY <1>1 DEF engineVars, EngineTypeOK, FaultIffHot, DischargeIsSafe
<1>2. ASSUME NEW p \in Telemetry, ProcessTelemetry(p, 1) PROVE EngineInv'
  <2>1. p.value \in Int
    BY ReadingAssumption DEF Telemetry
  <2>2. CASE RejectBadQuality(p)
    BY <2>2 DEF RejectBadQuality, engine, EngineTypeOK, FaultIffHot, DischargeIsSafe, NoAlarm, NoCommand
  <2>3. CASE TempHighAlarm(p)
    BY <2>1, <2>3, ConfigAssumption DEF TempHighAlarm, UpdateSnapshot, MakeAlarm, EngineTypeOK,
       FaultIffHot, DischargeIsSafe, NoCommand
  <2>4. CASE SocLowAlarm(p)
    <3>1. temp' = temp /\ temp <= TempHigh
      BY <2>4 DEF SocLowAlarm, UpdateSnapshot
    <3>2. QED
      BY <2>1, <2>4, <3>1, ConfigAssumption DEF SocLowAlarm, UpdateSnapshot, MakeAlarm, EngineTypeOK,
         FaultIffHot, DischargeIsSafe, NoCommand
  <2>5. CASE Run(p, 1)
    <3> DEFINE kw == ClampDischarge(grid' - PeakShavingThreshold, MaxDischarge)
    <3>1. soc' \in Int /\ temp' \in Int /\ grid' \in Int
      BY <2>1, <2>5 DEF Run, UpdateSnapshot, EngineTypeOK
    <3>2. FaultIffHot'
      BY <2>5, <3>1, ConfigAssumption, CallerAssumption DEF Run, FaultIffHot
    <3>3. command' = NoCommand \/ /\ command' = [id |-> 1, target |-> -kw, ts |-> p.ts]
                                  /\ soc' > MinDischargeSoc /\ kw > 0
      BY <2>5 DEF Run, ShavePeak
    <3>4. kw > 0 => kw \in Int /\ kw <= MaxDischarge /\ kw <= grid' - PeakShavingThreshold
      BY <3>1, ConfigAssumption, ClampBounds
    <3>5. CASE command' = NoCommand
      BY <2>5, <3>1, <3>2, <3>5 DEF Run, EngineTypeOK, DischargeIsSafe, NoAlarm, NoCommand
    <3>6. CASE command' # NoCommand
      <4> HIDE DEF kw
      <4>1. /\ command'.id = 1 /\ command'.target = -kw /\ kw > 0 /\ soc' > MinDischargeSoc
            /\ kw \in Int /\ kw <= MaxDischarge /\ kw <= grid' - PeakShavingThreshold
        BY <3>3, <3>4, <3>6
      <4>2. EngineTypeOK'
        BY <2>5, <3>1, <4>1 DEF Run, EngineTypeOK, NoAlarm
      <4>3. DischargeIsSafe'
        BY <2>5, <3>1, <4>1, ConfigAssumption, CallerAssumption DEF Run, DischargeIsSafe
      <4>4. QED
        BY <3>2, <4>2, <4>3
    <3>7. QED
      BY <3>5, <3>6
  <2>6. QED
    BY <1>2, <2>2, <2>3, <2>4, <2>5 DEF ProcessTelemetry
<1>3. QED
  BY <1>1, <1>2 DEF EngineNext

LEMMA EngineInvSpec == EngineSpec => []EngineInv
BY EngineInvInit, EngineInvNext, PTL DEF EngineSpec

(* The temperature interlock of the engine, for every configuration: FAULT *)
(* exactly while the last usable temperature is above the limit.           *)
THEOREM FaultFollowsTemperature == EngineSpec => []FaultIffHot
BY EngineInvSpec, PTL DEF EngineInv

(* Every discharge command the engine can ever hand out is justified by    *)
(* the snapshot and stays within the configured power.                     *)
THEOREM CommandsAreSafe == EngineSpec => []DischargeIsSafe
BY EngineInvSpec, PTL DEF EngineInv

-----------------------------------------------------------------------------
(* CommandScheduler *)

(* The tick has given its first command to the adapter but not stored it. *)
InHand == pending # <<>> /\ pending[1].state # "PENDING"

(* How many commands have left the tick. *)
Left == IF InHand THEN Len(written) - 1 ELSE Len(written)

(* Only the first command of the tick can have been worked on. *)
StillPending ==
    /\ \A i \in 1 .. Len(queue) : queue[i].state = "PENDING"
    /\ \A i \in 2 .. Len(pending) : pending[i].state = "PENDING"

(* Written, then in the tick, then queued, the ids count from 1. *)
Numbered ==
    /\ Left >= 0
    /\ \A i \in 1 .. Len(written) : written[i].id = i
    /\ \A i \in 1 .. Len(pending) : pending[i].id = Left + i
    /\ \A i \in 1 .. Len(queue) : queue[i].id = Left + Len(pending) + i
    /\ nextCommandId = Left + Len(pending) + Len(queue) + 1

(* A command worked on, and a row, tell the answer of the write that has   *)
(* their id as its number.                                                 *)
Tells(c) ==
    /\ c.id \in 1 .. Len(written)
    /\ c.state = "VERIFIED" <=> written[c.id].ok
    /\ c.state = "FAILED" <=> ~written[c.id].ok

Recorded ==
    /\ InHand => Tells(pending[1])
    /\ \A i \in 1 .. Len(log) : Tells(log[i]) /\ log[i].id <= Left
    /\ \A i, j \in 1 .. Len(log) : i < j => log[i].id < log[j].id

(* The inductive invariant: the two properties say that the ids are in     *)
(* order, this says where each of them is.                                 *)
SchedulerInv == SchedulerTypeOK /\ StillPending /\ Numbered /\ Recorded

LEMMA SchedulerInvInit == SchedulerInit => SchedulerInv
BY QueueAssumption, MaxIdAssumption DEF SchedulerInit, SchedulerInv, SchedulerTypeOK, StillPending, Numbered,
   Recorded, InHand, Left

(* Since every queued command is PENDING, the tick takes the whole queue.  *)
LEMMA TakesAll ==
    ASSUME SchedulerInv
    PROVE  TakePending = queue
<1> DEFINE found == {i \in DOMAIN queue : queue[i].state = "PENDING"}
           Position(i) == Cardinality({j \in found : j <= i})
           n == Len(queue)
<1>1. n \in Nat /\ queue = [i \in 1 .. n |-> queue[i]] /\ found = 1 .. n
  BY DEF SchedulerInv, SchedulerTypeOK, StillPending
<1>2. Cardinality(found) = n
  <2>1. ASSUME NEW m \in Nat PROVE Cardinality(1 .. m) = m
    BY FS_Interval
  <2>2. QED
    BY <1>1, <2>1
<1>3. ASSUME NEW i \in 1 .. n PROVE Position(i) = i
  <2>1. {j \in found : j <= i} = 1 .. i
    BY <1>1
  <2>2. Cardinality(1 .. i) = i
    BY <1>1, FS_Interval
  <2>3. QED
    BY <2>1, <2>2
<1> HIDE DEF Position
<1>4. ASSUME NEW k \in 1 .. n PROVE (CHOOSE i \in found : Position(i) = k) = k
  BY <1>1, <1>3
<1>5. TakePending = [k \in 1 .. n |-> queue[CHOOSE i \in found : Position(i) = k]]
  BY <1>2 DEF TakePending, Position
<1>6. QED
  BY <1>1, <1>4, <1>5

LEMMA SchedulerInvNext == SchedulerInv /\ [SchedulerNext]_schedulerVars => SchedulerInv'
<1> SUFFICES ASSUME SchedulerInv, [SchedulerNext]_schedulerVars PROVE SchedulerInv'
  OBVIOUS
<1> USE QueueAssumption, MaxIdAssumption
<1>0. CASE UNCHANGED schedulerVars
  BY <1>0 DEF schedulerVars, SchedulerInv, SchedulerTypeOK, StillPending, Numbered, Recorded, Tells, InHand, Left
<1>1. CASE SubmitNew
  <2>1. PICK id \in {0, nextCommandId} :
          nextCommandId <= MaxId /\ Submit([id |-> id, state |-> "PENDING"])
    BY <1>1 DEF SubmitNew
  <2>2. CASE Full
    BY <2>1, <2>2 DEF Submit, SchedulerInv, SchedulerTypeOK, StillPending, Numbered, Recorded, Tells,
       InHand, Left
  <2>3. CASE ~Full
    <3> DEFINE new == [id |-> nextCommandId, state |-> "PENDING"]
    <3>1. pending = <<>> /\ UNCHANGED <<pending, written, log>>
      BY <2>1 DEF Submit
    <3>2. queue' = Append(queue, new) /\ nextCommandId' = nextCommandId + 1
      <4> DEFINE used == IF id = 0 THEN nextCommandId ELSE id
      <4>1. used = nextCommandId /\ nextCommandId \in Nat
        BY DEF SchedulerInv, SchedulerTypeOK
      <4>2. /\ nextCommandId' = IF used >= nextCommandId THEN used + 1 ELSE nextCommandId
            /\ queue' = Append(queue, [id |-> used, state |-> "PENDING"])
        BY <2>1, <2>3 DEF Submit
      <4> HIDE DEF used
      <4>3. QED
        BY <4>1, <4>2
    <3>3. new \in Command /\ Len(queue) < QueueMax
      BY <2>1, <2>3 DEF Full, Command, SchedulerInv, SchedulerTypeOK
    <3>4. SchedulerTypeOK'
      BY <2>1, <3>1, <3>2, <3>3 DEF SchedulerInv, SchedulerTypeOK
    <3>5. StillPending'
      BY <3>1, <3>2 DEF SchedulerInv, SchedulerTypeOK, StillPending
    <3>6. Left' = Left /\ Left = Len(written) /\ ~InHand /\ ~InHand' /\ Len(pending) = 0
      BY <3>1 DEF InHand, Left
    <3>7. /\ Len(queue') = Len(queue) + 1 /\ queue'[Len(queue) + 1] = new
          /\ \A i \in 1 .. Len(queue) : queue'[i] = queue[i]
      BY <3>2, <3>3, AppendProperties DEF SchedulerInv, SchedulerTypeOK
    <3>8. Numbered'
      <4>1. Len(queue) \in Nat /\ Len(written) \in Nat
        BY DEF SchedulerInv, SchedulerTypeOK
      <4>2. nextCommandId = Left + Len(queue) + 1
        BY <3>6, <4>1 DEF SchedulerInv, Numbered
      <4>3. ASSUME NEW i \in 1 .. Len(queue') PROVE queue'[i].id = Left + i
        <5>1. CASE i = Len(queue) + 1
          BY <3>6, <3>7, <4>1, <4>2, <5>1
        <5>2. CASE i \in 1 .. Len(queue)
          BY <3>6, <3>7, <4>1, <5>2 DEF SchedulerInv, Numbered
        <5>3. QED
          BY <3>7, <4>1, <5>1, <5>2
      <4>4. QED
        BY <3>1, <3>2, <3>6, <3>7, <4>1, <4>2, <4>3 DEF SchedulerInv, Numbered
    <3>9. Recorded'
      BY <3>1, <3>6 DEF SchedulerInv, Recorded, Tells
    <3>10. QED
      BY <3>4, <3>5, <3>8, <3>9 DEF SchedulerInv
  <2>4. QED
    BY <2>2, <2>3
<1>2. CASE TickBegin
  <2>1. pending = <<>> /\ pending' = queue /\ queue' = <<>> /\ UNCHANGED <<nextCommandId, written, log>>
    BY <1>2, TakesAll DEF TickBegin
  <2>2. ~InHand /\ ~InHand'
    BY <2>1 DEF InHand, SchedulerInv, SchedulerTypeOK, StillPending
  <2>3. QED
    BY SMTT(30), <2>1, <2>2 DEF SchedulerInv, SchedulerTypeOK, StillPending, Numbered, Recorded, Tells, Left
<1>3. ASSUME NEW ok \in BOOLEAN, TickWrite(ok) PROVE SchedulerInv'
  <2> DEFINE answer == [id |-> Head(pending).id, ok |-> ok]
             outcome == IF ok THEN "VERIFIED" ELSE "FAILED"
  <2>1. /\ pending # <<>> /\ Head(pending).state = "PENDING" /\ Head(pending) = pending[1]
        /\ UNCHANGED <<queue, nextCommandId, log>>
    BY <1>3 DEF TickWrite, SchedulerInv, SchedulerTypeOK
  <2>2. written' = Append(written, answer) /\ pending' = [pending EXCEPT ![1].state = outcome]
    BY <1>3 DEF TickWrite
  <2>3. Len(pending) \in Nat /\ Len(pending) > 0 /\ pending[1] \in Command
    BY <2>1 DEF SchedulerInv, SchedulerTypeOK
  <2>4. answer \in [id : 1 .. MaxId, ok : BOOLEAN] /\ outcome \in {"VERIFIED", "FAILED"}
    BY <2>1, <2>3 DEF Command
  <2>5. [pending[1] EXCEPT !.state = outcome] \in Command
    BY <2>3, <2>4 DEF Command
  <2>6. /\ pending' \in Seq(Command) /\ Len(pending') = Len(pending)
        /\ pending'[1] = [pending[1] EXCEPT !.state = outcome]
        /\ \A i \in 2 .. Len(pending) : pending'[i] = pending[i]
    <3>1. pending' = [pending EXCEPT ![1] = [pending[1] EXCEPT !.state = outcome]]
      BY <2>2
    <3>2. pending \in Seq(Command) /\ 1 \in 1 .. Len(pending)
      BY <2>3 DEF SchedulerInv, SchedulerTypeOK
    <3>3. QED
      BY <2>5, <3>1, <3>2, ExceptSeq
  <2>7. pending'[1].state = outcome /\ pending'[1].id = pending[1].id
    BY <2>3, <2>6 DEF Command
  <2>8. /\ written' \in Seq([id : 1 .. MaxId, ok : BOOLEAN]) /\ Len(written') = Len(written) + 1
        /\ written'[Len(written) + 1] = answer
        /\ \A i \in 1 .. Len(written) : written'[i] = written[i]
    BY <2>2, <2>4 DEF SchedulerInv, SchedulerTypeOK
  <2>9. SchedulerTypeOK'
    BY <2>1, <2>6, <2>8 DEF SchedulerInv, SchedulerTypeOK
  <2>10. ~InHand /\ InHand' /\ Left = Len(written) /\ Left' = Len(written)
    BY <2>1, <2>3, <2>6, <2>7, <2>8, <2>4 DEF InHand, Left, SchedulerInv, SchedulerTypeOK
  <2>11. StillPending'
    BY <2>1, <2>6 DEF SchedulerInv, StillPending
  <2>12. Numbered'
    <3>1. pending[1].id = Len(written) + 1
      BY <2>3, <2>10 DEF SchedulerInv, Numbered
    <3>2. \A i \in 1 .. Len(written') : written'[i].id = i
      <4>1. answer.id = Len(written) + 1 /\ Len(written) \in Nat
        BY <2>1, <3>1 DEF SchedulerInv, SchedulerTypeOK
      <4>2. ASSUME NEW i \in 1 .. Len(written') PROVE written'[i].id = i
        <5>1. CASE i = Len(written) + 1
          BY <2>8, <4>1, <5>1
        <5>2. CASE i \in 1 .. Len(written)
          BY <2>8, <5>2 DEF SchedulerInv, Numbered
        <5>3. QED
          BY <2>8, <4>1, <5>1, <5>2
      <4>3. QED
        BY <4>2
    <3>3. \A i \in 1 .. Len(pending') : pending'[i].id = Left' + i
      <4>1. \A i \in 1 .. Len(pending) : pending'[i].id = pending[i].id
        <5>1. ASSUME NEW i \in 1 .. Len(pending) PROVE i = 1 \/ i \in 2 .. Len(pending)
          BY <2>3
        <5>2. QED
          BY <2>6, <2>7, <5>1
      <4>2. QED
        BY <2>6, <2>10, <4>1 DEF SchedulerInv, Numbered
    <3>4. QED
      BY <2>1, <2>6, <2>10, <3>2, <3>3 DEF SchedulerInv, Numbered
  <2>13. Recorded'
    <3>1. Tells(pending[1])'
      <4>1. pending'[1].id = Len(written) + 1 /\ Len(written) \in Nat
        BY <2>3, <2>7, <2>10 DEF SchedulerInv, SchedulerTypeOK, Numbered
      <4>2. pending'[1].id \in 1 .. Len(written')
        BY <2>8, <4>1
      <4>3. written'[pending'[1].id].ok = ok
        BY <2>8, <4>1
      <4>4. QED
        BY <2>7, <4>2, <4>3 DEF Tells
    <3>2. ASSUME NEW i \in 1 .. Len(log) PROVE Tells(log[i])' /\ log[i].id <= Left'
      <4>1. Tells(log[i]) /\ log[i].id <= Left
        BY DEF SchedulerInv, Recorded
      <4>2. Len(written) \in Nat /\ log'[i] = log[i]
        BY <2>1 DEF SchedulerInv, SchedulerTypeOK
      <4>3. QED
        BY <2>8, <2>10, <4>1, <4>2 DEF Tells
    <3>3. QED
      BY <2>1, <3>1, <3>2 DEF SchedulerInv, Recorded
  <2>14. QED
    BY <2>9, <2>11, <2>12, <2>13 DEF SchedulerInv
<1>4. ASSUME NEW stored \in BOOLEAN, TickStore(stored) PROVE SchedulerInv'
  <2>1. /\ pending # <<>> /\ Head(pending).state # "PENDING" /\ Head(pending) = pending[1]
        /\ UNCHANGED <<queue, nextCommandId, written>>
    BY <1>4 DEF TickStore, SchedulerInv, SchedulerTypeOK
  <2>2. pending' = Tail(pending) /\ log' = IF stored THEN Append(log, pending[1]) ELSE log
    BY <1>4, <2>1 DEF TickStore
  <2>3. /\ Len(pending) \in Nat /\ Len(pending) > 0 /\ pending[1] \in Command
        /\ pending' \in Seq(Command) /\ Len(pending') = Len(pending) - 1
        /\ \A i \in 1 .. Len(pending') : pending'[i] = pending[i + 1]
    BY <2>1, <2>2 DEF SchedulerInv, SchedulerTypeOK
  <2>4. SchedulerTypeOK'
    BY <2>1, <2>2, <2>3 DEF SchedulerInv, SchedulerTypeOK
  <2>5. StillPending'
    BY <2>1, <2>3 DEF SchedulerInv, StillPending
  <2>6. InHand /\ ~InHand' /\ Left = Len(written) - 1 /\ Left' = Len(written)
    BY <2>1, <2>3 DEF InHand, Left, SchedulerInv, StillPending
  <2>7. Numbered'
    <3>1. Len(written) \in Nat /\ Len(queue) \in Nat
      BY DEF SchedulerInv, SchedulerTypeOK
    <3>2. ASSUME NEW i \in 1 .. Len(pending') PROVE pending'[i].id = Left' + i
      <4>1. i + 1 \in 1 .. Len(pending) /\ pending'[i] = pending[i + 1]
        BY <2>3
      <4>2. pending[i + 1].id = Left + (i + 1)
        BY <4>1 DEF SchedulerInv, Numbered
      <4>3. QED
        BY <2>6, <3>1, <4>1, <4>2
    <3>3. Left' + Len(pending') = Left + Len(pending)
      BY <2>3, <2>6, <3>1
    <3>4. \A i \in 1 .. Len(queue) : queue[i].id = Left' + Len(pending') + i
      BY <3>3 DEF SchedulerInv, Numbered
    <3>5. nextCommandId = Left' + Len(pending') + Len(queue) + 1
      BY <3>3 DEF SchedulerInv, Numbered
    <3>6. \A i \in 1 .. Len(written) : written[i].id = i
      BY DEF SchedulerInv, Numbered
    <3>7. Left' >= 0
      BY <2>6, <3>1
    <3>8. /\ \A i \in 1 .. Len(written') : written'[i].id = i
          /\ \A i \in 1 .. Len(queue') : queue'[i].id = Left' + Len(pending') + i
          /\ nextCommandId' = Left' + Len(pending') + Len(queue') + 1
      BY <2>1, <3>4, <3>5, <3>6
    <3> HIDE DEF Left
    <3>9. QED
      BY <3>2, <3>7, <3>8 DEF Numbered
  <2>8. Recorded'
    <3>1. Tells(pending[1]) /\ pending[1].id = Len(written)
      BY SMTT(30), <2>3, <2>6 DEF SchedulerInv, SchedulerTypeOK, Numbered, Recorded
    <3>2. CASE stored
      <4>1. /\ Len(log') = Len(log) + 1 /\ log'[Len(log) + 1] = pending[1] /\ Len(log) \in Nat
            /\ \A i \in 1 .. Len(log) : log'[i] = log[i]
        BY <2>2, <2>3, <3>2 DEF SchedulerInv, SchedulerTypeOK
      <4>2. Len(written) \in Nat /\ \A i \in 1 .. Len(log) : Tells(log[i]) /\ log[i].id <= Len(written) - 1
        BY <2>6 DEF SchedulerInv, SchedulerTypeOK, Recorded
      <4>3. ASSUME NEW i \in 1 .. Len(log') PROVE Tells(log'[i]) /\ log'[i].id <= Left'
        BY <2>6, <3>1, <4>1, <4>2 DEF Tells
      <4>4. ASSUME NEW i \in 1 .. Len(log'), NEW j \in 1 .. Len(log'), i < j
            PROVE  log'[i].id < log'[j].id
        <5>1. i \in 1 .. Len(log)
          BY <4>1, <4>4
        <5>2. CASE j = Len(log) + 1
          BY <3>1, <4>1, <4>2, <5>1, <5>2 DEF Tells
        <5>3. CASE j \in 1 .. Len(log)
          BY <4>1, <4>4, <5>1, <5>3 DEF SchedulerInv, Recorded
        <5>4. QED
          BY <4>1, <5>2, <5>3
      <4>5. \A i \in 1 .. Len(log') : Tells(log[i])'
        BY <2>1, <4>3 DEF Tells
      <4>6. QED
        BY <2>6, <4>3, <4>4, <4>5 DEF Recorded
    <3>3. CASE ~stored
      BY SMTT(30), <2>1, <2>2, <2>6, <3>3 DEF SchedulerInv, SchedulerTypeOK, Recorded, Tells
    <3>4. QED
      BY <3>2, <3>3
  <2>9. QED
    BY <2>4, <2>5, <2>7, <2>8 DEF SchedulerInv
<1>5. QED
  BY <1>0, <1>1, <1>2, <1>3, <1>4 DEF SchedulerNext

LEMMA SchedulerInvSpec == SchedulerSpec => []SchedulerInv
BY SchedulerInvInit, SchedulerInvNext, PTL DEF SchedulerSpec

-----------------------------------------------------------------------------
(* The queue and the tick's array never hold more than COMMAND_QUEUE_MAX   *)
(* commands, whatever is submitted between two ticks.                      *)
THEOREM SchedulerTypes == SchedulerSpec => []SchedulerTypeOK
BY SchedulerInvSpec, PTL DEF SchedulerInv

(* No command is lost, repeated or overtaken between submit and the        *)
(* adapter.                                                                *)
THEOREM NoCommandLostOrRepeated == SchedulerSpec => []EveryCommandOnceInOrder
<1>1. SchedulerInv => EveryCommandOnceInOrder
  <2> SUFFICES ASSUME SchedulerInv PROVE EveryCommandOnceInOrder
    OBVIOUS
  <2> DEFINE w == Ids(written)  u == Ids(Unwritten)  q == Ids(queue)
  <2>1. w \in Seq(Nat) /\ Len(w) = Len(written) /\ \A i \in 1 .. Len(written) : w[i] = i
    BY DEF Ids, SchedulerInv, SchedulerTypeOK, Numbered
  <2>2. q \in Seq(Nat) /\ Len(q) = Len(queue)
        /\ \A i \in 1 .. Len(queue) : q[i] = Left + Len(pending) + i
    <3>1. ASSUME NEW i \in 1 .. Len(queue) PROVE queue[i].id \in Nat
      <4>1. queue[i] \in Command
        BY DEF SchedulerInv, SchedulerTypeOK
      <4>2. QED
        BY <4>1 DEF Command
    <3>2. QED
      BY <3>1 DEF Ids, SchedulerInv, SchedulerTypeOK, Numbered
  <2>3. /\ Unwritten \in Seq(Command)
        /\ Len(Unwritten) = Left + Len(pending) - Len(written)
        /\ \A i \in 1 .. Len(Unwritten) : Unwritten[i].id = Len(written) + i
    BY DEF Unwritten, InHand, Left, SchedulerInv, SchedulerTypeOK, Numbered
  <2>4. u \in Seq(Nat) /\ Len(u) = Len(Unwritten) /\ \A i \in 1 .. Len(u) : u[i] = Len(written) + i
    BY SMTT(30), <2>3 DEF Ids, Command
  <2> HIDE DEF w, u, q
  <2> DEFINE all == w \o u \o q
             a == Len(w)  b == Len(u)
  <2>5. /\ a \in Nat /\ b \in Nat /\ Len(q) \in Nat
        /\ a + b = Left + Len(pending) /\ a + b + Len(q) = nextCommandId - 1
    <3>1. Left \in Int /\ Len(pending) \in Nat /\ Len(written) \in Nat
      BY DEF SchedulerInv, SchedulerTypeOK, Left
    <3>2. a = Len(written) /\ b = Left + Len(pending) - Len(written) /\ Len(q) = Len(queue)
      BY <2>1, <2>2, <2>3, <2>4
    <3>3. b \in Nat /\ Len(q) \in Nat
      BY <2>2, <2>4
    <3>4. QED
      BY <3>1, <3>2, <3>3 DEF SchedulerInv, Numbered
  <2>6. /\ w \o u \in Seq(Nat) /\ Len(w \o u) = a + b
        /\ \A i \in 1 .. a + b : (w \o u)[i] = i
    <3>1. \A i \in 1 .. a + b : (w \o u)[i] = IF i <= a THEN w[i] ELSE u[i - a]
      BY <2>1, <2>4, ConcatProperties
    <3>2. \A i \in 1 .. a : w[i] = i
      BY <2>1
    <3>3. \A i \in 1 .. b : u[i] = a + i
      BY <2>1, <2>4
    <3>4. QED
      BY SMTT(30), <2>1, <2>4, <2>5, <3>1, <3>2, <3>3, ConcatProperties
  <2>7. all \in Seq(Nat) /\ Len(all) = nextCommandId - 1
    <3>1. all \in Seq(Nat) /\ Len(all) = Len(w \o u) + Len(q)
      BY <2>2, <2>6, ConcatProperties
    <3>2. QED
      BY <2>5, <2>6, <3>1
  <2>8. \A i \in 1 .. nextCommandId - 1 : all[i] = i
    <3>1. \A i \in 1 .. a + b + Len(q) :
             all[i] = IF i <= a + b THEN (w \o u)[i] ELSE q[i - (a + b)]
      BY <2>2, <2>6, ConcatProperties
    <3>2. \A i \in 1 .. Len(q) : q[i] = a + b + i
      BY <2>2, <2>5
    <3>3. QED
      BY <2>5, <2>6, <3>1, <3>2
  <2> HIDE DEF all
  <2>9. all = [i \in 1 .. nextCommandId - 1 |-> i]
    BY <2>7, <2>8
  <2>10. QED
    BY <2>9 DEF EveryCommandOnceInOrder, all, w, u, q
<1>2. QED
  BY <1>1, SchedulerInvSpec, PTL

(* The commands table never says that a write succeeded which failed, or   *)
(* the other way round, and has at most one row for a command.             *)
THEOREM TheLogIsTruthful == SchedulerSpec => []LogIsTruthful
<1>1. SchedulerInv => LogIsTruthful
  <2> SUFFICES ASSUME SchedulerInv PROVE LogIsTruthful
    OBVIOUS
  <2>1. DOMAIN log = 1 .. Len(log) /\ DOMAIN written = 1 .. Len(written)
    BY DEF SchedulerInv, SchedulerTypeOK
  <2>2. ASSUME NEW i \in DOMAIN log
        PROVE  \E j \in DOMAIN written : /\ written[j].id = log[i].id
                                         /\ log[i].state = "VERIFIED" <=> written[j].ok
                                         /\ log[i].state = "FAILED" <=> ~written[j].ok
    <3>1. Tells(log[i])
      BY <2>1 DEF SchedulerInv, Recorded
    <3>2. log[i].id \in DOMAIN written
      BY <2>1, <3>1 DEF Tells
    <3>3. written[log[i].id].id = log[i].id
      BY <2>1, <3>2 DEF SchedulerInv, Numbered
    <3>4. QED
      BY <3>1, <3>2, <3>3 DEF Tells
  <2>3. QED
    BY <2>1, <2>2 DEF SchedulerInv, Recorded, LogIsTruthful
<1>2. QED
  BY <1>1, SchedulerInvSpec, PTL
=============================================================================
