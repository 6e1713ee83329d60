------------------------------ MODULE SpscRing ------------------------------
(***************************************************************************)
(* The single-producer single-consumer ring of src/src/core/ring.c, one    *)
(* action per atomic access, as the two threads of runtime/app.c drive it: *)
(* the ingress thread pushes and, between two pushes, counts; the worker   *)
(* pops and counts after every successful pop.  All atomics are            *)
(* sequentially consistent in the code, so interleaving is the whole story.*)
(* Copying a telemetry_t in or out of a slot is not atomic; NoDataRace is  *)
(* what makes it right to write each copy as one action.                   *)
(***************************************************************************)
EXTENDS Integers, Sequences

CONSTANTS Size,        \* ring->size: slots of the buffer (cfg.queue_size)
          Point,       \* telemetry points
          CounterMod   \* dropped is an atomic_uint: 2^32 in the code

(* spsc_ring_init refuses a size below 2. *)
ASSUME SizeAssumption == Size \in Nat /\ Size >= 2
ASSUME CounterAssumption == CounterMod \in Nat \ {0}

VARIABLES
    buf, head, tail, dropped,   \* the fields of spsc_ring_t
    ipc, ihead, point,          \* ingress: where it is, its local head, what it pushes
    wpc, wtail, item,           \* worker: where it is, its local tail, what it copied out
    chead,                      \* chead[t]: the head that thread t's count has loaded
    depth,                      \* depth[t]: the last result of thread t's count
    out                         \* the point that the last successful pop returned

ring == <<buf, head, tail, dropped>>
ingress == <<ipc, ihead, point>>
worker == <<wpc, wtail, item, out>>
counts == <<chead, depth>>
ringVars == <<buf, head, tail, dropped, ipc, ihead, point, wpc, wtail, item,
            chead, depth, out>>

Slot == 0 .. Size - 1
Thread == {"ingress", "worker"}
IngressPC == {"idle", "full?", "drop", "copy", "publish", "count"}
WorkerPC == {"idle", "empty?", "copy", "release", "popped", "count"}

(* Mutant: the index is not wrapped. *)
SuccUnwrapped(i) == i + 1

succ(i) == (i + 1) % Size

(* Mutant: the wrapped case is taken for an absolute difference. *)
DistanceUnwrapped(h, t) == IF h >= t THEN h - t ELSE t - h

(* spsc_ring_count's subtraction, with its wrapped case. *)
distance(h, t) == IF h >= t THEN h - t ELSE Size - t + h

Occupied == distance(head, tail)

(* The i-th slot counted from slot t, and the points queued, oldest first. *)
slotAt(t, i) == (t + i - 1) % Size
Queue == [i \in 1 .. Occupied |-> buf[slotAt(tail, i)]]

RingInit ==
    /\ head = 0 /\ tail = 0 /\ dropped = 0
    /\ ipc = "idle" /\ ihead = 0
    /\ wpc = "idle" /\ wtail = 0
    /\ \E zero \in Point :            \* calloc, memset: some point, never read
          /\ buf = [i \in Slot |-> zero]
          /\ point = zero /\ item = zero /\ out = zero
    /\ chead = [t \in Thread |-> 0] /\ depth = [t \in Thread |-> 0]

-----------------------------------------------------------------------------
(* spsc_ring_push, by the ingress thread. *)

PushLoadHead(p) ==
    /\ ipc = "idle"
    /\ point' = p
    /\ ihead' = head
    /\ ipc' = "full?"
    /\ UNCHANGED <<ring, worker, counts>>

(* Mutant: the full test is missing. *)
PushLoadTailUntested ==
    /\ ipc = "full?"
    /\ ipc' = "copy"
    /\ UNCHANGED <<ring, ihead, point, worker, counts>>

PushLoadTail ==
    /\ ipc = "full?"
    /\ ipc' = IF succ(ihead) = tail THEN "drop" ELSE "copy"
    /\ UNCHANGED <<ring, ihead, point, worker, counts>>

(* Mutant: a refused point is not counted. *)
PushDropUncounted ==
    /\ ipc = "drop"
    /\ ipc' = "idle"
    /\ UNCHANGED <<ring, ihead, point, worker, counts>>

PushDrop ==
    /\ ipc = "drop"
    /\ dropped' = (dropped + 1) % CounterMod
    /\ ipc' = "idle"
    /\ UNCHANGED <<buf, head, tail, ihead, point, worker, counts>>

PushCopy ==
    /\ ipc = "copy"
    /\ buf' = [buf EXCEPT ![ihead] = point]
    /\ ipc' = "publish"
    /\ UNCHANGED <<head, tail, dropped, ihead, point, worker, counts>>

PushPublish ==
    /\ ipc = "publish"
    /\ head' = succ(ihead)
    /\ ipc' = "idle"
    /\ UNCHANGED <<buf, tail, dropped, ihead, point, worker, counts>>

-----------------------------------------------------------------------------
(* spsc_ring_pop, by the worker thread. *)

PopLoadTail ==
    /\ wpc = "idle"
    /\ wtail' = tail
    /\ wpc' = "empty?"
    /\ UNCHANGED <<ring, ingress, item, out, counts>>

PopLoadHead ==
    /\ wpc = "empty?"
    /\ wpc' = IF wtail = head THEN "idle" ELSE "copy"
    /\ UNCHANGED <<ring, ingress, wtail, item, out, counts>>

PopCopy ==
    /\ wpc = "copy"
    /\ item' = buf[wtail]
    /\ wpc' = "release"
    /\ UNCHANGED <<ring, ingress, wtail, out, counts>>

PopRelease ==
    /\ wpc = "release"
    /\ tail' = succ(wtail)
    /\ out' = item
    /\ wpc' = "popped"
    /\ UNCHANGED <<buf, head, dropped, ingress, wtail, item, counts>>

-----------------------------------------------------------------------------
(* spsc_ring_count, by either thread: head first, then tail. *)

CountLoadHead(t) ==
    /\ chead' = [chead EXCEPT ![t] = head]
    /\ \/ /\ t = "ingress" /\ ipc = "idle"
          /\ ipc' = "count"
          /\ UNCHANGED wpc
       \/ /\ t = "worker" /\ wpc = "popped"
          /\ wpc' = "count"
          /\ UNCHANGED ipc
    /\ UNCHANGED <<ring, ihead, point, wtail, item, out, depth>>

CountLoadTail(t) ==
    /\ depth' = [depth EXCEPT ![t] = distance(chead[t], tail)]
    /\ \/ /\ t = "ingress" /\ ipc = "count"
          /\ ipc' = "idle"
          /\ UNCHANGED wpc
       \/ /\ t = "worker" /\ wpc = "count"
          /\ wpc' = "idle"
          /\ UNCHANGED ipc
    /\ UNCHANGED <<ring, ihead, point, wtail, item, out, chead>>

-----------------------------------------------------------------------------
IngressStep ==
    \/ \E p \in Point : PushLoadHead(p)
    \/ PushLoadTail
    \/ PushDrop
    \/ PushCopy
    \/ PushPublish
    \/ CountLoadHead("ingress")
    \/ CountLoadTail("ingress")

WorkerStep ==
    \/ PopLoadTail
    \/ PopLoadHead
    \/ PopCopy
    \/ PopRelease
    \/ CountLoadHead("worker")
    \/ CountLoadTail("worker")

RingNext == IngressStep \/ WorkerStep

RingSpec == RingInit /\ [][RingNext]_ringVars

(* worker_main pops in a loop for as long as the gateway runs.  Nothing is *)
(* assumed of the ingress thread: devices may stop answering at any point. *)
RingFairSpec == RingSpec /\ WF_ringVars(WorkerStep)

-----------------------------------------------------------------------------
(* Types of the fields of spsc_ring_t and of the locals of its functions. *)
RingTypeOK ==
    /\ buf \in [Slot -> Point]
    /\ head \in Slot /\ tail \in Slot
    /\ dropped \in 0 .. CounterMod - 1
    /\ ipc \in IngressPC /\ ihead \in Slot /\ point \in Point
    /\ wpc \in WorkerPC /\ wtail \in Slot /\ item \in Point /\ out \in Point
    /\ chead \in [Thread -> Slot]
    /\ depth \in [Thread -> Slot]

(* The two unsynchronised struct copies (ring.c:56 and ring.c:76) never    *)
(* touch the same slot at the same time.                                   *)
NoDataRace == ~(ipc = "copy" /\ wpc = "copy" /\ ihead = wtail)

(* The queue depth a thread reports (app.c:50 and app.c:128) although the  *)
(* other one is pushing or popping between the two loads: the producer     *)
(* gets the exact occupancy, the consumer never counts a point that has    *)
(* already left, so neither ever sees a torn difference.                   *)
CountSound ==
    [][/\ ipc = "count" /\ ipc' # "count" => depth'["ingress"] = Occupied
       /\ wpc = "count" /\ wpc' # "count" => depth'["worker"] \in 0 .. Occupied]_ringVars

(* Points are delivered exactly once, in order, unless counted in dropped, *)
(* and dropped counts only points offered to a full ring of Size - 1.  The *)
(* decision to drop is the load of tail, so a pending PushDrop counts.     *)
Fifo == INSTANCE LossyFifo
    WITH Value <- Point,
         Cap <- Size - 1,
         q <- Queue,
         dropped <- IF ipc = "drop" THEN (dropped + 1) % CounterMod ELSE dropped

ImplementsFifo == Fifo!FairSpec
=============================================================================
