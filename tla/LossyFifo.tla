----------------------------- MODULE LossyFifo -----------------------------
(***************************************************************************)
(* What the queue between the ingress and the worker thread promises: a    *)
(* bounded FIFO that refuses, and counts, a value offered when it is full. *)
(* The lock-free ring of core/ring.c is shown to implement it (SpscRing).  *)
(***************************************************************************)
EXTENDS Integers, Sequences

CONSTANTS Value,       \* what is queued
          Cap,         \* how many values fit
          CounterMod   \* the width of the counter of refused values

VARIABLES q,           \* queued values, oldest first
          dropped,     \* refused values, modulo CounterMod
          out          \* the value delivered last

vars == <<q, dropped, out>>

Init ==
    /\ q = <<>>
    /\ dropped = 0
    /\ out \in Value

Accept(v) ==
    /\ Len(q) < Cap
    /\ q' = Append(q, v)
    /\ UNCHANGED <<dropped, out>>

Reject ==
    /\ Len(q) = Cap
    /\ dropped' = (dropped + 1) % CounterMod
    /\ UNCHANGED <<q, out>>

Deliver ==
    /\ q # <<>>
    /\ out' = Head(q)
    /\ q' = Tail(q)
    /\ UNCHANGED dropped

Next ==
    \/ \E v \in Value : Accept(v)
    \/ Reject
    \/ Deliver

Spec == Init /\ [][Next]_vars

(* A queued value is eventually delivered. *)
FairSpec == Spec /\ WF_vars(Deliver)
=============================================================================
