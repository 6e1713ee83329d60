------------------------- MODULE SupervisionProofs -------------------------
(***************************************************************************)
(* Proofs about Supervision, for all intervals, batches and lengths of a   *)
(* call: how long a round of the monitor and a turn of the worker can last *)
(* when each waits for the other's calls.                                  *)
(***************************************************************************)
EXTENDS Supervision, TLAPS

(* Where each thread can be, and that it begins a turn with its first call. *)
Places ==
    /\ pc["ingress"] \in {"call", "busy", "sleep", "stopped"}
    /\ pc["worker"] \in {"call", "busy", "sleep", "pop", "stopped"}
    /\ pc["monitor"] \in {"call", "busy", "wait", "clock", "load", "stopped"}
    /\ \A t \in Thread : pc[t] = "stopped" <=> fault = "stopped"
    /\ step \in [Thread -> 1 .. 8]
    /\ \A t \in Thread : pc[t] \in {"sleep", "pop", "wait"} => step[t] = 1
    /\ pc["monitor"] \in {"clock", "load"} => step["monitor"] \in 1 .. 2

(* The resource of the call that a thread is in, or about to make. *)
Needs(t) == Current(t).res

(* A thread holds what the call it is in needs, and the monitor the session *)
(* all through a replay.                                                    *)
MayHold(t, r) ==
    /\ pc[t] \in {"call", "busy"}
    /\ Needs(t) = r \/ (t = "monitor" /\ step[t] \in {3, 4} /\ r = "session")

Holding ==
    /\ \A t \in Thread : pc[t] = "busy" => holder[Needs(t)] = t
    /\ \A r \in Resource, t \in Thread : holder[r] = t => MayHold(t, r)

(* There are rows in hand only while they are fetched and replayed, and    *)
(* they are replayed inside the session.                                   *)
Rows ==
    /\ step["monitor"] \in {3, 4} => todo > 0 /\ holder["session"] = "monitor"
    /\ step["monitor"] > 4 \/ pc["monitor"] \notin {"call", "busy"} => todo = 0

(* What a sleep or a call may still take. *)
Remaining ==
    /\ \A t \in Thread : pc[t] \in {"call", "pop", "clock"} => left[t] = 0
    /\ \A t \in Thread : pc[t] = "busy" => left[t] <= CallMax
    /\ pc["monitor"] = "load" => left["monitor"] <= 1
    /\ pc["monitor"] = "wait" /\ mode = "timerfd" => left["monitor"] = 0

(* All that does not depend on the clock. *)
Structure == TypeOK /\ Places /\ Holding /\ Rows /\ Remaining

(* The longest that k calls take. *)
Time(k) == k * CallMax

(* How many calls, of the monitor and of the worker, may lie between       *)
(* WATCHDOG=1 and the monitor's call n with r rows in hand: two for each   *)
(* call of the monitor's own, but one for a row that is sent, for which it *)
(* need not wait.                                                          *)
Due(n, r) ==
    CASE n = 1 -> 2 * r
      [] n = 2 -> 2 * Batch + 2
      [] n = 3 -> 2 * Batch + 4 + 3 * (Batch - r)
      [] n = 4 -> 2 * Batch + 5 + 3 * (Batch - r)
      [] OTHER -> 5 * Batch + 4 + 2 * (n - 5)
Deadline == 2 + Time(Due(step["monitor"], todo))
RoundWait == IF step["monitor"] = 3 THEN 0 ELSE CallMax
RoundMax == Interval + 2 + Time(5 * Batch + 12)

(* The monitor waits for at most one call of the worker. *)
RoundWaits ==
    LET h == holder[Needs("monitor")]
    IN  /\ h = "none" => silent <= Deadline
        /\ h = "worker" => silent + left["worker"] <= Deadline + RoundWait
        /\ h = "worker" /\ pc["worker"] = "call" => silent <= Deadline
        /\ h = "monitor" => silent <= Deadline + RoundWait

RoundOnTime ==
    /\ pc["monitor"] = "clock" => silent <= step["monitor"] - 1
    /\ pc["monitor"] = "load" => silent + left["monitor"] <= step["monitor"]
    /\ pc["monitor"] = "call" => RoundWaits
    /\ pc["monitor"] = "busy" => silent + left["monitor"] <= Deadline + RoundWait + CallMax
    /\ pc["monitor"] = "wait" /\ mode = "sleep" => silent + left["monitor"] <= RoundMax
    /\ pc["monitor"] = "wait" /\ mode = "timerfd" => silent + (IF due THEN 0 ELSE timer) <= RoundMax

(* The worker's call n is due to begin, counted from its time stamp, and how *)
(* long it may have to wait for the monitor: for a whole replay when it      *)
(* publishes.                                                                *)
TurnDeadline(n) ==
    CASE n = 1 -> Time(2) [] n = 2 -> Time(4) [] n = 3 -> Time(6)
      [] n = 4 -> Time(2 * Batch + 8) [] OTHER -> 0
TurnWait(n) == IF n = 3 THEN Time(2 * Batch + 1) ELSE CallMax

(* The calls that the monitor still makes inside the session. *)
Ahead ==
    CASE step["monitor"] = 2 -> 2 * todo
      [] step["monitor"] = 3 -> 2 * todo - 1
      [] step["monitor"] = 4 -> 2 * todo - 2
      [] OTHER -> 0

(* How long the monitor may keep what the worker waits for. *)
Keeps ==
    (IF pc["monitor"] = "call" THEN CallMax ELSE left["monitor"])
    + (IF Needs("worker") = "session" THEN Time(Ahead) ELSE 0)

TurnWaits ==
    LET h == holder[Needs("worker")]
        d == TurnDeadline(step["worker"])
    IN  /\ h = "none" => age["worker"] <= d
        /\ h = "worker" => age["worker"] <= d + TurnWait(step["worker"])
        /\ h = "monitor" => age["worker"] + Keeps <= d + TurnWait(step["worker"])

TurnOnTime ==
    /\ pc["worker"] = "sleep" => age["worker"] + left["worker"] <= 1
    /\ pc["worker"] = "pop" => age["worker"] <= Time(2)
    /\ pc["worker"] = "call" => TurnWaits
    /\ pc["worker"] = "busy" =>
          age["worker"] + left["worker"]
            <= TurnDeadline(step["worker"]) + TurnWait(step["worker"]) + CallMax

PollOnTime ==
    /\ pc["ingress"] = "call" => age["ingress"] <= PollInterval
    /\ pc["ingress"] = "sleep" => age["ingress"] + left["ingress"] <= PollInterval
    /\ pc["ingress"] = "busy" => age["ingress"] + left["ingress"] <= PollInterval + CallMax

SupervisionInv ==
    /\ Structure
    /\ fault \in {"none", "bus"} => RoundOnTime
    /\ fault = "none" => TurnOnTime /\ PollOnTime
    /\ NoFalseAlarm

-----------------------------------------------------------------------------
(* The three loops, call by call. *)
LEMMA Loops ==
    /\ Program["ingress"] = Ingress /\ Program["worker"] = Worker /\ Program["monitor"] = Monitor
    /\ Len(Ingress) = 1 /\ DOMAIN Ingress = 1 .. 1
    /\ Len(Worker) = 5 /\ DOMAIN Worker = 1 .. 5
    /\ Len(Monitor) = 8 /\ DOMAIN Monitor = 1 .. 8
<1>1. /\ Program["ingress"] = Ingress /\ Program["worker"] = Worker /\ Program["monitor"] = Monitor
  BY DEF Program, Thread
<1>2. Len(Ingress) = 1 /\ DOMAIN Ingress = 1 .. 1
  BY DEF Ingress
<1>3. Len(Worker) = 5 /\ DOMAIN Worker = 1 .. 5
  BY DEF Worker
<1>4. Len(Monitor) = 8 /\ DOMAIN Monitor = 1 .. 8
  BY DEF Monitor
<1>5. QED
  BY <1>1, <1>2, <1>3, <1>4

LEMMA IngressCalls ==
    /\ Ingress[1].res = "bus" /\ Ingress[1].inside = {}
    /\ ~Ingress[1].optional /\ ~Ingress[1].stamped
BY DEF Ingress, Use

LEMMA WorkerCalls ==
    /\ \A n \in {1, 2, 4, 5} : Worker[n].res = "db"
    /\ Worker[3].res = "session"
    /\ \A n \in 1 .. 5 : Worker[n].inside = {}
    /\ \A n \in 1 .. 5 : Worker[n].optional <=> n \in {2, 4}
    /\ \A n \in 1 .. 5 : Worker[n].stamped <=> n = 5
BY DEF Worker, Use, Perhaps

LEMMA MonitorCalls ==
    /\ \A n \in {1, 4, 5, 7} : Monitor[n].res = "db"
    /\ \A n \in {2, 3, 6, 8} : Monitor[n].res = "session"
    /\ \A n \in {3, 4} : Monitor[n].inside = {"session"}
    /\ \A n \in {1, 2, 5, 6, 7, 8} : Monitor[n].inside = {}
    /\ \A n \in 1 .. 8 : ~Monitor[n].stamped
BY DEF Monitor, Use, Replaying

(* The calls of the three loops by number. *)
LEMMA Uses ==
    ASSUME Structure
    PROVE  /\ step["ingress"] = 1 /\ step["worker"] \in 1 .. 5 /\ step["monitor"] \in 1 .. 8
           /\ Needs("ingress") = "bus"
           /\ Needs("worker") = IF step["worker"] = 3 THEN "session" ELSE "db"
           /\ Needs("monitor") = IF step["monitor"] \in {2, 3, 6, 8} THEN "session" ELSE "db"
<1>1. step["ingress"] \in 1 .. 1 /\ step["worker"] \in 1 .. 5 /\ step["monitor"] \in 1 .. 8
  BY Loops DEF Structure, TypeOK, Thread
<1>2. Needs("ingress") = "bus"
  BY <1>1, Loops, IngressCalls DEF Needs, Current
<1>3. Needs("worker") = IF step["worker"] = 3 THEN "session" ELSE "db"
  BY <1>1, Loops, WorkerCalls DEF Needs, Current
<1>4. Needs("monitor") = IF step["monitor"] \in {2, 3, 6, 8} THEN "session" ELSE "db"
  BY <1>1, Loops, MonitorCalls DEF Needs, Current
<1>5. QED
  BY <1>1, <1>2, <1>3, <1>4

(* A mutex goes to a thread that waits for it, or to nobody. *)
LEMMA Handover ==
    ASSUME NEW r \in Resource, NEW t \in Thread
    PROVE  \/ /\ NextHolder(r, t) \in Thread \ {t}
              /\ pc[NextHolder(r, t)] = "call" /\ Needs(NextHolder(r, t)) = r
           \/ /\ NextHolder(r, t) = "none"
              /\ \A u \in Thread \ {t} : ~(pc[u] = "call" /\ Needs(u) = r)
BY DEF NextHolder, Needs

(* Which call can follow. *)
LEMMA Follows ==
    ASSUME Structure
    PROVE  /\ Following("ingress") = {2}
           /\ \A n \in Following("worker") :
                 \/ n = step["worker"] + 1
                 \/ n = step["worker"] + 2 /\ step["worker"] \in {1, 3}
           /\ Following("monitor") = AfterMonitor
<1>1. Following("ingress") = {2}
  BY Uses, Loops, IngressCalls DEF Following
<1>2. \A n \in Following("worker") :
         n = step["worker"] + 1 \/ (n = step["worker"] + 2 /\ step["worker"] \in {1, 3})
  BY Uses, Loops, WorkerCalls DEF Following
<1>3. Following("monitor") = AfterMonitor
  BY DEF Following
<1>4. QED
  BY <1>1, <1>2, <1>3

(* Which call the monitor makes next, and with how many rows in hand. *)
LEMMA MonitorGoesOn ==
    ASSUME Structure, NEW n \in AfterMonitor
    PROVE  /\ step["monitor"] \in 1 .. 8 /\ todo \in 0 .. Batch /\ Batch \in Nat
           /\ n \in 1 .. 9 /\ RowsAt(n) \in 0 .. Batch
           /\ n > 4 => RowsAt(n) = 0
           /\ n \in {3, 4} => step["monitor"] \in {2, 3, 4} /\ RowsAt(n) > 0
           /\ \/ step["monitor"] = 1 /\ n = 1 /\ RowsAt(n) = todo + 1
              \/ step["monitor"] = 1 /\ n \in {2, 6}
              \/ step["monitor"] = 2 /\ n = 3 /\ RowsAt(n) = todo
              \/ step["monitor"] = 2 /\ n = 5
              \/ step["monitor"] = 3 /\ n = 4 /\ RowsAt(n) = todo /\ todo > 0
              \/ step["monitor"] = 3 /\ n = 5 /\ todo > 0
              \/ step["monitor"] = 4 /\ n = 3 /\ RowsAt(n) = todo - 1 /\ todo > 1
              \/ step["monitor"] = 4 /\ n = 5 /\ todo = 1
              \/ step["monitor"] > 4 /\ n = step["monitor"] + 1
<1>1. /\ step["monitor"] \in 1 .. 8 /\ todo \in 0 .. Batch /\ Batch \in Nat
      /\ step["monitor"] \in {3, 4} => todo > 0
  BY Uses, TimesAssumption DEF Structure, TypeOK, Rows
<1>2. CASE step["monitor"] = 1
  <2>1. \/ n = 1 /\ todo < Batch
        \/ n \in {2, 6}
    BY <1>2 DEF AfterMonitor
  <2>2. QED
    BY <1>1, <1>2, <2>1 DEF RowsAt
<1>3. CASE step["monitor"] = 2
  <2>1. \/ n = 3 /\ todo > 0
        \/ n = 5
    BY <1>3 DEF AfterMonitor
  <2>2. QED
    BY <1>1, <1>3, <2>1 DEF RowsAt
<1>4. CASE step["monitor"] = 3
  <2>1. n = 4 \/ n = 5
    BY <1>4 DEF AfterMonitor
  <2>2. QED
    BY <1>1, <1>4, <2>1 DEF RowsAt
<1>5. CASE step["monitor"] = 4
  <2>1. \/ n = 3 /\ todo > 1
        \/ n = 5 /\ ~(todo > 1)
    BY <1>5 DEF AfterMonitor
  <2>2. QED
    BY <1>1, <1>5, <2>1 DEF RowsAt
<1>6. CASE step["monitor"] > 4
  <2>1. n = step["monitor"] + 1
    BY <1>1, <1>6 DEF AfterMonitor
  <2>2. QED
    BY <1>1, <1>6, <2>1 DEF RowsAt
<1>7. QED
  BY <1>1, <1>2, <1>3, <1>4, <1>5, <1>6

(* What a call gives back when it returns: everything, but for the session *)
(* in the middle of a replay.                                              *)
LEMMA GivesBack ==
    ASSUME Structure, NEW t \in Thread, NEW n \in Following(t), GiveBack(t, n)
    PROVE  /\ holder' \in [Resource -> Thread \cup {"none"}]
           /\ \A r \in Resource : holder[r] # t => holder'[r] = holder[r]
           /\ \A r \in Resource : holder[r] = t =>
                 \/ /\ holder'[r] = NextHolder(r, t)
                    /\ ~(t = "monitor" /\ n \in {3, 4} /\ r = "session")
                 \/ /\ t = "monitor" /\ n \in {3, 4} /\ r = "session"
                    /\ holder'[r] = t
<1>1. holder' = [r \in Resource |-> IF holder[r] = t /\ r \notin Inside(t, n)
                                    THEN NextHolder(r, t) ELSE holder[r]]
  BY DEF GiveBack
<1>2. \A r \in Resource : NextHolder(r, t) \in Thread \cup {"none"}
  BY Handover
<1>3. holder \in [Resource -> Thread \cup {"none"}]
  BY DEF Structure, TypeOK
<1>4. Inside(t, n) = IF t = "monitor" /\ n \in {3, 4} THEN {"session"} ELSE {}
  <2>1. CASE t = "ingress"
    <3>1. n = 2 /\ n \notin DOMAIN Program[t]
      BY <2>1, Follows, Loops
    <3>2. QED
      BY <2>1, <3>1 DEF Inside
  <2>2. CASE t = "worker"
    <3>1. n \in 1 .. 6
      BY <2>2, Uses, Follows
    <3>2. n \in 1 .. 5 => Program[t][n].inside = {}
      BY <2>2, Loops, WorkerCalls
    <3>3. DOMAIN Program[t] = 1 .. 5
      BY <2>2, Loops
    <3>4. QED
      BY <2>2, <3>2, <3>3 DEF Inside
  <2>3. CASE t = "monitor"
    <3>1. n \in 1 .. 9
      BY <2>3, Follows, MonitorGoesOn
    <3>2. /\ n \in {3, 4} => Program[t][n].inside = {"session"}
          /\ n \in {1, 2, 5, 6, 7, 8} => Program[t][n].inside = {}
      BY <2>3, Loops, MonitorCalls
    <3>3. DOMAIN Program[t] = 1 .. 8
      BY <2>3, Loops
    <3>4. QED
      BY <2>3, <3>1, <3>2, <3>3 DEF Inside
  <2>4. QED
    BY <2>1, <2>2, <2>3 DEF Thread
<1>5. QED
  BY <1>1, <1>2, <1>3, <1>4

-----------------------------------------------------------------------------
(* The structure is kept, action by action. *)

LEMMA EnterStructure ==
    ASSUME Structure, NEW t \in Thread, Enter(t)
    PROVE  Structure'
<1> USE DEF Structure
<1>1. /\ pc[t] = "call" /\ holder[Needs(t)] \in {"none", t} /\ Needs(t) \in Resource
      /\ pc' = [pc EXCEPT ![t] = "busy"]
      /\ holder' = [holder EXCEPT ![Needs(t)] = t]
      /\ left' = [left EXCEPT ![t] = CallMax]
      /\ UNCHANGED <<step, todo, age, stale, timer, due, silent, mode, fault>>
  BY Uses DEF Enter, CanEnter, Goto, Needs, clock, bookkeeping, Thread, Resource
<1>2. \A u \in Thread : Needs(u)' = Needs(u)
  BY <1>1 DEF Needs, Current
<1>3. Places'
  BY <1>1 DEF TypeOK, Places, Thread
<1>4. Holding'
  <2>1. \A u \in Thread : pc'[u] = "busy" => holder'[Needs(u)'] = u
    BY <1>1, <1>2, Uses DEF TypeOK, Holding, Thread, Resource
  <2>2. \A r \in Resource, u \in Thread : holder'[r] = u => MayHold(u, r)'
    BY <1>1, <1>2 DEF TypeOK, Holding, MayHold
  <2>3. QED
    BY <2>1, <2>2 DEF Holding
<1>5. Remaining'
  BY <1>1, TimesAssumption DEF TypeOK, Remaining, Thread
<1>6. TypeOK'
  <2>1. left' \in [Thread -> 0 .. Longest]
    BY <1>1, TimesAssumption DEF TypeOK, Longest
  <2>2. holder' \in [Resource -> Thread \cup {"none"}]
    BY <1>1 DEF TypeOK
  <2>3. \A r \in Resource : holder'[r] # "none" => pc'[holder'[r]] \in {"call", "busy"}
    BY <1>4, <2>2 DEF Holding, MayHold
  <2>4. QED
    BY <1>1, <2>1, <2>2, <2>3 DEF TypeOK
<1>7. Rows'
  BY <1>1 DEF TypeOK, Rows, Thread, Resource
<1>8. QED
  BY <1>3, <1>4, <1>5, <1>6, <1>7

(* The returning thread makes another call or rests; the others stay where *)
(* they are.                                                               *)
LEMMA Returns ==
    ASSUME Structure, NEW t \in Thread, NEW n \in Following(t),
           IF n > Len(Program[t]) THEN EndTurn(t) ELSE NextCall(t, n)
    PROVE  /\ pc' \in [Thread -> {"call", "busy", "sleep", "pop", "wait", "clock", "load", "stopped"}]
           /\ step' \in [Thread -> 1 .. 8] /\ left' \in [Thread -> 0 .. Longest]
           /\ age' \in [Thread -> 0 .. AgeCap]
           /\ \A u \in Thread \ {t} : /\ pc'[u] = pc[u] /\ step'[u] = step[u]
                                      /\ left'[u] = left[u] /\ age'[u] = age[u]
           /\ \/ /\ t = "ingress" /\ pc'[t] = "sleep" /\ left'[t] = PollInterval
                 /\ step'[t] = 1 /\ age'[t] = 0
              \/ /\ t = "worker" /\ n = 6 /\ pc'[t] = "pop" /\ left'[t] = 0
                 /\ step'[t] = 1 /\ age'[t] = age[t]
              \/ /\ t = "monitor" /\ n = 9 /\ pc'[t] = "wait" /\ step'[t] = 1
                 /\ left'[t] = (IF mode = "sleep" THEN Interval ELSE 0)
                 /\ age'[t] = age[t]
              \/ /\ t = "worker" /\ n \in 1 .. 5 /\ pc'[t] = "call" /\ left'[t] = 0
                 /\ step'[t] = n /\ age'[t] = (IF n = 5 THEN 0 ELSE age[t])
              \/ /\ t = "monitor" /\ n \in 1 .. 8 /\ pc'[t] = "call" /\ left'[t] = 0
                 /\ step'[t] = n /\ age'[t] = age[t]
<1> USE DEF Structure
<1>1. /\ pc \in [Thread -> {"call", "busy", "sleep", "pop", "wait", "clock", "load", "stopped"}]
      /\ step \in [Thread -> 1 .. 8] /\ left \in [Thread -> 0 .. Longest]
      /\ age \in [Thread -> 0 .. AgeCap]
  BY DEF TypeOK, Places
<1>2. /\ 0 \in 0 .. Longest /\ Interval \in 0 .. Longest /\ PollInterval \in 0 .. Longest
      /\ 0 \in 0 .. AgeCap
  BY TimesAssumption DEF Longest, AgeCap
<1>3. CASE t = "ingress"
  <2>1. n = 2 /\ n > Len(Program[t])
    BY <1>3, Follows, Loops
  <2>2. /\ pc' = [pc EXCEPT ![t] = "sleep"] /\ step' = [step EXCEPT ![t] = 1]
        /\ left' = [left EXCEPT ![t] = PollInterval] /\ age' = [age EXCEPT ![t] = 0]
    BY <1>3, <2>1 DEF EndTurn, Goto, Touch
  <2>3. QED
    BY <1>1, <1>2, <1>3, <2>2
<1>4. CASE t = "worker"
  <2>1. n \in 1 .. 6 /\ Len(Program[t]) = 5
    BY <1>4, Uses, Follows, Loops
  <2>2. CASE n = 6
    <3>1. /\ pc' = [pc EXCEPT ![t] = "pop"] /\ step' = [step EXCEPT ![t] = 1]
          /\ left' = [left EXCEPT ![t] = 0] /\ age' = age
      BY <1>4, <2>1, <2>2 DEF EndTurn, Goto, FirstPc, Thread
    <3>2. QED
      BY <1>1, <1>2, <1>4, <2>2, <3>1
  <2>3. CASE n \in 1 .. 5
    <3>1. /\ pc' = [pc EXCEPT ![t] = "call"] /\ step' = [step EXCEPT ![t] = n]
          /\ left' = [left EXCEPT ![t] = 0]
          /\ age' = IF n = 5 THEN [age EXCEPT ![t] = 0] ELSE age
      BY <1>4, <2>1, <2>3, Loops, WorkerCalls DEF NextCall, Goto, Touch
    <3>2. QED
      BY <1>1, <1>2, <1>4, <2>3, <3>1
  <2>4. QED
    BY <2>1, <2>2, <2>3
<1>5. CASE t = "monitor"
  <2>1. n \in 1 .. 9 /\ Len(Program[t]) = 8
    BY <1>5, Follows, MonitorGoesOn, Loops
  <2>2. CASE n = 9
    <3>1. /\ pc' = [pc EXCEPT ![t] = "wait"] /\ step' = [step EXCEPT ![t] = 1]
          /\ left' = [left EXCEPT ![t] = IF mode = "sleep" THEN Interval ELSE 0] /\ age' = age
      BY <1>5, <2>1, <2>2 DEF EndTurn, Goto, FirstPc, Thread
    <3>2. QED
      BY <1>1, <1>2, <1>5, <2>2, <3>1
  <2>3. CASE n \in 1 .. 8
    <3>1. /\ pc' = [pc EXCEPT ![t] = "call"] /\ step' = [step EXCEPT ![t] = n]
          /\ left' = [left EXCEPT ![t] = 0] /\ age' = age
      BY <1>5, <2>1, <2>3, Loops, MonitorCalls DEF NextCall, Goto, Touch
    <3>2. QED
      BY <1>1, <1>2, <1>5, <2>3, <3>1
  <2>4. QED
    BY <2>1, <2>2, <2>3
<1>6. QED
  BY <1>3, <1>4, <1>5 DEF Thread

LEMMA FinishStructure ==
    ASSUME Structure, NEW t \in Thread, Finish(t)
    PROVE  Structure'
<1> USE DEF Structure
<1>1. PICK n \in Following(t) :
        /\ GiveBack(t, n)
        /\ IF n > Len(Program[t]) THEN EndTurn(t) ELSE NextCall(t, n)
        /\ todo' = IF t = "monitor" THEN RowsAt(n) ELSE todo
  BY DEF Finish
<1>2. pc[t] = "busy" /\ UNCHANGED <<stale, timer, due, silent, mode, fault>>
  BY DEF Finish, clock, bookkeeping
<1>3. /\ pc' \in [Thread -> {"call", "busy", "sleep", "pop", "wait", "clock", "load", "stopped"}]
      /\ step' \in [Thread -> 1 .. 8] /\ left' \in [Thread -> 0 .. Longest]
      /\ age' \in [Thread -> 0 .. AgeCap]
      /\ \A u \in Thread \ {t} : pc'[u] = pc[u] /\ step'[u] = step[u] /\ left'[u] = left[u]
  BY <1>1, Returns
<1>4. /\ pc'[t] \in {"sleep", "pop", "wait"} => step'[t] = 1
      /\ t = "ingress" => pc'[t] = "sleep" /\ step'[t] = 1
      /\ t = "worker" => pc'[t] \in {"pop", "call"} /\ step'[t] \in 1 .. 5
      /\ t = "monitor" => pc'[t] \in {"wait", "call"} /\ step'[t] \in 1 .. 8
      /\ pc'[t] \in {"call", "pop"} => left'[t] = 0
      /\ pc'[t] = "call" => step'[t] = n
      /\ pc'[t] = "wait" /\ mode = "timerfd" => left'[t] = 0
  BY <1>1, Returns
<1>5. Places'
  BY <1>2, <1>3, <1>4 DEF Places, Thread
<1>6. \A u \in Thread \ {t} : Needs(u)' = Needs(u)
  BY <1>3 DEF Needs, Current
<1>7. Holding'
  <2>1. ASSUME NEW u \in Thread, pc'[u] = "busy"
        PROVE  holder'[Needs(u)'] = u
    <3>1. u # t /\ pc[u] = "busy"
      BY <1>3, <1>4, <2>1 DEF Thread
    <3>2. holder[Needs(u)] = u /\ Needs(u) \in Resource
      BY <3>1, Uses DEF Holding, Thread, Resource
    <3>3. QED
      BY <1>1, <1>6, <3>1, <3>2, GivesBack
  <2>2. ASSUME NEW r \in Resource, NEW u \in Thread, holder'[r] = u
        PROVE  MayHold(u, r)'
    <3>1. CASE holder[r] # t
      <4>1. holder[r] = u /\ u # t
        BY <1>1, <2>2, <3>1, GivesBack
      <4>2. QED
        BY <1>3, <1>6, <4>1 DEF Holding, MayHold
    <3>2. CASE holder[r] = t /\ holder'[r] = NextHolder(r, t)
      <4>1. u \in Thread \ {t} /\ pc[u] = "call" /\ Needs(u) = r
        BY <2>2, <3>2, Handover DEF Thread
      <4>2. QED
        BY <1>3, <1>6, <4>1 DEF MayHold
    <3>3. CASE t = "monitor" /\ n \in {3, 4} /\ r = "session" /\ holder'[r] = t
      <4>1. pc'[t] = "call" /\ step'[t] = n
        BY SMTT(30), <1>1, <3>3, Returns
      <4>2. QED
        BY <2>2, <3>3, <4>1 DEF MayHold
    <3>4. QED
      BY <1>1, <2>2, <3>1, <3>2, <3>3, GivesBack
  <2>3. QED
    BY <2>1, <2>2 DEF Holding
<1>8. Remaining'
  BY <1>2, <1>3, <1>4 DEF Remaining, Thread
<1>9. Rows' /\ todo' \in 0 .. Batch
  <2>1. CASE t = "monitor"
    <3>1. n \in AfterMonitor /\ todo' = RowsAt(n)
      BY <1>1, <2>1, Follows
    <3>2. \/ n = 9 /\ pc'[t] = "wait" /\ step'[t] = 1
          \/ n \in 1 .. 8 /\ pc'[t] = "call" /\ step'[t] = n
      BY <1>1, <2>1, Returns
    <3>3. ASSUME n \in {3, 4} PROVE holder'["session"] = "monitor"
      <4>1. step["monitor"] \in {2, 3, 4}
        BY <3>1, <3>3, MonitorGoesOn
      <4>2. holder["session"] = "monitor"
        BY <1>2, <2>1, <4>1, Uses DEF Rows, Holding
      <4>3. QED
        BY <1>1, <2>1, <3>3, <4>2, GivesBack DEF Resource
    <3>4. /\ RowsAt(n) \in 0 .. Batch /\ (n > 4 => RowsAt(n) = 0)
          /\ n \in {3, 4} => RowsAt(n) > 0
      BY <3>1, MonitorGoesOn
    <3>5. QED
      BY <2>1, <3>1, <3>2, <3>3, <3>4 DEF Rows
  <2>2. CASE t # "monitor"
    <3>1. todo' = todo /\ pc'["monitor"] = pc["monitor"] /\ step'["monitor"] = step["monitor"]
      BY <1>1, <1>3, <2>2 DEF Thread
    <3>2. holder["session"] = "monitor" => holder'["session"] = "monitor"
      BY <1>1, <2>2, GivesBack DEF Resource
    <3>3. QED
      BY <3>1, <3>2 DEF Rows, TypeOK
  <2>3. QED
    BY <2>1, <2>2
<1>10. TypeOK'
  <2>1. holder' \in [Resource -> Thread \cup {"none"}]
    BY <1>1, GivesBack
  <2>2. \A r \in Resource : holder'[r] # "none" => pc'[holder'[r]] \in {"call", "busy"}
    BY <1>7, <2>1 DEF Holding, MayHold
  <2>3. \A u \in Thread : step'[u] \in DOMAIN Program[u]
    BY <1>3, <1>4, Loops DEF TypeOK, Thread
  <2>4. QED
    BY <1>2, <1>3, <1>9, <2>1, <2>2, <2>3 DEF TypeOK
<1>11. QED
  BY <1>5, <1>7, <1>8, <1>9, <1>10

(* A thread outside its calls holds nothing, so its moves disturb no lock. *)
LEMMA MoveHolding ==
    ASSUME Structure, NEW t \in Thread, pc[t] \notin {"call", "busy"}, pc'[t] # "busy",
           holder' = holder,
           \A u \in Thread \ {t} : pc'[u] = pc[u] /\ step'[u] = step[u]
    PROVE  Holding'
<1>1. \A u \in Thread \ {t} : Needs(u)' = Needs(u)
  BY DEF Needs, Current
<1>2. \A r \in Resource : holder[r] # t
  BY DEF Structure, Holding, MayHold
<1>3. \A u \in Thread \ {t}, r \in Resource : MayHold(u, r) => MayHold(u, r)'
  BY <1>1 DEF MayHold
<1>4. QED
  BY <1>1, <1>2, <1>3 DEF Structure, Holding

LEMMA MoveStructure ==
    ASSUME Structure,
           IngressWakes \/ PopEmpty \/ WorkerWakes \/ PopPoint
             \/ BeginRound \/ ReadClock \/ LoadStamp
    PROVE  Structure'
<1> USE DEF Structure
<1>1. /\ 0 \in 0 .. Longest /\ 1 \in 0 .. Longest /\ 0 \in 0 .. AgeCap
      /\ \A r \in Resource : holder[r] \in Thread \cup {"none"}
  BY TimesAssumption DEF Longest, AgeCap, TypeOK
<1>2. CASE IngressWakes
  <2>1. /\ pc["ingress"] = "sleep" /\ pc' = [pc EXCEPT !["ingress"] = "call"]
        /\ left["ingress"] = 0
        /\ UNCHANGED <<step, todo, left, holder, age, stale, timer, due, silent, mode, fault>>
    BY <1>2 DEF IngressWakes, Goto, clock, bookkeeping
  <2>2. Holding'
    BY <2>1, MoveHolding DEF TypeOK, Thread
  <2>3. Places' /\ Rows' /\ Remaining'
    BY <2>1 DEF TypeOK, Places, Rows, Remaining, Thread
  <2>4. TypeOK'
    BY <2>1, <2>2, <1>1 DEF TypeOK, Holding, MayHold
  <2>5. QED
    BY <2>2, <2>3, <2>4
<1>3. CASE PopEmpty
  <2>1. /\ pc["worker"] = "pop" /\ pc' = [pc EXCEPT !["worker"] = "sleep"]
        /\ left' = [left EXCEPT !["worker"] = 1] /\ age' = [age EXCEPT !["worker"] = 0]
        /\ UNCHANGED <<step, todo, holder, stale, timer, due, silent, mode, fault>>
    BY <1>3 DEF PopEmpty, Goto, Touch, clock, bookkeeping
  <2>2. Holding'
    BY <2>1, MoveHolding DEF TypeOK, Thread
  <2>3. Places' /\ Rows' /\ Remaining'
    BY <2>1 DEF TypeOK, Places, Rows, Remaining, Thread
  <2>4. TypeOK'
    BY <2>1, <2>2, <1>1 DEF TypeOK, Holding, MayHold
  <2>5. QED
    BY <2>2, <2>3, <2>4
<1>4. CASE WorkerWakes
  <2>1. /\ pc["worker"] = "sleep" /\ pc' = [pc EXCEPT !["worker"] = "pop"]
        /\ left["worker"] = 0
        /\ UNCHANGED <<step, todo, left, holder, age, stale, timer, due, silent, mode, fault>>
    BY <1>4 DEF WorkerWakes, Goto, clock, bookkeeping
  <2>2. Holding'
    BY <2>1, MoveHolding DEF TypeOK, Thread
  <2>3. Places' /\ Rows' /\ Remaining'
    BY <2>1 DEF TypeOK, Places, Rows, Remaining, Thread
  <2>4. TypeOK'
    BY <2>1, <2>2, <1>1 DEF TypeOK, Holding, MayHold
  <2>5. QED
    BY <2>2, <2>3, <2>4
<1>5. CASE PopPoint
  <2>1. /\ pc["worker"] = "pop" /\ pc' = [pc EXCEPT !["worker"] = "call"]
        /\ UNCHANGED <<step, todo, left, holder, age, stale, timer, due, silent, mode, fault>>
    BY <1>5 DEF PopPoint, Goto, clock, bookkeeping
  <2>2. Holding'
    BY <2>1, MoveHolding DEF TypeOK, Thread
  <2>3. Places' /\ Rows' /\ Remaining'
    BY <2>1 DEF TypeOK, Places, Rows, Remaining, Thread
  <2>4. TypeOK'
    BY <2>1, <2>2, <1>1 DEF TypeOK, Holding, MayHold
  <2>5. QED
    BY <2>2, <2>3, <2>4
<1>6. CASE BeginRound
  <2>1. /\ pc["monitor"] = "wait" /\ pc' = [pc EXCEPT !["monitor"] = "clock"]
        /\ due' = FALSE /\ silent' = 0 /\ age' = [age EXCEPT !["monitor"] = 0]
        /\ mode = "sleep" => left["monitor"] = 0
        /\ UNCHANGED <<step, todo, left, holder, stale, timer, mode, fault>>
    BY <1>6 DEF BeginRound, RoundDue, Goto, Touch
  <2>2. Holding'
    BY <2>1, MoveHolding DEF TypeOK, Thread
  <2>3. Places' /\ Rows'
    BY <2>1 DEF TypeOK, Places, Rows, Thread
  <2>4. mode \in {"sleep", "timerfd"} /\ 0 \in 0 .. WatchdogSec
    BY TimesAssumption DEF TypeOK
  <2>5. Remaining'
    BY <2>1, <2>4 DEF TypeOK, Remaining, Thread
  <2>6. TypeOK'
    BY <2>1, <2>2, <2>4, <1>1 DEF TypeOK, Holding, MayHold
  <2>7. QED
    BY <2>2, <2>3, <2>5, <2>6
<1>7. CASE ReadClock
  <2>1. /\ pc["monitor"] = "clock" /\ pc' = [pc EXCEPT !["monitor"] = "load"]
        /\ left' = [left EXCEPT !["monitor"] = 1]
        /\ UNCHANGED <<step, todo, holder, age, stale, timer, due, silent, mode, fault>>
    BY <1>7 DEF ReadClock, Goto, clock, bookkeeping
  <2>2. Holding'
    BY <2>1, MoveHolding DEF TypeOK, Thread
  <2>3. Places' /\ Rows' /\ Remaining'
    BY <2>1 DEF TypeOK, Places, Rows, Remaining, Thread
  <2>4. TypeOK'
    BY <2>1, <2>2, <1>1 DEF TypeOK, Holding, MayHold
  <2>5. QED
    BY <2>2, <2>3, <2>4
<1>8. CASE LoadStamp
  <2>1. /\ pc["monitor"] = "load" /\ left' = [left EXCEPT !["monitor"] = 0]
        /\ UNCHANGED <<todo, holder, age, timer, due, silent, mode, fault>>
    BY <1>8 DEF LoadStamp, clock, bookkeeping
  <2>2. step["monitor"] \in 1 .. 2
    BY <2>1 DEF Places
  <2>3. /\ step["monitor"] = 1 => /\ pc' = [pc EXCEPT !["monitor"] = "clock"]
                                 /\ step' = [step EXCEPT !["monitor"] = 2]
        /\ step["monitor"] = 2 => /\ pc' = [pc EXCEPT !["monitor"] = "call"]
                                 /\ step' = [step EXCEPT !["monitor"] = 1]
    <3>1. Len(Watched) = 2 /\ step["monitor"] + 1 \in Nat
      BY <2>2 DEF Watched
    <3>2. step["monitor"] = 1 => step' = [step EXCEPT !["monitor"] = step["monitor"] + 1]
      BY <1>8, <3>1 DEF LoadStamp
    <3>3. step["monitor"] = 1 => pc' = [pc EXCEPT !["monitor"] = "clock"]
      BY <1>8, <3>1 DEF LoadStamp, Goto
    <3>4. step["monitor"] = 2 => /\ pc' = [pc EXCEPT !["monitor"] = "call"]
                                /\ step' = [step EXCEPT !["monitor"] = 1]
      BY <1>8, <3>1 DEF LoadStamp, Goto
    <3>5. QED
      BY <3>2, <3>3, <3>4
  <2>4. stale' \subseteq {"ingress", "worker"}
    <3>1. Watched[step["monitor"]] \in {"ingress", "worker"}
      BY <2>2 DEF Watched
    <3>2. stale' \subseteq stale \cup {Watched[step["monitor"]]}
      BY <1>8 DEF LoadStamp
    <3>3. QED
      BY <3>1, <3>2 DEF TypeOK
  <2>5. /\ pc' \in [Thread -> {"call", "busy", "sleep", "pop", "wait", "clock", "load", "stopped"}]
        /\ step' \in [Thread -> 1 .. 8]
        /\ \A u \in Thread \ {"monitor"} : pc'[u] = pc[u] /\ step'[u] = step[u]
        /\ pc'["monitor"] \in {"clock", "call"} /\ step'["monitor"] \in 1 .. 2
    BY <2>2, <2>3 DEF TypeOK, Places, Thread
  <2>6. Holding'
    BY <2>1, <2>5, MoveHolding DEF Thread
  <2>7. Places' /\ Rows'
    BY <2>1, <2>5 DEF Places, Rows, Thread
  <2>8. Remaining'
    BY <2>1, <2>5 DEF TypeOK, Remaining, Thread
  <2>9. TypeOK'
    <3>1. \A u \in Thread : step'[u] \in DOMAIN Program[u]
      BY <2>5, Loops DEF TypeOK, Thread
    <3>2. QED
      BY <2>1, <2>4, <2>5, <2>6, <3>1, <1>1 DEF TypeOK, Holding, MayHold
  <2>10. QED
    BY <2>6, <2>7, <2>8, <2>9
<1>9. QED
  BY <1>2, <1>3, <1>4, <1>5, <1>6, <1>7, <1>8

LEMMA TickStructure ==
    ASSUME Structure, Tick
    PROVE  Structure'
<1> USE DEF Structure
<1>1. UNCHANGED <<pc, step, todo, holder, stale, mode, fault>>
  BY DEF Tick
<1>2. \A t \in Thread : left[t] \in 0 .. Longest /\ age[t] \in 0 .. AgeCap
  BY DEF TypeOK
<1>3. /\ left' \in [Thread -> 0 .. Longest]
      /\ \A t \in Thread : left'[t] <= left[t] /\ (left[t] = 0 => left'[t] = 0)
  <2>1. left' = [t \in Thread |-> IF left[t] > 0 THEN left[t] - 1 ELSE 0]
    BY DEF Tick
  <2>2. Longest \in Nat
    BY TimesAssumption DEF Longest
  <2>3. ASSUME NEW t \in Thread
        PROVE  /\ left'[t] \in 0 .. Longest
               /\ left'[t] <= left[t] /\ (left[t] = 0 => left'[t] = 0)
    BY <1>2, <2>1, <2>2
  <2>4. QED
    BY <2>1, <2>3
<1>4. age' \in [Thread -> 0 .. AgeCap]
  <2>1. age' = [t \in Thread |-> IF age[t] < AgeCap THEN age[t] + 1 ELSE age[t]]
    BY DEF Tick
  <2>2. AgeCap \in Nat
    BY TimesAssumption DEF AgeCap
  <2>3. QED
    BY <1>2, <2>1, <2>2
<1>5. silent' \in 0 .. WatchdogSec
  BY TimesAssumption DEF Tick, TypeOK
<1>6. timer' \in 1 .. Interval
  BY TimesAssumption DEF Tick, TypeOK, clock
<1>7. due' \in BOOLEAN
  BY DEF Tick, TypeOK, clock
<1>8. \A t \in Thread : Needs(t)' = Needs(t)
  BY <1>1 DEF Needs, Current
<1>9. Places' /\ Holding' /\ Rows'
  BY <1>1, <1>8 DEF Places, Holding, MayHold, Rows
<1>10. Remaining'
  <2>1. \A t \in Thread : left'[t] \in Int /\ left[t] \in Int /\ left'[t] <= left[t]
    BY <1>2, <1>3
  <2>2. CallMax \in Int
    BY TimesAssumption
  <2>3. \A t \in Thread : pc[t] = "busy" => left'[t] <= CallMax
    BY <2>1, <2>2 DEF Remaining
  <2>4. pc["monitor"] = "load" => left'["monitor"] <= 1
    BY <2>1 DEF Remaining, Thread
  <2>5. QED
    BY <1>1, <1>3, <2>3, <2>4 DEF Remaining, Thread
<1>11. QED
  BY <1>1, <1>3, <1>4, <1>5, <1>6, <1>7, <1>9, <1>10 DEF TypeOK

LEMMA FaultStructure ==
    ASSUME Structure, FaultOccurs
    PROVE  Structure'
<1> USE DEF Structure
<1>1. PICK t \in Thread : pc[t] = "busy" /\ fault' = Needs(t)
  BY DEF FaultOccurs, Needs
<1>2. fault = "none" /\ UNCHANGED <<pc, step, todo, left, holder, age, stale, silent, mode, timer, due>>
  BY DEF FaultOccurs, clock
<1>3. fault' \in Resource
  BY <1>1, Uses DEF Thread, Resource
<1>4. \A u \in Thread : Needs(u)' = Needs(u)
  BY <1>2 DEF Needs, Current
<1>5. Places'
  BY <1>2, <1>3 DEF Places, Resource
<1>6. Holding' /\ Rows' /\ Remaining'
  BY <1>2, <1>4 DEF Holding, MayHold, Rows, Remaining
<1>7. TypeOK'
  BY <1>2, <1>3 DEF TypeOK
<1>8. QED
  BY <1>5, <1>6, <1>7

(* A fresh process: Init, a restart, and what is left of a stopped one. *)
LEMMA FreshStructure ==
    ASSUME Reset, silent' \in 0 .. WatchdogSec, mode' \in {"timerfd", "sleep"},
           \/ pc' = FirstPc /\ fault' \in Resource \cup {"none"}
           \/ pc' = [t \in Thread |-> "stopped"] /\ fault' = "stopped"
    PROVE  Structure'
<1> USE DEF Structure
<1>1. /\ step' = [t \in Thread |-> 1] /\ todo' = 0 /\ left' = [t \in Thread |-> 0]
      /\ holder' = [r \in Resource |-> "none"] /\ age' = [t \in Thread |-> 0]
      /\ timer' = Interval /\ due' = FALSE /\ stale' = {}
  BY DEF Reset
<1>2. /\ pc' \in [Thread -> {"call", "busy", "sleep", "pop", "wait", "clock", "load", "stopped"}]
      /\ \/ /\ pc'["ingress"] = "call" /\ pc'["worker"] = "pop" /\ pc'["monitor"] = "wait"
            /\ fault' \in Resource \cup {"none"}
         \/ /\ \A t \in Thread : pc'[t] = "stopped"
            /\ fault' = "stopped"
  BY DEF FirstPc, Thread
<1>3. Places'
  BY <1>1, <1>2 DEF Places, Thread, Resource
<1>4. Holding' /\ Rows'
  BY <1>1, <1>2 DEF Holding, Rows, Thread
<1>5. Remaining'
  BY <1>1, <1>2, TimesAssumption DEF Remaining, Thread
<1>6. TypeOK'
  <2>1. \A t \in Thread : step'[t] \in DOMAIN Program[t]
    BY <1>1, Loops DEF Thread
  <2>2. left' \in [Thread -> 0 .. Longest] /\ age' \in [Thread -> 0 .. AgeCap]
    BY <1>1, TimesAssumption DEF Longest, AgeCap
  <2>3. timer' \in 1 .. Interval /\ todo' \in 0 .. Batch
    BY <1>1, TimesAssumption
  <2>4. fault' \in Resource \cup {"none", "stopped"}
    BY <1>2
  <2>5. QED
    BY <1>1, <1>2, <2>1, <2>2, <2>3, <2>4 DEF TypeOK
<1>7. QED
  BY <1>3, <1>4, <1>5, <1>6

LEMMA InitStructure == Init => Structure
<1> SUFFICES ASSUME Init PROVE Structure
  OBVIOUS
<1> USE DEF Structure
<1>1. /\ step = [t \in Thread |-> 1] /\ todo = 0 /\ left = [t \in Thread |-> 0]
      /\ holder = [r \in Resource |-> "none"] /\ age = [t \in Thread |-> 0]
      /\ timer = Interval /\ due = FALSE /\ stale = {} /\ fault = "none" /\ silent = 0
      /\ mode \in {"timerfd", "sleep"}
  BY DEF Init
<1>2. /\ pc \in [Thread -> {"call", "busy", "sleep", "pop", "wait", "clock", "load", "stopped"}]
      /\ pc["ingress"] = "call" /\ pc["worker"] = "pop" /\ pc["monitor"] = "wait"
  BY DEF Init, FirstPc, Thread
<1>3. Places
  BY <1>1, <1>2 DEF Places, Thread
<1>4. Holding /\ Rows
  BY <1>1, <1>2 DEF Holding, Rows, Thread
<1>5. Remaining
  BY <1>1, <1>2, TimesAssumption DEF Remaining, Thread
<1>6. TypeOK
  <2>1. \A t \in Thread : step[t] \in DOMAIN Program[t]
    BY <1>1, Loops DEF Thread
  <2>2. left \in [Thread -> 0 .. Longest] /\ age \in [Thread -> 0 .. AgeCap]
    BY <1>1, TimesAssumption DEF Longest, AgeCap
  <2>3. timer \in 1 .. Interval /\ silent \in 0 .. WatchdogSec /\ todo \in 0 .. Batch
    BY <1>1, TimesAssumption
  <2>4. QED
    BY <1>1, <1>2, <2>1, <2>2, <2>3 DEF TypeOK
<1>7. QED
  BY <1>3, <1>4, <1>5, <1>6

LEMMA StructureKept ==
    ASSUME Structure, Next
    PROVE  Structure'
<1>1. CASE Tick
  BY <1>1, TickStructure
<1>2. CASE FaultOccurs
  BY <1>2, FaultStructure
<1>3. CASE Stopped
  <2>1. silent' \in 0 .. WatchdogSec /\ mode' \in {"timerfd", "sleep"}
    BY <1>3 DEF Stopped, Structure, TypeOK
  <2>2. QED
    BY <1>3, <2>1, FreshStructure DEF Stopped
<1>4. CASE WatchdogExpires
  <2>1. silent' \in 0 .. WatchdogSec /\ mode' \in {"timerfd", "sleep"}
    BY <1>4, TimesAssumption DEF WatchdogExpires
  <2>2. pc' = FirstPc /\ fault' \in Resource \cup {"none"} /\ Reset
    BY <1>4 DEF WatchdogExpires
  <2>3. QED
    BY <2>1, <2>2, FreshStructure
<1>5. ASSUME NEW t \in Thread, ThreadStep(t) PROVE Structure'
  BY <1>5, EnterStructure, FinishStructure, MoveStructure DEF ThreadStep
<1>6. QED
  BY <1>1, <1>2, <1>3, <1>4, <1>5 DEF Next

-----------------------------------------------------------------------------
(* The monitor's round. *)

(* Time is linear in the number of calls. *)
LEMMA Times ==
    /\ \A k \in Nat : Time(k) \in Nat /\ Time(k + 1) = Time(k) + CallMax
    /\ \A j, k \in Nat : j <= k => Time(j) <= Time(k)
    /\ Time(0) = 0 /\ Time(1) = CallMax /\ Time(2) = 2 * CallMax
<1>1. CallMax \in Nat
  BY TimesAssumption
<1>2. \A k \in Nat : Time(k) \in Nat /\ Time(k + 1) = Time(k) + CallMax
  BY <1>1 DEF Time
<1>3. ASSUME NEW j \in Nat, NEW k \in Nat, j <= k PROVE Time(j) <= Time(k)
  <2>1. PICK i \in Nat : k = j + i
    BY <1>3
  <2>2. k * CallMax = j * CallMax + i * CallMax /\ i * CallMax \in Nat /\ j * CallMax \in Nat
    BY <1>1, <2>1
  <2>3. QED
    BY <2>2 DEF Time
<1>4. Time(0) = 0 /\ Time(1) = CallMax /\ Time(2) = 2 * CallMax
  BY <1>1 DEF Time
<1>5. QED
  BY <1>2, <1>3, <1>4

LEMMA TimeType == \A k \in Nat : Time(k) \in Nat /\ Time(k + 1) = Time(k) + CallMax
BY Times

LEMMA TimeOrder == \A j, k \in Nat : j <= k => Time(j) <= Time(k)
BY Times

LEMMA TwoCalls == Time(0) = 0 /\ Time(2) = 2 * CallMax /\ CallMax \in Nat
BY Times, TimesAssumption

LEMMA DueType ==
    ASSUME Structure
    PROVE  Due(step["monitor"], todo) \in Nat
<1>1. step["monitor"] \in 1 .. 8 /\ todo \in 0 .. Batch /\ Batch \in Nat
  BY Uses, TimesAssumption DEF Structure, TypeOK
<1>2. QED
  BY <1>1 DEF Due

LEMMA Deadlines == Structure => Deadline \in Nat /\ RoundWait \in Nat /\ RoundWait <= CallMax
<1> SUFFICES ASSUME Structure PROVE Deadline \in Nat /\ RoundWait \in Nat /\ RoundWait <= CallMax
  OBVIOUS
<1>1. Time(Due(step["monitor"], todo)) \in Nat
  BY DueType, TimeType
<1>2. CallMax \in Nat
  BY TimesAssumption
<1>3. QED
  BY <1>1, <1>2 DEF Deadline, RoundWait

LEMMA RoundMaxType == RoundMax \in Nat /\ Interval + 2 <= RoundMax
<1>1. 5 * Batch + 12 \in Nat /\ Interval \in Nat
  BY TimesAssumption
<1>2. Time(5 * Batch + 12) \in Nat
  BY <1>1, Times
<1>3. QED
  BY <1>1, <1>2 DEF RoundMax

(* The next call of the monitor is due after the call it is in. *)
LEMMA DueGrows ==
    ASSUME Structure, NEW n \in AfterMonitor
    PROVE  /\ Due(n, RowsAt(n)) \in Nat
           /\ Due(step["monitor"], todo) + 1 <= Due(n, RowsAt(n))
           /\ step["monitor"] # 3 => Due(step["monitor"], todo) + 2 <= Due(n, RowsAt(n))
<1> DEFINE m == step["monitor"]
           r == RowsAt(n)
<1>1. /\ m \in 1 .. 8 /\ todo \in 0 .. Batch /\ Batch \in Nat
      /\ n \in 1 .. 9 /\ r \in 0 .. Batch
      /\ \/ m = 1 /\ n = 1 /\ r = todo + 1
         \/ m = 1 /\ n \in {2, 6}
         \/ m = 2 /\ n = 3 /\ r = todo
         \/ m = 2 /\ n = 5
         \/ m = 3 /\ n = 4 /\ r = todo /\ todo > 0
         \/ m = 3 /\ n = 5 /\ todo > 0
         \/ m = 4 /\ n = 3 /\ r = todo - 1 /\ todo > 1
         \/ m = 4 /\ n = 5 /\ todo = 1
         \/ m > 4 /\ n = m + 1
  BY MonitorGoesOn
<1> HIDE DEF m, r
<1>2. /\ Due(n, r) \in Nat
      /\ Due(m, todo) + 1 <= Due(n, r)
      /\ m # 3 => Due(m, todo) + 2 <= Due(n, r)
  <2>1. CASE m = 1 /\ n = 1 /\ r = todo + 1
    BY <1>1, <2>1 DEF Due
  <2>2. CASE m = 1 /\ n \in {2, 6}
    BY <1>1, <2>2 DEF Due
  <2>3. CASE m = 2 /\ n = 3 /\ r = todo
    BY <1>1, <2>3 DEF Due
  <2>4. CASE m = 2 /\ n = 5
    BY <1>1, <2>4 DEF Due
  <2>5. CASE m = 3 /\ n = 4 /\ r = todo /\ todo > 0
    BY <1>1, <2>5 DEF Due
  <2>6. CASE m = 3 /\ n = 5 /\ todo > 0
    BY <1>1, <2>6 DEF Due
  <2>7. CASE m = 4 /\ n = 3 /\ r = todo - 1 /\ todo > 1
    BY <1>1, <2>7 DEF Due
  <2>8. CASE m = 4 /\ n = 5 /\ todo = 1
    BY <1>1, <2>8 DEF Due
  <2>9. CASE m > 4 /\ n = m + 1
    BY <1>1, <2>9 DEF Due
  <2>10. QED
    BY <1>1, <2>1, <2>2, <2>3, <2>4, <2>5, <2>6, <2>7, <2>8, <2>9
<1>3. QED
  BY <1>2 DEF m, r

LEMMA DeadlineGrows ==
    ASSUME Structure, NEW n \in AfterMonitor
    PROVE  /\ Deadline + RoundWait + CallMax <= 2 + Time(Due(n, RowsAt(n)))
           /\ Time(Due(n, RowsAt(n))) \in Nat
<1> DEFINE d == Due(step["monitor"], todo)
           e == Due(n, RowsAt(n))
<1>1. d \in Nat /\ e \in Nat /\ d + 1 <= e /\ (step["monitor"] # 3 => d + 2 <= e)
  BY DueType, DueGrows
<1>2. CallMax \in Nat
  BY TimesAssumption
<1>3. Deadline = 2 + Time(d)
  BY DEF Deadline
<1> HIDE DEF d, e
<1>4. /\ Time(d) \in Nat /\ Time(e) \in Nat
      /\ Time(d + 1) = Time(d) + CallMax
      /\ Time(d + 1) <= Time(e)
  <2>1. d + 1 \in Nat
    BY <1>1
  <2>2. QED
    BY <1>1, <2>1, TimeType, TimeOrder
<1>5. CASE step["monitor"] = 3
  BY <1>2, <1>3, <1>4, <1>5 DEF RoundWait, e
<1>6. CASE step["monitor"] # 3
  <2>1. d + 1 \in Nat /\ d + 1 + 1 = d + 2 /\ d + 2 \in Nat /\ d + 2 <= e
    BY <1>1, <1>6
  <2>2. Time(d + 2) = Time(d + 1) + CallMax /\ Time(d + 2) <= Time(e)
    BY <1>1, <2>1, Times
  <2>3. Time(d) + CallMax + CallMax <= Time(e)
    BY <1>2, <1>4, <2>2
  <2>4. QED
    BY <1>2, <1>3, <1>4, <1>6, <2>3 DEF RoundWait, e
<1>7. QED
  BY <1>5, <1>6

(* Whatever call it is in, the round ends in time. *)
LEMMA RoundRoom == Structure => Deadline + RoundWait + CallMax <= RoundMax
<1> SUFFICES ASSUME Structure PROVE Deadline + RoundWait + CallMax <= RoundMax
  OBVIOUS
<1> DEFINE d == Due(step["monitor"], todo)
           e == 5 * Batch + 12
<1>1. d \in Nat /\ e \in Nat /\ d + 2 <= e
  <2>1. /\ step["monitor"] \in 1 .. 8 /\ todo \in 0 .. Batch /\ Batch \in Nat
        /\ step["monitor"] \in {3, 4} => todo > 0
    BY Uses, TimesAssumption DEF Structure, TypeOK, Rows
  <2>2. CASE step["monitor"] \in {1, 2}
    BY <2>1, <2>2 DEF Due
  <2>3. CASE step["monitor"] \in {3, 4}
    BY <2>1, <2>3 DEF Due
  <2>4. CASE step["monitor"] \in 5 .. 8
    BY <2>1, <2>4 DEF Due
  <2>5. QED
    BY <2>1, <2>2, <2>3, <2>4
<1>2. Deadline = 2 + Time(d) /\ RoundMax = Interval + 2 + Time(e)
  BY DEF Deadline, RoundMax
<1>3. CallMax \in Nat /\ Interval \in Nat /\ RoundWait \in Nat /\ RoundWait <= CallMax
  BY TimesAssumption, Deadlines
<1> HIDE DEF d, e
<1>4. d + 1 \in Nat /\ d + 1 + 1 = d + 2 /\ d + 2 \in Nat
  BY <1>1
<1>5. /\ Time(d) \in Nat /\ Time(e) \in Nat /\ Time(d + 1) = Time(d) + CallMax
      /\ Time(d + 2) = Time(d + 1) + CallMax /\ Time(d + 2) <= Time(e)
  BY <1>1, <1>4, Times
<1>6. QED
  BY <1>2, <1>3, <1>5

(* The numbers that the clock is about, and who can hold what a call needs. *)
LEMMA Numbers ==
    ASSUME Structure
    PROVE  /\ silent \in Nat /\ timer \in Nat /\ timer <= Interval
           /\ \A t \in Thread : left[t] \in Nat /\ age[t] \in Nat
           /\ CallMax \in Nat /\ Interval \in Nat /\ PollInterval \in Nat /\ StaleAfter \in Nat
           /\ CallMax > 0
<1>1. /\ {CallMax, Interval, PollInterval, StaleAfter} \subseteq Nat /\ CallMax > 0
      /\ WatchdogSec \in Nat
  BY TimesAssumption
<1>2. silent \in Nat /\ timer \in Nat /\ timer <= Interval
  BY <1>1 DEF Structure, TypeOK
<1>3. Longest \in Nat /\ AgeCap \in Nat
  BY <1>1 DEF Longest, AgeCap
<1>4. \A t \in Thread : left[t] \in Nat /\ age[t] \in Nat
  BY <1>3 DEF Structure, TypeOK
<1>5. QED
  BY <1>1, <1>2, <1>4

LEMMA Holders ==
    ASSUME Structure
    PROVE  /\ holder[Needs("monitor")] \in {"none", "worker", "monitor"}
           /\ holder[Needs("worker")] \in {"none", "worker", "monitor"}
           /\ holder[Needs("ingress")] \in {"none", "ingress"}
           /\ holder[Needs("monitor")] = "worker" =>
                 /\ Needs("worker") = Needs("monitor") /\ pc["worker"] \in {"call", "busy"}
                 /\ RoundWait = CallMax
<1>1. \A t \in Thread : Needs(t) \in Resource
  BY Uses DEF Thread, Resource
<1>2. \A t \in Thread : holder[Needs(t)] \in {"none", "ingress", "worker", "monitor"}
  BY <1>1 DEF Structure, TypeOK, Thread
<1>3. \A t, u \in Thread : holder[Needs(t)] = u => MayHold(u, Needs(t))
  BY <1>1 DEF Structure, Holding
<1>4. step["monitor"] = 3 => holder[Needs("monitor")] = "monitor"
  BY Uses DEF Structure, Rows
<1>5. holder[Needs("monitor")] = "worker" => RoundWait = CallMax
  BY <1>4 DEF RoundWait
<1>6. QED
  BY <1>2, <1>3, <1>5, Uses DEF MayHold, Thread

(* A call that is reached in time. *)
InTime == silent <= Deadline

LEMMA RoundArrives == Structure /\ InTime => RoundWaits
<1> SUFFICES ASSUME Structure, InTime PROVE RoundWaits
  OBVIOUS
<1> DEFINE d == Deadline
           h == holder[Needs("monitor")]
           x == left["worker"]
           w == RoundWait
<1>1. h = "worker" => x <= CallMax
  <2> SUFFICES ASSUME h = "worker" PROVE x <= CallMax
    OBVIOUS
  <2>1. pc["worker"] \in {"call", "busy"}
    BY Holders
  <2>2. QED
    BY <2>1, TimesAssumption DEF Structure, Remaining, Thread
<1>2. silent \in Nat /\ x \in Nat /\ CallMax \in Nat
  BY Numbers DEF Thread
<1>3. d \in Nat /\ silent <= d
  BY Deadlines DEF InTime
<1>4. w \in Nat /\ (h = "worker" => w = CallMax)
  BY Deadlines, Holders
<1> HIDE DEF d, h, x, w
<1>5. /\ h = "worker" => silent + x <= d + w
      /\ silent <= d + w
  BY <1>1, <1>2, <1>3, <1>4
<1>6. QED
  BY <1>3, <1>5 DEF d, h, x, w, RoundWaits

LEMMA RoundArrivesNext == Structure' /\ InTime' => RoundWaits'
BY RoundArrives, PTL

(* Time passes only while the monitor sleeps, is in a call, or waits for a *)
(* call of the worker, and brings the end of that nearer.                  *)
LEMMA RoundTick ==
    ASSUME Structure, RoundOnTime, fault \in {"none", "bus"}, Tick
    PROVE  RoundOnTime'
<1>1. UNCHANGED <<pc, step, todo, holder, mode, fault>> /\ silent' = silent + 1
  BY DEF Tick
<1>2. \A t \in Thread : left[t] \in Nat /\ (left[t] > 0 => left'[t] = left[t] - 1)
  BY Numbers DEF Tick
<1>3. \A t \in Thread : ~Urgent(t)
  BY DEF Tick
<1>4. Needs("monitor")' = Needs("monitor")
  BY <1>1 DEF Needs, Current
<1>5. ~Stuck("worker") /\ ~Stuck("monitor")
  BY Uses DEF Stuck, Needs
<1>6. silent \in Nat /\ CallMax \in Nat /\ Interval \in Nat
      /\ Deadline \in Nat /\ Deadline' = Deadline
      /\ RoundWait \in Nat /\ RoundWait' = RoundWait
  BY <1>1, Numbers, Deadlines DEF Deadline, RoundWait
<1>7. pc["monitor"] # "clock"
  BY <1>3 DEF Urgent, Thread
<1>8. pc["monitor"] = "load" => silent' + left'["monitor"] <= step["monitor"]
  <2> SUFFICES ASSUME pc["monitor"] = "load" PROVE silent' + left'["monitor"] <= step["monitor"]
    OBVIOUS
  <2>1. left["monitor"] # 0
    BY <1>3 DEF Urgent, Thread
  <2>2. step["monitor"] \in Int /\ silent + left["monitor"] <= step["monitor"]
    BY Uses DEF RoundOnTime
  <2>3. QED
    BY <1>1, <1>2, <1>6, <2>1, <2>2 DEF Thread
<1>9. pc["monitor"] = "call" => RoundWaits'
  <2> SUFFICES ASSUME pc["monitor"] = "call" PROVE RoundWaits'
    OBVIOUS
  <2>1. holder[Needs("monitor")] = "worker"
    BY <1>3, Holders DEF Urgent, CanEnter, Needs, Thread
  <2>2. pc["worker"] = "busy"
    BY <1>3, <2>1, Holders DEF Urgent, CanEnter, Needs, Thread
  <2>3. left["worker"] # 0
    BY <1>3, <1>5, <2>2 DEF Urgent, Thread
  <2>4. silent + left["worker"] <= Deadline + RoundWait
    BY <2>1 DEF RoundOnTime, RoundWaits
  <2>5. silent' + left'["worker"] <= Deadline + RoundWait
    BY <1>1, <1>2, <1>6, <2>3, <2>4 DEF Thread
  <2>6. QED
    BY <1>1, <1>4, <1>6, <2>1, <2>2, <2>5 DEF RoundWaits
<1>10. pc["monitor"] = "busy" =>
         silent' + left'["monitor"] <= Deadline + RoundWait + CallMax
  <2> SUFFICES ASSUME pc["monitor"] = "busy"
               PROVE  silent' + left'["monitor"] <= Deadline + RoundWait + CallMax
    OBVIOUS
  <2>1. left["monitor"] # 0
    BY <1>3, <1>5 DEF Urgent, Thread
  <2>2. silent + left["monitor"] <= Deadline + RoundWait + CallMax
    BY DEF RoundOnTime
  <2>3. QED
    BY <1>1, <1>2, <1>6, <2>1, <2>2 DEF Thread
<1>11. RoundMax \in Nat
  BY RoundMaxType
<1>12. pc["monitor"] = "wait" /\ mode = "sleep" => silent' + left'["monitor"] <= RoundMax
  <2> SUFFICES ASSUME pc["monitor"] = "wait", mode = "sleep"
               PROVE  silent' + left'["monitor"] <= RoundMax
    OBVIOUS
  <2>1. left["monitor"] # 0
    BY <1>3 DEF Urgent, RoundDue, Thread
  <2>2. silent + left["monitor"] <= RoundMax
    BY DEF RoundOnTime
  <2>3. QED
    BY <1>1, <1>2, <1>6, <1>11, <2>1, <2>2 DEF Thread
<1>13. pc["monitor"] = "wait" /\ mode = "timerfd" =>
         silent' + (IF due' THEN 0 ELSE timer') <= RoundMax
  <2> SUFFICES ASSUME pc["monitor"] = "wait", mode = "timerfd"
               PROVE  silent' + (IF due' THEN 0 ELSE timer') <= RoundMax
    OBVIOUS
  <2>1. ~due
    BY <1>3 DEF Urgent, RoundDue, Thread
  <2>2. silent + timer <= RoundMax /\ timer \in Nat
    BY <2>1, Numbers DEF RoundOnTime
  <2>3. \/ timer = 1 /\ due'
        \/ timer # 1 /\ timer' = timer - 1 /\ ~due'
    BY <2>1 DEF Tick
  <2>4. CASE timer = 1 /\ due'
    BY <1>1, <1>6, <1>11, <2>2, <2>4
  <2>5. CASE timer # 1 /\ timer' = timer - 1 /\ ~due'
    BY <1>1, <1>6, <1>11, <2>2, <2>5
  <2>6. QED
    BY <2>3, <2>4, <2>5
<1>14. QED
  BY <1>1, <1>6, <1>7, <1>8, <1>9, <1>10, <1>12, <1>13 DEF RoundOnTime

LEMMA RoundEnter ==
    ASSUME Structure, RoundOnTime, NEW t \in Thread, Enter(t)
    PROVE  RoundOnTime'
<1>1. /\ pc[t] = "call" /\ holder[Needs(t)] \in {"none", t}
      /\ pc' = [pc EXCEPT ![t] = "busy"]
      /\ holder' = [holder EXCEPT ![Needs(t)] = t]
      /\ left' = [left EXCEPT ![t] = CallMax]
      /\ UNCHANGED <<step, todo, timer, due, silent, mode>>
  BY DEF Enter, CanEnter, Goto, Needs, clock, bookkeeping
<1>2. Needs("monitor")' = Needs("monitor")
  BY <1>1 DEF Needs, Current
<1>3. /\ pc \in [Thread -> {"call", "busy", "sleep", "pop", "wait", "clock", "load", "stopped"}]
      /\ left \in [Thread -> 0 .. Longest] /\ holder \in [Resource -> Thread \cup {"none"}]
      /\ \A u \in Thread : Needs(u) \in Resource
  BY Uses DEF Structure, TypeOK, Thread, Resource
<1>4. silent \in Nat /\ CallMax \in Nat 
      /\ Deadline \in Nat /\ Deadline' = Deadline
      /\ RoundWait \in Nat /\ RoundWait' = RoundWait
  BY <1>1, Numbers, Deadlines DEF Deadline, RoundWait
<1>5. CASE t = "monitor"
  <2>1. silent <= Deadline + RoundWait
    BY <1>1, <1>4, <1>5 DEF RoundOnTime, RoundWaits
  <2>2. silent + CallMax <= Deadline + RoundWait + CallMax
    BY <1>4, <2>1
  <2>3. pc'["monitor"] = "busy" /\ left'["monitor"] = CallMax
    BY <1>1, <1>3, <1>5
  <2>4. QED
    BY <1>1, <1>4, <2>2, <2>3 DEF RoundOnTime
<1>6. CASE t # "monitor"
  <2>1. pc'["monitor"] = pc["monitor"] /\ left'["monitor"] = left["monitor"]
    BY <1>1, <1>3, <1>6 DEF Thread
  <2>2. ASSUME pc["monitor"] = "call" PROVE RoundWaits'
    <3>1. RoundWaits
      BY <2>2 DEF RoundOnTime
    <3>2. CASE Needs(t) = Needs("monitor")
      <4>1. t = "worker" /\ holder'[Needs("monitor")] = "worker"
        BY <1>1, <1>3, <1>6, <3>2, Uses DEF Thread
      <4>2. silent <= Deadline
        BY <1>1, <3>1, <3>2, <4>1 DEF RoundWaits
      <4>3. RoundWait = CallMax
        BY <1>1, <3>2, <4>1, Uses DEF Structure, Rows, RoundWait
      <4>4. silent + CallMax <= Deadline + RoundWait
        BY <1>4, <4>2, <4>3
      <4>5. pc'["worker"] = "busy" /\ left'["worker"] = CallMax
        BY <1>1, <1>3, <4>1
      <4>6. QED
        BY <1>1, <1>2, <1>4, <4>1, <4>4, <4>5 DEF RoundWaits
    <3>3. CASE Needs(t) # Needs("monitor")
      <4>1. holder'[Needs("monitor")] = holder[Needs("monitor")]
        BY <1>1, <1>3, <3>3 DEF Thread
      <4>2. holder[Needs("monitor")] = "worker" =>
              pc'["worker"] = pc["worker"] /\ left'["worker"] = left["worker"]
        BY <1>1, <1>3, <3>3, Holders DEF Thread
      <4>3. QED
        BY <1>1, <1>2, <1>4, <3>1, <4>1, <4>2 DEF RoundWaits
    <3>4. QED
      BY <3>2, <3>3
  <2>3. QED
    BY <1>1, <1>4, <2>1, <2>2 DEF RoundOnTime
<1>7. QED
  BY <1>5, <1>6

LEMMA RoundFinish ==
    ASSUME Structure, Structure', RoundOnTime, NEW t \in Thread, Finish(t)
    PROVE  RoundOnTime'
<1>1. PICK n \in Following(t) :
        /\ GiveBack(t, n)
        /\ IF n > Len(Program[t]) THEN EndTurn(t) ELSE NextCall(t, n)
        /\ todo' = IF t = "monitor" THEN RowsAt(n) ELSE todo
  BY DEF Finish
<1>2. pc[t] = "busy" /\ UNCHANGED <<timer, due, silent, mode>>
  BY DEF Finish, clock, bookkeeping
<1>3. silent \in Nat /\ CallMax \in Nat /\ left["worker"] \in Nat /\ left["monitor"] \in Nat
  BY Numbers DEF Thread
<1>4. CASE t = "monitor"
  <2>1. n \in AfterMonitor /\ n \in 1 .. 9 /\ todo' = RowsAt(n) /\ (n > 4 => RowsAt(n) = 0)
    BY <1>1, <1>4, Follows, MonitorGoesOn
  <2>2. silent + left["monitor"] <= Deadline + RoundWait + CallMax
    BY <1>2, <1>4 DEF RoundOnTime
  <2>3. silent <= 2 + Time(Due(n, RowsAt(n)))
    <3>1. /\ Deadline + RoundWait + CallMax <= 2 + Time(Due(n, RowsAt(n)))
          /\ Time(Due(n, RowsAt(n))) \in Nat /\ Deadline \in Nat /\ RoundWait \in Nat
      BY <2>1, DeadlineGrows, Deadlines
    <3>2. QED
      BY <1>3, <2>2, <3>1
  <2>4. CASE n = 9
    <3>1. pc'["monitor"] = "wait" /\ left'["monitor"] = (IF mode = "sleep" THEN Interval ELSE 0)
      BY <1>1, <1>4, <2>4, Returns
    <3>2. silent <= 2 + Time(5 * Batch + 12)
      <4>1. Due(9, 0) = 5 * Batch + 12
        BY TimesAssumption DEF Due
      <4>2. QED
        BY <2>1, <2>3, <2>4, <4>1
    <3>3. /\ timer \in Nat /\ timer <= Interval /\ Interval \in Nat
          /\ Time(5 * Batch + 12) \in Nat
      <4>1. 5 * Batch + 12 \in Nat
        BY TimesAssumption
      <4>2. QED
        BY <4>1, Numbers, TimeType
    <3>4. silent + Interval <= RoundMax /\ silent + timer <= RoundMax /\ silent + 0 <= RoundMax
      BY <1>3, <3>2, <3>3 DEF RoundMax
    <3>5. QED
      BY <1>2, <3>1, <3>4 DEF RoundOnTime
  <2>5. CASE n # 9
    <3>1. pc'["monitor"] = "call" /\ step'["monitor"] = n
      BY <1>1, <1>4, <2>5, Returns
    <3>2. InTime'
      BY <1>2, <2>1, <2>3, <3>1 DEF InTime, Deadline
    <3>3. RoundWaits'
      BY <3>2, RoundArrivesNext
    <3>4. QED
      BY <3>1, <3>3 DEF RoundOnTime
  <2>6. QED
    BY <2>4, <2>5
<1>5. CASE t # "monitor"
  <2>1. /\ pc'["monitor"] = pc["monitor"] /\ left'["monitor"] = left["monitor"]
        /\ step'["monitor"] = step["monitor"] /\ todo' = todo
    BY <1>1, <1>5, Returns DEF Thread
  <2>2. Deadline' = Deadline /\ RoundWait' = RoundWait
    BY <2>1 DEF Deadline, RoundWait
  <2>3. Needs("monitor")' = Needs("monitor") /\ Needs("monitor") \in Resource
    BY <2>1, Uses DEF Needs, Current, Resource
  <2>4. ASSUME pc["monitor"] = "call" PROVE RoundWaits'
    <3>1. RoundWaits
      BY <2>4 DEF RoundOnTime
    <3>2. CASE holder[Needs("monitor")] = t
      <4>1. t = "worker"
        BY <1>5, <3>2, Holders DEF Thread
      <4>2. holder'[Needs("monitor")] = NextHolder(Needs("monitor"), t)
        BY <1>1, <1>5, <2>3, <3>2, GivesBack
      <4>3. NextHolder(Needs("monitor"), t) = "monitor"
        <5>1. NextHolder(Needs("monitor"), t) # "none"
          BY <1>5, <2>3, <2>4, Handover DEF Thread
        <5>2. NextHolder(Needs("monitor"), t) # "ingress"
          BY <2>3, Uses, Handover
        <5>3. QED
          BY <2>3, <4>1, <5>1, <5>2, Handover DEF Thread
      <4>4. silent + left["worker"] <= Deadline + RoundWait
        BY <3>1, <3>2, <4>1 DEF RoundWaits
      <4>5. silent <= Deadline + RoundWait
        <5>1. Deadline \in Nat /\ RoundWait \in Nat
          BY Deadlines
        <5>2. QED
          BY <1>3, <4>4, <5>1
      <4>6. QED
        BY <1>2, <2>1, <2>3, <2>2, <4>2, <4>3, <4>5 DEF RoundWaits
    <3>3. CASE holder[Needs("monitor")] # t
      <4>1. holder'[Needs("monitor")] = holder[Needs("monitor")]
        BY <1>1, <2>3, <3>3, GivesBack
      <4>2. holder[Needs("monitor")] = "worker" =>
              pc'["worker"] = pc["worker"] /\ left'["worker"] = left["worker"]
        BY <1>1, <3>3, Returns DEF Thread
      <4>3. QED
        BY <1>2, <2>1, <2>3, <2>2, <3>1, <4>1, <4>2 DEF RoundWaits
    <3>4. QED
      BY <3>2, <3>3
  <2>5. QED
    BY <1>2, <2>1, <2>4, <2>2 DEF RoundOnTime
<1>6. QED
  BY <1>4, <1>5

LEMMA RoundMove ==
    ASSUME Structure, Structure', RoundOnTime,
           IngressWakes \/ PopEmpty \/ WorkerWakes \/ PopPoint
             \/ BeginRound \/ ReadClock \/ LoadStamp
    PROVE  RoundOnTime'
<1>1. /\ silent \in Nat /\ left["monitor"] \in Nat
      /\ step["monitor"] \in 1 .. 8 /\ step \in [Thread -> 1 .. 8]
      /\ pc \in [Thread -> {"call", "busy", "sleep", "pop", "wait", "clock", "load", "stopped"}]
      /\ left \in [Thread -> 0 .. Longest]
  BY Numbers, Uses DEF Structure, TypeOK, Places, Thread
<1>2. CASE IngressWakes \/ PopEmpty \/ WorkerWakes \/ PopPoint
  <2>1. /\ pc'["monitor"] = pc["monitor"] /\ left'["monitor"] = left["monitor"]
        /\ UNCHANGED <<step, todo, holder, timer, due, silent, mode>>
    BY <1>1, <1>2 DEF IngressWakes, PopEmpty, WorkerWakes, PopPoint, Goto, clock, bookkeeping,
       Thread
  <2>2. Needs("monitor")' = Needs("monitor")
    BY <2>1 DEF Needs, Current
  <2>3. holder[Needs("monitor")] = "worker" =>
          pc'["worker"] = pc["worker"] /\ left'["worker"] = left["worker"]
    <3> SUFFICES ASSUME holder[Needs("monitor")] = "worker"
                 PROVE  pc'["worker"] = pc["worker"] /\ left'["worker"] = left["worker"]
      OBVIOUS
    <3>1. pc["worker"] \in {"call", "busy"}
      BY Holders
    <3>2. QED
      BY <1>1, <1>2, <3>1 DEF IngressWakes, PopEmpty, WorkerWakes, PopPoint, Goto, Thread
  <2>4. pc["monitor"] = "call" => RoundWaits'
    BY <2>1, <2>2, <2>3 DEF RoundOnTime, RoundWaits, Deadline, RoundWait
  <2>5. QED
    BY <2>1, <2>4 DEF RoundOnTime, Deadline, RoundWait
<1>3. CASE BeginRound
  <2>1. pc'["monitor"] = "clock" /\ silent' = 0 /\ step' = step
    BY <1>1, <1>3 DEF BeginRound, Goto, Thread
  <2>2. QED
    BY <1>1, <2>1 DEF RoundOnTime
<1>4. CASE ReadClock
  <2>1. /\ pc["monitor"] = "clock" /\ pc'["monitor"] = "load" /\ left'["monitor"] = 1
        /\ silent' = silent /\ step' = step
    BY <1>1, <1>4 DEF ReadClock, Goto, Thread, bookkeeping
  <2>2. silent <= step["monitor"] - 1
    BY <2>1 DEF RoundOnTime
  <2>3. silent + 1 <= step["monitor"]
    BY <1>1, <2>2
  <2>4. QED
    BY <2>1, <2>3 DEF RoundOnTime
<1>5. CASE LoadStamp
  <2>1. pc["monitor"] = "load" /\ silent' = silent /\ step["monitor"] \in 1 .. 2
    BY <1>5 DEF LoadStamp, bookkeeping, Structure, Places
  <2>2. silent + left["monitor"] <= step["monitor"]
    BY <2>1 DEF RoundOnTime
  <2>3. silent <= step["monitor"]
    BY <1>1, <2>2
  <2>4. Len(Watched) = 2
    BY DEF Watched
  <2>5. CASE step["monitor"] = 1
    <3>1. pc'["monitor"] = "clock" /\ step'["monitor"] = step["monitor"] + 1
      BY <1>1, <1>5, <2>4, <2>5 DEF LoadStamp, Goto, Thread
    <3>2. silent' <= step'["monitor"] - 1
      BY <2>1, <2>3, <2>5, <3>1
    <3>3. QED
      BY <3>1, <3>2 DEF RoundOnTime
  <2>6. CASE step["monitor"] = 2
    <3>1. pc'["monitor"] = "call" /\ step'["monitor"] = 1 /\ todo' = 0
      BY <1>1, <1>5, <2>1, <2>4, <2>6 DEF LoadStamp, Goto, Thread, Structure, Rows
    <3>2. Due(1, 0) = 0
      BY DEF Due
    <3>3. InTime'
      BY <2>1, <2>3, <2>6, <3>1, <3>2, Times DEF InTime, Deadline
    <3>4. RoundWaits'
      BY <3>3, RoundArrivesNext
    <3>5. QED
      BY <3>1, <3>4 DEF RoundOnTime
  <2>7. QED
    BY <2>1, <2>5, <2>6
<1>6. QED
  BY <1>2, <1>3, <1>4, <1>5

(* A process that has just been started has a whole round before it. *)
LEMMA RoundFresh == silent = 0 /\ timer = Interval /\ pc = FirstPc /\ left["monitor"] = 0
                    => RoundOnTime
<1> SUFFICES ASSUME silent = 0, timer = Interval, pc = FirstPc, left["monitor"] = 0
             PROVE  RoundOnTime
  OBVIOUS
<1>1. pc["monitor"] = "wait"
  BY DEF FirstPc, Thread
<1>2. 0 + 0 <= RoundMax /\ 0 + Interval <= RoundMax
  BY RoundMaxType, TimesAssumption
<1>3. QED
  BY <1>1, <1>2 DEF RoundOnTime

LEMMA RoundKept ==
    ASSUME Structure, Structure', Next,
           fault \in {"none", "bus"} => RoundOnTime, fault' \in {"none", "bus"}
    PROVE  RoundOnTime'
<1>1. CASE Tick
  BY <1>1, RoundTick DEF Tick
<1>2. CASE FaultOccurs
  <2>1. fault = "none" /\ UNCHANGED <<pc, step, todo, left, holder, silent, mode, timer, due>>
    BY <1>2 DEF FaultOccurs, clock
  <2>2. RoundWaits => RoundWaits'
    BY <2>1 DEF RoundWaits, Deadline, RoundWait, Needs, Current
  <2>3. QED
    BY <2>1, <2>2 DEF RoundOnTime, Deadline, RoundWait
<1>3. CASE Stopped
  BY <1>3 DEF Stopped
<1>4. CASE WatchdogExpires
  <2>1. (silent = 0 /\ timer = Interval /\ pc = FirstPc /\ left["monitor"] = 0)'
    BY <1>4 DEF WatchdogExpires, Reset, Thread
  <2>2. QED
    BY <2>1, RoundFresh, PTL
<1>5. ASSUME NEW t \in Thread, ThreadStep(t) PROVE RoundOnTime'
  <2>1. fault' = fault
    BY <1>5 DEF ThreadStep, Enter, Finish, IngressWakes, PopEmpty, WorkerWakes, PopPoint,
       BeginRound, ReadClock, LoadStamp, bookkeeping
  <2>2. QED
    BY <1>5, <2>1, RoundEnter, RoundFinish, RoundMove DEF ThreadStep
<1>6. QED
  BY <1>1, <1>2, <1>3, <1>4, <1>5 DEF Next

-----------------------------------------------------------------------------
(* The worker's turn, from one time stamp to the next. *)

LEMMA TurnDeadlines ==
    /\ \A n \in 1 .. 5 : TurnDeadline(n) \in Nat /\ TurnWait(n) \in Nat /\ CallMax <= TurnWait(n)
    /\ TurnDeadline(1) = Time(2) /\ TurnDeadline(5) = 0 /\ TurnDeadline(2) <= TurnDeadline(3)
    /\ TurnWait(3) = Time(2 * Batch + 1) /\ TurnWait(5) = CallMax
    /\ \A n \in 1 .. 3 : TurnDeadline(n) + TurnWait(n) + CallMax = TurnDeadline(n + 1)
    /\ \A n \in 1 .. 5 : TurnDeadline(n) + TurnWait(n) + CallMax <= Time(2 * Batch + 10)
<1>1. CallMax \in Nat /\ Batch \in Nat /\ Batch > 0
  BY TimesAssumption
<1>2. Time(2) = 2 * CallMax /\ Time(4) = 4 * CallMax /\ Time(6) = 6 * CallMax
  BY <1>1 DEF Time
<1> DEFINE b == Time(2 * Batch)
<1>3. /\ b \in Nat
      /\ Time(2 * Batch + 1) = b + CallMax /\ Time(2 * Batch + 8) = b + 8 * CallMax
      /\ Time(2 * Batch + 10) = b + 10 * CallMax
  BY <1>1 DEF Time
<1> HIDE DEF b
<1>4. /\ TurnDeadline(1) = 2 * CallMax /\ TurnDeadline(2) = 4 * CallMax
      /\ TurnDeadline(3) = 6 * CallMax /\ TurnDeadline(4) = b + 8 * CallMax /\ TurnDeadline(5) = 0
  BY <1>2, <1>3 DEF TurnDeadline
<1>5. TurnWait(3) = b + CallMax /\ \A n \in {1, 2, 4, 5} : TurnWait(n) = CallMax
  BY <1>3 DEF TurnWait
<1>6. \A n \in 1 .. 5 : TurnDeadline(n) \in Nat /\ TurnWait(n) \in Nat /\ CallMax <= TurnWait(n)
  BY <1>1, <1>3, <1>4, <1>5
<1>7. \A n \in 1 .. 3 : TurnDeadline(n) + TurnWait(n) + CallMax = TurnDeadline(n + 1)
  BY <1>1, <1>3, <1>4, <1>5
<1>8. \A n \in 1 .. 5 : TurnDeadline(n) + TurnWait(n) + CallMax <= Time(2 * Batch + 10)
  BY <1>1, <1>3, <1>4, <1>5
<1>9. TurnDeadline(2) <= TurnDeadline(3)
  BY <1>1, <1>4
<1>10. QED
  BY <1>2, <1>3, <1>4, <1>5, <1>6, <1>7, <1>8, <1>9

LEMMA AheadType == Structure => Ahead \in Nat /\ Ahead <= 2 * Batch
<1> SUFFICES ASSUME Structure PROVE Ahead \in Nat /\ Ahead <= 2 * Batch
  OBVIOUS
<1>1. /\ step["monitor"] \in 1 .. 8 /\ todo \in 0 .. Batch /\ Batch \in Nat
      /\ step["monitor"] \in {3, 4} => todo > 0
  BY Uses, TimesAssumption DEF Structure, TypeOK, Rows
<1>2. QED
  BY <1>1 DEF Ahead

(* The monitor keeps what the worker waits for no longer than it may. *)
LEMMA KeepsBound ==
    Structure /\ holder[Needs("worker")] = "monitor" => Keeps <= TurnWait(step["worker"])
<1> SUFFICES ASSUME Structure, holder[Needs("worker")] = "monitor"
             PROVE  Keeps <= TurnWait(step["worker"])
  OBVIOUS
<1>1. MayHold("monitor", Needs("worker"))
  BY Uses DEF Structure, Holding, Thread, Resource
<1>2. left["monitor"] <= CallMax /\ left["monitor"] \in Nat /\ CallMax \in Nat
  BY <1>1, Numbers DEF MayHold, Structure, Remaining, Thread
<1>3. step["worker"] \in 1 .. 5 /\ (Needs("worker") = "session" <=> step["worker"] = 3)
  BY Uses
<1>4. CASE step["worker"] = 3
  <2>1. TurnWait(step["worker"]) = Time(2 * Batch + 1)
    BY <1>4, TurnDeadlines
  <2>2. /\ Time(Ahead) \in Nat /\ Time(2 * Batch) \in Nat
        /\ Time(Ahead) <= Time(2 * Batch) /\ Time(2 * Batch + 1) = Time(2 * Batch) + CallMax
    <3>1. Ahead \in Nat /\ Ahead <= 2 * Batch /\ 2 * Batch \in Nat
      BY AheadType, TimesAssumption
    <3>2. QED
      BY <3>1, Times
  <2>3. Keeps <= CallMax + Time(Ahead)
    BY <1>2, <1>3, <1>4, <2>2 DEF Keeps
  <2>4. Keeps \in Int
    BY <1>2, <2>2 DEF Keeps
  <2>5. QED
    BY <1>2, <2>1, <2>2, <2>3, <2>4
<1>5. CASE step["worker"] # 3
  <2>1. CallMax <= TurnWait(step["worker"]) /\ TurnWait(step["worker"]) \in Nat
    BY <1>3, TurnDeadlines
  <2>2. QED
    BY <1>2, <1>3, <1>5, <2>1 DEF Keeps
<1>6. QED
  BY <1>4, <1>5

LEMMA KeepsBoundNext ==
    Structure' /\ (holder[Needs("worker")] = "monitor")' => (Keeps <= TurnWait(step["worker"]))'
BY KeepsBound, PTL

LEMMA KeepsType == Structure => Keeps \in Nat
<1> SUFFICES ASSUME Structure PROVE Keeps \in Nat
  OBVIOUS
<1>1. left["monitor"] \in Nat /\ CallMax \in Nat
  BY Numbers DEF Thread
<1>2. Time(Ahead) \in Nat
  BY AheadType, TimeType
<1>3. QED
  BY <1>1, <1>2 DEF Keeps

(* A call that is reached in time. *)
TurnInTime == age["worker"] <= TurnDeadline(step["worker"])

LEMMA TurnArrives == Structure /\ TurnInTime => TurnWaits
<1> SUFFICES ASSUME Structure, TurnInTime PROVE TurnWaits
  OBVIOUS
<1> DEFINE d == TurnDeadline(step["worker"])
           w == TurnWait(step["worker"])
           a == age["worker"]
<1>1. a \in Nat /\ Keeps \in Nat /\ d \in Nat /\ w \in Nat /\ a <= d
  BY Numbers, KeepsType, Uses, TurnDeadlines DEF TurnInTime, Thread
<1>2. holder[Needs("worker")] = "monitor" => Keeps <= w
  BY KeepsBound
<1> HIDE DEF d, w, a
<1>3. /\ a <= d + w
      /\ Keeps <= w => a + Keeps <= d + w
  BY <1>1
<1>4. QED
  BY <1>1, <1>2, <1>3 DEF a, d, w, TurnWaits

LEMMA TurnArrivesNext == Structure' /\ TurnInTime' => TurnWaits'
BY TurnArrives, PTL

LEMMA TurnTick ==
    ASSUME Structure, TurnOnTime, fault = "none", Tick
    PROVE  TurnOnTime'
<1>1. UNCHANGED <<pc, step, todo, holder>>
  BY DEF Tick
<1>2. \A t \in Thread : /\ left[t] \in Nat /\ age[t] \in Nat /\ age'[t] \in Nat
                        /\ left[t] # 0 => left'[t] = left[t] - 1
                        /\ age'[t] <= age[t] + 1
  BY Numbers, TimesAssumption DEF Tick, AgeCap
<1>3. \A t \in Thread : ~Urgent(t)
  BY DEF Tick
<1>4. ~Stuck("worker") /\ ~Stuck("monitor")
  BY Uses DEF Stuck, Needs
<1>5. /\ TurnDeadline(step["worker"]) \in Nat /\ TurnWait(step["worker"]) \in Nat
      /\ CallMax \in Nat
  BY Uses, TurnDeadlines, Numbers
<1>6. pc["worker"] # "pop"
  BY <1>3 DEF Urgent, Thread
<1>7. pc["worker"] = "sleep" => age'["worker"] + left'["worker"] <= 1
  <2> SUFFICES ASSUME pc["worker"] = "sleep" PROVE age'["worker"] + left'["worker"] <= 1
    OBVIOUS
  <2>1. left["worker"] # 0 /\ age["worker"] + left["worker"] <= 1
    BY <1>3 DEF Urgent, TurnOnTime, Thread
  <2>2. QED
    BY <1>2, <2>1 DEF Thread
<1>8. pc["worker"] = "busy" =>
        age'["worker"] + left'["worker"]
          <= TurnDeadline(step["worker"]) + TurnWait(step["worker"]) + CallMax
  <2> SUFFICES ASSUME pc["worker"] = "busy"
               PROVE  age'["worker"] + left'["worker"]
                        <= TurnDeadline(step["worker"]) + TurnWait(step["worker"]) + CallMax
    OBVIOUS
  <2>1. left["worker"] # 0
    BY <1>3, <1>4 DEF Urgent, Thread
  <2>2. age["worker"] + left["worker"]
          <= TurnDeadline(step["worker"]) + TurnWait(step["worker"]) + CallMax
    BY DEF TurnOnTime
  <2>3. QED
    BY <1>2, <1>5, <2>1, <2>2 DEF Thread
<1>9. pc["worker"] = "call" => TurnWaits'
  <2> SUFFICES ASSUME pc["worker"] = "call" PROVE TurnWaits'
    OBVIOUS
  <2>1. holder[Needs("worker")] = "monitor"
    BY <1>3, Holders DEF Urgent, CanEnter, Needs, Thread
  <2>2. MayHold("monitor", Needs("worker"))
    BY <2>1, Uses DEF Structure, Holding, Thread, Resource
  <2>3. pc["monitor"] = "busy"
    <3>1. CASE Needs("monitor") = Needs("worker")
      BY <1>3, <2>1, <2>2, <3>1 DEF MayHold, Urgent, CanEnter, Needs, Thread
    <3>2. CASE Needs("monitor") # Needs("worker")
      <4>1. holder[Needs("monitor")] \in {"none", "monitor"}
        BY <3>2, Holders
      <4>2. QED
        BY <1>3, <2>2, <4>1 DEF MayHold, Urgent, CanEnter, Needs, Thread
    <3>3. QED
      BY <3>1, <3>2
  <2>4. left["monitor"] # 0
    BY <1>3, <1>4, <2>3 DEF Urgent, Thread
  <2>5. age["worker"] + Keeps <= TurnDeadline(step["worker"]) + TurnWait(step["worker"])
    BY <2>1 DEF TurnOnTime, TurnWaits
  <2>6. Keeps \in Nat /\ Keeps' = Keeps - 1
    <3>1. Needs("worker")' = Needs("worker") /\ Ahead' = Ahead
      BY <1>1 DEF Needs, Current, Ahead
    <3>2. Time(Ahead) \in Nat
      BY AheadType, Times
    <3>3. QED
      BY <1>1, <1>2, <1>5, <2>3, <2>4, <3>1, <3>2 DEF Keeps, Thread
  <2>7. age'["worker"] + Keeps' <= TurnDeadline(step["worker"]) + TurnWait(step["worker"])
    BY <1>2, <1>5, <2>5, <2>6 DEF Thread
  <2>8. Needs("worker")' = Needs("worker")
    BY <1>1 DEF Needs, Current
  <2>9. QED
    BY <1>1, <2>1, <2>7, <2>8 DEF TurnWaits
<1>10. QED
  BY <1>1, <1>6, <1>7, <1>8, <1>9 DEF TurnOnTime

LEMMA TurnEnter ==
    ASSUME Structure, Structure', TurnOnTime, NEW t \in Thread, Enter(t)
    PROVE  TurnOnTime'
<1>1. /\ pc[t] = "call" /\ holder[Needs(t)] \in {"none", t}
      /\ pc' = [pc EXCEPT ![t] = "busy"]
      /\ holder' = [holder EXCEPT ![Needs(t)] = t]
      /\ left' = [left EXCEPT ![t] = CallMax]
      /\ UNCHANGED <<step, todo, age>>
  BY DEF Enter, CanEnter, Goto, Needs
<1>2. Needs("worker")' = Needs("worker")
  BY <1>1 DEF Needs, Current
<1>3. /\ pc \in [Thread -> {"call", "busy", "sleep", "pop", "wait", "clock", "load", "stopped"}]
      /\ left \in [Thread -> 0 .. Longest] /\ holder \in [Resource -> Thread \cup {"none"}]
      /\ \A u \in Thread : Needs(u) \in Resource
  BY Uses DEF Structure, TypeOK, Thread, Resource
<1>4. /\ TurnDeadline(step["worker"]) \in Nat /\ TurnWait(step["worker"]) \in Nat
      /\ CallMax \in Nat /\ age["worker"] \in Nat
  BY Uses, TurnDeadlines, Numbers DEF Thread
<1>5. CASE t = "worker"
  <2>1. age["worker"] <= TurnDeadline(step["worker"]) + TurnWait(step["worker"])
    BY <1>1, <1>4, <1>5 DEF TurnOnTime, TurnWaits
  <2>2. age["worker"] + CallMax
          <= TurnDeadline(step["worker"]) + TurnWait(step["worker"]) + CallMax
    BY <1>4, <2>1
  <2>3. pc'["worker"] = "busy" /\ left'["worker"] = CallMax
    BY <1>1, <1>3, <1>5
  <2>4. QED
    BY <1>1, <2>2, <2>3 DEF TurnOnTime
<1>6. CASE t # "worker"
  <2>1. pc'["worker"] = pc["worker"] /\ left'["worker"] = left["worker"]
    BY <1>1, <1>3, <1>6 DEF Thread
  <2>2. Keeps' = Keeps
    <3>1. Ahead' = Ahead
      BY <1>1 DEF Ahead
    <3>2. CASE t = "monitor"
      BY <1>1, <1>2, <1>3, <3>1, <3>2 DEF Keeps
    <3>3. CASE t # "monitor"
      BY <1>1, <1>2, <1>3, <3>1, <3>3 DEF Keeps, Thread
    <3>4. QED
      BY <3>2, <3>3
  <2>3. ASSUME pc["worker"] = "call" PROVE TurnWaits'
    <3>1. TurnWaits
      BY <2>3 DEF TurnOnTime
    <3>2. CASE holder'[Needs("worker")] = holder[Needs("worker")]
      BY <1>1, <1>2, <2>2, <3>1, <3>2 DEF TurnWaits
    <3>3. CASE holder'[Needs("worker")] # holder[Needs("worker")]
      <4>1. holder[Needs("worker")] = "none"
        BY <1>1, <1>3, <3>3 DEF Thread
      <4>2. TurnInTime'
        BY <1>1, <3>1, <4>1 DEF TurnWaits, TurnInTime
      <4>3. QED
        BY <4>2, TurnArrivesNext
    <3>4. QED
      BY <3>2, <3>3
  <2>4. QED
    BY <1>1, <2>1, <2>3 DEF TurnOnTime
<1>7. QED
  BY <1>5, <1>6

LEMMA TurnFinish ==
    ASSUME Structure, Structure', TurnOnTime, NEW t \in Thread, Finish(t)
    PROVE  TurnOnTime'
<1>1. PICK n \in Following(t) :
        /\ GiveBack(t, n)
        /\ IF n > Len(Program[t]) THEN EndTurn(t) ELSE NextCall(t, n)
        /\ todo' = IF t = "monitor" THEN RowsAt(n) ELSE todo
  BY DEF Finish
<1>2. pc[t] = "busy"
  BY DEF Finish
<1>3. /\ TurnDeadline(step["worker"]) \in Nat /\ TurnWait(step["worker"]) \in Nat
      /\ CallMax \in Nat /\ age["worker"] \in Nat /\ left["worker"] \in Nat
      /\ left["monitor"] \in Nat
  BY Uses, TurnDeadlines, Numbers DEF Thread
<1>4. CASE t = "worker"
  <2>1. /\ step["worker"] \in 1 .. 5
        /\ n = step["worker"] + 1 \/ (n = step["worker"] + 2 /\ step["worker"] \in {1, 3})
    BY <1>1, <1>4, Uses, Follows
  <2>2. age["worker"] <= TurnDeadline(step["worker"]) + TurnWait(step["worker"]) + CallMax
    <3>1. age["worker"] + left["worker"]
            <= TurnDeadline(step["worker"]) + TurnWait(step["worker"]) + CallMax
      BY <1>2, <1>4 DEF TurnOnTime
    <3>2. QED
      BY <1>3, <3>1
  <2>3. CASE n = 6
    <3>1. step["worker"] = 5
      BY <2>1, <2>3
    <3>2. age["worker"] <= Time(2)
      BY <1>3, <2>2, <3>1, TurnDeadlines, TwoCalls
    <3>3. pc'["worker"] = "pop" /\ age'["worker"] = age["worker"]
      BY <1>1, <1>4, <2>3, Returns
    <3>4. QED
      BY <3>2, <3>3 DEF TurnOnTime
  <2>4. CASE n # 6
    <3>1. /\ pc'["worker"] = "call" /\ step'["worker"] = n
          /\ age'["worker"] = IF n = 5 THEN 0 ELSE age["worker"]
      BY <1>1, <1>4, <2>4, Returns
    <3>2. n # 5 => age["worker"] <= TurnDeadline(n)
      <4> SUFFICES ASSUME n # 5 PROVE age["worker"] <= TurnDeadline(n)
        OBVIOUS
      <4>1. step["worker"] \in 1 .. 3 /\ (n = step["worker"] + 1 \/ (n = 3 /\ step["worker"] = 1))
        BY <2>1, <2>4
      <4>2. age["worker"] <= TurnDeadline(step["worker"] + 1)
        BY <2>2, <4>1, TurnDeadlines
      <4>3. CASE n = 3 /\ step["worker"] = 1
        <5>1. age["worker"] <= TurnDeadline(2) /\ TurnDeadline(2) <= TurnDeadline(3)
          BY <4>2, <4>3, TurnDeadlines
        <5>2. TurnDeadline(2) \in Nat /\ TurnDeadline(3) \in Nat
          BY TurnDeadlines
        <5>3. QED
          BY <1>3, <4>3, <5>1, <5>2
      <4>4. QED
        BY <4>1, <4>2, <4>3
    <3>3. age'["worker"] <= TurnDeadline(n)
      BY <3>1, <3>2, TurnDeadlines
    <3>4. TurnInTime'
      BY <3>1, <3>3 DEF TurnInTime
    <3>5. TurnWaits'
      BY <3>4, TurnArrivesNext
    <3>6. QED
      BY <3>1, <3>5 DEF TurnOnTime
  <2>5. QED
    BY <2>3, <2>4
<1>5. CASE t # "worker"
  <2>1. /\ pc'["worker"] = pc["worker"] /\ left'["worker"] = left["worker"]
        /\ step'["worker"] = step["worker"] /\ age'["worker"] = age["worker"]
    BY <1>1, <1>5, Returns DEF Thread
  <2>2. Needs("worker")' = Needs("worker") /\ Needs("worker") \in Resource
    BY <2>1, Uses DEF Needs, Current, Resource
  <2>3. ASSUME pc["worker"] = "call" PROVE TurnWaits'
    <3>1. TurnWaits
      BY <2>3 DEF TurnOnTime
    <3>2. CASE holder[Needs("worker")] # t
      <4>1. holder'[Needs("worker")] = holder[Needs("worker")]
        BY <1>1, <2>2, <3>2, GivesBack
      <4>2. holder[Needs("worker")] = "monitor" => Keeps' = Keeps
        <5> SUFFICES ASSUME holder[Needs("worker")] = "monitor" PROVE Keeps' = Keeps
          OBVIOUS
        <5>1. t # "monitor"
          BY <3>2
        <5>2. todo' = todo
          BY <1>1, <5>1
        <5>3. /\ pc'["monitor"] = pc["monitor"] /\ step'["monitor"] = step["monitor"]
              /\ left'["monitor"] = left["monitor"]
          BY <1>1, <5>1, Returns DEF Thread
        <5>4. Ahead' = Ahead
          BY <5>2, <5>3 DEF Ahead
        <5>5. QED
          BY <2>2, <5>3, <5>4 DEF Keeps
      <4>3. QED
        BY <2>1, <2>2, <3>1, <4>1, <4>2 DEF TurnWaits
    <3>3. CASE holder[Needs("worker")] = t
      <4>1. t = "monitor"
        BY <1>5, <3>3, Holders DEF Thread
      <4>2. age["worker"] + Keeps <= TurnDeadline(step["worker"]) + TurnWait(step["worker"])
        BY <3>1, <3>3, <4>1 DEF TurnWaits
      <4>3. Keeps \in Nat
        BY KeepsType
      <4>4. CASE holder'[Needs("worker")] = NextHolder(Needs("worker"), t)
        <5>1. NextHolder(Needs("worker"), t) # "none"
          BY <1>5, <2>2, <2>3, Handover DEF Thread
        <5>2. NextHolder(Needs("worker"), t) # "ingress"
          BY <2>2, Uses, Handover
        <5>3. NextHolder(Needs("worker"), t) = "worker"
          BY <2>2, <4>1, <5>1, <5>2, Handover DEF Thread
        <5>4. age["worker"] <= TurnDeadline(step["worker"]) + TurnWait(step["worker"])
          BY <1>3, <4>2, <4>3
        <5>5. QED
          BY <2>1, <2>2, <4>4, <5>3, <5>4 DEF TurnWaits
      <4>5. CASE n \in {3, 4} /\ Needs("worker") = "session" /\ holder'[Needs("worker")] = t
        <5>1. /\ pc'["monitor"] = "call" /\ step'["monitor"] = n /\ todo' = RowsAt(n)
              /\ n \in AfterMonitor
          BY <1>1, <4>1, <4>5, Returns, Follows
        <5>2. Keeps' <= Keeps /\ Keeps' \in Nat
          <6>1. Ahead' + 1 = Ahead /\ Ahead' \in Nat /\ Ahead \in Nat
            <7>1. /\ todo \in Nat /\ RowsAt(n) \in Nat
                  /\ \/ step["monitor"] = 2 /\ n = 3 /\ RowsAt(n) = todo /\ todo > 0
                     \/ step["monitor"] = 3 /\ n = 4 /\ RowsAt(n) = todo /\ todo > 0
                     \/ step["monitor"] = 4 /\ n = 3 /\ RowsAt(n) = todo - 1 /\ todo > 1
              BY <4>5, <5>1, MonitorGoesOn
            <7>2. QED
              BY <5>1, <7>1 DEF Ahead
          <6>2. Time(Ahead) = Time(Ahead') + CallMax /\ Time(Ahead') \in Nat
            BY <6>1, Times
          <6>3. Keeps' = CallMax + Time(Ahead')
            BY <2>2, <4>5, <5>1 DEF Keeps
          <6>4. Keeps = left["monitor"] + Time(Ahead)
            BY <1>2, <4>1, <4>5 DEF Keeps
          <6>5. QED
            BY <1>3, <6>2, <6>3, <6>4
        <5>3. age["worker"] + Keeps' <= TurnDeadline(step["worker"]) + TurnWait(step["worker"])
          BY <1>3, <4>2, <4>3, <5>2
        <5>4. QED
          BY <2>1, <2>2, <4>1, <4>5, <5>3 DEF TurnWaits
      <4>6. QED
        BY <1>1, <2>2, <3>3, <4>4, <4>5, GivesBack
    <3>4. QED
      BY <3>2, <3>3
  <2>4. QED
    BY <2>1, <2>3 DEF TurnOnTime
<1>6. QED
  BY <1>4, <1>5

LEMMA TurnMove ==
    ASSUME Structure, Structure', TurnOnTime,
           IngressWakes \/ PopEmpty \/ WorkerWakes \/ PopPoint
             \/ BeginRound \/ ReadClock \/ LoadStamp
    PROVE  TurnOnTime'
<1>1. /\ pc \in [Thread -> {"call", "busy", "sleep", "pop", "wait", "clock", "load", "stopped"}]
      /\ left \in [Thread -> 0 .. Longest] /\ age \in [Thread -> 0 .. AgeCap]
      /\ step \in [Thread -> 1 .. 8]
      /\ age["worker"] \in Nat /\ CallMax \in Nat /\ CallMax > 0
  BY Numbers DEF Structure, TypeOK, Places, Thread
<1>2. CASE PopEmpty
  <2>1. pc'["worker"] = "sleep" /\ age'["worker"] = 0 /\ left'["worker"] = 1
    BY <1>1, <1>2 DEF PopEmpty, Goto, Touch, Thread
  <2>2. QED
    BY <2>1 DEF TurnOnTime
<1>3. CASE WorkerWakes
  <2>1. /\ pc["worker"] = "sleep" /\ left["worker"] = 0
        /\ pc'["worker"] = "pop" /\ age' = age
    BY <1>1, <1>3 DEF WorkerWakes, Goto, Thread
  <2>2. age["worker"] <= Time(2)
    BY <1>1, <2>1, TwoCalls DEF TurnOnTime
  <2>3. QED
    BY <2>1, <2>2 DEF TurnOnTime
<1>4. CASE PopPoint
  <2>1. pc["worker"] = "pop" /\ pc'["worker"] = "call" /\ age' = age /\ step' = step
    BY <1>1, <1>4 DEF PopPoint, Goto, Thread
  <2>2. step["worker"] = 1
    BY <2>1 DEF Structure, Places, Thread
  <2>3. TurnInTime'
    BY <2>1, <2>2, TurnDeadlines DEF TurnInTime, TurnOnTime
  <2>4. TurnWaits'
    BY <2>3, TurnArrivesNext
  <2>5. QED
    BY <2>1, <2>4 DEF TurnOnTime
<1>5. CASE IngressWakes \/ BeginRound \/ ReadClock \/ LoadStamp
  <2>1. /\ pc'["worker"] = pc["worker"] /\ left'["worker"] = left["worker"]
        /\ step'["worker"] = step["worker"] /\ age'["worker"] = age["worker"]
        /\ holder' = holder
    BY <1>1, <1>5 DEF IngressWakes, BeginRound, ReadClock, LoadStamp, Goto, Touch, Thread
  <2>2. Needs("worker")' = Needs("worker") /\ Needs("worker") \in Resource
    BY <2>1, Uses DEF Needs, Current, Resource
  <2>3. holder[Needs("worker")] = "monitor" => Keeps' = Keeps
    <3>1. CASE IngressWakes
      BY <1>1, <2>2, <3>1 DEF IngressWakes, Goto, Keeps, Ahead, Thread
    <3>2. CASE BeginRound \/ ReadClock \/ LoadStamp
      <4>1. pc["monitor"] \notin {"call", "busy"}
        BY <3>2 DEF BeginRound, RoundDue, ReadClock, LoadStamp
      <4>2. QED
        BY <2>2, <4>1 DEF Structure, Holding, MayHold, Thread
    <3>3. QED
      BY <1>5, <3>1, <3>2
  <2>4. pc["worker"] = "call" => TurnWaits'
    BY <2>1, <2>2, <2>3 DEF TurnOnTime, TurnWaits
  <2>5. QED
    BY <2>1, <2>4 DEF TurnOnTime
<1>6. QED
  BY <1>2, <1>3, <1>4, <1>5

-----------------------------------------------------------------------------
(* The ingress, which shares the bus with nobody. *)
LEMMA PollKept ==
    ASSUME Structure, PollOnTime, fault = "none", Tick \/ \E t \in Thread : ThreadStep(t)
    PROVE  PollOnTime'
<1>1. /\ pc \in [Thread -> {"call", "busy", "sleep", "pop", "wait", "clock", "load", "stopped"}]
      /\ left \in [Thread -> 0 .. Longest] /\ age \in [Thread -> 0 .. AgeCap]
      /\ age["ingress"] \in Nat /\ left["ingress"] \in Nat
      /\ CallMax \in Nat /\ PollInterval \in Nat
  BY Numbers DEF Structure, TypeOK, Thread
<1>2. CASE Tick
  <2>1. UNCHANGED pc /\ ~Urgent("ingress") /\ ~Stuck("ingress")
    BY <1>2, Uses DEF Tick, Stuck, Needs, Thread
  <2>2. /\ left["ingress"] # 0 => left'["ingress"] = left["ingress"] - 1
        /\ age'["ingress"] <= age["ingress"] + 1 /\ age'["ingress"] \in Nat
    BY <1>1, <1>2, TimesAssumption DEF Tick, AgeCap, Thread
  <2>3. pc["ingress"] # "call"
    BY <2>1, Holders DEF Urgent, CanEnter, Needs
  <2>4. pc["ingress"] \in {"sleep", "busy"} => left["ingress"] # 0
    BY <2>1 DEF Urgent
  <2>5. pc["ingress"] = "sleep" => age'["ingress"] + left'["ingress"] <= PollInterval
    BY <1>1, <2>2, <2>4 DEF PollOnTime
  <2>6. pc["ingress"] = "busy" => age'["ingress"] + left'["ingress"] <= PollInterval + CallMax
    BY <1>1, <2>2, <2>4 DEF PollOnTime
  <2>7. QED
    BY <2>1, <2>3, <2>5, <2>6 DEF PollOnTime
<1>3. CASE Enter("ingress")
  <2>1. /\ pc["ingress"] = "call" /\ pc'["ingress"] = "busy" /\ left'["ingress"] = CallMax
        /\ age' = age
    BY <1>1, <1>3 DEF Enter, CanEnter, Goto, Thread
  <2>2. age["ingress"] + CallMax <= PollInterval + CallMax
    BY <1>1, <2>1 DEF PollOnTime
  <2>3. QED
    BY <2>1, <2>2 DEF PollOnTime
<1>4. CASE Finish("ingress")
  <2>1. pc'["ingress"] = "sleep" /\ left'["ingress"] = PollInterval /\ age'["ingress"] = 0
    BY <1>4, Returns DEF Finish, Thread
  <2>2. QED
    BY <1>1, <2>1 DEF PollOnTime
<1>5. CASE IngressWakes
  <2>1. /\ pc["ingress"] = "sleep" /\ pc'["ingress"] = "call" /\ left["ingress"] = 0
        /\ age' = age
    BY <1>1, <1>5 DEF IngressWakes, Goto, Thread
  <2>2. age["ingress"] <= PollInterval
    BY <1>1, <2>1 DEF PollOnTime
  <2>3. QED
    BY <2>1, <2>2 DEF PollOnTime
<1>6. ASSUME NEW t \in Thread \ {"ingress"}, ThreadStep(t) PROVE PollOnTime'
  <2>1. /\ pc'["ingress"] = pc["ingress"] /\ left'["ingress"] = left["ingress"]
        /\ age'["ingress"] = age["ingress"]
    <3>1. CASE Enter(t)
      BY <1>1, <1>6, <3>1 DEF Enter, Goto, Thread
    <3>2. CASE Finish(t)
      BY <1>6, <3>2, Returns DEF Finish, Thread
    <3>3. CASE PopEmpty \/ WorkerWakes \/ PopPoint
      BY <1>1, <3>3 DEF PopEmpty, WorkerWakes, PopPoint, Goto, Touch, Thread
    <3>4. CASE BeginRound \/ ReadClock \/ LoadStamp
      BY <1>1, <3>4 DEF BeginRound, ReadClock, LoadStamp, Goto, Touch, Thread
    <3>5. QED
      BY <1>6, <3>1, <3>2, <3>3, <3>4 DEF ThreadStep
  <2>2. QED
    BY <2>1 DEF PollOnTime
<1>7. QED
  BY <1>2, <1>3, <1>4, <1>5, <1>6 DEF ThreadStep, Thread

-----------------------------------------------------------------------------
(* No stamp of a thread whose calls return is ever too old. *)
LEMMA StampsAreFresh ==
    ASSUME Structure, TurnOnTime, PollOnTime, fault = "none", StampsFit
    PROVE  \A t \in {"ingress", "worker"} : age[t] <= StaleAfter
<1>1. /\ \A t \in {"ingress", "worker"} : age[t] \in Nat /\ left[t] \in Nat
      /\ CallMax \in Nat /\ CallMax > 0 /\ PollInterval \in Nat /\ StaleAfter \in Nat
  BY Numbers DEF Thread
<1>2. age["ingress"] <= StaleAfter
  <2>1. pc["ingress"] \in {"call", "busy", "sleep"}
    BY DEF Structure, Places, Thread
  <2>2. age["ingress"] <= PollInterval + CallMax
    BY <1>1, <2>1 DEF PollOnTime
  <2>3. QED
    BY <1>1, <2>2 DEF StampsFit
<1>3. age["worker"] <= StaleAfter
  <2>1. pc["worker"] \in {"call", "busy", "sleep", "pop"}
    BY DEF Structure, Places, Thread
  <2> DEFINE d == TurnDeadline(step["worker"])
             w == TurnWait(step["worker"])
             a == age["worker"]
             c == Time(2 * Batch + 10)
  <2>2. d \in Nat /\ w \in Nat /\ d + w + CallMax <= c /\ Keeps \in Nat /\ a \in Nat
    BY <1>1, Uses, TurnDeadlines, KeepsType
  <2>3. pc["worker"] = "call" => a <= d \/ a <= d + w \/ a + Keeps <= d + w
    BY Holders DEF TurnOnTime, TurnWaits
  <2>4. pc["worker"] = "busy" => a + left["worker"] <= d + w + CallMax
    BY DEF TurnOnTime
  <2>5. pc["worker"] \in {"sleep", "pop"} => a <= Time(2)
    BY <1>1, TwoCalls DEF TurnOnTime
  <2>6. c \in Nat /\ Time(2) <= c /\ Time(2) \in Nat
    <3>1. 2 * Batch + 10 \in Nat /\ 2 <= 2 * Batch + 10
      BY TimesAssumption
    <3>2. QED
      BY <3>1, TimeType, TimeOrder
  <2>7. c <= StaleAfter
    BY DEF StampsFit, Time
  <2> HIDE DEF d, w, a, c
  <2>8. pc["worker"] = "call" => a <= c
    BY <1>1, <2>2, <2>3, <2>6
  <2>9. pc["worker"] = "busy" => a <= c
    BY <1>1, <2>2, <2>4, <2>6
  <2>10. pc["worker"] \in {"sleep", "pop"} => a <= c
    BY <1>1, <2>2, <2>5, <2>6
  <2>11. a <= StaleAfter
    BY <1>1, <2>1, <2>2, <2>6, <2>7, <2>8, <2>9, <2>10
  <2>12. QED
    BY <2>11 DEF a
<1>4. QED
  BY <1>2, <1>3

LEMMA AlarmKept ==
    ASSUME Structure, fault = "none" => TurnOnTime /\ PollOnTime, NoFalseAlarm, Next
    PROVE  NoFalseAlarm'
<1> SUFFICES ASSUME StampsFit, fault' = "none" PROVE stale' = {}
  BY DEF NoFalseAlarm, StampsFit
<1>1. CASE Tick \/ FaultOccurs
  BY <1>1 DEF Tick, FaultOccurs, NoFalseAlarm
<1>2. CASE Stopped \/ WatchdogExpires
  BY <1>2 DEF Stopped, WatchdogExpires, Reset
<1>3. CASE LoadStamp
  <2>1. fault = "none" /\ stale = {} /\ pc["monitor"] = "load"
    BY <1>3 DEF LoadStamp, bookkeeping, NoFalseAlarm
  <2>2. step["monitor"] \in 1 .. 2 /\ left["monitor"] \in 0 .. 1
    BY <2>1, Numbers DEF Structure, Places, Remaining, Thread
  <2>3. Watched[step["monitor"]] \in {"ingress", "worker"}
    BY <2>2 DEF Watched
  <2>4. PICK t \in {"ingress", "worker"} : t = Watched[step["monitor"]]
    BY <2>3
  <2>5. age[t] <= StaleAfter /\ age[t] \in Nat /\ StaleAfter \in Nat
    BY <2>1, StampsAreFresh, Numbers DEF Thread
  <2>6. 1 - left["monitor"] \in Nat
    BY <2>2
  <2>7. HeartbeatAge(t, 1 - left["monitor"]) <= StaleAfter
    BY <2>5, <2>6 DEF HeartbeatAge
  <2>8. HeartbeatAge(t, 1 - left["monitor"]) \in Nat
    BY <2>5, <2>6 DEF HeartbeatAge
  <2>9. ~(HeartbeatAge(t, 1 - left["monitor"]) > StaleAfter)
    BY <2>5, <2>7, <2>8
  <2>10. stale' = stale \ {t}
    BY <1>3, <2>4, <2>9 DEF LoadStamp
  <2>11. QED
    BY <2>1, <2>10
<1>4. ASSUME NEW t \in Thread, ThreadStep(t), ~LoadStamp PROVE stale' = {}
  BY <1>4 DEF ThreadStep, Enter, Finish, IngressWakes, PopEmpty, WorkerWakes, PopPoint,
     BeginRound, ReadClock, bookkeeping, NoFalseAlarm
<1>5. QED
  BY <1>1, <1>2, <1>3, <1>4 DEF Next

-----------------------------------------------------------------------------
LEMMA TurnFresh == age = [t \in Thread |-> 0] /\ pc = FirstPc => TurnOnTime /\ PollOnTime
<1> SUFFICES ASSUME age = [t \in Thread |-> 0], pc = FirstPc PROVE TurnOnTime /\ PollOnTime
  OBVIOUS
<1>1. /\ pc["worker"] = "pop" /\ pc["ingress"] = "call"
      /\ age["worker"] = 0 /\ age["ingress"] = 0
  BY DEF FirstPc, Thread
<1>2. QED
  BY <1>1, TimesAssumption, TwoCalls DEF TurnOnTime, PollOnTime

LEMMA SupervisionInit == Init => SupervisionInv
<1> SUFFICES ASSUME Init PROVE SupervisionInv
  OBVIOUS
<1>1. Structure
  BY InitStructure
<1>2. RoundOnTime
  BY RoundFresh DEF Init, Thread
<1>3. TurnOnTime /\ PollOnTime
  BY TurnFresh DEF Init
<1>4. NoFalseAlarm
  BY DEF Init, NoFalseAlarm
<1>5. QED
  BY <1>1, <1>2, <1>3, <1>4 DEF SupervisionInv

LEMMA SupervisionNext == SupervisionInv /\ [Next]_vars => SupervisionInv'
<1> SUFFICES ASSUME SupervisionInv, [Next]_vars PROVE SupervisionInv'
  OBVIOUS
<1> USE DEF SupervisionInv
<1>1. CASE UNCHANGED vars
  <2>1. UNCHANGED <<pc, step, todo, left, holder, age, silent, mode, timer, due, stale, fault>>
    BY <1>1 DEF vars
  <2>2. \A t \in Thread : Needs(t)' = Needs(t)
    BY <2>1 DEF Needs, Current
  <2>3. Structure'
    BY <2>1, <2>2 DEF Structure, TypeOK, Places, Holding, MayHold, Rows, Remaining
  <2>4. RoundOnTime => RoundOnTime'
    BY <2>1, <2>2 DEF RoundOnTime, RoundWaits, Deadline, RoundWait, Thread
  <2>5. TurnOnTime => TurnOnTime'
    BY <2>1, <2>2 DEF TurnOnTime, TurnWaits, Keeps, Ahead, Thread
  <2>6. (PollOnTime => PollOnTime') /\ (NoFalseAlarm => NoFalseAlarm')
    BY <2>1 DEF PollOnTime, NoFalseAlarm, StampsFit
  <2>7. QED
    BY <2>1, <2>3, <2>4, <2>5, <2>6
<1>2. CASE Next
  <2>1. Structure'
    BY <1>2, StructureKept
  <2>2. fault' \in {"none", "bus"} => RoundOnTime'
    BY <1>2, <2>1, RoundKept
  <2>3. fault' = "none" => TurnOnTime' /\ PollOnTime'
    <3> SUFFICES ASSUME fault' = "none" PROVE TurnOnTime' /\ PollOnTime'
      OBVIOUS
    <3>1. CASE Tick
      BY <3>1, TurnTick, PollKept DEF Tick
    <3>2. CASE WatchdogExpires
      <4>1. (age = [t \in Thread |-> 0] /\ pc = FirstPc)'
        BY <3>2 DEF WatchdogExpires, Reset
      <4>2. QED
        BY <4>1, TurnFresh, PTL
    <3>3. ~FaultOccurs /\ ~Stopped
      <4>1. \A t \in Thread : Needs(t) # "none"
        BY Uses DEF Thread
      <4>2. QED
        BY <4>1 DEF FaultOccurs, Stopped, Needs
    <3>4. ASSUME NEW t \in Thread, ThreadStep(t) PROVE TurnOnTime' /\ PollOnTime'
      <4>1. fault' = fault
        BY <3>4 DEF ThreadStep, Enter, Finish, IngressWakes, PopEmpty, WorkerWakes, PopPoint,
           BeginRound, ReadClock, LoadStamp, bookkeeping
      <4>2. QED
        BY <2>1, <3>4, <4>1, TurnEnter, TurnFinish, TurnMove, PollKept DEF ThreadStep
    <3>5. QED
      BY <1>2, <3>1, <3>2, <3>3, <3>4 DEF Next
  <2>4. NoFalseAlarm'
    BY <1>2, AlarmKept
  <2>5. QED
    BY <2>1, <2>2, <2>3, <2>4
<1>3. QED
  BY <1>1, <1>2

LEMMA SupervisionSpec == Spec => []SupervisionInv
BY SupervisionInit, SupervisionNext, PTL DEF Spec

(* Types, and that no thread keeps the session or the database outside its *)
(* calls, for all intervals and lengths of a call.                         *)
THEOREM TypeCorrect == Spec => []TypeOK
BY SupervisionSpec, PTL DEF SupervisionInv, Structure

(* The watchdog of a gateway whose database and session answer never       *)
(* expires: a round lasts at most RoundMax.                                *)
THEOREM HealthyIsNotRestarted == Spec => []OnlyStuckIsRestarted
<1>1. SupervisionInv => OnlyStuckIsRestarted
  <2> SUFFICES ASSUME SupervisionInv, RoundFits, silent = WatchdogSec,
                      fault \notin {"db", "session", "stopped"}
               PROVE  FALSE
    BY DEF OnlyStuckIsRestarted
  <2>1. Structure /\ fault \in {"none", "bus"} /\ RoundOnTime
    BY DEF SupervisionInv, Structure, TypeOK, Resource
  <2>2. RoundMax < WatchdogSec /\ RoundMax \in Nat /\ WatchdogSec \in Nat
    <3>1. RoundMax \in Nat /\ WatchdogSec \in Nat
      BY RoundMaxType, TimesAssumption
    <3>2. RoundMax = Interval + Len(Watched) + (5 * Batch + 12) * CallMax
      BY DEF RoundMax, Time, Watched
    <3>3. QED
      BY <3>1, <3>2 DEF RoundFits
  <2>3. /\ silent \in Nat /\ timer \in Nat /\ CallMax \in Nat /\ Interval \in Nat
        /\ left["monitor"] \in Nat /\ left["worker"] \in Nat /\ step["monitor"] \in 1 .. 8
    BY <2>1, Numbers, Uses DEF Thread
  <2> DEFINE d == Deadline + RoundWait
  <2>4. d \in Nat /\ d + CallMax <= RoundMax /\ 2 <= RoundMax /\ Deadline <= d
    BY <2>1, <2>3, RoundRoom, RoundMaxType, Deadlines
  <2>5. pc["monitor"] \in {"call", "busy", "wait", "clock", "load"} /\ mode \in {"timerfd", "sleep"}
    BY <2>1 DEF Structure, TypeOK, Places, Thread
  <2>6. CASE pc["monitor"] \in {"clock", "load"}
    <3>1. step["monitor"] \in 1 .. 2
      BY <2>1, <2>6 DEF Structure, Places
    <3>2. silent <= 2
      BY <2>1, <2>3, <2>6, <3>1 DEF RoundOnTime
    <3>3. QED
      BY <2>2, <2>3, <2>4, <3>2
  <2>7. CASE pc["monitor"] = "call"
    <3>1. silent <= Deadline \/ silent + left["worker"] <= d \/ silent <= d
      BY <2>1, <2>7, Holders DEF RoundOnTime, RoundWaits
    <3>2. QED
      BY <2>1, <2>2, <2>3, <2>4, <3>1, Deadlines
  <2>8. CASE pc["monitor"] = "busy"
    <3>1. silent + left["monitor"] <= d + CallMax
      BY <2>1, <2>8 DEF RoundOnTime
    <3>2. QED
      BY <2>2, <2>3, <2>4, <3>1
  <2>9. CASE pc["monitor"] = "wait"
    <3>1. silent + left["monitor"] <= RoundMax \/ silent + 0 <= RoundMax \/ silent + timer <= RoundMax
      BY <2>1, <2>5, <2>9 DEF RoundOnTime
    <3>2. QED
      BY <2>2, <2>3, <3>1
  <2>10. QED
    BY <2>5, <2>6, <2>7, <2>8, <2>9
<1>2. QED
  BY <1>1, SupervisionSpec, PTL

(* No healthy thread is ever reported stale. *)
THEOREM HealthyIsNotReported == Spec => []NoFalseAlarm
BY SupervisionSpec, PTL DEF SupervisionInv
=============================================================================
