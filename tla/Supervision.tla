---------------------------- MODULE Supervision ----------------------------
(***************************************************************************)
(* Who notices that a thread of the gateway does not come back, and when.  *)
(* The threads leave time stamps (platform/heartbeat.c), the monitor       *)
(* compares them with the clock and feeds the watchdog of systemd          *)
(* (runtime/app.c, monitor_on_timer; platform/watchdog.c), and the same    *)
(* round then makes calls that may take long or never return.              *)
(* Time is discrete and kept as ages: a time stamp of the code is the time *)
(* that has passed since it was taken, so no clock value is ever bounded.  *)
(***************************************************************************)
EXTENDS Integers, Sequences

CONSTANTS WatchdogSec,     \* deploy/systemd/edgeflow.service
          Interval,        \* watchdog_interval_ms
          PollInterval,    \* poll_interval_ms
          StaleAfter,      \* 3 * heartbeat_interval_ms
          CallMax,         \* the longest call on a bus, a database or a broker that are well
          Batch            \* mqtt_replay_batch, at most 64: rows replayed in a round

ASSUME TimesAssumption ==
    {WatchdogSec, Interval, PollInterval, StaleAfter, CallMax, Batch} \subseteq Nat \ {0}

VARIABLES
    pc, step,    \* per thread: where it is; which call of its turn it is in
    todo,        \* rows the monitor has fetched and not yet replayed
    left,        \* per thread: how long its sleep, or the call it is in, may still take
    holder,      \* per resource: the thread that uses it, or "none"
    age,         \* per thread: time since heartbeat_touch
    silent,      \* time since systemd was last notified
    mode,        \* the monitor waits on the "timerfd", or falls back to "sleep"
    timer, due,  \* the periodic timerfd: time to its expiry, and is it readable?
    stale,       \* the threads the monitor's last check found stale
    fault        \* the resource whose calls do not return, "stopped", or "none"

vars == <<pc, step, todo, left, holder, age, silent, mode, timer, due, stale, fault>>

Thread == {"ingress", "worker", "monitor"}
Resource == {"bus", "db", "session"}
Watched == <<"ingress", "worker">>
AgeCap == StaleAfter + 2            \* older is all the same
Longest == Interval + PollInterval + CallMax

(* The calls of one turn of each loop.  SQLite's connection and the MQTT   *)
(* session are shared; a call takes its resource and gives it back, but    *)
(* for a replay, which sends and marks row after row inside one lock of    *)
(* the session.  A statement counts as one call (to prepare and finalize   *)
(* it takes no time to speak of) except for the SELECT of the replay,      *)
(* which is a call for each row; the metrics file and the JSON lines are   *)
(* written as part of a call next to them.  Some calls are made only in    *)
(* some turns, and the worker leaves its time stamp before the last one.   *)
Use(r) == [res |-> r, inside |-> {}, optional |-> FALSE, stamped |-> FALSE]
Perhaps(call) == [call EXCEPT !.optional = TRUE]
Replaying(call) == [call EXCEPT !.inside = {"session"}]
Ingress == <<Use("bus")>>                            \* poll_all
Worker == <<Use("db"),                               \* store the point
            Perhaps(Use("db")),                      \* its alarm or its command
            Use("session"),                          \* publish it
            Perhaps(Use("db")),                      \* mark it
            [Use("db") EXCEPT !.stamped = TRUE]>>    \* count for the gauge
Monitor == <<Use("db"),                              \* 1 fetch the next pending row
             Use("session"),                         \* 2 lock the session and connect
             Replaying(Use("session")),              \* 3 send the next row
             Replaying(Use("db")),                   \* 4 mark it
             Use("db"),                              \* 5 count for the gauge
             Use("session"),                         \* 6 ping
             Use("db"),                              \* 7 count for the payload
             Use("session")>>                        \* 8 heartbeat
Program == [t \in Thread |-> CASE t = "ingress" -> Ingress
                             [] t = "worker" -> Worker
                             [] OTHER -> Monitor]

FirstPc == [t \in Thread |-> CASE t = "ingress" -> "call"
                             [] t = "worker" -> "pop"
                             [] OTHER -> "wait"]

(* heartbeat_registry_init has stamped every thread, gateway_app_run has   *)
(* sent READY=1.  The fallback loop begins with a round.                   *)
Init ==
    /\ pc = FirstPc /\ step = [t \in Thread |-> 1] /\ todo = 0 /\ left = [t \in Thread |-> 0]
    /\ holder = [r \in Resource |-> "none"]
    /\ age = [t \in Thread |-> 0] /\ silent = 0
    /\ mode \in {"timerfd", "sleep"}
    /\ timer = Interval /\ due = FALSE
    /\ stale = {} /\ fault = "none"

-----------------------------------------------------------------------------
Goto(t, label) == pc' = [pc EXCEPT ![t] = label]
Touch(t) == age' = [age EXCEPT ![t] = 0]

clock == <<timer, due>>
bookkeeping == <<silent, mode, fault>>

(* The call thread t is in, or about to make. *)
Current(t) == Program[t][step[t]]

(* A call on a resource at fault does not return. *)
Stuck(t) == pc[t] = "busy" /\ Current(t).res = fault

(* A mutex that is given back goes to the thread that waits for it.        *)
NextHolder(r, t) ==
    IF \E u \in Thread \ {t} : pc[u] = "call" /\ Current(u).res = r
    THEN CHOOSE u \in Thread \ {t} : pc[u] = "call" /\ Current(u).res = r
    ELSE "none"

CanEnter(t) == pc[t] = "call" /\ holder[Current(t).res] \in {"none", t}

Enter(t) ==
    /\ CanEnter(t)
    /\ holder' = [holder EXCEPT ![Current(t).res] = t]
    /\ left' = [left EXCEPT ![t] = CallMax]
    /\ Goto(t, "busy")
    /\ UNCHANGED <<step, todo, age, stale, clock, bookkeeping>>

(* mqtt_session_replay_pending and what comes after it.  The SELECT yields *)
(* another row or is done; without it (prepare fails) the function returns *)
(* at once, without a count.  Rows are replayed if there is a connection,  *)
(* until one cannot be sent; a mark that fails does not matter.            *)
AfterMonitor ==
    CASE step["monitor"] = 1 -> (IF todo < Batch THEN {1} ELSE {}) \cup {2} \cup (IF todo = 0 THEN {6} ELSE {})
      [] step["monitor"] = 2 -> IF todo > 0 THEN {3, 5} ELSE {5}
      [] step["monitor"] = 3 -> {4, 5}
      [] step["monitor"] = 4 -> IF todo > 1 THEN {3} ELSE {5}
      [] OTHER -> {step["monitor"] + 1}

(* The rows in hand when the monitor goes on to call n. *)
RowsAt(n) ==
    CASE n = 1 -> todo + 1
      [] n \in {2, 4} -> todo
      [] n = 3 -> IF step["monitor"] = 4 THEN todo - 1 ELSE todo
      [] OTHER -> 0

(* The call after the current one; an optional one may be left out. *)
Following(t) ==
    LET next == step[t] + 1
    IN  CASE t = "monitor" -> AfterMonitor
          [] t # "monitor" /\ next <= Len(Program[t]) -> {next} \cup (IF Program[t][next].optional THEN {next + 1} ELSE {})
          [] OTHER -> {next}

(* The thread goes to sleep, back to the ring, or back to its timer. *)
EndTurn(t) ==
    /\ IF t = "ingress" THEN Touch(t) ELSE UNCHANGED age
    /\ step' = [step EXCEPT ![t] = 1]
    /\ Goto(t, IF t = "ingress" THEN "sleep" ELSE FirstPc[t])
    /\ left' = [left EXCEPT ![t] = CASE t = "ingress" -> PollInterval
                                     [] t = "monitor" /\ mode = "sleep" -> Interval
                                     [] OTHER -> 0]

NextCall(t, n) ==
    /\ IF Program[t][n].stamped THEN Touch(t) ELSE UNCHANGED age
    /\ step' = [step EXCEPT ![t] = n]
    /\ Goto(t, "call")
    /\ left' = [left EXCEPT ![t] = 0]

(* The locks inside which call n is made; no call, no lock. *)
Inside(t, n) == IF n \in DOMAIN Program[t] THEN Program[t][n].inside ELSE {}

(* Mutant: the last call of a turn returns without unlocking. *)
GiveBackNotLast(t, n) ==
    holder' = [r \in Resource |-> IF holder[r] = t /\ r \notin Inside(t, n) /\ n \in DOMAIN Program[t]
                                  THEN NextHolder(r, t) ELSE holder[r]]

(* What is unlocked before call n. *)
GiveBack(t, n) ==
    holder' = [r \in Resource |-> IF holder[r] = t /\ r \notin Inside(t, n)
                                  THEN NextHolder(r, t) ELSE holder[r]]

(* The call returns, at the latest after CallMax. *)
Finish(t) ==
    /\ pc[t] = "busy" /\ ~Stuck(t)
    /\ \E n \in Following(t) :
          /\ GiveBack(t, n)
          /\ IF n > Len(Program[t]) THEN EndTurn(t) ELSE NextCall(t, n)
          /\ todo' = IF t = "monitor" THEN RowsAt(n) ELSE todo
    /\ UNCHANGED <<stale, clock, bookkeeping>>

-----------------------------------------------------------------------------
(* Mutant: the ingress feeds systemd as well. *)
IngressWakesFeeding ==
    /\ pc["ingress"] = "sleep" /\ left["ingress"] = 0
    /\ Goto("ingress", "call")
    /\ silent' = 0
    /\ UNCHANGED <<step, todo, left, holder, age, stale, clock, mode, fault>>

(* ingress_main sleeps poll_interval_ms between two polls. *)
IngressWakes ==
    /\ pc["ingress"] = "sleep" /\ left["ingress"] = 0
    /\ Goto("ingress", "call")
    /\ UNCHANGED <<step, todo, left, holder, age, stale, clock, bookkeeping>>

(* worker_main: an empty ring is a touch and a sleep of 20 ms, rounded up  *)
(* to a unit of time; a point is a turn.                                   *)
PopEmpty ==
    /\ pc["worker"] = "pop"
    /\ Touch("worker")
    /\ Goto("worker", "sleep") /\ left' = [left EXCEPT !["worker"] = 1]
    /\ UNCHANGED <<step, todo, holder, stale, clock, bookkeeping>>

WorkerWakes ==
    /\ pc["worker"] = "sleep" /\ left["worker"] = 0
    /\ Goto("worker", "pop")
    /\ UNCHANGED <<step, todo, left, holder, age, stale, clock, bookkeeping>>

PopPoint ==
    /\ pc["worker"] = "pop"
    /\ Goto("worker", "call")
    /\ UNCHANGED <<step, todo, left, holder, age, stale, clock, bookkeeping>>

(* The timerfd is readable, or the sleep of the fallback loop is over. *)
RoundDue == pc["monitor"] = "wait" /\ IF mode = "timerfd" THEN due ELSE left["monitor"] = 0

(* Mutant: systemd is fed only while every thread is well. *)
BeginRoundUnlessStale ==
    /\ RoundDue
    /\ due' = FALSE
    /\ Touch("monitor")
    /\ silent' = IF stale = {} THEN 0 ELSE silent
    /\ Goto("monitor", "clock")
    /\ UNCHANGED <<step, todo, left, holder, mode, timer, stale, fault>>

(* monitor_on_timer: the read of the timerfd takes all its expirations;    *)
(* then the monitor's own stamp and WATCHDOG=1, before anything is looked at. *)
BeginRound ==
    /\ RoundDue
    /\ due' = FALSE
    /\ Touch("monitor")
    /\ silent' = 0
    /\ Goto("monitor", "clock")
    /\ UNCHANGED <<step, todo, left, holder, mode, timer, stale, fault>>

(* heartbeat_age_ms reads the clock and then the time stamp; the monitor   *)
(* may be preempted for up to a unit of time in between.                   *)
ReadClock ==
    /\ pc["monitor"] = "clock"
    /\ Goto("monitor", "load") /\ left' = [left EXCEPT !["monitor"] = 1]
    /\ UNCHANGED <<step, todo, holder, age, stale, clock, bookkeeping>>

(* Mutants: an unsigned difference without the comparison; the slot of the *)
(* thread that asks.                                                       *)
HeartbeatAgeWrapped(t, since) == (age[t] - since) % 2^16
HeartbeatAgeOfCaller(t, since) == IF age["monitor"] >= since THEN age["monitor"] - since ELSE 0

(* now >= last ? now - last : 0, where now was read "since" ago. *)
HeartbeatAge(t, since) == IF age[t] >= since THEN age[t] - since ELSE 0

LoadStamp ==
    /\ pc["monitor"] = "load"
    /\ LET t == Watched[step["monitor"]]
       IN  stale' = IF HeartbeatAge(t, 1 - left["monitor"]) > StaleAfter
                    THEN stale \cup {t} ELSE stale \ {t}
    /\ left' = [left EXCEPT !["monitor"] = 0]
    /\ IF step["monitor"] = Len(Watched)
       THEN Goto("monitor", "call") /\ step' = [step EXCEPT !["monitor"] = 1]
       ELSE Goto("monitor", "clock") /\ step' = [step EXCEPT !["monitor"] = @ + 1]
    /\ UNCHANGED <<todo, holder, age, clock, bookkeeping>>

ThreadStep(t) ==
    \/ Enter(t) \/ Finish(t)
    \/ t = "ingress" /\ IngressWakes
    \/ t = "worker" /\ (PopEmpty \/ WorkerWakes \/ PopPoint)
    \/ t = "monitor" /\ (BeginRound \/ ReadClock \/ LoadStamp)

-----------------------------------------------------------------------------
(* Something thread t does now, before time passes. *)
Urgent(t) ==
    \/ CanEnter(t)
    \/ pc[t] \in {"pop", "clock"}
    \/ pc[t] \in {"sleep", "load"} /\ left[t] = 0
    \/ pc[t] = "busy" /\ left[t] = 0 /\ ~Stuck(t)
    \/ t = "monitor" /\ RoundDue

Tick ==
    /\ silent < WatchdogSec
    /\ \A t \in Thread : ~Urgent(t)
    /\ silent' = silent + 1
    /\ age' = [t \in Thread |-> IF age[t] < AgeCap THEN age[t] + 1 ELSE age[t]]
    /\ left' = [t \in Thread |-> IF left[t] > 0 THEN left[t] - 1 ELSE 0]
    /\ IF mode = "sleep" THEN UNCHANGED clock
       ELSE /\ timer' = IF timer = 1 THEN Interval ELSE timer - 1
            /\ due' = (due \/ timer = 1)
    /\ UNCHANGED <<pc, step, todo, holder, stale, mode, fault>>

(* A bus, a disk or a broker that does not answer, from the first call     *)
(* that meets it.  It stays until systemd has restarted the gateway, and   *)
(* perhaps longer.                                                         *)
FaultOccurs ==
    /\ fault = "none"
    /\ \E t \in Thread : pc[t] = "busy" /\ fault' = Current(t).res
    /\ UNCHANGED <<pc, step, todo, left, holder, age, stale, silent, mode, clock>>

Reset ==
    /\ step' = [t \in Thread |-> 1] /\ todo' = 0 /\ left' = [t \in Thread |-> 0]
    /\ holder' = [r \in Resource |-> "none"]
    /\ age' = [t \in Thread |-> 0]
    /\ timer' = Interval /\ due' = FALSE
    /\ stale' = {}

(* SIGSTOP: nothing of the process matters until systemd kills it. *)
Stopped ==
    /\ fault = "none" /\ fault' = "stopped"
    /\ pc' = [t \in Thread |-> "stopped"]
    /\ Reset
    /\ UNCHANGED <<silent, mode>>

(* WatchdogSec without a notification: the process is killed and started   *)
(* again (Restart=on-failure).                                             *)
WatchdogExpires ==
    /\ silent = WatchdogSec /\ silent' = 0
    /\ pc' = FirstPc
    /\ Reset
    /\ mode' \in {"timerfd", "sleep"}
    /\ fault' \in {"none"} \cup (Resource \cap {fault})

Next == Tick \/ FaultOccurs \/ Stopped \/ WatchdogExpires \/ \E t \in Thread : ThreadStep(t)

(* Time never stops: nobody does infinitely many things in no time, and    *)
(* what is due is done before time passes, systemd's restart included.     *)
TimePasses == []<><<Tick \/ WatchdogExpires>>_vars

Spec == Init /\ [][Next]_vars /\ TimePasses

-----------------------------------------------------------------------------
(* Types; whoever holds the session or the database is inside a call, so   *)
(* no early return leaves one of them locked.                              *)
TypeOK ==
    /\ pc \in [Thread -> {"call", "busy", "sleep", "pop", "wait", "clock", "load", "stopped"}]
    /\ \A t \in Thread : step[t] \in DOMAIN Program[t]
    /\ todo \in 0 .. Batch
    /\ left \in [Thread -> 0 .. Longest] /\ age \in [Thread -> 0 .. AgeCap]
    /\ holder \in [Resource -> Thread \cup {"none"}]
    /\ \A r \in Resource : holder[r] # "none" => pc[holder[r]] \in {"call", "busy"}
    /\ silent \in 0 .. WatchdogSec /\ timer \in 1 .. Interval /\ due \in BOOLEAN
    /\ mode \in {"timerfd", "sleep"} /\ stale \subseteq {"ingress", "worker"}
    /\ fault \in Resource \cup {"none", "stopped"}

(* A gateway whose calls all return in time is never restarted, although   *)
(* the monitor's round may wait for the worker before most of its calls    *)
(* and only the next round feeds systemd again (app.c:156-177).  Neither   *)
(* is one whose ingress does not come back: the monitor feeds systemd      *)
(* whatever it has found stale.  The deployment has to leave room for the  *)
(* longest round: Batch + 1 steps of the SELECT, the connect, a send and   *)
(* an UPDATE per row, and four more calls, all but the sends after waiting *)
(* for a call of the worker (mqtt_session.c:309-334).                      *)
RoundFits == Interval + Len(Watched) + (5 * Batch + 12) * CallMax < WatchdogSec

OnlyStuckIsRestarted ==
    RoundFits /\ silent = WatchdogSec => fault \in {"db", "session", "stopped"}

(* No false alarm: as long as every call returns no thread is reported     *)
(* stale, also not one that leaves its stamp between the monitor's look at *)
(* the clock and its look at the stamp (heartbeat.c:38-40).  StampsFit has *)
(* 3 * heartbeat_interval_ms leave room for a poll and its sleep, and for  *)
(* the worker's five calls from one stamp to the next, each of which may   *)
(* wait for the monitor: for a whole replay, connecting and two calls per  *)
(* row, when it needs the session, else for one call.                      *)
StampsFit == PollInterval + CallMax <= StaleAfter /\ (2 * Batch + 10) * CallMax <= StaleAfter

NoFalseAlarm == StampsFit /\ fault = "none" => stale = {}

(* A worker or a monitor that hangs in the database or in the session, and *)
(* a process that was stopped, are restarted: each of them keeps the       *)
(* monitor from its next round (app.c:168-177; the development guide       *)
(* expects it after kill -STOP).                                           *)
Blocked == Stuck("worker") \/ Stuck("monitor") \/ fault = "stopped"
StuckIsRestarted == Blocked ~> ~Blocked

(* An ingress that hangs on the bus is reported by the monitor, whose own  *)
(* calls still return (app.c:159-163).                                     *)
StuckIngressIsReported == Stuck("ingress") ~> "ingress" \in stale
=============================================================================
