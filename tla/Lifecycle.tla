----------------------------- MODULE Lifecycle -----------------------------
(***************************************************************************)
(* The life of the process: main.c, gateway_app_init / run / stop /        *)
(* destroy of app.c, the monitor's reactor (core/reactor.c) and the        *)
(* supervision by systemd through platform/watchdog.c.  What the threads   *)
(* do in one turn of their loops is in the other modules; here a turn is   *)
(* the resources it needs and the ones it opens and closes on the way.     *)
(* Time is left out: systemd gives up on the process only when no          *)
(* notification can come any more.                                         *)
(***************************************************************************)
EXTENDS Naturals

CONSTANTS Supervised,   \* started by deploy/systemd/edgeflow.service
          MaxBoots      \* bound: how often the process is started

ASSUME SupervisedAssumption == Supervised \in BOOLEAN
ASSUME MaxBootsAssumption == MaxBoots \in Nat \ {0}

VARIABLES
    main,            \* where main() is
    code,            \* how the process ends, "none" until that is decided
    exitRequested,   \* g_exit_requested
    running,         \* app->running
    pc,              \* pc[t]: where thread t is
    open,            \* descriptors, memory and handles that are not released
    boots            \* how often the process has been started

vars == <<main, code, exitRequested, running, pc, open, boots>>

Thread == {"ingress", "worker", "monitor"}
Reactor == {"epoll", "timerfd"}
Storage == {"context", "sqlite"}   \* storage_ctx_t and the connection in it
Resource == {"log", "adapters", "bus", "ring", "mqtt", "notify"} \cup Storage \cup Reactor
Code == {"none", "ok", "error", "signal", "watchdog"}
MainPC == {"start", "armed", "config", "log", "storage", "adapters", "ring",
           "create ingress", "create worker", "create monitor", "serving",
           "joining", "shutdown", "destroy", "return", "exited", "killed"}
ThreadPC == {"none", "check", "turn", "done", "joined"}
MonitorPC == ThreadPC \cup {"epoll_create", "timerfd_create", "epoll_ctl",
                            "settime", "wait", "leave", "fallback", "round"}

(* What a turn of each loop dereferences. *)
Needs == [ingress |-> {"adapters", "ring"},
          worker  |-> {"adapters", "ring", "context"},
          monitor |-> {"context"}]

Init ==
    /\ main = "start" /\ code = "none" /\ boots = 1
    /\ exitRequested = FALSE /\ running = FALSE
    /\ pc = [t \in Thread |-> "none"] /\ open = {}

-----------------------------------------------------------------------------
(* main() up to the threads. *)

MainAt(from, to) == main = from /\ main' = to

ArmSignals ==
    /\ MainAt("start", "armed")
    /\ UNCHANGED <<code, exitRequested, running, pc, open, boots>>

(* atomic_init(&g_exit_requested, false), after the handlers are in place: *)
(* a signal that came in between is forgotten.                             *)
InitFlag ==
    /\ MainAt("armed", "config")
    /\ exitRequested' = FALSE
    /\ UNCHANGED <<code, running, pc, open, boots>>

LoadConfig ==
    /\ \/ MainAt("config", "log") /\ UNCHANGED code
       \/ MainAt("config", "exited") /\ code' = "error"
    /\ UNCHANGED <<exitRequested, running, pc, open, boots>>

(* Without a log file the gateway goes on and writes to stderr. *)
LoggerInit ==
    /\ MainAt("log", "storage")
    /\ open' \in {open, open \cup {"log"}}
    /\ UNCHANGED <<code, exitRequested, running, pc, boots>>

(* A failed gateway_app_init: the log is closed and main returns 1. *)
InitFails(from, undo) ==
    /\ MainAt(from, "return")
    /\ code' = "error"
    /\ open' = open \ undo
    /\ UNCHANGED <<exitRequested, running, pc, boots>>

InitStep(from, to, got) ==
    /\ MainAt(from, to)
    /\ open' = open \cup got
    /\ UNCHANGED <<code, exitRequested, running, pc, boots>>

(* storage_open.  Without use_sqlite there is no connection.  A calloc or  *)
(* a schema that fails leaves nothing; a sqlite3_open that fails leaves    *)
(* the connection it has allocated, since only the context is freed.       *)
StorageOpen ==
    \/ \E got \in {{"context"}, Storage} : InitStep("storage", "adapters", got)
    \/ InitFails("storage", {})
    \/ /\ MainAt("storage", "return")
       /\ code' = "error"
       /\ open' = open \cup {"sqlite"}
       /\ UNCHANGED <<exitRequested, running, pc, boots>>

(* The registration cannot fail with one adapter in an empty registry, but *)
(* gateway_app_init has the path.                                          *)
AdaptersInit ==
    InitStep("adapters", "ring", {"adapters"}) \/ InitFails("adapters", Storage)

NotifySocket == {{}} \cup (IF Supervised THEN {{"notify"}} ELSE {})

(* Mutant: the database stays open when there is no ring. *)
RingInitUnclosed ==
    \/ \E socket \in NotifySocket :
           InitStep("ring", "create ingress", {"ring"} \cup socket)
    \/ InitFails("ring", {"adapters"})

(* spsc_ring_init, then watchdog_init, which may find no NOTIFY_SOCKET. *)
RingInit ==
    \/ \E socket \in NotifySocket :
           InitStep("ring", "create ingress", {"ring"} \cup socket)
    \/ InitFails("ring", {"adapters"} \cup Storage)

First(t) == IF t = "monitor" THEN "epoll_create" ELSE "check"

Create(t, at, next) ==
    /\ MainAt(at, next)
    /\ running' = TRUE
    /\ pc' = [pc EXCEPT ![t] = First(t)]
    /\ UNCHANGED <<code, exitRequested, open, boots>>

(* Mutant: gateway_app_run returns -1 and main does not look at it. *)
CreateFailsUnnoticed(at) ==
    /\ MainAt(at, "joining")
    /\ running' = FALSE
    /\ UNCHANGED <<code, exitRequested, pc, open, boots>>

(* pthread_create fails: the threads created before it are joined. *)
CreateFails(at) ==
    /\ MainAt(at, "joining")
    /\ running' = FALSE /\ code' = "error"
    /\ UNCHANGED <<exitRequested, pc, open, boots>>

CreateIngress == Create("ingress", "create ingress", "create worker")
                 \/ CreateFails("create ingress")
CreateWorker == Create("worker", "create worker", "create monitor")
                \/ CreateFails("create worker")
CreateMonitor == Create("monitor", "create monitor", "serving")
                 \/ CreateFails("create monitor")

-----------------------------------------------------------------------------
(* main() from the request to stop to the end. *)

(* Mutant: the threads are joined but not told to stop. *)
StopUntold ==
    /\ MainAt("serving", "joining")
    /\ exitRequested
    /\ code' = "ok"
    /\ UNCHANGED <<exitRequested, running, pc, open, boots>>

Stop ==
    /\ MainAt("serving", "joining")
    /\ exitRequested
    /\ running' = FALSE /\ code' = "ok"
    /\ UNCHANGED <<exitRequested, pc, open, boots>>

Earlier == [ingress |-> {}, worker |-> {"ingress"}, monitor |-> {"ingress", "worker"}]

Join(t) ==
    /\ main = "joining"
    /\ pc[t] = "done"
    /\ \A e \in Earlier[t] : pc[e] = "joined"
    /\ pc' = [pc EXCEPT ![t] = "joined"]
    /\ UNCHANGED <<main, code, exitRequested, running, open, boots>>

Joined == \A t \in Thread : pc[t] \in {"none", "joined"}

(* Mutant: the monitor is not joined. *)
AllJoinedButMonitor ==
    /\ \A t \in Thread \ {"monitor"} : pc[t] \in {"none", "joined"}
    /\ MainAt("joining", IF code = "ok" THEN "shutdown" ELSE "destroy")
    /\ UNCHANGED <<code, exitRequested, running, pc, open, boots>>

AllJoined ==
    /\ Joined
    /\ MainAt("joining", IF code = "ok" THEN "shutdown" ELSE "destroy")
    /\ UNCHANGED <<code, exitRequested, running, pc, open, boots>>

(* mqtt_session_shutdown and watchdog_shutdown; not after a failed run. *)
Shutdown ==
    /\ MainAt("shutdown", "destroy")
    /\ open' = open \ {"mqtt", "notify"}
    /\ UNCHANGED <<code, exitRequested, running, pc, boots>>

Destroy ==
    /\ MainAt("destroy", "return")
    /\ open' = open \ ({"bus", "adapters", "ring"} \cup Storage)
    /\ UNCHANGED <<code, exitRequested, running, pc, boots>>

Return ==
    /\ MainAt("return", "exited")
    /\ open' = open \ {"log"}
    /\ UNCHANGED <<code, exitRequested, running, pc, boots>>

MainStep ==
    \/ ArmSignals \/ InitFlag \/ LoadConfig \/ LoggerInit
    \/ StorageOpen \/ AdaptersInit \/ RingInit
    \/ CreateIngress \/ CreateWorker \/ CreateMonitor
    \/ Stop \/ (\E t \in Thread : Join(t)) \/ AllJoined
    \/ Shutdown \/ Destroy \/ Return

-----------------------------------------------------------------------------
(* The loops of the threads. *)

Goto(t, label) == pc' = [pc EXCEPT ![t] = label]

ThreadOnly == UNCHANGED <<main, code, exitRequested, running, boots>>

(* while (atomic_load(&app->running)), in the ingress and the worker. *)
Check(t) ==
    /\ t # "monitor"
    /\ pc[t] = "check"
    /\ Goto(t, IF running THEN "turn" ELSE "done")
    /\ ThreadOnly /\ UNCHANGED open

(* ensure_context connects the bus if it must; a failed connect or read    *)
(* leaves no context behind.                                               *)
UseBus == open' \in {open \cup {"bus"}, open \ {"bus"}}

IngressTurn ==
    /\ pc["ingress"] = "turn"
    /\ Goto("ingress", "check")
    /\ UseBus
    /\ ThreadOnly

(* The session is connected by the first call that needs it and closed by  *)
(* a call that fails.                                                      *)
UseSession == open' \in {open \cup {"mqtt"}, open \ {"mqtt"}}

WorkerTurn ==
    /\ pc["worker"] = "turn"
    /\ Goto("worker", "check")
    /\ UseSession
    /\ ThreadOnly

MonitorAt(from, to) == pc["monitor"] = from /\ Goto("monitor", to) /\ ThreadOnly

(* reactor_init and reactor_add_timer_ms, one call of the OS at a time. *)
ReactorSetUp ==
    \/ MonitorAt("epoll_create", "timerfd_create") /\ open' = open \cup {"epoll"}
    \/ MonitorAt("timerfd_create", "epoll_ctl") /\ open' = open \cup {"timerfd"}
    \/ MonitorAt("epoll_ctl", "settime") /\ UNCHANGED open
    \/ MonitorAt("settime", "check") /\ UNCHANGED open

(* Each failure closes what is open so far; the monitor sleeps instead. *)
ReactorFails ==
    \E at \in {"epoll_create", "timerfd_create", "epoll_ctl", "settime"} :
        MonitorAt(at, "fallback") /\ open' = open \ Reactor

MonitorCheck ==
    /\ MonitorAt("check", IF running THEN "wait" ELSE "leave")
    /\ UNCHANGED open

(* reactor_run_once: a timeout or EINTR, the timer, or an epoll error.     *)
RunOnce ==
    /\ \E next \in {"check", "turn", "leave"} : MonitorAt("wait", next)
    /\ UNCHANGED open

(* monitor_on_timer reads running again. *)
MonitorRound(from, to) ==
    /\ MonitorAt(from, to)
    /\ IF running THEN UseSession ELSE UNCHANGED open

MonitorLeave == MonitorAt("leave", "done") /\ open' = open \ Reactor

Fallback ==
    /\ MonitorAt("fallback", IF running THEN "round" ELSE "done")
    /\ UNCHANGED open

MonitorStep ==
    \/ ReactorSetUp \/ ReactorFails \/ MonitorCheck \/ RunOnce \/ MonitorLeave
    \/ MonitorRound("turn", "check") \/ MonitorRound("round", "fallback")
    \/ Fallback

-----------------------------------------------------------------------------
(* Signals and systemd. *)

Ended == main \in {"exited", "killed"}

Killed(how) ==
    /\ main' = "killed" /\ code' = how /\ running' = FALSE
    /\ pc' = [t \in Thread |-> "none"] /\ open' = {}
    /\ UNCHANGED <<exitRequested, boots>>

(* Before the handlers are installed the default action ends the process. *)
SignalKills == main = "start" /\ Killed("signal")

OnSignal ==
    /\ main # "start" /\ ~Ended
    /\ exitRequested' = TRUE
    /\ UNCHANGED <<main, code, running, pc, open, boots>>

(* Mutant: the worker, not the monitor, feeds the watchdog. *)
FedByWorker ==
    "notify" \in open /\ pc["worker"] \notin {"none", "done", "joined"}

(* READY=1 or WATCHDOG=1 can still reach systemd: watchdog_notify_alive is *)
(* called by monitor_on_timer and by nobody else.                          *)
Fed == "notify" \in open /\ pc["monitor"] \notin {"none", "done", "joined"}

WatchdogExpires ==
    /\ Supervised /\ ~Fed
    /\ main \in {"serving", "joining"}
    /\ Killed("watchdog")

(* Restart=on-failure: SIGTERM and a return of 0 are no failures. *)
Restart ==
    /\ Supervised /\ boots < MaxBoots
    /\ Ended /\ code \in {"error", "watchdog"}
    /\ main' = "start" /\ code' = "none" /\ boots' = boots + 1
    /\ exitRequested' = FALSE /\ running' = FALSE
    /\ pc' = [t \in Thread |-> "none"] /\ open' = {}

-----------------------------------------------------------------------------
Next ==
    \/ MainStep \/ MonitorStep \/ IngressTurn \/ WorkerTurn
    \/ \E t \in Thread : Check(t)
    \/ SignalKills \/ OnSignal \/ WatchdogExpires \/ Restart

(* The OS runs every thread that can run, no call blocks for ever here     *)
(* (MqttSession has the ones that can), and systemd keeps its word.        *)
Fairness ==
    /\ WF_vars(MainStep) /\ WF_vars(MonitorStep)
    /\ WF_vars(IngressTurn \/ Check("ingress"))
    /\ WF_vars(WorkerTurn \/ Check("worker"))
    /\ WF_vars(WatchdogExpires)

Spec == Init /\ [][Next]_vars
FairSpec == Spec /\ Fairness

-----------------------------------------------------------------------------
(* Every variable holds a value of its type, and a main() that has ended   *)
(* has said how (the return statements of main.c).                         *)
TypeOK ==
    /\ main \in MainPC /\ code \in Code
    /\ exitRequested \in BOOLEAN /\ running \in BOOLEAN
    /\ pc["ingress"] \in ThreadPC /\ pc["worker"] \in ThreadPC
    /\ pc["monitor"] \in MonitorPC
    /\ open \subseteq Resource /\ boots \in 1 .. MaxBoots
    /\ Ended => code # "none"

(* A thread inside a turn of its loop finds the registry, the ring and the *)
(* database it uses alive, whichever pthread_create failed and whenever    *)
(* the stop came: gateway_app_destroy runs after every created thread is   *)
(* joined (app.c, gateway_app_run and gateway_app_stop).                   *)
NoUseAfterRelease ==
    \A t \in Thread : pc[t] \in {"turn", "round"} => Needs[t] \subseteq open

(* A graceful stop releases everything.  A failed start leaves to the OS   *)
(* the connection of a sqlite3_open that failed and nothing else           *)
(* (storage.c:101-104), or at most the broker connection and the notify    *)
(* socket (app.c:269-289).  A monitor that has fallen back to sleeping, or *)
(* has ended, holds no epoll or timerfd descriptor (reactor.c).            *)
NothingLeaks ==
    /\ main = "exited" /\ code = "ok" => open = {}
    /\ main = "exited" => open = {"sqlite"} \/ open \subseteq {"mqtt", "notify"}
    /\ pc["monitor"] \in {"fallback", "round", "done", "joined"} => open \cap Reactor = {}

(* Once a signal has set the flag, or a thread could not be created, the   *)
(* process ends: every loop reads app->running again (main.c:77-84,        *)
(* app.c:269-301).  The one signal this is not said of is one that arrives *)
(* before the flag is initialised, main.c:46.                              *)
StopEnds == (main = "joining" \/ (exitRequested /\ main # "armed")) ~> Ended

(* Under systemd a gateway whose monitor left its loop after an epoll      *)
(* error does not go on serving without replay and ping: nothing feeds the *)
(* watchdog any more (app.c, monitor_main).                                *)
DeadMonitorIsReplaced ==
    (main = "serving" /\ pc["monitor"] = "done") ~> (main # "serving")

=============================================================================
