-------------------------- MODULE LifecycleProofs --------------------------
(***************************************************************************)
(* Proofs about Lifecycle, for any number of restarts and with or without  *)
(* systemd: TLC sees two boots.                                            *)
(***************************************************************************)
EXTENDS Lifecycle, TLAPS

(* What gateway_app_init has set up by the time threads are created. *)
Base == {"context", "adapters", "ring"}

Early == {"start", "armed", "config", "log", "storage", "adapters", "ring"}
Ending == {"shutdown", "destroy", "return", "exited", "killed"}
Off == {"none", "joined"}

(* main() and the threads: before the first pthread_create and after the   *)
(* joins no thread runs, and how the process ends is decided exactly when  *)
(* main leaves its loop or fails.                                          *)
Phases ==
    /\ pc \in [Thread -> MonitorPC]
    /\ main \in Early \cup {"create ingress"} => \A t \in Thread : pc[t] = "none"
    /\ main \in {"create worker", "create monitor"} => pc["monitor"] = "none"
    /\ main \in Ending => \A t \in Thread : pc[t] \in Off
    /\ main \in {"joining", "destroy", "return", "exited"} => code \in {"ok", "error"}
    /\ main = "shutdown" => code = "ok"

(* What must be open, for the threads to use, and what may be open. *)
Held ==
    /\ main \in {"create ingress", "create worker", "create monitor", "serving",
                 "joining", "shutdown", "destroy"} => Base \subseteq open
    /\ main \in {"start", "armed", "config", "log", "killed"} => open = {}
    /\ main = "storage" => open \subseteq {"log"}
    /\ main = "adapters" => "context" \in open /\ open \subseteq {"log", "context", "sqlite"}
    /\ main = "ring" => /\ {"context", "adapters"} \subseteq open
                        /\ open \subseteq {"log", "context", "sqlite", "adapters"}
    /\ main = "destroy" /\ code = "ok" => open \cap {"mqtt", "notify"} = {}
    /\ main = "return" => \/ open \subseteq {"log", "mqtt", "notify"}
                          \/ "sqlite" \in open /\ open \subseteq {"log", "sqlite"}
    /\ main = "return" /\ code = "ok" => open \subseteq {"log"}
    /\ main = "exited" => open = {"sqlite"} \/ open \subseteq {"mqtt", "notify"}
    /\ main = "exited" /\ code = "ok" => open = {}

(* The reactor's descriptors follow the monitor's position. *)
ReactorHeld ==
    /\ pc["monitor"] \in {"none", "epoll_create", "fallback", "round", "done", "joined"} =>
          open \cap Reactor = {}
    /\ pc["monitor"] = "timerfd_create" => "timerfd" \notin open

(* The inductive invariant.  NoUseAfterRelease and NothingLeaks alone are  *)
(* not inductive: they say nothing of the phases in between, on which the  *)
(* next release depends.                                                   *)
LifecycleInv == TypeOK /\ Phases /\ Held /\ ReactorHeld

LEMMA LifecycleInit == Init => LifecycleInv
<1> SUFFICES ASSUME Init PROVE LifecycleInv
  OBVIOUS
<1>1. TypeOK
  <2>1. boots \in 1 .. MaxBoots
    BY MaxBootsAssumption DEF Init
  <2>2. QED
    BY <2>1 DEF Init, TypeOK, Ended, MainPC, Code, Thread, ThreadPC, MonitorPC
<1>2. Phases /\ Held /\ ReactorHeld
  BY DEF Init, Phases, Held, ReactorHeld, Thread, ThreadPC, MonitorPC, Early, Ending, Off
<1>3. QED
  BY <1>1, <1>2 DEF LifecycleInv

-----------------------------------------------------------------------------
(* A turn of a thread that is running: main is between the first           *)
(* pthread_create and the last join, so only the reactor's descriptors     *)
(* need a look.                                                            *)
LEMMA ThreadMoves ==
    ASSUME LifecycleInv, NEW t \in Thread, NEW to \in MonitorPC \ Off,
           t # "monitor" => to \in ThreadPC,
           pc[t] \notin Off, Goto(t, to), ThreadOnly,
           open' \subseteq Resource, Base \subseteq open => Base \subseteq open',
           ReactorHeld'
    PROVE  LifecycleInv'
<1>1. main \in MainPC /\ main \notin Early \cup {"create ingress"} \cup Ending
  BY DEF LifecycleInv, TypeOK, Phases, Off
<1>2. pc' \in [Thread -> MonitorPC] /\ pc'[t] = to /\ \A u \in Thread \ {t} : pc'[u] = pc[u]
  BY DEF LifecycleInv, Phases, Goto
<1>3. UNCHANGED <<main, code, exitRequested, running, boots>>
  BY DEF ThreadOnly
<1>4. TypeOK'
  <2>1. pc'["ingress"] \in ThreadPC /\ pc'["worker"] \in ThreadPC /\ pc'["monitor"] \in MonitorPC
    BY <1>2 DEF LifecycleInv, TypeOK, Thread
  <2>2. QED
    BY <1>3, <2>1 DEF LifecycleInv, TypeOK, Ended
<1>5. Phases'
  <2>1. main \in {"create worker", "create monitor"} => pc'["monitor"] = "none"
    BY <1>2 DEF LifecycleInv, Phases, Off, Thread
  <2>2. QED
    BY <1>1, <1>2, <1>3, <2>1 DEF LifecycleInv, Phases
<1>6. Held'
  BY <1>1, <1>3 DEF LifecycleInv, Held, MainPC, Early, Ending
<1>7. QED
  BY <1>4, <1>5, <1>6 DEF LifecycleInv

(* A step of main() that leaves the threads alone. *)
LEMMA MainMoves ==
    ASSUME LifecycleInv, UNCHANGED <<pc, boots>>, main' \in MainPC, code' \in Code,
           exitRequested' \in BOOLEAN, running' \in BOOLEAN, open' \subseteq Resource,
           main' \in {"exited", "killed"} => code' # "none",
           main' \in Early \cup {"create ingress"} => main \in Early \cup {"create ingress"},
           main' \in {"create worker", "create monitor"} => main' = main,
           main' \in Ending => main \in Early \/ main \in Ending \/ Joined,
           main' \in {"joining", "destroy", "return", "exited"} => code' \in {"ok", "error"},
           main' = "shutdown" => code' = "ok",
           Held', open' \cap Reactor \subseteq open
    PROVE  LifecycleInv'
<1>1. TypeOK'
  BY DEF LifecycleInv, TypeOK, Ended
<1>2. Phases'
  BY DEF LifecycleInv, Phases, Joined, Off, Early, Ending
<1>3. ReactorHeld'
  BY DEF LifecycleInv, ReactorHeld, Reactor
<1>4. QED
  BY <1>1, <1>2, <1>3 DEF LifecycleInv

LEMMA LifecycleNext == LifecycleInv /\ [Next]_vars => LifecycleInv'
<1> SUFFICES ASSUME LifecycleInv, [Next]_vars PROVE LifecycleInv'
  OBVIOUS
<1>0. CASE UNCHANGED vars
  <2>1. TypeOK'
    BY <1>0 DEF vars, LifecycleInv, TypeOK, Ended
  <2>2. Phases' /\ Held' /\ ReactorHeld'
    BY ZenonT(40), <1>0 DEF vars, LifecycleInv, Phases, Held, ReactorHeld
  <2>3. QED
    BY <2>1, <2>2 DEF LifecycleInv
<1>1. CASE ArmSignals
  <2>1. Held'
    BY <1>1 DEF ArmSignals, MainAt, LifecycleInv, Phases, Held, ReactorHeld, Base, Reactor,
       Resource
  <2>2. QED
    BY <1>1, <2>1, MainMoves DEF ArmSignals, MainAt, LifecycleInv, TypeOK, Phases,
       MainPC, Code, Early, Ending, Reactor, Resource
<1>2. CASE InitFlag
  <2>1. Held'
    BY <1>2 DEF InitFlag, MainAt, LifecycleInv, Phases, Held, ReactorHeld, Base, Reactor,
       Resource
  <2>2. QED
    BY <1>2, <2>1, MainMoves DEF InitFlag, MainAt, LifecycleInv, TypeOK, Phases,
       MainPC, Code, Early, Ending, Reactor, Resource
<1>3. CASE LoadConfig
  <2>1. Held'
    BY <1>3 DEF LoadConfig, MainAt, LifecycleInv, Phases, Held, ReactorHeld, Base, Reactor,
       Resource
  <2>2. QED
    BY <1>3, <2>1, MainMoves DEF LoadConfig, MainAt, LifecycleInv, TypeOK, Phases,
       MainPC, Code, Early, Ending, Reactor, Resource
<1>4. CASE LoggerInit
  <2>1. Held'
    BY <1>4 DEF LoggerInit, MainAt, LifecycleInv, Phases, Held, ReactorHeld, Base, Reactor,
       Resource
  <2>2. QED
    BY <1>4, <2>1, MainMoves DEF LoggerInit, MainAt, LifecycleInv, TypeOK, Phases,
       MainPC, Code, Early, Ending, Reactor, Resource
<1>5. CASE StorageOpen
  <2>1. /\ main = "storage" /\ open \subseteq {"log"}
        /\ UNCHANGED <<exitRequested, running, pc, boots>>
        /\ \/ main' = "adapters" /\ code' = code /\ open' = open \cup {"context"}
           \/ main' = "adapters" /\ code' = code /\ open' = open \cup {"context", "sqlite"}
           \/ main' = "return" /\ code' = "error" /\ open' = open
           \/ main' = "return" /\ code' = "error" /\ open' = open \cup {"sqlite"}
    BY <1>5 DEF StorageOpen, Storage, InitStep, InitFails, MainAt, LifecycleInv, Held
  <2>2. Held'
    BY <2>1 DEF Held
  <2>3. code \in Code /\ exitRequested \in BOOLEAN /\ running \in BOOLEAN
    BY DEF LifecycleInv, TypeOK
  <2>4. main' \in {"adapters", "return"} /\ code' \in Code /\ (main' = "return" => code' = "error")
    BY <2>1, <2>3 DEF Code
  <2>5. open' \subseteq Resource /\ open' \cap Reactor \subseteq open
    BY <2>1 DEF Resource, Storage, Reactor
  <2>6. QED
    BY <2>1, <2>2, <2>3, <2>4, <2>5, MainMoves DEF MainPC, Early, Ending
<1>6. CASE AdaptersInit
  <2>1. Held'
    BY <1>6 DEF AdaptersInit, InitStep, InitFails, MainAt, LifecycleInv, Held, Storage
  <2>2. QED
    BY <1>6, <2>1, MainMoves DEF AdaptersInit, InitStep, InitFails, MainAt, LifecycleInv,
       TypeOK, Phases,
       MainPC, Code, Early, Ending, Reactor, Resource
<1>7. CASE RingInit
  <2>1. CASE InitFails("ring", {"adapters"} \cup Storage)
    <3>1. Held'
      BY <2>1 DEF InitFails, MainAt, LifecycleInv, Held, Storage
    <3>2. QED
      BY <2>1, <3>1, MainMoves DEF InitFails, MainAt, LifecycleInv, TypeOK, MainPC, Code, Early,
         Ending
  <2>2. ASSUME NEW socket \in NotifySocket,
               InitStep("ring", "create ingress", {"ring"} \cup socket)
        PROVE  LifecycleInv'
    <3>1. socket \subseteq {"notify"}
      BY DEF NotifySocket
    <3>2. Held'
      BY <2>2 DEF InitStep, MainAt, LifecycleInv, Held, Base
    <3>3. QED
      BY <2>2, <3>1, <3>2, MainMoves
         DEF InitStep, MainAt, LifecycleInv, TypeOK, MainPC, Early, Ending, Reactor, Resource
  <2>3. QED
    BY <1>7, <2>1, <2>2 DEF RingInit
<1>8. CASE Stop
  <2>1. Held'
    BY <1>8 DEF Stop, MainAt, LifecycleInv, Phases, Held, ReactorHeld, Base, Reactor, Resource
  <2>2. QED
    BY <1>8, <2>1, MainMoves DEF Stop, MainAt, LifecycleInv, TypeOK, Phases,
       MainPC, Code, Early, Ending, Reactor, Resource
<1>9. CASE AllJoined
  <2>1. Held'
    BY <1>9 DEF AllJoined, MainAt, LifecycleInv, Phases, Held, ReactorHeld, Base, Reactor,
       Resource
  <2>2. QED
    BY <1>9, <2>1, MainMoves DEF AllJoined, MainAt, LifecycleInv, TypeOK, Phases,
       MainPC, Code, Early, Ending, Reactor, Resource
<1>10. CASE Shutdown
  <2>1. Held'
    BY <1>10 DEF Shutdown, MainAt, LifecycleInv, Phases, Held, ReactorHeld, Base, Reactor,
       Resource
  <2>2. QED
    BY <1>10, <2>1, MainMoves DEF Shutdown, MainAt, LifecycleInv, TypeOK, Phases,
       MainPC, Code, Early, Ending, Reactor, Resource
<1>11. CASE Destroy
  <2>1. pc["monitor"] \in Off
    BY <1>11 DEF Destroy, MainAt, LifecycleInv, Phases, Ending, Thread
  <2>2. open \cap Reactor = {} /\ open \subseteq Resource
    BY <2>1 DEF LifecycleInv, TypeOK, ReactorHeld, Off
  <2>3. Held'
    BY <1>11, <2>2 DEF Destroy, MainAt, LifecycleInv, Held, Reactor, Resource
  <2>4. QED
    BY <1>11, <2>3, MainMoves DEF Destroy, MainAt, LifecycleInv, TypeOK, Phases, MainPC, Code,
       Early, Ending
<1>12. CASE Return
  <2>1. Held'
    BY <1>12 DEF Return, MainAt, LifecycleInv, Phases, Held, ReactorHeld, Base, Reactor,
       Resource
  <2>2. QED
    BY <1>12, <2>1, MainMoves DEF Return, MainAt, LifecycleInv, TypeOK, Phases,
       MainPC, Code, Early, Ending, Reactor, Resource
<1>13. CASE OnSignal
  <2>1. Held'
    BY <1>13 DEF OnSignal, Ended, LifecycleInv, Phases, Held, ReactorHeld, Base, Reactor,
       Resource
  <2>2. QED
    BY <1>13, <2>1, MainMoves DEF OnSignal, Ended, LifecycleInv, TypeOK, Phases,
       MainPC, Code, Early, Ending, Reactor, Resource
<1>14. CASE CreateIngress
  <2>1. CASE CreateFails("create ingress")
    BY <2>1, MainMoves DEF CreateFails, MainAt, LifecycleInv, TypeOK, Held, MainPC, Code, Early,
       Ending
  <2>2. CASE Create("ingress", "create ingress", "create worker")
    <3>1. /\ pc' = [pc EXCEPT !["ingress"] = "check"]
          /\ main = "create ingress" /\ main' = "create worker" /\ running' = TRUE
      BY <2>2 DEF Create, First, MainAt
    <3>2. UNCHANGED <<code, exitRequested, open, boots>>
      BY <2>2 DEF Create
    <3>3. TypeOK'
      BY <3>1, <3>2 DEF LifecycleInv, TypeOK, Phases, Ended, MainPC, Thread, ThreadPC, MonitorPC
    <3>4. Phases'
      BY <3>1, <3>2 DEF LifecycleInv, Phases, Thread, ThreadPC, MonitorPC, Early, Ending
    <3>5. Held' /\ ReactorHeld'
      BY <3>1, <3>2 DEF LifecycleInv, Phases, Held, ReactorHeld, Thread
    <3>6. QED
      BY <3>3, <3>4, <3>5 DEF LifecycleInv
  <2>3. QED
    BY <1>14, <2>1, <2>2 DEF CreateIngress
<1>15. CASE CreateWorker
  <2>1. CASE CreateFails("create worker")
    BY <2>1, MainMoves DEF CreateFails, MainAt, LifecycleInv, TypeOK, Held, MainPC, Code, Early,
       Ending
  <2>2. CASE Create("worker", "create worker", "create monitor")
    <3>1. /\ pc' = [pc EXCEPT !["worker"] = "check"]
          /\ main = "create worker" /\ main' = "create monitor" /\ running' = TRUE
      BY <2>2 DEF Create, First, MainAt
    <3>2. UNCHANGED <<code, exitRequested, open, boots>>
      BY <2>2 DEF Create
    <3>3. TypeOK'
      BY <3>1, <3>2 DEF LifecycleInv, TypeOK, Phases, Ended, MainPC, Thread, ThreadPC, MonitorPC
    <3>4. Phases'
      BY <3>1, <3>2 DEF LifecycleInv, Phases, Thread, ThreadPC, MonitorPC, Early, Ending
    <3>5. Held' /\ ReactorHeld'
      BY <3>1, <3>2 DEF LifecycleInv, Phases, Held, ReactorHeld, Thread
    <3>6. QED
      BY <3>3, <3>4, <3>5 DEF LifecycleInv
  <2>3. QED
    BY <1>15, <2>1, <2>2 DEF CreateWorker
<1>16. CASE CreateMonitor
  <2>1. CASE CreateFails("create monitor")
    BY <2>1, MainMoves DEF CreateFails, MainAt, LifecycleInv, TypeOK, Held, MainPC, Code, Early,
       Ending
  <2>2. CASE Create("monitor", "create monitor", "serving")
    <3>1. /\ pc' = [pc EXCEPT !["monitor"] = "epoll_create"]
          /\ main = "create monitor" /\ main' = "serving" /\ running' = TRUE
      BY <2>2 DEF Create, First, MainAt
    <3>2. UNCHANGED <<code, exitRequested, open, boots>>
      BY <2>2 DEF Create
    <3>3. TypeOK'
      BY <3>1, <3>2 DEF LifecycleInv, TypeOK, Phases, Ended, MainPC, Thread, ThreadPC, MonitorPC
    <3>4. Phases'
      BY <3>1, <3>2 DEF LifecycleInv, Phases, Thread, ThreadPC, MonitorPC, Early, Ending
    <3>5. Held' /\ ReactorHeld'
      BY <3>1, <3>2 DEF LifecycleInv, Phases, Held, ReactorHeld, Thread
    <3>6. QED
      BY <3>3, <3>4, <3>5 DEF LifecycleInv
  <2>3. QED
    BY <1>16, <2>1, <2>2 DEF CreateMonitor
<1>17. ASSUME NEW t \in Thread, Join(t) PROVE LifecycleInv'
  <2>1. main = "joining" /\ pc[t] = "done" /\ pc' = [pc EXCEPT ![t] = "joined"]
    BY <1>17 DEF Join
  <2>2. UNCHANGED <<main, code, exitRequested, running, open, boots>>
    BY <1>17 DEF Join
  <2>3. TypeOK'
    BY <2>1, <2>2 DEF LifecycleInv, TypeOK, Phases, Ended, Thread, ThreadPC, MonitorPC
  <2>4. Phases' /\ Held' /\ ReactorHeld'
    BY <2>1, <2>2 DEF LifecycleInv, Phases, Held, ReactorHeld, Thread, ThreadPC, MonitorPC,
       Early, Ending
  <2>5. QED
    BY <2>3, <2>4 DEF LifecycleInv
<1>18. ASSUME NEW t \in Thread, Check(t) PROVE LifecycleInv'
  <2>1. ReactorHeld'
    BY <1>18 DEF Check, Goto, LifecycleInv, Phases, ReactorHeld, Thread
  <2>2. QED
    BY <1>18, <2>1, ThreadMoves DEF Check, LifecycleInv, TypeOK, ThreadPC, MonitorPC, Off
<1>19. CASE IngressTurn
  <2>1. ReactorHeld'
    BY <1>19 DEF IngressTurn, Goto, UseBus, LifecycleInv, Phases, ReactorHeld, Reactor, Thread
  <2>2. open' \subseteq Resource /\ (Base \subseteq open => Base \subseteq open')
    BY <1>19 DEF IngressTurn, UseBus, LifecycleInv, TypeOK, Resource, Base
  <2>3. QED
    BY <1>19, <2>1, <2>2, ThreadMoves DEF IngressTurn, Thread, ThreadPC, MonitorPC, Off
<1>20. CASE WorkerTurn
  <2>1. ReactorHeld'
    BY <1>20 DEF WorkerTurn, Goto, UseSession, LifecycleInv, Phases, ReactorHeld, Reactor,
       Thread
  <2>2. open' \subseteq Resource /\ (Base \subseteq open => Base \subseteq open')
    BY <1>20 DEF WorkerTurn, UseSession, LifecycleInv, TypeOK, Resource, Base
  <2>3. QED
    BY <1>20, <2>1, <2>2, ThreadMoves DEF WorkerTurn, Thread, ThreadPC, MonitorPC, Off
<1>21. CASE ReactorSetUp
  <2>1. PICK from \in MonitorPC \ Off, to \in MonitorPC \ Off : MonitorAt(from, to)
    BY <1>21 DEF ReactorSetUp, MonitorPC, Off, ThreadPC
  <2>2. ReactorHeld'
    BY <1>21 DEF ReactorSetUp, MonitorAt, Goto, LifecycleInv, Phases, ReactorHeld, Reactor,
       Thread
  <2>3. open' \subseteq Resource /\ (Base \subseteq open => Base \subseteq open')
    BY <1>21 DEF ReactorSetUp, LifecycleInv, TypeOK, Resource, Reactor, Base
  <2>4. QED
    BY <2>1, <2>2, <2>3, ThreadMoves DEF MonitorAt, Thread, ThreadPC
<1>22. CASE ReactorFails
  <2>1. PICK from \in MonitorPC \ Off, to \in MonitorPC \ Off : MonitorAt(from, to)
    BY <1>22 DEF ReactorFails, MonitorPC, Off, ThreadPC
  <2>2. ReactorHeld'
    BY <1>22 DEF ReactorFails, MonitorAt, Goto, LifecycleInv, Phases, ReactorHeld, Reactor,
       Thread
  <2>3. open' \subseteq Resource /\ (Base \subseteq open => Base \subseteq open')
    BY <1>22 DEF ReactorFails, LifecycleInv, TypeOK, Resource, Reactor, Base
  <2>4. QED
    BY <2>1, <2>2, <2>3, ThreadMoves DEF MonitorAt, Thread, ThreadPC
<1>23. CASE MonitorCheck
  <2>1. PICK from \in MonitorPC \ Off, to \in MonitorPC \ Off : MonitorAt(from, to)
    BY <1>23 DEF MonitorCheck, MonitorPC, Off, ThreadPC
  <2>2. ReactorHeld'
    BY <1>23 DEF MonitorCheck, MonitorAt, Goto, LifecycleInv, Phases, ReactorHeld, Reactor,
       Thread
  <2>3. open' \subseteq Resource /\ (Base \subseteq open => Base \subseteq open')
    BY <1>23 DEF MonitorCheck, LifecycleInv, TypeOK, Resource, Reactor, Base
  <2>4. QED
    BY <2>1, <2>2, <2>3, ThreadMoves DEF MonitorAt, Thread, ThreadPC
<1>24. CASE RunOnce
  <2>1. PICK from \in MonitorPC \ Off, to \in MonitorPC \ Off : MonitorAt(from, to)
    BY <1>24 DEF RunOnce, MonitorPC, Off, ThreadPC
  <2>2. ReactorHeld'
    BY <1>24 DEF RunOnce, MonitorAt, Goto, LifecycleInv, Phases, ReactorHeld, Reactor, Thread
  <2>3. open' \subseteq Resource /\ (Base \subseteq open => Base \subseteq open')
    BY <1>24 DEF RunOnce, LifecycleInv, TypeOK, Resource, Reactor, Base
  <2>4. QED
    BY <2>1, <2>2, <2>3, ThreadMoves DEF MonitorAt, Thread, ThreadPC
<1>25. CASE MonitorLeave
  <2>1. PICK from \in MonitorPC \ Off, to \in MonitorPC \ Off : MonitorAt(from, to)
    BY <1>25 DEF MonitorLeave, MonitorPC, Off, ThreadPC
  <2>2. ReactorHeld'
    BY <1>25 DEF MonitorLeave, MonitorAt, Goto, LifecycleInv, Phases, ReactorHeld, Reactor,
       Thread
  <2>3. open' \subseteq Resource /\ (Base \subseteq open => Base \subseteq open')
    BY <1>25 DEF MonitorLeave, LifecycleInv, TypeOK, Resource, Reactor, Base
  <2>4. QED
    BY <2>1, <2>2, <2>3, ThreadMoves DEF MonitorAt, Thread, ThreadPC
<1>26. CASE MonitorRound("turn", "check")
  <2>1. PICK from \in MonitorPC \ Off, to \in MonitorPC \ Off : MonitorAt(from, to)
    BY <1>26 DEF MonitorRound, MonitorPC, Off, ThreadPC
  <2>2. ReactorHeld'
    BY <1>26 DEF MonitorRound, UseSession, MonitorAt, Goto, LifecycleInv, Phases, ReactorHeld,
       Reactor, Thread
  <2>3. open' \subseteq Resource /\ (Base \subseteq open => Base \subseteq open')
    BY <1>26 DEF MonitorRound, UseSession, LifecycleInv, TypeOK, Resource, Reactor, Base
  <2>4. QED
    BY <2>1, <2>2, <2>3, ThreadMoves DEF MonitorAt, Thread, ThreadPC
<1>27. CASE MonitorRound("round", "fallback")
  <2>1. PICK from \in MonitorPC \ Off, to \in MonitorPC \ Off : MonitorAt(from, to)
    BY <1>27 DEF MonitorRound, MonitorPC, Off, ThreadPC
  <2>2. ReactorHeld'
    BY <1>27 DEF MonitorRound, UseSession, MonitorAt, Goto, LifecycleInv, Phases, ReactorHeld,
       Reactor, Thread
  <2>3. open' \subseteq Resource /\ (Base \subseteq open => Base \subseteq open')
    BY <1>27 DEF MonitorRound, UseSession, LifecycleInv, TypeOK, Resource, Reactor, Base
  <2>4. QED
    BY <2>1, <2>2, <2>3, ThreadMoves DEF MonitorAt, Thread, ThreadPC
<1>28. CASE Fallback
  <2>1. PICK from \in MonitorPC \ Off, to \in MonitorPC \ Off : MonitorAt(from, to)
    BY <1>28 DEF Fallback, MonitorPC, Off, ThreadPC
  <2>2. ReactorHeld'
    BY <1>28 DEF Fallback, MonitorAt, Goto, LifecycleInv, Phases, ReactorHeld, Reactor, Thread
  <2>3. open' \subseteq Resource /\ (Base \subseteq open => Base \subseteq open')
    BY <1>28 DEF Fallback, LifecycleInv, TypeOK, Resource, Reactor, Base
  <2>4. QED
    BY <2>1, <2>2, <2>3, ThreadMoves DEF MonitorAt, Thread, ThreadPC
<1>29. ASSUME NEW how \in Code \ {"none"}, Killed(how) PROVE LifecycleInv'
  <2>1. TypeOK'
    BY <1>29 DEF Killed, LifecycleInv, TypeOK, Ended, MainPC, Thread, ThreadPC, MonitorPC
  <2>2. Phases' /\ Held' /\ ReactorHeld'
    BY <1>29 DEF Killed, Phases, Held, ReactorHeld, Thread, ThreadPC, MonitorPC, Early, Ending,
       Off
  <2>3. QED
    BY <2>1, <2>2 DEF LifecycleInv
<1>30. CASE Restart
  <2>1. TypeOK'
    <3>1. boots' \in 1 .. MaxBoots
      BY <1>30, MaxBootsAssumption DEF Restart, LifecycleInv, TypeOK
    <3>2. QED
      BY <1>30, <3>1 DEF Restart, TypeOK, Ended, MainPC, Code, Thread, ThreadPC, MonitorPC
  <2>2. Phases' /\ Held' /\ ReactorHeld'
    BY <1>30 DEF Restart, Phases, Held, ReactorHeld, Thread, ThreadPC, MonitorPC, Early, Ending,
       Off
  <2>3. QED
    BY <2>1, <2>2 DEF LifecycleInv
<1>31. QED
  BY <1>0, <1>1, <1>2, <1>3, <1>4, <1>5, <1>6, <1>7, <1>8, <1>9, <1>10, <1>11, <1>12, <1>13,
     <1>14, <1>15, <1>16, <1>17, <1>18, <1>19, <1>20, <1>21, <1>22, <1>23, <1>24, <1>25, <1>26,
     <1>27, <1>28, <1>29, <1>30
     DEF Next, MainStep, MonitorStep, SignalKills, WatchdogExpires, Code

LEMMA LifecycleSpec == Spec => []LifecycleInv
BY LifecycleInit, LifecycleNext, PTL DEF Spec

-----------------------------------------------------------------------------
(* Every variable keeps its type, and a process that has ended has said    *)
(* how, over any number of restarts.                                       *)
THEOREM TypeCorrect == Spec => []TypeOK
BY LifecycleSpec, PTL DEF LifecycleInv

(* No turn of a thread touches the registry, the ring or the database      *)
(* before gateway_app_init has made them or after gateway_app_destroy.     *)
THEOREM NoThreadOutlivesItsData == Spec => []NoUseAfterRelease
<1>1. LifecycleInv => NoUseAfterRelease
  <2> SUFFICES ASSUME LifecycleInv, NEW t \in Thread, pc[t] \in {"turn", "round"}
               PROVE  Needs[t] \subseteq open
    BY DEF NoUseAfterRelease
  <2>1. main \notin Early \cup {"create ingress"} \cup Ending
    BY DEF LifecycleInv, Phases, Off
  <2>2. Base \subseteq open
    BY <2>1 DEF LifecycleInv, TypeOK, Held, MainPC, Early, Ending
  <2>3. Needs[t] \subseteq Base
    BY DEF Needs, Base, Thread
  <2>4. QED
    BY <2>2, <2>3
<1>2. QED
  BY <1>1, LifecycleSpec, PTL

(* Every way out of the process, the error paths of gateway_app_init, of   *)
(* gateway_app_run and of the reactor included, releases what it must.     *)
THEOREM EverythingIsReleased == Spec => []NothingLeaks
<1>1. LifecycleInv => NothingLeaks
  BY DEF LifecycleInv, Held, ReactorHeld, NothingLeaks
<1>2. QED
  BY <1>1, LifecycleSpec, PTL
=============================================================================
