---------------------------- MODULE MqttSession ----------------------------
(***************************************************************************)
(* src/src/egress/mqtt_session.c: one TCP connection to the broker, shared *)
(* by the worker (live telemetry), the monitor (replay, ping, heartbeat,   *)
(* in this order every round) and main (shutdown, after it has joined the  *)
(* two), behind one mutex.  A packet is written in two chunks, because     *)
(* write() may stop half way.  What the broker reads on each socket is     *)
(* followed by a parser, so no history is needed and nothing is bounded.   *)
(***************************************************************************)
EXTENDS Integers, FiniteSets

CONSTANTS Fd,        \* socket numbers the OS hands out, reused after close
          Batch      \* most rows of one replay: mqtt_replay_batch, at most 64

ASSUME FdAssumption == Fd \subseteq Nat \ {0} /\ Cardinality(Fd) >= 2
ASSUME BatchAssumption == Batch \in Nat

VARIABLES
    lock,        \* session->lock: its owner, or "none"
    fd,          \* session->fd, 0 for -1
    connected,   \* session->connected
    openFds,     \* sockets of this process that are not closed
    stream,      \* stream[f]: what the broker has parsed on socket f
    hung,        \* the broker has stopped answering, its sockets stay open
    running,     \* app->running
    pc,          \* pc[t]: where thread t is
    job,         \* job[t]: the call thread t is in, or made last
    left         \* left[t]: packets the call still has to send

vars == <<lock, fd, connected, openFds, stream, hung, running, pc, job, left>>

Thread == {"worker", "monitor", "main"}
PC == {"idle", "lock", "ensure", "open", "connectA", "connectB", "connack",
       "sendA", "sendB", "unlock", "exited"}
Job == {"none", "telemetry", "replay", "ping", "heartbeat", "shutdown"}

(* The broker is between packets, half way through thread t's packet, or   *)
(* has read something that is no sequence of whole packets.                *)
Half(t, packet) == [in |-> packet, of |-> t]
Whole(packet) == [in |-> packet, of |-> "all"]
Fresh == Whole("nothing")
Garbled == Whole("garbage")

Goto(t, label) == pc' = [pc EXCEPT ![t] = label]

Init ==
    /\ lock = "none" /\ fd = 0 /\ connected = FALSE
    /\ openFds = {} /\ stream = [f \in Fd |-> Fresh]
    /\ running = TRUE /\ hung = FALSE
    /\ pc = [t \in Thread |-> "idle"]
    /\ job = [t \in Thread |-> "none"]
    /\ left = [t \in Thread |-> 0]

-----------------------------------------------------------------------------
(* Calls, as the threads of app.c make them. *)

Call(t, kind, packets) ==
    /\ pc[t] = "idle"
    /\ Goto(t, "lock")
    /\ job' = [job EXCEPT ![t] = kind]
    /\ left' = [left EXCEPT ![t] = packets]
    /\ UNCHANGED <<hung, lock, fd, connected, openFds, stream, running>>

PublishTelemetry == running /\ Call("worker", "telemetry", 1)

(* A round of monitor_on_timer; running is read only when it begins. *)
RoundOver == job["monitor"] \in {"none", "heartbeat"}

ReplayPending ==
    /\ running /\ RoundOver
    /\ \E n \in 0 .. Batch : Call("monitor", "replay", n)

(* storage_fetch_pending_telemetry failed: no lock is taken, nothing sent. *)
ReplayFetchFails ==
    /\ running /\ RoundOver /\ pc["monitor"] = "idle"
    /\ job' = [job EXCEPT !["monitor"] = "replay"]
    /\ UNCHANGED <<lock, fd, connected, openFds, stream, hung, running, pc, left>>

Ping == job["monitor"] = "replay" /\ Call("monitor", "ping", 1)

PublishHeartbeat == job["monitor"] = "ping" /\ Call("monitor", "heartbeat", 1)

(* gateway_app_stop: running is cleared, the two threads leave their loops, *)
(* and only then main shuts the session down.                               *)
Stop ==
    /\ running
    /\ running' = FALSE
    /\ UNCHANGED <<hung, lock, fd, connected, openFds, stream, pc, job, left>>

Exit(t) ==
    /\ ~running /\ pc[t] = "idle"
    /\ \/ t = "worker"
       \/ t = "monitor" /\ RoundOver
       \/ t = "main" /\ job[t] = "shutdown"
    /\ Goto(t, "exited")
    /\ UNCHANGED <<hung, lock, fd, connected, openFds, stream, running, job, left>>

(* Mutant: main does not join the threads first. *)
SessionShutdownUnjoined ==
    /\ ~running
    /\ job["main"] = "none"
    /\ Call("main", "shutdown", 0)

SessionShutdown ==
    /\ ~running
    /\ pc["worker"] = "exited" /\ pc["monitor"] = "exited"
    /\ job["main"] = "none"
    /\ Call("main", "shutdown", 0)

-----------------------------------------------------------------------------
(* Inside a call. *)

(* Mutant: no mutual exclusion. *)
AcquireUnlocked(t) ==
    /\ pc[t] = "lock"
    /\ lock' = t
    /\ Goto(t, "ensure")
    /\ UNCHANGED <<hung, fd, connected, openFds, stream, running, job, left>>

Acquire(t) ==
    /\ pc[t] = "lock"
    /\ lock = "none"
    /\ lock' = t
    /\ Goto(t, "ensure")
    /\ UNCHANGED <<hung, fd, connected, openFds, stream, running, job, left>>

Unlock(t) ==
    /\ pc[t] = "unlock"
    /\ lock' = "none"
    /\ Goto(t, "idle")
    /\ UNCHANGED <<hung, fd, connected, openFds, stream, running, job, left>>

(* Mutant: the socket is forgotten, not closed. *)
ShutdownUnclosed ==
    /\ fd' = 0
    /\ connected' = FALSE
    /\ UNCHANGED openFds

(* mqtt_shutdown_locked *)
ShutdownLocked ==
    /\ openFds' = openFds \ {fd}
    /\ fd' = 0
    /\ connected' = FALSE

Fail(t) ==
    /\ ShutdownLocked
    /\ Goto(t, "unlock")
    /\ UNCHANGED <<hung, lock, stream, running, job, left>>

(* The connection is reused, or torn down and opened again; ping only uses *)
(* a connection that is there, shutdown only tears it down.                *)
Reuse(t) ==
    /\ pc[t] = "ensure" /\ job[t] # "shutdown"
    /\ connected /\ fd # 0
    /\ Goto(t, IF left[t] = 0 THEN "unlock" ELSE "sendA")
    /\ UNCHANGED <<hung, lock, fd, connected, openFds, stream, running, job, left>>

SkipPing(t) ==
    /\ pc[t] = "ensure" /\ job[t] = "ping"
    /\ ~(connected /\ fd # 0)
    /\ Goto(t, "unlock")
    /\ UNCHANGED <<hung, lock, fd, connected, openFds, stream, running, job, left>>

Reopen(t) ==
    /\ pc[t] = "ensure" /\ job[t] \notin {"ping", "shutdown"}
    /\ ~(connected /\ fd # 0)
    /\ ShutdownLocked
    /\ Goto(t, "open")
    /\ UNCHANGED <<hung, lock, stream, running, job, left>>

ShutdownCall(t) ==
    /\ pc[t] = "ensure" /\ job[t] = "shutdown"
    /\ Fail(t)

(* mqtt_open_tcp: on error it closes the socket itself. *)
OpenTcp(t) ==
    /\ pc[t] = "open"
    /\ \E f \in Fd \ openFds :
          /\ fd' = f
          /\ openFds' = openFds \cup {f}
          /\ stream' = [stream EXCEPT ![f] = Fresh]
    /\ Goto(t, "connectA")
    /\ UNCHANGED <<hung, lock, connected, running, job, left>>

OpenFails(t) ==
    /\ pc[t] = "open"
    /\ fd' = 0 /\ connected' = FALSE
    /\ Goto(t, "unlock")
    /\ UNCHANGED <<hung, lock, openFds, stream, running, job, left>>

(* mqtt_write_all, first and second half of a packet, to session->fd. *)
WriteHalf(t, packet, next) ==
    /\ stream' = [stream EXCEPT ![fd] =
          IF @.of = "all" /\ (@ = Fresh <=> packet = "CONNECT") THEN Half(t, packet) ELSE Garbled]
    /\ Goto(t, next)
    /\ UNCHANGED <<hung, lock, fd, connected, openFds, running, job>>

WriteRest(t, packet) ==
    /\ stream' = [stream EXCEPT ![fd] = IF @ = Half(t, packet) THEN Whole(packet) ELSE Garbled]
    /\ UNCHANGED <<hung, lock, fd, openFds, running, job>>

SendConnect(t) ==
    \/ /\ pc[t] = "connectA"
       /\ WriteHalf(t, "CONNECT", "connectB")
       /\ UNCHANGED left
    \/ /\ pc[t] = "connectB"
       /\ WriteRest(t, "CONNECT")
       /\ Goto(t, "connack")
       /\ UNCHANGED <<connected, left>>

(* The broker's answer to CONNECT: read() waits for it, without a timeout. *)
Connack(t) ==
    /\ pc[t] = "connack" /\ ~hung
    /\ connected' = TRUE
    /\ Goto(t, IF left[t] = 0 THEN "unlock" ELSE "sendA")
    /\ UNCHANGED <<hung, lock, fd, openFds, stream, running, job, left>>

(* mqtt_send_publish / mqtt_send_ping; replay goes on with its next row. *)
SendPacket(t) ==
    \/ /\ pc[t] = "sendA"
       /\ WriteHalf(t, job[t], "sendB")
       /\ UNCHANGED left
    \/ /\ pc[t] = "sendB"
       /\ WriteRest(t, job[t])
       /\ left' = [left EXCEPT ![t] = @ - 1]
       /\ Goto(t, IF left[t] = 1 THEN "unlock" ELSE "sendA")
       /\ UNCHANGED connected

(* A write or the read of CONNACK fails, or the broker refuses. *)
IoFails(t) ==
    /\ pc[t] \in {"connectA", "connectB", "connack", "sendA", "sendB"}
    /\ ~(pc[t] = "connack" /\ hung)
    /\ Fail(t)

(* The broker process hangs, or its host vanishes without a reset. *)
BrokerHangs ==
    /\ ~hung
    /\ hung' = TRUE
    /\ UNCHANGED <<lock, fd, connected, openFds, stream, running, pc, job, left>>

-----------------------------------------------------------------------------
Step(t) ==
    \/ Unlock(t)
    \/ Reuse(t) \/ SkipPing(t) \/ Reopen(t) \/ ShutdownCall(t)
    \/ OpenTcp(t) \/ OpenFails(t)
    \/ SendConnect(t) \/ Connack(t) \/ SendPacket(t)
    \/ IoFails(t)

Calls ==
    \/ PublishTelemetry
    \/ ReplayPending
    \/ ReplayFetchFails
    \/ Ping
    \/ PublishHeartbeat
    \/ SessionShutdown

Next ==
    \/ Calls
    \/ Stop
    \/ BrokerHangs
    \/ \E t \in Thread : Exit(t) \/ Acquire(t) \/ Step(t)

Spec == Init /\ [][Next]_vars

(* A thread inside a call keeps going (connect() and write() end by        *)
(* themselves; reading CONNACK does not when the broker hangs); a thread   *)
(* waiting for the mutex gets it eventually, as the monitor sleeps between *)
(* rounds and the worker does other work between publishes; main, once     *)
(* asked to stop, goes through with it.                                    *)
Fairness ==
    /\ \A t \in Thread : WF_vars(Step(t)) /\ SF_vars(Acquire(t)) /\ WF_vars(Exit(t))
    /\ WF_vars(Ping) /\ WF_vars(PublishHeartbeat) /\ WF_vars(SessionShutdown)

FairSpec == Spec /\ Fairness

-----------------------------------------------------------------------------
(* Types of the session and of the threads' positions. *)
TypeOK ==
    /\ lock \in Thread \cup {"none"}
    /\ fd \in Fd \cup {0} /\ {connected, hung, running} \subseteq BOOLEAN
    /\ openFds \subseteq Fd
    /\ stream \in [Fd -> [in : Job \cup {"CONNECT", "nothing", "garbage"}, of : Thread \cup {"all"}]]
    /\ pc \in [Thread -> PC] /\ job \in [Thread -> Job]
    /\ left \in [Thread -> 0 .. Batch + 1]

(* What the broker reads on every connection is CONNECT and then whole     *)
(* packets: the packets of worker and monitor never mix, nothing precedes  *)
(* CONNECT, and nothing follows a packet that was cut short.               *)
WholePackets == \A f \in Fd : stream[f] # Garbled

(* No socket is leaked or closed twice over reconnects and failures: the   *)
(* only open socket is the session's.                                      *)
OneSocket == openFds = {fd} \ {0}

(* A packet is only ever written to a socket that is open and, unless it   *)
(* is CONNECT, on which the broker has accepted this session.              *)
WritesGoToLiveSession ==
    \A t \in Thread :
        /\ pc[t] \in {"connectA", "connectB", "connack", "sendA", "sendB"} =>
              lock = t /\ fd \in openFds
        /\ pc[t] \in {"sendA", "sendB"} => connected

(* The session's socket has one owner at a time and is never lost: the     *)
(* three facts together are what every call of the session relies on when  *)
(* it takes the mutex (mqtt_session.c:194-218).                            *)
SocketDiscipline == TypeOK /\ OneSocket /\ WritesGoToLiveSession

(* gateway_app_stop finishes, unless the broker stops answering, and       *)
(* leaves no socket behind although either thread may reconnect until it   *)
(* is joined (app.c:298-302).                                              *)
StopReleases ==
    ~running ~> (hung \/ (pc["main"] = "exited" /\ openFds = {} /\ lock = "none"))
=============================================================================
