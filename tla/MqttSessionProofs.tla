------------------------- MODULE MqttSessionProofs -------------------------
(***************************************************************************)
(* Proofs about MqttSession, for any number of sockets and any size of the *)
(* replayed batch: TLC sees two and two.                                   *)
(***************************************************************************)
EXTENDS MqttSession, TLAPS

(* Between Acquire and Unlock. *)
Inside == {"ensure", "open", "connectA", "connectB", "connack", "sendA", "sendB", "unlock"}

(* The mutex: the thread inside a call is its owner. *)
Mutex == \A t \in Thread : pc[t] \in Inside <=> lock = t

(* What a thread inside a call has made of the connection so far. *)
Progress(t) ==
    /\ pc[t] \in {"open", "connectA", "connectB", "connack"} => connected = FALSE
    /\ pc[t] = "open" => fd = 0
    /\ pc[t] = "connectA" => stream[fd] = Fresh
    /\ pc[t] = "connectB" => stream[fd] = Half(t, "CONNECT")
    /\ pc[t] = "connack" => stream[fd] = Whole("CONNECT")
    /\ pc[t] = "sendB" => stream[fd] = Half(t, job[t])
    /\ pc[t] \in {"sendA", "sendB"} => left[t] > 0

(* A connection that can be reused is between two packets, after CONNECT.  *)
Settled ==
    connected = TRUE /\ fd # 0 /\ (\A t \in Thread : pc[t] # "sendB") =>
        stream[fd].of = "all" /\ stream[fd] # Fresh

(* The inductive invariant.  WholePackets is not inductive: whether a byte *)
(* garbles the stream depends on who has written to it before.             *)
SessionInv ==
    /\ SocketDiscipline /\ WholePackets
    /\ Mutex /\ Settled
    /\ \A t \in Thread : Progress(t)

(* What the broker's parser can be in, and how its states differ. *)
Kind == Job \cup {"CONNECT"}
Parsed == [in : Job \cup {"CONNECT", "nothing", "garbage"}, of : Thread \cup {"all"}]

LEMMA ParserStates ==
    /\ Fresh \in Parsed /\ Fresh # Garbled /\ Fresh.of = "all"
    /\ \A t \in Thread, k \in Kind :
          /\ Half(t, k) \in Parsed /\ Whole(k) \in Parsed
          /\ Half(t, k) # Garbled /\ Whole(k) # Garbled
          /\ Whole(k) # Fresh /\ Whole(k).of = "all"
    /\ "CONNECT" \in Kind /\ "CONNECT" \notin Job
BY DEF Fresh, Garbled, Whole, Half, Parsed, Kind, Job, Thread

LEMMA SessionInit == Init => SessionInv
<1> SUFFICES ASSUME Init PROVE SessionInv
  OBVIOUS
<1>1. stream \in [Fd -> Parsed] /\ WholePackets
  BY ParserStates DEF Init, WholePackets
<1>2. TypeOK
  <2>1. left \in [Thread -> 0 .. Batch + 1]
    BY BatchAssumption DEF Init
  <2>2. lock \in Thread \cup {"none"} /\ pc \in [Thread -> PC] /\ job \in [Thread -> Job]
    BY DEF Init, PC, Job
  <2>3. {connected, hung, running} \subseteq BOOLEAN
    BY DEF Init
  <2>4. QED
    BY <1>1, <2>1, <2>2, <2>3 DEF Init, TypeOK, Parsed
<1>3. OneSocket /\ WritesGoToLiveSession
  BY DEF Init, OneSocket, WritesGoToLiveSession
<1>4. Mutex /\ Settled /\ \A t \in Thread : Progress(t)
  BY DEF Init, Mutex, Settled, Progress, Inside, Thread
<1>5. QED
  BY <1>1, <1>2, <1>3, <1>4 DEF SessionInv, SocketDiscipline

-----------------------------------------------------------------------------
(* A step outside the mutex: no thread inside a call notices. *)
LEMMA OutsideStep ==
    ASSUME SessionInv, TypeOK', UNCHANGED <<lock, fd, connected, openFds, stream>>,
           \A t \in Thread : \/ pc'[t] = pc[t] /\ job'[t] = job[t] /\ left'[t] = left[t]
                             \/ pc[t] \notin Inside /\ pc'[t] \notin Inside
    PROVE  SessionInv'
<1>1. SocketDiscipline' /\ WholePackets'
  BY DEF SessionInv, SocketDiscipline, OneSocket, WritesGoToLiveSession, WholePackets, Inside
<1>2. Mutex'
  BY DEF SessionInv, Mutex
<1>3. Settled'
  BY DEF SessionInv, Settled, Inside
<1>4. ASSUME NEW t \in Thread PROVE Progress(t)'
  BY DEF SessionInv, Progress, Inside
<1>5. QED
  BY <1>1, <1>2, <1>3, <1>4 DEF SessionInv

(* A step of the thread that owns the mutex: the other two are outside, so *)
(* only the owner's own progress needs a look.                             *)
LEMMA InsideStep ==
    ASSUME SessionInv, NEW t \in Thread, pc[t] \in Inside,
           NEW to \in Inside \cup {"idle"}, Goto(t, to),
           lock' = IF to = "idle" THEN "none" ELSE lock,
           UNCHANGED job, TypeOK', OneSocket', WholePackets', Settled', Progress(t)',
           to \in {"connectA", "connectB", "connack", "sendA", "sendB"} => fd' # 0,
           to \in {"sendA", "sendB"} => connected'
    PROVE  SessionInv'
<1>1. lock = t /\ \A u \in Thread \ {t} : pc[u] \notin Inside
  BY DEF SessionInv, Mutex
<1>2. pc'[t] = to /\ \A u \in Thread \ {t} : pc'[u] = pc[u]
  BY DEF SessionInv, SocketDiscipline, TypeOK, Goto
<1>3. Mutex'
  BY <1>1, <1>2 DEF Mutex, Inside, Thread
<1>4. WritesGoToLiveSession'
  <2> SUFFICES ASSUME NEW u \in Thread
               PROVE  /\ pc'[u] \in {"connectA", "connectB", "connack", "sendA", "sendB"} =>
                            lock' = u /\ fd' \in openFds'
                      /\ pc'[u] \in {"sendA", "sendB"} => connected'
    BY DEF WritesGoToLiveSession
  <2>1. CASE u = t
    BY <1>1, <1>2, <2>1 DEF OneSocket
  <2>2. CASE u # t
    BY <1>1, <1>2, <2>2 DEF Inside
  <2>3. QED
    BY <2>1, <2>2
<1>5. ASSUME NEW u \in Thread PROVE Progress(u)'
  BY <1>1, <1>2 DEF Progress, Inside
<1>6. QED
  BY <1>3, <1>4, <1>5 DEF SessionInv, SocketDiscipline


-----------------------------------------------------------------------------
LEMMA SessionNext == SessionInv /\ [Next]_vars => SessionInv'
<1> SUFFICES ASSUME SessionInv, [Next]_vars PROVE SessionInv'
  OBVIOUS
<1> USE FdAssumption, BatchAssumption
<1>0. CASE UNCHANGED vars
  <2>1. TypeOK'
    BY <1>0 DEF vars, SessionInv, SocketDiscipline, TypeOK
  <2>2. QED
    BY <1>0, <2>1, OutsideStep DEF vars
<1>1. ASSUME NEW t \in Thread, NEW kind \in Job, NEW n \in 0 .. Batch + 1, Call(t, kind, n)
      PROVE  SessionInv'
  <2>1. TypeOK'
    BY <1>1 DEF Call, Goto, SessionInv, SocketDiscipline, TypeOK, PC
  <2>2. QED
    BY <1>1, <2>1, OutsideStep DEF Call, Goto, SessionInv, SocketDiscipline, TypeOK, Inside
<1>2. CASE ReplayFetchFails
  <2>1. TypeOK'
    BY <1>2 DEF ReplayFetchFails, SessionInv, SocketDiscipline, TypeOK, Job
  <2>2. QED
    BY <1>2, <2>1, OutsideStep DEF ReplayFetchFails, SessionInv, SocketDiscipline, TypeOK,
       Inside
<1>3. CASE Stop \/ BrokerHangs
  <2>1. TypeOK'
    BY <1>3 DEF Stop, BrokerHangs, SessionInv, SocketDiscipline, TypeOK
  <2>2. QED
    BY <1>3, <2>1, OutsideStep DEF Stop, BrokerHangs
<1>4. ASSUME NEW t \in Thread, Exit(t) PROVE SessionInv'
  <2>1. TypeOK'
    BY <1>4 DEF Exit, Goto, SessionInv, SocketDiscipline, TypeOK, PC
  <2>2. QED
    BY <1>4, <2>1, OutsideStep DEF Exit, Goto, SessionInv, SocketDiscipline, TypeOK, Inside
<1>5. ASSUME NEW t \in Thread, Acquire(t) PROVE SessionInv'
  <2>1. pc'[t] = "ensure" /\ \A u \in Thread \ {t} : pc'[u] = pc[u] /\ pc[u] \notin Inside
    BY <1>5 DEF Acquire, Goto, SessionInv, SocketDiscipline, TypeOK, Mutex, Thread
  <2>2. SocketDiscipline'
    BY <1>5, <2>1 DEF Acquire, Goto, SessionInv, SocketDiscipline, TypeOK, OneSocket,
       WritesGoToLiveSession, PC, Inside
  <2>3. Mutex'
    BY <1>5, <2>1 DEF Acquire, Mutex, Inside
  <2>4. WholePackets' /\ Settled'
    BY <1>5, <2>1 DEF Acquire, SessionInv, WholePackets, Settled, Inside
  <2>5. ASSUME NEW u \in Thread PROVE Progress(u)'
    BY <2>1 DEF Progress, Inside
  <2>6. QED
    BY <2>2, <2>3, <2>4, <2>5 DEF SessionInv
<1>6. ASSUME NEW t \in Thread, Step(t) PROVE SessionInv'
  <2>1. CASE Unlock(t)
    <3>1. TypeOK'
      BY <2>1 DEF Unlock, Goto, SessionInv, SocketDiscipline, TypeOK, PC
    <3>2. OneSocket' /\ WholePackets'
      BY <2>1 DEF Unlock, Goto, SessionInv, SocketDiscipline, OneSocket, WholePackets
    <3>3. Settled' /\ Progress(t)'
      BY <2>1 DEF Unlock, Goto, SessionInv, SocketDiscipline, TypeOK, Settled, Progress
    <3>4. QED
      BY <2>1, <3>1, <3>2, <3>3, InsideStep DEF Unlock, Goto, SessionInv, SocketDiscipline,
         Inside
  <2>2. CASE Reuse(t)
    <3>1. TypeOK'
      BY <2>2 DEF Reuse, Goto, SessionInv, SocketDiscipline, TypeOK, PC
    <3>2. OneSocket' /\ WholePackets'
      BY <2>2 DEF Reuse, Goto, SessionInv, SocketDiscipline, OneSocket, WholePackets
    <3>3. Settled' /\ Progress(t)'
      BY <2>2 DEF Reuse, Goto, SessionInv, SocketDiscipline, TypeOK, Settled, Progress
    <3>4. QED
      BY <2>2, <3>1, <3>2, <3>3, InsideStep DEF Reuse, Goto, SessionInv, SocketDiscipline,
         Inside
  <2>3. CASE SkipPing(t)
    <3>1. TypeOK'
      BY <2>3 DEF SkipPing, Goto, SessionInv, SocketDiscipline, TypeOK, PC
    <3>2. OneSocket' /\ WholePackets'
      BY <2>3 DEF SkipPing, Goto, SessionInv, SocketDiscipline, OneSocket, WholePackets
    <3>3. Settled' /\ Progress(t)'
      BY <2>3 DEF SkipPing, Goto, SessionInv, SocketDiscipline, TypeOK, Settled, Progress
    <3>4. QED
      BY <2>3, <3>1, <3>2, <3>3, InsideStep DEF SkipPing, Goto, SessionInv, SocketDiscipline,
         Inside
  <2>4. CASE Reopen(t)
    <3>1. TypeOK'
      BY <2>4 DEF Reopen, ShutdownLocked, Goto, SessionInv, SocketDiscipline, TypeOK, PC
    <3>2. OneSocket' /\ WholePackets'
      BY <2>4 DEF Reopen, ShutdownLocked, Goto, SessionInv, SocketDiscipline, OneSocket,
         WholePackets
    <3>3. Settled' /\ Progress(t)'
      BY <2>4 DEF Reopen, ShutdownLocked, Goto, SessionInv, SocketDiscipline, TypeOK, Settled,
         Progress
    <3>4. QED
      BY <2>4, <3>1, <3>2, <3>3, InsideStep DEF Reopen, ShutdownLocked, Goto, SessionInv,
         SocketDiscipline, Inside
  <2>5. CASE ShutdownCall(t)
    <3>1. TypeOK'
      BY <2>5 DEF ShutdownCall, Fail, ShutdownLocked, Goto, SessionInv, SocketDiscipline,
         TypeOK, PC
    <3>2. OneSocket' /\ WholePackets'
      BY <2>5 DEF ShutdownCall, Fail, ShutdownLocked, Goto, SessionInv, SocketDiscipline,
         OneSocket, WholePackets
    <3>3. Settled' /\ Progress(t)'
      BY <2>5 DEF ShutdownCall, Fail, ShutdownLocked, Goto, SessionInv, SocketDiscipline,
         TypeOK, Settled, Progress
    <3>4. QED
      BY <2>5, <3>1, <3>2, <3>3, InsideStep DEF ShutdownCall, Fail, ShutdownLocked, Goto,
         SessionInv, SocketDiscipline, Inside
  <2>6. CASE OpenTcp(t)
    <3>1. PICK f \in Fd \ openFds :
            fd' = f /\ openFds' = openFds \cup {f} /\ stream' = [stream EXCEPT ![f] = Fresh]
      BY <2>6 DEF OpenTcp
    <3>2. f \in Fd /\ f # 0 /\ openFds = {} /\ connected = FALSE
      BY <2>6 DEF OpenTcp, SessionInv, SocketDiscipline, OneSocket, Progress
    <3>3. stream' \in [Fd -> Parsed] /\ stream'[f] = Fresh /\ WholePackets'
      BY <3>1, ParserStates DEF SessionInv, SocketDiscipline, TypeOK, WholePackets, Parsed
    <3>4. TypeOK'
      BY <2>6, <3>1, <3>3 DEF OpenTcp, Goto, SessionInv, SocketDiscipline, TypeOK, Parsed, PC
    <3>5. OneSocket'
      BY <3>1, <3>2 DEF OneSocket
    <3>6. Settled' /\ Progress(t)'
      BY <2>6, <3>1, <3>2, <3>3
         DEF OpenTcp, Goto, SessionInv, SocketDiscipline, TypeOK, Settled, Progress
    <3>7. QED
      BY <2>6, <3>1, <3>2, <3>3, <3>4, <3>5, <3>6, InsideStep DEF OpenTcp, Inside
  <2>7. CASE OpenFails(t)
    <3>1. TypeOK'
      BY <2>7 DEF OpenFails, Goto, SessionInv, SocketDiscipline, TypeOK, PC
    <3>2. OneSocket' /\ WholePackets'
      BY <2>7 DEF OpenFails, SessionInv, SocketDiscipline, OneSocket, WholePackets, Progress
    <3>3. Settled' /\ Progress(t)'
      BY <2>7 DEF OpenFails, Goto, SessionInv, SocketDiscipline, TypeOK, Settled, Progress
    <3>4. QED
      BY <2>7, <3>1, <3>2, <3>3, InsideStep DEF OpenFails, Goto, SessionInv, SocketDiscipline,
         Inside
  <2>8. CASE SendConnect(t) /\ pc[t] = "connectA"
    <3>1. fd \in Fd /\ fd # 0 /\ connected = FALSE
      BY <2>8 DEF SessionInv, SocketDiscipline, TypeOK, OneSocket, WritesGoToLiveSession,
         Progress
    <3>2. stream[fd] = Fresh
      BY <2>8, <3>1 DEF SessionInv, SocketDiscipline, WritesGoToLiveSession, Progress
    <3>3. "CONNECT" \in Kind
      BY ParserStates DEF SessionInv, SocketDiscipline, TypeOK, Kind
    <3>4. stream' = [stream EXCEPT ![fd] = Half(t, "CONNECT")]
      BY <2>8, <3>1, <3>2, <3>3, ParserStates DEF SendConnect, WriteHalf, SessionInv,
         SocketDiscipline, TypeOK
    <3>5. stream' \in [Fd -> Parsed] /\ stream'[fd] = Half(t, "CONNECT") /\ WholePackets'
      BY <3>1, <3>3, <3>4, ParserStates DEF SessionInv, SocketDiscipline, TypeOK, WholePackets,
         Parsed
    <3>6. UNCHANGED <<lock, fd, connected, openFds, hung, running, job>>
      BY <2>8 DEF SendConnect, WriteHalf
    <3>7. PICK to \in {"connectB"} : Goto(t, to)
      BY <2>8 DEF SendConnect, WriteHalf
    <3>8. UNCHANGED left
      BY <2>8 DEF SendConnect, WriteHalf
    <3>9. TypeOK'
      BY <3>1, <3>5, <3>6, <3>7, <3>8 DEF Goto, SessionInv, SocketDiscipline, TypeOK, Parsed, PC
    <3>10. OneSocket'
      BY <3>6 DEF SessionInv, SocketDiscipline, OneSocket
    <3>11. pc'[t] = to /\ fd' = fd /\ connected' = connected /\ stream'[fd'] = Half(t, "CONNECT")
      BY <3>5, <3>6, <3>7 DEF Goto, SessionInv, SocketDiscipline, TypeOK
    <3>12. Settled' /\ Progress(t)'
      BY <3>1, <3>3, <3>6, <3>7, <3>8, <3>11, ParserStates
         DEF Settled, Progress, SessionInv, SocketDiscipline, TypeOK
    <3>13. QED
      BY <2>8, <3>1, <3>5, <3>6, <3>7, <3>9, <3>10, <3>12, InsideStep DEF Inside
  <2>9. CASE SendConnect(t) /\ pc[t] = "connectB"
    <3>1. fd \in Fd /\ fd # 0 /\ connected = FALSE
      BY <2>9 DEF SessionInv, SocketDiscipline, TypeOK, OneSocket, WritesGoToLiveSession,
         Progress
    <3>2. stream[fd] = Half(t, "CONNECT")
      BY <2>9, <3>1 DEF SessionInv, SocketDiscipline, WritesGoToLiveSession, Progress
    <3>3. "CONNECT" \in Kind
      BY ParserStates DEF SessionInv, SocketDiscipline, TypeOK, Kind
    <3>4. stream' = [stream EXCEPT ![fd] = Whole("CONNECT")]
      BY <2>9, <3>1, <3>2, <3>3, ParserStates DEF SendConnect, WriteRest, SessionInv,
         SocketDiscipline, TypeOK
    <3>5. stream' \in [Fd -> Parsed] /\ stream'[fd] = Whole("CONNECT") /\ WholePackets'
      BY <3>1, <3>3, <3>4, ParserStates DEF SessionInv, SocketDiscipline, TypeOK, WholePackets,
         Parsed
    <3>6. UNCHANGED <<lock, fd, connected, openFds, hung, running, job>>
      BY <2>9 DEF SendConnect, WriteRest
    <3>7. PICK to \in {"connack"} : Goto(t, to)
      BY <2>9 DEF SendConnect, WriteRest
    <3>8. UNCHANGED left
      BY <2>9 DEF SendConnect, WriteRest
    <3>9. TypeOK'
      BY <3>1, <3>5, <3>6, <3>7, <3>8 DEF Goto, SessionInv, SocketDiscipline, TypeOK, Parsed, PC
    <3>10. OneSocket'
      BY <3>6 DEF SessionInv, SocketDiscipline, OneSocket
    <3>11. pc'[t] = to /\ fd' = fd /\ connected' = connected /\ stream'[fd'] = Whole("CONNECT")
      BY <3>5, <3>6, <3>7 DEF Goto, SessionInv, SocketDiscipline, TypeOK
    <3>12. Settled' /\ Progress(t)'
      BY <3>1, <3>3, <3>6, <3>7, <3>8, <3>11, ParserStates
         DEF Settled, Progress, SessionInv, SocketDiscipline, TypeOK
    <3>13. QED
      BY <2>9, <3>1, <3>5, <3>6, <3>7, <3>9, <3>10, <3>12, InsideStep DEF Inside
  <2>10. CASE Connack(t)
    <3>1. fd # 0 /\ connected' = TRUE /\ stream[fd] = Whole("CONNECT")
      BY <2>10, FdAssumption
         DEF Connack, SessionInv, SocketDiscipline, TypeOK, WritesGoToLiveSession, Progress
    <3>2. TypeOK'
      BY <2>10 DEF Connack, Goto, SessionInv, SocketDiscipline, TypeOK, PC
    <3>3. OneSocket' /\ WholePackets'
      BY <2>10 DEF Connack, SessionInv, SocketDiscipline, OneSocket, WholePackets
    <3>4. Settled'
      BY <2>10, <3>1, ParserStates DEF Connack, Settled
    <3>5. Progress(t)'
      BY <2>10 DEF Connack, Goto, SessionInv, SocketDiscipline, TypeOK, Progress
    <3>6. QED
      BY <2>10, <3>1, <3>2, <3>3, <3>4, <3>5, InsideStep DEF Connack, Inside
  <2>11. CASE SendPacket(t) /\ pc[t] = "sendA"
    <3>1. fd \in Fd /\ fd # 0 /\ connected /\ left[t] \in 1 .. Batch + 1
      BY <2>11 DEF SessionInv, SocketDiscipline, TypeOK, OneSocket, WritesGoToLiveSession,
         Progress
    <3>2. stream[fd].of = "all" /\ stream[fd] # Fresh
      BY <2>11, <3>1 DEF SessionInv, SocketDiscipline, WritesGoToLiveSession, Progress, Settled,
         Mutex, Inside
    <3>3. job[t] \in Kind /\ job[t] # "CONNECT"
      BY ParserStates DEF SessionInv, SocketDiscipline, TypeOK, Kind
    <3>4. stream' = [stream EXCEPT ![fd] = Half(t, job[t])]
      BY <2>11, <3>1, <3>2, <3>3, ParserStates DEF SendPacket, WriteHalf, SessionInv,
         SocketDiscipline, TypeOK
    <3>5. stream' \in [Fd -> Parsed] /\ stream'[fd] = Half(t, job[t]) /\ WholePackets'
      BY <3>1, <3>3, <3>4, ParserStates DEF SessionInv, SocketDiscipline, TypeOK, WholePackets,
         Parsed
    <3>6. UNCHANGED <<lock, fd, connected, openFds, hung, running, job>>
      BY <2>11 DEF SendPacket, WriteHalf
    <3>7. PICK to \in {"sendB"} : Goto(t, to)
      BY <2>11 DEF SendPacket, WriteHalf
    <3>8. UNCHANGED left
      BY <2>11 DEF SendPacket, WriteHalf
    <3>9. TypeOK'
      BY <3>1, <3>5, <3>6, <3>7, <3>8 DEF Goto, SessionInv, SocketDiscipline, TypeOK, Parsed, PC
    <3>10. OneSocket'
      BY <3>6 DEF SessionInv, SocketDiscipline, OneSocket
    <3>11. pc'[t] = to /\ fd' = fd /\ connected' = connected /\ stream'[fd'] = Half(t, job[t])
      BY <3>5, <3>6, <3>7 DEF Goto, SessionInv, SocketDiscipline, TypeOK
    <3>12. Settled' /\ Progress(t)'
      BY <3>1, <3>3, <3>6, <3>7, <3>8, <3>11, ParserStates
         DEF Settled, Progress, SessionInv, SocketDiscipline, TypeOK
    <3>13. QED
      BY <2>11, <3>1, <3>5, <3>6, <3>7, <3>9, <3>10, <3>12, InsideStep DEF Inside
  <2>12. CASE SendPacket(t) /\ pc[t] = "sendB"
    <3>1. fd \in Fd /\ fd # 0 /\ connected /\ left[t] \in 1 .. Batch + 1
      BY <2>12 DEF SessionInv, SocketDiscipline, TypeOK, OneSocket, WritesGoToLiveSession,
         Progress
    <3>2. stream[fd] = Half(t, job[t])
      BY <2>12, <3>1 DEF SessionInv, SocketDiscipline, WritesGoToLiveSession, Progress
    <3>3. job[t] \in Kind /\ job[t] # "CONNECT"
      BY ParserStates DEF SessionInv, SocketDiscipline, TypeOK, Kind
    <3>4. stream' = [stream EXCEPT ![fd] = Whole(job[t])]
      BY <2>12, <3>1, <3>2, <3>3, ParserStates DEF SendPacket, WriteRest, SessionInv,
         SocketDiscipline, TypeOK
    <3>5. stream' \in [Fd -> Parsed] /\ stream'[fd] = Whole(job[t]) /\ WholePackets'
      BY <3>1, <3>3, <3>4, ParserStates DEF SessionInv, SocketDiscipline, TypeOK, WholePackets,
         Parsed
    <3>6. UNCHANGED <<lock, fd, connected, openFds, hung, running, job>>
      BY <2>12 DEF SendPacket, WriteRest
    <3>7. PICK to \in {"unlock", "sendA"} : Goto(t, to) /\ (to = "sendA" => left[t] # 1)
      BY <2>12 DEF SendPacket, WriteRest
    <3>8. left' = [left EXCEPT ![t] = @ - 1]
      BY <2>12 DEF SendPacket, WriteRest
    <3>9. TypeOK'
      BY <3>1, <3>5, <3>6, <3>7, <3>8 DEF Goto, SessionInv, SocketDiscipline, TypeOK, Parsed, PC
    <3>10. OneSocket'
      BY <3>6 DEF SessionInv, SocketDiscipline, OneSocket
    <3>11. pc'[t] = to /\ fd' = fd /\ connected' = connected /\ stream'[fd'] = Whole(job[t])
      BY <3>5, <3>6, <3>7 DEF Goto, SessionInv, SocketDiscipline, TypeOK
    <3>12. Settled' /\ Progress(t)'
      BY <3>1, <3>3, <3>6, <3>7, <3>8, <3>11, ParserStates
         DEF Settled, Progress, SessionInv, SocketDiscipline, TypeOK
    <3>13. QED
      BY <2>12, <3>1, <3>5, <3>6, <3>7, <3>9, <3>10, <3>12, InsideStep DEF Inside
  <2>13. CASE IoFails(t)
    <3>1. TypeOK'
      BY <2>13 DEF IoFails, Fail, ShutdownLocked, Goto, SessionInv, SocketDiscipline, TypeOK, PC
    <3>2. OneSocket' /\ WholePackets'
      BY <2>13 DEF IoFails, Fail, ShutdownLocked, Goto, SessionInv, SocketDiscipline, OneSocket,
         WholePackets
    <3>3. Settled' /\ Progress(t)'
      BY <2>13 DEF IoFails, Fail, ShutdownLocked, Goto, SessionInv, SocketDiscipline, TypeOK,
         Settled, Progress
    <3>4. QED
      BY <2>13, <3>1, <3>2, <3>3, InsideStep DEF IoFails, Fail, ShutdownLocked, Goto,
         SessionInv, SocketDiscipline, Inside
  <2>14. QED
    BY <1>6, <2>1, <2>2, <2>3, <2>4, <2>5, <2>6, <2>7, <2>8, <2>9, <2>10, <2>11, <2>12, <2>13
       DEF Step, SendConnect, SendPacket
<1>7. QED
  <2>1. CASE Calls
    BY <1>1, <1>2, <2>1 DEF Calls, PublishTelemetry, ReplayPending, Ping, PublishHeartbeat,
       SessionShutdown, Job, Thread
  <2>2. QED
    BY <1>0, <1>3, <1>4, <1>5, <1>6, <2>1 DEF Next

LEMMA SessionSpec == Spec => []SessionInv
BY SessionInit, SessionNext, PTL DEF Spec

-----------------------------------------------------------------------------
(* The socket has one owner at a time and is never leaked, through any     *)
(* number of reconnects and failures of the threads that share it.         *)
THEOREM SocketIsDisciplined == Spec => []SocketDiscipline
BY SessionSpec, PTL DEF SessionInv

(* On every connection the broker reads CONNECT and then whole packets,    *)
(* however the writes of worker and monitor interleave and fail.           *)
THEOREM PacketsAreWhole == Spec => []WholePackets
BY SessionSpec, PTL DEF SessionInv
=============================================================================
