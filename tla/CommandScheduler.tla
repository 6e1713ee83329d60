-------------------------- MODULE CommandScheduler --------------------------
(***************************************************************************)
(* src/src/runtime/command_scheduler.c: the queue of commands on their way *)
(* to the PCS.  submit and tick run on one thread; tick hands each command *)
(* to the adapter and then records its outcome, and a crash can separate   *)
(* the two (ControlLoop).  written is a history of what the adapter was    *)
(* given, log is the commands table of storage.c.                          *)
(***************************************************************************)
EXTENDS Integers, Sequences, FiniteSets

CONSTANTS QueueMax,   \* COMMAND_QUEUE_MAX: 32 in the code
          MaxId       \* bound on the command ids explored

ASSUME QueueAssumption == QueueMax \in Nat \ {0}
ASSUME MaxIdAssumption == MaxId \in Nat

VARIABLES queue, nextCommandId,   \* command_scheduler_t
          pending,                \* tick's local array, from the command it works on
          written,                \* commands given to adapter->write_command, with its answer
          log                     \* rows of the commands table

scheduler == <<queue, nextCommandId, pending>>
schedulerVars == <<queue, nextCommandId, pending, written, log>>

SchedulerInit ==
    /\ queue = <<>>
    /\ nextCommandId = 1
    /\ pending = <<>>
    /\ written = <<>>
    /\ log = <<>>

-----------------------------------------------------------------------------
(* Mutant: off by one, the command after the last slot is accepted. *)
FullOffByOne == Len(queue) > QueueMax

(* command_scheduler_submit of a command with id c.id: a full queue refuses *)
(* it, and then no id is used up.                                           *)
Full == Len(queue) >= QueueMax

Submit(c) ==
    /\ pending = <<>>
    /\ LET id == IF c.id = 0 THEN nextCommandId ELSE c.id
       IN  IF Full
           THEN UNCHANGED <<queue, nextCommandId>>
           ELSE /\ nextCommandId' = IF id >= nextCommandId THEN id + 1 ELSE nextCommandId
                /\ queue' = Append(queue, [id |-> id, state |-> "PENDING"])
    /\ UNCHANGED <<pending, written, log>>

(* The copying loop of tick: pending[pending_count++] = queue[i].  Command  *)
(* k of the array is the one with k PENDING commands up to it in the queue. *)
TakePending ==
    LET found == {i \in DOMAIN queue : queue[i].state = "PENDING"}
        Position(i) == Cardinality({j \in found : j <= i})
    IN  [k \in 1 .. Cardinality(found) |-> queue[CHOOSE i \in found : Position(i) = k]]

(* Mutant: the queue is not emptied. *)
TickBeginKeepsQueue ==
    /\ pending = <<>>
    /\ pending' = TakePending
    /\ UNCHANGED <<queue, nextCommandId, written, log>>

(* command_scheduler_tick takes the pending commands and empties the queue. *)
TickBegin ==
    /\ pending = <<>>
    /\ pending' = TakePending
    /\ queue' = <<>>
    /\ UNCHANGED <<nextCommandId, written, log>>

(* Mutant: the adapter's answer is ignored. *)
TickWriteUnchecked(ok) ==
    /\ pending # <<>>
    /\ Head(pending).state = "PENDING"
    /\ written' = Append(written, [id |-> Head(pending).id, ok |-> ok])
    /\ pending' = [pending EXCEPT ![1].state = "VERIFIED"]
    /\ UNCHANGED <<queue, nextCommandId, log>>

(* PENDING -> SENT, the adapter's answer, and FAILED or ACKED -> VERIFIED. *)
TickWrite(ok) ==
    /\ pending # <<>>
    /\ Head(pending).state = "PENDING"
    /\ written' = Append(written, [id |-> Head(pending).id, ok |-> ok])
    /\ pending' = [pending EXCEPT ![1].state = IF ok THEN "VERIFIED" ELSE "FAILED"]
    /\ UNCHANGED <<queue, nextCommandId, log>>

(* storage_append_command, whose failure is ignored, and the next command. *)
TickStore(stored) ==
    /\ pending # <<>>
    /\ Head(pending).state # "PENDING"
    /\ log' = IF stored THEN Append(log, Head(pending)) ELSE log
    /\ pending' = Tail(pending)
    /\ UNCHANGED <<queue, nextCommandId, written>>

(* Callers leave the id to the scheduler (0) or pass its next id.  A new    *)
(* command is PENDING (command_init_setpoint).                              *)
SubmitNew ==
    /\ nextCommandId <= MaxId
    /\ \E id \in {0, nextCommandId} : Submit([id |-> id, state |-> "PENDING"])

SchedulerNext ==
    \/ SubmitNew
    \/ TickBegin
    \/ \E ok \in BOOLEAN : TickWrite(ok)
    \/ \E stored \in BOOLEAN : TickStore(stored)

SchedulerSpec == SchedulerInit /\ [][SchedulerNext]_schedulerVars

-----------------------------------------------------------------------------
Command == [id : 1 .. MaxId, state : {"PENDING", "VERIFIED", "FAILED"}]

(* Types of the queue, the tick's array and the table. *)
SchedulerTypeOK ==
    /\ queue \in Seq(Command) /\ Len(queue) <= QueueMax
    /\ nextCommandId \in 1 .. MaxId + 1
    /\ pending \in Seq(Command) /\ Len(pending) <= QueueMax
    /\ written \in Seq([id : 1 .. MaxId, ok : BOOLEAN])
    /\ log \in Seq(Command)

Ids(s) == [i \in 1 .. Len(s) |-> s[i].id]

(* The commands of the tick that the adapter has not seen yet. *)
Unwritten == IF pending # <<>> /\ Head(pending).state # "PENDING" THEN Tail(pending) ELSE pending

(* No command is lost, repeated or overtaken between submit and the        *)
(* adapter, whatever was refused by a full queue in between: written, then *)
(* waiting in the tick, then queued, they are the ids 1 .. next - 1.       *)
EveryCommandOnceInOrder ==
    Ids(written) \o Ids(Unwritten) \o Ids(queue) = [i \in 1 .. nextCommandId - 1 |-> i]

(* The table tells what the adapter answered: a row is VERIFIED only if    *)
(* the write of that very command succeeded, rows appear in the order of   *)
(* the writes, and a command has at most one row.                          *)
LogIsTruthful ==
    /\ \A i \in DOMAIN log :
          \E j \in DOMAIN written : /\ written[j].id = log[i].id
                                    /\ log[i].state = "VERIFIED" <=> written[j].ok
                                    /\ log[i].state = "FAILED" <=> ~written[j].ok
    /\ \A i, j \in DOMAIN log : i < j => log[i].id < log[j].id
=============================================================================
