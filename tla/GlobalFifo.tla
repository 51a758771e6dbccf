----------------------------- MODULE GlobalFifo -----------------------------
(***************************************************************************)
(* The FIFO of promises through which every service of a node serialises   *)
(* its writes (src/app/service/GlobalFifoPromise.ts): an async.queue of     *)
(* concurrency 1, a table of the operation ids that are queued or running,  *)
(* and the closing a disconnecting server goes through (src/server.ts,      *)
(* disconnect).                                                            *)
(*                                                                         *)
(* An operation is known by its id only: what it does to the node is the    *)
(* business of the module that instantiates this one (ForkResolution).     *)
(***************************************************************************)
EXTENDS Naturals, Sequences

CONSTANTS
    Ops,        \* the ids operations are pushed under
    NoOp        \* no operation is running

ASSUME NoOpAssumption == NoOp \notin Ops

VARIABLES
    queue,      \* the tasks async.queue has not started, first in first out
    operations, \* the ids registered in `operations`
    running,    \* the id of the task async.queue is executing
    closing     \* where closeFIFO is

fifoVars == <<queue, operations, running, closing>>

FifoTypeOK ==
    /\ queue \in Seq(Ops)
    /\ operations \in SUBSET Ops
    /\ running \in Ops \cup {NoOp}
    /\ closing \in {"open", "draining", "closed", "failed"}

FifoInit ==
    /\ queue = <<>>
    /\ operations = {}
    /\ running = NoOp
    /\ closing = "open"

-----------------------------------------------------------------------------
(***************************************************************************)
(* pushFIFOPromise: an id already registered is refused at once, another    *)
(* one is registered and its task queued, even when the queue is paused.    *)
(***************************************************************************)
Refused(op) == op \in operations

PushFirst(op) ==      \* mutant: the last task pushed is the first started
    /\ ~Refused(op)
    /\ operations' = operations \cup {op}
    /\ queue' = <<op>> \o queue
    /\ UNCHANGED <<running, closing>>

Push(op) ==
    /\ ~Refused(op)
    /\ operations' = operations \cup {op}
    /\ queue' = Append(queue, op)
    /\ UNCHANGED <<running, closing>>

\* async.queue takes the next task when it is idle and not paused.
Start ==
    /\ running = NoOp
    /\ queue # <<>>
    /\ closing = "open"
    /\ running' = Head(queue)
    /\ queue' = Tail(queue)
    /\ UNCHANGED <<operations, closing>>

(***************************************************************************)
(* The promise of the running task settles: its id is deleted on both       *)
(* branches, and a closeFIFO that awaits this promise goes on with its      *)
(* value or throws its error.                                              *)
(***************************************************************************)
ClosingAfter(ok) ==
    IF closing # "draining" THEN closing
    ELSE IF ok THEN "closed" ELSE "failed"

SettleIfOk(ok) ==     \* mutant: the id is not deleted when the promise rejects
    /\ running # NoOp
    /\ operations' = IF ok THEN operations \ {running} ELSE operations
    /\ running' = NoOp
    /\ closing' = ClosingAfter(ok)
    /\ UNCHANGED queue

Settle(ok) ==
    /\ running # NoOp
    /\ operations' = operations \ {running}
    /\ running' = NoOp
    /\ closing' = ClosingAfter(ok)
    /\ UNCHANGED queue

\* An operation that pushes another one just before it succeeds (submitBlock).
SettleAndPush(op) ==
    /\ running # NoOp
    /\ operations' = (operations \ {running}) \cup (IF Refused(op) THEN {} ELSE {op})
    /\ queue' = IF Refused(op) THEN queue ELSE Append(queue, op)
    /\ running' = NoOp
    /\ closing' = ClosingAfter(TRUE)

\* closeFIFO pauses the queue, then waits for the current promise if one is pending.
Close ==
    /\ closing = "open"
    /\ closing' = IF running = NoOp THEN "closed" ELSE "draining"
    /\ UNCHANGED <<queue, operations, running>>

\* The process ends and another starts: the queue and its table are memory only.
Reset ==
    /\ queue' = <<>>
    /\ operations' = {}
    /\ running' = NoOp
    /\ closing' = "open"

FifoNext ==
    \/ \E op \in Ops : Push(op)
    \/ Start
    \/ \E ok \in BOOLEAN : Settle(ok)
    \/ \E op \in Ops : SettleAndPush(op)
    \/ Close
    \/ Reset

(***************************************************************************)
(* The event loop runs async.queue again after every task (Start), and      *)
(* every promise the services push settles (Settle).                       *)
(***************************************************************************)
FifoFairness ==
    /\ WF_fifoVars(Start)
    /\ WF_fifoVars(\E ok \in BOOLEAN : Settle(ok))

FifoSpec == FifoInit /\ [][FifoNext]_fifoVars /\ FifoFairness

-----------------------------------------------------------------------------
Queued == {queue[i] : i \in DOMAIN queue}

(***************************************************************************)
(* The table and the queue tell the same story: an id is registered exactly *)
(* while its task waits or runs, and it waits at most once.  An id leaked    *)
(* by an error path would refuse the document for ever; one deleted early    *)
(* would run it twice.                                                     *)
(***************************************************************************)
TableMatchesQueue ==
    /\ operations = Queued \cup ({running} \ {NoOp})
    /\ running \notin Queued
    /\ \A i, j \in DOMAIN queue : queue[i] = queue[j] => i = j

(***************************************************************************)
(* disconnect() closes the databases after closeFIFO: from that moment no   *)
(* task runs, and none of the waiting ones ever starts.                     *)
(***************************************************************************)
ClosedMeansIdle == closing \in {"closed", "failed"} => running = NoOp

(***************************************************************************)
(* Nothing overtakes: an accepted operation settles, however many others    *)
(* are pushed after it, unless the node is being closed.                   *)
(***************************************************************************)
AcceptedSettles ==
    \A op \in Ops : (op \in operations) ~> (op \notin operations \/ closing # "open")
=============================================================================
