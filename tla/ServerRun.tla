----------------------------- MODULE ServerRun -----------------------------
(***************************************************************************)
(* A run of the program: a command plugs the file system, loads the        *)
(* configuration, opens the databases, brings them back to a sound state,  *)
(* does its work or starts the services, and disconnects; SIGINT and any    *)
(* failure disconnect too, at any time.  The document FIFO is the one of    *)
(* GlobalFifo; a write that does not go through it is a `writer`.           *)
(***************************************************************************)
EXTENDS GlobalFifo

CONSTANTS RevertOp,   \* the operation "revertCurrentHead"
          Documents   \* bound: the operations services submit

ASSUME ServerAssumption == RevertOp \in Ops /\ Documents \subseteq Ops \ {RevertOp}

VARIABLES
    nobma,    \* the configuration: neither BMA nor what goes with it
    command,  \* ends once configured, works on the databases, starts the node, or starts and stops services
    step,     \* of processCommand
    dal,      \* the databases; "late" when SIGINT came before they were opened
    writer,   \* a write outside the FIFO is going on
    awaited,  \* the operation the command waits for
    closer,   \* the calls to disconnect
    service,  \* the services of the modules
    later,    \* those that have started a job their startService did not wait for
    exit      \* how the process exited

runVars == <<nobma, command, step, dal, writer, awaited, closer, service, later, exit>>

Caller == {"command", "catch", "sigint"}
Service == {"bma", "ws2p", "crawler", "router", "peersignal", "prover"}

RunInit ==
    /\ FifoInit
    /\ nobma \in BOOLEAN
    /\ command \in {"configured", "database", "start", "module"}
    /\ step = "plug" /\ dal = "none" /\ writer = FALSE /\ awaited = NoOp
    /\ closer = [c \in Caller |-> "no"]
    /\ service = [s \in Service |-> "off"] /\ later = {}
    /\ exit = "no"

----------------------------------------------------------------------------
(* Disconnection. *)

DisconnectAtOnce(c) ==  \* mutant: the databases are closed without a look at the FIFO
    /\ closer' = [closer EXCEPT ![c] = "closing"]
    /\ UNCHANGED fifoVars

\* closeFIFO: the queue is paused, then the task that runs is waited for.
Disconnect(c) ==
    /\ closer' = [closer EXCEPT ![c] = IF running = NoOp THEN "closing" ELSE "waiting"]
    /\ IF closing = "open" THEN Close ELSE UNCHANGED fifoVars

\* dal.close, if the file system is plugged.
CloseDal(c) ==
    /\ closer[c] = "closing"
    /\ closer' = [closer EXCEPT ![c] = "closed"]
    /\ dal' = IF dal = "none" THEN "none" ELSE "closed"
    /\ UNCHANGED <<fifoVars, nobma, command, step, writer, awaited, service, later, exit>>

Interrupt ==
    /\ closer["sigint"] = "no"
    /\ Disconnect("sigint")
    /\ UNCHANGED <<nobma, command, step, dal, writer, awaited, service, later, exit>>

----------------------------------------------------------------------------
(* The command. *)

GoTo(next) == step' = next

PlugFileSystem ==
    /\ step = "plug"
    /\ dal' = "plugged" /\ GoTo("conf")
    /\ UNCHANGED <<fifoVars, nobma, command, writer, awaited, closer, service, later, exit>>

LoadConf ==
    /\ step = "conf"
    /\ GoTo("configured")
    /\ UNCHANGED <<fifoVars, nobma, command, dal, writer, awaited, closer, service, later, exit>>

\* The configuration is saved; a command that needs no database ends there.
ConfiguredExecute ==
    /\ step = "configured"
    /\ GoTo(IF command = "configured" THEN "done" ELSE "init")
    /\ UNCHANGED <<fifoVars, nobma, command, dal, writer, awaited, closer, service, later, exit>>

\* dal.init opens the databases and upgrades them.
OpenDal ==
    /\ step = "init"
    /\ dal' = (IF closer["sigint"] = "no" THEN "open" ELSE "late") /\ writer' = TRUE /\ GoTo("upgrade")
    /\ UNCHANGED <<fifoVars, nobma, command, awaited, closer, service, later, exit>>

\* Blocks above the indexes are dropped; an index above the blocks is reverted, block after block.
Maintain ==
    /\ step \in {"upgrade", "reverting"} /\ awaited = NoOp
    /\ \/ /\ Push(RevertOp)
          /\ awaited' = RevertOp /\ writer' = FALSE /\ GoTo("reverting")
       \/ writer' = TRUE /\ GoTo("resolution") /\ UNCHANGED <<fifoVars, awaited>>
    /\ UNCHANGED <<nobma, command, dal, closer, service, later, exit>>

\* blockResolution and forkResolution are done; the services are created and piped.
Resolved ==
    /\ step = "resolution"
    /\ writer' = FALSE /\ GoTo("execute")
    /\ UNCHANGED <<fifoVars, nobma, command, dal, awaited, closer, service, later, exit>>

\* A command pushes an operation (revert, reapply), or writes by itself (sync, reset).
PushOperation ==
    /\ step = "execute" /\ command = "database" /\ ~writer /\ awaited = NoOp
    /\ \E op \in Ops : Push(op) /\ awaited' = op
    /\ UNCHANGED <<nobma, command, step, dal, writer, closer, service, later, exit>>
WriteItself ==
    /\ step = "execute" /\ command = "database" /\ awaited = NoOp
    /\ writer' = ~writer
    /\ UNCHANGED <<fifoVars, nobma, command, step, dal, awaited, closer, service, later, exit>>

\* onDatabaseExecute returns; direct_start never does.
CommandEnds ==
    /\ \/ step = "execute" /\ command = "database" /\ ~writer /\ awaited = NoOp
       \/ step = "ready" /\ command = "module" /\ \A s \in Service : service[s] = "off"
    /\ GoTo("disconnecting") /\ Disconnect("command")
    /\ UNCHANGED <<nobma, command, dal, writer, awaited, service, later, exit>>

Returns ==
    /\ step = "disconnecting" /\ closer["command"] \in {"closed", "threw"}
    /\ GoTo(IF closer["command"] = "closed" THEN "done" ELSE "throwing")
    /\ UNCHANGED <<fifoVars, nobma, command, dal, writer, awaited, closer, service, later, exit>>

\* Something throws: the catch disconnects without waiting.
Throw ==
    /\ step \in {"plug", "conf", "configured", "upgrade", "resolution", "execute", "starting"} /\ awaited = NoOp
    /\ GoTo("throwing") /\ writer' = FALSE
    /\ UNCHANGED <<fifoVars, nobma, command, dal, awaited, closer, service, later, exit>>
Catch ==
    /\ step = "throwing"
    /\ GoTo("failed") /\ Disconnect("catch")
    /\ UNCHANGED <<nobma, command, dal, writer, awaited, service, later, exit>>

----------------------------------------------------------------------------
(* The services. *)

StartServices ==
    /\ step = "execute" /\ command \in {"start", "module"}
    /\ GoTo("starting") /\ service' = [s \in Service |-> "starting"]
    /\ UNCHANGED <<fifoVars, nobma, command, dal, writer, awaited, closer, later, exit>>

\* A service is started; `delayed` when it leaves a job behind it.
Started(s, delayed) ==
    /\ service[s] = "starting"
    /\ service' = [service EXCEPT ![s] = "on"]
    /\ later' = IF delayed THEN later \cup {s} ELSE later
    /\ UNCHANGED <<fifoVars, nobma, command, step, dal, writer, awaited, closer, exit>>

\* It listens, or has no interface to listen to.
StartBMA == Started("bma", FALSE)
NoInterface ==
    /\ service["bma"] = "starting" /\ ~nobma
    /\ service' = [service EXCEPT !["bma"] = "off"]
    /\ step' = IF step = "starting" THEN "throwing" ELSE step
    /\ UNCHANGED <<fifoVars, nobma, command, dal, writer, awaited, closer, later, exit>>
\* It listens, by hand or after the search of a gateway; the first connections and the first pull are not awaited.
StartWS2P == Started("ws2p", TRUE)
\* The peers are crawled and tested; the first pulls of blocks and of documents are not awaited.
StartCrawler == Started("crawler", ~nobma)
StartRouter == Started("router", FALSE)
\* The first publication of the peer document is not awaited.
StartPeerSignal == Started("peersignal", TRUE)
StartProver == Started("prover", FALSE)

ServicesReady ==
    /\ step = "starting" /\ \A s \in Service : service[s] = "on"
    /\ GoTo("ready")
    /\ UNCHANGED <<fifoVars, nobma, command, dal, writer, awaited, closer, service, later, exit>>

\* stopService clears the intervals and closes the connections; it does not know of the delayed jobs.
Stopped(s) ==
    /\ step = "ready" /\ command = "module" /\ service[s] = "on"
    /\ service' = [service EXCEPT ![s] = "off"]
    /\ UNCHANGED <<fifoVars, nobma, command, step, dal, writer, awaited, closer, later, exit>>
StopBMA == Stopped("bma")
StopWS2P == Stopped("ws2p")
StopCrawler == Stopped("crawler")
StopRouter == Stopped("router")
StopPeerSignal == Stopped("peersignal")
StopProver == Stopped("prover")

\* An interval, a request, a message or a delayed job submits a document; the router only sends them.
Enabled(s) == s \in {"bma", "crawler"} => ~nobma
Submit(s) ==
    /\ s # "router" /\ Enabled(s)
    /\ service[s] = "on" \/ s \in later
    /\ \E op \in Documents : Push(op)
    /\ later' = later \ {s}
    /\ UNCHANGED <<nobma, command, step, dal, writer, awaited, closer, service, exit>>

----------------------------------------------------------------------------
(* The FIFO. *)

StartTask == Start /\ UNCHANGED runVars

\* Whoever waits for the task goes on: the command, and the calls to disconnect.
SettleTask(ok) ==
    /\ Settle(ok)
    /\ closer' = [c \in Caller |-> IF closer[c] # "waiting" THEN closer[c] ELSE IF ok THEN "closing" ELSE "threw"]
    /\ IF running = awaited THEN awaited' = NoOp /\ GoTo(IF ok THEN step ELSE "throwing") ELSE UNCHANGED <<awaited, step>>
    /\ UNCHANGED <<nobma, command, dal, writer, service, later, exit>>

----------------------------------------------------------------------------
(* The end of the process. *)

ExitIfClosed ==  \* mutant: the handler of SIGINT lets the error of disconnect go
    /\ \/ exit' = "ok" /\ (step = "done" \/ closer["sigint"] = "closed")
       \/ exit' = "error" /\ step = "failed"
    /\ UNCHANGED <<fifoVars, nobma, command, step, dal, writer, awaited, closer, service, later>>

ExitProcess ==
    /\ \/ exit' = "ok" /\ (step = "done" \/ closer["sigint"] = "closed")
       \/ exit' = "sigint" /\ closer["sigint"] = "threw"
       \/ exit' = "error" /\ step = "failed"
    /\ UNCHANGED <<fifoVars, nobma, command, step, dal, writer, awaited, closer, service, later>>

RunNext ==
    /\ exit = "no"
    /\ \/ Interrupt \/ \E c \in Caller : CloseDal(c)
       \/ PlugFileSystem \/ LoadConf \/ ConfiguredExecute \/ OpenDal \/ Maintain \/ Resolved
       \/ PushOperation \/ WriteItself \/ CommandEnds \/ Returns \/ Throw \/ Catch
       \/ StartServices \/ ServicesReady
       \/ StartBMA \/ NoInterface \/ StartWS2P \/ StartCrawler \/ StartRouter \/ StartPeerSignal \/ StartProver
       \/ StopBMA \/ StopWS2P \/ StopCrawler \/ StopRouter \/ StopPeerSignal \/ StopProver
       \/ \E s \in Service : Submit(s)
       \/ StartTask \/ \E ok \in BOOLEAN : SettleTask(ok)
       \/ ExitProcess

\* Tasks settle, and the callbacks of what has ended are called.
RunFairness ==
    /\ WF_fifoVars(exit = "no" /\ StartTask)
    /\ WF_fifoVars(exit = "no" /\ \E ok \in BOOLEAN : SettleTask(ok))
    /\ \A c \in Caller : WF_runVars(exit = "no" /\ CloseDal(c))
    /\ WF_runVars(exit = "no" /\ ExitProcess)

RunSpec == RunInit /\ [][RunNext]_<<fifoVars, runVars>> /\ RunFairness

----------------------------------------------------------------------------
(* Properties. *)

\* SIGINT came while initDAL resolved the blocks or the command wrote by itself: neither is in the FIFO.
OutsideFIFO == closer["sigint"] # "no"

\* A process that exits with success cuts no operation on documents short, waiting ones excepted, and leaves no
\* database open, unless they were not open yet when SIGINT closed them; what an interruption may cut is what does not go through the FIFO (server.ts:522, index.ts:319).
CleanExit ==
    exit = "ok" =>
        /\ running = NoOp
        /\ dal # "open"
        /\ writer => OutsideFIFO

\* SIGINT ends the process, whatever runs when it comes and however it ends (index.ts:311-328).
InterruptEnds == (closer["sigint"] # "no") ~> (exit # "no")
=============================================================================
