-------------------------- MODULE ServerRun_proofs --------------------------
(***************************************************************************)
(* A process that exits with success has finished its operations and closed *)
(* its databases, whatever the operations, the services and the moment of   *)
(* the interruption.  The run drives the document FIFO through its own       *)
(* actions only, so that what GlobalFifo_proofs shows of the FIFO holds here. *)
(***************************************************************************)
EXTENDS ServerRun, GlobalFifo_proofs

USE ServerAssumption

RunTypeOK ==
    /\ FifoTypeOK
    /\ step \in {"plug", "conf", "configured", "init", "upgrade", "reverting", "resolution", "execute",
                 "starting", "ready", "disconnecting", "throwing", "failed", "done"}
    /\ dal \in {"none", "plugged", "open", "late", "closed"} /\ writer \in BOOLEAN
    /\ awaited \in Ops \cup {NoOp}
    /\ closer \in [Caller -> {"no", "waiting", "closing", "closed", "threw"}]
    /\ service \in [Service -> {"off", "starting", "on"}] /\ later \subseteq Service
    /\ exit \in {"no", "ok", "error", "sigint"}

\* Before initDAL, and at the end of a command that needs no database.
Early ==
    \/ step \in {"plug", "conf", "configured", "init"}
    \/ step = "done" /\ command = "configured"

\* Nothing is pushed and no database is open until then.
QuietStart == Early => dal # "open" /\ running = NoOp /\ queue = <<>>

\* Services start after initDAL.
ServicesAfterInit ==
    Early \/ step \in {"upgrade", "reverting", "resolution"} => later = {} /\ \A s \in Service : service[s] = "off"

\* A write out of the FIFO belongs to initDAL or to a command on the databases, which then awaits no operation.
WriterKnown ==
    /\ writer => step \in {"upgrade", "resolution"} \/ (step = "execute" /\ command = "database")
    /\ awaited # NoOp => ~writer /\ (step = "reverting" \/ (step = "execute" /\ command = "database"))

\* The command disconnects once it has ended, and is done when that is; the catch comes last.
CommandDone ==
    /\ command = "configured" => step \in {"plug", "conf", "configured", "throwing", "failed", "done"}
    /\ closer["command"] # "no" => step \in {"disconnecting", "throwing", "failed", "done"}
    /\ closer["catch"] # "no" => step = "failed"
    /\ step = "done" /\ command # "configured" => closer["command"] = "closed"

\* Who disconnects has paused the queue, and closes the databases once nothing runs.
Disconnecting ==
    \A c \in Caller :
        /\ closer[c] # "no" => closing # "open"
        /\ closer[c] \in {"closing", "closed", "threw"} => running = NoOp
        /\ closer[c] = "closed" => dal # "open"

RunInv == RunTypeOK /\ FifoInv /\ QuietStart /\ ServicesAfterInit /\ WriterKnown /\ CommandDone /\ Disconnecting /\ CleanExit


----------------------------------------------------------------------------
(* The FIFO of the run is the FIFO. *)

LEMMA DisconnectIsFifoStep == \A c \in Caller : Disconnect(c) => [FifoNext]_fifoVars
  BY DEF Disconnect, FifoNext

LEMMA RunStepIsFifoStep == [RunNext]_<<fifoVars, runVars>> => [FifoNext]_fifoVars
<1> SUFFICES ASSUME [RunNext]_<<fifoVars, runVars>> PROVE [FifoNext]_fifoVars
  OBVIOUS
<1>1. CASE Interrupt \/ CommandEnds \/ Catch
  BY <1>1, DisconnectIsFifoStep DEF Interrupt, CommandEnds, Catch, Caller
<1>2. CASE Maintain
  BY <1>2 DEF Maintain, FifoNext
<1>3. CASE PushOperation
  BY <1>3 DEF PushOperation, FifoNext
<1>4. ASSUME NEW s \in Service, Submit(s) PROVE [FifoNext]_fifoVars
  BY <1>4 DEF Submit, FifoNext
<1>5. CASE StartTask
  BY <1>5 DEF StartTask, FifoNext
<1>6. ASSUME NEW ok \in BOOLEAN, SettleTask(ok) PROVE [FifoNext]_fifoVars
  BY <1>6 DEF SettleTask, FifoNext
<1>7. ASSUME NEW c \in Caller, CloseDal(c) PROVE UNCHANGED fifoVars
  BY <1>7 DEF CloseDal
<1>8. CASE PlugFileSystem \/ LoadConf \/ ConfiguredExecute \/ OpenDal \/ Resolved \/ WriteItself \/ Returns \/ Throw
  BY <1>8 DEF PlugFileSystem, LoadConf, ConfiguredExecute, OpenDal, Resolved, WriteItself, Returns, Throw
<1>9. CASE \/ StartServices \/ ServicesReady \/ NoInterface \/ ExitProcess
           \/ StartBMA \/ StartWS2P \/ StartCrawler \/ StartRouter \/ StartPeerSignal \/ StartProver
           \/ StopBMA \/ StopWS2P \/ StopCrawler \/ StopRouter \/ StopPeerSignal \/ StopProver
  BY <1>9 DEF StartServices, ServicesReady, NoInterface, ExitProcess, Started, Stopped,
     StartBMA, StartWS2P, StartCrawler, StartRouter, StartPeerSignal, StartProver,
     StopBMA, StopWS2P, StopCrawler, StopRouter, StopPeerSignal, StopProver
<1>10. CASE UNCHANGED <<fifoVars, runVars>>
  BY <1>10
<1> QED BY <1>1, <1>2, <1>3, <1>4, <1>5, <1>6, <1>7, <1>8, <1>9, <1>10 DEF RunNext

----------------------------------------------------------------------------
(* The invariant. *)

LEMMA RunInvInit == RunInit => RunInv
<1> SUFFICES ASSUME RunInit PROVE RunInv
  OBVIOUS
<1>1. FifoInv
  BY FifoInvInit DEF RunInit
<1>2. RunTypeOK
  BY <1>1 DEF RunInit, RunTypeOK, FifoInv, Caller, Service
<1>3. running = NoOp /\ queue = <<>>
  BY DEF RunInit, FifoInit
<1>4. QuietStart /\ ServicesAfterInit /\ WriterKnown /\ CommandDone
  BY <1>3 DEF RunInit, QuietStart, ServicesAfterInit, WriterKnown, CommandDone, Caller
<1>5. Disconnecting /\ CleanExit
  BY DEF RunInit, Disconnecting, CleanExit
<1> QED
  BY <1>1, <1>2, <1>4, <1>5 DEF RunInv

LEMMA RunInvStep == RunInv /\ [RunNext]_<<fifoVars, runVars>> => RunInv'
<1> SUFFICES ASSUME RunInv, [RunNext]_<<fifoVars, runVars>> PROVE RunInv'
  OBVIOUS
<1>0. FifoInv' /\ FifoTypeOK'
  BY RunStepIsFifoStep, FifoInvStep DEF RunInv, FifoInv
<1> USE DEF RunInv, RunTypeOK, Early, QuietStart, ServicesAfterInit, WriterKnown, CommandDone, Disconnecting, CleanExit, OutsideFIFO
<1>1. CASE exit = "no" /\ Interrupt
  BY <1>0, <1>1 DEF Interrupt, Disconnect, Close, fifoVars, Caller, FifoInv, ClosedMeansIdle
<1>2. ASSUME NEW c \in Caller, exit = "no", CloseDal(c) PROVE RunInv'
  BY <1>0, <1>2 DEF CloseDal, fifoVars, Caller
<1>3. CASE exit = "no" /\ (PlugFileSystem \/ LoadConf)
  BY <1>0, <1>3 DEF PlugFileSystem, LoadConf, GoTo, fifoVars, Caller
<1>4. CASE exit = "no" /\ ConfiguredExecute
  BY <1>0, <1>4 DEF ConfiguredExecute, GoTo, fifoVars, Caller
<1>5. CASE exit = "no" /\ OpenDal
  BY <1>0, <1>5 DEF OpenDal, GoTo, fifoVars, Caller
<1>6. CASE exit = "no" /\ Maintain
  BY <1>0, <1>6 DEF Maintain, Push, GoTo, fifoVars, Caller
<1>7. CASE exit = "no" /\ (Resolved \/ WriteItself)
  BY <1>0, <1>7 DEF Resolved, WriteItself, GoTo, fifoVars, Caller
<1>8. CASE exit = "no" /\ PushOperation
  BY <1>0, <1>8 DEF PushOperation, Push, GoTo, fifoVars, Caller
<1>9. CASE exit = "no" /\ CommandEnds
  BY <1>0, <1>9 DEF CommandEnds, Disconnect, Close, GoTo, fifoVars, Caller, FifoInv, ClosedMeansIdle
<1>10. CASE exit = "no" /\ Returns
  BY <1>0, <1>10 DEF Returns, GoTo, fifoVars, Caller
<1>11. CASE exit = "no" /\ Throw
  BY <1>0, <1>11 DEF Throw, GoTo, fifoVars, Caller
<1>12. CASE exit = "no" /\ Catch
  BY <1>0, <1>12 DEF Catch, Disconnect, Close, GoTo, fifoVars, Caller, FifoInv, ClosedMeansIdle
<1>13. CASE exit = "no" /\ StartServices
  BY <1>0, <1>13 DEF StartServices, GoTo, fifoVars, Caller, Service
<1>14. CASE exit = "no" /\ ServicesReady
  BY <1>0, <1>14 DEF ServicesReady, GoTo, fifoVars, Caller, Service
<1>15. ASSUME NEW s \in Service, NEW delayed \in BOOLEAN, exit = "no", Started(s, delayed) PROVE RunInv'
  BY <1>0, <1>15 DEF Started, fifoVars, Caller
<1>16. CASE exit = "no" /\ NoInterface
  BY <1>0, <1>16 DEF NoInterface, fifoVars, Caller, Service
<1>17. ASSUME NEW s \in Service, exit = "no", Stopped(s) PROVE RunInv'
  BY <1>0, <1>17 DEF Stopped, fifoVars, Caller
<1>18. ASSUME NEW s \in Service, exit = "no", Submit(s) PROVE RunInv'
  BY <1>0, <1>18 DEF Submit, Push, fifoVars, Caller
<1>19. CASE exit = "no" /\ StartTask
  BY <1>0, <1>19 DEF StartTask, Start, runVars, Caller
<1>20. ASSUME NEW ok \in BOOLEAN, exit = "no", SettleTask(ok) PROVE RunInv'
  BY <1>0, <1>20 DEF SettleTask, Settle, ClosingAfter, GoTo, Caller
<1>21. CASE exit = "no" /\ ExitProcess
  BY <1>0, <1>21 DEF ExitProcess, fifoVars, Caller
<1>22. CASE UNCHANGED <<fifoVars, runVars>>
  BY <1>0, <1>22 DEF fifoVars, runVars, Caller
<1>23. CASE exit = "no" /\ (StartBMA \/ StartWS2P \/ StartCrawler \/ StartRouter \/ StartPeerSignal \/ StartProver)
  BY <1>15, <1>23 DEF StartBMA, StartWS2P, StartCrawler, StartRouter, StartPeerSignal, StartProver, Service
<1>24. CASE exit = "no" /\ (StopBMA \/ StopWS2P \/ StopCrawler \/ StopRouter \/ StopPeerSignal \/ StopProver)
  BY <1>17, <1>24 DEF StopBMA, StopWS2P, StopCrawler, StopRouter, StopPeerSignal, StopProver, Service
<1> QED
  BY <1>1, <1>2, <1>3, <1>4, <1>5, <1>6, <1>7, <1>8, <1>9, <1>10, <1>11, <1>12, <1>13, <1>14, <1>16, <1>18, <1>19, <1>20, <1>21, <1>22, <1>23, <1>24
  DEF RunNext

(***************************************************************************)
(* disconnect and the handler of SIGINT (src/server.ts:521-526,             *)
(* src/index.ts:311-328): a process that exits with success left no         *)
(* operation half done, and no database open that was open when it was      *)
(* interrupted; only what does not go through the FIFO can be cut.          *)
(***************************************************************************)
THEOREM ExitIsClean == RunSpec => []CleanExit
<1> SUFFICES RunSpec => []RunInv
  BY PTL DEF RunInv
<1> QED BY RunInvInit, RunInvStep, PTL DEF RunSpec

(***************************************************************************)
(* Whatever the command and the services do, they drive the FIFO by its own *)
(* operations (pushFIFOPromise, closeFIFO): in a run of the program the     *)
(* table of ids follows the queue.                                         *)
(***************************************************************************)
THEOREM RunKeepsFifo == RunSpec => FifoInit /\ [][FifoNext]_fifoVars /\ []TableMatchesQueue
<1>1. RunInit => FifoInit
  BY DEF RunInit
<1>2. FifoInv => TableMatchesQueue
  BY DEF FifoInv
<1> QED BY <1>1, <1>2, FifoInvInit, FifoInvStep, RunStepIsFifoStep, PTL DEF RunSpec
=============================================================================
