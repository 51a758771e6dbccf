----------------------------- MODULE MCServices -----------------------------
(***************************************************************************)
(* One instance for components that do not share their state: the FIFO,    *)
(* alone or in a run of the program, one connection between two nodes, and *)
(* a download.  `focus` picks the one that moves; the others keep their    *)
(* initial state.                                                          *)
(***************************************************************************)
EXTENDS ServerRun, WS2PConnection, SyncDownload

CONSTANTS p1, p2

VARIABLE focus

servicesVars == <<fifoVars, runVars, connectionVars, syncVars, focus>>

\* The purpose of the connection only varies when it is the one that moves; so do the files and the chains of a download.
\* One of the peers follows the chain of the node synchronised on, which has milestones; the other
\* follows another chain, or has wrong blocks; files were saved in the first case only.
ServicesInit ==
    /\ RunInit /\ ConnectionInit /\ SyncInit
    /\ focus \in {"fifo", "run", "connection", "sync"}
    /\ focus # "run" => nobma /\ command = "start"
    /\ focus # "connection" => purpose = "normal"
    /\ paged /\ peerOn[p1] = "main" /\ peerOn[p2] # "main"
    /\ focus # "sync" => root = 0 /\ peerOn[p2] = "fork"
    /\ focus # "sync" \/ peerOn[p2] = "wrong" => \A i \in SyncChunk : file[i] = NoBlocks

ServicesNext ==
    \/ focus = "fifo" /\ FifoNext /\ UNCHANGED <<runVars, connectionVars, syncVars, focus>>
    \/ focus = "run" /\ RunNext /\ UNCHANGED <<connectionVars, syncVars, focus>>
    \/ focus = "connection" /\ ConnectionNext /\ UNCHANGED <<fifoVars, runVars, syncVars, focus>>
    \/ focus = "sync" /\ SyncNext /\ UNCHANGED <<fifoVars, runVars, connectionVars, focus>>

\* FifoFairness, when the FIFO is the one that moves.
FocusOnFifo ==
    /\ WF_fifoVars(focus = "fifo" /\ Start)
    /\ WF_fifoVars(focus = "fifo" /\ \E ok \in BOOLEAN : Settle(ok))

\* RunFairness, when a run of the program is what moves.
FocusOnRun ==
    /\ WF_fifoVars(focus = "run" /\ exit = "no" /\ StartTask)
    /\ WF_fifoVars(focus = "run" /\ exit = "no" /\ \E ok \in BOOLEAN : SettleTask(ok))
    /\ \A c \in Caller : WF_runVars(focus = "run" /\ exit = "no" /\ CloseDal(c))
    /\ WF_runVars(focus = "run" /\ exit = "no" /\ ExitProcess)

\* ConnectionFairness, when the connection is the one that moves.
FocusOnConnection ==
    \A e \in End :
        /\ WF_connectionVars(focus = "connection" /\ Receive(e))
        /\ WF_connectionVars(focus = "connection" /\ Register(e))
        /\ WF_connectionVars(focus = "connection" /\ Timeout(e))

\* SyncFairness, when the download is the one that moves.
FocusOnSync ==
    /\ WF_syncVars(focus = "sync" /\ ValidateCacheLevel) /\ WF_syncVars(focus = "sync" /\ Deliver)
    /\ WF_syncVars(focus = "sync" /\ FinishSync) /\ WF_syncVars(focus = "sync" /\ MilestoneFails)
    /\ \A i \in SyncChunk :
        /\ WF_syncVars(focus = "sync" /\ DownloadMilestone(i)) /\ WF_syncVars(focus = "sync" /\ StartChunk(i))
        /\ WF_syncVars(focus = "sync" /\ Verify(i)) /\ WF_syncVars(focus = "sync" /\ AskPeer(i))
        /\ WF_syncVars(focus = "sync" /\ AnswerTooLong(i))

ServicesSpec ==
    ServicesInit /\ [][ServicesNext]_servicesVars /\ FocusOnFifo /\ FocusOnRun /\ FocusOnConnection /\ FocusOnSync
=============================================================================
