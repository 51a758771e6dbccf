------------------------------- MODULE Prover -------------------------------
(***************************************************************************)
(* The permanent proof of work of a member: the loop of PermanentProver,   *)
(* its canceller, the master of the cluster and its workers.  The main     *)
(* process, the deliveries of its events, each worker and the file pow.txt *)
(* go at their own pace.  A block is the number of changes of HEAD before  *)
(* it: the block proved on head h is h + 1.                                *)
(***************************************************************************)
EXTENDS Naturals, FiniteSets, SequencesExt

CONSTANTS Worker,       \* slaves of the cluster
          MaxHead,      \* bound: changes of HEAD
          ForkWindow,   \* conf.forksize
          MaxStops,     \* bound: stops of the service
          MaxCancels,   \* bound: cancellations and writes of pow.txt in progress
          MaxInbox      \* bound: messages a worker has not read

ASSUME ProverAssumption ==
    /\ IsFiniteSet(Worker) /\ Worker # {}
    /\ {MaxHead, ForkWindow, MaxStops, MaxCancels, MaxInbox} \subseteq Nat

VARIABLES
    head,       \* [num, own]: HEAD, and whether this node issued it
    resolution, \* own block submitted, whose resolution waits in the FIFO (0: none)
    events,     \* bcEvents on their way to the Prover stream
    loop,       \* where the loop of startPermanence is
    continue,   \* continuePromise is resolved
    delay,      \* promiseOfWaitingBetween2BlocksOfOurs
    resolver,   \* what blockchainChangedResolver would resolve
    triggered,  \* cancelAlreadyTriggered
    proof,      \* block being proved, or proved last (0: none)
    last,       \* lastComputedBlock (0: none)
    work,       \* where proveByWorkers is
    current,    \* currentPromise is not null
    overtaken,  \* history: a cancellation came while the proof was being written to pow.txt
    asked,      \* workers whose answer is awaited
    found,      \* the first answer was a proof
    cluster,    \* slaves: "none", "starting", "online"
    cancels,    \* cancellations in progress
    file,       \* content of pow.txt: the block proved, 0 for ""
    blanks,     \* writes of "" to pow.txt in progress (that of a block is in progress in work = "file")
    inbox,      \* messages to each worker
    slave,      \* each worker: block computed, block to compute next, askedStop
    answers,    \* answer of each worker on its way to the master
    stops       \* stops so far

loopVars == <<loop, continue, delay, resolver, triggered, proof, last>>
chainVars == <<head, resolution, events>>
fileVars == <<file, blanks>>
slaveVars == <<inbox, slave, answers>>
workVars == <<work, current, overtaken, asked, found, cluster>>
proverVars == <<loopVars, chainVars, fileVars, slaveVars, workVars, cancels, stops>>

Block == 0..MaxHead + 1
NoAnswer == [block |-> 0, found |-> FALSE]
Idle == [run |-> 0, next |-> 0, stop |-> FALSE]

\* A record of a cancellation: whether it awaits the running proof, and what comes next.
Cancellation == [waits : BOOLEAN, then : {"nothing", "resolve", "shutdown", "kill"}]


----------------------------------------------------------------------------
(* The cluster: cancelling, asking, answering. *)

\* mutant: the cancellation is only sent to the workers
CancelBySignalOnly ==
    /\ inbox' = IF cluster = "none" THEN inbox
                ELSE [w \in Worker |-> Append(inbox[w], [kind |-> "cancel", block |-> 0])]
    /\ UNCHANGED blanks

\* What every cancellation sends: a message to each slave, a write of "".
CancelWorkersWork ==
    /\ inbox' = IF cluster = "none" THEN inbox
                ELSE [w \in Worker |-> Append(inbox[w], [kind |-> "cancel", block |-> 0])]
    /\ blanks' = blanks + 1

\* The instance has room for one more cancellation.
Room ==
    /\ blanks < MaxCancels
    /\ \A w \in Worker : Len(inbox[w]) < MaxInbox

Working == work \in {"file", "online", "asked", "stopping", "orphan"}

\* Does cancelWork, then what follows; before: the cancellations already in progress.
CancelWork(before, then) ==
    /\ CancelWorkersWork
    /\ cancels' = Append(before, [waits |-> current /\ Working /\ work # "file", then |-> then])
    /\ current' = FALSE /\ overtaken' = (overtaken \/ work = "file")

\* The waiting of a cancellation ends with the proof it awaits.
Released == [i \in DOMAIN cancels |-> [cancels[i] EXCEPT !.waits = FALSE]]

\* The unsigned block is ready: engine.prove cancels what runs, and proveByWorkers goes up to its first await.
Prove(block) ==
    /\ Room
    /\ inbox' = IF cluster = "none" THEN inbox
                ELSE [w \in Worker |-> Append(inbox[w], [kind |-> "cancel", block |-> 0])]
    /\ cluster' = IF cluster = "none" THEN "starting" ELSE cluster
    /\ blanks' = blanks + 1
    /\ proof' = block /\ loop' = "proving"
    /\ current' = FALSE /\ overtaken' = FALSE /\ work' = "file"

\* Writes of the same file in progress end in any order.
WriteBlank ==
    /\ blanks > 0 /\ blanks' = blanks - 1 /\ file' = 0
    /\ UNCHANGED <<loopVars, chainVars, slaveVars, workVars, cancels, stops>>

WriteCurrent ==
    /\ work = "file" /\ work' = "online" /\ current' = TRUE /\ file' = proof
    /\ UNCHANGED <<loopVars, chainVars, slaveVars, blanks, overtaken, asked, found, cluster, cancels, stops>>

WorkersOnline ==
    /\ cluster = "starting" /\ cluster' = "online"
    /\ UNCHANGED <<loopVars, chainVars, fileVars, slaveVars, work, current, overtaken, asked, found, cancels, stops>>

\* Workers are online: canceled meanwhile, or each slave is asked; without slaves, nothing answers.
AskWorkers ==
    /\ work = "online" /\ cluster # "starting" /\ current
    /\ \A w \in Worker : Len(inbox[w]) < MaxInbox
    /\ work' = IF cluster = "none" THEN "orphan" ELSE "asked"
    /\ asked' = IF cluster = "none" THEN {} ELSE Worker
    /\ inbox' = IF cluster = "none" THEN inbox
                ELSE [w \in Worker |-> Append(inbox[w], [kind |-> "newPoW", block |-> proof])]
    /\ found' = FALSE
    /\ UNCHANGED <<loopVars, chainVars, fileVars, slave, answers, current, overtaken, cluster, cancels, stops>>

\* The promise of the proof is resolved, and with it the loop and those who await the proof.
EndOfWork(success) ==
    /\ work' = "none" /\ cancels' = Released
    /\ loop' = IF success THEN "submit" ELSE "top"
    /\ last' = IF success THEN proof ELSE last

CanceledInInit ==
    /\ work = "online" /\ cluster # "starting" /\ ~current
    /\ EndOfWork(FALSE)
    /\ UNCHANGED <<chainVars, fileVars, slaveVars, continue, delay, resolver, triggered, proof,
                   current, overtaken, asked, found, cluster, stops>>

\* An answer reaches the master: the first one cancels the others.
Answered(w) ==
    /\ answers[w] # NoAnswer /\ w \in asked
    /\ answers' = [answers EXCEPT ![w] = NoAnswer]
    /\ asked' = asked \ {w}
    /\ \/ /\ work = "asked"
          /\ blanks < MaxCancels
          /\ \A v \in Worker : Len(inbox[v]) < MaxInbox
          /\ CancelWorkersWork
          /\ work' = "stopping" /\ found' = answers[w].found
       \/ /\ work = "stopping"
          /\ UNCHANGED <<inbox, blanks, work, found>>
    /\ UNCHANGED <<loopVars, chainVars, file, slave, current, overtaken, cluster, cancels, stops>>

AllStopped ==
    /\ work = "stopping" /\ asked = {}
    /\ EndOfWork(found)
    /\ UNCHANGED <<chainVars, fileVars, slaveVars, continue, delay, resolver, triggered, proof,
                   current, overtaken, asked, found, cluster, stops>>

----------------------------------------------------------------------------
(* A worker. *)

Receive(w) ==
    /\ inbox[w] # <<>> /\ cluster = "online"
    /\ inbox' = [inbox EXCEPT ![w] = Tail(@)]
    /\ LET m == Head(inbox[w]) IN
       slave' = [slave EXCEPT ![w] =
         CASE m.kind = "newPoW" -> [@ EXCEPT !.next = m.block, !.stop = TRUE]
           [] m.kind = "cancel" -> [@ EXCEPT !.stop = @ \/ slave[w].run # 0]]
    /\ UNCHANGED <<loopVars, chainVars, fileVars, workVars, answers, cancels, stops>>

\* beginNewProofOfWork, once the previous computation is over.
Begin(w) ==
    /\ slave[w].next # 0 /\ slave[w].run = 0
    /\ slave' = [slave EXCEPT ![w] = [run |-> slave[w].next, next |-> 0, stop |-> FALSE]]
    /\ UNCHANGED <<loopVars, chainVars, fileVars, workVars, inbox, answers, cancels, stops>>

\* The end of a turn: the proof goes on only if pow.txt says so.
CheckFile(w) ==
    /\ slave[w].run # 0 /\ file # slave[w].run
    /\ slave' = [slave EXCEPT ![w].stop = TRUE]
    /\ UNCHANGED <<loopVars, chainVars, fileVars, workVars, inbox, answers, cancels, stops>>

\* The computation ends: stopped (null), or with a proof.
Compute(w) ==
    /\ slave[w].run # 0 /\ answers[w] = NoAnswer
    /\ \E ok \in BOOLEAN :
         /\ ok = ~slave[w].stop
         /\ ok => head.num < MaxHead
         /\ answers' = [answers EXCEPT ![w] = [block |-> slave[w].run, found |-> ok]]
    /\ slave' = [slave EXCEPT ![w].run = 0, ![w].stop = FALSE]
    /\ UNCHANGED <<loopVars, chainVars, fileVars, workVars, inbox, cancels, stops>>

----------------------------------------------------------------------------
(* The chain, as the services change it, and what the prover hears of it. *)

\* BlockchainService pushes HEAD_CHANGED: the server emits it at once (`once` of the loop),
\* then pipes it to the Prover.
ChangeHead(own) ==
    /\ head.num < MaxHead
    /\ head' = [num |-> head.num + 1, own |-> own]
    /\ events' = Append(events, head')
    /\ loop' = IF loop = "event" THEN "top" ELSE loop

\* Someone else's block; the FIFO excludes it while a block is generated.
NetworkBlock ==
    /\ loop # "generating"
    /\ ChangeHead(FALSE)
    /\ UNCHANGED <<fileVars, slaveVars, workVars, continue, delay, resolver, triggered, proof, last,
                   resolution, cancels, stops>>

\* The resolution of the block submitted: it becomes HEAD, or is refused, or stays a side block.
ResolveOwn ==
    /\ resolution # 0 /\ resolution' = 0
    /\ \/ resolution = head.num + 1 /\ ChangeHead(TRUE)
       \/ UNCHANGED <<head, events, loop>>
    /\ UNCHANGED <<fileVars, slaveVars, workVars, continue, delay, resolver, triggered, proof, last,
                   cancels, stops>>

\* prover.cancel() does nothing before the first proof or the first stop.
Farm == last # 0 \/ proof # 0 \/ stops > 0

\* The resolver is called: the waiting phase ends, or the canceller cancels the proof once more.
FireResolver(before) ==
    /\ resolver' = IF resolver = "none" THEN "none" ELSE "spent"
    /\ loop' = IF resolver = "wait" /\ loop = "waiting" THEN "top" ELSE loop
    /\ triggered' = (triggered \/ resolver = "canceller")
    /\ IF resolver = "canceller" /\ Farm
       THEN Room /\ CancelWork(before, "nothing")
       ELSE cancels' = before /\ UNCHANGED <<inbox, blanks, current, overtaken>>

\* blockchainChanged, up to its await; nothing for the block this node just computed.
BlockchainChanged ==
    /\ events # <<>> /\ events' = Tail(events)
    /\ LET e == Head(events) IN
       IF e.own /\ e.num = last
       THEN UNCHANGED <<cancels, inbox, blanks, current, overtaken, resolver, loop, triggered>>
       ELSE IF Farm
       THEN Len(cancels) < MaxCancels /\ Room /\ CancelWork(cancels, "resolve") /\ UNCHANGED <<resolver, loop, triggered>>
       ELSE FireResolver(cancels)
    /\ UNCHANGED <<head, resolution, file, slave, answers, continue, delay, proof, last, work,
                   asked, found, cluster, stops>>

\* What was awaited is over.
Canceled(i) ==
    /\ ~cancels[i].waits
    /\ CASE cancels[i].then = "nothing" ->
              cancels' = RemoveAt(cancels, i)
              /\ UNCHANGED <<resolver, loop, triggered, inbox, blanks, current, overtaken, cluster, slave, answers>>
         [] cancels[i].then = "resolve" ->
              FireResolver(RemoveAt(cancels, i)) /\ UNCHANGED <<cluster, slave, answers>>
         [] cancels[i].then = "shutdown" ->
              FireResolver(Append(RemoveAt(cancels, i), [waits |-> FALSE, then |-> "kill"]))
              /\ UNCHANGED <<cluster, slave, answers>>
         [] cancels[i].then = "kill" ->
              /\ cluster # "starting" /\ cluster' = "none"
              /\ cancels' = RemoveAt(cancels, i)
              /\ inbox' = [w \in Worker |-> <<>>] /\ slave' = [w \in Worker |-> Idle]
              /\ answers' = [w \in Worker |-> NoAnswer]
              /\ UNCHANGED <<resolver, loop, triggered, blanks, current, overtaken>>
    /\ UNCHANGED <<chainVars, file, continue, delay, proof, last, work, asked, found, stops>>

----------------------------------------------------------------------------
(* The loop. *)

\* The chain is read: no proof (no member, no root, too high a difficulty), the delay after a block
\* of ours, or a proof, with its canceller.
Check ==
    /\ loop = "top" /\ continue
    /\ \/ /\ loop' = "toWait"
          /\ \/ UNCHANGED delay
             \/ head.own /\ ~delay /\ delay' = TRUE
          /\ UNCHANGED <<resolver, triggered>>
       \/ /\ ~head.own \/ delay
          /\ delay' = FALSE /\ loop' = "queued" /\ resolver' = "canceller" /\ triggered' = FALSE
    /\ UNCHANGED <<chainVars, fileVars, slaveVars, workVars, continue, proof, last, cancels, stops>>

\* The waiting phase sets its resolver after the chain is read: HEAD may change in between.
Wait ==
    /\ loop = "toWait" /\ loop' = "waiting" /\ resolver' = "wait"
    /\ UNCHANGED <<chainVars, fileVars, slaveVars, workVars, continue, delay, triggered, proof, last,
                   cancels, stops>>

\* powDelay or powSecurityRetryDelay.
Timer ==
    /\ loop = "waiting" /\ loop' = "top"
    /\ UNCHANGED <<chainVars, fileVars, slaveVars, workVars, continue, delay, resolver, triggered,
                   proof, last, cancels, stops>>

\* The generation has its turn in the FIFO.
Generate ==
    /\ loop = "queued" /\ loop' = "generating"
    /\ UNCHANGED <<chainVars, fileVars, slaveVars, workVars, continue, delay, resolver, triggered,
                   proof, last, cancels, stops>>

\* Generated on HEAD; or too difficult; or canceled: the loop then submits once more its last block,
\* which is refused as known or too old.
Generated ==
    /\ loop = "generating"
    /\ \/ ~triggered /\ Prove(head.num + 1)
       \/ loop' = "top" /\ UNCHANGED <<inbox, cluster, blanks, proof, current, overtaken, work>>
    /\ UNCHANGED <<chainVars, continue, delay, resolver, triggered, last, asked, found, cancels, file,
                   slave, answers, stops>>

\* The proven block is sent to submitBlock; the listener is set once it is stored.
Submit ==
    /\ loop = "submit"
    /\ IF last + ForkWindow < head.num
       THEN loop' = "top" /\ UNCHANGED resolution
       ELSE loop' = "event" /\ resolution' = last
    /\ UNCHANGED <<head, events, fileVars, slaveVars, workVars, continue, delay, resolver, triggered,
                   proof, last, cancels, stops>>

StopService ==
    /\ stops < MaxStops /\ stops' = stops + 1
    /\ continue /\ continue' = FALSE
    /\ Len(cancels) < MaxCancels /\ Room /\ CancelWork(cancels, "shutdown")
    /\ UNCHANGED <<chainVars, file, slave, answers, loop, delay, resolver, triggered, proof, last,
                   work, asked, found, cluster>>

StartService ==
    /\ ~continue /\ continue' = TRUE
    /\ UNCHANGED <<chainVars, fileVars, slaveVars, workVars, loop, delay, resolver, triggered, proof,
                   last, cancels, stops>>

ProverInit ==
    /\ head = [num |-> 0, own |-> FALSE] /\ resolution = 0 /\ events = <<>>
    /\ loop = "top" /\ continue = FALSE /\ delay = FALSE /\ resolver = "none" /\ triggered = FALSE
    /\ proof = 0 /\ last = 0
    /\ work = "none" /\ current = FALSE /\ overtaken = FALSE /\ asked = {} /\ found = FALSE /\ cluster = "none"
    /\ cancels = <<>> /\ file = 0 /\ blanks = 0
    /\ inbox = [w \in Worker |-> <<>>] /\ slave = [w \in Worker |-> Idle]
    /\ answers = [w \in Worker |-> NoAnswer]
    /\ stops = 0

LoopStep == Check \/ Wait \/ Generate \/ Generated \/ Submit
ClusterStep == WriteCurrent \/ WorkersOnline \/ AskWorkers \/ CanceledInInit \/ AllStopped
WorkerStep(w) == Receive(w) \/ Begin(w) \/ CheckFile(w) \/ Compute(w)

ProverNext ==
    \/ LoopStep \/ ClusterStep \/ ResolveOwn \/ BlockchainChanged \/ Timer \/ NetworkBlock \/ StopService \/ StartService
    \/ WriteBlank
    \/ \E i \in DOMAIN cancels : Canceled(i)
    \/ \E w \in Worker : WorkerStep(w) \/ Answered(w)

(* Fairness: what the event loop of each process does by itself; a proof on HEAD is found in the end. *)
ProverFairness ==
    /\ WF_proverVars(LoopStep) /\ WF_proverVars(Timer)
    /\ WF_proverVars(ClusterStep) /\ WF_proverVars(WriteBlank)
    /\ WF_proverVars(ResolveOwn) /\ WF_proverVars(BlockchainChanged)
    /\ \A i \in 1..MaxCancels + 1 : WF_proverVars(i \in DOMAIN cancels /\ Canceled(i))
    /\ \A w \in Worker : WF_proverVars(WorkerStep(w)) /\ WF_proverVars(Answered(w))

ProverSpec == ProverInit /\ [][ProverNext]_proverVars /\ ProverFairness

----------------------------------------------------------------------------
ProverTypeOK ==
    /\ head \in [num : 0..MaxHead, own : BOOLEAN] /\ resolution \in Block
    /\ events \in Seq([num : 0..MaxHead, own : BOOLEAN])
    /\ loop \in {"top", "toWait", "waiting", "queued", "generating", "proving", "submit", "event"}
    /\ {continue, delay, triggered, current, overtaken, found} \subseteq BOOLEAN
    /\ resolver \in {"none", "wait", "canceller", "spent"}
    /\ {proof, last, file} \subseteq Block
    /\ work \in {"none", "file", "online", "asked", "stopping", "orphan"}
    /\ asked \subseteq Worker /\ cluster \in {"none", "starting", "online"}
    /\ cancels \in Seq(Cancellation) /\ {blanks, stops} \subseteq Nat
    /\ inbox \in [Worker -> Seq([kind : {"cancel", "newPoW"}, block : Block])]
    /\ slave \in [Worker -> [run : Block, next : Block, stop : BOOLEAN]]
    /\ answers \in [Worker -> [block : Block, found : BOOLEAN]]

\* The answer of a worker, on its way to the master, is about the proof that the master awaits: PowWorker
\* takes any answer for that of its last askProof, whatever its uuid.
AnswersMatch ==
    \A w \in Worker : answers[w] # NoAnswer => w \in asked /\ answers[w].block = proof

\* A worker computes on HEAD.
ProvesHead == loop = "proving" /\ proof = head.num + 1 /\ \E w \in Worker : slave[w].run = proof
\* The block submitted did not become HEAD: only another change of HEAD goes on, no timer.
AwaitsBlock == loop = "event" /\ resolution = 0
\* A cancellation came before the write of pow.txt was over: the workers never hear of it.
MissedCancellation == loop = "proving" /\ overtaken
\* The slaves were killed while they were asked, or just before: the proof never ends.
Orphaned == loop = "proving" /\ cluster = "none"

\* The loop of the prover always goes on, or proves on HEAD, but for three corners.
LoopGoesOn == []<>(loop = "top" \/ ProvesHead \/ AwaitsBlock \/ MissedCancellation \/ Orphaned)
=============================================================================
