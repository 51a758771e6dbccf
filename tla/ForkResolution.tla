--------------------------- MODULE ForkResolution ---------------------------
(***************************************************************************)
(* How a node chooses its chain: the block FIFO of BlockchainService, the   *)
(* resolution of the next block, and the Switcher that follows a better     *)
(* fork, over the two tables of LevelDBBlockchain (main chain and forks).   *)
(*                                                                         *)
(* One step adds or reverts one block (what happens inside one is the       *)
(* subject of BlockStores), so that a restart may fall between any two of   *)
(* them, in the middle of the test of a fork.                              *)
(*                                                                         *)
(* Blocks form a tree given by the constants.  Whether the rules accept a   *)
(* block is a function of the block and of its ancestors, hence the set     *)
(* Valid: a block of Valid is accepted exactly on top of its parent.       *)
(***************************************************************************)
EXTENDS Integers, FiniteSets, Sequences

CONSTANTS
    Blocks,              \* block hashes; the databases list equal numbers by hash
    NoBlock,             \* no block, or a hash that nobody knows
    Number,              \* the number of each block
    Previous,            \* the previousHash of each block
    MedianTime,          \* the median time of each block
    Admissible,          \* the blocks with the node's currency and a correct proof of work
    Valid,               \* the blocks all the other rules accept on top of their parent
    ForkSize,            \* conf.forksize
    SwitchOnHeadAdvance, \* conf.switchOnHeadAdvance
    AvgGenTime,          \* conf.avgGenTime
    MaxPending,          \* bound: operations waiting when a block is submitted
    MaxRestarts,         \* bound: restarts of the node
    MaxCommands          \* bound: manual revert and reapply operations

ASSUME BlocksAssumption ==
    Blocks \subseteq Nat /\ IsFiniteSet(Blocks) /\ NoBlock \in Nat \ Blocks

ASSUME TreeAssumption ==
    /\ Number \in [Blocks -> Nat]
    /\ MedianTime \in [Blocks -> Nat]
    /\ Previous \in [Blocks -> Blocks \cup {NoBlock}]
    /\ \A b \in Blocks : Previous[b] \in Blocks => Number[b] = Number[Previous[b]] + 1

ASSUME RulesAssumption == Admissible \subseteq Blocks /\ Valid \subseteq Blocks

ASSUME ConfAssumption ==
    /\ ForkSize \in Nat \ {0} /\ SwitchOnHeadAdvance \in Nat \ {0}
    /\ AvgGenTime \in Nat
    /\ MaxPending \in Nat /\ MaxRestarts \in Nat /\ MaxCommands \in Nat

(***************************************************************************)
(* The operations of the FIFO, by the id they are pushed under.  The two    *)
(* crawlers (BMA and WS2P) push the same resolution, one id each: PullOp     *)
(* stands for both.                                                        *)
(***************************************************************************)
Submission(b) == <<"block", b>>
Resolution(b) == <<"resolution", b>>
PullOp        == <<"resolution", NoBlock>>
RevertOp      == <<"revertCurrentBlock", NoBlock>>
ApplyOp       == <<"applyNextAvailableFork", NoBlock>>
NoOp          == <<"none", NoBlock>>

Ops == {Submission(b) : b \in Blocks} \cup {Resolution(b) : b \in Blocks}
         \cup {PullOp, RevertOp, ApplyOp}

VARIABLES
    main,         \* level_blockchain: the blocks of the chain, keyed by number
    forks,        \* level_blockchain/forks: the side blocks, keyed by number and hash
    invalidForks, \* BlockchainService.invalidForks
    queue, operations, running,  \* the FIFO
    phase,        \* what the running operation is doing
    current,      \* Switcher: the head when tryToFork began
    suites,       \* Switcher: the suites still to be tested
    suite,        \* Switcher: what is left of the suite under test, or of the chain to switch on
    forkPoint,    \* Switcher: the number of the block that suite forks from
    reverted,     \* Switcher: the blocks popped to test the suite
    successful,   \* Switcher: the blocks of the suite that were added
    longest,      \* Switcher: longestChain
    restarts, commands           \* counters of the bounds

fifo     == <<queue, operations, running>>
tables   == <<main, forks>>
switcher == <<current, suites, suite, forkPoint, reverted, successful, longest>>
bounds   == <<restarts, commands>>
vars     == <<tables, invalidForks, fifo, phase, switcher, bounds>>

Fifo == INSTANCE GlobalFifo WITH closing <- "open"

Phases == {"idle", "task", "blocks", "fork", "pick", "pop", "try", "rollback",
           "restore", "switchPop", "switchAdd"}

TypeOK ==
    /\ main \in SUBSET Blocks /\ forks \in SUBSET Blocks
    /\ invalidForks \in SUBSET Blocks
    /\ queue \in Seq(Ops) /\ operations \in SUBSET Ops
    /\ running \in Ops \cup {NoOp}
    /\ phase \in Phases
    /\ current \in Blocks \cup {NoBlock}
    /\ suites \in SUBSET SUBSET Blocks
    /\ suite \in SUBSET Blocks /\ forkPoint \in Int
    /\ reverted \in SUBSET Blocks /\ successful \in SUBSET Blocks
    /\ longest \in SUBSET Blocks
    /\ restarts \in 0..MaxRestarts /\ commands \in 0..MaxCommands

-----------------------------------------------------------------------------
\* The highest and the lowest block of a set of blocks.
Top(S)  == CHOOSE b \in S : \A c \in S : Number[c] <= Number[b]
Foot(S) == CHOOSE b \in S : \A c \in S : Number[b] <= Number[c]

HeadNumber == IF main = {} THEN -1 ELSE Number[Top(main)]

\* The side blocks the databases list as next: the children of the head, or the roots.
FollowsByNumber(b) == \* mutant: the parent of the block is not looked at
    Number[b] = HeadNumber + 1

Follows(b) ==
    IF main = {} THEN Number[b] = 0 ELSE Previous[b] = Top(main)

Potentials == {b \in forks : Follows(b)}

\* checkAndAddBlock succeeds: the block extends the head and no rule refuses it.
Accepted(b) == Follows(b) /\ b \in Valid

(***************************************************************************)
(* checkAndAddBlock writes the block in the main table, under its number,   *)
(* then removes it from the forks; revertCurrentBlock moves the head back.  *)
(***************************************************************************)
AddKeepingSide(b) ==  \* mutant: the side copy is not deleted
    /\ main' = {c \in main : Number[c] # Number[b]} \cup {b}
    /\ UNCHANGED forks

AddBlock(b) ==
    /\ main' = {c \in main : Number[c] # Number[b]} \cup {b}
    /\ forks' = forks \ {b}

RevertWithoutSide ==  \* mutant: the reverted block is not kept as a side block
    /\ main' = main \ {Top(main)}
    /\ UNCHANGED forks

RevertBlock ==
    /\ main' = main \ {Top(main)}
    /\ forks' = forks \cup {Top(main)}

SwitcherReset ==
    /\ current' = NoBlock /\ suites' = {} /\ suite' = {} /\ forkPoint' = -1
    /\ reverted' = {} /\ successful' = {} /\ longest' = {}

\* The operation is over.  At startup the resolution runs outside the FIFO.
Finish(ok) ==
    /\ phase' = "idle"
    /\ SwitcherReset
    /\ IF running = NoOp THEN UNCHANGED fifo ELSE Fifo!Settle(ok)

-----------------------------------------------------------------------------
(***************************************************************************)
(* The FIFO: documents, timers and commands push, async.queue starts.       *)
(***************************************************************************)
Started == running # NoOp \/ phase = "idle"

Submit(b) ==
    /\ Started /\ Len(queue) < MaxPending
    /\ Fifo!Push(Submission(b))
    /\ UNCHANGED <<tables, invalidForks, phase, switcher, bounds>>

PullResolution ==
    /\ Started
    /\ Fifo!Push(PullOp)
    /\ UNCHANGED <<tables, invalidForks, phase, switcher, bounds>>

Command(op) ==
    /\ Started /\ commands < MaxCommands
    /\ Fifo!Push(op)
    /\ commands' = commands + 1
    /\ UNCHANGED <<tables, invalidForks, phase, switcher, restarts>>

BeginWithoutBlocks == \* mutant: a pulled resolution looks at the forks only
    /\ phase = "idle"
    /\ Fifo!Start
    /\ phase' = IF Head(queue) = PullOp THEN "fork"
                ELSE IF Head(queue)[1] = "resolution" THEN "blocks" ELSE "task"
    /\ UNCHANGED <<tables, invalidForks, switcher, bounds>>

Begin ==
    /\ phase = "idle"
    /\ Fifo!Start
    /\ phase' = IF Head(queue)[1] = "resolution" THEN "blocks" ELSE "task"
    /\ UNCHANGED <<tables, invalidForks, switcher, bounds>>

(***************************************************************************)
(* submitBlock: refuse a foreign or unworked block, one older than the fork *)
(* window, and one already known; keep the others as side blocks.  A block  *)
(* that was pulled is written without resolution (noResolution).            *)
(***************************************************************************)
InForkWindow(b) == main = {} \/ Number[b] >= HeadNumber - ForkSize

Known(b) == b \in main \cup forks

SubmitBlock(b, noResolution) ==
    /\ phase = "task" /\ running = Submission(b)
    /\ phase' = "idle"
    /\ IF b \in Admissible /\ InForkWindow(b) /\ ~Known(b)
       THEN /\ forks' = forks \cup {b}
            /\ IF noResolution
               THEN Fifo!Settle(TRUE)
               ELSE Fifo!SettleAndPush(Resolution(b))
       ELSE /\ forks' = forks
            /\ Fifo!Settle(FALSE)
    /\ UNCHANGED <<main, invalidForks, switcher, bounds>>

\* revertCurrentBlock, the command: it fails on an empty chain.
RevertCurrentBlock ==
    /\ phase = "task" /\ running = RevertOp
    /\ IF main = {} THEN UNCHANGED tables ELSE RevertBlock
    /\ Finish(main # {})
    /\ UNCHANGED <<invalidForks, bounds>>

\* applyNextAvailableFork: only the first of the potential blocks is tried.
ApplyNextAvailableFork ==
    /\ phase = "task" /\ running = ApplyOp
    /\ \/ /\ main # {} /\ Potentials # {}
          /\ LET b == CHOOSE c \in Potentials : \A d \in Potentials : c <= d IN
             IF Accepted(b) THEN AddBlock(b) /\ Finish(TRUE)
             ELSE UNCHANGED tables /\ Finish(FALSE)
       \/ /\ main = {} \/ Potentials = {}
          /\ UNCHANGED tables /\ Finish(FALSE)
    /\ UNCHANGED <<invalidForks, bounds>>

-----------------------------------------------------------------------------
(***************************************************************************)
(* blockResolution: as long as one of the potential next blocks is accepted,*)
(* add it (the first one, in the order of the database) and forget which    *)
(* forks were found invalid.                                               *)
(***************************************************************************)
BlockResolution ==
    /\ phase = "blocks"
    /\ \E b \in Potentials :
        /\ Accepted(b)
        /\ \A c \in Potentials : c < b => ~Accepted(c)
        /\ AddBlock(b)
    /\ invalidForks' = {}
    /\ UNCHANGED <<fifo, phase, switcher, bounds>>

NoBlockAccepted ==
    /\ phase = "blocks"
    /\ \A b \in Potentials : ~Accepted(b)
    /\ phase' = "fork"
    /\ UNCHANGED <<tables, invalidForks, fifo, switcher, bounds>>

-----------------------------------------------------------------------------
(***************************************************************************)
(* findPotentialSuites.  A suite goes from a side block far enough ahead    *)
(* down to a block whose parent is in the main chain, through known side    *)
(* blocks that are not marked invalid (its own head is not looked up in     *)
(* invalidForks), within the fork window.  getBlockchainBlock ignores the   *)
(* hash of block #0.                                                       *)
(***************************************************************************)
Rooted(b) ==
    IF Number[b] > 1 THEN Previous[b] \in main
    ELSE Number[b] = 1 /\ \E r \in main : Number[r] = 0

NumberStart(head) == Number[head] + SwitchOnHeadAdvance
TimeStart(head)   == MedianTime[head] + SwitchOnHeadAdvance * AvgGenTime

AnyAdvance(b, head) == \* mutant: the advance in blocks is forgotten
    Number[b] >= Number[head] /\ MedianTime[b] >= MedianTime[head]

FarEnough(b, head) == Number[b] >= NumberStart(head) /\ MedianTime[b] >= TimeStart(head)

IsShortSuite(S, h) == \* mutant: the walk down stops one block too early
    /\ h \in S
    /\ \A b \in S :
        /\ Number[b] \in (Number[h] - ForkSize + 2)..Number[h]
        /\ b # h => b \notin invalidForks /\ \E c \in S : Previous[c] = b
        /\ Rooted(b) \/ Previous[b] \in S
        /\ Rooted(b) => Previous[b] \notin S

IsSuite(S, h) ==
    /\ h \in S
    /\ \A b \in S :
        /\ Number[b] \in (Number[h] - ForkSize + 1)..Number[h]
        /\ b # h => b \notin invalidForks /\ \E c \in S : Previous[c] = b
        /\ Rooted(b) \/ Previous[b] \in S
        /\ Rooted(b) => Previous[b] \notin S

Candidates(head) ==
    {b \in forks : FarEnough(b, head) /\ Number[b] <= NumberStart(head) + ForkSize}

\* A candidate that an already found suite contains does not make one of its own.
PotentialSuites(head) ==
    LET all == {S \in SUBSET forks : \E h \in Candidates(head) : IsSuite(S, h)}
    IN  {S \in all : \A T \in all : S \subseteq T => S = T}

TryToFork ==
    /\ phase = "fork"
    /\ IF main = {}
       THEN Finish(TRUE)
       ELSE /\ phase' = "pick"
            /\ current' = Top(main)
            /\ suites' = PotentialSuites(Top(main))
            /\ UNCHANGED <<fifo, suite, forkPoint, reverted, successful, longest>>
    /\ UNCHANGED <<tables, invalidForks, bounds>>

(***************************************************************************)
(* findLongestChain: for each suite, highest head first, revert to its fork *)
(* point, add as many of its blocks as possible, revert them, and put the   *)
(* original blocks back.  All the blocks tried join invalidForks.           *)
(***************************************************************************)
Before(S, T) ==
    LET s == Top(S)  t == Top(T)
    IN  Number[s] > Number[t] \/ (Number[s] = Number[t] /\ s <= t)

PickAgain ==          \* mutant: the suite that is picked is not taken from the list
    /\ phase = "pick" /\ suites # {}
    /\ LET S == CHOOSE s \in suites : \A t \in suites : Before(s, t) IN
        /\ suite' = S
        /\ forkPoint' = Number[Foot(S)] - 1
    /\ phase' = "pop"
    /\ UNCHANGED <<tables, invalidForks, fifo, current, suites, reverted, successful,
                   longest, bounds>>

PickSuite ==
    /\ phase = "pick" /\ suites # {}
    /\ LET S == CHOOSE s \in suites : \A t \in suites : Before(s, t) IN
        /\ suites' = suites \ {S}
        /\ suite' = S
        /\ forkPoint' = Number[Foot(S)] - 1
    /\ phase' = "pop"
    /\ UNCHANGED <<tables, invalidForks, fifo, current, reverted, successful, longest, bounds>>

PopBlock ==
    /\ phase = "pop" /\ HeadNumber > forkPoint
    /\ reverted' = reverted \cup {Top(main)}
    /\ RevertBlock
    /\ UNCHANGED <<invalidForks, fifo, phase, current, suites, suite, forkPoint,
                   successful, longest, bounds>>

Popped ==
    /\ phase = "pop" /\ HeadNumber <= forkPoint
    /\ phase' = "try"
    /\ UNCHANGED <<tables, invalidForks, fifo, switcher, bounds>>

TryBlock ==
    /\ phase = "try" /\ suite # {}
    /\ Accepted(Foot(suite))
    /\ AddBlock(Foot(suite))
    /\ successful' = successful \cup {Foot(suite)}
    /\ suite' = suite \ {Foot(suite)}
    /\ UNCHANGED <<invalidForks, fifo, phase, current, suites, forkPoint, reverted,
                   longest, bounds>>

EndOfTry ==
    /\ phase = "try"
    /\ suite # {} => ~Accepted(Foot(suite))
    /\ invalidForks' = invalidForks \cup successful
                         \cup (IF suite = {} THEN {} ELSE {Foot(suite)})
    /\ suite' = {}
    /\ phase' = "rollback"
    /\ UNCHANGED <<tables, fifo, current, suites, forkPoint, reverted, successful,
                   longest, bounds>>

Rollback ==
    /\ phase = "rollback" /\ HeadNumber > forkPoint
    /\ RevertBlock
    /\ UNCHANGED <<invalidForks, fifo, phase, switcher, bounds>>

RolledBackTooSoon ==  \* mutant: the first block of the suite is not reverted
    /\ phase = "rollback" /\ HeadNumber <= forkPoint + 1
    /\ phase' = "restore"
    /\ UNCHANGED <<tables, invalidForks, fifo, switcher, bounds>>

RolledBack ==
    /\ phase = "rollback" /\ HeadNumber <= forkPoint
    /\ phase' = "restore"
    /\ UNCHANGED <<tables, invalidForks, fifo, switcher, bounds>>

\* A refusal here escapes findLongestChain and fails the whole operation.
Restore ==
    /\ phase = "restore" /\ reverted # {}
    /\ IF Accepted(Foot(reverted))
       THEN /\ AddBlock(Foot(reverted))
            /\ reverted' = reverted \ {Foot(reverted)}
            /\ UNCHANGED <<fifo, phase, current, suites, suite, forkPoint, successful, longest>>
       ELSE Finish(FALSE) /\ UNCHANGED tables
    /\ UNCHANGED <<invalidForks, bounds>>

Higher(S, T) == S # {} /\ (T # {} => Number[Top(T)] < Number[Top(S)])

Restored ==
    /\ phase = "restore" /\ reverted = {}
    /\ longest' = IF Higher(successful, longest) THEN successful ELSE longest
    /\ successful' = {}
    /\ forkPoint' = -1
    /\ phase' = "pick"
    /\ UNCHANGED <<tables, invalidForks, fifo, current, suites, suite, reverted, bounds>>

(***************************************************************************)
(* tryToFork, phase 3: switch on the longest chain if it respects the rule  *)
(* of advance, otherwise stay.                                             *)
(***************************************************************************)
IsBetter == longest # {} /\ FarEnough(Top(longest), current)

Stay ==
    /\ phase = "pick" /\ suites = {} /\ ~IsBetter
    /\ Finish(TRUE)
    /\ UNCHANGED <<tables, invalidForks, bounds>>

SwitchOnChain ==
    /\ phase = "pick" /\ suites = {} /\ IsBetter
    /\ suite' = longest
    /\ forkPoint' = Number[Foot(longest)] - 1
    /\ phase' = "switchPop"
    /\ UNCHANGED <<tables, invalidForks, fifo, current, suites, reverted, successful,
                   longest, bounds>>

SwitchPop ==
    /\ phase = "switchPop"
    /\ IF HeadNumber > forkPoint
       THEN RevertBlock /\ UNCHANGED phase
       ELSE phase' = "switchAdd" /\ UNCHANGED tables
    /\ UNCHANGED <<invalidForks, fifo, switcher, bounds>>

SwitchAdd ==
    /\ phase = "switchAdd"
    /\ IF suite = {} THEN Finish(TRUE) /\ UNCHANGED tables
       ELSE IF Accepted(Foot(suite))
       THEN /\ AddBlock(Foot(suite))
            /\ suite' = suite \ {Foot(suite)}
            /\ UNCHANGED <<fifo, phase, current, suites, forkPoint, reverted, successful, longest>>
       ELSE Finish(FALSE) /\ UNCHANGED tables
    /\ UNCHANGED <<invalidForks, bounds>>

-----------------------------------------------------------------------------
\* Everything in memory is lost; initDAL resolves blocks and forks before anything else.
Restart ==
    /\ restarts < MaxRestarts
    /\ restarts' = restarts + 1
    /\ Fifo!Reset
    /\ invalidForks' = {}
    /\ SwitcherReset
    /\ phase' = "blocks"
    /\ UNCHANGED <<tables, commands>>

Init ==
    /\ main = {} /\ forks = {} /\ invalidForks = {}
    /\ queue = <<>> /\ operations = {} /\ running = NoOp
    /\ phase = "blocks"
    /\ current = NoBlock /\ suites = {} /\ suite = {} /\ forkPoint = -1
    /\ reverted = {} /\ successful = {} /\ longest = {}
    /\ restarts = 0 /\ commands = 0

SwitcherStep ==
    \/ TryToFork \/ PickSuite \/ PopBlock \/ Popped \/ TryBlock \/ EndOfTry
    \/ Rollback \/ RolledBack \/ Restore \/ Restored
    \/ Stay \/ SwitchOnChain \/ SwitchPop \/ SwitchAdd

\* What the node does by itself once an operation is in the FIFO.
NodeStep ==
    \/ Begin
    \/ \E b \in Blocks, noResolution \in BOOLEAN : SubmitBlock(b, noResolution)
    \/ RevertCurrentBlock \/ ApplyNextAvailableFork
    \/ BlockResolution \/ NoBlockAccepted
    \/ SwitcherStep

Next ==
    \/ \E b \in Blocks : Submit(b)
    \/ PullResolution
    \/ \E op \in {RevertOp, ApplyOp} : Command(op)
    \/ NodeStep
    \/ Restart

(***************************************************************************)
(* Fairness: the event loop runs every callback, so a running operation     *)
(* goes on, and the crawlers' timers never stop.                           *)
(***************************************************************************)
Spec == Init /\ [][Next]_vars /\ WF_vars(NodeStep) /\ WF_vars(PullResolution)
-----------------------------------------------------------------------------
(***************************************************************************)
(* Correctness.                                                            *)
(***************************************************************************)
(***************************************************************************)
(* The chain the node stands on.  Between two tests it is the main table;   *)
(* from the beginning of tryToFork to its end it is still the chain of the   *)
(* block that was current, whatever the main table holds meanwhile.         *)
(***************************************************************************)
IsChain(C, h) ==
    /\ h \in C
    /\ \A b \in C :
        /\ Number[b] <= Number[h]
        /\ Number[b] = 0 \/ Previous[b] \in C
        /\ b # h => \E c \in C : Previous[c] = b

ChainOf(h) == CHOOSE C \in SUBSET (main \cup forks) : IsChain(C, h)

Chain == IF current = NoBlock THEN main ELSE ChainOf(current)

Choice == INSTANCE ChainChoice WITH chain <- Chain, asked <- RevertOp \in operations

(***************************************************************************)
(* BlockchainService with its Switcher implements the choice of the chain:  *)
(* tests of forks are invisible, a switch has the advance that tryToFork     *)
(* documents, and nothing deeper than the fork window ever changes.         *)
(***************************************************************************)
ImplementsChoice == Choice!Spec

(***************************************************************************)
(* At every step of any operation, the main table holds one block per       *)
(* number, each on top of its parent, down to the root, all of them valid.  *)
(***************************************************************************)
MainIsSound == Choice!Sound(main)

(***************************************************************************)
(* The two tables of LevelDBBlockchain never hold the same block            *)
(* (saveBlock deletes the side copy, setSideBlock deletes the main one).    *)
(***************************************************************************)
TablesDisjoint == main \cap forks = {}

(***************************************************************************)
(* No sequence of tests, switches and reverts forgets a block that was      *)
(* accepted: it stays in the chain or beside it.                           *)
(***************************************************************************)
NothingForgotten == [][main \cup forks \subseteq (main \cup forks)']_vars

(***************************************************************************)
(* Once a fork has been tested, putting the original blocks back cannot be  *)
(* refused; once a switch has begun, its blocks cannot be refused.  The      *)
(* Switcher has no other way back: an exception there would leave the node   *)
(* on the fork point.                                                      *)
(***************************************************************************)
NeverHalfway ==
    /\ phase = "restore" /\ reverted # {} => Accepted(Foot(reverted))
    /\ phase = "switchAdd" /\ suite # {} => Accepted(Foot(suite))

(***************************************************************************)
(* tryToFork "try[s] to follow the longest resulting chain that has at least *)
(* both 3 blocks of advance and 3 * avgGenTime of medianTime advance"        *)
(* (Switcher.ts:48): when it declines, no chain of valid side blocks within  *)
(* the fork window has that advance.                                       *)
(***************************************************************************)
ValidFork(S, h) ==
    /\ S \subseteq Valid /\ h \in S
    /\ \A b \in S :
        /\ Number[b] \in (Number[h] - ForkSize + 1)..Number[h]
        /\ b # h => \E c \in S : Previous[c] = b
        /\ Previous[b] \in main \cup S

Declines == phase = "pick" /\ suites = {} /\ ~IsBetter

BestForkFollowed ==
    Declines => \A S \in SUBSET forks : \A h \in Candidates(current) : ~ValidFork(S, h)

(***************************************************************************)
(* Every operation the FIFO accepts ends, fork resolutions included: suites *)
(* are finitely many and each is popped, tried, rolled back and restored.   *)
(***************************************************************************)
OperationsEnd == \A op \in Ops : op \in operations ~> op \notin operations

(***************************************************************************)
(* A known block that the rules accept as the next one does not wait for    *)
(* ever, even when it was pulled without resolution or when the node was     *)
(* restarted before its resolution: it enters the chain, or the head moves.  *)
(***************************************************************************)
NextBlockTaken ==
    \A b \in Blocks : (b \in forks /\ Accepted(b)) ~> ~(b \in forks /\ Accepted(b))
=============================================================================
