------------------------------ MODULE Pulling ------------------------------
(***************************************************************************)
(* The pulling of blocks: a node asks the others for the blocks after its  *)
(* head, stores those that follow it, and when a chain differs looks for    *)
(* the last common block by a binary search and stores the branch above.   *)
(* The stored blocks are applied by the resolution that ends the crawl, or  *)
(* by any other one meanwhile.  A block is the path that leads to it, a     *)
(* chain its last block; blocks are numbered from 1.                       *)
(***************************************************************************)
EXTENDS Integers, SequencesExt, FiniteSetsExt

CONSTANTS Remote,       \* nodes pulled from
          Label,        \* what tells two blocks of one parent apart
          Duration,     \* time of a block after its parent, in avgGenTime
          WindowSize,   \* conf.forksize
          Chunk,        \* CRAWL_BLOCK_CHUNK
          HeadAdvance,  \* conf.switchOnHeadAdvance
          MaxLength,    \* bound: length of a chain
          MaxMoves,     \* bound: changes of the remote chains
          StartChains,  \* bound: chains the nodes may start with
          MaxPulls      \* bound: pulls

ASSUME PullingAssumption ==
    /\ Duration \in [Label -> Nat \ {0}]
    /\ {WindowSize, Chunk, HeadAdvance, MaxLength} \subseteq Nat \ {0} /\ {MaxMoves, MaxPulls} \subseteq Nat
    /\ StartChains \subseteq Seq(Label) \ {<<>>}

VARIABLES
    local,      \* local chain
    stored,     \* blocks known out of it
    remote,     \* chains of the remotes
    pull,       \* the pull from each remote
    moved,      \* history: remotes whose chain, or the local one, changed during their pull
    moves,      \* changes of the remote chains
    pulls       \* pulls so far

pullingVars == <<local, stored, remote, pull, moved, moves, pulls>>

Time(b) == FoldLeft(LAMBDA t, l : t + Duration[l], 0, b)
UpTo(c, i) == SubSeq(c, 1, i)
Blocks(c, i, n) == [k \in 1..Max({0, Min({n, Len(c) - i + 1})}) |-> UpTo(c, i + k - 1)]
Has(c, b) == IsPrefix(b, c)
Common(c, d) == CHOOSE b \in {UpTo(c, i) : i \in 1..Len(c)} : Has(d, b) /\ \A i \in Len(b) + 1..Len(c) : ~Has(d, UpTo(c, i))
KnownBlocks == stored \cup {UpTo(local, i) : i \in 1..Len(local)}
InWindow(b) == Len(b) >= Len(local) - WindowSize
Bottom == Max({1, Len(local) - WindowSize})
NoBlock == <<>>

Idle == [stage |-> "idle", seen |-> NoBlock, from |-> 0, apply |-> <<>>, applied |-> "no", got |-> <<>>,
         fork |-> NoBlock, ahead |-> NoBlock, top |-> 0, bottom |-> 0, look |-> NoBlock, mine |-> NoBlock]

\* The changes of a pull.
To(r, p) == pull' = [pull EXCEPT ![r] = p] /\ UNCHANGED <<local, remote, moves, pulls>>
Step(r, p) == To(r, p) /\ UNCHANGED <<stored, moved>>

----------------------------------------------------------------------------
(* New blocks: chunks are downloaded while those before are applied. *)

Pull(r) ==
    /\ pull[r].stage = "idle" /\ pulls < MaxPulls /\ pulls' = pulls + 1
    /\ pull' = [pull EXCEPT ![r] =
         [Idle EXCEPT !.stage = "chunks", !.seen = local, !.from = Len(local) + 1, !.applied = "nothing", !.got = <<NoBlock>>]]
    /\ moved' = moved \ {r}
    /\ UNCHANGED <<local, stored, remote, moves>>

IsFork(p) == Front(p.apply[1]) # p.seen

\* applyCoroutine: the blocks after the head are stored one by one...
ApplyBranch(r) == LET p == pull[r] IN
    /\ p.stage = "chunks" /\ p.applied = "todo" /\ ~IsFork(p)
    /\ IF \A i \in DOMAIN p.apply : p.apply[i] \in KnownBlocks \/ InWindow(p.apply[i])
       THEN /\ To(r, [p EXCEPT !.applied = "written"])
            /\ stored' = stored \cup (ToSet(p.apply) \ KnownBlocks)
       ELSE To(r, [p EXCEPT !.stage = "failed"]) /\ UNCHANGED stored
    /\ UNCHANGED moved

\* ... and looked for at the head, although nothing was resolved: only another resolution brings them there.
ReadCurrent(r) == LET p == pull[r] IN
    /\ p.stage = "chunks" /\ p.applied = "written"
    /\ Step(r, [p EXCEPT !.seen = local, !.applied = IF local = Last(p.apply) THEN "yes" ELSE "no"])

\* Another branch is kept for later, with the head of the remote.
FoundFork(r) == LET p == pull[r] IN
    /\ p.stage = "chunks" /\ p.applied = "todo" /\ IsFork(p)
    /\ Step(r, [p EXCEPT !.applied = "no", !.fork = p.apply[1], !.ahead = remote[r]])

Download(r) == LET p == pull[r] IN
    /\ p.stage = "chunks" /\ p.got = <<NoBlock>>
    /\ Step(r, [p EXCEPT !.got = Blocks(remote[r], p.from, Chunk)])

\* Both are done: the loop goes on while blocks come and apply.
NextChunk(r) == LET p == pull[r] IN
    /\ p.stage = "chunks" /\ p.got # <<NoBlock>> /\ p.applied \in {"nothing", "yes", "no"}
    /\ IF p.got # <<>> /\ p.applied # "no"
       THEN Step(r, [p EXCEPT !.apply = p.got, !.applied = "todo", !.from = @ + Len(p.got), !.got = <<NoBlock>>])
       ELSE Step(r, [p EXCEPT !.stage = "fork"])

----------------------------------------------------------------------------
(* Forks. *)

\* Ahead enough of the head seen last, in blocks and in time.
AheadOf(c, d) == Len(c) - Len(d) >= HeadAdvance /\ Time(c) - Time(d) >= HeadAdvance

FilterFork(r) == LET p == pull[r] IN
    /\ p.stage = "fork"
    /\ IF p.fork # NoBlock /\ AheadOf(p.ahead, p.seen)
       THEN IF Bottom <= Len(remote[r])
            THEN Step(r, [p EXCEPT !.stage = IF UpTo(remote[r], Bottom) = UpTo(local, Bottom) THEN "search" ELSE "done",
                                   !.top = Len(p.fork), !.bottom = Bottom,
                                   !.look = UpTo(remote[r], Bottom), !.mine = UpTo(local, Bottom)])
            ELSE Step(r, [p EXCEPT !.stage = "failed"])
       ELSE Step(r, [p EXCEPT !.stage = "done"])

\* middle: one step below for an odd difference, so as not to forget a block.
MiddleOf(top, bottom) == bottom + (top - bottom + 1) \div 2

\* One round of findCommonRoot: the block looked at is not common; or the one above is not, and the root is
\* found; or it is, and the search goes up.  A missing block throws, and so does a root found in the first round:
\* the position to look at, asked once more after the root is found, is still -1.
Lower(p) == [p EXCEPT !.top = Len(p.look)]

\* mutant: the block looked at is left below the search
UpperPast(p) == [p EXCEPT !.bottom = Len(p.look) + 1]

Upper(p) == [p EXCEPT !.bottom = Len(p.look)]

LookAt(r, p) ==
    LET i == MiddleOf(p.top, p.bottom) IN
    IF p.top = p.bottom + 1 THEN [p EXCEPT !.stage = "done"]
    ELSE IF i > Len(remote[r]) \/ i > Len(local) THEN [p EXCEPT !.stage = "failed"]
    ELSE [p EXCEPT !.look = UpTo(remote[r], i), !.mine = UpTo(local, i)]

FindCommonRoot(r) == LET p == pull[r]  up == Len(p.look) + 1 IN
    /\ p.stage = "search"
    /\ IF p.look # p.mine THEN Step(r, LookAt(r, Lower(p)))
       ELSE IF up > Len(remote[r]) \/ up > Len(local) THEN Step(r, [p EXCEPT !.stage = "failed"])
       ELSE IF UpTo(remote[r], up) = UpTo(local, up) THEN Step(r, LookAt(r, Upper(p)))
       ELSE Step(r, [p EXCEPT !.stage = IF Len(p.look) = p.bottom THEN "failed" ELSE "branch"])

\* The branch above the root, as far as a fork may go, is stored.
FollowFork(r) == LET p == pull[r]  branch == Blocks(remote[r], Len(p.look) + 1, WindowSize) IN
    /\ p.stage = "branch"
    /\ IF \A i \in DOMAIN branch : branch[i] \in KnownBlocks \/ InWindow(branch[i])
       THEN /\ To(r, [p EXCEPT !.stage = "done"])
            /\ stored' = stored \cup (ToSet(branch) \ KnownBlocks)
       ELSE To(r, [p EXCEPT !.stage = "failed"]) /\ UNCHANGED stored
    /\ UNCHANGED moved

EndPull(r) ==
    /\ pull[r].stage \in {"done", "failed"}
    /\ Step(r, Idle)

----------------------------------------------------------------------------
(* The chains change. *)

\* A resolution, by this crawl or by a block received: the head goes up, or to a branch ahead enough.
Follows(c) ==
    LET b == Common(local, c) IN
    /\ c # local /\ \A i \in Len(b) + 1..Len(c) : UpTo(c, i) \in stored
    /\ b = local \/ (AheadOf(c, local) /\ Len(local) - Len(b) <= WindowSize)

Move(c) ==
    /\ local' = c
    /\ stored' = (stored \cup {UpTo(local, i) : i \in Len(Common(local, c)) + 1..Len(local)}) \ {UpTo(c, i) : i \in 1..Len(c)}
    /\ moved' = Remote
    /\ UNCHANGED <<remote, pull, moves, pulls>>

Resolution == \E c \in stored : Follows(c) /\ Move(c)

\* The remote mines a block, or switches to another branch.
RemoteMoves(r) ==
    /\ moves < MaxMoves /\ moves' = moves + 1
    /\ \E l \in Label, back \in 0..1 :
         /\ back < Len(remote[r]) /\ Len(remote[r]) - back < MaxLength
         /\ LET c == Append(UpTo(remote[r], Len(remote[r]) - back), l) IN
            c # remote[r] /\ remote' = [remote EXCEPT ![r] = c]
    /\ moved' = moved \cup {r}
    /\ UNCHANGED <<local, stored, pull, pulls>>

PullingInit ==
    /\ local \in StartChains /\ remote \in [Remote -> StartChains] /\ stored = {}
    /\ \A r \in Remote : local[1] = remote[r][1]
    /\ pull = [r \in Remote |-> Idle] /\ moved = {} /\ moves = 0 /\ pulls = 0

PullingNext ==
    \/ \E r \in Remote :
         \/ Pull(r) \/ ApplyBranch(r) \/ ReadCurrent(r) \/ FoundFork(r) \/ Download(r) \/ NextChunk(r)
         \/ FilterFork(r) \/ FindCommonRoot(r) \/ FollowFork(r) \/ EndPull(r) \/ RemoteMoves(r)
    \/ Resolution

PullingSpec == PullingInit /\ [][PullingNext]_pullingVars

----------------------------------------------------------------------------
PullingTypeOK ==
    /\ {local} \cup stored \subseteq Seq(Label) \ {<<>>} /\ remote \in [Remote -> Seq(Label) \ {<<>>}]
    /\ \A r \in Remote : pull[r].stage \in {"idle", "chunks", "fork", "search", "branch", "done", "failed"}
    /\ moved \subseteq Remote /\ moves \in 0..MaxMoves /\ pulls \in 0..MaxPulls

\* While neither chain changes, a pull only fails on a root that is the lowest block it may look at, the root it
\* finds is the last common block, and it ends with the blocks it should store: the next chunk, or what a fork
\* ahead enough has above a root inside the window.
PullIsComplete ==
    \A r \in Remote \ moved : LET p == pull[r]  c == remote[r]  b == Common(local, c) IN
        /\ p.stage = "failed" => Len(b) = Bottom
        /\ p.stage = "branch" => p.look = b
        /\ p.stage = "done" =>
             IF b = local THEN ToSet(Blocks(c, Len(b) + 1, Chunk)) \subseteq KnownBlocks
             ELSE AheadOf(c, local) /\ Len(b) > Bottom => ToSet(Blocks(c, Len(b) + 1, WindowSize)) \subseteq KnownBlocks
=============================================================================
