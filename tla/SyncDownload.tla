---------------------------- MODULE SyncDownload ----------------------------
(***************************************************************************)
(* The download of the blockchain by a node that synchronises: the top     *)
(* blocks of the chunks (the milestones) come from the node synchronised    *)
(* on, the chunks from saved files, else from any peer.  The last block of  *)
(* a chunk is compared to the milestone and its first one to the chunk      *)
(* below, whose interior (links, versions, hashes) is checked only then.    *)
(*                                                                         *)
(* Two chains leave each other after the block `root`; before it blocks are *)
(* named "main".  Of a chunk are kept the branch of the hash its last block *)
(* announces, that of the hash its first block refers to, and whether its   *)
(* interior is right: only then does the one say anything of the other.     *)
(***************************************************************************)
EXTENDS Integers, SequencesExt, FiniteSetsExt

CONSTANTS Candidate,    \* peers to download from
          ChunkSize,    \* SYNC_BLOCKS_CHUNK
          Target,       \* number of the block synchronised up to
          Roots,        \* bound: last common blocks of the two chains
          PerPage,      \* MILESTONES_PER_PAGE
          TotalPages,   \* pages of milestones the remote node has
          InAdvance,    \* SYNC_CHUNKS_IN_ADVANCE, and the six milestones ahead
          MaxWrong,     \* failures that exclude a peer
          MaxNoNode     \* SYNC_MAX_FAIL_NO_NODE_FOUND

ASSUME SyncAssumption ==
    /\ {ChunkSize, PerPage, InAdvance, MaxWrong, MaxNoNode} \subseteq Nat \ {0}
    /\ {Target, TotalPages} \subseteq Nat /\ Roots \subseteq 0..Target

VARIABLES
    root,       \* last common block of the two chains
    remote,     \* branch of the node synchronised on
    peerOn,     \* branch of each peer, "wrong" when its blocks are not what their hashes say
    file,       \* chunks saved on the disk
    paged,      \* whether the milestones are read by pages
    page,       \* milestones read by pages
    search,     \* bounds of the search of the best saved chunk
    milestone,  \* milestones known
    chunk,      \* download of each chunk
    reserved,   \* chunk each peer is being asked for
    supplier,   \* peer that answered last for each chunk
    wrongs,     \* failures of each peer
    noNode,     \* downloads that found no peer since the last answer
    delivered,  \* chunks handed to the indexers
    syncEnd     \* how the synchronisation ended

syncVars == <<root, remote, peerOn, file, paged, page, search, milestone,
              chunk, reserved, supplier, wrongs, noNode, delivered, syncEnd>>
validatorVars == <<paged, page, search, milestone>>
p2pVars == <<reserved, supplier, wrongs, noNode>>
sourceVars == <<root, peerOn>>

NumberOfChunks == (Target + ChunkSize) \div ChunkSize
SyncChunk == 0..NumberOfChunks - 1
Nothing == "nothing"
NoChunk == -1

TopOf(i) == Min({Target, (i + 1) * ChunkSize - 1})
ChunkOn(branch, i) == IF TopOf(i) <= root THEN "main" ELSE branch

\* The blocks of a chunk of a chain; those of a wrong peer announce any hash, and so may a saved file.
Right(branch, i) == [on |-> ChunkOn(branch, i), below |-> ChunkOn(branch, i - 1), right |-> TRUE]
Wrong(i) == [on : {"main", "fork"}, below : IF i = 0 THEN {"main"} ELSE {"main", "fork"}, right : {FALSE}]
NoBlocks == [on |-> Nothing, below |-> Nothing, right |-> FALSE]
Given(n, i) == IF peerOn[n] = "wrong" THEN Wrong(i) ELSE {Right(peerOn[n], i)}

Fresh == [stage |-> "no", from |-> Nothing, blocks |-> NoBlocks]
Running == syncEnd = "no"
Exit == syncEnd' = "exit"

----------------------------------------------------------------------------
(* The milestones. *)

\* A milestone of the remote node: by pages as long as they are there and hold it, else one by one.  The page
\* asked for the last milestone of a page is the next one, which does not hold it.
PageOf(i) == (i + 1) \div PerPage + 1
InPage(i, p) == i \in (p - 1) * PerPage..p * PerPage - 1
GetMilestone(i) ==
    LET now == ChunkOn(remote, i)  p == PageOf(i)
        read == [k \in SyncChunk |-> IF InPage(k, p) THEN ChunkOn(remote, k) ELSE page[k]]
    IN CASE paged /\ page[i] # Nothing -> /\ milestone' = [milestone EXCEPT ![i] = page[i]]
                                          /\ UNCHANGED <<paged, page>>
         [] paged /\ page[i] = Nothing /\ p <= TotalPages /\ TopOf(i) = (i + 1) * ChunkSize - 1 ->
                /\ page' = read /\ paged' = (read[i] # Nothing)
                /\ milestone' = [milestone EXCEPT ![i] = now]
         [] OTHER -> paged' = FALSE /\ milestone' = [milestone EXCEPT ![i] = now] /\ UNCHANGED page

\* They are handed to the download in order, as soon as they are there.
Pushed == Min({i \in 0..NumberOfChunks : i = NumberOfChunks \/ milestone[i] = Nothing})

\* validateCacheLevel: the best saved chunk in common with the remote node, by a binary search.
WholeSearch == [top |-> NumberOfChunks - 1, bottom |-> -1]
LevelFound == search.top = search.bottom
LevelReached == search.top * ChunkSize - 1
CurrentLevel == LET d == search.top - search.bottom IN search.top - (IF d % 2 = 0 THEN d \div 2 ELSE (d + 1) \div 2 - 1)

ValidateCacheLevel ==
    /\ Running /\ ~LevelFound
    /\ LET i == CurrentLevel - 1 IN
       IF CurrentLevel = 0 THEN search' = [top |-> 0, bottom |-> 0] /\ UNCHANGED <<paged, page, milestone>>
       ELSE /\ GetMilestone(i)
            /\ search' = IF file[i].on = milestone'[i] THEN [search EXCEPT !.bottom = CurrentLevel]
                         ELSE [search EXCEPT !.top = CurrentLevel - 1]
    /\ UNCHANGED <<sourceVars, remote, file, chunk, p2pVars, delivered, syncEnd>>

\* A milestone below the level is read from its file, which may have to be there.
DownloadMilestone(i) ==
    /\ Running /\ LevelFound /\ milestone[i] = Nothing
    /\ i \in Pushed..Pushed + InAdvance /\ (i > 0 => Pushed > 0)
    /\ IF TopOf(i) > LevelReached THEN GetMilestone(i)
       ELSE file[i] # NoBlocks /\ milestone' = [milestone EXCEPT ![i] = file[i].on] /\ UNCHANGED <<paged, page>>
    /\ UNCHANGED <<sourceVars, remote, file, search, chunk, p2pVars, delivered, syncEnd>>

\* After 15 failures the process exits.
MilestoneFails ==
    /\ Running /\ Pushed < NumberOfChunks
    /\ Exit
    /\ UNCHANGED <<sourceVars, remote, file, validatorVars, chunk, p2pVars, delivered>>

----------------------------------------------------------------------------
(* The chunks. *)

To(i, c) == chunk' = [chunk EXCEPT ![i] = c]

\* A chunk is tried once its milestone is there: the saved file first.
StartChunk(i) ==
    /\ Running /\ chunk[i] = Fresh /\ Pushed > i
    /\ i \in Len(delivered)..Len(delivered) + InAdvance /\ (i > 0 => delivered # <<>> /\ chunk[i - 1] # Fresh)
    /\ To(i, IF file[i] # NoBlocks THEN [stage |-> "got", from |-> "file", blocks |-> file[i]] ELSE [Fresh EXCEPT !.stage = "p2p"])
    /\ UNCHANGED <<sourceVars, remote, file, validatorVars, p2pVars, delivered, syncEnd>>

TopIsMilestone(i) == chunk[i].blocks.on = milestone[i]
FollowsBelow(i) == i > 0 => chunk[i].blocks.below = chunk[i - 1].blocks.on
BelowIsRight(i) == i > 0 => chunk[i - 1].blocks.right

\* mutant: the interior of the chunk below is not looked at
CheckEnds(i) == TopIsMilestone(i) /\ FollowsBelow(i)

\* The chunk ends with its milestone and follows the chunk below, of which the interior is now checked: it may have been
\* saved and handed on before.  That of the last chunk never is.
CheckChunk(i) == TopIsMilestone(i) /\ FollowsBelow(i) /\ BelowIsRight(i)

\* The chunk below is waited for.  A chunk that is not right is asked of the peers; a whole one is saved.
Verify(i) ==
    /\ Running /\ chunk[i].stage = "got" /\ (i > 0 => chunk[i - 1].stage = "done")
    /\ IF CheckChunk(i)
       THEN /\ To(i, [chunk[i] EXCEPT !.stage = "done"])
            /\ file' = IF chunk[i].from # "file" /\ TopOf(i) = (i + 1) * ChunkSize - 1
                       THEN [file EXCEPT ![i] = chunk[i].blocks] ELSE file
       ELSE To(i, [Fresh EXCEPT !.stage = "p2p"]) /\ UNCHANGED file
    /\ UNCHANGED <<sourceVars, remote, validatorVars, p2pVars, delivered, syncEnd>>

\* The chunk before the one handed on is forgotten: the one handed on serves to check the next.
Deliver == LET c == Len(delivered) IN
    /\ Running /\ c < NumberOfChunks /\ chunk[c].stage = "done"
    /\ delivered' = Append(delivered, chunk[c].blocks)
    /\ chunk' = IF c > 0 THEN [chunk EXCEPT ![c - 1] = Fresh] ELSE chunk
    /\ UNCHANGED <<sourceVars, remote, file, validatorVars, p2pVars, syncEnd>>

FinishSync ==
    /\ Running /\ Len(delivered) = NumberOfChunks /\ syncEnd' = "finished"
    /\ UNCHANGED <<sourceVars, remote, file, validatorVars, chunk, p2pVars, delivered>>

----------------------------------------------------------------------------
(* The peers. *)

Excluded(n) == wrongs[n] >= MaxWrong
Ready(n) == reserved[n] = NoChunk /\ ~Excluded(n)

\* mutant: the peer that gave the refused chunk is not blamed
BlameNobody(i) == wrongs

\* The last to answer for this chunk was wrong: it is blamed again at each new attempt.
Blame(i) == IF supplier[i] = Nothing THEN wrongs
            ELSE [wrongs EXCEPT ![supplier[i]] = Min({MaxWrong, @ + 1})]

\* A peer that is free is asked; without one the download is tried again, up to a number of times.
AskPeer(i) ==
    /\ Running /\ chunk[i].stage = "p2p" /\ wrongs' = Blame(i)
    /\ LET ready == {n \in Candidate : reserved[n] = NoChunk /\ wrongs'[n] < MaxWrong} IN
       \/ \E n \in ready :
            /\ reserved' = [reserved EXCEPT ![n] = i]
            /\ To(i, [Fresh EXCEPT !.stage = "asked", !.from = n])
            /\ UNCHANGED <<noNode, syncEnd>>
       \/ /\ ready = {} /\ noNode' = noNode + 1 /\ UNCHANGED <<reserved, chunk>>
          /\ IF noNode' >= MaxNoNode THEN Exit ELSE UNCHANGED syncEnd
    /\ UNCHANGED <<sourceVars, remote, file, validatorVars, supplier, delivered>>

\* The answer of a peer, which is empty when it failed five times: a late one only makes its author the last supplier.
Answer(n, whole) == LET i == reserved[n]  waited == chunk[i] = [Fresh EXCEPT !.stage = "asked", !.from = n] IN
    /\ Running /\ i # NoChunk
    /\ reserved' = [reserved EXCEPT ![n] = NoChunk] /\ supplier' = [supplier EXCEPT ![i] = n]
    /\ IF waited
       THEN /\ noNode' = 0
            /\ \E b \in Given(n, i) :
                  To(i, IF whole THEN [stage |-> "got", from |-> n, blocks |-> b] ELSE [Fresh EXCEPT !.stage = "p2p"])
       ELSE UNCHANGED <<noNode, chunk>>
    /\ UNCHANGED <<sourceVars, remote, file, validatorVars, wrongs, delivered, syncEnd>>

AnswerTooLong(i) ==
    /\ Running /\ chunk[i].stage = "asked" /\ To(i, [Fresh EXCEPT !.stage = "p2p"])
    /\ UNCHANGED <<sourceVars, remote, file, validatorVars, p2pVars, delivered, syncEnd>>

----------------------------------------------------------------------------
\* The node synchronised on changes branch.
Reorganise ==
    /\ Running /\ remote = "main" /\ root < Target /\ remote' = "fork"
    /\ UNCHANGED <<sourceVars, file, validatorVars, chunk, p2pVars, delivered, syncEnd>>

\* The files saved by earlier synchronisations: the last may have been interrupted on another branch.  The last chunk
\* each of them saved may be of a wrong interior.
Saved(branch, i, right) == [Right(branch, i) EXCEPT !.right = right]
SavedFiles == {[i \in SyncChunk |-> CASE i < n[1] -> Saved(b[1], i, r[1] \/ i # n[1] - 1)
                                       [] i >= n[1] /\ i < n[2] -> Saved(b[2], i, r[2] \/ i # n[2] - 1)
                                       [] OTHER -> NoBlocks] :
                  n \in {k \in SyncChunk \X SyncChunk : k[1] <= k[2]}, b \in {<<"main", "fork">>, <<"fork", "main">>},
                  r \in BOOLEAN \X BOOLEAN}

SyncInit ==
    /\ root \in Roots /\ remote = "main" /\ peerOn \in [Candidate -> {"main", "fork", "wrong"}]
    /\ file \in SavedFiles
    /\ paged \in BOOLEAN /\ page = [i \in SyncChunk |-> Nothing]
    /\ search = WholeSearch
    /\ milestone = [i \in SyncChunk |-> Nothing]
    /\ chunk = [i \in SyncChunk |-> Fresh]
    /\ reserved = [n \in Candidate |-> NoChunk] /\ supplier = [i \in SyncChunk |-> Nothing]
    /\ wrongs = [n \in Candidate |-> 0] /\ noNode = 0
    /\ delivered = <<>> /\ syncEnd = "no"

SyncNext ==
    \/ ValidateCacheLevel \/ MilestoneFails \/ Deliver \/ FinishSync \/ Reorganise
    \/ \E i \in SyncChunk : DownloadMilestone(i) \/ StartChunk(i) \/ Verify(i) \/ AskPeer(i) \/ AnswerTooLong(i)
    \/ \E n \in Candidate, whole \in BOOLEAN : Answer(n, whole)

\* Promises settle, streams are read and timers fire; nothing is asked of the peers.
SyncFairness ==
    /\ WF_syncVars(ValidateCacheLevel) /\ WF_syncVars(Deliver) /\ WF_syncVars(FinishSync)
    /\ WF_syncVars(MilestoneFails)
    /\ \A i \in SyncChunk : /\ WF_syncVars(DownloadMilestone(i)) /\ WF_syncVars(StartChunk(i))
                            /\ WF_syncVars(Verify(i)) /\ WF_syncVars(AskPeer(i)) /\ WF_syncVars(AnswerTooLong(i))

SyncSpec == SyncInit /\ [][SyncNext]_syncVars /\ SyncFairness

----------------------------------------------------------------------------
\* Each chunk handed to the indexers follows the one before, and all but the last are what their hashes say, whatever the
\* files and the peers give.  Once all are there the last block is that of the node synchronised on, unless it changed
\* meanwhile; so are all the others, except when the interior of the last chunk, never looked at, is wrong.
SyncedChain ==
    /\ \A i \in 2..Len(delivered) : delivered[i - 1].right /\ delivered[i].below = delivered[i - 1].on
    /\ syncEnd = "finished" /\ remote = "main" =>
          /\ delivered[NumberOfChunks].on = "main"
          /\ delivered[NumberOfChunks].right => \A i \in DOMAIN delivered : delivered[i].on = "main"

\* A synchronisation that has begun ends, with the chain or with an exit, even when the peers do not answer, are on another
\* chain, or the node synchronised on changed between two milestones.
SyncEnds == search # WholeSearch ~> ~Running
=============================================================================
