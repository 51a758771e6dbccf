--------------------------- MODULE Remotes_proofs ---------------------------
(***************************************************************************)
(* What a node does with one remote: the chain it synchronises on, and the   *)
(* connection it opens or accepts.                                         *)
(***************************************************************************)
EXTENDS SyncDownload, WS2PConnection, TLAPS

----------------------------------------------------------------------------
(***************************************************************************)
(* What a synchronisation hands to the indexers is one chain, and the chain  *)
(* of the node synchronised on, for any peers, saved files, number of blocks  *)
(* and size of chunks.                                                     *)
(*                                                                         *)
(* The property speaks of the chunks handed on.  The invariant follows each   *)
(* chunk from its first attempt: once it is done it follows the one below,    *)
(* which stays done until it is handed on and is remembered one step longer.  *)
(***************************************************************************)
Branch == {"main", "fork"}

\* Blocks that are what their hashes say do not come back to the main chain from the other.
Blocks == {b \in [on : Branch, below : Branch, right : BOOLEAN] : b.right /\ b.on = "main" => b.below = "main"}
Follows(below, above) == below.right /\ above.below = below.on

LastChunk == NumberOfChunks - 1

SyncTypeOK ==
    /\ root \in Int /\ remote \in Branch /\ peerOn \in [Candidate -> Branch \cup {"wrong"}]
    /\ file \in [SyncChunk -> Blocks \cup {NoBlocks}]
    /\ paged \in BOOLEAN /\ page \in [SyncChunk -> Branch \cup {Nothing}]
    /\ search \in [top : Int, bottom : Int]
    /\ milestone \in [SyncChunk -> Branch \cup {Nothing}]
    /\ chunk \in [SyncChunk -> [stage : {"no", "p2p", "asked", "got", "done"},
                                from : Candidate \cup {"file", Nothing}, blocks : Blocks \cup {NoBlocks}]]
    /\ reserved \in [Candidate -> SyncChunk \cup {NoChunk}]
    /\ delivered \in Seq(Blocks) /\ Len(delivered) <= NumberOfChunks
    /\ syncEnd \in {"no", "finished", "exit"}

\* The search never goes up to the last chunk.
SearchBounded == search.bottom >= -1 /\ search.bottom <= search.top /\ search.top <= LastChunk

\* As long as the node synchronised on did not change, what was read of it is its chain; the last milestone is always read of it.
MilestonesOfRemote ==
    remote = "main" =>
        /\ \A i \in SyncChunk : page[i] \in {"main", Nothing}
        /\ milestone[LastChunk] \in {"main", Nothing}

\* Where each chunk is with regard to those handed on.
ChunksInOrder ==
    \A i \in SyncChunk :
        /\ i < Len(delivered) - 1 => chunk[i] = Fresh
        /\ i = Len(delivered) - 1 => chunk[i].stage = "done" /\ chunk[i].blocks = delivered[i + 1]
        /\ chunk[i].stage \in {"got", "done"} => chunk[i].blocks \in Blocks
        /\ i >= Len(delivered) /\ chunk[i].stage = "done" /\ i > 0 =>
              chunk[i - 1].stage = "done" /\ Follows(chunk[i - 1].blocks, chunk[i].blocks)

\* The last chunk was compared with its milestone.
LastChecked == remote = "main" /\ chunk[LastChunk].stage = "done" => chunk[LastChunk].blocks.on = "main"

\* Each chunk handed on follows the one before, which is right; one that is right and on the main chain has but it below.
DeliveredChain ==
    /\ \A i \in 2..Len(delivered) : Follows(delivered[i - 1], delivered[i])
    /\ \A i \in 1..Len(delivered) : delivered[i].right /\ delivered[i].on = "main" => \A j \in 1..i : delivered[j].on = "main"
    /\ syncEnd = "finished" => Len(delivered) = NumberOfChunks

SyncInv == SyncTypeOK /\ SearchBounded /\ MilestonesOfRemote /\ ChunksInOrder /\ LastChecked /\ DeliveredChain

----------------------------------------------------------------------------
(* The arithmetic of the chunks. *)

LEMMA Division ==
    ASSUME NEW a \in Nat, NEW b \in Nat \ {0}
    PROVE  (a \div b) \in Nat /\ (a \div b) * b <= a /\ a < ((a \div b) + 1) * b
  BY Z3

LEMMA MinOfTwo == ASSUME NEW a \in Int, NEW b \in Int PROVE Min({a, b}) = IF a <= b THEN a ELSE b
<1>1. CASE a <= b
  BY <1>1 DEF Min
<1>2. CASE ~(a <= b)
  BY <1>2 DEF Min
<1> QED BY <1>1, <1>2

\* The last chunk ends with the block synchronised up to, which is above any level of saved chunks.
LEMMA ChunkCount ==
    /\ NumberOfChunks \in Nat \ {0} /\ LastChunk \in SyncChunk /\ SyncChunk \subseteq Nat
    /\ TopOf(LastChunk) = Target
    /\ \A k \in Int : k <= LastChunk => k * ChunkSize - 1 < Target
<1>1. Target \in Nat /\ ChunkSize \in Nat \ {0}
  BY SyncAssumption
<1>2. /\ NumberOfChunks \in Nat /\ NumberOfChunks * ChunkSize <= Target + ChunkSize
      /\ Target + ChunkSize < (NumberOfChunks + 1) * ChunkSize
  <2>1. Target + ChunkSize \in Nat
    BY <1>1
  <2> QED BY <1>1, <2>1, Division DEF NumberOfChunks
<1>3. NumberOfChunks # 0
  BY <1>1, <1>2
<1>4. Target < NumberOfChunks * ChunkSize
  <2>1. (NumberOfChunks + 1) * ChunkSize = NumberOfChunks * ChunkSize + ChunkSize
    BY <1>1, <1>2
  <2>2. NumberOfChunks * ChunkSize \in Nat
    BY <1>1, <1>2
  <2> QED BY <1>1, <1>2, <2>1, <2>2
<1>5. LastChunk \in SyncChunk /\ SyncChunk \subseteq Nat
  BY <1>2, <1>3 DEF LastChunk, SyncChunk
<1>6. TopOf(LastChunk) = Target
  <2>1. (LastChunk + 1) * ChunkSize - 1 = NumberOfChunks * ChunkSize - 1
    BY <1>1, <1>2 DEF LastChunk
  <2>2. NumberOfChunks * ChunkSize - 1 \in Int /\ Target <= NumberOfChunks * ChunkSize - 1
    BY <1>1, <1>2, <1>4
  <2> QED BY <1>1, <2>1, <2>2, MinOfTwo DEF TopOf
<1>7. ASSUME NEW k \in Int, k <= LastChunk PROVE k * ChunkSize - 1 < Target
  <2>1. k * ChunkSize <= LastChunk * ChunkSize
    BY <1>1, <1>2, <1>7 DEF LastChunk
  <2>2. LastChunk * ChunkSize = NumberOfChunks * ChunkSize - ChunkSize
    BY <1>1, <1>2 DEF LastChunk
  <2>3. k * ChunkSize \in Int /\ NumberOfChunks * ChunkSize \in Int
    BY <1>1, <1>2, <1>7
  <2> QED BY <1>1, <1>2, <2>1, <2>2, <2>3
<1> QED BY <1>2, <1>3, <1>5, <1>6, <1>7

\* The chunk below ends before.
LEMMA TopsGrow == ASSUME root \in Int, NEW i \in SyncChunk, TopOf(i) <= root PROVE TopOf(i - 1) <= root
<1>1. Target \in Int /\ ChunkSize \in Nat /\ i \in Nat
  BY SyncAssumption, ChunkCount
<1>2. i * ChunkSize \in Int /\ (i + 1) * ChunkSize \in Int /\ (i + 1) * ChunkSize = i * ChunkSize + ChunkSize
  BY <1>1
<1>3. TopOf(i) = IF Target <= (i + 1) * ChunkSize - 1 THEN Target ELSE (i + 1) * ChunkSize - 1
  BY <1>1, <1>2, MinOfTwo DEF TopOf
<1>4. TopOf(i - 1) = IF Target <= i * ChunkSize - 1 THEN Target ELSE i * ChunkSize - 1
  <2>1. (i - 1) + 1 = i
    BY <1>1
  <2> QED BY <1>1, <1>2, <2>1, MinOfTwo DEF TopOf
<1> QED BY <1>1, <1>2, <1>3, <1>4

LEMMA Branches ==
    /\ \A b \in Branch, i \in Int : ChunkOn(b, i) \in Branch
    /\ \A i \in Int : ChunkOn("main", i) = "main"
    /\ Nothing \notin Branch /\ NoBlocks \notin Blocks
  BY DEF ChunkOn, Branch, Nothing, Blocks, NoBlocks

\* What a peer answers, or an earlier synchronisation has saved.
LEMMA BlocksGiven ==
    ASSUME root \in Int, NEW i \in SyncChunk
    PROVE  /\ \A b \in Branch : Right(b, i) \in Blocks /\ \A r \in BOOLEAN : Saved(b, i, r) \in Blocks
           /\ \A n \in Candidate : peerOn[n] \in Branch \cup {"wrong"} => Given(n, i) \subseteq Blocks
<1>1. i \in Int /\ i - 1 \in Int
  BY ChunkCount
<1>2. ASSUME NEW b \in Branch PROVE Right(b, i) \in Blocks /\ \A r \in BOOLEAN : Saved(b, i, r) \in Blocks
  <2>1. /\ ChunkOn(b, i) \in Branch /\ ChunkOn(b, i - 1) \in Branch
        /\ ChunkOn(b, i) = "main" => ChunkOn(b, i - 1) = "main"
    BY <1>1, TopsGrow DEF ChunkOn, Branch
  <2>2. Right(b, i) = [on |-> ChunkOn(b, i), below |-> ChunkOn(b, i - 1), right |-> TRUE]
    BY DEF Right
  <2>3. \A r \in BOOLEAN : Saved(b, i, r) = [on |-> ChunkOn(b, i), below |-> ChunkOn(b, i - 1), right |-> r]
    BY <2>2 DEF Saved
  <2> QED BY <2>1, <2>2, <2>3 DEF Blocks
<1>3. Wrong(i) \subseteq Blocks
  BY DEF Wrong, Blocks, Branch
<1> QED BY <1>2, <1>3 DEF Given

\* A milestone that is read is on the chain of the remote node, or was read by a page.
LEMMA MilestoneRead ==
    ASSUME SyncTypeOK, MilestonesOfRemote, NEW i \in SyncChunk, GetMilestone(i)
    PROVE  /\ milestone' \in [SyncChunk -> Branch \cup {Nothing}]
           /\ paged' \in BOOLEAN /\ page' \in [SyncChunk -> Branch \cup {Nothing}]
           /\ remote = "main" => /\ \A k \in SyncChunk : page'[k] \in {"main", Nothing}
                                 /\ milestone'[LastChunk] \in {"main", Nothing}
<1>1. ChunkOn(remote, i) \in Branch /\ \A k \in SyncChunk : ChunkOn(remote, k) \in Branch
  BY Branches, ChunkCount DEF SyncTypeOK
<1>2. remote = "main" => ChunkOn(remote, i) = "main" /\ \A k \in SyncChunk : ChunkOn(remote, k) = "main"
  BY Branches, ChunkCount
<1>3. CASE paged /\ page[i] # Nothing
  <2>1. milestone' = [milestone EXCEPT ![i] = page[i]] /\ paged' = paged /\ page' = page
    BY <1>3 DEF GetMilestone
  <2>2. /\ milestone' \in [SyncChunk -> Branch \cup {Nothing}]
        /\ remote = "main" => milestone'[LastChunk] \in {"main", Nothing}
    BY <2>1, ChunkCount DEF SyncTypeOK, MilestonesOfRemote
  <2> QED BY <2>1, <2>2 DEF SyncTypeOK, MilestonesOfRemote
<1>4. CASE ~(paged /\ page[i] # Nothing)
  <2> DEFINE read == [k \in SyncChunk |-> IF InPage(k, PageOf(i)) THEN ChunkOn(remote, k) ELSE page[k]]
  <2>1. /\ milestone' = [milestone EXCEPT ![i] = ChunkOn(remote, i)]
        /\ \/ page' = read /\ paged' = (read[i] # Nothing)
           \/ page' = page /\ paged' = FALSE
    BY <1>4 DEF GetMilestone
  <2>2. /\ read \in [SyncChunk -> Branch \cup {Nothing}]
        /\ remote = "main" => \A k \in SyncChunk : read[k] \in {"main", Nothing}
    BY <1>1, <1>2 DEF SyncTypeOK, MilestonesOfRemote
  <2> HIDE DEF read
  <2>3. page' \in [SyncChunk -> Branch \cup {Nothing}] /\ paged' \in BOOLEAN
        /\ (remote = "main" => \A k \in SyncChunk : page'[k] \in {"main", Nothing})
    BY <2>1, <2>2 DEF SyncTypeOK, MilestonesOfRemote
  <2>4. /\ milestone' \in [SyncChunk -> Branch \cup {Nothing}]
        /\ remote = "main" => milestone'[LastChunk] \in {"main", Nothing}
    BY <2>1, <1>1, <1>2, ChunkCount DEF SyncTypeOK, MilestonesOfRemote
  <2> QED BY <2>3, <2>4
<1> QED BY <1>3, <1>4

----------------------------------------------------------------------------
(* The steps of the download of one chunk. *)

\* A chunk that is not done moves to another stage but done.
LEMMA ChunkMoves ==
    ASSUME SyncTypeOK, ChunksInOrder, LastChecked, NEW i \in SyncChunk, chunk[i].stage # "done",
           i >= Len(delivered) \/ chunk[i] # Fresh,
           NEW c \in [stage : {"p2p", "asked", "got"}, from : Candidate \cup {"file", Nothing}, blocks : Blocks \cup {NoBlocks}],
           c.stage = "got" => c.blocks \in Blocks,
           To(i, c), delivered' = delivered, remote' = remote, root' = root
    PROVE  /\ chunk' \in [SyncChunk -> [stage : {"no", "p2p", "asked", "got", "done"},
                                        from : Candidate \cup {"file", Nothing}, blocks : Blocks \cup {NoBlocks}]]
           /\ ChunksInOrder' /\ LastChecked'
<1>1. chunk' = [chunk EXCEPT ![i] = c]
  BY DEF To
<1>2. i >= Len(delivered) /\ Len(delivered) \in Nat /\ SyncChunk \subseteq Nat
  BY ChunkCount DEF SyncTypeOK, ChunksInOrder, SyncChunk
<1>3. /\ chunk' \in [SyncChunk -> [stage : {"no", "p2p", "asked", "got", "done"},
                                        from : Candidate \cup {"file", Nothing}, blocks : Blocks \cup {NoBlocks}]]
  BY <1>1 DEF SyncTypeOK
<1>4. chunk'[i] = c /\ c.stage # "done" /\ \A k \in SyncChunk : k # i => chunk'[k] = chunk[k]
  BY <1>1 DEF SyncTypeOK
<1>5. ChunksInOrder'
  <2> SUFFICES ASSUME NEW k \in SyncChunk
      PROVE /\ k < Len(delivered) - 1 => chunk'[k] = Fresh
            /\ k = Len(delivered) - 1 => chunk'[k].stage = "done" /\ chunk'[k].blocks = delivered[k + 1]
            /\ chunk'[k].stage \in {"got", "done"} => chunk'[k].blocks \in Blocks
            /\ k >= Len(delivered) /\ chunk'[k].stage = "done" /\ k > 0 =>
                  chunk'[k - 1].stage = "done" /\ Follows(chunk'[k - 1].blocks, chunk'[k].blocks)
    BY DEF ChunksInOrder, Fresh, Follows
  <2>1. CASE k = i
    BY <2>1, <1>2, <1>4
  <2>2. CASE k # i
    <3>1. /\ k < Len(delivered) - 1 => chunk[k] = Fresh
          /\ k = Len(delivered) - 1 => chunk[k].stage = "done" /\ chunk[k].blocks = delivered[k + 1]
          /\ chunk[k].stage \in {"got", "done"} => chunk[k].blocks \in Blocks
          /\ k >= Len(delivered) /\ chunk[k].stage = "done" /\ k > 0 =>
                  chunk[k - 1].stage = "done" /\ Follows(chunk[k - 1].blocks, chunk[k].blocks)
      BY DEF ChunksInOrder
    <3>2. ASSUME k >= Len(delivered), chunk[k].stage = "done", k > 0
          PROVE  chunk'[k - 1].stage = "done" /\ Follows(chunk'[k - 1].blocks, chunk'[k].blocks)
      <4>1. k - 1 \in SyncChunk /\ k - 1 # i
        <5>1. NumberOfChunks \in Nat /\ k \in Nat
          BY ChunkCount
        <5> QED BY <5>1, <3>1, <3>2 DEF SyncChunk
      <4>2. chunk'[k - 1] = chunk[k - 1] /\ chunk'[k] = chunk[k]
        BY <4>1, <2>2, <1>4
      <4> QED BY <3>1, <3>2, <4>2 DEF Follows
    <3> QED BY <3>1, <3>2, <2>2, <1>4
  <2> QED BY <2>1, <2>2
<1>6. LastChecked'
  BY <1>4, ChunkCount DEF LastChecked
<1> QED BY <1>3, <1>5, <1>6

LEMMA ChunksKept ==
    ASSUME ChunksInOrder, LastChecked, UNCHANGED <<root, chunk, delivered>>, remote' = "main" => remote = "main"
    PROVE  ChunksInOrder' /\ LastChecked'
  BY DEF ChunksInOrder, LastChecked, Follows

LEMMA DeliveredKept ==
    ASSUME DeliveredChain, UNCHANGED <<root, delivered>>, syncEnd' = "finished" => Len(delivered) = NumberOfChunks
    PROVE  DeliveredChain'
  BY DEF DeliveredChain, Follows

LEMMA SearchStep == ASSUME SyncInv, ValidateCacheLevel PROVE SyncInv'
<1>1. SyncTypeOK /\ SearchBounded /\ MilestonesOfRemote /\ ChunksInOrder /\ LastChecked /\ DeliveredChain
  BY DEF SyncInv
<1>2. UNCHANGED <<root, peerOn, remote, file, chunk, reserved, delivered, syncEnd>>
  BY DEF ValidateCacheLevel, sourceVars, p2pVars
<1>3. search.top \in Int /\ search.bottom \in Int /\ search.bottom < search.top /\ search = [top |-> search.top, bottom |-> search.bottom]
  BY <1>1 DEF ValidateCacheLevel, LevelFound, SyncTypeOK, SearchBounded
<1>4. CurrentLevel \in Int /\ search.bottom < CurrentLevel /\ CurrentLevel <= search.top
  BY <1>3 DEF CurrentLevel
<1>5. LastChunk \in Nat /\ NumberOfChunks \in Nat
  BY ChunkCount
<1>6. CASE CurrentLevel = 0
  <2>1. search' = [top |-> 0, bottom |-> 0] /\ UNCHANGED <<paged, page, milestone>>
    BY <1>6 DEF ValidateCacheLevel
  <2>2. SyncTypeOK'
    BY <2>1, <1>1, <1>2 DEF SyncTypeOK
  <2>3. SearchBounded' /\ MilestonesOfRemote'
    BY <2>1, <1>1, <1>2, <1>5 DEF SearchBounded, MilestonesOfRemote
  <2> QED BY <2>2, <2>3, <1>1, <1>2, ChunksKept, DeliveredKept DEF SyncInv, DeliveredChain
<1>7. CASE CurrentLevel # 0
  <2>1. /\ GetMilestone(CurrentLevel - 1)
        /\ search' = IF file[CurrentLevel - 1].on = milestone'[CurrentLevel - 1] THEN [search EXCEPT !.bottom = CurrentLevel]
                     ELSE [search EXCEPT !.top = CurrentLevel - 1]
    BY <1>7 DEF ValidateCacheLevel
  <2>2. CurrentLevel - 1 \in SyncChunk
    <3>1. CurrentLevel >= 1 /\ CurrentLevel - 1 <= LastChunk
      BY <1>1, <1>3, <1>4, <1>5, <1>7 DEF SearchBounded
    <3> QED BY <3>1, <1>4, <1>5 DEF SyncChunk, LastChunk
  <2>3. /\ milestone' \in [SyncChunk -> Branch \cup {Nothing}]
        /\ paged' \in BOOLEAN /\ page' \in [SyncChunk -> Branch \cup {Nothing}]
        /\ remote = "main" => /\ \A k \in SyncChunk : page'[k] \in {"main", Nothing}
                              /\ milestone'[LastChunk] \in {"main", Nothing}
    BY <2>1, <2>2, <1>1, MilestoneRead
  <2>4. search' \in [top : Int, bottom : Int] /\ SearchBounded'
    BY <2>1, <1>1, <1>3, <1>4, <1>5 DEF SearchBounded
  <2>5. SyncTypeOK'
    BY <2>3, <2>4, <1>1, <1>2 DEF SyncTypeOK
  <2>6. MilestonesOfRemote'
    BY <2>3, <1>2 DEF MilestonesOfRemote
  <2> QED BY <2>4, <2>5, <2>6, <1>1, <1>2, ChunksKept, DeliveredKept DEF SyncInv, DeliveredChain
<1> QED BY <1>6, <1>7

LEMMA MilestoneStep == ASSUME SyncInv, NEW i \in SyncChunk, DownloadMilestone(i) PROVE SyncInv'
<1>1. SyncTypeOK /\ SearchBounded /\ MilestonesOfRemote /\ ChunksInOrder /\ LastChecked /\ DeliveredChain
  BY DEF SyncInv
<1>2. UNCHANGED <<root, peerOn, remote, file, search, chunk, reserved, delivered, syncEnd>>
  BY DEF DownloadMilestone, sourceVars, p2pVars
<1>3. /\ milestone' \in [SyncChunk -> Branch \cup {Nothing}]
      /\ paged' \in BOOLEAN /\ page' \in [SyncChunk -> Branch \cup {Nothing}]
      /\ remote = "main" => /\ \A k \in SyncChunk : page'[k] \in {"main", Nothing}
                            /\ milestone'[LastChunk] \in {"main", Nothing}
  <2>1. CASE TopOf(i) > LevelReached
    <3>1. GetMilestone(i)
      BY <2>1 DEF DownloadMilestone
    <3> QED BY <3>1, <1>1, MilestoneRead
  <2>2. CASE ~(TopOf(i) > LevelReached)
    <3>1. file[i] # NoBlocks /\ milestone' = [milestone EXCEPT ![i] = file[i].on] /\ UNCHANGED <<paged, page>>
      BY <2>2 DEF DownloadMilestone
    <3>0. file[i].on \in Branch
      BY <3>1, <1>1 DEF SyncTypeOK, Blocks
    <3>2. search.top \in Int /\ search.top <= LastChunk
      BY <1>1 DEF SyncTypeOK, SearchBounded
    <3>3. Target > LevelReached
      <4>1. search.top * ChunkSize - 1 < Target /\ Target \in Int /\ search.top * ChunkSize - 1 \in Int
        BY <3>2, ChunkCount, SyncAssumption
      <4> QED BY <4>1 DEF LevelReached
    <3>4. i # LastChunk
      BY <3>3, <2>2, ChunkCount
    <3>5. milestone'[LastChunk] = milestone[LastChunk]
      BY <3>1, <3>4, <1>1, ChunkCount DEF SyncTypeOK
    <3> QED BY <3>0, <3>1, <3>5, <1>1 DEF SyncTypeOK, MilestonesOfRemote
  <2> QED BY <2>1, <2>2
<1>4. SyncTypeOK' /\ SearchBounded' /\ MilestonesOfRemote'
  BY <1>1, <1>2, <1>3 DEF SyncTypeOK, SearchBounded, MilestonesOfRemote
<1> QED BY <1>4, <1>1, <1>2, ChunksKept, DeliveredKept DEF SyncInv, DeliveredChain

LEMMA FreshMoves ==
    \A n \in Candidate :
        /\ [Fresh EXCEPT !.stage = "asked", !.from = n].stage = "asked"
        /\ [Fresh EXCEPT !.stage = "asked", !.from = n] \in
              [stage : {"p2p", "asked", "got"}, from : Candidate \cup {"file", Nothing}, blocks : Blocks \cup {NoBlocks}]
  BY DEF Fresh

LEMMA ChunkStep ==
    ASSUME SyncInv, NEW i \in SyncChunk, \/ StartChunk(i) \/ AskPeer(i) \/ AnswerTooLong(i)
                                         \/ \E n \in Candidate, whole \in BOOLEAN : Answer(n, whole) /\ reserved[n] = i
    PROVE  SyncInv'
<1> DEFINE Trying == [stage : {"p2p", "asked", "got"}, from : Candidate \cup {"file", Nothing}, blocks : Blocks \cup {NoBlocks}]
<1>1. SyncTypeOK /\ SearchBounded /\ MilestonesOfRemote /\ ChunksInOrder /\ LastChecked /\ DeliveredChain
  BY DEF SyncInv
<1>2. /\ UNCHANGED <<root, peerOn, remote, file, paged, page, search, milestone, delivered>>
      /\ syncEnd' \in {syncEnd, "exit"} /\ syncEnd = "no"
  BY DEF StartChunk, AskPeer, AnswerTooLong, Answer, sourceVars, validatorVars, p2pVars, Exit, Running
<1>3. reserved' \in [Candidate -> SyncChunk \cup {NoChunk}]
  <2>1. CASE StartChunk(i) \/ AnswerTooLong(i)
    BY <2>1, <1>1 DEF StartChunk, AnswerTooLong, p2pVars, SyncTypeOK
  <2>2. CASE AskPeer(i)
    BY <2>2, <1>1 DEF AskPeer, SyncTypeOK
  <2>3. CASE \E n \in Candidate, whole \in BOOLEAN : Answer(n, whole)
    BY <2>3, <1>1 DEF Answer, SyncTypeOK
  <2> QED BY <2>1, <2>2, <2>3
<1>4. \/ chunk' = chunk
      \/ /\ chunk[i].stage # "done" /\ (i >= Len(delivered) \/ chunk[i] # Fresh)
         /\ \E c \in Trying : To(i, c) /\ (c.stage = "got" => c.blocks \in Blocks)
  <2>1. CASE StartChunk(i)
    <3>1. chunk[i] = Fresh /\ i >= Len(delivered)
      BY <2>1, <1>1, ChunkCount DEF StartChunk, SyncTypeOK
    <3>2. CASE file[i] # NoBlocks
      <4>1. To(i, [stage |-> "got", from |-> "file", blocks |-> file[i]])
        BY <2>1, <3>2 DEF StartChunk
      <4> QED BY <3>1, <3>2, <4>1, <1>1 DEF SyncTypeOK, Fresh
    <3>3. CASE file[i] = NoBlocks
      <4>1. To(i, [Fresh EXCEPT !.stage = "p2p"])
        BY <2>1, <3>3 DEF StartChunk
      <4> QED BY <3>1, <4>1 DEF Fresh
    <3> QED BY <3>2, <3>3
  <2>2. CASE AskPeer(i)
    <3>1. chunk[i].stage = "p2p" /\ chunk[i] # Fresh
      <4>1. chunk[i].stage = "p2p" /\ Fresh.stage = "no"
        BY <2>2 DEF AskPeer, Fresh
      <4> QED BY <4>1
    <3>2. CASE chunk' # chunk
      <4>1. PICK n \in Candidate : To(i, [Fresh EXCEPT !.stage = "asked", !.from = n])
        BY <2>2, <3>2 DEF AskPeer
      <4>2. /\ [Fresh EXCEPT !.stage = "asked", !.from = n] \in Trying
            /\ [Fresh EXCEPT !.stage = "asked", !.from = n].stage = "asked"
        BY FreshMoves
      <4> QED BY <3>1, <4>1, <4>2
    <3> QED BY <3>2
  <2>3. CASE AnswerTooLong(i)
    <3>1. chunk[i].stage = "asked" /\ To(i, [Fresh EXCEPT !.stage = "p2p"])
      BY <2>3 DEF AnswerTooLong
    <3> QED BY <3>1 DEF Fresh
  <2>4. ASSUME NEW n \in Candidate, NEW whole \in BOOLEAN, Answer(n, whole), reserved[n] = i
        PROVE  \/ chunk' = chunk
               \/ /\ chunk[i].stage # "done" /\ (i >= Len(delivered) \/ chunk[i] # Fresh)
                  /\ \E c \in Trying : To(i, c) /\ (c.stage = "got" => c.blocks \in Blocks)
    <3>1. CASE chunk[i] = [Fresh EXCEPT !.stage = "asked", !.from = n]
      <4>1. chunk[i].stage = "asked" /\ chunk[i] # Fresh
        <5>1. chunk[i].stage = "asked" /\ Fresh.stage = "no"
          BY <3>1, FreshMoves DEF Fresh
        <5> QED BY <5>1
      <4>2. PICK b \in Given(n, i) :
               To(i, IF whole THEN [stage |-> "got", from |-> n, blocks |-> b] ELSE [Fresh EXCEPT !.stage = "p2p"])
        BY <2>4, <3>1 DEF Answer
      <4>3. b \in Blocks
        BY <1>1, BlocksGiven DEF SyncTypeOK
      <4>4. CASE whole
        BY <4>1, <4>2, <4>3, <4>4
      <4>5. CASE ~whole
        BY <4>1, <4>2, <4>5 DEF Fresh
      <4> QED BY <4>4, <4>5
    <3>2. CASE chunk[i] # [Fresh EXCEPT !.stage = "asked", !.from = n]
      BY <2>4, <3>2 DEF Answer
    <3> QED BY <3>1, <3>2
  <2> QED BY <2>1, <2>2, <2>3, <2>4
<1>5. /\ chunk' \in [SyncChunk -> [stage : {"no", "p2p", "asked", "got", "done"},
                                   from : Candidate \cup {"file", Nothing}, blocks : Blocks \cup {NoBlocks}]]
      /\ ChunksInOrder' /\ LastChecked'
  <2>1. CASE chunk' = chunk
    BY <2>1, <1>1, <1>2, ChunksKept DEF SyncTypeOK
  <2>2. CASE chunk' # chunk
    <3>1. PICK c \in Trying : To(i, c) /\ (c.stage = "got" => c.blocks \in Blocks)
      BY <2>2, <1>4
    <3> QED BY <3>1, <2>2, <1>1, <1>2, <1>4, ChunkMoves
  <2> QED BY <2>1, <2>2
<1>6. SyncTypeOK' /\ SearchBounded' /\ MilestonesOfRemote'
  BY <1>1, <1>2, <1>3, <1>5 DEF SyncTypeOK, SearchBounded, MilestonesOfRemote
<1>7. DeliveredChain'
  BY <1>1, <1>2, DeliveredKept
<1> QED BY <1>5, <1>6, <1>7 DEF SyncInv

LEMMA VerifyStep == ASSUME SyncInv, NEW i \in SyncChunk, Verify(i) PROVE SyncInv'
<1>1. SyncTypeOK /\ SearchBounded /\ MilestonesOfRemote /\ ChunksInOrder /\ LastChecked /\ DeliveredChain
  BY DEF SyncInv
<1>2. UNCHANGED <<root, peerOn, remote, paged, page, search, milestone, reserved, delivered, syncEnd>>
  BY DEF Verify, sourceVars, validatorVars, p2pVars
<1>3. chunk[i].stage = "got" /\ (i > 0 => chunk[i - 1].stage = "done") /\ chunk[i].blocks \in Blocks
  BY <1>1 DEF Verify, ChunksInOrder
<1>4. chunk[i] # Fresh /\ i >= Len(delivered) /\ i \in Nat /\ Len(delivered) \in Nat /\ NumberOfChunks \in Nat
  <2>1. chunk[i] # Fresh
    BY <1>3 DEF Fresh
  <2>2. i \in Nat /\ Len(delivered) \in Nat /\ NumberOfChunks \in Nat
    BY <1>1, ChunkCount DEF SyncTypeOK
  <2> QED BY <2>1, <2>2, <1>1, <1>3 DEF ChunksInOrder
<1>5. file' \in [SyncChunk -> Blocks \cup {NoBlocks}]
  BY <1>1, <1>3 DEF Verify, SyncTypeOK
<1>6. CASE CheckChunk(i)
  <2>1. chunk' = [chunk EXCEPT ![i] = [chunk[i] EXCEPT !.stage = "done"]]
    BY <1>6 DEF Verify, To
  <2>2. chunk[i].blocks.on = milestone[i] /\ (i > 0 => Follows(chunk[i - 1].blocks, chunk[i].blocks))
    BY <1>6 DEF CheckChunk, TopIsMilestone, FollowsBelow, BelowIsRight, Follows
  <2>3. /\ chunk'[i].stage = "done" /\ chunk'[i].blocks = chunk[i].blocks
        /\ \A k \in SyncChunk : k # i => chunk'[k] = chunk[k]
        /\ chunk' \in [SyncChunk -> [stage : {"no", "p2p", "asked", "got", "done"},
                                     from : Candidate \cup {"file", Nothing}, blocks : Blocks \cup {NoBlocks}]]
    BY <2>1, <1>1 DEF SyncTypeOK
  <2>4. ChunksInOrder'
    <3> SUFFICES ASSUME NEW k \in SyncChunk
        PROVE /\ k < Len(delivered) - 1 => chunk'[k] = Fresh
              /\ k = Len(delivered) - 1 => chunk'[k].stage = "done" /\ chunk'[k].blocks = delivered[k + 1]
              /\ chunk'[k].stage \in {"got", "done"} => chunk'[k].blocks \in Blocks
              /\ k >= Len(delivered) /\ chunk'[k].stage = "done" /\ k > 0 =>
                    chunk'[k - 1].stage = "done" /\ Follows(chunk'[k - 1].blocks, chunk'[k].blocks)
      BY <1>2 DEF ChunksInOrder, Fresh, Follows
    <3>1. k \in Nat /\ (k > 0 => k - 1 \in SyncChunk)
      BY <1>4, ChunkCount DEF SyncChunk
    <3>2. CASE k = i
      <4>1. k > 0 => k - 1 # i
        BY <3>2, <1>4
      <4> QED BY <3>1, <3>2, <4>1, <1>3, <1>4, <2>2, <2>3
    <3>3. CASE k # i
      <4>1. /\ k < Len(delivered) - 1 => chunk[k] = Fresh
            /\ k = Len(delivered) - 1 => chunk[k].stage = "done" /\ chunk[k].blocks = delivered[k + 1]
            /\ chunk[k].stage \in {"got", "done"} => chunk[k].blocks \in Blocks
            /\ k >= Len(delivered) /\ chunk[k].stage = "done" /\ k > 0 =>
                    chunk[k - 1].stage = "done" /\ Follows(chunk[k - 1].blocks, chunk[k].blocks)
        BY <1>1 DEF ChunksInOrder
      <4>2. k >= Len(delivered) /\ chunk[k].stage = "done" /\ k > 0 => k - 1 # i
        BY <4>1, <1>3
      <4> QED BY <3>1, <3>3, <4>1, <4>2, <2>3
    <3> QED BY <3>2, <3>3
  <2>5. LastChecked'
    <3>1. i = LastChunk /\ remote = "main" => chunk[i].blocks.on = "main"
      BY <2>2, <1>1, <1>3, Branches DEF MilestonesOfRemote, Blocks
    <3> QED BY <3>1, <2>3, <1>1, <1>2, ChunkCount DEF LastChecked
  <2>6. SyncTypeOK' /\ SearchBounded' /\ MilestonesOfRemote'
    BY <1>1, <1>2, <1>5, <2>3 DEF SyncTypeOK, SearchBounded, MilestonesOfRemote
  <2> QED BY <2>4, <2>5, <2>6, <1>1, <1>2, DeliveredKept DEF SyncInv, DeliveredChain
<1>7. CASE ~CheckChunk(i)
  <2>1. To(i, [Fresh EXCEPT !.stage = "p2p"])
    BY <1>7 DEF Verify
  <2>2. /\ [Fresh EXCEPT !.stage = "p2p"] \in [stage : {"p2p", "asked", "got"}, from : Candidate \cup {"file", Nothing}, blocks : Blocks \cup {NoBlocks}]
        /\ [Fresh EXCEPT !.stage = "p2p"].stage # "got"
    BY DEF Fresh
  <2>3. chunk[i].stage # "done"
    BY <1>3
  <2>4. /\ chunk' \in [SyncChunk -> [stage : {"no", "p2p", "asked", "got", "done"},
                                     from : Candidate \cup {"file", Nothing}, blocks : Blocks \cup {NoBlocks}]]
        /\ ChunksInOrder' /\ LastChecked'
    BY <2>1, <2>2, <2>3, <1>1, <1>2, <1>4, ChunkMoves
  <2>5. SyncTypeOK' /\ SearchBounded' /\ MilestonesOfRemote'
    BY <1>1, <1>2, <1>5, <2>4 DEF SyncTypeOK, SearchBounded, MilestonesOfRemote
  <2> QED BY <2>4, <2>5, <1>1, <1>2, DeliveredKept DEF SyncInv, DeliveredChain
<1> QED BY <1>6, <1>7

LEMMA DeliverStep == ASSUME SyncInv, Deliver PROVE SyncInv'
<1>1. SyncTypeOK /\ SearchBounded /\ MilestonesOfRemote /\ ChunksInOrder /\ LastChecked /\ DeliveredChain
  BY DEF SyncInv
<1>2. UNCHANGED <<root, peerOn, remote, file, paged, page, search, milestone, reserved, syncEnd>> /\ syncEnd = "no"
  BY DEF Deliver, sourceVars, validatorVars, p2pVars, Running
<1> DEFINE c == Len(delivered)
<1>3. /\ c < NumberOfChunks /\ chunk[c].stage = "done" /\ delivered' = Append(delivered, chunk[c].blocks)
      /\ chunk' = IF c > 0 THEN [chunk EXCEPT ![c - 1] = Fresh] ELSE chunk
  BY DEF Deliver
<1>4. c \in Nat /\ NumberOfChunks \in Nat /\ c \in SyncChunk /\ delivered \in Seq(Blocks)
  BY <1>1, <1>3, ChunkCount DEF SyncTypeOK, SyncChunk
<1>5. chunk[c].blocks \in Blocks /\ (c > 0 => chunk[c - 1].stage = "done" /\ Follows(chunk[c - 1].blocks, chunk[c].blocks))
  BY <1>1, <1>3, <1>4 DEF ChunksInOrder
<1>6. c > 0 => c - 1 \in SyncChunk /\ chunk[c - 1].blocks = delivered[c]
  <2>1. c > 0 => c - 1 \in SyncChunk
    BY <1>4 DEF SyncChunk
  <2> QED BY <2>1, <1>1, <1>4 DEF ChunksInOrder
<1>7. /\ delivered' \in Seq(Blocks) /\ Len(delivered') = c + 1
      /\ delivered'[c + 1] = chunk[c].blocks /\ \A j \in 1..c : delivered'[j] = delivered[j]
  BY <1>3, <1>4, <1>5
<1> HIDE DEF c
<1>8. /\ chunk'[c] = chunk[c] /\ (c > 0 => chunk'[c - 1] = Fresh)
      /\ \A k \in SyncChunk : k # c - 1 => chunk'[k] = chunk[k]
      /\ chunk' \in [SyncChunk -> [stage : {"no", "p2p", "asked", "got", "done"},
                                   from : Candidate \cup {"file", Nothing}, blocks : Blocks \cup {NoBlocks}]]
  <2>1. Fresh \in [stage : {"no", "p2p", "asked", "got", "done"}, from : Candidate \cup {"file", Nothing}, blocks : Blocks \cup {NoBlocks}]
    BY DEF Fresh
  <2>2. c - 1 # c
    BY <1>4
  <2>3. CASE c > 0
    BY <2>1, <2>2, <2>3, <1>1, <1>3, <1>4, <1>6 DEF SyncTypeOK
  <2>4. CASE ~(c > 0)
    BY <2>4, <1>1, <1>3 DEF SyncTypeOK
  <2> QED BY <2>3, <2>4
<1>9. ChunksInOrder'
  <2> SUFFICES ASSUME NEW k \in SyncChunk
      PROVE /\ k < Len(delivered') - 1 => chunk'[k] = Fresh
            /\ k = Len(delivered') - 1 => chunk'[k].stage = "done" /\ chunk'[k].blocks = delivered'[k + 1]
            /\ chunk'[k].stage \in {"got", "done"} => chunk'[k].blocks \in Blocks
            /\ k >= Len(delivered') /\ chunk'[k].stage = "done" /\ k > 0 =>
                  chunk'[k - 1].stage = "done" /\ Follows(chunk'[k - 1].blocks, chunk'[k].blocks)
    BY <1>2 DEF ChunksInOrder, Fresh, Follows
  <2>1. k \in Nat /\ (k > 0 => k - 1 \in SyncChunk)
    BY <1>4, ChunkCount DEF SyncChunk
  <2>2. /\ k < c - 1 => chunk[k] = Fresh
        /\ chunk[k].stage \in {"got", "done"} => chunk[k].blocks \in Blocks
        /\ k >= c /\ chunk[k].stage = "done" /\ k > 0 =>
             chunk[k - 1].stage = "done" /\ Follows(chunk[k - 1].blocks, chunk[k].blocks)
    BY <1>1 DEF ChunksInOrder, c
  <2>3. CASE k < c
    <3>1. chunk'[k] = Fresh
      <4>1. CASE k = c - 1
        BY <4>1, <2>1, <2>3, <1>4, <1>8
      <4>2. CASE k # c - 1
        BY <4>2, <2>1, <2>2, <2>3, <1>4, <1>8
      <4> QED BY <4>1, <4>2
    <3>2. Fresh.stage = "no"
      BY DEF Fresh
    <3> QED BY <3>1, <3>2, <2>1, <2>3, <1>4, <1>7
  <2>4. CASE k = c
    BY <2>4, <1>3, <1>4, <1>5, <1>7, <1>8
  <2>5. CASE k > c
    <3>1. k # c - 1 /\ k - 1 # c - 1 /\ k > 0
      BY <2>1, <2>5, <1>4
    <3>2. chunk'[k] = chunk[k] /\ chunk'[k - 1] = chunk[k - 1]
      BY <3>1, <2>1, <1>8
    <3> QED BY <3>1, <3>2, <2>1, <2>2, <2>5, <1>4, <1>7
  <2> QED BY <2>1, <2>3, <2>4, <2>5, <1>4
<1>10. LastChecked'
  <2>1. Fresh.stage # "done"
    BY DEF Fresh
  <2>2. chunk'[LastChunk] \in {chunk[LastChunk], Fresh}
    BY <1>3, <1>4, <1>8, ChunkCount
  <2> QED BY <2>1, <2>2, <1>1, <1>2 DEF LastChecked
<1>11. DeliveredChain'
  <2>1. \A j \in 2..c : Follows(delivered[j - 1], delivered[j])
    BY <1>1 DEF DeliveredChain, c
  <2>2. \A j \in 2..c + 1 : Follows(delivered'[j - 1], delivered'[j])
    <3> SUFFICES ASSUME NEW j \in 2..c + 1 PROVE Follows(delivered'[j - 1], delivered'[j])
      OBVIOUS
    <3>1. CASE j \in 2..c
      <4>1. j \in 1..c /\ j - 1 \in 1..c
        BY <3>1, <1>4
      <4> QED BY <3>1, <4>1, <2>1, <1>7
    <3>2. CASE j = c + 1
      <4>1. c > 0 /\ c \in 1..c /\ j - 1 = c
        BY <3>2, <1>4
      <4> QED BY <3>2, <4>1, <1>5, <1>6, <1>7
    <3> QED BY <3>1, <3>2, <1>4
  <2>3. ASSUME NEW j \in 1..c + 1, delivered'[j].right, delivered'[j].on = "main" PROVE \A l \in 1..j : delivered'[l].on = "main"
    <3>0. \A a \in 1..c : delivered[a].right /\ delivered[a].on = "main" => \A l \in 1..a : delivered[l].on = "main"
      BY <1>1 DEF DeliveredChain, c
    <3>1. CASE j \in 1..c
      <4>1. \A l \in 1..j : l \in 1..c
        BY <3>1, <1>4
      <4> QED BY <3>0, <3>1, <4>1, <2>3, <1>7
    <3>2. CASE j = c + 1
      <4>1. chunk[c].blocks.right /\ chunk[c].blocks.on = "main"
        BY <3>2, <2>3, <1>7
      <4>2. c > 0 => delivered[c].right /\ delivered[c].on = "main"
        BY <4>1, <1>4, <1>5, <1>6 DEF Follows, Blocks
      <4>3. \A l \in 1..c : delivered[l].on = "main"
        <5>1. c > 0 => c \in 1..c
          BY <1>4
        <5> QED BY <5>1, <4>2, <3>0, <1>4
      <4>4. \A l \in 1..c + 1 : l \in 1..c \/ l = c + 1
        BY <1>4
      <4> QED BY <3>2, <4>1, <4>3, <4>4, <1>7
    <3> QED BY <3>1, <3>2, <1>4
  <2> QED BY <2>2, <2>3, <1>2, <1>7 DEF DeliveredChain, Follows
<1>12. SyncTypeOK' /\ SearchBounded' /\ MilestonesOfRemote'
  BY <1>1, <1>2, <1>3, <1>4, <1>7, <1>8 DEF SyncTypeOK, SearchBounded, MilestonesOfRemote
<1> QED BY <1>9, <1>10, <1>11, <1>12 DEF SyncInv

----------------------------------------------------------------------------
LEMMA SyncInvInit == ASSUME SyncInit PROVE SyncInv
<1>1. SyncTypeOK
  <2>1. root \in Int
    BY SyncAssumption DEF SyncInit
  <2>2. file \in [SyncChunk -> Blocks \cup {NoBlocks}]
    <3>1. PICK n \in {k \in SyncChunk \X SyncChunk : k[1] <= k[2]}, b \in {<<"main", "fork">>, <<"fork", "main">>},
               r \in BOOLEAN \X BOOLEAN :
            file = [i \in SyncChunk |-> CASE i < n[1] -> Saved(b[1], i, r[1] \/ i # n[1] - 1)
                                          [] i >= n[1] /\ i < n[2] -> Saved(b[2], i, r[2] \/ i # n[2] - 1)
                                          [] OTHER -> NoBlocks]
      BY DEF SyncInit, SavedFiles
    <3>2. b[1] \in Branch /\ b[2] \in Branch
      BY DEF Branch
    <3>3. ASSUME NEW i \in SyncChunk
          PROVE  Saved(b[1], i, r[1] \/ i # n[1] - 1) \in Blocks /\ Saved(b[2], i, r[2] \/ i # n[2] - 1) \in Blocks
      BY <2>1, <3>2, BlocksGiven
    <3> QED BY <3>1, <3>3
  <2>3. NumberOfChunks \in Nat
    BY ChunkCount
  <2> QED BY <2>1, <2>2, <2>3 DEF SyncInit, SyncTypeOK, Branch, WholeSearch, Fresh
<1>2. SearchBounded /\ MilestonesOfRemote /\ LastChecked
  BY ChunkCount DEF SyncInit, SearchBounded, MilestonesOfRemote, LastChecked, WholeSearch, LastChunk, Fresh
<1>3. ChunksInOrder /\ DeliveredChain
  <2>1. Len(<<>>) = 0 /\ SyncChunk \subseteq Nat
    BY ChunkCount
  <2> QED BY <2>1 DEF SyncInit, ChunksInOrder, DeliveredChain, Fresh
<1> QED BY <1>1, <1>2, <1>3 DEF SyncInv

LEMMA SyncInvStep == SyncInv /\ [SyncNext]_syncVars => SyncInv'
<1> SUFFICES ASSUME SyncInv, [SyncNext]_syncVars PROVE SyncInv'
  OBVIOUS
<1>1. SyncTypeOK /\ SearchBounded /\ MilestonesOfRemote /\ ChunksInOrder /\ LastChecked /\ DeliveredChain
  BY DEF SyncInv
<1>2. CASE UNCHANGED syncVars
  <2>1. UNCHANGED <<root, peerOn, remote, file, paged, page, search, milestone, chunk, reserved, delivered, syncEnd>>
    BY <1>2 DEF syncVars
  <2>2. SyncTypeOK' /\ SearchBounded' /\ MilestonesOfRemote'
    BY <2>1, <1>1 DEF SyncTypeOK, SearchBounded, MilestonesOfRemote
  <2> QED BY <2>1, <2>2, <1>1, ChunksKept, DeliveredKept DEF SyncInv, DeliveredChain
<1>3. CASE MilestoneFails \/ FinishSync \/ Reorganise
  <2>1. /\ UNCHANGED <<root, peerOn, file, paged, page, search, milestone, chunk, reserved, delivered>>
        /\ (remote' = "main" => remote = "main") /\ remote' \in Branch
        /\ syncEnd' \in {"no", "finished", "exit"} /\ (syncEnd' = "finished" => Len(delivered) = NumberOfChunks)
    BY <1>1, <1>3 DEF MilestoneFails, FinishSync, Reorganise, Exit, Running, sourceVars, validatorVars, p2pVars, SyncTypeOK, Branch
  <2>2. SyncTypeOK' /\ SearchBounded' /\ MilestonesOfRemote'
    BY <2>1, <1>1 DEF SyncTypeOK, SearchBounded, MilestonesOfRemote
  <2> QED BY <2>1, <2>2, <1>1, ChunksKept, DeliveredKept DEF SyncInv
<1>4. CASE ValidateCacheLevel
  BY <1>4, SearchStep
<1>5. CASE Deliver
  BY <1>5, DeliverStep
<1>6. ASSUME NEW i \in SyncChunk, DownloadMilestone(i) \/ StartChunk(i) \/ Verify(i) \/ AskPeer(i) \/ AnswerTooLong(i)
      PROVE  SyncInv'
  BY <1>6, MilestoneStep, ChunkStep, VerifyStep
<1>7. ASSUME NEW n \in Candidate, NEW whole \in BOOLEAN, Answer(n, whole) PROVE SyncInv'
  <2>1. reserved[n] \in SyncChunk
    BY <1>1, <1>7 DEF Answer, SyncTypeOK
  <2> QED BY <2>1, <1>7, ChunkStep
<1> QED BY <1>2, <1>3, <1>4, <1>5, <1>6, <1>7 DEF SyncNext

(***************************************************************************)
(* The chunks handed to the indexers (src/app/modules/crawler/lib/sync,     *)
(* DownloadStream and chainsCorrectly) follow each other, and all but the   *)
(* last are what their hashes say, whatever the peers answered and whatever *)
(* the saved files hold.  At the end the last one ends with the block of    *)
(* the node synchronised on, and the others are its chain when the interior *)
(* of the last, which the code does not look at, is right.                  *)
(***************************************************************************)
THEOREM DownloadIsOneChain == SyncSpec => []SyncedChain
<1>1. SyncInv => SyncedChain
  <2> SUFFICES ASSUME SyncInv PROVE SyncedChain
    OBVIOUS
  <2>1. \A i \in 2..Len(delivered) : delivered[i - 1].right /\ delivered[i].below = delivered[i - 1].on
    BY DEF SyncInv, DeliveredChain, Follows
  <2>2. ASSUME syncEnd = "finished", remote = "main"
        PROVE  /\ delivered[NumberOfChunks].on = "main"
               /\ delivered[NumberOfChunks].right => \A i \in DOMAIN delivered : delivered[i].on = "main"
    <3>1. Len(delivered) = NumberOfChunks /\ NumberOfChunks \in Nat \ {0} /\ LastChunk \in SyncChunk /\ DOMAIN delivered = 1..NumberOfChunks
      BY <2>2, ChunkCount DEF SyncInv, DeliveredChain, SyncTypeOK
    <3>2. LastChunk = Len(delivered) - 1 /\ LastChunk + 1 = NumberOfChunks /\ NumberOfChunks \in 1..Len(delivered)
      BY <3>1 DEF LastChunk
    <3>3. chunk[LastChunk].stage = "done" /\ chunk[LastChunk].blocks = delivered[LastChunk + 1]
      BY <3>1, <3>2 DEF SyncInv, ChunksInOrder
    <3>4. delivered[NumberOfChunks].on = "main"
      BY <2>2, <3>2, <3>3 DEF SyncInv, LastChecked
    <3> QED BY <3>1, <3>2, <3>4 DEF SyncInv, DeliveredChain
  <2> QED BY <2>1, <2>2 DEF SyncedChain
<1> QED BY <1>1, SyncInvInit, SyncInvStep, PTL DEF SyncSpec

----------------------------------------------------------------------------
(***************************************************************************)
(* Two honest ends never accuse each other of a message out of its turn,    *)
(* whatever their keys, timers and limits, and however their messages and   *)
(* the checks their handlers await interleave.                              *)
(*                                                                         *)
(* The property speaks of the errors detected.  The invariant says why none *)
(* of the others can be: CONNECT, ACK and OK reach an end at most once, and  *)
(* each one only after the other end did what sends it.                     *)
(***************************************************************************)
Kind == {"CONNECT", "ACK", "OK", "push", "close", "request", "answer"}
Data == {"close", "push", "request", "answer"}
Honest == {"INCORRECT_PUBKEY_FOR_REMOTE", "REJECTED_PUBKEY", "ANSWER_TO_UNDEFINED_REQUEST"}

NotIn(s, k) == \A i \in 1..Len(s) : s[i].kind # k
AtMostOne(s, k) == \A i, j \in 1..Len(s) : s[i].kind = k /\ s[j].kind = k => i = j

\* The CONNECT of an end is still to be sent.
MaySendConnect(e) ==
    \/ e = "server" /\ phase["server"] = "idle"
    \/ e = "client" /\ ~IsSync /\ phase["client"] = "opening"
    \/ e = "client" /\ IsSync /\ ~registered["client"]

\* CONNECT, ACK and OK reach an end once each: a message, its check and its effect exclude one another.
Once(e) ==
    /\ \A k \in {"CONNECT", "ACK", "OK"} : AtMostOne(net[e], k)
    /\ "CONNECT" \in checking[e] \/ registered[e] => NotIn(net[e], "CONNECT")
    /\ "CONNECT" \in checking[e] => ~registered[e]
    /\ "ACK" \in checking[e] \/ acked[e] => NotIn(net[e], "ACK")
    /\ "ACK" \in checking[e] => ~acked[e]
    /\ heard[e] => NotIn(net[e], "OK") /\ registered[e]

\* Nothing of a message is there before the other end has done what sends it.
After(e, o) ==
    /\ MaySendConnect(o) => NotIn(net[e], "CONNECT") /\ "CONNECT" \notin checking[e] /\ ~registered[e]
    /\ ~registered[o] => NotIn(net[e], "ACK") /\ "ACK" \notin checking[e] /\ ~acked[e]
    /\ ~acked[o] => NotIn(net[e], "OK") /\ ~heard[e] /\ NotIn(net[e], "request")

\* Data is exchanged by ends that authenticated each other.
DataInTurn(e) ==
    /\ phase[e] = "connected" => acked[e] /\ heard[e]
    /\ ~acked[e] => NotIn(net[e], "push") /\ NotIn(net[e], "request") /\ NotIn(net[e], "answer")

EndInv(e) == Once(e) /\ After(e, Other(e)) /\ DataInTurn(e)
ConnectionInv == ConnectionTypeOK /\ causes \in [End -> SUBSET Honest] /\ \A e \in End : EndInv(e)

----------------------------------------------------------------------------
(* What sending, taking and dropping do to the messages that await an end. *)

\* Nothing new is in t.
Shrinks(s, t) == \A k \in Kind : (NotIn(s, k) => NotIn(t, k)) /\ (AtMostOne(s, k) => AtMostOne(t, k))

\* One message of each of the kinds ks at most is new in t.
Gains(s, t, ks) ==
    \A k \in Kind :
        /\ NotIn(s, k) => AtMostOne(t, k)
        /\ k \notin ks => (NotIn(s, k) => NotIn(t, k)) /\ (AtMostOne(s, k) => AtMostOne(t, k))

LEMMA OtherEnd == Other("client") = "server" /\ Other("server") = "client"
  BY DEF Other, End

LEMMA Ends == \A e \in End : Other(e) \in End /\ Other(e) # e /\ Other(Other(e)) = e /\ End = {e, Other(e)}
  BY OtherEnd DEF End

LEMMA NothingIn == ASSUME NEW k PROVE NotIn(<<>>, k) /\ AtMostOne(<<>>, k)
  BY DEF NotIn, AtMostOne

LEMMA ShrinksToNothing == ASSUME NEW s PROVE Shrinks(s, <<>>)
  BY NothingIn DEF Shrinks

LEMMA ShrinksToTail ==
    ASSUME NEW s \in Seq(Message), s # <<>>
    PROVE  /\ Tail(s) \in Seq(Message) /\ Head(s) \in Message
           /\ Shrinks(s, Tail(s))
           /\ \A k \in Kind : NotIn(s, k) => Head(s).kind # k
           /\ \A k \in Kind : AtMostOne(s, k) /\ Head(s).kind = k => NotIn(Tail(s), k)
<1>1. /\ Tail(s) \in Seq(Message) /\ Head(s) = s[1] /\ s[1] \in Message /\ Len(s) \in Nat \ {0}
      /\ Len(Tail(s)) = Len(s) - 1
  OBVIOUS
<1>2. \A i \in 1..Len(Tail(s)) : Tail(s)[i] = s[i + 1] /\ i + 1 \in 1..Len(s) /\ i + 1 # 1
  BY <1>1
<1>3. 1 \in 1..Len(s)
  BY <1>1
<1>4. ASSUME NEW k \in Kind, NotIn(s, k) PROVE NotIn(Tail(s), k) /\ Head(s).kind # k
  BY <1>1, <1>2, <1>3, <1>4 DEF NotIn
<1>5. ASSUME NEW k \in Kind, AtMostOne(s, k) PROVE AtMostOne(Tail(s), k)
  <2> SUFFICES ASSUME NEW i \in 1..Len(Tail(s)), NEW j \in 1..Len(Tail(s)),
                      Tail(s)[i].kind = k, Tail(s)[j].kind = k
               PROVE  i = j
    BY DEF AtMostOne
  <2>1. i + 1 \in 1..Len(s) /\ j + 1 \in 1..Len(s) /\ s[i + 1].kind = k /\ s[j + 1].kind = k
    BY <1>2
  <2>2. i + 1 = j + 1
    BY <1>5, <2>1 DEF AtMostOne
  <2> QED BY <1>1, <2>2
<1>6. ASSUME NEW k \in Kind, AtMostOne(s, k), Head(s).kind = k PROVE NotIn(Tail(s), k)
  BY <1>1, <1>2, <1>3, <1>6 DEF NotIn, AtMostOne
<1> QED BY <1>1, <1>4, <1>5, <1>6 DEF Shrinks

LEMMA GainsNothing ==
    ASSUME NEW s, NEW ks
    PROVE  Shrinks(s, s) /\ (\A k \in Kind : NotIn(s, k) => AtMostOne(s, k)) /\ Gains(s, s, ks)
  BY DEF Shrinks, Gains, NotIn, AtMostOne

LEMMA GainsOne ==
    ASSUME NEW s \in Seq(Message), NEW m \in Message
    PROVE  s \o <<m>> \in Seq(Message) /\ Gains(s, s \o <<m>>, {m.kind})
<1> DEFINE t == s \o <<m>>
<1>1. /\ t \in Seq(Message) /\ Len(s) \in Nat /\ Len(t) = Len(s) + 1 /\ t[Len(s) + 1] = m
      /\ \A i \in 1..Len(s) : t[i] = s[i]
  OBVIOUS
<1>2. \A i \in 1..Len(t) : i \in 1..Len(s) \/ i = Len(s) + 1
  BY <1>1
<1>3. ASSUME NEW k \in Kind, NotIn(s, k) PROVE AtMostOne(t, k)
  BY <1>1, <1>2, <1>3 DEF NotIn, AtMostOne
<1>4. ASSUME NEW k \in Kind, k # m.kind PROVE (NotIn(s, k) => NotIn(t, k)) /\ (AtMostOne(s, k) => AtMostOne(t, k))
  BY <1>1, <1>2, <1>4 DEF NotIn, AtMostOne
<1> QED BY <1>1, <1>3, <1>4 DEF Gains

LEMMA GainsTwo ==
    ASSUME NEW s \in Seq(Message), NEW m \in Message, NEW n \in Message, m.kind # n.kind
    PROVE  s \o (<<m>> \o <<n>>) \in Seq(Message) /\ Gains(s, s \o (<<m>> \o <<n>>), {m.kind, n.kind})
<1>1. s \o (<<m>> \o <<n>>) = (s \o <<m>>) \o <<n>>
  OBVIOUS
<1>2. s \o <<m>> \in Seq(Message) /\ Gains(s, s \o <<m>>, {m.kind})
  BY GainsOne
<1>3. (s \o <<m>>) \o <<n>> \in Seq(Message) /\ Gains(s \o <<m>>, (s \o <<m>>) \o <<n>>, {n.kind})
  BY GainsOne, <1>2
<1> QED BY <1>1, <1>2, <1>3 DEF Gains

----------------------------------------------------------------------------
(* Steps that change no authentication: an end may close, and data may be sent. *)

\* No end becomes connected, or waits to open again.
Fades == \A x \in End : phase'[x] \in {phase[x], "asking", "closed"}

\* The messages of an end are taken in order, those of the other one gain one of the kinds ks.
Mail(e, ks) == Shrinks(net[e], net'[e]) /\ Gains(net[Other(e)], net'[Other(e)], ks)

LEMMA FadingStep ==
    ASSUME ConnectionInv, ConnectionTypeOK', NEW e \in End, NEW ks \in SUBSET Data,
           UNCHANGED <<purpose, registered, heard, acked>>, \A x \in End : checking'[x] \subseteq checking[x],
           Fades, Mail(e, ks), causes' \in [End -> SUBSET Honest],
           ks \subseteq {"close"} \/ (acked[e] /\ acked[Other(e)])
    PROVE  ConnectionInv'
<1> DEFINE o == Other(e)
<1>1. o \in End /\ o # e /\ Other(o) = e /\ End = {e, o}
  BY Ends
<1>2. /\ registered' = registered /\ heard' = heard /\ acked' = acked /\ purpose' = purpose
      /\ \A x \in End : \A k : k \notin checking[x] => k \notin checking'[x]
  OBVIOUS
<1>3. EndInv(e) /\ EndInv(o)
  BY <1>1 DEF ConnectionInv
<1>4. \A k \in {"CONNECT", "ACK", "OK"} :
        /\ NotIn(net[e], k) => NotIn(net'[e], k)
        /\ AtMostOne(net[e], k) => AtMostOne(net'[e], k)
        /\ NotIn(net[o], k) => NotIn(net'[o], k)
        /\ AtMostOne(net[o], k) => AtMostOne(net'[o], k)
  BY DEF Mail, Shrinks, Gains, Kind, Data
<1>5. \A k \in {"push", "request", "answer"} :
        /\ NotIn(net[e], k) => NotIn(net'[e], k)
        /\ NotIn(net[o], k) /\ ~(acked[e] /\ acked[o]) => NotIn(net'[o], k)
  <2>1. \A k \in {"push", "request", "answer"} : ~(acked[e] /\ acked[o]) => k \notin ks
    OBVIOUS
  <2> QED BY <2>1 DEF Mail, Shrinks, Gains, Kind
<1>6. \A x \in End : MaySendConnect(x)' => MaySendConnect(x)
  BY <1>2 DEF Fades, MaySendConnect, IsSync, End
<1>7. ASSUME NEW x \in End PROVE EndInv(x)'
  <2>1. /\ \A k \in {"CONNECT", "ACK", "OK"} :
             /\ NotIn(net[x], k) => NotIn(net'[x], k)
             /\ AtMostOne(net[x], k) => AtMostOne(net'[x], k)
        /\ NotIn(net[x], "request") /\ ~(acked[e] /\ acked[o]) => NotIn(net'[x], "request")
        /\ \A k \in {"push", "request", "answer"} : NotIn(net[x], k) /\ ~acked[x] => NotIn(net'[x], k)
    BY <1>1, <1>4, <1>5
  <2>2. Once(x)'
    <3>1. Once(x)
      BY <1>1, <1>3 DEF EndInv
    <3> QED BY <1>2, <2>1, <3>1 DEF Once
  <2>3. After(x, Other(x))'
    <3>1. After(x, Other(x)) /\ Other(x) \in End /\ (~acked[Other(x)] => ~(acked[e] /\ acked[o]))
      BY <1>1, <1>3, Ends DEF EndInv
    <3>2. PICK y \in End : y = Other(x)
      BY <3>1
    <3>3. /\ MaySendConnect(y)' => NotIn(net'[x], "CONNECT") /\ "CONNECT" \notin checking'[x] /\ ~registered'[x]
          /\ ~registered'[y] => NotIn(net'[x], "ACK") /\ "ACK" \notin checking'[x] /\ ~acked'[x]
          /\ ~acked'[y] => NotIn(net'[x], "OK") /\ ~heard'[x] /\ NotIn(net'[x], "request")
      BY <1>2, <1>6, <2>1, <3>1, <3>2 DEF After
    <3> QED BY <3>2, <3>3 DEF After
  <2>4. DataInTurn(x)'
    <3>1. DataInTurn(x) /\ phase'[x] \in {phase[x], "asking", "closed"}
      BY <1>1, <1>3 DEF EndInv, Fades
    <3> QED BY <1>2, <2>1, <3>1 DEF DataInTurn
  <2> QED BY <2>2, <2>3, <2>4 DEF EndInv
<1> QED BY <1>7 DEF ConnectionInv

\* What a message is.
LEMMA Sayings == /\ \A k \in {"CONNECT", "ACK", "OK", "push", "close"} : Say(k) \in Message /\ Say(k).kind = k
                 /\ \A k \in {"request", "answer"} : \A id \in 1..MaxRequests :
                       [kind |-> k, id |-> id] \in Message /\ [kind |-> k, id |-> id].kind = k
                 /\ \A m \in Message : /\ m.kind \in Kind
                                       /\ m.kind \in {"request", "answer"} => m.id \in 1..MaxRequests
  BY DEF Say, Message, Kind

\* A box whose first messages are gone, to which one message may be added on the other side.
Box == [End -> Seq(Message)]

LEMMA Posting ==
    ASSUME NEW e \in End, NEW box \in Box, NEW m \in Message
    PROVE  /\ Post(e, box, <<m>>) \in Box /\ Post(e, box, <<m>>)[e] = box[e]
           /\ Post(e, box, <<m>>)[Other(e)] = box[Other(e)] \o <<m>>
           /\ Gains(box[Other(e)], Post(e, box, <<m>>)[Other(e)], {m.kind})
  BY Ends, GainsOne DEF Post, Box

LEMMA Taking ==
    ASSUME ConnectionTypeOK, NEW e \in End, net[e] # <<>>
    PROVE  /\ Taken(e) \in Box /\ Taken(e)[Other(e)] = net[Other(e)] /\ Taken(e)[e] = Tail(net[e])
           /\ Shrinks(net[e], Taken(e)[e]) /\ Head(net[e]) \in Message
           /\ \A k \in Kind : NotIn(net[e], k) => Head(net[e]).kind # k
           /\ \A k \in Kind : AtMostOne(net[e], k) /\ Head(net[e]).kind = k => NotIn(Taken(e)[e], k)
<1>1. net[e] \in Seq(Message)
  BY DEF ConnectionTypeOK
<1>2. Taken(e)[e] = Tail(net[e]) /\ Taken(e)[Other(e)] = net[Other(e)]
  BY Ends DEF Taken, ConnectionTypeOK
<1>3. Taken(e) \in Box
  BY <1>1, ShrinksToTail DEF Taken, Box, ConnectionTypeOK
<1> QED BY <1>1, <1>2, <1>3, ShrinksToTail

\* The end of a socket, or an error of an end: its own box is that given or empty, that of the other one may get a close.
Ended(e, box) ==
    /\ Fades /\ phase' \in [End -> {"idle", "opening", "asking", "connected", "closed"}]
    /\ net' \in Box /\ Shrinks(box[e], net'[e]) /\ Gains(box[Other(e)], net'[Other(e)], {"close"})

LEMMA Ending ==
    ASSUME ConnectionTypeOK, NEW e \in End, NEW box \in Box, Terminate(e, box)
    PROVE  Ended(e, box)
<1> DEFINE b == [box EXCEPT ![e] = <<>>]
<1>1. b \in Box /\ b[e] = <<>> /\ b[Other(e)] = box[Other(e)]
  BY Ends DEF Box
<1>2. net' = Post(e, b, <<Say("close")>>)
  BY DEF Terminate
<1>3. net' \in Box /\ net'[e] = <<>> /\ Gains(box[Other(e)], net'[Other(e)], {"close"})
  BY <1>1, <1>2, Posting, Sayings
<1>4. Fades /\ phase' \in [End -> {"idle", "opening", "asking", "connected", "closed"}]
  BY DEF Terminate, Fades, ConnectionTypeOK
<1> QED BY <1>3, <1>4, ShrinksToNothing DEF Ended

LEMMA Failing ==
    ASSUME ConnectionInv, NEW e \in End, NEW box \in Box, NEW cause \in Honest, ErrorDetected(e, cause, box)
    PROVE  Ended(e, box) /\ causes' \in [End -> SUBSET Honest] /\ nbErrors' \in [End -> Nat]
<1> USE DEF ConnectionInv
<1>1. causes' \in [End -> SUBSET Honest] /\ nbErrors' \in [End -> Nat]
  BY DEF ErrorDetected, ConnectionTypeOK
<1>2. CASE Terminate(e, box)
  BY <1>1, <1>2, Ending
<1>3. CASE phase' = phase /\ net' = box
  BY <1>1, <1>3, GainsNothing DEF Ended, Fades, ConnectionTypeOK
<1> QED BY <1>2, <1>3 DEF ErrorDetected

\* An error or an end, once the head of the messages is taken or not, changes nothing else.
LEMMA EndedStep ==
    ASSUME ConnectionInv, NEW e \in End, UNCHANGED <<purpose, registered, heard, acked, sent>>,
           checking' \in [End -> SUBSET {"CONNECT", "ACK"}], \A x \in End : checking'[x] \subseteq checking[x],
           pending' \in [End -> SUBSET (1..MaxRequests)], nbErrors' \in [End -> Nat], causes' \in [End -> SUBSET Honest],
           \/ Ended(e, net)
           \/ net[e] # <<>> /\ Ended(e, Taken(e))
    PROVE  ConnectionInv'
<1> USE DEF ConnectionInv
<1>1. net \in Box
  BY DEF Box, ConnectionTypeOK
<1>2. Mail(e, {"close"}) /\ Fades /\ net' \in Box /\ phase' \in [End -> {"idle", "opening", "asking", "connected", "closed"}]
  <2>1. CASE Ended(e, net)
    BY <2>1 DEF Ended, Mail
  <2>2. CASE net[e] # <<>> /\ Ended(e, Taken(e))
    <3>1. Shrinks(net[e], Taken(e)[e]) /\ Taken(e)[Other(e)] = net[Other(e)]
      BY <2>2, Taking
    <3>2. Shrinks(Taken(e)[e], net'[e]) /\ Gains(net[Other(e)], net'[Other(e)], {"close"})
      BY <2>2, <3>1 DEF Ended
    <3>3. Shrinks(net[e], net'[e])
      BY <3>1, <3>2 DEF Shrinks
    <3> QED BY <2>2, <3>2, <3>3 DEF Ended, Mail
  <2> QED BY <2>1, <2>2
<1>3. ConnectionTypeOK'
  BY <1>2 DEF ConnectionTypeOK, Box
<1> QED BY <1>2, <1>3, FadingStep, {"close"} \in SUBSET Data DEF Data

LEMMA TimeoutStep == ASSUME ConnectionInv, NEW e \in End, Timeout(e) PROVE ConnectionInv'
<1> USE DEF ConnectionInv
<1>1. net \in Box
  BY DEF Box, ConnectionTypeOK
<1>2. CASE phase["server"] = "idle"
  <2>1. Ended(e, net)
    BY <1>1, <1>2, GainsNothing DEF Timeout, Ended, Fades, End
  <2> QED BY <2>1, EndedStep DEF Timeout, exchangeVars, errorVars, authVars, ConnectionTypeOK
<1>3. CASE phase["server"] # "idle"
  <2>1. Ended(e, net)
    BY <1>1, <1>3, Ending DEF Timeout
  <2> QED BY <2>1, EndedStep DEF Timeout, exchangeVars, errorVars, authVars, ConnectionTypeOK
<1> QED BY <1>2, <1>3

LEMMA LeaveStep == ASSUME ConnectionInv, NEW e \in End, Leave(e) PROVE ConnectionInv'
<1> USE DEF ConnectionInv
<1>1. Ended(e, net)
  BY Ending DEF Leave, Box, ConnectionTypeOK
<1> QED BY <1>1, EndedStep DEF Leave, exchangeVars, errorVars, authVars, ConnectionTypeOK

LEMMA ReceiveCloseStep == ASSUME ConnectionInv, NEW e \in End, ReceiveClose(e) PROVE ConnectionInv'
<1> USE DEF ConnectionInv
<1>1. /\ net' \in Box /\ net'[e] = <<>> /\ net'[Other(e)] = net[Other(e)]
      /\ Fades /\ phase' \in [End -> {"idle", "opening", "asking", "connected", "closed"}]
  BY Ends DEF ReceiveClose, Box, ConnectionTypeOK, Fades
<1>2. Ended(e, net)
  BY <1>1, ShrinksToNothing, GainsNothing DEF Ended
<1> QED BY <1>2, EndedStep DEF ReceiveClose, exchangeVars, errorVars, authVars, ConnectionTypeOK

LEMMA RequestTimeoutStep ==
    ASSUME ConnectionInv, NEW e \in End, NEW id \in 1..MaxRequests, RequestTimeout(e, id) PROVE ConnectionInv'
<1> USE DEF ConnectionInv
<1>1. Ended(e, net)
  BY GainsNothing DEF RequestTimeout, Ended, Fades, Box, ConnectionTypeOK
<1> QED BY <1>1, EndedStep DEF RequestTimeout, errorVars, authVars, ConnectionTypeOK

----------------------------------------------------------------------------
(* Pushes, requests and answers. *)

\* An end connected to the other one was accepted by it, and accepted it.
LEMMA Authenticated ==
    ASSUME ConnectionInv, NEW e \in End
    PROVE  /\ phase[e] = "connected" => acked[e] /\ acked[Other(e)]
           /\ net[e] # <<>> /\ Head(net[e]).kind = "request" => acked[Other(e)]
           /\ net[e] # <<>> /\ Head(net[e]).kind \in {"push", "request", "answer"} => acked[e]
<1>1. EndInv(e) /\ ConnectionTypeOK
  BY DEF ConnectionInv
<1>2. phase[e] = "connected" => acked[e] /\ acked[Other(e)]
  BY <1>1 DEF EndInv, After, DataInTurn
<1>3. net[e] # <<>> => \A k \in Kind : NotIn(net[e], k) => Head(net[e]).kind # k
  BY <1>1, Taking
<1> QED BY <1>1, <1>2, <1>3 DEF EndInv, After, DataInTurn, Kind

LEMMA PushDataStep == ASSUME ConnectionInv, NEW e \in End, PushData(e) PROVE ConnectionInv'
<1> USE DEF ConnectionInv
<1>1. net \in Box /\ net' = Post(e, net, <<Say("push")>>)
  BY DEF Box, ConnectionTypeOK, PushData
<1>2. net' \in Box /\ Mail(e, {"push"})
  BY <1>1, Posting, Sayings, GainsNothing DEF Mail
<1>3. ConnectionTypeOK'
  BY <1>2 DEF PushData, ConnectionTypeOK, authVars, errorVars, Box
<1>4. Fades /\ {"push"} \in SUBSET Data
  BY DEF PushData, Fades, Data
<1> QED BY <1>2, <1>3, <1>4, Authenticated, FadingStep DEF PushData, authVars, errorVars

LEMMA RequestStep == ASSUME ConnectionInv, NEW e \in End, Request(e) PROVE ConnectionInv'
<1> USE DEF ConnectionInv
<1> DEFINE id == sent[e].requests + 1
<1>1. net \in Box /\ net' = Post(e, net, <<[kind |-> "request", id |-> id]>>) /\ id \in 1..MaxRequests
  BY ConnectionAssumption DEF Box, ConnectionTypeOK, Request
<1>2. net' \in Box /\ Mail(e, {"request"})
  BY <1>1, Posting, Sayings, GainsNothing DEF Mail
<1>3. sent' \in [End -> [requests : 0..MaxRequests, pushed : BOOLEAN]] /\ pending' \in [End -> SUBSET (1..MaxRequests)]
  <2>1. \A x \in End : sent[x].requests \in 0..MaxRequests
    BY DEF ConnectionTypeOK
  <2>2. id \in 0..MaxRequests
    BY <1>1
  <2> QED BY <1>1, <2>1, <2>2 DEF Request, ConnectionTypeOK
<1>4. ConnectionTypeOK'
  BY <1>2, <1>3 DEF Request, ConnectionTypeOK, authVars, errorVars, Box
<1>5. Fades /\ {"request"} \in SUBSET Data
  BY DEF Request, Fades, Data
<1> QED BY <1>2, <1>4, <1>5, Authenticated, FadingStep DEF Request, authVars, errorVars

LEMMA ReceiveDataStep == ASSUME ConnectionInv, NEW e \in End, ReceiveData(e) PROVE ConnectionInv'
<1> USE DEF ConnectionInv
<1> DEFINE msg == Head(net[e])
<1>1. net[e] # <<>> /\ acked[e] /\ Taken(e) \in Box /\ msg \in Message
  BY Authenticated, Taking DEF ReceiveData
<1>2. CASE msg.kind # "answer" /\ msg.kind # "push" /\ net' = Post(e, Taken(e), <<[kind |-> "answer", id |-> msg.id]>>)
           /\ UNCHANGED <<phase, pending, errorVars>>
  <2>1. msg.kind = "request" /\ acked[Other(e)] /\ msg.id \in 1..MaxRequests
    BY <1>1, <1>2, Authenticated, Sayings DEF ReceiveData
  <2>2. net' \in Box /\ Mail(e, {"answer"})
    BY <1>1, <1>2, <2>1, Posting, Sayings, Taking DEF Mail
  <2>3. ConnectionTypeOK'
    BY <1>2, <2>2 DEF ReceiveData, ConnectionTypeOK, authVars, errorVars, Box
  <2>4. Fades /\ {"answer"} \in SUBSET Data
    BY <1>2 DEF Fades, Data
  <2> QED BY <1>1, <1>2, <2>1, <2>2, <2>3, <2>4, FadingStep DEF ReceiveData, authVars, errorVars
<1>3. CASE net' = Taken(e) /\ UNCHANGED <<phase, errorVars>> /\ pending' \in [End -> SUBSET (1..MaxRequests)]
  <2>1. Ended(e, Taken(e))
    BY <1>1, <1>3, GainsNothing DEF Ended, Fades, ConnectionTypeOK
  <2> QED BY <1>1, <1>3, <2>1, EndedStep DEF ReceiveData, errorVars, authVars, ConnectionTypeOK
<1>4. CASE ErrorDetected(e, "ANSWER_TO_UNDEFINED_REQUEST", Taken(e)) /\ UNCHANGED pending
  <2>1. Ended(e, Taken(e)) /\ causes' \in [End -> SUBSET Honest] /\ nbErrors' \in [End -> Nat]
    BY <1>1, <1>4, Failing DEF Honest
  <2> QED BY <1>1, <1>4, <2>1, EndedStep DEF ReceiveData, authVars, ConnectionTypeOK
<1>5. \/ pending' = pending /\ UNCHANGED <<phase, errorVars>> /\ net' = Taken(e)
      \/ /\ UNCHANGED <<phase, pending, errorVars>> /\ msg.kind # "push" /\ msg.kind # "answer"
         /\ net' = Post(e, Taken(e), <<[kind |-> "answer", id |-> msg.id]>>)
      \/ pending' = [pending EXCEPT ![e] = @ \ {msg.id}] /\ net' = Taken(e) /\ UNCHANGED <<phase, errorVars>>
      \/ ErrorDetected(e, "ANSWER_TO_UNDEFINED_REQUEST", Taken(e)) /\ UNCHANGED pending
  BY <1>1 DEF ReceiveData, errorVars
<1>6. ASSUME NEW s PROVE [pending EXCEPT ![e] = @ \ s] \in [End -> SUBSET (1..MaxRequests)]
                       /\ pending \in [End -> SUBSET (1..MaxRequests)]
  BY DEF ConnectionTypeOK
<1> QED BY <1>2, <1>3, <1>4, <1>5, <1>6 DEF errorVars

----------------------------------------------------------------------------
(* CONNECT, ACK and OK. *)

LEMMA SendConnectStep ==
    ASSUME ConnectionInv, NEW e \in End, MaySendConnect(e), ~MaySendConnect(e)', Fades,
           UNCHANGED <<purpose, authVars, exchangeVars, errorVars>>,
           phase' \in [End -> {"idle", "opening", "asking", "connected", "closed"}],
           net' = Post(e, net, <<Say("CONNECT")>>)
    PROVE  ConnectionInv'
<1> USE DEF ConnectionInv
<1> DEFINE o == Other(e)
<1>1. o \in End /\ o # e /\ Other(o) = e /\ End = {e, o}
  BY Ends
<1>2. net' \in Box /\ net'[e] = net[e] /\ Gains(net[o], net'[o], {"CONNECT"})
  BY Posting, Sayings DEF Box, ConnectionTypeOK
<1>3. ConnectionTypeOK'
  BY <1>2 DEF ConnectionTypeOK, Box, authVars, exchangeVars, errorVars
<1>4. UNCHANGED <<registered, heard, acked, checking>> /\ \A x \in End : MaySendConnect(x)' => MaySendConnect(x)
  BY DEF authVars, Fades, MaySendConnect, IsSync, End
<1>5. NotIn(net[o], "CONNECT") /\ "CONNECT" \notin checking[o] /\ ~registered[o]
  BY <1>1 DEF EndInv, After
<1>6. /\ AtMostOne(net'[o], "CONNECT")
      /\ \A k \in {"ACK", "OK", "push", "request", "answer"} :
            (NotIn(net[o], k) => NotIn(net'[o], k)) /\ (AtMostOne(net[o], k) => AtMostOne(net'[o], k))
  BY <1>2, <1>5 DEF Gains, Kind
<1>7. Once(e)' /\ Once(o)'
  BY <1>1, <1>2, <1>4, <1>5, <1>6 DEF EndInv, Once
<1>8. After(e, o)' /\ After(o, e)'
  BY <1>1, <1>2, <1>4, <1>6 DEF EndInv, After
<1>9. DataInTurn(e)' /\ DataInTurn(o)'
  BY <1>1, <1>2, <1>4, <1>6 DEF EndInv, DataInTurn, Fades
<1> QED BY <1>1, <1>3, <1>7, <1>8, <1>9 DEF EndInv, errorVars

LEMMA ServeStep == ASSUME ConnectionInv, Serve PROVE ConnectionInv'
<1>1. /\ MaySendConnect("server") /\ ~MaySendConnect("server")' /\ Fades /\ "server" \in End
      /\ phase' \in [End -> {"idle", "opening", "asking", "connected", "closed"}]
  BY DEF ConnectionInv, ConnectionTypeOK, Serve, MaySendConnect, Fades, End
<1> QED BY <1>1, SendConnectStep DEF Serve, SendConnect

LEMMA OpenedStep == ASSUME ConnectionInv, Opened PROVE ConnectionInv'
<1> USE DEF ConnectionInv
<1>1. /\ Fades /\ "client" \in End
      /\ phase' \in [End -> {"idle", "opening", "asking", "connected", "closed"}]
  BY DEF ConnectionTypeOK, Opened, Fades, End
<1>2. CASE IsSync
  <2>1. net \in Box /\ net' = Post("client", net, <<>>)
    BY <1>2 DEF Opened, SendConnect, Box, ConnectionTypeOK
  <2>2. net' = net
    <3>1. net["server"] \in Seq(Message)
      BY <2>1 DEF Box, End
    <3>2. net["server"] \o <<>> = net["server"]
      BY <3>1
    <3> QED BY <2>1, <3>2, OtherEnd DEF Post, Box
  <2>3. Ended("client", net)
    BY <1>1, <2>1, <2>2, GainsNothing, Ends DEF Ended
  <2> QED BY <1>1, <2>3, EndedStep DEF Opened, authVars, exchangeVars, errorVars, ConnectionTypeOK
<1>3. CASE ~IsSync
  <2>1. MaySendConnect("client") /\ ~MaySendConnect("client")'
    BY <1>3 DEF Opened, MaySendConnect, IsSync, ConnectionTypeOK, End
  <2> QED BY <1>1, <1>3, <2>1, SendConnectStep DEF Opened, SendConnect
<1> QED BY <1>2, <1>3

\* A message whose key is being checked: it is taken, and nothing else changes.
LEMMA CheckStep ==
    ASSUME ConnectionInv, NEW e \in End, NEW k \in {"CONNECT", "ACK"}, net[e] # <<>>, Head(net[e]).kind = k,
           checking' = [checking EXCEPT ![e] = @ \cup {k}], net' = Taken(e),
           UNCHANGED <<phase, errorVars, purpose, registered, heard, acked, exchangeVars>>
    PROVE  ConnectionInv'
<1> USE DEF ConnectionInv
<1> DEFINE o == Other(e)
<1>1. o \in End /\ o # e /\ Other(o) = e /\ End = {e, o}
  BY Ends
<1>2. /\ net' \in Box /\ net'[o] = net[o] /\ Shrinks(net[e], net'[e])
      /\ ~NotIn(net[e], k) /\ (AtMostOne(net[e], k) => NotIn(net'[e], k))
  BY Taking DEF Kind
<1>3. checking'[e] = checking[e] \cup {k} /\ checking'[o] = checking[o] /\ checking' \in [End -> SUBSET {"CONNECT", "ACK"}]
  BY <1>1 DEF ConnectionTypeOK
<1>4. ConnectionTypeOK'
  BY <1>2, <1>3 DEF ConnectionTypeOK, Box, exchangeVars, errorVars
<1>5. Once(e) /\ Once(o) /\ After(e, o) /\ After(o, e) /\ DataInTurn(e) /\ DataInTurn(o)
  BY <1>1 DEF EndInv
<1>6. /\ \A x \in End : MaySendConnect(x)' => MaySendConnect(x)
      /\ \A j \in {"CONNECT", "ACK", "OK", "push", "request", "answer"} :
            (NotIn(net[e], j) => NotIn(net'[e], j)) /\ (AtMostOne(net[e], j) => AtMostOne(net'[e], j))
  BY <1>2 DEF MaySendConnect, IsSync, Shrinks, Kind
<1>7. Once(e)' /\ Once(o)'
  BY <1>2, <1>3, <1>5, <1>6 DEF Once
<1>8. After(e, o)' /\ After(o, e)'
  BY <1>1, <1>2, <1>3, <1>5, <1>6 DEF After
<1>9. DataInTurn(e)' /\ DataInTurn(o)'
  BY <1>2, <1>5, <1>6 DEF DataInTurn
<1> QED BY <1>1, <1>4, <1>7, <1>8, <1>9 DEF EndInv, errorVars

LEMMA ReceiveConnectStep == ASSUME ConnectionInv, NEW e \in End, ReceiveConnect(e) PROVE ConnectionInv'
<1> USE DEF ConnectionInv
<1>1. net[e] # <<>> /\ Head(net[e]).kind = "CONNECT" /\ Taken(e) \in Box /\ ~NotIn(net[e], "CONNECT")
  BY Taking DEF ReceiveConnect, Kind
<1>2. ~heard[e]
  BY <1>1 DEF EndInv, Once
<1>3. CASE ErrorDetected(e, "INCORRECT_PUBKEY_FOR_REMOTE", Taken(e)) /\ UNCHANGED checking
  <2>1. Ended(e, Taken(e)) /\ causes' \in [End -> SUBSET Honest] /\ nbErrors' \in [End -> Nat]
    BY <1>1, <1>3, Failing DEF Honest
  <2> QED BY <1>1, <1>3, <2>1, EndedStep DEF ReceiveConnect, exchangeVars, ConnectionTypeOK
<1>4. CASE /\ checking' = [checking EXCEPT ![e] = @ \cup {"CONNECT"}] /\ net' = Taken(e)
           /\ UNCHANGED <<phase, errorVars>>
  BY <1>1, <1>4, CheckStep DEF ReceiveConnect, errorVars
<1> QED BY <1>2, <1>3, <1>4 DEF ReceiveConnect

LEMMA ReceiveAckStep == ASSUME ConnectionInv, NEW e \in End, ReceiveAck(e) PROVE ConnectionInv'
<1> USE DEF ConnectionInv
<1>1. net[e] # <<>> /\ Head(net[e]).kind = "ACK" /\ Taken(e) \in Box /\ ~NotIn(net[e], "ACK")
  BY Taking DEF ReceiveAck, Kind
<1>2. ~acked[e]
  BY <1>1 DEF EndInv, Once
<1>3. CASE ErrorDetected(e, "INCORRECT_PUBKEY_FOR_REMOTE", Taken(e)) /\ UNCHANGED checking
  <2>1. Ended(e, Taken(e)) /\ causes' \in [End -> SUBSET Honest] /\ nbErrors' \in [End -> Nat]
    BY <1>1, <1>3, Failing DEF Honest
  <2> QED BY <1>1, <1>3, <2>1, EndedStep DEF ReceiveAck, exchangeVars, ConnectionTypeOK
<1>4. CASE /\ checking' = [checking EXCEPT ![e] = @ \cup {"ACK"}] /\ net' = Taken(e)
           /\ UNCHANGED <<phase, errorVars>>
  BY <1>1, <1>4, CheckStep DEF ReceiveAck, errorVars
<1> QED BY <1>2, <1>3, <1>4 DEF ReceiveAck

\* The CONNECT of the other end is accepted: an ACK is sent, after the CONNECT that waited for the currency.
LEMMA RegisterStep ==
    ASSUME ConnectionInv, NEW e \in End, "CONNECT" \in checking[e], RegisterConnect(e, TRUE),
           registered' = [registered EXCEPT ![e] = TRUE],
           net' = Post(e, net, (IF e = "client" /\ IsSync THEN <<Say("CONNECT")>> ELSE <<>>) \o <<Say("ACK")>>),
           UNCHANGED <<phase, errorVars>>
    PROVE  ConnectionInv'
<1> USE DEF ConnectionInv
<1> DEFINE o == Other(e)
<1>1. o \in End /\ o # e /\ Other(o) = e /\ End = {e, o} /\ net \in Box
  BY Ends DEF ConnectionTypeOK, Box
<1>2. /\ net' \in Box /\ net'[e] = net[e]
      /\ \/ e = "client" /\ IsSync /\ Gains(net[o], net'[o], {"CONNECT", "ACK"})
         \/ Gains(net[o], net'[o], {"ACK"})
  <2>1. CASE e = "client" /\ IsSync
    <3>1. net' = [net EXCEPT ![o] = @ \o (<<Say("CONNECT")>> \o <<Say("ACK")>>)]
      BY <2>1 DEF Post
    <3>2. /\ net[o] \o (<<Say("CONNECT")>> \o <<Say("ACK")>>) \in Seq(Message)
          /\ Gains(net[o], net[o] \o (<<Say("CONNECT")>> \o <<Say("ACK")>>), {"CONNECT", "ACK"})
      BY <1>1, GainsTwo, Sayings DEF Box
    <3>3. net' \in Box /\ net'[e] = net[e] /\ net'[o] = net[o] \o (<<Say("CONNECT")>> \o <<Say("ACK")>>)
      BY <1>1, <3>1, <3>2 DEF Box
    <3> QED BY <2>1, <3>2, <3>3
  <2>2. CASE ~(e = "client" /\ IsSync)
    <3>1. <<>> \o <<Say("ACK")>> = <<Say("ACK")>>
      OBVIOUS
    <3>2. net' = Post(e, net, <<Say("ACK")>>)
      BY <2>2, <3>1
    <3>3. Say("ACK") \in Message /\ Say("ACK").kind = "ACK"
      BY Sayings
    <3>4. /\ Post(e, net, <<Say("ACK")>>) \in Box /\ Post(e, net, <<Say("ACK")>>)[e] = net[e]
          /\ Gains(net[o], Post(e, net, <<Say("ACK")>>)[o], {"ACK"})
      BY <1>1, <3>3, Posting
    <3> QED BY <3>2, <3>4
  <2> QED BY <2>1, <2>2
<1>3. checking' = [checking EXCEPT ![e] = @ \ {"CONNECT"}] /\ UNCHANGED <<purpose, heard, acked, exchangeVars>>
  BY DEF RegisterConnect
<1>4. /\ checking'[e] = checking[e] \ {"CONNECT"} /\ checking'[o] = checking[o]
      /\ checking' \in [End -> SUBSET {"CONNECT", "ACK"}]
      /\ registered'[e] = TRUE /\ registered'[o] = registered[o] /\ registered' \in [End -> BOOLEAN]
  BY <1>1, <1>3 DEF ConnectionTypeOK
<1>5. ConnectionTypeOK'
  <2>1. purpose' = purpose /\ heard' = heard /\ acked' = acked /\ pending' = pending /\ sent' = sent
    BY <1>3 DEF exchangeVars
  <2>2. phase' = phase /\ nbErrors' = nbErrors
    BY DEF errorVars
  <2>3. {registered', heard', acked'} \subseteq [End -> BOOLEAN]
    BY <1>4, <2>1 DEF ConnectionTypeOK
  <2> QED BY <1>2, <1>4, <2>1, <2>2, <2>3 DEF ConnectionTypeOK, Box
<1>6. Once(e) /\ Once(o) /\ After(e, o) /\ After(o, e) /\ DataInTurn(e) /\ DataInTurn(o)
  BY <1>1 DEF EndInv
<1>7. NotIn(net[e], "CONNECT") /\ ~registered[e] /\ NotIn(net[o], "ACK") /\ "ACK" \notin checking[o] /\ ~acked[o]
      /\ ~MaySendConnect(o)
  BY <1>6 DEF Once, After
<1>8. /\ AtMostOne(net'[o], "ACK")
      /\ \A k \in {"OK", "push", "request", "answer"} :
            (NotIn(net[o], k) => NotIn(net'[o], k)) /\ (AtMostOne(net[o], k) => AtMostOne(net'[o], k))
  BY <1>2, <1>7 DEF Gains, Kind
<1>9. /\ \A x \in End : MaySendConnect(x)' => MaySendConnect(x)
      /\ e = "client" /\ IsSync => MaySendConnect(e) /\ ~MaySendConnect(e)'
  BY <1>3, <1>4, <1>7, <1>1 DEF MaySendConnect, IsSync, End
<1>10. /\ AtMostOne(net'[o], "CONNECT")
       /\ \/ NotIn(net[o], "CONNECT") => NotIn(net'[o], "CONNECT")
          \/ ~registered[o] /\ "CONNECT" \notin checking[o] /\ ~MaySendConnect(e)'
  <2>1. CASE e = "client" /\ IsSync /\ Gains(net[o], net'[o], {"CONNECT", "ACK"})
    <3>1. NotIn(net[o], "CONNECT") /\ ~registered[o] /\ "CONNECT" \notin checking[o]
      BY <1>6, <1>9, <2>1 DEF After
    <3> QED BY <1>9, <2>1, <3>1 DEF Gains, Kind
  <2>2. CASE Gains(net[o], net'[o], {"ACK"})
    BY <1>6, <2>2 DEF Gains, Kind, Once
  <2> QED BY <1>2, <2>1, <2>2
<1>11. Once(e)' /\ Once(o)'
  <2>1. Once(e)'
    BY <1>2, <1>3, <1>4, <1>6, <1>7 DEF Once
  <2>2. Once(o)'
    BY <1>3, <1>4, <1>6, <1>7, <1>8, <1>10 DEF Once
  <2> QED BY <2>1, <2>2
<1>12. After(e, o)' /\ After(o, e)'
  <2>1. After(e, o)'
    BY <1>1, <1>2, <1>3, <1>4, <1>6, <1>7, <1>9 DEF After
  <2>2. After(o, e)'
    BY <1>1, <1>3, <1>4, <1>6, <1>7, <1>8, <1>9, <1>10 DEF After
  <2> QED BY <2>1, <2>2
<1>13. DataInTurn(e)' /\ DataInTurn(o)'
  BY <1>2, <1>3, <1>6, <1>8 DEF DataInTurn
<1> QED BY <1>1, <1>5, <1>11, <1>12, <1>13 DEF EndInv, errorVars

LEMMA RegisterConnectStep ==
    ASSUME ConnectionInv, NEW e \in End, NEW allow \in BOOLEAN, RegisterConnect(e, allow)
    PROVE  ConnectionInv'
<1> USE DEF ConnectionInv
<1>1. /\ \A x \in End : checking'[x] \subseteq checking[x] /\ checking' \in [End -> SUBSET {"CONNECT", "ACK"}]
      /\ net \in Box
  BY DEF RegisterConnect, ConnectionTypeOK, Box
<1>2. CASE UNCHANGED <<registered, net, phase, errorVars>>
  <2>1. Ended(e, net)
    BY <1>1, <1>2, GainsNothing DEF Ended, Fades, ConnectionTypeOK
  <2> QED BY <1>1, <1>2, <2>1, EndedStep DEF RegisterConnect, exchangeVars, errorVars, ConnectionTypeOK
<1>3. CASE ErrorDetected(e, "REJECTED_PUBKEY", net) /\ UNCHANGED registered
  <2>1. Ended(e, net) /\ causes' \in [End -> SUBSET Honest] /\ nbErrors' \in [End -> Nat]
    BY <1>1, <1>3, Failing DEF Honest
  <2> QED BY <1>1, <1>3, <2>1, EndedStep DEF RegisterConnect, exchangeVars, ConnectionTypeOK
<1>4. CASE /\ allow /\ registered' = [registered EXCEPT ![e] = TRUE]
           /\ net' = Post(e, net, (IF e = "client" /\ IsSync THEN <<Say("CONNECT")>> ELSE <<>>) \o <<Say("ACK")>>)
           /\ UNCHANGED <<phase, errorVars>>
  <2>1. allow = TRUE
    BY <1>4
  <2> QED BY <1>4, <2>1, RegisterStep DEF RegisterConnect
<1> QED BY <1>2, <1>3, <1>4 DEF RegisterConnect

\* Both promises of an end are resolved, or one of them only.
LEMMA Progressing ==
    ASSUME ConnectionTypeOK, NEW e \in End, NEW a \in BOOLEAN, NEW h \in BOOLEAN, phase' = Progress(e, a, h)
    PROVE  /\ phase' \in [End -> {"idle", "opening", "asking", "connected", "closed"}]
           /\ phase'[Other(e)] = phase[Other(e)]
           /\ phase'[e] = phase[e] \/ (a /\ h /\ phase[e] = "asking" /\ phase'[e] = "connected")
  BY Ends DEF Progress, ConnectionTypeOK

LEMMA RegisterAckStep == ASSUME ConnectionInv, NEW e \in End, NEW allow \in BOOLEAN, RegisterAck(e, allow) PROVE ConnectionInv'
<1> USE DEF ConnectionInv
<1> DEFINE o == Other(e)
<1>1. o \in End /\ o # e /\ Other(o) = e /\ End = {e, o} /\ net \in Box
  BY Ends DEF ConnectionTypeOK, Box
<1>2. /\ checking' = [checking EXCEPT ![e] = @ \ {"ACK"}] /\ acked' = [acked EXCEPT ![e] = allow]
      /\ purpose' = purpose /\ registered' = registered /\ heard' = heard /\ pending' = pending /\ sent' = sent
      /\ causes' = causes /\ nbErrors' = nbErrors /\ "ACK" \in checking[e]
  BY DEF RegisterAck, exchangeVars, errorVars
<1>3. /\ checking'[e] = checking[e] \ {"ACK"} /\ checking'[o] = checking[o]
      /\ checking' \in [End -> SUBSET {"CONNECT", "ACK"}]
      /\ acked'[e] = allow /\ acked'[o] = acked[o] /\ acked' \in [End -> BOOLEAN]
      /\ registered \in [End -> BOOLEAN] /\ heard \in [End -> BOOLEAN]
  BY <1>1, <1>2 DEF ConnectionTypeOK
<1>4. /\ phase' \in [End -> {"idle", "opening", "asking", "connected", "closed"}]
      /\ phase'[o] = phase[o]
      /\ phase'[e] = phase[e] \/ (allow /\ heard[e] /\ phase[e] = "asking" /\ phase'[e] = "connected")
  <2>1. phase' = Progress(e, acked'[e], heard[e])
    BY DEF RegisterAck
  <2> QED BY <1>3, <2>1, Progressing
<1>5. Once(e) /\ Once(o) /\ After(e, o) /\ After(o, e) /\ DataInTurn(e) /\ DataInTurn(o)
  BY <1>1 DEF EndInv
<1>6. ~acked[e] /\ registered[o] /\ ~heard[o] /\ NotIn(net[o], "OK") /\ NotIn(net[e], "ACK")
  BY <1>2, <1>5 DEF Once, After
<1>7. \A x \in End : MaySendConnect(x)' => MaySendConnect(x)
  BY <1>1, <1>2, <1>4 DEF MaySendConnect, IsSync
<1>8. CASE allow
  <2>1. net' = Post(e, net, <<Say("OK")>>)
    BY <1>8 DEF RegisterAck
  <2>2. Say("OK") \in Message /\ Say("OK").kind = "OK"
    BY Sayings
  <2>3. net' \in Box /\ net'[e] = net[e] /\ Gains(net[o], net'[o], {"OK"})
    BY <1>1, <2>1, <2>2, Posting
  <2>4. /\ AtMostOne(net'[o], "OK")
        /\ \A k \in {"CONNECT", "ACK", "push", "request", "answer"} :
              (NotIn(net[o], k) => NotIn(net'[o], k)) /\ (AtMostOne(net[o], k) => AtMostOne(net'[o], k))
    BY <1>6, <2>3 DEF Gains, Kind
  <2>5. Once(e)' /\ Once(o)'
    BY <1>2, <1>3, <1>5, <1>6, <2>3, <2>4 DEF Once
  <2>6. After(e, o)' /\ After(o, e)'
    <3>1. After(e, o)'
      BY <1>1, <1>2, <1>3, <1>5, <1>6, <1>7, <2>3 DEF After
    <3>2. After(o, e)'
      BY <1>1, <1>2, <1>3, <1>5, <1>7, <1>8, <2>4 DEF After
    <3> QED BY <3>1, <3>2
  <2>7. DataInTurn(e)' /\ DataInTurn(o)'
    BY <1>2, <1>3, <1>4, <1>5, <1>8, <2>3, <2>4 DEF DataInTurn
  <2>8. ConnectionTypeOK'
    BY <1>2, <1>3, <1>4, <2>3 DEF ConnectionTypeOK, Box
  <2> QED BY <1>1, <1>2, <2>5, <2>6, <2>7, <2>8 DEF EndInv
<1>9. CASE ~allow
  <2>1. acked' = acked
    BY <1>2, <1>6, <1>9 DEF ConnectionTypeOK
  <2>2. net' = net /\ phase' = phase
    BY <1>9, <1>3 DEF RegisterAck, Progress, ConnectionTypeOK
  <2>3. Ended(e, net)
    BY <1>1, <1>4, <2>2, GainsNothing DEF Ended, Fades
  <2>4. \A x \in End : checking'[x] \subseteq checking[x]
    BY <1>1, <1>3
  <2> QED BY <1>2, <1>3, <2>1, <2>3, <2>4, EndedStep DEF ConnectionTypeOK
<1> QED BY <1>8, <1>9

LEMMA ReceiveOkStep == ASSUME ConnectionInv, NEW e \in End, ReceiveOk(e) PROVE ConnectionInv'
<1> USE DEF ConnectionInv
<1> DEFINE o == Other(e)
<1>1. o \in End /\ o # e /\ Other(o) = e /\ End = {e, o} /\ net \in Box
  BY Ends DEF ConnectionTypeOK, Box
<1>2. net[e] # <<>> /\ Head(net[e]).kind = "OK" /\ ~NotIn(net[e], "OK") /\ Taken(e) \in Box
  BY Taking DEF ReceiveOk, Kind
<1>3. Once(e) /\ Once(o) /\ After(e, o) /\ After(o, e) /\ DataInTurn(e) /\ DataInTurn(o)
  BY <1>1 DEF EndInv
<1>4. ~heard[e] /\ acked[o]
  BY <1>2, <1>3 DEF Once, After
<1>5. /\ purpose' = purpose /\ checking' = checking /\ registered' = registered /\ acked' = acked
      /\ pending' = pending /\ sent' = sent
  BY DEF ReceiveOk, exchangeVars
<1>6. CASE Terminate(e, Taken(e)) /\ UNCHANGED <<heard, errorVars>>
  <2>1. Ended(e, Taken(e))
    BY <1>2, <1>6, Ending
  <2> QED BY <1>2, <1>5, <1>6, <2>1, EndedStep DEF errorVars, ConnectionTypeOK
<1>7. CASE /\ registered[e] /\ heard' = [heard EXCEPT ![e] = TRUE]
           /\ phase' = Progress(e, acked[e], TRUE) /\ net' = Taken(e) /\ UNCHANGED errorVars
  <2>1. heard'[e] = TRUE /\ heard'[o] = heard[o] /\ heard' \in [End -> BOOLEAN]
        /\ registered \in [End -> BOOLEAN] /\ acked \in [End -> BOOLEAN]
    BY <1>1, <1>7 DEF ConnectionTypeOK
  <2>2. /\ phase' \in [End -> {"idle", "opening", "asking", "connected", "closed"}]
        /\ phase'[o] = phase[o]
        /\ phase'[e] = phase[e] \/ (acked[e] /\ phase[e] = "asking" /\ phase'[e] = "connected")
    BY <1>7, <2>1, Progressing
  <2>3. \A x \in End : MaySendConnect(x)' => MaySendConnect(x)
    BY <1>1, <1>5, <2>2 DEF MaySendConnect, IsSync
  <2>4. /\ net' \in Box /\ net'[o] = net[o] /\ NotIn(net'[e], "OK")
        /\ \A k \in {"CONNECT", "ACK", "OK", "push", "request", "answer"} :
              (NotIn(net[e], k) => NotIn(net'[e], k)) /\ (AtMostOne(net[e], k) => AtMostOne(net'[e], k))
    <3>1. AtMostOne(net[e], "OK")
      BY <1>3 DEF Once
    <3> QED BY <1>2, <1>7, <3>1, Taking DEF Shrinks, Kind
  <2>5. Once(e)' /\ Once(o)'
    BY <1>3, <1>5, <1>7, <2>1, <2>4 DEF Once
  <2>6. After(e, o)' /\ After(o, e)'
    BY <1>1, <1>3, <1>4, <1>5, <2>1, <2>3, <2>4 DEF After
  <2>7. DataInTurn(e)' /\ DataInTurn(o)'
    BY <1>3, <1>5, <2>1, <2>2, <2>4 DEF DataInTurn
  <2>8. ConnectionTypeOK'
    BY <1>5, <1>7, <2>1, <2>2, <2>4 DEF ConnectionTypeOK, Box, errorVars
  <2> QED BY <1>1, <1>7, <2>5, <2>6, <2>7, <2>8 DEF EndInv, errorVars
<1> QED BY <1>4, <1>6, <1>7 DEF ReceiveOk

----------------------------------------------------------------------------
LEMMA ConnectionStart == ConnectionInit => ConnectionInv
<1> SUFFICES ASSUME ConnectionInit PROVE ConnectionInv
  OBVIOUS
<1>1. ConnectionTypeOK /\ causes \in [End -> SUBSET Honest]
  BY ConnectionAssumption DEF ConnectionInit, ConnectionTypeOK, End
<1>2. ASSUME NEW e \in End PROVE EndInv(e)
  BY <1>2, Ends, NothingIn DEF ConnectionInit, EndInv, Once, After, DataInTurn, End
<1> QED BY <1>1, <1>2 DEF ConnectionInv

LEMMA ConnectionStep == ConnectionInv /\ [ConnectionNext]_connectionVars => ConnectionInv'
<1> SUFFICES ASSUME ConnectionInv, [ConnectionNext]_connectionVars PROVE ConnectionInv'
  OBVIOUS
<1>1. CASE Serve \/ Opened
  BY <1>1, ServeStep, OpenedStep
<1>2. ASSUME NEW e \in End, Receive(e) PROVE ConnectionInv'
  BY <1>2, ReceiveCloseStep, ReceiveConnectStep, ReceiveAckStep, ReceiveOkStep, ReceiveDataStep DEF Receive
<1>3. ASSUME NEW e \in End, Register(e) PROVE ConnectionInv'
  BY <1>3, RegisterConnectStep, RegisterAckStep DEF Register
<1>4. ASSUME NEW e \in End, Timeout(e) \/ Leave(e) PROVE ConnectionInv'
  BY <1>4, TimeoutStep, LeaveStep
<1>5. ASSUME NEW e \in End, PushData(e) \/ Request(e) PROVE ConnectionInv'
  BY <1>5, PushDataStep, RequestStep
<1>6. ASSUME NEW e \in End, NEW id \in 1..MaxRequests, RequestTimeout(e, id) PROVE ConnectionInv'
  BY <1>6, RequestTimeoutStep
<1>7. CASE UNCHANGED connectionVars
  BY <1>7 DEF connectionVars, authVars, exchangeVars, errorVars, ConnectionInv, ConnectionTypeOK, EndInv, Once, After,
              DataInTurn, MaySendConnect, IsSync
<1> QED BY <1>1, <1>2, <1>3, <1>4, <1>5, <1>6, <1>7 DEF ConnectionNext

\* Between honest ends no handler of WS2PConnection.ts ever detects a message out of its turn: CONNECT, ACK and OK are
\* received once each, and no data by an end that is not authenticated.
THEOREM NoMessageOutOfTurn == ConnectionSpec => []OnlyHonestErrors
<1>1. ConnectionInv => OnlyHonestErrors
  BY DEF ConnectionInv, OnlyHonestErrors, Honest
<1> QED BY <1>1, ConnectionStart, ConnectionStep, PTL DEF ConnectionSpec
=============================================================================
