------------------------- MODULE BlockStores_proofs -------------------------
(***************************************************************************)
(* The stores agree when no operation was cut, and what a cut leaves is      *)
(* mended or bounded, for any number of blocks, crashes and stops.          *)
(*                                                                         *)
(* The inductive invariant says what each store holds at each point of an    *)
(* operation.  Left is the number of writes left, so that a write is done    *)
(* once Left is small enough; Adding and Reverting tell the operation.      *)
(***************************************************************************)
EXTENDS BlockStores, BlockHead, SequenceTheorems, FiniteSetTheorems, TLAPS

USE BoundsAssumption

Left == Len(todo)
Adding == Left \in 1..11 /\ \A i \in 1..Left : todo[i] = AddWrites[11 - Left + i]
Reverting == Left \in 1..10 /\ \A i \in 1..Left : todo[i] = RevertWrites[10 - Left + i]

BlockTypeOK ==
    /\ main \subseteq Blocks /\ side \subseteq Blocks /\ bindex \subseteq Blocks
    /\ store \in [Stores -> [Blocks -> Nat]]
    /\ wotIds \in [Blocks -> SUBSET Int]
    /\ wot \in Seq(Blocks) /\ wotFile \in Seq(Blocks)
    /\ node \in {"up", "down", "maintenance"}
    /\ block \in Blocks /\ todo \in Seq(Writes)
    /\ undone \in [{"ud", "tx"} -> Nat]
    /\ crashes \in Nat /\ stops \in Nat

\* An operation is the end of one of the two lists of writes; only a revert runs at startup, and after a crash.
OperationKnown ==
    /\ todo # <<>> => Adding \/ Reverting
    /\ Adding => node = "up"
    /\ Reverting => node # "down"
    /\ node = "down" => todo = <<>>
    /\ Reverting /\ node = "maintenance" => crashes > 0 /\ Left >= 3

(***************************************************************************)
(* The blocks and the HEADs: both are the numbers up to some block.  They    *)
(* are apart by one at most, and are the same in an idle node, but for the   *)
(* block #0 whose revert was cut.                                          *)
(***************************************************************************)
Heights(m, n) ==
    /\ main = 0..m /\ bindex = 0..n
    /\ Adding => m = (IF Left <= 2 THEN block ELSE block - 1) /\ n = (IF Left <= 8 THEN block ELSE block - 1)
    /\ Reverting => /\ m = (IF node = "up" /\ Left > 2 THEN block ELSE block - 1)
                    /\ n = (IF Left <= 8 THEN block - 1 ELSE block)
    /\ todo = <<>> => /\ m - 1 <= n /\ n <= m + 1
                      /\ node = "up" => m = n \/ (n = -1 /\ m = 0)
                      /\ crashes = 0 => m = n

HeightsOK == \E m, n \in -1..MaxBlock : Heights(m, n)

\* With this many writes left, the store has got what the block brings; lost it.
WrittenAt == [dividends |-> 10, mindex |-> 7, iindex |-> 6, sindex |-> 5, cindex |-> 4, udBalance |-> 3, txBalance |-> 3]
RemovedAt == [dividends |-> 3, mindex |-> 7, iindex |-> 6, sindex |-> 4, cindex |-> 5, udBalance |-> 0, txBalance |-> 0]

\* A store holds once what the chain says, and besides what crashes left there: nothing of it when there was none.
Holds(s, b) == store[s][b] >= 1 /\ store[s][b] <= (IF s \in Indexes THEN 1 ELSE 1 + crashes)
HoldsNot(s, b) == store[s][b] <= (IF s \in Indexes /\ crashes > 0 THEN 1 ELSE crashes)
Empty(s, b) == IF s \in Indexes THEN store[s][b] = 0 ELSE store[s][b] <= crashes

Settled(s) == \A b \in Blocks : (todo = <<>> \/ b # block) => IF b \in main \cap bindex THEN Holds(s, b) ELSE HoldsNot(s, b)
AddingStore(s) == Adding => IF Left <= WrittenAt[s] THEN Holds(s, block) ELSE Empty(s, block)
RevertingStore(s) == Reverting =>
    IF node = "up" THEN IF Left > RemovedAt[s] THEN Holds(s, block) ELSE Empty(s, block) ELSE HoldsNot(s, block)
MovementsRead == Reverting /\ node = "up" => (Left <= 9 => undone["tx"] = 1) /\ (Left <= 3 => undone["ud"] = 1)

StoresBounded == MovementsRead /\ \A s \in Stores : Settled(s) /\ AddingStore(s) /\ RevertingStore(s)

\* A side block is in the chain at once only between the two writes of saveBlock.
SideApart == crashes = 0 => \A b \in side \cap main : Adding /\ Left = 2 /\ b = block

(***************************************************************************)
(* As long as the process lives, the nodes of the web of trust are those of  *)
(* the newcomers of the chain.                                             *)
(***************************************************************************)
Nodes(k) == [i \in 1..k |-> i - 1]
NodeCount == IF Adding /\ Left > 9 THEN block
             ELSE IF Adding THEN block + 1
             ELSE IF Reverting /\ Left > 9 THEN block + 1
             ELSE IF Reverting THEN block
             ELSE Highest(main) + 1
NodesKnown ==
    crashes = 0 /\ stops = 0 =>
        /\ node = "up" /\ wot = Nodes(NodeCount)
        /\ \A b \in Blocks : (todo = <<>> \/ b # block) => wotIds[b] = IF b \in main THEN {b} ELSE {}
        /\ Adding => wotIds[block] = IF Left <= 6 THEN {block} ELSE {}
        /\ Reverting => wotIds[block] = IF Left <= 6 THEN {} ELSE {block}

BlockInv == BlockTypeOK /\ OperationKnown /\ HeightsOK /\ StoresBounded /\ SideApart /\ NodesKnown

----------------------------------------------------------------------------
(* Where an operation is. *)

LEMMA AddPlaces ==
    /\ AddWrites \in Seq(Writes) /\ Len(AddWrites) = 11
    /\ AddWrites[1] = "dividends" /\ AddWrites[2] = "newcomers" /\ AddWrites[3] = "bindex"
    /\ AddWrites[4] = "mindex" /\ AddWrites[5] = "iindex" /\ AddWrites[6] = "sindex" /\ AddWrites[7] = "cindex"
    /\ AddWrites[8] = "wallets" /\ AddWrites[9] = "main" /\ AddWrites[10] = "forks" /\ AddWrites[11] = "wotFile"
  BY DEF AddWrites, Writes

LEMMA RevertPlaces ==
    /\ RevertWrites \in Seq(Writes) /\ Len(RevertWrites) = 10
    /\ RevertWrites[1] = "-nodes" /\ RevertWrites[2] = "-bindex" /\ RevertWrites[3] = "-mindex"
    /\ RevertWrites[4] = "-iindex" /\ RevertWrites[5] = "-cindex" /\ RevertWrites[6] = "-sindex"
    /\ RevertWrites[7] = "-dividends" /\ RevertWrites[8] = "-main" /\ RevertWrites[9] = "-forks"
    /\ RevertWrites[10] = "-wallets"
  BY DEF RevertWrites, Writes

\* An operation that begins is at its first write; one write leads to the next, the last to none.
LEMMA OperationBegins ==
    /\ todo' = AddWrites => Adding' /\ Left' = 11
    /\ todo' = RevertWrites => Reverting' /\ Left' = 10
<1>1. ASSUME todo' = AddWrites PROVE Adding' /\ Left' = 11
  <2>1. Left' = 11
    BY <1>1, AddPlaces DEF Left
  <2>2. \A i \in 1..11 : 11 - 11 + i = i
    OBVIOUS
  <2> QED BY <1>1, <2>1, <2>2 DEF Adding
<1>2. ASSUME todo' = RevertWrites PROVE Reverting' /\ Left' = 10
  <2>1. Left' = 10
    BY <1>2, RevertPlaces DEF Left
  <2>2. \A i \in 1..10 : 10 - 10 + i = i
    OBVIOUS
  <2> QED BY <1>2, <2>1, <2>2 DEF Reverting
<1> QED BY <1>1, <1>2

LEMMA WritesDiffer == \A j \in 1..11, k \in 1..10 : AddWrites[j] # RevertWrites[k]
  BY AddPlaces, RevertPlaces, SMTT(60)

\* Idle or not.
Place == Left \in Nat /\ (Left = 0 <=> todo = <<>>) /\ ~(Adding /\ Reverting) /\ (Adding \/ Reverting => Left > 0)

LEMMA PlaceKnown == todo \in Seq(Writes) => Place
<1> SUFFICES ASSUME todo \in Seq(Writes) PROVE Place
  OBVIOUS
<1>1. Left \in Nat /\ (Left = 0 <=> todo = <<>>)
  BY DEF Left
<1>2. ASSUME Adding, Reverting PROVE FALSE
  <2>1. todo[1] = AddWrites[12 - Left] /\ todo[1] = RevertWrites[11 - Left] /\ Left \in 1..10
    BY <1>2 DEF Adding, Reverting
  <2>2. 12 - Left \in 1..11 /\ 11 - Left \in 1..10
    BY <2>1
  <2> QED BY <2>1, <2>2, WritesDiffer
<1> QED BY <1>1, <1>2 DEF Place, Adding, Reverting

LEMMA PlaceKnownNext == (todo \in Seq(Writes) => Place)'
  BY PlaceKnown, PTL

LEMMA OperationGoesOn ==
    ASSUME todo \in Seq(Writes), todo # <<>>, todo' = Tail(todo)
    PROVE  /\ Left' = Left - 1
           /\ Adding => (Adding' <=> Left > 1)
           /\ Reverting => (Reverting' <=> Left > 1)
<1>1. Left' = Left - 1 /\ Left \in Nat /\ \A i \in 1..Left' : todo'[i] = todo[i + 1]
  BY DEF Left
<1>2. ASSUME Adding, Left > 1 PROVE Adding'
  <2>1. Left' \in 1..11
    BY <1>1, <1>2 DEF Adding
  <2>2. ASSUME NEW i \in 1..Left' PROVE todo'[i] = AddWrites[11 - Left' + i]
    <3>1. i + 1 \in 1..Left /\ 11 - Left + (i + 1) = 11 - Left' + i
      BY <1>1
    <3> QED BY <1>1, <1>2, <3>1 DEF Adding
  <2> QED BY <2>1, <2>2 DEF Adding
<1>3. ASSUME Reverting, Left > 1 PROVE Reverting'
  <2>1. Left' \in 1..10
    BY <1>1, <1>3 DEF Reverting
  <2>2. ASSUME NEW i \in 1..Left' PROVE todo'[i] = RevertWrites[10 - Left' + i]
    <3>1. i + 1 \in 1..Left /\ 10 - Left + (i + 1) = 10 - Left' + i
      BY <1>1
    <3> QED BY <1>1, <1>3, <3>1 DEF Reverting
  <2> QED BY <2>1, <2>2 DEF Reverting
<1>4. Adding' \/ Reverting' => Left > 1
  BY <1>1 DEF Adding, Reverting
<1> QED BY <1>1, <1>2, <1>3, <1>4

LEMMA WhatIsDone ==
    ASSUME todo \in Seq(Writes), OperationKnown, NEW w, Doing(w)
    PROVE  /\ w = "dividends" => Adding /\ Left = 11
           /\ w = "newcomers" => Adding /\ Left = 10
           /\ w = "bindex" => Adding /\ Left = 9
           /\ w = "mindex" => Adding /\ Left = 8
           /\ w = "iindex" => Adding /\ Left = 7
           /\ w = "sindex" => Adding /\ Left = 6
           /\ w = "cindex" => Adding /\ Left = 5
           /\ w = "wallets" => Adding /\ Left = 4
           /\ w = "main" => Adding /\ Left = 3
           /\ w = "forks" => Adding /\ Left = 2
           /\ w = "wotFile" => Adding /\ Left = 1
           /\ w = "-nodes" => Reverting /\ Left = 10
           /\ w = "-bindex" => Reverting /\ Left = 9
           /\ w = "-mindex" => Reverting /\ Left = 8
           /\ w = "-iindex" => Reverting /\ Left = 7
           /\ w = "-cindex" => Reverting /\ Left = 6
           /\ w = "-sindex" => Reverting /\ Left = 5
           /\ w = "-dividends" => Reverting /\ Left = 4
           /\ w = "-main" => Reverting /\ Left = 3
           /\ w = "-forks" => Reverting /\ Left = 2
           /\ w = "-wallets" => Reverting /\ Left = 1
<1>1. \/ Adding /\ Left \in 1..11 /\ w = AddWrites[12 - Left]
      \/ Reverting /\ Left \in 1..10 /\ w = RevertWrites[11 - Left]
  BY DEF Doing, OperationKnown, Adding, Reverting, Left
<1>2. CASE Adding /\ Left \in 1..11 /\ w = AddWrites[12 - Left]
  BY <1>2, AddPlaces
<1>3. CASE Reverting /\ Left \in 1..10 /\ w = RevertWrites[11 - Left]
  BY <1>3, RevertPlaces
<1> QED BY <1>1, <1>2, <1>3

LEMMA HighestOf == \A k \in Int : k >= -1 => Highest(0..k) = k
<1> SUFFICES ASSUME NEW k \in Int, k >= -1 PROVE Highest(0..k) = k
  OBVIOUS
<1>1. CASE k = -1
  BY <1>1 DEF Highest
<1>2. CASE k >= 0
  <2>1. k \in 0..k /\ \A c \in 0..k : c <= k
    BY <1>2
  <2>2. 0..k # {}
    BY <2>1
  <2>3. Highest(0..k) \in 0..k /\ \A c \in 0..k : c <= Highest(0..k)
    BY <2>1, <2>2 DEF Highest
  <2> QED BY <2>1, <2>3
<1> QED BY <1>1, <1>2

----------------------------------------------------------------------------
(* The writes. *)

\* Where the operation is after a write.
LEMMA OneLess ==
    ASSUME BlockTypeOK, OperationKnown, todo # <<>>, Goes
    PROVE  /\ todo' \in Seq(Writes) /\ Place /\ Place' /\ Left' = Left - 1
           /\ (Adding => (Adding' <=> Left > 1) /\ ~Reverting')
           /\ (Reverting => (Reverting' <=> Left > 1) /\ ~Adding')
           /\ Adding \/ Reverting
           /\ node' = IF Left = 1 THEN "up" ELSE node
           /\ block' = block /\ crashes' = crashes /\ stops' = stops
<1>1. todo # <<>> /\ todo' = Tail(todo) /\ todo' \in Seq(Writes)
  BY DEF Goes, BlockTypeOK
<1>2. Place /\ Place'
  BY <1>1, PlaceKnown, PlaceKnownNext DEF BlockTypeOK
<1>3. /\ Left' = Left - 1
      /\ Adding => (Adding' <=> Left > 1)
      /\ Reverting => (Reverting' <=> Left > 1)
  BY <1>1, OperationGoesOn DEF BlockTypeOK
<1>4. Adding \/ Reverting
  BY <1>1 DEF OperationKnown
<1>5. /\ Adding => ~Reverting /\ (Left = 1 => Left' = 0)
      /\ Reverting => ~Adding /\ (Left = 1 => Left' = 0)
      /\ Left' = 0 <=> todo' = <<>>
  BY <1>2, <1>3 DEF Place
<1>6. ~(Adding' /\ Reverting') /\ (Adding' \/ Reverting' => Left' > 0) /\ (Adding \/ Reverting => Left > 0)
  BY <1>2 DEF Place
<1>7. Left \in Nat /\ Left' \in Nat
  BY <1>2 DEF Place
<1>8. node' = IF Left = 1 THEN "up" ELSE node
  BY <1>1, <1>3, <1>5, <1>7 DEF Goes
<1>9. Adding => ~Reverting'
  BY <1>1, <1>6, <1>3, <1>7
<1> QED BY <1>1, <1>2, <1>3, <1>4, <1>8, <1>6, <1>7, <1>5, <1>9 DEF Goes, bounds

\* The nodes of the first k newcomers.
LEMMA NodesLength == \A k \in Nat : Nodes(k) \in Seq(Nat) /\ Len(Nodes(k)) = k
  BY DEF Nodes

LEMMA AddNode == \A k \in Nat : Append(Nodes(k), k) = Nodes(k + 1)
  BY DEF Nodes

LEMMA TakeNode == \A k \in Nat : SubSeq(Nodes(k + 1), 1, k) = Nodes(k)
  BY DEF Nodes

\* What a write of saveBlockData does, told by the number of writes left.
AddEffect ==
    /\ Adding
    /\ main' = IF Left = 3 THEN main \cup {block} ELSE main
    /\ side' = IF Left = 2 THEN side \ {block} ELSE side
    /\ bindex' = IF Left = 9 THEN bindex \cup {block} ELSE bindex
    /\ store' \in [Stores -> [Blocks -> Nat]]
    /\ \A s \in Stores, b \in Blocks :
        store'[s][b] = IF b = block /\ Left = WrittenAt[s] + 1 THEN store[s][b] + 1 ELSE store[s][b]
    /\ wotIds' = IF Left = 7 THEN [wotIds EXCEPT ![block] = @ \cup {Len(wot) - 1}] ELSE wotIds
    /\ wot' = IF Left = 10 THEN Append(wot, block) ELSE wot
    /\ wotFile' = IF Left = 1 THEN wot ELSE wotFile
    /\ undone' = undone

LEMMA WrittenPlaces ==
    /\ \A s \in Stores : WrittenAt[s] \in 3..10 /\ WrittenAt[s] + 1 \in {11, 8, 7, 6, 5, 4}
    /\ \A r, s \in Stores : r # s /\ WrittenAt[r] = WrittenAt[s] => s \in {"udBalance", "txBalance"}
<1>1. \A s \in Stores :
        \/ s = "dividends" /\ WrittenAt[s] = 10
        \/ s = "mindex" /\ WrittenAt[s] = 7
        \/ s = "iindex" /\ WrittenAt[s] = 6
        \/ s = "sindex" /\ WrittenAt[s] = 5
        \/ s = "cindex" /\ WrittenAt[s] = 4
        \/ s \in {"udBalance", "txBalance"} /\ WrittenAt[s] = 3
  <2>1. /\ WrittenAt["dividends"] = 10 /\ WrittenAt["mindex"] = 7 /\ WrittenAt["iindex"] = 6 /\ WrittenAt["sindex"] = 5
        /\ WrittenAt["cindex"] = 4 /\ WrittenAt["udBalance"] = 3 /\ WrittenAt["txBalance"] = 3
    BY DEF WrittenAt
  <2>2. Stores = {"dividends", "mindex", "iindex", "sindex", "cindex", "udBalance", "txBalance"}
    BY DEF Stores, Indexes
  <2> QED BY <2>1, <2>2
<1> QED BY <1>1

LEMMA NoStoreAdded ==
    ASSUME BlockTypeOK, Left \in {1, 2, 3, 9, 10}, store' = store
    PROVE  /\ store' \in [Stores -> [Blocks -> Nat]]
           /\ \A s \in Stores, b \in Blocks :
                store'[s][b] = IF b = block /\ Left = WrittenAt[s] + 1 THEN store[s][b] + 1 ELSE store[s][b]
<1>1. \A s \in Stores : WrittenAt[s] + 1 # Left
  BY WrittenPlaces
<1> QED BY <1>1 DEF BlockTypeOK

LEMMA AddWriteEffect ==
    ASSUME BlockTypeOK, OperationKnown,
           \/ \E s \in {"dividends", "mindex", "sindex", "cindex"} : Insert(s)
           \/ CreateNewcomers \/ InsertIindex \/ InsertHead \/ UpdateWallets
           \/ SaveBlock \/ RemoveFork \/ WriteWotFile
    PROVE  AddEffect /\ Goes /\ todo # <<>>
<1> USE DEF BlockTypeOK
<1>1. ASSUME NEW s \in {"dividends", "mindex", "sindex", "cindex"}, Insert(s)
      PROVE  AddEffect /\ Goes /\ todo # <<>>
  <2>1. Doing(s) /\ Goes /\ todo # <<>>
    BY <1>1 DEF Insert, Doing
  <2>2. Adding /\ Left = WrittenAt[s] + 1 /\ Left \in {11, 8, 6, 5}
    BY <1>1, <2>1, WhatIsDone, SMTT(30) DEF WrittenAt
  <2>3. s \in Stores
    BY DEF Stores, Indexes
  <2>9. ASSUME NEW r \in Stores, r # s PROVE WrittenAt[r] + 1 # Left
    <3>1. WrittenAt[r] # WrittenAt[s] /\ WrittenAt[r] \in 3..10 /\ WrittenAt[s] \in 3..10
      BY <2>3, <2>9, WrittenPlaces
    <3>2. \A a, c \in 3..10 : a # c => a + 1 # c + 1
      OBVIOUS
    <3> QED BY <3>1, <3>2, <2>2
  <2>4. store' = [store EXCEPT ![s][block] = store[s][block] + 1] /\ store[s][block] + 1 \in Nat
    BY <1>1, <2>3 DEF Insert
  <2>5. store' \in [Stores -> [Blocks -> Nat]]
    BY <2>3, <2>4
  <2>6. \A r \in Stores, b \in Blocks :
          store'[r][b] = IF b = block /\ Left = WrittenAt[r] + 1 THEN store[r][b] + 1 ELSE store[r][b]
    BY <2>2, <2>3, <2>4, <2>9
  <2>7. UNCHANGED <<main, side, bindex, wotIds, wotFile, wot, undone>>
    BY <1>1 DEF Insert
  <2> QED BY <2>1, <2>2, <2>5, <2>6, <2>7 DEF AddEffect
<1>2. ASSUME CreateNewcomers PROVE AddEffect /\ Goes /\ todo # <<>>
  <2>1. Adding /\ Left = 10 /\ todo # <<>>
    BY <1>2, WhatIsDone DEF CreateNewcomers, Doing
  <2>2. /\ store' \in [Stores -> [Blocks -> Nat]]
        /\ \A s \in Stores, b \in Blocks :
             store'[s][b] = IF b = block /\ Left = WrittenAt[s] + 1 THEN store[s][b] + 1 ELSE store[s][b]
    BY <2>1, NoStoreAdded, <1>2 DEF CreateNewcomers, databases
  <2> QED BY <1>2, <2>1, <2>2 DEF CreateNewcomers, AddEffect, databases
<1>3. ASSUME InsertIindex PROVE AddEffect /\ Goes /\ todo # <<>>
  <2>1. Adding /\ Left = 7 /\ todo # <<>>
    BY <1>3, WhatIsDone DEF InsertIindex, Doing
  <2>2. \A r \in Stores : (WrittenAt[r] + 1 = Left) <=> r = "iindex"
    BY <2>1 DEF WrittenAt, Stores, Indexes
  <2>3. store' = [store EXCEPT !["iindex"][block] = store["iindex"][block] + 1]
    BY <1>3 DEF InsertIindex
  <2>4. "iindex" \in Stores /\ store["iindex"][block] + 1 \in Nat
    BY DEF Stores, Indexes
  <2>5. store' \in [Stores -> [Blocks -> Nat]]
    BY <2>3, <2>4
  <2>6. \A r \in Stores, b \in Blocks :
          store'[r][b] = IF b = block /\ Left = WrittenAt[r] + 1 THEN store[r][b] + 1 ELSE store[r][b]
    BY <2>2, <2>3, <2>4
  <2> QED BY <1>3, <2>1, <2>5, <2>6 DEF InsertIindex, AddEffect
<1>4. ASSUME InsertHead PROVE AddEffect /\ Goes /\ todo # <<>>
  <2>1. Adding /\ Left = 9 /\ todo # <<>>
    BY <1>4, WhatIsDone DEF InsertHead, Doing
  <2>2. /\ store' \in [Stores -> [Blocks -> Nat]]
        /\ \A s \in Stores, b \in Blocks :
             store'[s][b] = IF b = block /\ Left = WrittenAt[s] + 1 THEN store[s][b] + 1 ELSE store[s][b]
    BY <2>1, NoStoreAdded, <1>4 DEF InsertHead
  <2> QED BY <1>4, <2>1, <2>2 DEF InsertHead, AddEffect
<1>5. ASSUME UpdateWallets PROVE AddEffect /\ Goes /\ todo # <<>>
  <2>1. Adding /\ Left = 4 /\ todo # <<>>
    BY <1>5, WhatIsDone DEF UpdateWallets, Doing
  <2>2. \A r \in Stores : (WrittenAt[r] + 1 = Left) <=> r \in {"udBalance", "txBalance"}
    BY <2>1 DEF WrittenAt, Stores, Indexes
  <2>3. store' = [store EXCEPT !["udBalance"][block] = store["udBalance"][block] + 1, !["txBalance"][block] = store["txBalance"][block] + 1]
    BY <1>5 DEF UpdateWallets
  <2>4. "udBalance" \in Stores /\ "txBalance" \in Stores /\ store["udBalance"][block] + 1 \in Nat /\ store["txBalance"][block] + 1 \in Nat
    BY DEF Stores, Indexes
  <2>5. store' \in [Stores -> [Blocks -> Nat]]
    BY <2>3, <2>4
  <2>6. \A r \in Stores, b \in Blocks :
          store'[r][b] = IF b = block /\ Left = WrittenAt[r] + 1 THEN store[r][b] + 1 ELSE store[r][b]
    BY <2>2, <2>3, <2>4
  <2>7. Goes /\ UNCHANGED <<main, side, bindex, wotIds, wotFile, wot, undone>>
    BY <1>5 DEF UpdateWallets
  <2> QED BY <2>1, <2>5, <2>6, <2>7 DEF AddEffect
<1>6. ASSUME SaveBlock PROVE AddEffect /\ Goes /\ todo # <<>>
  <2>1. Adding /\ Left = 3 /\ todo # <<>>
    BY <1>6, WhatIsDone DEF SaveBlock, Doing
  <2>2. /\ store' \in [Stores -> [Blocks -> Nat]]
        /\ \A s \in Stores, b \in Blocks :
             store'[s][b] = IF b = block /\ Left = WrittenAt[s] + 1 THEN store[s][b] + 1 ELSE store[s][b]
    BY <2>1, NoStoreAdded, <1>6 DEF SaveBlock
  <2> QED BY <1>6, <2>1, <2>2 DEF SaveBlock, AddEffect
<1>7. ASSUME RemoveFork PROVE AddEffect /\ Goes /\ todo # <<>>
  <2>1. Adding /\ Left = 2 /\ todo # <<>>
    BY <1>7, WhatIsDone DEF RemoveFork, Doing
  <2>2. /\ store' \in [Stores -> [Blocks -> Nat]]
        /\ \A s \in Stores, b \in Blocks :
             store'[s][b] = IF b = block /\ Left = WrittenAt[s] + 1 THEN store[s][b] + 1 ELSE store[s][b]
    BY <2>1, NoStoreAdded, <1>7 DEF RemoveFork
  <2> QED BY <1>7, <2>1, <2>2 DEF RemoveFork, AddEffect
<1>8. ASSUME WriteWotFile PROVE AddEffect /\ Goes /\ todo # <<>>
  <2>1. Adding /\ Left = 1 /\ todo # <<>>
    BY <1>8, WhatIsDone DEF WriteWotFile, Doing
  <2>2. /\ store' \in [Stores -> [Blocks -> Nat]]
        /\ \A s \in Stores, b \in Blocks :
             store'[s][b] = IF b = block /\ Left = WrittenAt[s] + 1 THEN store[s][b] + 1 ELSE store[s][b]
    BY <2>1, NoStoreAdded, <1>8 DEF WriteWotFile, databases
  <2> QED BY <1>8, <2>1, <2>2 DEF WriteWotFile, AddEffect, databases
<1> QED BY <1>1, <1>2, <1>3, <1>4, <1>5, <1>6, <1>7, <1>8

LEMMA AddKeeps == ASSUME BlockInv, AddEffect, Goes, todo # <<>> PROVE BlockInv'
<1>1. BlockTypeOK /\ OperationKnown /\ HeightsOK /\ StoresBounded /\ SideApart /\ NodesKnown
  BY DEF BlockInv
<1>2. /\ Adding /\ ~Reverting /\ ~Reverting' /\ (Adding' <=> Left > 1) /\ (todo' = <<>> <=> Left = 1)
      /\ Left \in 1..11 /\ Left' = Left - 1 /\ todo' \in Seq(Writes)
      /\ node = "up" /\ node' = "up" /\ block' = block /\ crashes' = crashes /\ stops' = stops
  <2>1. Left \in 1..11 /\ node = "up" /\ Adding
    BY <1>1 DEF AddEffect, OperationKnown, Adding
  <2> QED BY <1>1, <2>1, OneLess DEF Place
<1>3. block \in Nat /\ block \in Blocks
  BY <1>1 DEF BlockTypeOK, Blocks
<1>12. PICK c \in 0..MaxBlock : c = block
  BY <1>3 DEF Blocks
<1>4. PICK m \in -1..MaxBlock, n \in -1..MaxBlock : Heights(m, n)
  BY <1>1 DEF HeightsOK
<1>5. main = 0..m /\ bindex = 0..n /\ m = (IF Left <= 2 THEN block ELSE block - 1) /\ n = (IF Left <= 8 THEN block ELSE block - 1)
  BY <1>2, <1>4 DEF Heights
<1>6. BlockTypeOK'
  <2>1. main' \subseteq Blocks /\ side' \subseteq Blocks /\ bindex' \subseteq Blocks
    BY <1>1, <1>3 DEF AddEffect, BlockTypeOK
  <2>2. wotIds' \in [Blocks -> SUBSET Int]
    BY <1>1, <1>3 DEF AddEffect, BlockTypeOK
  <2>3. wot' \in Seq(Blocks) /\ wotFile' \in Seq(Blocks)
    BY <1>1, <1>3 DEF AddEffect, BlockTypeOK
  <2> QED BY <2>1, <2>2, <2>3, <1>1, <1>2 DEF AddEffect, BlockTypeOK
<1>7. OperationKnown'
  BY <1>2 DEF OperationKnown
<1>8. HeightsOK'
  <2>1. CASE Left = 3
    <3>1. main' = 0..block /\ bindex' = 0..n /\ n = block
      BY <2>1, <1>3, <1>5 DEF AddEffect
    <3>2. Heights(c, n)'
      BY <3>1, <2>1, <1>2, <1>3, <1>12 DEF Heights
    <3> QED BY <3>2 DEF HeightsOK
  <2>2. CASE Left = 9
    <3>1. main' = 0..m /\ bindex' = 0..block /\ m = block - 1
      BY <2>2, <1>3, <1>5 DEF AddEffect
    <3>2. Heights(m, c)'
      BY <3>1, <2>2, <1>2, <1>3, <1>12 DEF Heights
    <3> QED BY <3>2 DEF HeightsOK
  <2>3. CASE Left \notin {3, 9}
    <3>1. main' = 0..m /\ bindex' = 0..n
      BY <2>3, <1>5 DEF AddEffect
    <3>2. (Left' <= 2) = (Left <= 2) /\ (Left' <= 8) = (Left <= 8)
      BY <2>3, <1>2
    <3>3. Left = 1 => m = n
      BY <1>5, <1>3
    <3>4. Heights(m, n)'
      BY <3>1, <3>2, <3>3, <1>2, <1>3, <1>5 DEF Heights
    <3> QED BY <3>4 DEF HeightsOK
  <2> QED BY <2>1, <2>2, <2>3
<1>9. StoresBounded'
  <2>1. ASSUME NEW r \in Stores PROVE Settled(r)' /\ AddingStore(r)'
    <3> USE <2>1
    <3>1. WrittenAt[r] \in 3..10
      BY WrittenPlaces
    <3>2. Settled(r) /\ AddingStore(r)
      BY <1>1 DEF StoresBounded
    <3>3. \A b \in Blocks : b # block => store'[r][b] = store[r][b]
      BY <1>3 DEF AddEffect
    <3>4. \A b \in Blocks : b # block => (b \in main' \cap bindex' <=> b \in main \cap bindex)
      BY DEF AddEffect
    <3>5. Left = 1 => block \in main' \cap bindex'
      BY <1>5, <1>3, <1>2 DEF AddEffect
    <3>6. Left # WrittenAt[r] + 1 => store'[r][block] = store[r][block]
      BY <1>3 DEF AddEffect
    <3>7. ASSUME NEW b \in Blocks, todo' = <<>> \/ b # block
          PROVE  IF b \in main' \cap bindex' THEN Holds(r, b)' ELSE HoldsNot(r, b)'
      <4>1. CASE b # block
        <5>1. IF b \in main \cap bindex THEN Holds(r, b) ELSE HoldsNot(r, b)
          BY <4>1, <3>2 DEF Settled
        <5> QED BY <4>1, <5>1, <3>3, <3>4, <1>2 DEF Holds, HoldsNot
      <4>2. CASE b = block
        <5>1. Left = 1
          BY <3>7, <4>2, <1>2
        <5>2. Holds(r, block) /\ Left # WrittenAt[r] + 1
          BY <5>1, <3>1, <3>2, <1>2 DEF AddingStore
        <5> QED BY <4>2, <5>1, <5>2, <3>5, <3>6, <1>2 DEF Holds
      <4> QED BY <4>1, <4>2
    <3>8. Settled(r)'
      BY <3>7, <1>2 DEF Settled
    <3>9. AddingStore(r)'
      <4>1. CASE Left = WrittenAt[r] + 1
        <5>1. ~(Left <= WrittenAt[r]) /\ Left' <= WrittenAt[r]
          BY <4>1, <3>1, <1>2
        <5>2. Empty(r, block)
          BY <5>1, <3>2, <1>2 DEF AddingStore
        <5>3. store'[r][block] = store[r][block] + 1 /\ store[r][block] \in Nat /\ crashes \in Nat
          BY <4>1, <1>1, <1>3 DEF AddEffect, BlockTypeOK
        <5>4. Holds(r, block)'
          BY <5>2, <5>3, <1>2 DEF Empty, Holds
        <5> QED BY <5>1, <5>4, <1>2 DEF AddingStore
      <4>2. CASE Left # WrittenAt[r] + 1
        <5>1. (Left' <= WrittenAt[r]) = (Left <= WrittenAt[r])
          BY <4>2, <3>1, <1>2
        <5> QED BY <4>2, <5>1, <3>2, <3>6, <1>2 DEF AddingStore, Holds, Empty
      <4> QED BY <4>1, <4>2
    <3> QED BY <3>8, <3>9
  <2> QED BY <2>1, <1>2 DEF StoresBounded, MovementsRead, RevertingStore
<1>10. SideApart'
  <2> SUFFICES ASSUME crashes = 0, NEW b \in side' \cap main' PROVE Adding' /\ Left' = 2 /\ b = block'
    BY <1>2 DEF SideApart
  <2>1. b \in side /\ (b \in main \/ (Left = 3 /\ b = block))
    BY DEF AddEffect
  <2>2. CASE Left = 3 /\ b = block
    BY <2>2, <1>2
  <2>3. CASE b \in main
    <3>1. Left = 2 /\ b = block
      BY <2>1, <2>3, <1>1 DEF SideApart
    <3> QED BY <3>1 DEF AddEffect
  <2> QED BY <2>1, <2>2, <2>3
<1>11. NodesKnown'
  <2> SUFFICES ASSUME crashes = 0, stops = 0
      PROVE /\ wot' = Nodes(NodeCount')
            /\ \A b \in Blocks : (todo' = <<>> \/ b # block) => wotIds'[b] = IF b \in main' THEN {b} ELSE {}
            /\ Left > 1 => wotIds'[block] = IF Left' <= 6 THEN {block} ELSE {}
    BY <1>2 DEF NodesKnown, Nodes
  <2>1. /\ wot = Nodes(NodeCount)
        /\ \A b \in Blocks : b # block => wotIds[b] = IF b \in main THEN {b} ELSE {}
        /\ wotIds[block] = IF Left <= 6 THEN {block} ELSE {}
    BY <1>1, <1>2 DEF NodesKnown
  <2>2. NodeCount = (IF Left > 9 THEN block ELSE block + 1) /\ NodeCount' = (IF Left > 10 THEN block ELSE block + 1)
    <3>1. NodeCount = (IF Left > 9 THEN block ELSE block + 1)
      BY <1>2 DEF NodeCount
    <3>2. CASE Left > 1
      <4>1. Left' > 9 <=> Left > 10
        BY <1>2
      <4> QED BY <3>1, <3>2, <4>1, <1>2 DEF NodeCount
    <3>3. CASE Left = 1
      <4>1. main' = 0..block /\ ~Adding' /\ ~Reverting'
        BY <3>3, <1>2, <1>3, <1>5 DEF AddEffect
      <4>2. NodeCount' = Highest(main') + 1
        BY <4>1 DEF NodeCount, Highest
      <4> QED BY <3>1, <3>3, <4>1, <4>2, <1>3, HighestOf
    <3> QED BY <3>1, <3>2, <3>3, <1>2
  <2>3. wot' = Nodes(NodeCount')
    <3>1. CASE Left = 10
      <4>1. wot = Nodes(block) /\ wot' = Append(wot, block) /\ NodeCount' = block + 1
        BY <3>1, <2>1, <2>2, <1>2 DEF AddEffect
      <4> QED BY <4>1, <1>3, AddNode
    <3>2. CASE Left # 10
      <4>1. wot' = wot /\ NodeCount' = NodeCount
        BY <3>2, <2>2, <1>2 DEF AddEffect
      <4> QED BY <4>1, <2>1
    <3> QED BY <3>1, <3>2
  <2>4. \A b \in Blocks : b # block => wotIds'[b] = wotIds[b] /\ (b \in main' <=> b \in main)
    BY <1>1, <1>3 DEF AddEffect, BlockTypeOK
  <2>5. wotIds'[block] = IF Left' <= 6 THEN {block} ELSE {}
    <3>1. CASE Left = 7
      <4>1. Len(wot) = block + 1 /\ Left' <= 6
        BY <3>1, <2>1, <2>2, <1>2, <1>3, NodesLength
      <4>2. wotIds[block] = {}
        BY <3>1, <2>1
      <4>3. wotIds'[block] = wotIds[block] \cup {Len(wot) - 1}
        BY <3>1, <1>1, <1>3 DEF AddEffect, BlockTypeOK
      <4> QED BY <4>1, <4>2, <4>3, <1>3
    <3>2. CASE Left # 7
      <4>1. wotIds' = wotIds /\ (Left' <= 6) = (Left <= 6)
        BY <3>2, <1>2 DEF AddEffect
      <4> QED BY <4>1, <2>1
    <3> QED BY <3>1, <3>2
  <2>6. Left = 1 => block \in main' /\ Left' <= 6
    BY <1>5, <1>3, <1>2 DEF AddEffect
  <2> QED BY <2>1, <2>3, <2>4, <2>5, <2>6, <1>2
<1> QED BY <1>6, <1>7, <1>8, <1>9, <1>10, <1>11 DEF BlockInv

----------------------------------------------------------------------------
\* What a write of revertBlock does; Taken is what it takes away from a store that is no index.
Taken(s) ==
    IF s = "dividends" THEN (IF store["dividends"][block] > 0 THEN 1 ELSE 0)
    ELSE IF s = "udBalance" THEN undone["ud"] ELSE undone["tx"]

RevertEffect ==
    /\ Reverting
    /\ Left = 3 => block \in main
    /\ main' = IF Left = 3 THEN main \ {block} ELSE main
    /\ side' = IF Left = 2 THEN side \cup {block} ELSE side
    /\ bindex' = IF Left = 9 THEN bindex \ {block} ELSE bindex
    /\ store' \in [Stores -> [Blocks -> Int]]
    /\ \A s \in Stores, b \in Blocks :
        store'[s][b] = IF b # block \/ Left # RemovedAt[s] + 1 THEN store[s][b]
                       ELSE IF s \in Indexes THEN 0 ELSE store[s][b] - Taken(s)
    /\ wotIds' = IF Left = 7 THEN [wotIds EXCEPT ![block] = {}] ELSE wotIds
    /\ Left = 10 => wot' = IF store["iindex"][block] < Len(wot) THEN SubSeq(wot, 1, Len(wot) - store["iindex"][block]) ELSE <<>>
    /\ Left # 10 => wot' = wot
    /\ wotFile' = wotFile
    /\ undone' = IF Left = 10 THEN [undone EXCEPT !["tx"] = store["sindex"][block]]
                 ELSE IF Left = 4 THEN [undone EXCEPT !["ud"] = Taken("dividends")] ELSE undone

LEMMA RemovedPlaces ==
    /\ \A s \in Stores : RemovedAt[s] \in {0, 3, 4, 5, 6, 7} /\ RemovedAt[s] + 1 \in {1, 4, 5, 6, 7, 8}
    /\ \A s \in Indexes : RemovedAt[s] \in {4, 5, 6, 7}
    /\ \A s \in Stores : /\ RemovedAt[s] = 3 <=> s = "dividends"
                         /\ RemovedAt[s] = 4 <=> s = "sindex"
                         /\ RemovedAt[s] = 5 <=> s = "cindex"
                         /\ RemovedAt[s] = 6 <=> s = "iindex"
                         /\ RemovedAt[s] = 7 <=> s = "mindex"
                         /\ RemovedAt[s] = 0 <=> s \in {"udBalance", "txBalance"}
<1>1. /\ RemovedAt["dividends"] = 3 /\ RemovedAt["mindex"] = 7 /\ RemovedAt["iindex"] = 6 /\ RemovedAt["sindex"] = 4
      /\ RemovedAt["cindex"] = 5 /\ RemovedAt["udBalance"] = 0 /\ RemovedAt["txBalance"] = 0
  BY DEF RemovedAt
<1>2. /\ Stores = {"dividends", "mindex", "iindex", "sindex", "cindex", "udBalance", "txBalance"}
      /\ Indexes = {"mindex", "iindex", "sindex", "cindex"}
  BY DEF Stores, Indexes
<1> QED BY <1>1, <1>2

\* The store a write is for.
LEMMA RemovalPlace ==
    ASSUME NEW s \in Stores, NEW k \in Nat
    PROVE  k = RemovedAt[s] + 1 <=> \/ k = 4 /\ s = "dividends"
                                    \/ k = 5 /\ s = "sindex"
                                    \/ k = 6 /\ s = "cindex"
                                    \/ k = 7 /\ s = "iindex"
                                    \/ k = 8 /\ s = "mindex"
                                    \/ k = 1 /\ s \in {"udBalance", "txBalance"}
<1>1. /\ RemovedAt["dividends"] = 3 /\ RemovedAt["mindex"] = 7 /\ RemovedAt["iindex"] = 6 /\ RemovedAt["sindex"] = 4
      /\ RemovedAt["cindex"] = 5 /\ RemovedAt["udBalance"] = 0 /\ RemovedAt["txBalance"] = 0
  BY DEF RemovedAt
<1>2. s \in {"dividends", "mindex", "iindex", "sindex", "cindex", "udBalance", "txBalance"}
  BY DEF Stores, Indexes
<1> QED BY <1>1, <1>2

LEMMA NoStoreRemoved ==
    ASSUME BlockTypeOK, Left \in {2, 3, 9, 10}, store' = store
    PROVE  /\ store' \in [Stores -> [Blocks -> Int]]
           /\ \A s \in Stores, b \in Blocks :
                store'[s][b] = IF b # block \/ Left # RemovedAt[s] + 1 THEN store[s][b]
                               ELSE IF s \in Indexes THEN 0 ELSE store[s][b] - Taken(s)
<1>1. \A s \in Stores : RemovedAt[s] + 1 # Left
  BY RemovedPlaces
<1> QED BY <1>1 DEF BlockTypeOK

LEMMA RevertWriteEffect ==
    ASSUME BlockTypeOK, OperationKnown,
           \/ RemoveNodes \/ RemoveHead
           \/ \E s \in Indexes : RemoveEntries(s)
           \/ RevertUDs \/ SetSideBlock \/ SaveFork \/ RevertWallets
    PROVE  RevertEffect /\ Goes /\ todo # <<>>
<1> USE DEF BlockTypeOK
<1>1. ASSUME RemoveNodes PROVE RevertEffect /\ Goes /\ todo # <<>>
  <2>1. Reverting /\ Left = 10 /\ todo # <<>> /\ store' = store
    BY <1>1, WhatIsDone DEF RemoveNodes, Doing, databases
  <2>2. /\ store' \in [Stores -> [Blocks -> Int]]
        /\ \A s \in Stores, b \in Blocks :
             store'[s][b] = IF b # block \/ Left # RemovedAt[s] + 1 THEN store[s][b]
                            ELSE IF s \in Indexes THEN 0 ELSE store[s][b] - Taken(s)
    BY <2>1, NoStoreRemoved
  <2>3. /\ Goes /\ UNCHANGED <<main, side, bindex, wotIds, wotFile>>
        /\ undone' = [undone EXCEPT !["tx"] = store["sindex"][block]]
        /\ wot' = IF store["iindex"][block] < Len(wot) THEN SubSeq(wot, 1, Len(wot) - store["iindex"][block]) ELSE <<>>
    BY <1>1 DEF RemoveNodes, databases
  <2> QED BY <2>1, <2>2, <2>3 DEF RevertEffect
<1>2. ASSUME RemoveHead PROVE RevertEffect /\ Goes /\ todo # <<>>
  <2>1. Reverting /\ Left = 9 /\ todo # <<>>
    BY <1>2, WhatIsDone DEF RemoveHead, Doing
  <2>2. /\ store' \in [Stores -> [Blocks -> Int]]
        /\ \A s \in Stores, b \in Blocks :
             store'[s][b] = IF b # block \/ Left # RemovedAt[s] + 1 THEN store[s][b]
                            ELSE IF s \in Indexes THEN 0 ELSE store[s][b] - Taken(s)
    BY <2>1, NoStoreRemoved, <1>2 DEF RemoveHead
  <2> QED BY <1>2, <2>1, <2>2 DEF RemoveHead, RevertEffect
<1>3. ASSUME NEW s \in Indexes, RemoveEntries(s) PROVE RevertEffect /\ Goes /\ todo # <<>>
  <2>1. Doing(Removal[s]) /\ todo # <<>> /\ Removal[s] = (IF s = "mindex" THEN "-mindex" ELSE IF s = "iindex" THEN "-iindex"
                               ELSE IF s = "cindex" THEN "-cindex" ELSE "-sindex")
    BY <1>3 DEF RemoveEntries, Doing, Removal, Indexes
  <2>2. Reverting /\ Left = (IF s = "mindex" THEN 8 ELSE IF s = "iindex" THEN 7 ELSE IF s = "cindex" THEN 6 ELSE 5)
    BY <2>1, WhatIsDone DEF Indexes
  <2>3. s \in Stores /\ \A r \in Stores : Left = RemovedAt[r] + 1 <=> r = s
    BY <2>2, RemovalPlace DEF Indexes, Stores
  <2>4. store' = [store EXCEPT ![s][block] = 0]
    BY <1>3 DEF RemoveEntries
  <2>5. store' \in [Stores -> [Blocks -> Int]]
    BY <2>3, <2>4
  <2>6. \A r \in Stores, b \in Blocks :
          store'[r][b] = IF b # block \/ Left # RemovedAt[r] + 1 THEN store[r][b]
                         ELSE IF r \in Indexes THEN 0 ELSE store[r][b] - Taken(r)
    BY <2>3, <2>4
  <2>7. /\ Goes /\ UNCHANGED <<main, side, bindex, wotFile, wot, undone>>
        /\ wotIds' = IF s = "iindex" THEN [wotIds EXCEPT ![block] = {}] ELSE wotIds
    BY <1>3 DEF RemoveEntries
  <2>8. s = "iindex" <=> Left = 7
    BY <2>2
  <2>9. Left \notin {2, 3, 4, 9, 10}
    BY <2>2
  <2> QED BY <2>1, <2>2, <2>5, <2>6, <2>7, <2>8, <2>9 DEF RevertEffect
<1>4. ASSUME RevertUDs PROVE RevertEffect /\ Goes /\ todo # <<>>
  <2>1. Reverting /\ Left = 4 /\ todo # <<>>
    BY <1>4, WhatIsDone DEF RevertUDs, Doing
  <2>2. \A r \in Stores : Left = RemovedAt[r] + 1 <=> r = "dividends"
    BY <2>1, RemovalPlace
  <2>3. /\ store' = [store EXCEPT !["dividends"][block] = store["dividends"][block] - Taken("dividends")]
        /\ undone' = [undone EXCEPT !["ud"] = Taken("dividends")]
    BY <1>4 DEF RevertUDs, Taken
  <2>4. "dividends" \in Stores /\ "dividends" \notin Indexes /\ store["dividends"][block] - Taken("dividends") \in Int
    BY DEF Stores, Indexes, Taken
  <2>5. store' \in [Stores -> [Blocks -> Int]]
    BY <2>3, <2>4
  <2>6. \A r \in Stores, b \in Blocks :
          store'[r][b] = IF b # block \/ Left # RemovedAt[r] + 1 THEN store[r][b]
                         ELSE IF r \in Indexes THEN 0 ELSE store[r][b] - Taken(r)
    BY <2>2, <2>3, <2>4
  <2>7. Goes /\ UNCHANGED <<main, side, bindex, wotIds, wotFile, wot>>
    BY <1>4 DEF RevertUDs
  <2> QED BY <2>1, <2>3, <2>5, <2>6, <2>7 DEF RevertEffect
<1>5. ASSUME SetSideBlock PROVE RevertEffect /\ Goes /\ todo # <<>>
  <2>1. Reverting /\ Left = 3 /\ todo # <<>>
    BY <1>5, WhatIsDone DEF SetSideBlock, Doing
  <2>2. /\ store' \in [Stores -> [Blocks -> Int]]
        /\ \A s \in Stores, b \in Blocks :
             store'[s][b] = IF b # block \/ Left # RemovedAt[s] + 1 THEN store[s][b]
                            ELSE IF s \in Indexes THEN 0 ELSE store[s][b] - Taken(s)
    BY <2>1, NoStoreRemoved, <1>5 DEF SetSideBlock
  <2> QED BY <1>5, <2>1, <2>2 DEF SetSideBlock, RevertEffect
<1>6. ASSUME SaveFork PROVE RevertEffect /\ Goes /\ todo # <<>>
  <2>1. Reverting /\ Left = 2 /\ todo # <<>>
    BY <1>6, WhatIsDone DEF SaveFork, Doing
  <2>2. /\ store' \in [Stores -> [Blocks -> Int]]
        /\ \A s \in Stores, b \in Blocks :
             store'[s][b] = IF b # block \/ Left # RemovedAt[s] + 1 THEN store[s][b]
                            ELSE IF s \in Indexes THEN 0 ELSE store[s][b] - Taken(s)
    BY <2>1, NoStoreRemoved, <1>6 DEF SaveFork
  <2> QED BY <1>6, <2>1, <2>2 DEF SaveFork, RevertEffect
<1>7. ASSUME RevertWallets PROVE RevertEffect /\ Goes /\ todo # <<>>
  <2>1. Reverting /\ Left = 1 /\ todo # <<>>
    BY <1>7, WhatIsDone DEF RevertWallets, Doing
  <2>2. \A r \in Stores : Left = RemovedAt[r] + 1 <=> r \in {"udBalance", "txBalance"}
    BY <2>1, RemovalPlace
  <2>3. store' = [store EXCEPT !["udBalance"][block] = store["udBalance"][block] - undone["ud"],
                               !["txBalance"][block] = store["txBalance"][block] - undone["tx"]]
    BY <1>7 DEF RevertWallets
  <2>4. /\ "udBalance" \in Stores \ Indexes /\ "txBalance" \in Stores \ Indexes
        /\ Taken("udBalance") = undone["ud"] /\ Taken("txBalance") = undone["tx"]
        /\ store["udBalance"][block] - undone["ud"] \in Int /\ store["txBalance"][block] - undone["tx"] \in Int
    BY DEF Stores, Indexes, Taken
  <2>5. store' \in [Stores -> [Blocks -> Int]]
    <3>1. store \in [Stores -> [Blocks -> Int]]
      OBVIOUS
    <3>2. ASSUME NEW f \in [Stores -> [Blocks -> Int]], NEW a \in Int, NEW r \in Stores, NEW b \in Blocks
          PROVE  [f EXCEPT ![r][b] = a] \in [Stores -> [Blocks -> Int]]
      BY <3>2
    <3>3. [store EXCEPT !["udBalance"][block] = store["udBalance"][block] - undone["ud"]] \in [Stores -> [Blocks -> Int]]
      BY <3>1, <3>2, <2>4
    <3> QED BY <3>2, <3>3, <2>3, <2>4
  <2>6. \A r \in Stores, b \in Blocks :
          store'[r][b] = IF b # block \/ Left # RemovedAt[r] + 1 THEN store[r][b]
                         ELSE IF r \in Indexes THEN 0 ELSE store[r][b] - Taken(r)
    BY <2>2, <2>3, <2>4
  <2>7. Goes /\ UNCHANGED <<main, side, bindex, wotIds, wotFile, wot, undone>>
    BY <1>7 DEF RevertWallets
  <2> QED BY <2>1, <2>5, <2>6, <2>7 DEF RevertEffect
<1> QED BY <1>1, <1>2, <1>3, <1>4, <1>5, <1>6, <1>7

LEMMA RevertKeeps == ASSUME BlockInv, RevertEffect, Goes, todo # <<>> PROVE BlockInv'
<1>1. BlockTypeOK /\ OperationKnown /\ HeightsOK /\ StoresBounded /\ SideApart /\ NodesKnown
  BY DEF BlockInv
<1>2. block \in Nat /\ block \in Blocks /\ Reverting /\ Left \in 1..10 /\ node \in {"up", "maintenance"}
  BY <1>1 DEF BlockTypeOK, Blocks, RevertEffect, Reverting, OperationKnown
<1>3. PICK m \in -1..MaxBlock, n \in -1..MaxBlock : Heights(m, n)
  BY <1>1 DEF HeightsOK
<1>4. /\ main = 0..m /\ bindex = 0..n
      /\ m = (IF node = "up" /\ Left > 2 THEN block ELSE block - 1) /\ n = (IF Left <= 8 THEN block - 1 ELSE block)
  BY <1>2, <1>3 DEF Heights
<1>5. node = "maintenance" => crashes > 0 /\ Left > 3
  <2>1. node = "maintenance" => crashes > 0 /\ Left >= 3
    BY <1>1, <1>2 DEF OperationKnown
  <2>2. node = "maintenance" => block \notin main
    BY <1>2, <1>4
  <2>3. Left = 3 => block \in main
    BY DEF RevertEffect
  <2> QED BY <2>1, <2>2, <2>3, <1>2
<1>6. /\ ~Adding /\ ~Adding' /\ (Reverting' <=> Left > 1) /\ (todo' = <<>> <=> Left = 1)
      /\ Left' = Left - 1 /\ todo' \in Seq(Writes)
      /\ node' = node /\ block' = block /\ crashes' = crashes /\ stops' = stops
  BY <1>1, <1>2, <1>5, OneLess DEF Place
<1>7. PICK c \in 0..MaxBlock : c = block
  BY <1>2 DEF Blocks
<1>8. StoresBounded' /\ store' \in [Stores -> [Blocks -> Nat]] /\ undone' \in [{"ud", "tx"} -> Nat]
  <2>1. ASSUME NEW r \in Stores
        PROVE  /\ Settled(r)' /\ RevertingStore(r)'
               /\ \A b \in Blocks : store'[r][b] \in Nat
    <3>1. RemovedAt[r] \in {0, 3, 4, 5, 6, 7} /\ (r \in Indexes => RemovedAt[r] > 0)
      BY <2>1, RemovedPlaces
    <3>2. Settled(r) /\ RevertingStore(r)
      BY <2>1, <1>1 DEF StoresBounded
    <3>3. \A b \in Blocks : b # block \/ Left # RemovedAt[r] + 1 => store'[r][b] = store[r][b]
      BY <2>1 DEF RevertEffect
    <3>4. \A b \in Blocks : b # block => (b \in main' \cap bindex' <=> b \in main \cap bindex)
      BY DEF RevertEffect
    <3>5. /\ \A b \in Blocks : store[r][b] \in Nat
          /\ crashes \in Nat /\ undone["ud"] \in Nat /\ undone["tx"] \in Nat
      BY <2>1, <1>1 DEF BlockTypeOK
    <3>6. Left = 1 => block \notin main'
      BY <1>2, <1>4 DEF RevertEffect
    <3>7. CASE Left = RemovedAt[r] + 1
      <4>1. store'[r][block] = IF r \in Indexes THEN 0 ELSE store[r][block] - Taken(r)
        BY <2>1, <3>7, <1>2 DEF RevertEffect
      <4>2. Left > RemovedAt[r] /\ ~(Left' > RemovedAt[r])
        BY <3>1, <3>7, <1>6
      <4>3. node = "up" => Holds(r, block)
        BY <3>2, <4>2, <1>2 DEF RevertingStore
      <4>4. node = "maintenance" => HoldsNot(r, block)
        BY <3>2, <1>2 DEF RevertingStore
      <4>5. r \notin Indexes => Taken(r) \in 0..store[r][block] /\ (node = "up" => Taken(r) = 1)
        <5>1. CASE r = "dividends"
          <6>1. Taken(r) = IF store[r][block] > 0 THEN 1 ELSE 0
            BY <5>1 DEF Taken
          <6>2. node = "up" => store[r][block] >= 1
            BY <4>3 DEF Holds
          <6> QED BY <6>1, <6>2, <3>5, <1>2
        <5>2. CASE r \in {"udBalance", "txBalance"}
          <6>1. Left = 1 /\ node = "up"
            BY <5>2, <3>7, <1>2, <1>5, RemovalPlace
          <6>2. undone["ud"] = 1 /\ undone["tx"] = 1
            BY <6>1, <1>1, <1>2 DEF StoresBounded, MovementsRead
          <6>3. Taken(r) = 1
            BY <5>2, <6>2 DEF Taken
          <6> QED BY <6>1, <6>3, <4>3, <3>5, <1>2 DEF Holds
        <5> QED BY <5>1, <5>2, <2>1 DEF Stores, Indexes
      <4>6. store'[r][block] \in Nat /\ store'[r][block] <= store[r][block]
        BY <4>1, <4>5, <3>5, <1>2
      <4>7. node = "up" => Empty(r, block)'
        BY <4>1, <4>3, <4>5, <3>5, <1>2, <1>6 DEF Holds, Empty
      <4>8. node = "maintenance" => HoldsNot(r, block)'
        BY <4>4, <4>6, <3>5, <1>2, <1>6 DEF HoldsNot
      <4>9. RevertingStore(r)'
        BY <4>2, <4>7, <4>8, <1>2, <1>6 DEF RevertingStore
      <4>10. Settled(r)'
        <5> SUFFICES ASSUME NEW b \in Blocks, todo' = <<>> \/ b # block
                     PROVE  IF b \in main' \cap bindex' THEN Holds(r, b)' ELSE HoldsNot(r, b)'
          BY <1>6 DEF Settled
        <5>1. CASE b # block
          <6>1. IF b \in main \cap bindex THEN Holds(r, b) ELSE HoldsNot(r, b)
            BY <5>1, <3>2 DEF Settled
          <6> QED BY <5>1, <6>1, <3>3, <3>4, <1>6 DEF Holds, HoldsNot
        <5>2. CASE b = block
          <6>1. Left = 1 /\ node = "up"
            BY <5>2, <1>2, <1>5, <1>6
          <6>2. HoldsNot(r, block)'
            BY <6>1, <4>6, <4>7, <3>5, <1>6 DEF Empty, HoldsNot
          <6> QED BY <5>2, <6>1, <6>2, <3>6, <1>6 DEF HoldsNot
        <5> QED BY <5>1, <5>2
      <4>11. \A b \in Blocks : store'[r][b] \in Nat
        BY <4>6, <3>3, <3>5
      <4> QED BY <4>9, <4>10, <4>11
    <3>8. CASE Left # RemovedAt[r] + 1
      <4>1. \A b \in Blocks : store'[r][b] = store[r][b]
        BY <3>3, <3>8
      <4>2. (Left' > RemovedAt[r]) = (Left > RemovedAt[r])
        BY <3>1, <3>8, <1>2, <1>6
      <4>3. RevertingStore(r)'
        BY <4>1, <4>2, <3>2, <1>2, <1>6 DEF RevertingStore, Holds, HoldsNot, Empty
      <4>4. Settled(r)'
        <5> SUFFICES ASSUME NEW b \in Blocks, todo' = <<>> \/ b # block
                     PROVE  IF b \in main' \cap bindex' THEN Holds(r, b)' ELSE HoldsNot(r, b)'
          BY <1>6 DEF Settled
        <5>1. CASE b # block
          <6>1. IF b \in main \cap bindex THEN Holds(r, b) ELSE HoldsNot(r, b)
            BY <5>1, <3>2 DEF Settled
          <6> QED BY <5>1, <6>1, <4>1, <3>4, <1>6 DEF Holds, HoldsNot
        <5>2. CASE b = block
          <6>1. Left = 1 /\ node = "up"
            BY <5>2, <1>2, <1>5, <1>6
          <6>2. ~(Left > RemovedAt[r])
            BY <6>1, <3>1, <3>8
          <6>3. Empty(r, block)
            BY <6>1, <6>2, <3>2, <1>2 DEF RevertingStore
          <6>4. HoldsNot(r, block)'
            BY <6>3, <4>1, <3>5, <1>2, <1>6 DEF Empty, HoldsNot
          <6> QED BY <5>2, <6>1, <6>4, <3>6, <1>6 DEF HoldsNot
        <5> QED BY <5>1, <5>2
      <4> QED BY <4>1, <4>3, <4>4, <3>5
    <3> QED BY <3>7, <3>8
  <2>2. store' \in [Stores -> [Blocks -> Nat]]
    BY <2>1 DEF RevertEffect
  <2>3. undone' \in [{"ud", "tx"} -> Nat] /\ MovementsRead'
    <3>1. CASE Left = 10
      <4>1. "sindex" \in Stores /\ "sindex" \in Indexes /\ RemovedAt["sindex"] = 4
        BY DEF Stores, Indexes, RemovedAt
      <4>2. store["sindex"][block] \in Nat
        BY <4>1, <1>1, <1>2 DEF BlockTypeOK
      <4>3. node = "up" => Holds("sindex", block)
        BY <3>1, <4>1, <1>1, <1>2 DEF StoresBounded, RevertingStore
      <4>4. node = "up" => store["sindex"][block] = 1
        BY <4>1, <4>2, <4>3 DEF Holds
      <4>5. undone' = [undone EXCEPT !["tx"] = store["sindex"][block]]
        BY <3>1 DEF RevertEffect
      <4>6. undone' \in [{"ud", "tx"} -> Nat] /\ undone'["tx"] = store["sindex"][block] /\ Left' = 9
        BY <3>1, <4>2, <4>5, <1>1, <1>6 DEF BlockTypeOK
      <4> QED BY <4>4, <4>6, <1>6 DEF MovementsRead
    <3>2. CASE Left = 4
      <4>1. "dividends" \in Stores /\ "dividends" \notin Indexes /\ RemovedAt["dividends"] = 3
        BY DEF Stores, Indexes, RemovedAt
      <4>2. store["dividends"][block] \in Nat /\ Taken("dividends") \in Nat
        BY <4>1, <1>1, <1>2 DEF BlockTypeOK, Taken
      <4>3. node = "up" => Holds("dividends", block)
        BY <3>2, <4>1, <1>1, <1>2 DEF StoresBounded, RevertingStore
      <4>4. node = "up" => Taken("dividends") = 1
        BY <4>1, <4>2, <4>3 DEF Holds, Taken
      <4>5. undone' = [undone EXCEPT !["ud"] = Taken("dividends")]
        BY <3>2 DEF RevertEffect
      <4>6. undone' \in [{"ud", "tx"} -> Nat] /\ undone'["ud"] = Taken("dividends") /\ undone'["tx"] = undone["tx"]
        BY <4>2, <4>5, <1>1 DEF BlockTypeOK
      <4>7. node = "up" => undone["tx"] = 1
        BY <3>2, <1>1, <1>2 DEF StoresBounded, MovementsRead
      <4> QED BY <4>4, <4>6, <4>7, <1>6 DEF MovementsRead
    <3>3. CASE Left \notin {4, 10}
      <4>1. undone' = undone
        BY <3>3 DEF RevertEffect
      <4>2. (Left' <= 9) = (Left <= 9) /\ (Left' <= 3) = (Left <= 3)
        BY <3>3, <1>2, <1>6
      <4> QED BY <4>1, <4>2, <1>1, <1>2, <1>6 DEF StoresBounded, MovementsRead, BlockTypeOK
    <3> QED BY <3>1, <3>2, <3>3
  <2> QED BY <2>1, <2>2, <2>3, <1>6 DEF StoresBounded, AddingStore
<1>9. BlockTypeOK'
  <2>1. main' \subseteq Blocks /\ side' \subseteq Blocks /\ bindex' \subseteq Blocks
    BY <1>1, <1>2 DEF RevertEffect, BlockTypeOK
  <2>2. wotIds' \in [Blocks -> SUBSET Int]
    BY <1>1, <1>2 DEF RevertEffect, BlockTypeOK
  <2>3. wot' \in Seq(Blocks) /\ wotFile' \in Seq(Blocks)
    <3>1. store["iindex"][block] \in Nat /\ wot \in Seq(Blocks) /\ wotFile \in Seq(Blocks)
      BY <1>1, <1>2 DEF BlockTypeOK, Stores, Indexes
    <3>2. CASE Left = 10 /\ store["iindex"][block] < Len(wot)
      <4>1. wot' = SubSeq(wot, 1, Len(wot) - store["iindex"][block])
        BY <3>2 DEF RevertEffect
      <4>2. Len(wot) \in Nat /\ Len(wot) - store["iindex"][block] \in 1..Len(wot)
        BY <3>1, <3>2
      <4>3. wot' \in Seq(Blocks)
        BY <3>1, <4>1, <4>2
      <4> QED BY <4>3, <3>1 DEF RevertEffect
    <3>3. CASE Left = 10 /\ ~(store["iindex"][block] < Len(wot))
      <4>1. wot' = <<>>
        BY <3>3 DEF RevertEffect
      <4> QED BY <4>1, <3>1 DEF RevertEffect
    <3>4. CASE Left # 10
      BY <3>1, <3>4 DEF RevertEffect
    <3> QED BY <3>2, <3>3, <3>4
  <2> QED BY <2>1, <2>2, <2>3, <1>1, <1>2, <1>6, <1>8 DEF BlockTypeOK
<1>10. OperationKnown'
  BY <1>1, <1>2, <1>5, <1>6 DEF OperationKnown
<1>11. HeightsOK'
  <2>1. CASE Left = 3
    <3>1. node = "up" /\ m = c /\ main' = 0..(c - 1) /\ bindex' = 0..n /\ n = c - 1
      BY <2>1, <1>2, <1>4, <1>5, <1>7 DEF RevertEffect
    <3>2. Heights(c - 1, n)' /\ c - 1 \in -1..MaxBlock
      BY <3>1, <2>1, <1>2, <1>6, <1>7 DEF Heights
    <3> QED BY <3>2 DEF HeightsOK
  <2>2. CASE Left = 9
    <3>1. main' = 0..m /\ bindex' = 0..(c - 1)
      BY <2>2, <1>2, <1>4, <1>7 DEF RevertEffect
    <3>2. Heights(m, c - 1)' /\ c - 1 \in -1..MaxBlock
      BY <3>1, <2>2, <1>2, <1>4, <1>6, <1>7 DEF Heights
    <3> QED BY <3>2 DEF HeightsOK
  <2>3. CASE Left \notin {3, 9}
    <3>1. main' = 0..m /\ bindex' = 0..n
      BY <2>3, <1>4 DEF RevertEffect
    <3>2. (Left' > 2) = (Left > 2) /\ (Left' <= 8) = (Left <= 8)
      BY <2>3, <1>2, <1>6
    <3>3. Left = 1 => m = n /\ node = "up"
      BY <1>2, <1>4, <1>5
    <3>4. Heights(m, n)'
      BY <3>1, <3>2, <3>3, <1>2, <1>4, <1>6 DEF Heights
    <3> QED BY <3>4 DEF HeightsOK
  <2> QED BY <2>1, <2>2, <2>3
<1>12. SideApart'
  <2> SUFFICES ASSUME crashes = 0, NEW b \in side' \cap main' PROVE FALSE
    BY <1>6 DEF SideApart
  <2>1. b \in main /\ (b \in side \/ (Left = 2 /\ b = block))
    BY DEF RevertEffect
  <2>2. b \notin side
    BY <2>1, <1>1, <1>6 DEF SideApart
  <2>3. Left = 2 => block \notin main
    BY <1>2, <1>4
  <2> QED BY <2>1, <2>2, <2>3
<1>13. NodesKnown'
  <2> SUFFICES ASSUME crashes = 0, stops = 0
      PROVE /\ node = "up" /\ wot' = Nodes(NodeCount')
            /\ \A b \in Blocks : (todo' = <<>> \/ b # block) => wotIds'[b] = IF b \in main' THEN {b} ELSE {}
            /\ Left > 1 => wotIds'[block] = IF Left' <= 6 THEN {} ELSE {block}
    BY <1>6 DEF NodesKnown, Nodes
  <2>1. /\ node = "up" /\ wot = Nodes(NodeCount)
        /\ \A b \in Blocks : b # block => wotIds[b] = IF b \in main THEN {b} ELSE {}
        /\ wotIds[block] = IF Left <= 6 THEN {} ELSE {block}
    BY <1>1, <1>2, <1>6 DEF NodesKnown
  <2>2. NodeCount = (IF Left > 9 THEN block + 1 ELSE block) /\ NodeCount' = block
    <3>1. NodeCount = (IF Left > 9 THEN block + 1 ELSE block)
      BY <1>2, <1>6 DEF NodeCount
    <3>2. CASE Left > 1
      <4>1. ~(Left' > 9)
        BY <1>2, <1>6
      <4> QED BY <3>1, <3>2, <4>1, <1>6 DEF NodeCount
    <3>3. CASE Left = 1
      <4>1. main' = 0..(block - 1) /\ ~Adding' /\ ~Reverting'
        BY <3>3, <1>2, <1>4, <1>6 DEF RevertEffect
      <4>2. NodeCount' = Highest(main') + 1
        BY <4>1 DEF NodeCount, Highest
      <4>3. Highest(0..(block - 1)) = block - 1
        BY <1>2, HighestOf
      <4> QED BY <3>1, <4>1, <4>2, <4>3, <1>2
    <3> QED BY <3>1, <3>2, <3>3, <1>2
  <2>3. wot' = Nodes(NodeCount')
    <3>1. CASE Left = 10
      <4>1. "iindex" \in Stores /\ "iindex" \in Indexes /\ RemovedAt["iindex"] = 6
        BY DEF Stores, Indexes, RemovedAt
      <4>2. store["iindex"][block] \in Nat
        BY <4>1, <1>1, <1>2 DEF BlockTypeOK
      <4>3. Holds("iindex", block)
        BY <3>1, <4>1, <2>1, <1>1, <1>2 DEF StoresBounded, RevertingStore
      <4>4. store["iindex"][block] = 1
        BY <4>1, <4>2, <4>3 DEF Holds
      <4>5. wot = Nodes(block + 1) /\ Len(wot) = block + 1
        BY <3>1, <2>1, <2>2, <1>2, NodesLength
      <4>6. wot' = IF 1 < block + 1 THEN SubSeq(wot, 1, block) ELSE <<>>
        BY <3>1, <4>4, <4>5, <1>2 DEF RevertEffect
      <4>7. Nodes(0) = <<>>
        BY DEF Nodes
      <4>8. SubSeq(Nodes(block + 1), 1, block) = Nodes(block)
        BY <1>2, TakeNode
      <4>9. CASE block = 0
        BY <4>9, <4>6, <4>7, <2>2
      <4>10. CASE block > 0
        <5>1. 1 < block + 1
          BY <4>10, <1>2
        <5> QED BY <5>1, <4>5, <4>6, <4>8, <2>2
      <4> QED BY <4>9, <4>10, <1>2
    <3>2. CASE Left # 10
      <4>1. wot' = wot /\ NodeCount' = NodeCount
        BY <3>2, <2>2, <1>2 DEF RevertEffect
      <4> QED BY <4>1, <2>1
    <3> QED BY <3>1, <3>2
  <2>4. \A b \in Blocks : b # block => wotIds'[b] = wotIds[b] /\ (b \in main' <=> b \in main)
    BY <1>1, <1>2 DEF RevertEffect, BlockTypeOK
  <2>5. wotIds'[block] = IF Left' <= 6 THEN {} ELSE {block}
    <3>1. CASE Left = 7
      BY <3>1, <1>1, <1>2, <1>6 DEF RevertEffect, BlockTypeOK
    <3>2. CASE Left # 7
      <4>1. wotIds' = wotIds /\ (Left' <= 6) = (Left <= 6)
        BY <3>2, <1>2, <1>6 DEF RevertEffect
      <4> QED BY <4>1, <2>1
    <3> QED BY <3>1, <3>2
  <2>6. Left = 1 => block \notin main' /\ Left' <= 6
    BY <1>2, <1>4, <1>6 DEF RevertEffect
  <2> QED BY <2>1, <2>3, <2>4, <2>5, <2>6, <1>2, <1>6
<1> QED BY <1>8, <1>9, <1>10, <1>11, <1>12, <1>13 DEF BlockInv

----------------------------------------------------------------------------
(* The steps of the node that are no write. *)

LEMMA NoOperation ==
    /\ todo = <<>> => Left = 0 /\ ~Adding /\ ~Reverting
    /\ todo' = <<>> => Left' = 0 /\ ~Adding' /\ ~Reverting'
<1>1. Len(<<>>) = 0
  OBVIOUS
<1> QED BY <1>1 DEF Left, Adding, Reverting

LEMMA NoStep == ASSUME BlockInv, UNCHANGED vars PROVE BlockInv'
<1>1. /\ UNCHANGED <<main, side, bindex, store, wotIds, wotFile, wot, node, block, todo, undone, crashes, stops>>
  BY DEF vars, databases, memory, bounds
<1>2. Left' = Left /\ Adding' = Adding /\ Reverting' = Reverting /\ NodeCount' = NodeCount
  BY <1>1 DEF Left, Adding, Reverting, NodeCount, Highest
<1>3. BlockTypeOK' /\ OperationKnown' /\ SideApart'
  BY <1>1, <1>2 DEF BlockInv, BlockTypeOK, OperationKnown, SideApart
<1>4. HeightsOK'
  BY <1>1, <1>2 DEF BlockInv, HeightsOK, Heights
<1>5. StoresBounded'
  BY <1>1, <1>2 DEF BlockInv, StoresBounded, MovementsRead, Settled, AddingStore, RevertingStore, Holds, HoldsNot, Empty
<1>6. NodesKnown'
  BY <1>1, <1>2 DEF BlockInv, NodesKnown, Nodes
<1> QED BY <1>3, <1>4, <1>5, <1>6 DEF BlockInv

\* What an idle node is, and one at rest: between two operations, or down.
LEMMA AtRest ==
    ASSUME BlockInv, todo = <<>>
    PROVE  /\ Left = 0 /\ ~Adding /\ ~Reverting /\ node \in {"up", "down", "maintenance"}
           /\ block \in Blocks /\ block \in Nat /\ crashes \in Nat
           /\ \A s \in Stores, b \in Blocks : store[s][b] \in Nat
           /\ \E m, n \in -1..MaxBlock :
                /\ main = 0..m /\ bindex = 0..n /\ Highest(main) = m /\ Highest(bindex) = n
                /\ m - 1 <= n /\ n <= m + 1
                /\ node = "up" => m = n \/ (n = -1 /\ m = 0)
                /\ crashes = 0 => m = n
           /\ \A s \in Stores, b \in Blocks : IF b \in main \cap bindex THEN Holds(s, b) ELSE HoldsNot(s, b)
           /\ crashes = 0 => side \cap main = {}
           /\ crashes = 0 /\ stops = 0 =>
                /\ node = "up" /\ wot = Nodes(Highest(main) + 1)
                /\ \A b \in Blocks : wotIds[b] = IF b \in main THEN {b} ELSE {}
<1>1. Left = 0 /\ ~Adding /\ ~Reverting
  BY NoOperation
<1>2. PICK m \in -1..MaxBlock, n \in -1..MaxBlock : Heights(m, n)
  BY DEF BlockInv, HeightsOK
<1>3. Highest(0..m) = m /\ Highest(0..n) = n
  BY HighestOf
<1>4. /\ main = 0..m /\ bindex = 0..n /\ m - 1 <= n /\ n <= m + 1
      /\ node = "up" => m = n \/ (n = -1 /\ m = 0)
      /\ crashes = 0 => m = n
  BY <1>2 DEF Heights
<1>5. \A s \in Stores, b \in Blocks : IF b \in main \cap bindex THEN Holds(s, b) ELSE HoldsNot(s, b)
  BY DEF BlockInv, StoresBounded, Settled
<1>6. crashes = 0 => side \cap main = {}
  BY <1>1 DEF BlockInv, SideApart
<1>7. crashes = 0 /\ stops = 0 =>
                /\ node = "up" /\ wot = Nodes(Highest(main) + 1)
                /\ \A b \in Blocks : wotIds[b] = IF b \in main THEN {b} ELSE {}
  BY <1>1 DEF BlockInv, NodesKnown, NodeCount
<1>8. /\ node \in {"up", "down", "maintenance"} /\ block \in Blocks /\ block \in Nat /\ crashes \in Nat
      /\ \A s \in Stores, b \in Blocks : store[s][b] \in Nat
  BY DEF BlockInv, BlockTypeOK, Blocks
<1> QED BY <1>1, <1>3, <1>4, <1>5, <1>6, <1>7, <1>8

\* A step that leaves the node at rest keeps the invariant when it keeps this.
LEMMA RestKeeps ==
    ASSUME BlockInv, todo' = <<>>, BlockTypeOK',
           NEW m \in -1..MaxBlock, NEW n \in -1..MaxBlock,
           main' = 0..m, bindex' = 0..n, m - 1 <= n, n <= m + 1,
           node' = "up" => m = n \/ (n = -1 /\ m = 0),
           crashes' = 0 => m = n,
           \A s \in Stores, b \in Blocks : IF b \in main' \cap bindex' THEN Holds(s, b)' ELSE HoldsNot(s, b)',
           crashes' = 0 => side' \cap main' = {},
           crashes' = 0 /\ stops' = 0 =>
                /\ node' = "up" /\ wot' = Nodes(m + 1)
                /\ \A b \in Blocks : wotIds'[b] = IF b \in main' THEN {b} ELSE {}
    PROVE  BlockInv'
<1>1. Left' = 0 /\ ~Adding' /\ ~Reverting'
  BY NoOperation
<1>2. OperationKnown'
  BY <1>1 DEF OperationKnown
<1>3. HeightsOK'
  <2>1. Heights(m, n)'
    BY <1>1 DEF Heights
  <2> QED BY <2>1 DEF HeightsOK
<1>4. StoresBounded'
  BY <1>1 DEF StoresBounded, MovementsRead, Settled, AddingStore, RevertingStore, Holds, HoldsNot
<1>5. SideApart'
  BY <1>1 DEF SideApart
<1>6. NodesKnown'
  <2>1. NodeCount' = m + 1
    <3>1. NodeCount' = Highest(main') + 1
      BY <1>1 DEF NodeCount, Highest
    <3> QED BY <3>1, HighestOf
  <2> QED BY <2>1, <1>1 DEF NodesKnown, Nodes
<1> QED BY <1>2, <1>3, <1>4, <1>5, <1>6 DEF BlockInv

LEMMA ReceiveKeeps == ASSUME BlockInv, NEW b \in Blocks, Receive(b) PROVE BlockInv'
<1>1. /\ todo = <<>> /\ node = "up" /\ b \notin main \cup side /\ side' = side \cup {b}
      /\ UNCHANGED <<main, bindex, store, wotIds, wotFile, wot, node, block, todo, undone, crashes, stops>>
  BY DEF Receive, Idle, memory, bounds
<1>2. PICK m \in -1..MaxBlock, n \in -1..MaxBlock :
                /\ main = 0..m /\ bindex = 0..n /\ Highest(main) = m /\ Highest(bindex) = n
                /\ m - 1 <= n /\ n <= m + 1
                /\ node = "up" => m = n \/ (n = -1 /\ m = 0)
                /\ crashes = 0 => m = n
  BY <1>1, AtRest
<1>3. BlockTypeOK'
  BY <1>1 DEF BlockInv, BlockTypeOK
<1>4. \A s \in Stores, a \in Blocks : IF a \in main' \cap bindex' THEN Holds(s, a)' ELSE HoldsNot(s, a)'
  BY <1>1, AtRest DEF Holds, HoldsNot
<1>5. crashes = 0 => side' \cap main = {}
  BY <1>1, AtRest
<1>6. crashes = 0 /\ stops = 0 =>
         /\ node = "up" /\ wot = Nodes(m + 1)
         /\ \A a \in Blocks : wotIds[a] = IF a \in main THEN {a} ELSE {}
  BY <1>1, <1>2, AtRest
<1> QED BY <1>1, <1>2, <1>3, <1>4, <1>5, <1>6, RestKeeps, ZenonT(60)

LEMMA CrashKeeps == ASSUME BlockInv, Crash PROVE BlockInv'
<1>1. /\ node' = "down" /\ wot' = <<>> /\ todo' = <<>> /\ undone' = [k \in {"ud", "tx"} |-> 0] /\ block' = 0
      /\ crashes' = crashes + 1
      /\ UNCHANGED <<main, side, bindex, store, wotIds, wotFile, stops>>
  BY DEF Crash, Forgotten, databases
<1>2. PICK m \in -1..MaxBlock, n \in -1..MaxBlock : Heights(m, n)
  BY DEF BlockInv, HeightsOK
<1>3. BlockTypeOK'
  BY <1>1 DEF BlockInv, BlockTypeOK, Blocks
<1>4. block \in Nat /\ crashes \in Nat /\ crashes + 1 # 0
  BY DEF BlockInv, BlockTypeOK, Blocks
<1>5. Adding => node = "up" /\ Left \in 1..11 /\ ~Reverting
  BY PlaceKnown DEF BlockInv, BlockTypeOK, OperationKnown, Adding, Place
<1>6. Reverting => node \in {"up", "maintenance"} /\ Left \in 1..10
  BY DEF BlockInv, BlockTypeOK, OperationKnown, Reverting
<1>7. todo = <<>> \/ Adding \/ Reverting
  BY DEF BlockInv, OperationKnown
<1>8. m - 1 <= n /\ n <= m + 1
  BY <1>2, <1>4, <1>5, <1>6, <1>7 DEF Heights
<1>9. ASSUME NEW s \in Stores, NEW b \in Blocks
      PROVE  IF b \in main' \cap bindex' THEN Holds(s, b)' ELSE HoldsNot(s, b)'
  <2>1. store[s][b] \in Nat
    BY <1>9 DEF BlockInv, BlockTypeOK
  <2>2. /\ Holds(s, b) => Holds(s, b)' /\ HoldsNot(s, b)'
        /\ HoldsNot(s, b) \/ Empty(s, b) => HoldsNot(s, b)'
    BY <2>1, <1>1, <1>4 DEF Holds, HoldsNot, Empty
  <2>3. Settled(s) /\ AddingStore(s) /\ RevertingStore(s)
    BY <1>9 DEF BlockInv, StoresBounded
  <2>4. CASE todo = <<>> \/ b # block
    <3>1. IF b \in main \cap bindex THEN Holds(s, b) ELSE HoldsNot(s, b)
      BY <2>3, <2>4 DEF Settled
    <3> QED BY <3>1, <2>2, <1>1
  <2>5. CASE b = block /\ Adding
    <3>1. b \in main \cap bindex => Left <= 2
      BY <2>5, <1>2, <1>4, <1>5 DEF Heights
    <3>2. Left <= 2 => Left <= WrittenAt[s]
      BY <1>5, <2>5, WrittenPlaces
    <3>3. IF Left <= WrittenAt[s] THEN Holds(s, b) ELSE Empty(s, b)
      BY <2>3, <2>5 DEF AddingStore
    <3> QED BY <3>1, <3>2, <3>3, <2>2, <1>1
  <2>6. CASE b = block /\ Reverting
    <3>1. b \in main \cap bindex => Left > 8 /\ node = "up"
      BY <2>6, <1>2, <1>4, <1>6 DEF Heights
    <3>2. Left > 8 => Left > RemovedAt[s]
      BY <1>6, <2>6, RemovedPlaces
    <3>3. /\ node = "up" => IF Left > RemovedAt[s] THEN Holds(s, b) ELSE Empty(s, b)
          /\ node # "up" => HoldsNot(s, b)
      BY <2>3, <2>6 DEF RevertingStore
    <3> QED BY <3>1, <3>2, <3>3, <2>2, <1>1
  <2> QED BY <2>4, <2>5, <2>6, <1>7
<1>10. main = 0..m /\ bindex = 0..n
  BY <1>2 DEF Heights
<1> QED BY <1>1, <1>3, <1>4, <1>8, <1>9, <1>10, RestKeeps, SMTT(30)

LEMMA RestingKeeps == ASSUME BlockInv, Stop \/ Start \/ NothingToMaintain \/ DropBlocksAbove \/ NoCurrentBlock PROVE BlockInv'
<1>1. /\ todo = <<>> /\ todo' = <<>> /\ crashes' = crashes
      /\ UNCHANGED <<side, bindex, store, wotIds, wotFile>>
  BY DEF BlockInv, OperationKnown, Stop, Start, NothingToMaintain, DropBlocksAbove, NoCurrentBlock, Forgotten, Idle, databases, bounds
<1>2. PICK m \in -1..MaxBlock, n \in -1..MaxBlock :
                /\ main = 0..m /\ bindex = 0..n /\ Highest(main) = m /\ Highest(bindex) = n
                /\ m - 1 <= n /\ n <= m + 1
                /\ node = "up" => m = n \/ (n = -1 /\ m = 0)
                /\ crashes = 0 => m = n
  BY <1>1, AtRest
<1>3. crashes = 0 /\ stops = 0 => node = "up"
  BY <1>1, AtRest
<1>4. Kept = 0..(IF m < n THEN m ELSE n)
  BY <1>2 DEF Kept
<1>5. Highest(Kept) = (IF m < n THEN m ELSE n)
  BY <1>4, HighestOf
<1>6. PICK k \in -1..MaxBlock :
        /\ main' = 0..k /\ k <= m /\ k - 1 <= n /\ n <= k + 1
        /\ 0..k \cap bindex = main \cap bindex
        /\ node' = "up" => k = n \/ (n = -1 /\ k = 0)
        /\ crashes = 0 => k = n
  <2>1. CASE Stop \/ Start
    BY <2>1, <1>2 DEF Stop, Start, Forgotten, databases
  <2>2. CASE NothingToMaintain
    <3>1. n = -1
      BY <2>2, <1>2 DEF NothingToMaintain
    <3> QED BY <2>2, <3>1, <1>2 DEF NothingToMaintain, databases
  <2>3. CASE DropBlocksAbove
    <3>1. n <= m /\ main' = 0..n
      BY <2>3, <1>2, <1>4, <1>5 DEF DropBlocksAbove
    <3> QED BY <3>1, <1>2
  <2>4. CASE NoCurrentBlock
    <3>1. m = -1 /\ main' = main /\ node' = "down"
      <4>1. n >= 0
        BY <2>4, <1>2 DEF NoCurrentBlock
      <4>2. m = -1
        BY <2>4, <4>1, <1>2, <1>4 DEF NoCurrentBlock
      <4> QED BY <2>4, <4>2, <1>2 DEF NoCurrentBlock
    <3> QED BY <3>1, <1>2
  <2> QED BY <2>1, <2>2, <2>3, <2>4
<1>7. BlockTypeOK'
  <2>1. main' \subseteq Blocks
    BY <1>6 DEF Blocks
  <2>2. wot' \in Seq(Blocks) /\ block' \in Blocks /\ undone' \in [{"ud", "tx"} -> Nat] /\ node' \in {"up", "down", "maintenance"} /\ stops' \in Nat
    <3>1. CASE Stop
      BY <3>1 DEF BlockInv, BlockTypeOK, Blocks, Stop, Forgotten
    <3>2. CASE Start \/ NothingToMaintain
      BY <3>2 DEF BlockInv, BlockTypeOK, Start, NothingToMaintain, bounds
    <3>3. CASE DropBlocksAbove \/ NoCurrentBlock
      BY <3>3 DEF BlockInv, BlockTypeOK, DropBlocksAbove, NoCurrentBlock, bounds
    <3> QED BY <3>1, <3>2, <3>3
  <2> QED BY <2>1, <2>2, <1>1 DEF BlockInv, BlockTypeOK
<1>8. \A s \in Stores, b \in Blocks : IF b \in main' \cap bindex' THEN Holds(s, b)' ELSE HoldsNot(s, b)'
  BY <1>1, <1>6, AtRest DEF Holds, HoldsNot
<1>9. crashes = 0 => side' \cap main' = {}
  <2>1. main' \subseteq main
    BY <1>2, <1>6
  <2> QED BY <2>1, <1>1, AtRest
<1>10. ~(crashes = 0 /\ stops' = 0)
  BY <1>3 DEF BlockInv, BlockTypeOK, Stop, Start, NothingToMaintain, DropBlocksAbove, NoCurrentBlock, bounds
<1> QED BY <1>1, <1>2, <1>6, <1>7, <1>8, <1>9, <1>10, RestKeeps, ZenonT(60)

LEMMA NotFoundKeeps == ASSUME BlockInv, SideBlockNotFound PROVE BlockInv'
<1>1. /\ todo' = <<>> /\ block \notin main /\ node' = (IF node = "maintenance" THEN "down" ELSE node)
      /\ UNCHANGED <<main, side, bindex, store, wotIds, wotFile, wot, block, undone, crashes, stops>>
  BY DEF SideBlockNotFound, databases, bounds
<1>2. Reverting /\ Left = 3
  BY WhatIsDone DEF BlockInv, BlockTypeOK, SideBlockNotFound
<1>3. block \in Nat /\ block \in Blocks /\ node \in {"up", "maintenance"}
  BY <1>2 DEF BlockInv, BlockTypeOK, Blocks, OperationKnown
<1>4. PICK m \in -1..MaxBlock, n \in -1..MaxBlock : Heights(m, n)
  BY DEF BlockInv, HeightsOK
<1>5. main = 0..m /\ bindex = 0..n /\ m = (IF node = "up" THEN block ELSE block - 1) /\ n = block - 1
  BY <1>2, <1>3, <1>4 DEF Heights
<1>6. node = "maintenance" /\ node' = "down" /\ m = n
  BY <1>1, <1>3, <1>5
<1>7. crashes > 0
  BY <1>2, <1>6 DEF BlockInv, OperationKnown
<1>8. BlockTypeOK'
  BY <1>1, <1>6 DEF BlockInv, BlockTypeOK
<1>9. ASSUME NEW s \in Stores, NEW b \in Blocks
      PROVE  IF b \in main' \cap bindex' THEN Holds(s, b)' ELSE HoldsNot(s, b)'
  <2>1. Settled(s) /\ RevertingStore(s)
    BY <1>9 DEF BlockInv, StoresBounded
  <2>2. IF b \in main \cap bindex THEN Holds(s, b) ELSE HoldsNot(s, b)
    <3>1. CASE b = block
      BY <3>1, <2>1, <1>1, <1>2, <1>6 DEF RevertingStore
    <3>2. CASE b # block
      BY <3>2, <2>1 DEF Settled
    <3> QED BY <3>1, <3>2
  <2> QED BY <2>2, <1>1 DEF Holds, HoldsNot
<1>10. crashes' # 0
  BY <1>1, <1>7 DEF BlockInv, BlockTypeOK
<1>11. main' = 0..m /\ bindex' = 0..n /\ m - 1 <= n /\ n <= m + 1 /\ todo' = <<>> /\ node' = "down"
  BY <1>1, <1>5, <1>6
<1> QED BY <1>8, <1>9, <1>10, <1>11, RestKeeps, SMTT(30)

LEMMA ApplyKeeps == ASSUME BlockInv, NEW b \in Blocks, Apply(b) PROVE BlockInv'
<1>1. /\ todo = <<>> /\ node = "up" /\ b = Highest(main) + 1 /\ b = Highest(bindex) + 1
      /\ \A s \in Indexes : store[s][b] = 0
      /\ block' = b /\ todo' = AddWrites
      /\ UNCHANGED <<main, side, bindex, store, wotIds, wotFile, wot, node, undone, crashes, stops>>
  BY DEF Apply, Idle, databases, bounds
<1>2. PICK m \in -1..MaxBlock, n \in -1..MaxBlock :
                /\ main = 0..m /\ bindex = 0..n /\ Highest(main) = m /\ Highest(bindex) = n
  BY <1>1, AtRest
<1>3. Adding' /\ Left' = 11 /\ ~Reverting' /\ todo' # <<>> /\ todo' \in Seq(Writes)
  <2>1. todo' \in Seq(Writes)
    BY <1>1, AddPlaces
  <2>2. Adding' /\ Left' = 11
    BY <1>1, OperationBegins
  <2> QED BY <2>1, <2>2, PlaceKnownNext DEF Place
<1>4. m = b - 1 /\ n = b - 1 /\ b \in Nat /\ b \notin main
  BY <1>1, <1>2 DEF Blocks
<1>5. BlockTypeOK' /\ OperationKnown'
  BY <1>1, <1>3 DEF BlockInv, BlockTypeOK, OperationKnown
<1>6. HeightsOK'
  <2>1. Heights(m, n)'
    BY <1>1, <1>2, <1>3, <1>4 DEF Heights
  <2> QED BY <2>1 DEF HeightsOK
<1>7. StoresBounded'
  <2>1. ASSUME NEW s \in Stores PROVE Settled(s)' /\ AddingStore(s)'
    <3>1. \A a \in Blocks : IF a \in main \cap bindex THEN Holds(s, a) ELSE HoldsNot(s, a)
      BY <2>1, <1>1, AtRest
    <3>2. Settled(s)'
      BY <3>1, <1>1 DEF Settled, Holds, HoldsNot
    <3>3. Empty(s, b)
      BY <3>1, <1>1, <1>4 DEF Empty, HoldsNot
    <3>4. ~(Left' <= WrittenAt[s])
      BY <2>1, <1>3, WrittenPlaces
    <3> QED BY <3>2, <3>3, <3>4, <1>1 DEF AddingStore, Empty
  <2> QED BY <2>1, <1>3 DEF StoresBounded, RevertingStore, MovementsRead
<1>8. SideApart'
  BY <1>1, AtRest DEF SideApart
<1>9. NodesKnown'
  <2> SUFFICES ASSUME crashes = 0, stops = 0
      PROVE /\ wot = Nodes(NodeCount')
            /\ \A a \in Blocks : a # b => wotIds[a] = IF a \in main THEN {a} ELSE {}
            /\ wotIds[b] = {}
    <3>1. wotIds' = wotIds /\ main' = main /\ node' = "up" /\ wot' = wot /\ crashes' = crashes /\ stops' = stops /\ block' = b
      BY <1>1
    <3>2. ~(Left' <= 6)
      BY <1>3
    <3> QED BY <3>1, <3>2, <1>3 DEF NodesKnown, Nodes
  <2>1. NodeCount' = b
    BY <1>1, <1>3 DEF NodeCount
  <2>2. /\ wot = Nodes(Highest(main) + 1)
        /\ \A a \in Blocks : wotIds[a] = IF a \in main THEN {a} ELSE {}
    BY <1>1, AtRest
  <2> QED BY <2>1, <2>2, <1>1, <1>4
<1> QED BY <1>5, <1>6, <1>7, <1>8, <1>9 DEF BlockInv

LEMMA BeginRevertKeeps == ASSUME BlockInv, Revert \/ RevertHead PROVE BlockInv'
<1>1. /\ todo = <<>> /\ node \in {"up", "maintenance"}
      /\ block' = Highest(bindex) /\ todo' = RevertWrites
      /\ UNCHANGED <<main, side, bindex, store, wotIds, wotFile, wot, node, undone, crashes, stops>>
  BY DEF Revert, RevertHead, Idle, databases, bounds
<1>2. PICK m \in -1..MaxBlock, n \in -1..MaxBlock :
                /\ main = 0..m /\ bindex = 0..n /\ Highest(main) = m /\ Highest(bindex) = n
                /\ m - 1 <= n /\ n <= m + 1
                /\ node = "up" => m = n \/ (n = -1 /\ m = 0)
                /\ crashes = 0 => m = n
  BY <1>1, AtRest
<1>3. Reverting' /\ Left' = 10 /\ ~Adding' /\ todo' # <<>> /\ todo' \in Seq(Writes)
  <2>1. todo' \in Seq(Writes)
    BY <1>1, RevertPlaces
  <2>2. Reverting' /\ Left' = 10
    BY <1>1, OperationBegins
  <2> QED BY <2>1, <2>2, PlaceKnownNext DEF Place
<1>4. n >= 0 /\ block' = n /\ n \in Blocks /\ m = (IF node = "up" THEN n ELSE n - 1)
  <2>1. CASE Revert
    BY <2>1, <1>1, <1>2 DEF Revert, Idle, Blocks
  <2>2. CASE RevertHead
    <3>1. Kept = 0..(IF m < n THEN m ELSE n)
      BY <1>2 DEF Kept
    <3>2. Highest(Kept) = (IF m < n THEN m ELSE n)
      BY <3>1, HighestOf
    <3> QED BY <3>2, <2>2, <1>1, <1>2 DEF RevertHead, Blocks
  <2> QED BY <2>1, <2>2
<1>5. node = "maintenance" => crashes > 0
  BY <1>2, <1>4 DEF BlockInv, BlockTypeOK
<1>6. BlockTypeOK' /\ OperationKnown'
  BY <1>1, <1>3, <1>4, <1>5 DEF BlockInv, BlockTypeOK, OperationKnown
<1>7. HeightsOK'
  <2>1. Heights(m, n)'
    BY <1>1, <1>2, <1>3, <1>4 DEF Heights
  <2> QED BY <2>1 DEF HeightsOK
<1>8. StoresBounded'
  <2>1. ASSUME NEW s \in Stores PROVE Settled(s)' /\ RevertingStore(s)'
    <3>1. \A a \in Blocks : IF a \in main \cap bindex THEN Holds(s, a) ELSE HoldsNot(s, a)
      BY <2>1, <1>1, AtRest
    <3>2. Settled(s)'
      BY <3>1, <1>1 DEF Settled, Holds, HoldsNot
    <3>3. IF node = "up" THEN Holds(s, n) ELSE HoldsNot(s, n)
      BY <3>1, <1>1, <1>2, <1>4
    <3>4. Left' > RemovedAt[s]
      BY <2>1, <1>3, RemovedPlaces
    <3> QED BY <3>2, <3>3, <3>4, <1>1, <1>4 DEF RevertingStore, Holds, HoldsNot
  <2>2. MovementsRead'
    BY <1>3 DEF MovementsRead
  <2> QED BY <2>1, <2>2, <1>3 DEF StoresBounded, AddingStore
<1>9. SideApart'
  BY <1>1, AtRest DEF SideApart
<1>10. NodesKnown'
  <2> SUFFICES ASSUME crashes = 0, stops = 0
      PROVE /\ node = "up" /\ wot = Nodes(NodeCount')
            /\ \A a \in Blocks : a # n => wotIds[a] = IF a \in main THEN {a} ELSE {}
            /\ wotIds[n] = {n}
    <3>1. wotIds' = wotIds /\ main' = main /\ node' = node /\ wot' = wot /\ crashes' = crashes /\ stops' = stops /\ block' = n
      BY <1>1, <1>4
    <3>2. ~(Left' <= 6)
      BY <1>3
    <3> QED BY <3>1, <3>2, <1>3 DEF NodesKnown, Nodes
  <2>1. NodeCount' = n + 1
    <3>1. Left' > 9
      BY <1>3
    <3> QED BY <3>1, <1>3, <1>4 DEF NodeCount
  <2>2. /\ node = "up" /\ wot = Nodes(Highest(main) + 1)
        /\ \A a \in Blocks : wotIds[a] = IF a \in main THEN {a} ELSE {}
    BY <1>1, AtRest
  <2>3. m = n /\ n \in main
    BY <2>2, <1>2, <1>4
  <2> QED BY <2>1, <2>2, <2>3, <1>2, <1>4
<1> QED BY <1>6, <1>7, <1>8, <1>9, <1>10 DEF BlockInv

----------------------------------------------------------------------------
LEMMA BlockInvInit == Init => BlockInv
<1> SUFFICES ASSUME Init PROVE BlockInv
  OBVIOUS
<1>1. Left = 0 /\ ~Adding /\ ~Reverting
  BY NoOperation DEF Init
<1>2. BlockTypeOK /\ OperationKnown /\ SideApart
  BY <1>1 DEF Init, BlockTypeOK, OperationKnown, SideApart, Blocks
<1>3. HeightsOK
  <2>1. Heights(-1, -1)
    BY <1>1 DEF Init, Heights
  <2> QED BY <2>1 DEF HeightsOK
<1>4. StoresBounded
  BY <1>1 DEF Init, StoresBounded, MovementsRead, Settled, AddingStore, RevertingStore, HoldsNot
<1>5. NodesKnown
  <2>1. Highest(main) = -1
    BY DEF Init, Highest
  <2> QED BY <1>1, <2>1 DEF Init, NodesKnown, NodeCount, Nodes
<1> QED BY <1>2, <1>3, <1>4, <1>5 DEF BlockInv

LEMMA BlockInvStep == BlockInv /\ [Next]_vars => BlockInv'
<1> SUFFICES ASSUME BlockInv, [Next]_vars PROVE BlockInv'
  OBVIOUS
<1>1. CASE UNCHANGED vars
  BY <1>1, NoStep
<1>2. ASSUME NEW b \in Blocks, Receive(b) PROVE BlockInv'
  BY <1>2, ReceiveKeeps
<1>3. ASSUME NEW b \in Blocks, Apply(b) PROVE BlockInv'
  BY <1>3, ApplyKeeps
<1>4. CASE Revert \/ RevertHead
  BY <1>4, BeginRevertKeeps
<1>5. CASE \/ \E s \in {"dividends", "mindex", "sindex", "cindex"} : Insert(s)
           \/ CreateNewcomers \/ InsertIindex \/ InsertHead \/ UpdateWallets
           \/ SaveBlock \/ RemoveFork \/ WriteWotFile
  BY <1>5, AddWriteEffect, AddKeeps DEF BlockInv
<1>6. CASE \/ RemoveNodes \/ RemoveHead
           \/ \E s \in Indexes : RemoveEntries(s)
           \/ RevertUDs \/ SetSideBlock \/ SaveFork \/ RevertWallets
  BY <1>6, RevertWriteEffect, RevertKeeps DEF BlockInv
<1>7. CASE SideBlockNotFound
  BY <1>7, NotFoundKeeps
<1>8. CASE Crash
  BY <1>8, CrashKeeps
<1>9. CASE Stop \/ Start \/ NothingToMaintain \/ DropBlocksAbove \/ NoCurrentBlock
  BY <1>9, RestingKeeps
<1> QED BY <1>1, <1>2, <1>3, <1>4, <1>5, <1>6, <1>7, <1>8, <1>9 DEF Next, Write, InitDAL

LEMMA Invariance == Spec => []BlockInv
  BY BlockInvInit, BlockInvStep, PTL DEF Spec

----------------------------------------------------------------------------
(***************************************************************************)
(* saveBlockData and revertBlock (src/app/lib/blockchain/DuniterBlockchain.ts): *)
(* as long as no operation was cut, the blocks, the HEADs and every store of  *)
(* an idle node tell the same chain, each block once; and the nodes of the    *)
(* web of trust are those that IINDEX knows, as long as the process lives.   *)
(***************************************************************************)
THEOREM StoresStayTogether == Spec => []StoresAgree
<1>1. BlockInv => StoresAgree
  <2> SUFFICES ASSUME BlockInv, Idle, crashes = 0 PROVE
            /\ main = 0..Highest(main) /\ bindex = main /\ side \cap main = {}
            /\ \A s \in Stores, b \in Blocks : store[s][b] = IF b \in main THEN 1 ELSE 0
            /\ stops = 0 =>
                /\ wot = ChainWot
                /\ \A b \in Blocks : wotIds[b] = IF b \in main THEN {b} ELSE {}
    BY DEF StoresAgree
  <2>1. todo = <<>>
    BY DEF Idle
  <2>2. main = 0..Highest(main) /\ bindex = main /\ side \cap main = {}
    BY <2>1, AtRest
  <2>3. ASSUME NEW s \in Stores, NEW b \in Blocks PROVE store[s][b] = IF b \in main THEN 1 ELSE 0
    <3>1. store[s][b] \in Nat /\ IF b \in main \cap bindex THEN Holds(s, b) ELSE HoldsNot(s, b)
      BY <2>1, <2>3, AtRest
    <3> QED BY <3>1, <2>2 DEF Holds, HoldsNot
  <2>4. stops = 0 => wot = ChainWot /\ \A b \in Blocks : wotIds[b] = IF b \in main THEN {b} ELSE {}
    BY <2>1, AtRest DEF ChainWot, Nodes
  <2> QED BY <2>2, <2>3, <2>4
<1> QED BY <1>1, Invariance, PTL

(***************************************************************************)
(* The maintenance of initDAL (src/server.ts): wherever the process stopped,  *)
(* a node that is up again has its blocks and its HEADs side by side, no      *)
(* block of the chain lost what it wrote, and what is left besides is one    *)
(* copy per crash at most, none at all twice in the four indexes.            *)
(***************************************************************************)
THEOREM CutsAreMended == Spec => []CrashesAreMended
<1>1. BlockInv => HeadsAgree
  <2> SUFFICES ASSUME BlockInv, Idle, bindex # {} PROVE bindex = main
    BY DEF HeadsAgree
  <2>1. PICK m \in -1..MaxBlock, n \in -1..MaxBlock :
          main = 0..m /\ bindex = 0..n /\ (m = n \/ (n = -1 /\ m = 0))
    BY AtRest DEF Idle
  <2> QED BY <2>1
<1>2. BlockInv => CutsAreBounded
  <2> SUFFICES ASSUME BlockInv PROVE CutsAreBounded
    OBVIOUS
  <2>1. Idle => \A s \in Stores : \A b \in bindex \cap main : store[s][b] >= 1
    <3>1. bindex \subseteq Blocks
      BY DEF BlockInv, BlockTypeOK
    <3> QED BY <3>1, AtRest DEF Idle, Holds
  <2>2. ASSUME NEW s \in Stores, NEW b \in Blocks
        PROVE  store[s][b] \in 0..(IF s \in Indexes THEN 1 ELSE 1 + crashes)
    <3>1. store[s][b] \in Nat /\ crashes \in Nat
      BY <2>2 DEF BlockInv, BlockTypeOK
    <3>2. Holds(s, b) \/ HoldsNot(s, b) \/ Empty(s, b)
      <4>1. Settled(s) /\ AddingStore(s) /\ RevertingStore(s)
        BY <2>2 DEF BlockInv, StoresBounded
      <4>2. todo = <<>> \/ Adding \/ Reverting
        BY DEF BlockInv, OperationKnown
      <4> QED BY <4>1, <4>2 DEF Settled, AddingStore, RevertingStore
    <3> QED BY <3>1, <3>2 DEF Holds, HoldsNot, Empty
  <2> QED BY <2>1, <2>2 DEF CutsAreBounded
<1> QED BY <1>1, <1>2, Invariance, PTL DEF CrashesAreMended

----------------------------------------------------------------------------
(***************************************************************************)
(* The HEADs.  The inductive invariant says how much of the chain BINDEX     *)
(* keeps after a trim and the reverts that followed it, and what the cache   *)
(* and the computations under way follow as long as nothing raced with them. *)
(***************************************************************************)
\* HEADs are numbered from 0, and have the fields that sizes are computed from.
HeadTypeOK ==
    /\ heads \in Seq({heads[k] : k \in DOMAIN heads}) /\ heads # <<>>
    /\ \A k \in DOMAIN heads : /\ heads[k].number = k - 1
                               /\ heads[k].issuersFrame \in Int /\ heads[k].issuersFrameVar \in Int
                               /\ heads[k].issuersCount \in Int
    /\ tail \in Nat /\ tail < Len(heads) /\ falls \in 0..Forkable
    /\ reading \in Seq(Int) /\ vHEAD \in Int /\ vHEAD_1 \in Int /\ raced \in BOOLEAN

\* BINDEX keeps what the rules read, and as many blocks more as may still be reverted.
EnoughKept == tail = 0 \/ Len(heads) - tail + falls >= Forkable + Max({TimeBlocks, DiffEval}) + 1

\* Without a race every computation under way, and the cache, follow the current block.
CacheFollows == ~raced =>
    /\ reading \in Seq({TopNumber})
    /\ reading # <<>> => vHEAD_1 = TopNumber
    /\ reading = <<>> /\ vHEAD # None => vHEAD = TopNumber /\ vHEAD_1 = TopNumber

HeadInv == HeadTypeOK /\ EnoughKept /\ CacheFollows

----------------------------------------------------------------------------
\* A sequence is one of its own elements.
LEMMA OfItsElements ==
    ASSUME NEW S, NEW s \in Seq(S)
    PROVE  s \in Seq({s[k] : k \in DOMAIN s})
<1>1. Len(s) \in Nat /\ DOMAIN s = 1..Len(s)
  BY LenProperties
<1>2. SubSeq(s, 1, Len(s)) \in Seq({s[k] : k \in DOMAIN s})
  BY <1>1, SubSeqProperties
<1> QED
  BY <1>2, SubSeqFull

\* What is left of a sequence without one of its elements.
LEMMA WithoutOne ==
    ASSUME NEW S, NEW s \in Seq(S), NEW i \in DOMAIN s
    PROVE  RemoveAt(s, i) \in Seq(S)
<1>1. Len(s) \in Nat /\ i \in 1..Len(s) /\ \A k \in 1..Len(s) : s[k] \in S
  BY LenProperties
<1>2. SubSeq(s, 1, i - 1) \in Seq(S)
  BY <1>1, SubSeqProperties
<1>3. SubSeq(s, i + 1, Len(s)) \in Seq(S)
  BY <1>1, SubSeqProperties
<1> QED
  BY <1>2, <1>3, ConcatProperties DEF RemoveAt

LEMMA HeadConstants == Forkable \in Nat /\ TimeBlocks \in Nat \ {0} /\ DiffEval \in Nat \ {0}
BY HeadAssumption

LEMMA MaxOfTwo ==
    ASSUME NEW a \in Int, NEW b \in Int
    PROVE  Max({a, b}) \in Int /\ Max({a, b}) >= a /\ Max({a, b}) >= b /\ Max({a, b}) \in {a, b}
<1>1. \E x \in {a, b} : \A y \in {a, b} : x >= y
  <2>1. CASE a >= b BY <2>1
  <2>2. CASE b >= a BY <2>2
  <2> QED BY <2>1, <2>2
<1>2. PICK x \in {a, b} : x = Max({a, b}) /\ \A y \in {a, b} : x >= y
  BY <1>1 DEF Max
<1> QED
  BY <1>2

LEMMA MinOfTwo ==
    ASSUME NEW a \in Int, NEW b \in Int
    PROVE  Min({a, b}) \in {a, b} /\ Min({a, b}) <= a /\ Min({a, b}) <= b
<1>1. \E x \in {a, b} : \A y \in {a, b} : x <= y
  <2>1. CASE a >= b BY <2>1
  <2>2. CASE b >= a BY <2>2
  <2> QED BY <2>1, <2>2
<1>2. PICK x \in {a, b} : x = Min({a, b}) /\ \A y \in {a, b} : x <= y
  BY <1>1 DEF Min
<1> QED
  BY <1>2

LEMMA SizeIsLarge ==
    ASSUME NEW h, h.issuersCount \in Int, h.issuersFrame \in Int
    PROVE  RequiredSize(h) \in Int /\ RequiredSize(h) >= Forkable + Max({TimeBlocks, DiffEval})
<1> DEFINE S == {h.issuersCount, h.issuersFrame, TimeBlocks, DiffEval}
<1> DEFINE a == Max({h.issuersCount, h.issuersFrame})
<1> DEFINE b == Max({TimeBlocks, DiffEval})
<1> DEFINE c == Max({a, b})
<1>0. TimeBlocks \in Int /\ DiffEval \in Int /\ Forkable \in Int
  BY HeadAssumption
<1>1. /\ a \in Int /\ a >= h.issuersCount /\ a >= h.issuersFrame /\ a \in {h.issuersCount, h.issuersFrame}
      /\ b \in Int /\ b >= TimeBlocks /\ b >= DiffEval /\ b \in {TimeBlocks, DiffEval}
  BY <1>0, MaxOfTwo
<1>2. c \in Int /\ c >= a /\ c >= b /\ c \in {a, b}
  BY <1>1, MaxOfTwo
<1> HIDE DEF a, b, c
<1>3. c \in S /\ \A y \in S : c >= y
  BY <1>0, <1>1, <1>2
<1>4. PICK x : x = Max(S) /\ x \in S /\ \A y \in S : x >= y
  BY <1>3 DEF Max
<1>5. x \in Int /\ x >= b
  <2>1. x \in {h.issuersCount, h.issuersFrame, TimeBlocks, DiffEval}
    BY <1>4
  <2>2. b = TimeBlocks \/ b = DiffEval
    BY <1>1
  <2>3. x >= TimeBlocks /\ x >= DiffEval
    BY <1>4
  <2> QED BY <1>0, <2>1, <2>2, <2>3
<1>6. RequiredSize(h) = Forkable + x
  BY <1>4 DEF RequiredSize
<1>7. Max({TimeBlocks, DiffEval}) = b /\ b \in Int
  BY <1>1 DEF b
<1>8. RequiredSize(h) \in Int /\ RequiredSize(h) >= Forkable + b
  BY <1>0, <1>1, <1>5, <1>6
<1> QED
  BY <1>7, <1>8

LEMMA LargestIsSeq ==
    ASSUME NEW S, NEW s \in Seq(S), NEW n \in Int
    PROVE  Largest(s, n) \in Seq(S)
<1>1. Len(s) \in Nat /\ DOMAIN s = 1..Len(s) /\ \A k \in 1..Len(s) : s[k] \in S
  BY LenProperties
<1>2. CASE n >= Len(s)
  BY <1>2 DEF Largest
<1>3. CASE n < Len(s)
  <2>1. Largest(s, n) = SubSeq(s, Len(s) - n + 1, Len(s))
    BY <1>1, <1>3 DEF Largest
  <2>2. SubSeq(s, Len(s) - n + 1, Len(s)) \in Seq(S)
    BY <1>1, <1>3, SubSeqProperties
  <2> QED BY <2>1, <2>2
<1> QED BY <1>1, <1>2, <1>3

\* The latest elements of a sequence are those of an end of it that is long enough.
LEMMA LatestOfEnd ==
    ASSUME NEW S, NEW s \in Seq(S), NEW d \in Nat, d < Len(s), NEW n \in Int, n <= Len(s) - d \/ d = 0
    PROVE  Largest(SubSeq(s, d + 1, Len(s)), n) = Largest(s, n)
<1>1. Len(s) \in Nat
  BY LenProperties
<1>2. CASE d = 0
  <2>1. SubSeq(s, d + 1, Len(s)) = s
    BY <1>2, SubSeqFull
  <2> QED
    BY <2>1
<1>3. CASE d # 0
  <2> DEFINE e == SubSeq(s, d + 1, Len(s))
  <2>1. Len(e) = Len(s) - d
    BY <1>1, SubSeqProperties
  <2>2. Largest(s, n) = SubSeq(s, Len(s) - n + 1, Len(s))
    BY <1>1, <1>3 DEF Largest
  <2>3. CASE n = Len(s) - d
    <3>1. n >= Len(e) /\ Len(s) - n + 1 = d + 1
      BY <1>1, <2>1, <2>3
    <3>2. Largest(e, n) = e
      BY <3>1 DEF Largest
    <3> QED BY <2>2, <3>1, <3>2
  <2>4. CASE n < Len(s) - d
    <3> HIDE DEF e
    <3>1. Largest(e, n) = SubSeq(e, Len(e) - n + 1, Len(e))
      BY <1>1, <2>1, <2>4 DEF Largest
    <3>2. CASE n <= 0
      BY <1>1, <2>1, <2>2, <3>1, <3>2, SubSeqEmpty DEF e
    <3>3. CASE n > 0
      <4>1. Len(e) - n + 1 \in 1..Len(s) - (d + 1) + 1 /\ Len(e) \in 1..Len(s) - (d + 1) + 1
        BY <1>1, <2>1, <2>4, <3>3
      <4>2. d + 1 \in 1..Len(s) /\ Len(s) \in 1..Len(s)
        BY <1>1
      <4>3. SubSeq(e, Len(e) - n + 1, Len(e)) = SubSeq(s, d + 1 + (Len(e) - n + 1) - 1, d + 1 + Len(e) - 1)
        BY <4>1, <4>2, SubSeqOfSubSeq DEF e
      <4>4. d + 1 + (Len(e) - n + 1) - 1 = Len(s) - n + 1 /\ d + 1 + Len(e) - 1 = Len(s)
        BY <1>1, <2>1
      <4> QED
        BY <2>2, <3>1, <4>3, <4>4 DEF e
    <3> QED BY <3>2, <3>3
  <2>5. n = Len(s) - d \/ n < Len(s) - d
    BY <1>1, <1>3
  <2> QED BY <2>3, <2>4, <2>5
<1> QED BY <1>2, <1>3

----------------------------------------------------------------------------
LEMMA HeadInitOK == HeadInit => HeadInv
<1> SUFFICES ASSUME HeadInit PROVE HeadInv
  OBVIOUS
<1>1. PICK i \in Issuer : heads = <<RootHead(i, Cardinality(Issuer))>>
  BY DEF HeadInit
<1>2. PICK h : h = RootHead(i, Cardinality(Issuer))
  OBVIOUS
<1>3. h.number = 0 /\ h.issuersFrame = 1 /\ h.issuersFrameVar = 0 /\ h.issuersCount = 0
  BY <1>2 DEF RootHead
<1>4. heads = <<h>> /\ Len(heads) = 1 /\ DOMAIN heads = {1} /\ heads[1] = h
  BY <1>1, <1>2
<1>5. heads \in Seq({heads[k] : k \in DOMAIN heads})
  BY <1>4
<1>6. HeadTypeOK
  <2>1. \A k \in DOMAIN heads : /\ heads[k].number = k - 1
                                 /\ heads[k].issuersFrame \in Int /\ heads[k].issuersFrameVar \in Int
                                 /\ heads[k].issuersCount \in Int
    BY <1>3, <1>4
  <2>2. /\ heads # <<>> /\ tail \in Nat /\ tail < Len(heads) /\ falls \in 0..Forkable
    BY <1>4, HeadConstants DEF HeadInit
  <2>3. reading \in Seq(Int) /\ vHEAD \in Int /\ vHEAD_1 \in Int /\ raced \in BOOLEAN
    <3>1. reading = <<>> /\ vHEAD = -1 /\ vHEAD_1 = -1 /\ raced = FALSE
      BY DEF HeadInit, None
    <3>2. reading \in Seq(Int)
      BY <3>1, EmptySeq
    <3>3. vHEAD \in Int /\ vHEAD_1 \in Int
      BY <3>1
    <3>4. raced \in BOOLEAN
      BY <3>1
    <3> QED BY <3>2, <3>3, <3>4
  <2> QED BY <1>5, <2>1, <2>2, <2>3 DEF HeadTypeOK
<1>7. EnoughKept /\ CacheFollows
  BY DEF HeadInit, EnoughKept, CacheFollows, None
<1> QED
  BY <1>6, <1>7 DEF HeadInv

\* The number of the current block, and how many blocks BINDEX keeps.
LEMMA HeadFacts ==
    ASSUME HeadTypeOK
    PROVE  /\ Len(heads) \in Nat \ {0} /\ DOMAIN heads = 1..Len(heads) /\ Last(heads) = heads[Len(heads)]
           /\ TopNumber \in Nat /\ TopNumber = Len(heads) - 1
           /\ Len(Bindex) = Len(heads) - tail /\ Last(Bindex) = Last(heads)
           /\ \A k \in 1..Len(heads) - tail : Bindex[k] = heads[tail + k]
           /\ Bindex \in Seq({heads[k] : k \in DOMAIN heads})
<1>1. /\ Len(heads) \in Nat \ {0} /\ DOMAIN heads = 1..Len(heads) /\ Last(heads) = heads[Len(heads)]
      /\ TopNumber \in Nat /\ TopNumber = Len(heads) - 1
  BY LenProperties, EmptySeq DEF HeadTypeOK, TopNumber, Last
<1>2. tail \in Nat /\ tail + 1 <= Len(heads) /\ \A k \in tail + 1..Len(heads) : heads[k] \in {heads[j] : j \in DOMAIN heads}
  BY <1>1 DEF HeadTypeOK
<1>3. /\ Len(Bindex) = Len(heads) - tail /\ Bindex \in Seq({heads[k] : k \in DOMAIN heads})
  BY <1>1, <1>2, SubSeqProperties DEF Bindex
<1>4. \A k \in 1..Len(heads) - tail : Bindex[k] = heads[tail + k]
  <2>1. \A k \in 1..Len(heads) - (tail + 1) + 1 : SubSeq(heads, tail + 1, Len(heads))[k] = heads[tail + 1 + k - 1]
    BY <1>1, <1>2, SubSeqProperties
  <2> QED BY <1>1, <1>2, <2>1 DEF Bindex
<1>5. Last(Bindex) = Last(heads)
  <2>1. Last(Bindex) = Bindex[Len(Bindex)]
    BY DEF Last
  <2>2. Len(Bindex) \in 1..Len(heads) - tail /\ tail + Len(Bindex) = Len(heads)
    BY <1>1, <1>2, <1>3
  <2> QED BY <1>1, <1>4, <2>1, <2>2
<1> QED
  BY <1>1, <1>3, <1>4, <1>5

\* The HEAD after the current block is of the next number and has sizes.
LEMMA NextIsTyped ==
    ASSUME HeadTypeOK, NEW i, NEW step, NEW members
    PROVE  LET h == NextHead(Bindex, i, step, members) IN
           /\ h.number = Len(heads)
           /\ h.issuersFrame \in Int /\ h.issuersFrameVar \in Int /\ h.issuersCount \in Int
<1>1. PICK h : h = Last(Bindex)
  OBVIOUS
<1>2. /\ h.number = Len(heads) - 1 /\ h.issuersFrame \in Int /\ h.issuersFrameVar \in Int /\ h.issuersCount \in Int
      /\ Len(heads) \in Nat \ {0}
  <2>1. h = heads[Len(heads)] /\ Len(heads) \in Nat \ {0} /\ Len(heads) \in DOMAIN heads
    BY <1>1, HeadFacts
  <2> QED BY <2>1 DEF HeadTypeOK
<1>3. PICK frame : frame = Largest(Bindex, h.issuersFrame)
  OBVIOUS
<1>4. IssuersCount(frame) \in Int
  <2>1. Bindex \in Seq({heads[k] : k \in DOMAIN heads})
    BY HeadFacts
  <2>2. \E S : frame \in Seq(S)
    BY <1>2, <1>3, <2>1, LargestIsSeq
  <2>3. IsFiniteSet(DOMAIN frame)
    BY <2>2, LenProperties, FS_Interval
  <2>4. IsFiniteSet(IssuersOf(frame))
    <3>1. PICK f : f = [k \in DOMAIN frame |-> frame[k].issuer]
      OBVIOUS
    <3>2. f \in Surjection(DOMAIN frame, IssuersOf(frame))
      BY <3>1 DEF Surjection, IssuersOf
    <3> QED BY <2>3, <3>2, FS_Surjection
  <2> QED BY <2>4, FS_CardinalityType DEF IssuersCount
<1>5. PICK g : g = NextHead(Bindex, i, step, members)
  OBVIOUS
<1>6. /\ g.number = h.number + 1 /\ g.issuersCount = IssuersCount(frame)
      /\ g.issuersFrame = IssuersFrame(h) /\ g.issuersFrameVar = IssuersFrameVar(h, IssuersCount(frame))
  BY <1>1, <1>3, <1>5 DEF NextHead
<1>7. IssuersFrame(h) \in Int /\ IssuersFrameVar(h, IssuersCount(frame)) \in Int
  BY <1>2, <1>4 DEF IssuersFrame, IssuersFrameVar
<1>8. /\ g.number = Len(heads) /\ g.issuersFrame \in Int /\ g.issuersFrameVar \in Int /\ g.issuersCount \in Int
  BY <1>2, <1>4, <1>6, <1>7
<1> QED BY <1>5, <1>8

\* A block is written: BINDEX is cut down to the size its first HEAD asks for, and the cache forgotten.
LEMMA WriteBlockKeepsHeads ==
    ASSUME HeadInv, NEW i, NEW step, NEW members, WriteBlock(i, step, members)
    PROVE  HeadInv'
<1>0. HeadTypeOK /\ EnoughKept
  BY DEF HeadInv
<1>1. /\ Len(heads) \in Nat \ {0} /\ DOMAIN heads = 1..Len(heads) /\ tail \in Nat /\ tail < Len(heads)
      /\ falls \in 0..Forkable /\ Forkable \in Nat
  BY <1>0, HeadFacts, HeadConstants DEF HeadTypeOK
<1>2. PICK h : h = NextHead(Bindex, i, step, members)
  OBVIOUS
<1>3. h.number = Len(heads) /\ h.issuersFrame \in Int /\ h.issuersFrameVar \in Int /\ h.issuersCount \in Int
  BY <1>0, <1>2, NextIsTyped
<1>4. heads' = Append(heads, h) /\ TrimBindex(h)
  BY <1>2 DEF WriteBlock
<1>5. /\ vHEAD' = None /\ vHEAD_1' = None /\ raced' = (reading # <<>>) /\ falls' = falls /\ reading' = reading
  BY DEF WriteBlock, ForgetCache
<1>6. PICK S : S = {heads[k] : k \in DOMAIN heads} \cup {h}
  OBVIOUS
<1>7. heads \in Seq(S) /\ h \in S
  BY <1>0, <1>6, SeqMonotonic DEF HeadTypeOK
<1>8. /\ heads' \in Seq(S) /\ Len(heads') = Len(heads) + 1 /\ heads' # <<>>
      /\ \A k \in 1..Len(heads) : heads'[k] = heads[k]
      /\ heads'[Len(heads) + 1] = h
  BY <1>4, <1>7, AppendProperties
<1>9. heads' \in Seq({heads'[k] : k \in DOMAIN heads'}) /\ DOMAIN heads' = 1..Len(heads) + 1
  BY <1>8, OfItsElements, LenProperties
<1>10. PICK size : size = RequiredSize(heads[tail + 1])
  OBVIOUS
<1>11. size \in Int /\ size >= Forkable + Max({TimeBlocks, DiffEval})
  <2>1. tail + 1 \in DOMAIN heads
    BY <1>1
  <2>2. heads[tail + 1].issuersCount \in Int /\ heads[tail + 1].issuersFrame \in Int
    BY <1>0, <2>1 DEF HeadTypeOK
  <2> QED BY <1>10, <2>2, SizeIsLarge
<1>12. PICK most : most = Max({TimeBlocks, DiffEval}) /\ most \in Int /\ most >= 1
  <2>1. TimeBlocks \in Int /\ DiffEval \in Int /\ TimeBlocks >= 1
    BY HeadConstants
  <2>2. Max({TimeBlocks, DiffEval}) \in Int /\ Max({TimeBlocks, DiffEval}) >= TimeBlocks
    BY <2>1, MaxOfTwo
  <2> QED BY <2>1, <2>2
<1>13. tail' = IF Len(heads) - tail + 1 > size THEN Len(heads) - size ELSE tail
  BY <1>3, <1>4, <1>10 DEF TrimBindex
<1>14. tail' \in Nat /\ tail' < Len(heads') /\ (tail' = 0 \/ Len(heads') - tail' + falls >= Forkable + most + 1)
  <2>1. CASE Len(heads) - tail + 1 > size
    <3>1. tail' = Len(heads) - size /\ size \in Int /\ size >= Forkable + most
      BY <1>11, <1>12, <1>13, <2>1
    <3>2. Len(heads') = Len(heads) + 1 /\ most \in Int /\ most >= 1
      BY <1>8, <1>12
    <3>3. tail' \in Nat /\ tail' < Len(heads')
      BY <1>1, <2>1, <3>1, <3>2
    <3>4. Len(heads') - tail' + falls >= Forkable + most + 1
      BY <1>1, <3>1, <3>2
    <3> QED BY <3>3, <3>4
  <2>2. CASE ~(Len(heads) - tail + 1 > size)
    <3>1. tail' = tail
      BY <1>13, <2>2
    <3>2. tail = 0 \/ Len(heads) - tail + falls >= Forkable + most + 1
      BY <1>0, <1>12 DEF EnoughKept
    <3> QED BY <1>1, <1>8, <1>12, <3>1, <3>2
  <2> QED BY <2>1, <2>2
<1>15. HeadTypeOK'
  <2>1. \A k \in DOMAIN heads' : /\ heads'[k].number = k - 1
                                 /\ heads'[k].issuersFrame \in Int /\ heads'[k].issuersFrameVar \in Int
                                 /\ heads'[k].issuersCount \in Int
    <3> SUFFICES ASSUME NEW k \in DOMAIN heads'
                 PROVE  /\ heads'[k].number = k - 1
                        /\ heads'[k].issuersFrame \in Int /\ heads'[k].issuersFrameVar \in Int
                        /\ heads'[k].issuersCount \in Int
      OBVIOUS
    <3>1. CASE k \in DOMAIN heads
      BY <1>0, <1>1, <1>8, <3>1 DEF HeadTypeOK
    <3>2. CASE k = Len(heads) + 1
      BY <1>1, <1>3, <1>8, <3>2
    <3> QED BY <1>1, <1>9, <3>1, <3>2
  <2>2. reading' \in Seq(Int) /\ vHEAD' \in Int /\ vHEAD_1' \in Int /\ raced' \in BOOLEAN
    BY <1>0, <1>5 DEF HeadTypeOK, None
  <2> QED BY <1>1, <1>5, <1>8, <1>9, <1>14, <2>1, <2>2 DEF HeadTypeOK
<1>16. EnoughKept'
  BY <1>5, <1>12, <1>14 DEF EnoughKept
<1>17. CacheFollows'
  <2>1. SUFFICES ASSUME reading = <<>> PROVE CacheFollows'
    BY <1>5 DEF CacheFollows
  <2>2. reading' = <<>> /\ vHEAD' = None
    BY <1>5, <2>1
  <2>3. reading' \in Seq({TopNumber'})
    BY <2>2, EmptySeq
  <2> QED BY <2>2, <2>3 DEF CacheFollows
<1> QED
  BY <1>15, <1>16, <1>17 DEF HeadInv

\* A block is reverted: BINDEX loses one, which is counted.
LEMMA FallKeepsHeads ==
    ASSUME HeadInv, Fall
    PROVE  HeadInv'
<1>0. HeadTypeOK /\ EnoughKept
  BY DEF HeadInv
<1>1. /\ Len(heads) \in Nat \ {0} /\ DOMAIN heads = 1..Len(heads) /\ tail \in Nat /\ TopNumber = Len(heads) - 1
      /\ falls \in 0..Forkable /\ Forkable \in Nat
  BY <1>0, HeadFacts, HeadConstants DEF HeadTypeOK
<1>2. /\ Len(heads) - 1 > tail /\ falls < Forkable
      /\ heads' = SubSeq(heads, 1, Len(heads) - 1) /\ falls' = falls + 1 /\ tail' = tail /\ vHEAD' = vHEAD
      /\ reading' = Append(reading, Len(heads) - 2) /\ vHEAD_1' = Len(heads) - 2
      /\ raced' = (reading # <<>>)
  BY <1>1 DEF Fall, Front
<1>3. PICK S : S = {heads[k] : k \in DOMAIN heads} /\ heads \in Seq(S)
  BY <1>0 DEF HeadTypeOK
<1>4. heads' \in Seq(S) /\ Len(heads') = Len(heads) - 1 /\ \A k \in 1..Len(heads) - 1 : heads'[k] = heads[k]
  <2>1. \A k \in 1..Len(heads) - 1 : heads[k] \in S
    BY <1>1, <1>3
  <2>2. /\ heads' \in Seq(S) /\ Len(heads') = IF 1 <= Len(heads) - 1 THEN Len(heads) - 1 - 1 + 1 ELSE 0
        /\ \A k \in 1..Len(heads) - 1 - 1 + 1 : heads'[k] = heads[1 + k - 1]
    BY <1>1, <1>2, <2>1, SubSeqProperties
  <2> QED BY <1>1, <1>2, <2>2
<1>5. /\ heads' \in Seq({heads'[k] : k \in DOMAIN heads'}) /\ DOMAIN heads' = 1..Len(heads) - 1 /\ heads' # <<>>
  <2>1. Len(heads') > 0
    BY <1>1, <1>2, <1>4
  <2> QED BY <1>4, <2>1, OfItsElements, LenProperties, EmptySeq
<1>6. HeadTypeOK'
  <2>1. \A k \in DOMAIN heads' : /\ heads'[k].number = k - 1
                                 /\ heads'[k].issuersFrame \in Int /\ heads'[k].issuersFrameVar \in Int
                                 /\ heads'[k].issuersCount \in Int
    <3>1. \A k \in DOMAIN heads' : k \in DOMAIN heads /\ heads'[k] = heads[k]
      <4>1. \A k \in 1..Len(heads) - 1 : k \in 1..Len(heads)
        BY <1>1
      <4> QED BY <1>1, <1>4, <1>5, <4>1
    <3> QED BY <1>0, <3>1 DEF HeadTypeOK
  <2>2. reading' \in Seq(Int) /\ vHEAD' \in Int /\ vHEAD_1' \in Int /\ raced' \in BOOLEAN
    BY <1>0, <1>1, <1>2, AppendProperties DEF HeadTypeOK
  <2>3. tail' \in Nat /\ tail' < Len(heads') /\ falls' \in 0..Forkable
    BY <1>1, <1>2, <1>4
  <2> QED BY <1>5, <2>1, <2>2, <2>3 DEF HeadTypeOK
<1>7. EnoughKept'
  <2>1. Len(heads') - tail' + falls' = Len(heads) - tail + falls
    <3>1. Len(heads') = Len(heads) - 1 /\ falls' = falls + 1 /\ tail' = tail
      BY <1>2, <1>4
    <3> QED BY <1>1, <3>1
  <2> QED BY <1>0, <1>2, <2>1 DEF EnoughKept
<1>8. CacheFollows'
  <2>1. SUFFICES ASSUME reading = <<>> PROVE CacheFollows'
    BY <1>2 DEF CacheFollows
  <2>2. TopNumber' = Len(heads) - 2
    BY <1>1, <1>4 DEF TopNumber
  <2>3. reading' = <<TopNumber'>> /\ vHEAD_1' = TopNumber'
    BY <1>2, <2>1, <2>2
  <2>4. reading' \in Seq({TopNumber'}) /\ reading' # <<>>
    BY <2>3
  <2> QED BY <2>3, <2>4 DEF CacheFollows
<1> QED
  BY <1>6, <1>7, <1>8 DEF HeadInv

\* What the cache does leaves the chain as it is.
LEMMA SameChainKept ==
    ASSUME HeadInv, UNCHANGED chainVars,
           reading' \in Seq(Int) /\ vHEAD' \in Int /\ vHEAD_1' \in Int /\ raced' \in BOOLEAN, CacheFollows'
    PROVE  HeadInv'
<1>1. heads' = heads /\ tail' = tail /\ falls' = falls
  BY DEF chainVars
<1>2. HeadTypeOK'
  BY <1>1 DEF HeadInv, HeadTypeOK
<1>3. EnoughKept'
  BY <1>1 DEF HeadInv, EnoughKept
<1> QED
  BY <1>2, <1>3 DEF HeadInv

LEMMA RefreshHeadKeepsHeads ==
    ASSUME HeadInv, RefreshHead
    PROVE  HeadInv'
<1>1. /\ UNCHANGED chainVars /\ vHEAD = None /\ vHEAD' = vHEAD /\ raced' = raced
      /\ vHEAD_1' = TopNumber /\ reading' = Append(reading, TopNumber)
  BY DEF RefreshHead
<1>2. TopNumber' = TopNumber /\ TopNumber \in Int
  BY <1>1, HeadFacts DEF chainVars, TopNumber, HeadInv
<1>3. reading' \in Seq(Int) /\ vHEAD' \in Int /\ vHEAD_1' \in Int /\ raced' \in BOOLEAN
  BY <1>1, <1>2, AppendProperties DEF HeadInv, HeadTypeOK
<1>4. CacheFollows'
  <2>1. SUFFICES ASSUME ~raced PROVE CacheFollows'
    BY <1>1 DEF CacheFollows
  <2>2. reading \in Seq({TopNumber})
    BY <2>1 DEF HeadInv, CacheFollows
  <2>3. reading' \in Seq({TopNumber'}) /\ reading' # <<>>
    BY <1>1, <1>2, <2>2, AppendProperties
  <2> QED BY <1>1, <1>2, <2>3 DEF CacheFollows
<1> QED
  BY <1>1, <1>3, <1>4, SameChainKept

LEMMA HeadRefreshedKeepsHeads ==
    ASSUME HeadInv, NEW k, HeadRefreshed(k)
    PROVE  HeadInv'
<1>1. /\ UNCHANGED chainVars /\ k \in DOMAIN reading /\ vHEAD' = reading[k] /\ reading' = RemoveAt(reading, k)
      /\ vHEAD_1' = vHEAD_1 /\ raced' = raced
  BY DEF HeadRefreshed
<1>2. TopNumber' = TopNumber
  BY <1>1 DEF chainVars, TopNumber
<1>3. reading' \in Seq(Int) /\ vHEAD' \in Int /\ vHEAD_1' \in Int /\ raced' \in BOOLEAN
  BY <1>1, WithoutOne, LenProperties DEF HeadInv, HeadTypeOK
<1>4. CacheFollows'
  <2>1. SUFFICES ASSUME ~raced PROVE CacheFollows'
    BY <1>1 DEF CacheFollows
  <2>2. reading \in Seq({TopNumber})
    BY <2>1 DEF HeadInv, CacheFollows
  <2>3. reading' \in Seq({TopNumber'}) /\ vHEAD' = TopNumber'
    BY <1>1, <1>2, <2>2, WithoutOne, LenProperties
  <2>4. reading # <<>>
    BY <1>1
  <2>5. vHEAD_1' = TopNumber'
    BY <1>1, <1>2, <2>1, <2>4 DEF HeadInv, CacheFollows
  <2> QED BY <2>3, <2>5 DEF CacheFollows
<1> QED
  BY <1>1, <1>3, <1>4, SameChainKept

LEMMA HeadStepKeepsHeads == HeadInv /\ [HeadNext]_headVars => HeadInv'
<1> SUFFICES ASSUME HeadInv, [HeadNext]_headVars PROVE HeadInv'
  OBVIOUS
<1>1. ASSUME NEW b \in Incoming, WriteBlock(b[1], b[2], b[3]) PROVE HeadInv'
  BY <1>1, WriteBlockKeepsHeads
<1>2. CASE Fall
  BY <1>2, FallKeepsHeads
<1>3. CASE RefreshHead
  BY <1>3, RefreshHeadKeepsHeads
<1>4. ASSUME NEW k \in 1..MaxReads + MaxFalls, HeadRefreshed(k) PROVE HeadInv'
  BY <1>4, HeadRefreshedKeepsHeads
<1>5. CASE UNCHANGED headVars
  BY <1>5 DEF headVars, chainVars, cacheVars, HeadInv, HeadTypeOK, EnoughKept, CacheFollows, TopNumber
<1> QED
  BY <1>1, <1>2, <1>3, <1>4, <1>5 DEF HeadNext

----------------------------------------------------------------------------
\* What BINDEX keeps is enough for the times, for the evaluation of the difficulty, and, as long as it is long
\* enough, for the frame of the issuers: each of them is the same part of the chain.
LEMMA SameParts ==
    ASSUME HeadInv
    PROVE  /\ Largest(Bindex, TimeBlocks) = Largest(heads, TimeBlocks)
           /\ Len(Bindex) >= Min({DiffEval, Len(heads)})
           /\ Last(heads).issuersFrame <= Len(Bindex) =>
                 Largest(Bindex, Last(heads).issuersFrame) = Largest(heads, Last(heads).issuersFrame)
<1>0. HeadTypeOK /\ EnoughKept
  BY DEF HeadInv
<1>1. PICK S : heads \in Seq(S)
  BY <1>0 DEF HeadTypeOK
<1>2. /\ Len(heads) \in Nat \ {0} /\ tail \in Nat /\ tail < Len(heads) /\ Len(Bindex) = Len(heads) - tail
      /\ falls \in 0..Forkable /\ Forkable \in Nat
  BY <1>0, HeadFacts, HeadConstants DEF HeadTypeOK
<1>3. PICK most : /\ most = Max({TimeBlocks, DiffEval}) /\ most \in Int /\ most >= TimeBlocks /\ most >= DiffEval
                  /\ TimeBlocks \in Int /\ DiffEval \in Int
  BY MaxOfTwo, HeadConstants
<1>4. tail = 0 \/ Len(heads) - tail >= most
  BY <1>0, <1>2, <1>3 DEF EnoughKept
<1>5. Largest(Bindex, TimeBlocks) = Largest(heads, TimeBlocks)
  <2>1. TimeBlocks <= Len(heads) - tail \/ tail = 0
    BY <1>2, <1>3, <1>4
  <2> QED BY <1>1, <1>2, <1>3, <2>1, LatestOfEnd DEF Bindex
<1>6. Len(Bindex) >= Min({DiffEval, Len(heads)})
  <2>1. PICK m : m = Min({DiffEval, Len(heads)}) /\ m \in {DiffEval, Len(heads)} /\ m <= DiffEval /\ m <= Len(heads)
    <3>1. DiffEval \in Int /\ Len(heads) \in Int
      BY <1>2, <1>3
    <3> QED BY <3>1, MinOfTwo
  <2> QED BY <1>2, <1>3, <1>4, <2>1
<1>7. ASSUME Last(heads).issuersFrame <= Len(Bindex)
      PROVE  Largest(Bindex, Last(heads).issuersFrame) = Largest(heads, Last(heads).issuersFrame)
  <2>1. Last(heads).issuersFrame \in Int
    BY <1>0, <1>2, HeadFacts DEF HeadTypeOK
  <2> QED BY <1>1, <1>2, <1>7, <2>1, LatestOfEnd DEF Bindex
<1> QED
  BY <1>5, <1>6, <1>7

\* So is the block that the last evaluation of the difficulty starts from.
LEMMA SamePowMin ==
    ASSUME HeadInv, NEW t, NEW diff
    PROVE  PowMin(Bindex, Len(heads), t, diff) = PowMin(heads, Len(heads), t, diff)
<1>0. HeadTypeOK
  BY DEF HeadInv
<1>1. PICK q : q = Min({DiffEval, Len(heads)})
  OBVIOUS
<1>2. q \in Nat \ {0} /\ q <= Len(Bindex)
  <2>1. DiffEval \in Nat \ {0} /\ Len(heads) \in Nat \ {0}
    BY <1>0, HeadFacts, HeadConstants
  <2>2. q \in {DiffEval, Len(heads)}
    <3>1. DiffEval \in Int /\ Len(heads) \in Int
      BY <2>1
    <3> QED BY <1>1, <3>1, MinOfTwo
  <2>3. Len(Bindex) >= q
    BY <1>1, SameParts
  <2> QED BY <2>1, <2>2, <2>3
<1>3. Bindex[Len(Bindex) - q + 1] = heads[Len(heads) - q + 1]
  <2>1. Len(Bindex) - q + 1 \in 1..Len(heads) - tail /\ tail + (Len(Bindex) - q + 1) = Len(heads) - q + 1
    <3>1. Len(Bindex) = Len(heads) - tail /\ Len(heads) \in Nat /\ tail \in Nat
      BY <1>0, HeadFacts DEF HeadTypeOK
    <3> QED BY <1>2, <3>1
  <2> QED BY <1>0, <2>1, HeadFacts
<1>4. Last(Bindex) = Last(heads)
  BY <1>0, HeadFacts
<1> QED
  BY <1>1, <1>3, <1>4 DEF PowMin

LEMMA NextHeadIsTheSame == HeadInv => SameHead
<1> SUFFICES ASSUME HeadInv, Last(heads).issuersFrame <= Len(Bindex)
             PROVE  /\ Len(Bindex) >= Min({DiffEval, Len(heads)})
                    /\ \A i \in Issuer : NextHead(Bindex, i, 0, 1) = NextHead(heads, i, 0, 1)
  BY DEF SameHead
<1>1. PICK h : h = Last(Bindex) /\ h = Last(heads) /\ h.number + 1 = Len(heads)
  <2>1. /\ Last(Bindex) = Last(heads) /\ Last(heads) = heads[Len(heads)] /\ Len(heads) \in DOMAIN heads
        /\ Len(heads) \in Nat
    BY HeadFacts DEF HeadInv
  <2> QED BY <2>1 DEF HeadInv, HeadTypeOK
<1>2. ASSUME NEW i \in Issuer
      PROVE  NextHead(Bindex, i, 0, 1) = NextHead(heads, i, 0, 1)
  <2>1. PICK frame : frame = Largest(Bindex, h.issuersFrame) /\ frame = Largest(heads, h.issuersFrame)
    BY <1>1, SameParts
  <2>2. PICK times : times = Largest(Bindex, TimeBlocks) /\ times = Largest(heads, TimeBlocks)
    BY SameParts
  <2>3. \A t, diff : PowMin(Bindex, h.number + 1, t, diff) = PowMin(heads, h.number + 1, t, diff)
    BY <1>1, SamePowMin
  <2> QED BY <1>1, <2>1, <2>2, <2>3 DEF NextHead
<1> QED
  BY <1>2, SameParts

\* The HEADs that a node computes are right, for any forks, sizes of BINDEX and interleavings of the computations: the
\* HEAD computed on the blocks that trimming left is the one of the whole chain, and the cached one follows the
\* current block unless a block was written while it was computed (completeGlobalScope, trimIndexes, refreshHead).
THEOREM HeadsStayRight == HeadSpec => []HeadsAreRight
<1>1. HeadInv => HeadsAreRight
  <2>1. HeadInv => VirtualHeadIsNext
    BY DEF HeadInv, CacheFollows, VirtualHeadIsNext
  <2> QED BY <2>1, NextHeadIsTheSame DEF HeadsAreRight
<1> QED
  BY <1>1, HeadInitOK, HeadStepKeepsHeads, PTL DEF HeadSpec
=============================================================================
