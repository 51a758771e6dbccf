---------------------------- MODULE BlockStores ----------------------------
(***************************************************************************)
(* What adding or reverting one block writes, store after store, without a  *)
(* transaction (src/app/lib/blockchain/DuniterBlockchain.ts, saveBlockData   *)
(* and revertBlock), and what the maintenance at startup (src/server.ts,     *)
(* initDAL) makes of the stores when the process stopped between two writes. *)
(*                                                                         *)
(* ForkResolution sees these operations as one step each.  Here a block is  *)
(* its number, and every block brings something to every store: a dividend,  *)
(* one newcomer, entries in the global indexes, money movements.  A store    *)
(* is what it holds of each block: how many times the block was written and  *)
(* not removed.  The writes inside one store are taken as one.              *)
(***************************************************************************)
EXTENDS Integers, Sequences

CONSTANTS
    MaxBlock,     \* bound: the blocks are 0..MaxBlock
    MaxCrashes,   \* bound: ends of the process at any point
    MaxStops      \* bound: stops of an idle node, as after a command

ASSUME BoundsAssumption == MaxBlock \in Nat /\ MaxCrashes \in Nat /\ MaxStops \in Nat

Blocks == 0..MaxBlock

\* The stores where writing a block twice adds twice.
Indexes == {"mindex", "iindex", "sindex", "cindex"}
Stores  == Indexes \cup {"dividends", "udBalance", "txBalance"}

VARIABLES
    main, side,   \* level_blockchain and level_blockchain/forks
    bindex,       \* the blocks that have a HEAD in BINDEX
    store,        \* how many times each store holds each block
    wotIds,       \* IINDEX: the wotb_id of the entries of each block's newcomer
    wot,          \* the web of trust in memory: whose newcomer each node is
    wotFile,      \* the web of trust file
    node,         \* what the process is doing
    block,        \* the block of the running operation
    todo,         \* the writes that are left of the running operation
    undone,       \* revertBlock: how many money movements of the block it has read
    crashes, stops

databases == <<main, side, bindex, store, wotIds>>
memory    == <<wot, node, block, todo, undone>>
bounds    == <<crashes, stops>>
vars      == <<databases, wotFile, memory, bounds>>

Writes == {"dividends", "newcomers", "bindex", "mindex", "iindex", "sindex", "cindex",
           "wallets", "main", "forks", "wotFile", "-nodes", "-bindex", "-mindex",
           "-iindex", "-cindex", "-sindex", "-dividends", "-main", "-forks", "-wallets"}

-----------------------------------------------------------------------------
\* The highest number of a table, as getCurrent and head(1) read it.
Highest(S) == IF S = {} THEN -1 ELSE CHOOSE b \in S : \A c \in S : c <= b

\* saveBlockData: the writes in their order, the flush of the indexes included.
AddWithoutMoney ==    \* mutant: the wallets are not updated
    <<"dividends", "newcomers", "bindex", "mindex", "iindex", "sindex", "cindex",
      "main", "forks", "wotFile">>

AddWrites ==
    <<"dividends", "newcomers", "bindex", "mindex", "iindex", "sindex", "cindex",
      "wallets", "main", "forks", "wotFile">>

\* revertBlock: the nodes of the wot, the indexes, the block, then the wallets.
RevertKeepingUD ==    \* mutant: the dividends of the block are not destroyed
    <<"-nodes", "-bindex", "-mindex", "-iindex", "-cindex", "-sindex",
      "-main", "-forks", "-wallets">>

RevertHeadLast ==     \* mutant: the HEAD is removed after the block
    <<"-nodes", "-mindex", "-iindex", "-cindex", "-sindex", "-dividends",
      "-main", "-forks", "-bindex", "-wallets">>

RevertWrites ==
    <<"-nodes", "-bindex", "-mindex", "-iindex", "-cindex", "-sindex", "-dividends",
      "-main", "-forks", "-wallets">>

-----------------------------------------------------------------------------
(***************************************************************************)
(* The operations of a running node.                                       *)
(***************************************************************************)
Idle == node = "up" /\ todo = <<>>

\* submitBlock keeps an unknown block as a side block.
Receive(b) ==
    /\ Idle /\ b \notin main \cup side
    /\ side' = side \cup {b}
    /\ UNCHANGED <<main, bindex, store, wotIds, wotFile, memory, bounds>>

\* checkAndAddBlock: the block follows the main chain and, for the rules, BINDEX.  Entries
\* of it left in an index make them refuse it: the identity, the membership and the
\* certification are already written, the source is already consumed.
Apply(b) ==
    /\ Idle /\ b \in side
    /\ b = Highest(main) + 1 /\ b = Highest(bindex) + 1
    /\ \A s \in Indexes : store[s][b] = 0
    /\ block' = b
    /\ todo' = AddWrites
    /\ UNCHANGED <<databases, wotFile, wot, node, undone, bounds>>

\* revertCurrentBlock, for the Switcher and for the commands revert and revert-to.
Revert ==
    /\ Idle /\ bindex # {}
    /\ Highest(bindex) \in main \cup side
    /\ block' = Highest(bindex)
    /\ todo' = RevertWrites
    /\ UNCHANGED <<databases, wotFile, wot, node, undone, bounds>>

-----------------------------------------------------------------------------
(***************************************************************************)
(* The writes.  The last one ends the operation; at startup, the node goes  *)
(* on (the loop of the maintenance has one turn: BINDEX is never ahead of   *)
(* the chain by more than a block).                                        *)
(***************************************************************************)
Doing(w) == todo # <<>> /\ Head(todo) = w

Goes ==
    /\ todo' = Tail(todo)
    /\ node' = IF todo' = <<>> THEN "up" ELSE node
    /\ UNCHANGED <<block, bounds>>

\* The index batches and the dividends are appended to what the keys already hold.
Insert(s) ==
    /\ Doing(s)
    /\ store' = [store EXCEPT ![s][block] = @ + 1]
    /\ Goes
    /\ UNCHANGED <<main, side, bindex, wotIds, wotFile, wot, undone>>

\* createNewcomers: the newcomer's wotb_id is its rank, and IINDEX will keep it.
CreateNewcomers ==
    /\ Doing("newcomers")
    /\ wot' = Append(wot, block)
    /\ Goes
    /\ UNCHANGED <<databases, wotFile, undone>>

InsertIindex ==
    /\ Doing("iindex")
    /\ store' = [store EXCEPT !["iindex"][block] = @ + 1]
    /\ wotIds' = [wotIds EXCEPT ![block] = @ \cup {Len(wot) - 1}]
    /\ Goes
    /\ UNCHANGED <<main, side, bindex, wotFile, wot, undone>>

InsertHead ==
    /\ Doing("bindex")
    /\ bindex' = bindex \cup {block}
    /\ Goes
    /\ UNCHANGED <<main, side, store, wotIds, wotFile, wot, undone>>

UpdateWallets ==
    /\ Doing("wallets")
    /\ store' = [store EXCEPT !["udBalance"][block] = @ + 1, !["txBalance"][block] = @ + 1]
    /\ Goes
    /\ UNCHANGED <<main, side, bindex, wotIds, wotFile, wot, undone>>

\* LevelDBBlockchain.saveBlock: two tables, two writes.
SaveBlock ==
    /\ Doing("main")
    /\ main' = main \cup {block}
    /\ Goes
    /\ UNCHANGED <<side, bindex, store, wotIds, wotFile, wot, undone>>

RemoveFork ==
    /\ Doing("forks")
    /\ side' = side \ {block}
    /\ Goes
    /\ UNCHANGED <<main, bindex, store, wotIds, wotFile, wot, undone>>

WriteWotFile ==
    /\ Doing("wotFile")
    /\ wotFile' = wot
    /\ Goes
    /\ UNCHANGED <<databases, wot, undone>>

\* undoMembersUpdate pops one node for each newcomer entry of the block, "does not
\* matter which one it really was"; the movements to revert are read on the way.
RemoveNodes ==
    /\ Doing("-nodes")
    /\ LET n == store["iindex"][block]
       IN  wot' = IF n < Len(wot) THEN SubSeq(wot, 1, Len(wot) - n) ELSE <<>>
    /\ undone' = [undone EXCEPT !["tx"] = store["sindex"][block]]
    /\ Goes
    /\ UNCHANGED <<databases, wotFile>>

RemoveHead ==
    /\ Doing("-bindex")
    /\ bindex' = bindex \ {block}
    /\ Goes
    /\ UNCHANGED <<main, side, store, wotIds, wotFile, wot, undone>>

\* removeBlock removes all the entries of the block.
Removal == [mindex |-> "-mindex", iindex |-> "-iindex", cindex |-> "-cindex", sindex |-> "-sindex"]

RemoveEntries(s) ==
    /\ Doing(Removal[s])
    /\ store' = [store EXCEPT ![s][block] = 0]
    /\ wotIds' = IF s = "iindex" THEN [wotIds EXCEPT ![block] = {}] ELSE wotIds
    /\ Goes
    /\ UNCHANGED <<main, side, bindex, wotFile, wot, undone>>

\* revertUDs removes one dividend of that number from each member who has one.
RevertUDs ==
    /\ Doing("-dividends")
    /\ LET n == IF store["dividends"][block] > 0 THEN 1 ELSE 0
       IN  /\ store' = [store EXCEPT !["dividends"][block] = @ - n]
           /\ undone' = [undone EXCEPT !["ud"] = n]
    /\ Goes
    /\ UNCHANGED <<main, side, bindex, wotIds, wotFile, wot>>

\* setSideBlock reads the block in the main table, deletes it there, and writes it aside.
SetSideBlock ==
    /\ Doing("-main") /\ block \in main
    /\ main' = main \ {block}
    /\ Goes
    /\ UNCHANGED <<side, bindex, store, wotIds, wotFile, wot, undone>>

\* It throws when the block is not there: at startup, initDAL rejects and the node stops.
SideBlockNotFound ==
    /\ Doing("-main") /\ block \notin main
    /\ node' = IF node = "maintenance" THEN "down" ELSE node
    /\ todo' = <<>>
    /\ UNCHANGED <<databases, wotFile, wot, block, undone, bounds>>

SaveFork ==
    /\ Doing("-forks")
    /\ side' = side \cup {block}
    /\ Goes
    /\ UNCHANGED <<main, bindex, store, wotIds, wotFile, wot, undone>>

RevertWallets ==
    /\ Doing("-wallets")
    /\ store' = [store EXCEPT !["udBalance"][block] = @ - undone["ud"],
                              !["txBalance"][block] = @ - undone["tx"]]
    /\ Goes
    /\ UNCHANGED <<main, side, bindex, wotIds, wotFile, wot, undone>>

Write ==
    \/ \E s \in {"dividends", "mindex", "sindex", "cindex"} : Insert(s)
    \/ CreateNewcomers \/ InsertIindex \/ InsertHead \/ UpdateWallets
    \/ SaveBlock \/ RemoveFork \/ WriteWotFile
    \/ RemoveNodes \/ RemoveHead
    \/ \E s \in Indexes : RemoveEntries(s)
    \/ RevertUDs \/ SetSideBlock \/ SideBlockNotFound \/ SaveFork \/ RevertWallets

-----------------------------------------------------------------------------
(***************************************************************************)
(* The end of the process, and the maintenance of the next start.          *)
(***************************************************************************)
Forgotten ==
    /\ node' = "down"
    /\ wot' = <<>> /\ todo' = <<>>
    /\ undone' = [k \in {"ud", "tx"} |-> 0] /\ block' = 0

Crash ==
    /\ node # "down" /\ crashes < MaxCrashes
    /\ crashes' = crashes + 1
    /\ Forgotten
    /\ UNCHANGED <<databases, wotFile, stops>>

\* disconnect waits for the running operation, closes the databases, and writes nothing.
Stop ==
    /\ Idle /\ stops < MaxStops
    /\ stops' = stops + 1
    /\ Forgotten
    /\ UNCHANGED <<databases, wotFile, crashes>>

\* FileDAL.init: the web of trust is read from its file.
Start ==
    /\ node = "down"
    /\ node' = "maintenance"
    /\ wot' = wotFile
    /\ UNCHANGED <<databases, wotFile, block, todo, undone, bounds>>

Kept == {b \in main : b <= Highest(bindex)}

NothingToMaintain ==
    /\ node = "maintenance" /\ todo = <<>> /\ bindex = {}
    /\ node' = "up"
    /\ UNCHANGED <<databases, wotFile, wot, block, todo, undone, bounds>>

\* Case 1: the blocks above BINDEX are dropped.

DropBlocksAbove ==
    /\ node = "maintenance" /\ todo = <<>> /\ bindex # {} /\ Kept # {}
    /\ Highest(Kept) = Highest(bindex)
    /\ main' = Kept
    /\ node' = "up"
    /\ UNCHANGED <<side, bindex, store, wotIds, wotFile, wot, block, todo, undone, bounds>>

\* Case 2: the HEADs above the blocks are reverted by revertBlock.
RevertHead ==
    /\ node = "maintenance" /\ todo = <<>> /\ Kept # {}
    /\ Highest(bindex) > Highest(Kept)
    /\ block' = Highest(bindex)
    /\ todo' = RevertWrites
    /\ UNCHANGED <<databases, wotFile, wot, node, undone, bounds>>

\* No block at all under the HEAD: the number of the current block is read of nothing.
NoCurrentBlock ==
    /\ node = "maintenance" /\ todo = <<>> /\ bindex # {} /\ Kept = {}
    /\ main' = {}
    /\ node' = "down"
    /\ UNCHANGED <<side, bindex, store, wotIds, wotFile, wot, block, todo, undone, bounds>>

InitDAL == NothingToMaintain \/ DropBlocksAbove \/ RevertHead \/ NoCurrentBlock

-----------------------------------------------------------------------------
Init ==
    /\ main = {} /\ side = {} /\ bindex = {}
    /\ store = [s \in Stores |-> [b \in Blocks |-> 0]]
    /\ wotIds = [b \in Blocks |-> {}]
    /\ wot = <<>> /\ wotFile = <<>>
    /\ node = "up" /\ block = 0 /\ todo = <<>>
    /\ undone = [k \in {"ud", "tx"} |-> 0]
    /\ crashes = 0 /\ stops = 0

Next ==
    \/ \E b \in Blocks : Receive(b) \/ Apply(b)
    \/ Revert \/ Write
    \/ Crash \/ Stop \/ Start \/ InitDAL

(***************************************************************************)
(* Fairness: an operation goes on while the process lives, and the service  *)
(* manager starts the node again when it stopped on an error               *)
(* (release/extra/systemd/duniter.service, Restart=on-failure).             *)
(***************************************************************************)
Spec == Init /\ [][Next]_vars /\ WF_vars(Write) /\ WF_vars(Start) /\ WF_vars(InitDAL)

-----------------------------------------------------------------------------
ChainWot == [i \in 1..(Highest(main) + 1) |-> i - 1]

(***************************************************************************)
(* Applying and reverting blocks in any order leaves every store with what  *)
(* the chain says, each block once and nothing of the reverted ones, as long *)
(* as no operation was cut; and while the process lives, the web of trust    *)
(* has one node per newcomer, under the id that IINDEX knows.               *)
(***************************************************************************)
StoresAgree ==
    Idle /\ crashes = 0 =>
        /\ main = 0..Highest(main) /\ bindex = main /\ side \cap main = {}
        /\ \A s \in Stores, b \in Blocks : store[s][b] = IF b \in main THEN 1 ELSE 0
        /\ stops = 0 =>
            /\ wot = ChainWot
            /\ \A b \in Blocks : wotIds[b] = IF b \in main THEN {b} ELSE {}

(***************************************************************************)
(* Wherever the process stopped, a node that has started again has its      *)
(* blocks and its HEADs side by side: the rules see the block they extend.  *)
(* (A node stopped while it was reverting block #0 has no HEAD left.)       *)
(***************************************************************************)
HeadsAgree == Idle /\ bindex # {} => bindex = main

(***************************************************************************)
(* A cut operation never takes away what a block of the chain wrote.  What   *)
(* it may leave besides is one copy too many of the dividend or of the      *)
(* movements of one block, never more; the four indexes never hold an entry  *)
(* twice, since the rules refuse a block that left something there.         *)
(***************************************************************************)
CutsAreBounded ==
    /\ Idle => \A s \in Stores : \A b \in bindex \cap main : store[s][b] >= 1
    /\ \A s \in Stores, b \in Blocks :
        store[s][b] \in 0..(IF s \in Indexes THEN 1 ELSE 1 + crashes)

\* What crashes leave is mended or bounded: the two together.
CrashesAreMended == HeadsAgree /\ CutsAreBounded

(***************************************************************************)
(* A node that has a block starts again, though the first start after a     *)
(* crash may fail on the block to set aside.                               *)
(***************************************************************************)
StartsAgain == (node = "down" /\ main # {}) ~> (node = "up")

(***************************************************************************)
(* "Save DB": an idle node that is disconnected, as at the end of the       *)
(* commands revert and revert-to (app/modules/revert.ts), finds the web of   *)
(* trust of its chain at the next start.                                   *)
(***************************************************************************)
WotSaved == node = "down" /\ crashes = 0 => wotFile = ChainWot
=============================================================================
