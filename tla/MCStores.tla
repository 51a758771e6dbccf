------------------------------ MODULE MCStores ------------------------------
(***************************************************************************)
(* One instance for the stores of blocks, for the variables computed from   *)
(* the blocks and for the documents that wait for one.  `focus` picks the   *)
(* one that moves; the others keep their initial state.                    *)
(***************************************************************************)
EXTENDS BlockStores, BlockHead, DocumentPool

CONSTANTS i1, i2

VARIABLE focus

storesVars == <<vars, headVars, poolVars, focus>>

\* The second issuer arrives, and blocks come slowly or fast.
MCIncoming == {<<i1, 0, 2>>, <<i2, 1, 2>>, <<i1, 3, 3>>}

\* Two newcomers want the same uid.
MCFirst == [pub |-> "a", uid |-> "u", ref |-> 0]
MCSecond == [pub |-> "b", uid |-> "u", ref |-> 1]
MCIdtyDocs == {MCFirst, MCSecond}
MCCertDocs == {[from |-> "m", idty |-> MCFirst, ref |-> 0], [from |-> "m", idty |-> MCFirst, ref |-> 1]}
MCMsDocs == {[pub |-> "a", type |-> "IN", ref |-> 0], [pub |-> "a", type |-> "OUT", ref |-> 1]}

StoresInit ==
    /\ Init /\ HeadInit /\ PoolInit
    /\ focus \in {"stores", "head", "pool"}
    /\ focus # "head" => heads[1].issuer = i1

StoresNext ==
    \/ focus = "stores" /\ Next /\ UNCHANGED <<headVars, poolVars, focus>>
    \/ focus = "head" /\ HeadNext /\ UNCHANGED <<vars, poolVars, focus>>
    \/ focus = "pool" /\ PoolNext /\ UNCHANGED <<vars, headVars, focus>>

\* Fairness, when the stores are what moves.
FocusOnStores ==
    /\ WF_vars(focus = "stores" /\ Write)
    /\ WF_vars(focus = "stores" /\ Start)
    /\ WF_vars(focus = "stores" /\ InitDAL)

StoresSpec == StoresInit /\ [][StoresNext]_storesVars /\ FocusOnStores
=============================================================================
