------------------------------ MODULE MCRecords ------------------------------
(***************************************************************************)
(* One instance for records that do not share their state: certifications, *)
(* accounts, the indexes of a quick synchronisation, and the documents that *)
(* nodes give each other before a block writes them.  `focus` picks the one *)
(* that moves; the others keep an initial state.                           *)
(***************************************************************************)
EXTENDS CertIndex, Money, QuickSync, Gossip

CONSTANTS west, mid, east, wm, mw, me, newcomer, member

VARIABLE focus

\* Two issuers certify the same member.
mcPairs == {<<"a", "c">>, <<"b", "c">>}
mcRoot  == {<<"a", "c">>}

\* A certification and a revocation of an identity that is not a member go by one connection; a transaction by two between
\* the same sites; the documents of a member, and an identity alone, along west -- mid -- east.
mcEnds == (wm :> {west, mid}) @@ (mw :> {west, mid}) @@ (me :> {mid, east})

Document(kind, about) == [kind |-> kind, about |-> about]
mcPaper ==
    {Document(k, newcomer) : k \in {"idty", "cert", "rev"}} \cup
    {Document(k, member) : k \in {"idty", "ms", "rev"}} \cup {Document("tx", newcomer)}

Scenario(links_, papers) == [links |-> links_, papers |-> papers]
mcScenarios ==
    {Scenario({wm}, {Document("cert", newcomer), Document("rev", newcomer)}),
     Scenario({wm, mw}, {Document("tx", newcomer)}),
     Scenario({wm, me}, {Document("ms", member)}),
     Scenario({wm, me}, {Document("rev", member)}),
     Scenario({wm, me}, {Document("idty", newcomer)})}

recordsVars == <<vars, moneyVars, quickVars, gossipVars, focus>>

RecordsInit ==
    /\ Init /\ MoneyInit /\ QuickInit /\ GossipInit
    /\ focus \in {"certifications", "money", "quick", "gossip"}
    /\ focus # "gossip" => links = {wm}

RecordsNext ==
    \/ focus = "certifications" /\ Next /\ UNCHANGED <<moneyVars, quickVars, gossipVars, focus>>
    \/ focus = "money" /\ MoneyNext /\ UNCHANGED <<vars, quickVars, gossipVars, focus>>
    \/ focus = "quick" /\ QuickNext /\ UNCHANGED <<vars, moneyVars, gossipVars, focus>>
    \/ focus = "gossip" /\ GossipNext /\ UNCHANGED <<vars, moneyVars, quickVars, focus>>

RecordsSpec == RecordsInit /\ [][RecordsNext]_recordsVars
=============================================================================
