------------------------------ MODULE MCNetwork ------------------------------
(***************************************************************************)
(* One instance for the components of the network that do not share their  *)
(* state: the places of a node, the heads it hears of, its table of peers   *)
(* and its pulling of blocks.  `focus` picks the one that moves; the others *)
(* keep an initial state.                                                  *)
(***************************************************************************)
EXTENDS WS2PCluster, WS2PHeads, Peering, Pulling, TLC

CONSTANTS west, mid, east

VARIABLE focus

networkVars == <<clusterVars, headsVars, peeringVars, pullingVars, focus>>

\* west - mid - east
MCWire == {{west, mid}, {mid, east}}

\* The peers of the table have nothing to tell them apart.
MCSymmetry == Permutations(Peer)

\* Blocks labelled "s" come twice as slowly as those labelled "f"; branches leave each other after the
\* block 1, 2, 3, 4 or 5, inside and outside the window, in front in blocks, in time or in both.
MCDuration == [l \in {"s", "f"} |-> IF l = "s" THEN 2 ELSE 1]
MCStart ==
    {[k \in 1..n[1] + n[2] |-> IF k <= n[1] THEN "s" ELSE "f"] :
        n \in {<<3, 0>>, <<5, 0>>, <<1, 6>>, <<2, 5>>, <<4, 3>>}}

\* Where the initial states differ, only those of the component that moves are kept.
NetworkInit ==
    /\ ClusterInit /\ HeadsInit /\ PeeringInit /\ PullingInit
    /\ focus \in {"cluster", "heads", "peering", "pulling"}
    /\ focus # "heads" => \A n \in HeadNode : onBlock[n] = 0
    /\ focus # "peering" => selfMember
    /\ focus # "pulling" => \A r \in Remote : remote[r] = local /\ Len(local) = 3

NetworkNext ==
    \/ focus = "cluster" /\ ClusterNext /\ UNCHANGED <<headsVars, peeringVars, pullingVars, focus>>
    \/ focus = "heads" /\ HeadsNext /\ UNCHANGED <<clusterVars, peeringVars, pullingVars, focus>>
    \/ focus = "peering" /\ PeeringNext /\ UNCHANGED <<clusterVars, headsVars, pullingVars, focus>>
    \/ focus = "pulling" /\ PullingNext /\ UNCHANGED <<clusterVars, headsVars, peeringVars, focus>>

NetworkSpec == NetworkInit /\ [][NetworkNext]_networkVars

=============================================================================
