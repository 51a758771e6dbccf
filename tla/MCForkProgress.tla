--------------------------- MODULE MCForkProgress ---------------------------
(***************************************************************************)
(* Two competing branches of valid blocks, for the progress of a node:      *)
(*                                                                         *)
(*    1 -- 2                                                               *)
(*     `-- 3 -- 4 -- 5                                                     *)
(***************************************************************************)
EXTENDS ForkResolution

mcBlocks    == 1..5
mcNumber    == <<0, 1, 1, 2, 3>>
mcPrevious  == <<0, 1, 1, 3, 4>>

(***************************************************************************)
(* Another tree, where the first head known of the longer branch is refused *)
(* by the rules and the second one is not:                                 *)
(*                                                                         *)
(*    1 -- 2                                                               *)
(*     `-- 3 -- 4 -- 5    (5 is refused)                                   *)
(*               `-- 6                                                     *)
(***************************************************************************)
mcTwoHeads         == 1..6
mcTwoHeadsNumber   == <<0, 1, 1, 2, 3, 3>>
mcTwoHeadsPrevious == <<0, 1, 1, 3, 4, 4>>
mcTwoHeadsValid    == mcTwoHeads \ {5}
=============================================================================
