-------------------------- MODULE MCForkResolution --------------------------
(***************************************************************************)
(* An instance of ForkResolution for TLC: a small tree of blocks.          *)
(*                                                                         *)
(*    1 -- 2 -- 3        2 and 4 compete on top of the root 1;              *)
(*     `-- 4 -- 5 -- 6   the rules refuse 6                                *)
(*               `-- 7                                                     *)
(***************************************************************************)
EXTENDS ForkResolution

mcBlocks    == 1..7
mcNumber    == <<0, 1, 2, 1, 2, 3, 3>>
mcPrevious  == <<0, 1, 2, 1, 4, 5, 5>>
mcTime      == mcNumber
mcValid     == mcBlocks \ {6}
=============================================================================
