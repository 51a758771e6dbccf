---------------------------- MODULE MCMembership ----------------------------
(***************************************************************************)
(* An instance of Membership for TLC: all that can happen to one key, while  *)
(* another joins and shares its terms.                                     *)
(***************************************************************************)
EXTENDS Membership

mcKinds == [p \in Pubs |-> IF p = "a" THEN {"join", "active", "leave", "revoke"} ELSE {"join"}]
=============================================================================
