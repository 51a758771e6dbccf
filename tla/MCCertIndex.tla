----------------------------- MODULE MCCertIndex -----------------------------
(***************************************************************************)
(* An instance of CertIndex for TLC: two issuers certify the same member.   *)
(***************************************************************************)
EXTENDS CertIndex

mcPairs == {<<"a", "c">>, <<"b", "c">>}
mcRoot  == {<<"a", "c">>}
=============================================================================
