------------------------------ MODULE MCRules ------------------------------
(***************************************************************************)
(* One instance for the rules about members and for those about            *)
(* transactions: `focus` picks the one that moves.                         *)
(***************************************************************************)
EXTENDS MCMembership, Transactions

VARIABLE focus

rulesVars == <<vars, txVars, focus>>

SigOf(k) == {{[f |-> "SIG", p |-> k]}}
Out(amount, base, conditions) == [amount |-> amount, base |-> base, conditions |-> conditions]
Payment(ref, k, source, amount, outputs, locktime) ==
    [ref |-> ref, issuers |-> <<k>>, inputs |-> <<[source |-> source, amount |-> amount, base |-> 0]>>,
     unlocks |-> << <<[f |-> "SIG", p |-> 0]>> >>, outputs |-> outputs, locktime |-> locktime]

MCDividends == {[id |-> <<k, 0>>, amount |-> 10, base |-> 0, conditions |-> SigOf(k), time |-> 1] : k \in {"a", "b"}}

\* One output that b may spend, or a after a while; a chain of three, its last one with a locktime; a stamp on a
\* block that may be left.
MCTx == [
    t1 |-> Payment(<<0, "root">>, "a", <<"a", 0>>, 10,
                   <<Out(6, 0, SigOf("b") \cup {{[f |-> "SIG", p |-> "a"], [f |-> "CSV", p |-> 1]}}), Out(4, 0, SigOf("c"))>>, 0),
    t2 |-> Payment(<<0, "root">>, "b", <<"t1", 0>>, 6, <<Out(6, 0, SigOf("c"))>>, 0),
    t3 |-> Payment(<<0, "root">>, "c", <<"t2", 0>>, 6, <<Out(6, 0, SigOf("a"))>>, 1),
    t4 |-> Payment(<<1, "own">>, "b", <<"b", 0>>, 10, <<Out(5, 0, SigOf("c")), Out(5, 0, SigOf("a"))>>, 0),
    t5 |-> Payment(<<0, "root">>, "a", <<"t1", 0>>, 6, <<Out(6, 0, SigOf("c"))>>, 0)]

RulesInit == Init /\ TxInit /\ focus \in {"members", "transactions"}

RulesNext ==
    \/ focus = "members" /\ Next /\ UNCHANGED <<txVars, focus>>
    \/ focus = "transactions" /\ TxNext /\ UNCHANGED <<vars, focus>>

RulesSpec == RulesInit /\ [][RulesNext]_rulesVars
=============================================================================
