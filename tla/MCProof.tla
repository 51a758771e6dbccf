------------------------------ MODULE MCProof ------------------------------
(***************************************************************************)
(* One instance for the two halves of a proof of work: what is put in the  *)
(* block and how its proof is found.  `focus` picks the half that moves;    *)
(* the other keeps its initial state.                                      *)
(***************************************************************************)
EXTENDS Prover, BlockGenerator

CONSTANTS ada, bob, cyd, dan, eve

\* Two newcomers with the same uid, each certified by another member; a certification written again, a leave, a
\* revocation; that of an excluded identity.
MCOffered ==
    {<<"cert", ada, cyd>>, <<"cert", bob, dan>>, <<"cert", bob, ada>>, <<"in", cyd, cyd>>, <<"in", dan, dan>>, <<"out", ada, ada>>,
     <<"revocation", bob, bob>>, <<"revocation", eve, eve>>}

VARIABLE focus

proofVars == <<proverVars, generatorVars, focus>>

ProofInit == ProverInit /\ GeneratorInit /\ focus \in {"prover", "generator"}

ProofNext ==
    \/ focus = "prover" /\ ProverNext /\ UNCHANGED <<generatorVars, focus>>
    \/ focus = "generator" /\ GeneratorNext /\ UNCHANGED <<proverVars, focus>>

\* ProverFairness, when the prover is the one that moves.
ProofSpec ==
    /\ ProofInit /\ [][ProofNext]_proofVars
    /\ WF_proverVars(focus = "prover" /\ LoopStep) /\ WF_proverVars(focus = "prover" /\ Timer)
    /\ WF_proverVars(focus = "prover" /\ ClusterStep) /\ WF_proverVars(focus = "prover" /\ WriteBlank)
    /\ WF_proverVars(focus = "prover" /\ ResolveOwn) /\ WF_proverVars(focus = "prover" /\ BlockchainChanged)
    /\ \A i \in 1..MaxCancels + 1 : WF_proverVars(focus = "prover" /\ i \in DOMAIN cancels /\ Canceled(i))
    /\ \A w \in Worker : WF_proverVars(focus = "prover" /\ WorkerStep(w)) /\ WF_proverVars(focus = "prover" /\ Answered(w))

=============================================================================
