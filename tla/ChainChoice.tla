----------------------------- MODULE ChainChoice -----------------------------
(***************************************************************************)
(* What a node promises about the chain it follows, whatever it does to     *)
(* test forks: the chain is sound; it grows by one valid block, or is       *)
(* exchanged for a chain ahead by the required advance in blocks and in     *)
(* time; blocks deeper than the fork window are final, even if the node is  *)
(* restarted at the worst moment; only an operator takes the head back.     *)
(***************************************************************************)
EXTENDS Integers

CONSTANTS Blocks, NoBlock, Number, Previous, MedianTime, Valid,
          ForkSize, SwitchOnHeadAdvance, AvgGenTime

VARIABLES
    chain,    \* the blocks of the chain the node stands on
    asked,    \* an operator has asked for the head to be reverted
    restarts  \* how many times the node was restarted

Sound(C) ==
    /\ C \subseteq Valid
    /\ \A b \in C : Number[b] = 0 \/ Previous[b] \in C
    /\ \A b, c \in C : Number[b] = Number[c] => b = c

Head(C) == CHOOSE b \in C : \A c \in C : Number[c] <= Number[b]

\* The chain C keeps every block of the current chain that no switch can reach.
KeepsFinal(C) ==
    \A b \in chain :
        Number[b] <= Number[Head(chain)] + SwitchOnHeadAdvance - ForkSize => b \in C

Extend ==
    \E b \in Valid \ chain :
        /\ IF chain = {} THEN Number[b] = 0 ELSE Previous[b] = Head(chain)
        /\ chain' = chain \cup {b}

Switch ==
    /\ chain # {} /\ chain' # {}
    /\ Number[Head(chain')] >= Number[Head(chain)] + SwitchOnHeadAdvance
    /\ MedianTime[Head(chain')]
         >= MedianTime[Head(chain)] + SwitchOnHeadAdvance * AvgGenTime
    /\ KeepsFinal(chain')

Undo ==
    /\ asked /\ chain # {}
    /\ chain' = chain \ {Head(chain)}

Interrupt ==
    /\ restarts' # restarts
    /\ chain # {} => KeepsFinal(chain')

Next == (Extend \/ Switch \/ Undo \/ Interrupt) /\ Sound(chain')

Spec == chain = {} /\ [][Next]_chain
=============================================================================
