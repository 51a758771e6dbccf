----------------------- MODULE ForkResolution_proofs -----------------------
(***************************************************************************)
(* The safety of the choice of the chain, for every tree of blocks, every   *)
(* rule book and every configuration: the invariant of the tables and of    *)
(* the Switcher, then the implementation of ChainChoice.                    *)
(***************************************************************************)
EXTENDS ForkResolution, FiniteSetTheorems, WellFoundedInduction, TLAPS

-----------------------------------------------------------------------------
(***************************************************************************)
(* Sets of blocks.                                                         *)
(***************************************************************************)
\* A strict order on a finite set has a minimal element.
LEMMA MinimalElement ==
    ASSUME NEW F, IsFiniteSet(F), F # {}, NEW R,
           \A x \in F : <<x, x>> \notin R,
           \A x, y, z \in F : <<x, y>> \in R /\ <<y, z>> \in R => <<x, z>> \in R
    PROVE  \E m \in F : \A x \in F : <<x, m>> \notin R
<1> DEFINE D(m) == {x \in F : <<x, m>> \in R}
           T == {D(m) : m \in F}
<1>1. T \subseteq FiniteSubsetsOf(F) /\ T # {}
  <2>1. T \subseteq SUBSET F
    OBVIOUS
  <2>2. PICK m \in F : TRUE
    OBVIOUS
  <2>3. D(m) \in T
    OBVIOUS
  <2> QED BY <2>1, <2>3, FS_FiniteSubsetsOfFinite
<1>2. PICK X \in T : \A Y \in T : <<Y, X>> \notin StrictSubsetOrdering(F)
  BY <1>1, FS_StrictSubsetOrderingWellFounded, WFMin
<1>3. PICK m \in F : X = D(m)
  OBVIOUS
<1>4. ASSUME NEW x \in F, <<x, m>> \in R
      PROVE  FALSE
  <2>1. D(x) \subseteq D(m)
    BY <1>4
  <2>2. x \in D(m) /\ x \notin D(x)
    BY <1>4
  <2>3. D(x) # D(m)
    BY <2>2
  <2>4. <<D(x), D(m)>> \in StrictSubsetOrdering(F)
    BY <2>1, <2>3 DEF StrictSubsetOrdering
  <2> QED BY <1>2, <1>3, <2>4
<1> QED BY <1>4

LEMMA HighestValue ==
    ASSUME NEW S, IsFiniteSet(S), S # {}, NEW f \in [S -> Int]
    PROVE  \E m \in S : \A c \in S : f[c] <= f[m]
<1> DEFINE R == {p \in S \X S : f[p[1]] > f[p[2]]}
<1>1. \A x, y \in S : <<x, y>> \in R <=> f[x] > f[y]
  OBVIOUS
<1>2. \A x \in S : f[x] \in Int
  OBVIOUS
<1> HIDE DEF R
<1>3. \A x \in S : <<x, x>> \notin R
  BY <1>1, <1>2
<1>4. \A x, y, z \in S : <<x, y>> \in R /\ <<y, z>> \in R => <<x, z>> \in R
  BY <1>1, <1>2
<1>5. PICK m \in S : \A x \in S : <<x, m>> \notin R
  BY <1>3, <1>4, MinimalElement
<1>6. ASSUME NEW c \in S
      PROVE  f[c] <= f[m]
  <2>1. ~(f[c] > f[m])
    BY <1>1, <1>5
  <2> QED BY <1>2, <2>1
<1> QED BY <1>6

LEMMA TreeFacts ==
    /\ IsFiniteSet(Blocks) /\ NoBlock \notin Blocks
    /\ Valid \in SUBSET Blocks
    /\ \A b \in Blocks : Number[b] \in Nat
    /\ \A b \in Blocks : Previous[b] \in Blocks => Number[b] = Number[Previous[b]] + 1
BY BlocksAssumption, TreeAssumption, RulesAssumption

LEMMA TopAndFoot ==
    ASSUME NEW S \in SUBSET Blocks, S # {}
    PROVE  /\ Top(S) \in S /\ \A c \in S : Number[c] <= Number[Top(S)]
           /\ Foot(S) \in S /\ \A c \in S : Number[Foot(S)] <= Number[c]
<1>1. IsFiniteSet(S) /\ \A x \in S : Number[x] \in Nat
  BY FS_Subset, TreeFacts
<1>2. \E m \in S : \A c \in S : Number[c] <= Number[m]
  <2> DEFINE f == [b \in S |-> Number[b]]
  <2>1. f \in [S -> Int]
    BY <1>1
  <2>2. PICK m \in S : \A c \in S : f[c] <= f[m]
    BY <1>1, <2>1, HighestValue
  <2> QED BY <2>2
<1>3. \E m \in S : \A c \in S : Number[m] <= Number[c]
  <2> DEFINE f == [b \in S |-> -Number[b]]
  <2>1. f \in [S -> Int]
    BY <1>1
  <2>2. PICK m \in S : \A c \in S : f[c] <= f[m]
    BY <1>1, <2>1, HighestValue
  <2>3. \A c \in S : -Number[c] <= -Number[m]
    BY <2>2
  <2>4. \A c \in S : Number[m] <= Number[c]
    BY <1>1, <2>3
  <2> QED BY <2>4
<1> QED BY <1>2, <1>3 DEF Top, Foot

-----------------------------------------------------------------------------
(***************************************************************************)
(* Chains.  HN(C) is the head number of a chain C, Over(C, S) says that the  *)
(* blocks of S can be put back on top of C, lowest first.                   *)
(***************************************************************************)
Sound(C) == Choice!Sound(C)

HN(C) == IF C = {} THEN -1 ELSE Number[Top(C)]

Over(C, S) == Sound(C \cup S) /\ \A b \in S : Number[b] > HN(C)

LEMMA HeadNumberOf ==
    ASSUME NEW C \in SUBSET Blocks
    PROVE  /\ HN(C) \in Int /\ HN(C) >= -1
           /\ \A b \in C : Number[b] \in Nat /\ Number[b] <= HN(C)
           /\ C # {} => Top(C) \in C /\ Number[Top(C)] = HN(C)
<1>1. \A b \in C : Number[b] \in Nat
  BY TreeFacts
<1>2. CASE C = {}
  BY <1>2 DEF HN
<1>3. CASE C # {}
  <2>1. Top(C) \in C /\ \A b \in C : Number[b] <= Number[Top(C)]
    BY <1>3, TopAndFoot
  <2>2. HN(C) = Number[Top(C)] /\ HN(C) \in Nat
    BY <1>1, <1>3, <2>1 DEF HN
  <2> QED BY <1>1, <2>1, <2>2
<1> QED BY <1>2, <1>3

\* A block that the rules accept on top of a sound chain makes a sound chain.
LEMMA AddedIsSound ==
    ASSUME NEW C \in SUBSET Blocks, Sound(C), NEW b \in Blocks, b \in Valid,
           IF C = {} THEN Number[b] = 0 ELSE Previous[b] = Top(C)
    PROVE  /\ {c \in C : Number[c] # Number[b]} = C
           /\ Sound(C \cup {b})
           /\ Number[b] = HN(C) + 1
           /\ HN(C \cup {b}) = Number[b]
           /\ b \notin C
<1>1. HN(C) \in Int /\ \A c \in C : Number[c] \in Nat /\ Number[c] <= HN(C)
  BY HeadNumberOf
<1>2. Number[b] = HN(C) + 1 /\ Number[b] \in Nat
  BY HeadNumberOf, TreeFacts DEF HN
<1>3. \A c \in C : Number[c] # Number[b]
  BY <1>1, <1>2
<1>4. Sound(C \cup {b})
  <2>1. Number[b] = 0 \/ Previous[b] \in C
    BY HeadNumberOf
  <2> QED BY <1>3, <2>1 DEF Sound, Choice!Sound
<1>5. HN(C \cup {b}) = Number[b]
  <2> DEFINE D == C \cup {b}
  <2>1. D \in SUBSET Blocks /\ D # {} /\ b \in D
    OBVIOUS
  <2> HIDE DEF D
  <2>2. HN(D) = Number[Top(D)] /\ Top(D) \in D /\ Number[b] <= HN(D) /\ HN(D) \in Int
    BY <2>1, HeadNumberOf DEF HN
  <2>3. \A c \in D : Number[c] <= Number[b]
    BY <1>1, <1>2 DEF D
  <2> QED BY <1>2, <2>2, <2>3 DEF D
<1> QED BY <1>2, <1>3, <1>4, <1>5

\* What is left of a sound chain when its head is reverted.
LEMMA RevertedIsSound ==
    ASSUME NEW C \in SUBSET Blocks, C # {}, Sound(C)
    PROVE  /\ Sound(C \ {Top(C)})
           /\ \A c \in C \ {Top(C)} : Number[c] < HN(C)
           /\ HN(C \ {Top(C)}) < HN(C)
<1> DEFINE t == Top(C)
           D == C \ {t}
<1>1. /\ HN(C) \in Int /\ HN(C) >= -1 /\ t \in C /\ Number[t] = HN(C)
      /\ \A c \in C : Number[c] \in Nat /\ Number[c] <= HN(C)
  BY HeadNumberOf
<1>2. ASSUME NEW c \in D
      PROVE  Number[c] < HN(C)
  <2>1. Number[c] # Number[t]
    BY <1>1 DEF Sound, Choice!Sound
  <2> QED BY <1>1, <2>1
<1>3. ASSUME NEW c \in D, Number[c] # 0
      PROVE  Previous[c] \in D
  <2>1. Previous[c] \in C /\ Previous[c] \in Blocks
    BY <1>3 DEF Sound, Choice!Sound
  <2>2. Number[c] = Number[Previous[c]] + 1
    BY <2>1, TreeFacts
  <2> QED BY <2>1, <2>2, <1>1, <1>2
<1>4. Sound(D)
  BY <1>3 DEF Sound, Choice!Sound
<1>5. HN(D) < HN(C)
  <2>1. D \in SUBSET Blocks
    OBVIOUS
  <2>2. CASE D = {}
    <3>1. HN(D) = -1 /\ Number[t] \in Nat
      BY <2>2, <1>1 DEF HN
    <3> QED BY <3>1, <1>1
  <2>3. CASE D # {}
    <3>1. Top(D) \in D /\ Number[Top(D)] = HN(D)
      BY <2>1, <2>3, HeadNumberOf
    <3> QED BY <3>1, <1>2
  <2> QED BY <2>2, <2>3
<1> QED BY <1>2, <1>4, <1>5

\* The lowest of the blocks that can be put back is accepted, and then the others.
LEMMA FootIsAccepted ==
    ASSUME NEW C \in SUBSET Blocks, NEW S \in SUBSET Blocks, S # {},
           Sound(C), Over(C, S)
    PROVE  /\ Foot(S) \in S
           /\ Foot(S) \in Valid
           /\ IF C = {} THEN Number[Foot(S)] = 0 ELSE Previous[Foot(S)] = Top(C)
           /\ Over(C \cup {Foot(S)}, S \ {Foot(S)})
<1> DEFINE f == Foot(S)
<1>1. /\ f \in S /\ f \in Blocks /\ Number[f] \in Nat
      /\ \A c \in S : Number[c] \in Nat /\ Number[f] <= Number[c]
  BY TopAndFoot, TreeFacts
<1>2. /\ HN(C) \in Int /\ HN(C) >= -1
      /\ \A c \in C : Number[c] \in Nat /\ Number[c] <= HN(C)
      /\ C # {} => Top(C) \in C /\ Number[Top(C)] = HN(C)
  BY HeadNumberOf
<1>3. Number[f] > HN(C)
  BY <1>1 DEF Over
<1>4. f \in Valid
  BY <1>1 DEF Over, Sound, Choice!Sound
<1>5. IF C = {} THEN Number[f] = 0 ELSE Previous[f] = Top(C)
  <2>1. CASE Number[f] = 0
    BY <2>1, <1>2, <1>3 DEF HN
  <2>2. CASE Number[f] # 0
    <3>1. Previous[f] \in C \cup S
      BY <1>1, <2>2 DEF Over, Sound, Choice!Sound
    <3>2. Number[f] = Number[Previous[f]] + 1 /\ Number[Previous[f]] \in Nat
      BY <3>1, <1>1, TreeFacts
    <3>3. Previous[f] \notin S
      BY <3>2, <1>1
    <3>4. Number[Previous[f]] = Number[Top(C)] /\ C # {} /\ Previous[f] \in C
      BY <3>1, <3>2, <3>3, <1>2, <1>3
    <3> QED BY <3>4, <1>2 DEF Sound, Choice!Sound
  <2> QED BY <2>1, <2>2
<1>6. Over(C \cup {f}, S \ {f})
  <2>1. (C \cup {f}) \cup (S \ {f}) = C \cup S
    BY <1>1
  <2>2. HN(C \cup {f}) = Number[f]
    BY <1>1, <1>4, <1>5, AddedIsSound
  <2>3. ASSUME NEW c \in S \ {f}
        PROVE  Number[c] > Number[f]
    <3>1. Number[c] # Number[f]
      BY <1>1 DEF Over, Sound, Choice!Sound
    <3> QED BY <1>1, <3>1
  <2> QED BY <2>1, <2>2, <2>3 DEF Over
<1> QED BY <1>1, <1>4, <1>5, <1>6

\* The head that is reverted joins the blocks that can be put back.
LEMMA RevertedIsOver ==
    ASSUME NEW C \in SUBSET Blocks, C # {}, Sound(C),
           NEW S \in SUBSET Blocks, Over(C, S)
    PROVE  Over(C \ {Top(C)}, S \cup {Top(C)})
<1>1. Top(C) \in C /\ Number[Top(C)] = HN(C) /\ HN(C) \in Int
  BY HeadNumberOf
<1>2. (C \ {Top(C)}) \cup (S \cup {Top(C)}) = C \cup S
  BY <1>1
<1>3. HN(C \ {Top(C)}) < HN(C) /\ HN(C \ {Top(C)}) \in Int
  BY RevertedIsSound, HeadNumberOf
<1>4. \A b \in S : Number[b] > HN(C) /\ Number[b] \in Nat
  BY TreeFacts DEF Over
<1>5. \A b \in S \cup {Top(C)} : Number[b] > HN(C \ {Top(C)})
  BY <1>1, <1>3, <1>4
<1> QED BY <1>2, <1>5 DEF Over

\* The part of a sound chain that is at most n high is a sound chain.
LEMMA LowPartIsSound ==
    ASSUME NEW C \in SUBSET Blocks, Sound(C), NEW n \in Int
    PROVE  Sound({b \in C : Number[b] <= n})
<1> DEFINE D == {b \in C : Number[b] <= n}
<1>1. ASSUME NEW b \in D, Number[b] # 0
      PROVE  Previous[b] \in D
  <2>1. Previous[b] \in C
    BY <1>1 DEF Sound, Choice!Sound
  <2>2. Number[b] = Number[Previous[b]] + 1 /\ Number[Previous[b]] \in Nat
    BY <2>1, TreeFacts
  <2> QED BY <2>1, <2>2
<1> QED BY <1>1 DEF Sound, Choice!Sound

-----------------------------------------------------------------------------
(***************************************************************************)
(* The inductive invariant.  While a fork is tested, Old is the chain the   *)
(* test began on: what is below the fork point, and the reverted blocks.    *)
(***************************************************************************)
Low(C, n) == {b \in C : Number[b] <= n}

Old == IF phase \in {"try", "rollback"} THEN Low(main, forkPoint) \cup reverted
       ELSE main \cup reverted

\* The chain that is left under the foot of a set of blocks S that is put on a chain C.
Under(C, S) == {b \in C : Number[b] < Number[Foot(S)]}

SwitcherOK ==
    /\ forkPoint >= -1
    /\ \A S \in suites : S # {}
    /\ \A b \in reverted \cup suite \cup successful : Number[b] > forkPoint
    /\ phase \in {"idle", "task", "blocks", "fork"} => longest = {} /\ suites = {}
    /\ phase \in {"idle", "task", "blocks", "fork", "pick", "switchPop", "switchAdd"}
         => reverted = {} /\ successful = {}
    /\ phase \in {"idle", "task", "blocks", "fork", "pick", "rollback", "restore"}
         => suite = {}
    /\ phase = "pop" => successful = {}

TestOK ==
    /\ Sound(Old)
    /\ phase \notin {"switchPop", "switchAdd"} /\ longest # {}
         => Sound(Under(Old, longest) \cup longest)
    /\ phase \in {"pop", "restore"} => \A b \in reverted : Number[b] > HN(main)
    /\ phase = "try" => successful = {b \in main : Number[b] > forkPoint}
    /\ phase \in {"try", "rollback", "restore"}
         => Sound(Low(main, forkPoint) \cup successful)

SwitchOK ==
    /\ phase = "switchPop" => Sound(Low(main, forkPoint) \cup suite)
    /\ phase = "switchAdd" => Over(main, suite)

Inv == TypeOK /\ TablesDisjoint /\ Sound(main) /\ SwitcherOK /\ TestOK /\ SwitchOK

Quiet == {"idle", "task", "blocks", "fork"}

-----------------------------------------------------------------------------
(***************************************************************************)
(* What the parts of the steps do to the parts of the invariant.            *)
(***************************************************************************)
FifoType == queue \in Seq(Ops) /\ operations \in SUBSET Ops /\ running \in Ops \cup {NoOp}

LEMMA OpsFacts ==
    /\ NoOp \notin Ops
    /\ PullOp \in Ops /\ RevertOp \in Ops /\ ApplyOp \in Ops
    /\ \A b \in Blocks : Submission(b) \in Ops /\ Resolution(b) \in Ops
BY DEF Ops, NoOp, PullOp, RevertOp, ApplyOp, Submission, Resolution

LEMMA PushType ==
    ASSUME FifoType, NEW op \in Ops, Fifo!Push(op)
    PROVE  FifoType'
BY DEF FifoType, Fifo!Push

LEMMA SettleType ==
    ASSUME FifoType, NEW ok, Fifo!Settle(ok)
    PROVE  FifoType'
BY DEF FifoType, Fifo!Settle

LEMMA SettleAndPushType ==
    ASSUME FifoType, NEW op \in Ops, Fifo!SettleAndPush(op)
    PROVE  FifoType'
BY DEF FifoType, Fifo!SettleAndPush, Fifo!Refused

LEMMA StartType ==
    ASSUME FifoType, Fifo!Start
    PROVE  FifoType'
<1>1. Head(queue) \in Ops /\ Tail(queue) \in Seq(Ops)
  BY DEF FifoType, Fifo!Start
<1> QED BY <1>1 DEF FifoType, Fifo!Start

LEMMA AddStep ==
    ASSUME TypeOK, TablesDisjoint, Sound(main), NEW b \in Blocks, Accepted(b), AddBlock(b)
    PROVE  /\ main' = main \cup {b} /\ main' \in SUBSET Blocks
           /\ forks' = forks \ {b} /\ forks' \in SUBSET Blocks
           /\ TablesDisjoint' /\ Sound(main')
           /\ Number[b] = HN(main) + 1 /\ HN(main') = Number[b]
           /\ b \notin main
<1>1. IF main = {} THEN Number[b] = 0 ELSE Previous[b] = Top(main)
  BY DEF Accepted, Follows
<1>2. /\ {c \in main : Number[c] # Number[b]} = main
      /\ Sound(main \cup {b})
      /\ Number[b] = HN(main) + 1
      /\ HN(main \cup {b}) = Number[b]
      /\ b \notin main
  BY <1>1, AddedIsSound DEF TypeOK, Accepted
<1>3. main' = main \cup {b}
  BY <1>2 DEF AddBlock
<1> QED BY <1>2, <1>3 DEF AddBlock, TypeOK, TablesDisjoint

LEMMA RevertStep ==
    ASSUME TypeOK, TablesDisjoint, Sound(main), main # {}, RevertBlock
    PROVE  /\ main' = main \ {Top(main)} /\ main' \in SUBSET Blocks
           /\ forks' = forks \cup {Top(main)} /\ forks' \in SUBSET Blocks
           /\ TablesDisjoint' /\ Sound(main')
           /\ Top(main) \in main /\ Number[Top(main)] = HN(main)
           /\ HN(main') < HN(main)
           /\ \A c \in main' : Number[c] < HN(main)
<1>1. Top(main) \in main /\ Number[Top(main)] = HN(main)
  BY HeadNumberOf DEF TypeOK
<1>2. main' = main \ {Top(main)} /\ forks' = forks \cup {Top(main)}
  BY DEF RevertBlock
<1>3. Sound(main') /\ HN(main') < HN(main) /\ \A c \in main' : Number[c] < HN(main)
  BY <1>2, RevertedIsSound DEF TypeOK
<1> QED BY <1>1, <1>2, <1>3 DEF TypeOK, TablesDisjoint

LEMMA HeadNumberIsHN == HeadNumber = HN(main)
BY DEF HeadNumber, HN

\* The switcher is idle after the step, as after Finish or a restart.
LEMMA QuietAfterReset ==
    ASSUME TypeOK', TablesDisjoint', Sound(main'), SwitcherReset, phase' \in Quiet
    PROVE  Inv'
<1>1. Old' = main'
  BY DEF Old, SwitcherReset, Quiet
<1>2. SwitcherOK'
  BY DEF SwitcherOK, SwitcherReset, Quiet
<1>3. TestOK' /\ SwitchOK'
  BY <1>1 DEF TestOK, SwitchOK, SwitcherReset, Quiet
<1> QED BY <1>2, <1>3 DEF Inv

\* The switcher was idle and stays so.
LEMMA QuietAfterQuiet ==
    ASSUME Inv, TypeOK', TablesDisjoint', Sound(main'), UNCHANGED switcher,
           phase \in Quiet, phase' \in Quiet
    PROVE  Inv'
<1>1. Old' = main'
  BY DEF Inv, SwitcherOK, Old, switcher, Quiet
<1>2. SwitcherOK'
  BY DEF Inv, SwitcherOK, switcher, Quiet
<1>3. TestOK' /\ SwitchOK'
  BY <1>1 DEF Inv, SwitcherOK, TestOK, SwitchOK, switcher, Quiet
<1> QED BY <1>2, <1>3 DEF Inv

\* A step that touches neither the tables nor the switcher.
LEMMA NothingTouched ==
    ASSUME Inv, TypeOK', UNCHANGED <<tables, phase, switcher>>
    PROVE  Inv'
<1>1. Old' = Old
  BY DEF Old, tables, switcher
<1>2. SwitcherOK'
  BY DEF Inv, SwitcherOK, switcher
<1>3. TestOK' /\ SwitchOK'
  BY <1>1 DEF Inv, TestOK, SwitchOK, tables, switcher
<1> QED BY <1>2, <1>3 DEF Inv, TablesDisjoint, tables

-----------------------------------------------------------------------------
(***************************************************************************)
(* Every step preserves the invariant: the steps outside the tests of forks. *)
(***************************************************************************)
LEMMA InitInv == Init => Inv
<1> SUFFICES ASSUME Init PROVE Inv
  OBVIOUS
<1>1. TypeOK
  BY BlocksAssumption, ConfAssumption DEF Init, TypeOK, Phases
<1>2. Sound({})
  BY DEF Sound, Choice!Sound
<1>3. Old = {}
  BY DEF Init, Old
<1> QED BY <1>1, <1>2, <1>3 DEF Init, Inv, TablesDisjoint, SwitcherOK, TestOK, SwitchOK

LEMMA PushInv ==
    ASSUME Inv, NEW op \in Ops, Fifo!Push(op),
           commands' \in 0..MaxCommands, UNCHANGED restarts,
           UNCHANGED <<tables, invalidForks, phase, switcher>>
    PROVE  Inv'
<1>1. FifoType'
  BY PushType DEF Inv, TypeOK, FifoType
<1>2. TypeOK'
  BY <1>1 DEF Inv, TypeOK, FifoType, tables, switcher
<1> QED BY <1>2, NothingTouched

LEMMA BeginInv ==
    ASSUME Inv, Begin
    PROVE  Inv'
<1>1. FifoType'
  BY StartType DEF Inv, TypeOK, FifoType, Begin
<1>2. phase \in Quiet /\ phase' \in Quiet
  BY DEF Begin, Quiet
<1>3. TypeOK'
  BY <1>1, <1>2 DEF Inv, TypeOK, FifoType, Begin, tables, switcher, bounds, Phases, Quiet
<1> QED BY <1>2, <1>3, QuietAfterQuiet DEF Begin, Inv, TablesDisjoint, tables

LEMMA SubmitBlockInv ==
    ASSUME Inv, NEW b \in Blocks, NEW noResolution \in BOOLEAN, SubmitBlock(b, noResolution)
    PROVE  Inv'
<1>1. FifoType'
  BY SettleType, SettleAndPushType, OpsFacts DEF Inv, TypeOK, FifoType, SubmitBlock
<1>2. phase \in Quiet /\ phase' \in Quiet
  BY DEF SubmitBlock, Quiet
<1>3. forks' \in SUBSET Blocks /\ main' = main /\ TablesDisjoint'
  BY DEF Inv, TypeOK, TablesDisjoint, SubmitBlock, Known
<1>4. TypeOK'
  BY <1>1, <1>2, <1>3
     DEF Inv, TypeOK, FifoType, SubmitBlock, switcher, bounds, Phases, Quiet
<1> QED BY <1>2, <1>3, <1>4, QuietAfterQuiet DEF SubmitBlock, Inv

\* The step ends the operation, and leaves a sound chain.
LEMMA FinishInv ==
    ASSUME Inv, NEW ok, Finish(ok), UNCHANGED bounds,
           main' \in SUBSET Blocks, forks' \in SUBSET Blocks, invalidForks' \in SUBSET Blocks,
           TablesDisjoint', Sound(main')
    PROVE  Inv'
<1>1. FifoType'
  BY SettleType DEF Inv, TypeOK, FifoType, Finish, fifo
<1>2. phase' \in Quiet
  BY DEF Finish, Quiet
<1>3. TypeOK'
  BY <1>1, <1>2, BlocksAssumption
     DEF Inv, TypeOK, FifoType, Finish, SwitcherReset, bounds, Phases, Quiet
<1> QED BY <1>2, <1>3, QuietAfterReset DEF Finish

LEMMA RevertCurrentBlockInv ==
    ASSUME Inv, RevertCurrentBlock
    PROVE  Inv'
<1>1. /\ main' \in SUBSET Blocks /\ forks' \in SUBSET Blocks
      /\ TablesDisjoint' /\ Sound(main')
  <2>1. CASE main = {}
    BY <2>1 DEF RevertCurrentBlock, Inv, TypeOK, TablesDisjoint, tables
  <2>2. CASE main # {}
    BY <2>2, RevertStep DEF RevertCurrentBlock, Inv
  <2> QED BY <2>1, <2>2
<1> QED BY <1>1, FinishInv DEF RevertCurrentBlock, Inv, TypeOK

LEMMA ApplyNextAvailableForkInv ==
    ASSUME Inv, ApplyNextAvailableFork
    PROVE  Inv'
<1>1. /\ \E ok \in BOOLEAN : Finish(ok)
      /\ \/ UNCHANGED tables
         \/ \E b \in Potentials : Accepted(b) /\ AddBlock(b)
  <2>1. CASE main = {} \/ Potentials = {}
    BY <2>1 DEF ApplyNextAvailableFork
  <2>2. CASE main # {} /\ Potentials # {}
    <3> DEFINE b == CHOOSE c \in Potentials : \A d \in Potentials : c <= d
    <3>1. b \in Potentials
      <4>1. Potentials \in SUBSET Blocks /\ IsFiniteSet(Potentials)
        BY BlocksAssumption, FS_Subset DEF Potentials, Inv, TypeOK
      <4> DEFINE f == [c \in Potentials |-> -c]
      <4>2. \A c \in Potentials : c \in Nat
        BY <4>1, BlocksAssumption
      <4>3. f \in [Potentials -> Int]
        BY <4>2
      <4>4. PICK m \in Potentials : \A c \in Potentials : f[c] <= f[m]
        BY <2>2, <4>1, <4>3, HighestValue
      <4>5. \A c \in Potentials : -c <= -m
        BY <4>4
      <4>6. \A c \in Potentials : m <= c
        BY <4>2, <4>5
      <4> QED BY <4>6
    <3>2. IF Accepted(b) THEN AddBlock(b) /\ Finish(TRUE)
          ELSE UNCHANGED tables /\ Finish(FALSE)
      BY <2>2 DEF ApplyNextAvailableFork
    <3> HIDE DEF b
    <3> QED BY <3>1, <3>2
  <2> QED BY <2>1, <2>2
<1>2. /\ main' \in SUBSET Blocks /\ forks' \in SUBSET Blocks
      /\ TablesDisjoint' /\ Sound(main')
  <2>1. CASE UNCHANGED tables
    BY <2>1 DEF Inv, TypeOK, TablesDisjoint, tables
  <2>2. CASE \E b \in Potentials : Accepted(b) /\ AddBlock(b)
    BY <2>2, AddStep DEF Potentials, Inv, TypeOK
  <2> QED BY <1>1, <2>1, <2>2
<1> QED BY <1>1, <1>2, FinishInv DEF ApplyNextAvailableFork, Inv, TypeOK

LEMMA BlockResolutionInv ==
    ASSUME Inv, BlockResolution
    PROVE  Inv'
<1>1. PICK b \in Potentials : Accepted(b) /\ AddBlock(b)
  BY DEF BlockResolution
<1>2. /\ main' \in SUBSET Blocks /\ forks' \in SUBSET Blocks
      /\ TablesDisjoint' /\ Sound(main')
  BY <1>1, AddStep DEF Potentials, Inv, TypeOK
<1>3. TypeOK'
  BY <1>2 DEF BlockResolution, Inv, TypeOK, fifo, switcher, bounds
<1> QED BY <1>2, <1>3, QuietAfterQuiet DEF BlockResolution, Quiet

LEMMA NoBlockAcceptedInv ==
    ASSUME Inv, NoBlockAccepted
    PROVE  Inv'
<1>1. TypeOK'
  BY DEF NoBlockAccepted, Inv, TypeOK, Phases, tables, fifo, switcher, bounds
<1> QED BY <1>1, QuietAfterQuiet DEF NoBlockAccepted, Quiet, Inv, TablesDisjoint, tables

LEMMA RestartInv ==
    ASSUME Inv, Restart
    PROVE  Inv'
<1>1. FifoType'
  BY DEF Restart, Fifo!Reset, FifoType
<1>2. TypeOK'
  BY <1>1, BlocksAssumption, ConfAssumption
     DEF Restart, Inv, TypeOK, FifoType, Phases, SwitcherReset, tables
<1> QED BY <1>2, QuietAfterReset DEF Restart, Quiet, Inv, TablesDisjoint, tables

-----------------------------------------------------------------------------
(***************************************************************************)
(* The steps of the Switcher.                                              *)
(***************************************************************************)
LEMMA TryToForkInv ==
    ASSUME Inv, TryToFork
    PROVE  Inv'
<1>1. CASE main = {}
  BY <1>1, FinishInv DEF TryToFork, Inv, TypeOK, TablesDisjoint, tables
<1>2. CASE main # {}
  <2>1. suites' \in SUBSET SUBSET Blocks /\ \A S \in suites' : S # {}
    BY <1>2 DEF TryToFork, PotentialSuites, IsSuite, Inv, TypeOK
  <2>2. current' \in Blocks
    <3>1. main \in SUBSET Blocks
      BY DEF Inv, TypeOK
    <3>2. Top(main) \in Blocks
      BY <1>2, <3>1, TopAndFoot
    <3>3. current' = Top(main)
      BY <1>2 DEF TryToFork
    <3> QED BY <3>2, <3>3
  <2>3. TypeOK'
    BY <1>2, <2>1, <2>2 DEF TryToFork, Inv, TypeOK, Phases, tables, fifo, bounds
  <2>4. Old' = main /\ main' = main
    BY <1>2 DEF TryToFork, Inv, SwitcherOK, Old, tables
  <2>5. SwitcherOK'
    BY <1>2, <2>1 DEF TryToFork, Inv, SwitcherOK
  <2>6. TestOK' /\ SwitchOK'
    BY <1>2, <2>4 DEF TryToFork, Inv, SwitcherOK, TestOK, SwitchOK
  <2> QED BY <2>3, <2>4, <2>5, <2>6 DEF TryToFork, Inv, TablesDisjoint, tables
<1> QED BY <1>1, <1>2

\* There is a suite to pick: the hash of its head breaks the ties.
LEMMA BestSuite ==
    ASSUME NEW F \in SUBSET SUBSET Blocks, F # {}, \A S \in F : S # {}
    PROVE  \E s \in F : \A t \in F : Before(s, t)
<1>1. \A S \in F : /\ Top(S) \in S /\ Top(S) \in Blocks
                   /\ Number[Top(S)] \in Int /\ Top(S) \in Nat
  <2> SUFFICES ASSUME NEW S \in F
               PROVE  /\ Top(S) \in S /\ Top(S) \in Blocks
                      /\ Number[Top(S)] \in Int /\ Top(S) \in Nat
    OBVIOUS
  <2>1. Top(S) \in S /\ S \in SUBSET Blocks
    BY TopAndFoot
  <2>2. Top(S) \in Blocks
    BY <2>1
  <2>3. Number[Top(S)] \in Int
    BY <2>2, TreeFacts
  <2>4. Top(S) \in Nat
    BY <2>2, BlocksAssumption
  <2> QED BY <2>1, <2>2, <2>3, <2>4
<1>2. IsFiniteSet(F)
  BY FS_SUBSET, FS_Subset, TreeFacts
<1> DEFINE f == [S \in F |-> Number[Top(S)]]
<1>3. f \in [F -> Int]
  BY <1>1
<1>4. PICK s \in F : \A t \in F : f[t] <= f[s]
  BY <1>2, <1>3, HighestValue
<1>5. \A t \in F : Number[Top(t)] <= Number[Top(s)]
  BY <1>4
<1> DEFINE G == {t \in F : Number[Top(t)] = Number[Top(s)]}
           g == [S \in G |-> -Top(S)]
<1>6. G # {} /\ IsFiniteSet(G) /\ g \in [G -> Int]
  BY <1>1, <1>2, FS_Subset
<1>7. PICK m \in G : \A t \in G : g[t] <= g[m]
  BY <1>6, HighestValue
<1>8. \A t \in G : -Top(t) <= -Top(m)
  BY <1>7
<1>9. \A t \in G : Top(m) <= Top(t)
  BY <1>1, <1>8
<1>10. \A t \in F : Before(m, t)
  BY <1>1, <1>5, <1>9 DEF Before
<1> QED BY <1>10

LEMMA PickSuiteInv ==
    ASSUME Inv, PickSuite
    PROVE  Inv' /\ Old' = Old
<1>1. PICK S \in suites : /\ suites' = suites \ {S}
                          /\ suite' = S
                          /\ forkPoint' = Number[Foot(S)] - 1
  <2>1. \E s \in suites : \A t \in suites : Before(s, t)
    BY BestSuite DEF PickSuite, Inv, TypeOK, SwitcherOK
  <2> QED BY <2>1 DEF PickSuite
<1>2. S \in SUBSET Blocks /\ S # {}
  BY DEF Inv, TypeOK, SwitcherOK
<1>3. /\ forkPoint' \in Int /\ forkPoint' >= -1
      /\ \A b \in S : Number[b] > forkPoint'
  <2>1. Number[Foot(S)] \in Nat /\ \A b \in S : Number[b] \in Nat /\ Number[b] >= Number[Foot(S)]
    BY <1>2, TopAndFoot, TreeFacts
  <2> QED BY <1>1, <2>1
<1>4. TypeOK'
  BY <1>1, <1>2, <1>3 DEF PickSuite, Inv, TypeOK, Phases, tables, fifo, bounds
<1>5. Old' = Old /\ main' = main
  BY DEF PickSuite, Old, tables
<1>6. SwitcherOK'
  BY <1>1, <1>3 DEF PickSuite, Inv, SwitcherOK
<1>7. TestOK' /\ SwitchOK'
  BY <1>5 DEF PickSuite, Inv, SwitcherOK, TestOK, SwitchOK
<1> QED BY <1>4, <1>5, <1>6, <1>7 DEF PickSuite, Inv, TablesDisjoint, tables

LEMMA EmptyIsUnder ==
    ASSUME forkPoint \in Int, forkPoint >= -1, HN(main) > forkPoint
    PROVE  main # {}
BY DEF HN

LEMMA PopBlockInv ==
    ASSUME Inv, PopBlock
    PROVE  Inv' /\ Old' = Old
<1>1. main # {} /\ HN(main) > forkPoint
  BY HeadNumberIsHN, EmptyIsUnder DEF PopBlock, Inv, TypeOK, SwitcherOK
<1>2. /\ main' = main \ {Top(main)} /\ main' \in SUBSET Blocks
      /\ forks' = forks \cup {Top(main)} /\ forks' \in SUBSET Blocks
      /\ TablesDisjoint' /\ Sound(main')
      /\ Top(main) \in main /\ Number[Top(main)] = HN(main)
  BY <1>1, RevertStep DEF PopBlock, Inv
<1>3. reverted' = reverted \cup {Top(main)} /\ reverted' \in SUBSET Blocks
  BY <1>2 DEF PopBlock, Inv, TypeOK
<1>4. TypeOK'
  BY <1>2, <1>3 DEF PopBlock, Inv, TypeOK, fifo, bounds
<1>5. Old' = Old
  BY <1>2, <1>3 DEF PopBlock, Old
<1>6. SwitcherOK'
  BY <1>1, <1>2, <1>3 DEF PopBlock, Inv, SwitcherOK
<1>7. \A b \in reverted' : Number[b] > HN(main')
  <2>1. Over(main, reverted)
    BY DEF PopBlock, Inv, TestOK, Over, Old
  <2>2. Over(main', reverted')
    BY <1>1, <1>2, <1>3, <2>1, RevertedIsOver DEF Inv, TypeOK
  <2> QED BY <2>2 DEF Over
<1>8. TestOK' /\ SwitchOK'
  BY <1>5, <1>7 DEF PopBlock, Inv, SwitcherOK, TestOK, SwitchOK
<1> QED BY <1>2, <1>4, <1>5, <1>6, <1>8 DEF Inv

\* When the head is at the fork point or under it, the low part is the whole chain.
LEMMA LowIsAll ==
    ASSUME NEW C \in SUBSET Blocks, NEW n \in Int, HN(C) <= n
    PROVE  Low(C, n) = C
<1>1. \A b \in C : Number[b] <= n
  BY HeadNumberOf
<1> QED BY <1>1 DEF Low

LEMMA PoppedInv ==
    ASSUME Inv, Popped
    PROVE  Inv' /\ Old' = Old
<1>1. TypeOK'
  BY DEF Popped, Inv, TypeOK, Phases, tables, fifo, switcher, bounds
<1>2. HN(main) <= forkPoint /\ Low(main, forkPoint) = main
  BY HeadNumberIsHN, LowIsAll DEF Popped, Inv, TypeOK
<1>3. Old' = Old /\ main' = main /\ forkPoint' = forkPoint
  BY <1>2 DEF Popped, Old, tables, switcher
<1>4. SwitcherOK'
  BY DEF Popped, Inv, SwitcherOK, switcher
<1>5. successful = {b \in main : Number[b] > forkPoint}
  <2>1. \A b \in main : ~(Number[b] > forkPoint)
    BY <1>2, TreeFacts DEF Inv, TypeOK, Low
  <2> QED BY <2>1 DEF Popped, Inv, SwitcherOK
<1>6. Low(main, forkPoint) \cup successful = main
  BY <1>2 DEF Popped, Inv, SwitcherOK
<1>7. TestOK' /\ SwitchOK'
  BY <1>3, <1>5, <1>6 DEF Popped, Inv, TestOK, SwitchOK, switcher
<1> QED BY <1>1, <1>3, <1>4, <1>7 DEF Popped, Inv, TablesDisjoint, tables

LEMMA TryBlockInv ==
    ASSUME Inv, TryBlock
    PROVE  Inv' /\ Old' = Old
<1> DEFINE f == Foot(suite)
<1>1. f \in suite /\ f \in Blocks /\ Number[f] > forkPoint
  BY TopAndFoot DEF TryBlock, Inv, TypeOK, SwitcherOK
<1>2. /\ main' = main \cup {f} /\ main' \in SUBSET Blocks /\ forks' \in SUBSET Blocks
      /\ TablesDisjoint' /\ Sound(main')
  BY <1>1, AddStep DEF TryBlock, Inv
<1>3. /\ successful' = successful \cup {f} /\ suite' = suite \ {f}
      /\ forkPoint' = forkPoint /\ reverted' = reverted /\ phase' = phase /\ phase = "try"
  BY DEF TryBlock
<1>4. TypeOK'
  BY <1>1, <1>2, <1>3 DEF TryBlock, Inv, TypeOK, fifo, bounds
<1>5. Number[f] \in Nat /\ forkPoint \in Int /\ Low(main', forkPoint') = Low(main, forkPoint)
  BY <1>1, <1>2, <1>3, TreeFacts DEF Low, Inv, TypeOK
<1>6. Old' = Old
  BY <1>3, <1>5 DEF Old
<1>7. SwitcherOK'
  BY <1>1, <1>3 DEF TryBlock, Inv, SwitcherOK
<1>8. successful' = {b \in main' : Number[b] > forkPoint'}
  BY <1>1, <1>2, <1>3 DEF Inv, TestOK
<1>9. Low(main', forkPoint') \cup successful' = main'
  <2>1. \A b \in main' : Number[b] \in Nat
    BY <1>2, TreeFacts
  <2> QED BY <1>3, <1>5, <1>8, <2>1 DEF Low
<1>10. TestOK' /\ SwitchOK'
  BY <1>2, <1>3, <1>6, <1>8, <1>9 DEF TryBlock, Inv, TestOK, SwitchOK
<1> QED BY <1>2, <1>4, <1>6, <1>7, <1>10 DEF Inv

LEMMA EndOfTryInv ==
    ASSUME Inv, EndOfTry
    PROVE  Inv' /\ Old' = Old
<1>1. invalidForks' \in SUBSET Blocks
  BY TopAndFoot DEF EndOfTry, Inv, TypeOK
<1>2. TypeOK'
  BY <1>1 DEF EndOfTry, Inv, TypeOK, Phases, tables, fifo, bounds
<1>3. Old' = Old /\ main' = main
  BY DEF EndOfTry, Old, tables
<1>4. SwitcherOK'
  BY DEF EndOfTry, Inv, SwitcherOK
<1>5. TestOK' /\ SwitchOK'
  BY <1>3 DEF EndOfTry, Inv, TestOK, SwitchOK
<1> QED BY <1>2, <1>3, <1>4, <1>5 DEF EndOfTry, Inv, TablesDisjoint, tables

\* Reverting a head above the fork point leaves what is below it.
LEMMA RevertAbove ==
    ASSUME Inv, RevertBlock, UNCHANGED forkPoint, HeadNumber > forkPoint
    PROVE  /\ main' \in SUBSET Blocks /\ forks' \in SUBSET Blocks
           /\ TablesDisjoint' /\ Sound(main')
           /\ Low(main', forkPoint') = Low(main, forkPoint)
<1>1. main # {} /\ HN(main) > forkPoint
  BY HeadNumberIsHN, EmptyIsUnder DEF Inv, TypeOK, SwitcherOK
<1>2. /\ main' = main \ {Top(main)} /\ main' \in SUBSET Blocks /\ forks' \in SUBSET Blocks
      /\ TablesDisjoint' /\ Sound(main')
      /\ Top(main) \in main /\ Number[Top(main)] = HN(main)
  BY <1>1, RevertStep DEF Inv
<1>3. HN(main) \in Int /\ forkPoint \in Int
  BY HeadNumberOf DEF Inv, TypeOK
<1>4. ~(Number[Top(main)] <= forkPoint)
  BY <1>1, <1>2, <1>3
<1> QED BY <1>2, <1>4 DEF Low

LEMMA RollbackInv ==
    ASSUME Inv, Rollback
    PROVE  Inv' /\ Old' = Old
<1>1. /\ main' \in SUBSET Blocks /\ forks' \in SUBSET Blocks
      /\ TablesDisjoint' /\ Sound(main')
      /\ Low(main', forkPoint') = Low(main, forkPoint)
  BY RevertAbove DEF Rollback, switcher
<1>2. TypeOK'
  BY <1>1 DEF Rollback, Inv, TypeOK, fifo, switcher, bounds
<1>3. Old' = Old
  BY <1>1 DEF Rollback, Old, switcher
<1>4. SwitcherOK'
  BY DEF Rollback, Inv, SwitcherOK, switcher
<1>5. TestOK' /\ SwitchOK'
  BY <1>1, <1>3 DEF Rollback, Inv, TestOK, SwitchOK, switcher
<1> QED BY <1>1, <1>2, <1>3, <1>4, <1>5 DEF Inv

LEMMA RolledBackInv ==
    ASSUME Inv, RolledBack
    PROVE  Inv' /\ Old' = Old
<1>1. TypeOK'
  BY DEF RolledBack, Inv, TypeOK, Phases, tables, fifo, switcher, bounds
<1>2. HN(main) <= forkPoint /\ Low(main, forkPoint) = main
  BY HeadNumberIsHN, LowIsAll DEF RolledBack, Inv, TypeOK
<1>3. Old' = Old /\ main' = main /\ forkPoint' = forkPoint /\ reverted' = reverted
  BY <1>2 DEF RolledBack, Old, tables, switcher
<1>4. SwitcherOK'
  BY DEF RolledBack, Inv, SwitcherOK, switcher
<1>5. \A b \in reverted : Number[b] > HN(main)
  <2>1. HN(main) \in Int /\ forkPoint \in Int /\ \A b \in reverted : Number[b] \in Nat
    BY HeadNumberOf, TreeFacts DEF Inv, TypeOK
  <2> QED BY <1>2, <2>1 DEF Inv, SwitcherOK
<1>6. TestOK' /\ SwitchOK'
  BY <1>3, <1>5 DEF RolledBack, Inv, TestOK, SwitchOK, switcher
<1> QED BY <1>1, <1>3, <1>4, <1>6 DEF RolledBack, Inv, TablesDisjoint, tables

LEMMA RestoreInv ==
    ASSUME Inv, Restore
    PROVE  Inv' /\ (Accepted(Foot(reverted)) => Old' = Old)
<1>1. CASE ~Accepted(Foot(reverted))
  BY <1>1, FinishInv DEF Restore, Inv, TypeOK, TablesDisjoint, tables
<1>2. CASE Accepted(Foot(reverted))
  <2> DEFINE f == Foot(reverted)
  <2>1. Over(main, reverted)
    BY DEF Restore, Inv, TestOK, Over, Old
  <2>2. f \in reverted /\ f \in Blocks /\ Over(main \cup {f}, reverted \ {f})
    BY <2>1, FootIsAccepted DEF Restore, Inv, TypeOK
  <2>3. /\ main' = main \cup {f} /\ main' \in SUBSET Blocks /\ forks' \in SUBSET Blocks
        /\ TablesDisjoint' /\ Sound(main')
    BY <1>2, <2>2, AddStep DEF Restore, Inv
  <2>4. /\ reverted' = reverted \ {f} /\ forkPoint' = forkPoint /\ successful' = successful
        /\ suite' = suite /\ longest' = longest /\ suites' = suites
        /\ phase' = "restore" /\ phase = "restore"
    BY <1>2 DEF Restore
  <2>5. TypeOK'
    BY <1>2, <2>3, <2>4 DEF Restore, Inv, TypeOK, Phases, fifo, bounds
  <2>6. Low(main', forkPoint') = Low(main, forkPoint)
    <3>1. Number[f] > forkPoint /\ Number[f] \in Nat /\ forkPoint \in Int
      BY <2>2, TreeFacts DEF Inv, TypeOK, SwitcherOK
    <3> QED BY <2>3, <2>4, <3>1 DEF Low
  <2>7. Old' = Old
    BY <2>2, <2>3, <2>4 DEF Old
  <2>8. SwitcherOK'
    BY <2>4 DEF Inv, SwitcherOK
  <2>9. TestOK' /\ SwitchOK'
    BY <2>2, <2>3, <2>4, <2>6, <2>7 DEF Inv, TestOK, SwitchOK, Over
  <2> QED BY <2>3, <2>5, <2>7, <2>8, <2>9 DEF Inv
<1> QED BY <1>1, <1>2

\* The lowest block of a branch follows its fork point.
LEMMA FootFollowsForkPoint ==
    ASSUME NEW C \in SUBSET Blocks, NEW S \in SUBSET Blocks, S # {},
           NEW n \in Int, n >= -1, Sound(Low(C, n) \cup S), \A b \in S : Number[b] > n
    PROVE  Under(C, S) = Low(C, n)
<1> DEFINE f == Foot(S)
<1>1. f \in S /\ Number[f] \in Nat /\ Number[f] > n /\ \A b \in S : Number[f] <= Number[b]
  BY TopAndFoot, TreeFacts
<1>2. Number[f] = n + 1
  <2>1. CASE Number[f] = 0
    BY <2>1, <1>1
  <2>2. CASE Number[f] # 0
    <3>1. Previous[f] \in Low(C, n) \cup S
      BY <1>1, <2>2 DEF Sound, Choice!Sound
    <3>2. Previous[f] \in Blocks
      BY <3>1 DEF Low
    <3>3. Number[f] = Number[Previous[f]] + 1 /\ Number[Previous[f]] \in Nat
      BY <1>1, <3>2, TreeFacts
    <3>4. Previous[f] \notin S
      BY <1>1, <3>3
    <3>5. Number[Previous[f]] <= n
      BY <3>1, <3>4 DEF Low
    <3> QED BY <1>1, <3>3, <3>5
  <2> QED BY <2>1, <2>2
<1>3. \A b \in C : Number[b] < Number[f] <=> Number[b] <= n
  BY <1>2, TreeFacts
<1> QED BY <1>3 DEF Under, Low

LEMMA RestoredInv ==
    ASSUME Inv, Restored
    PROVE  Inv' /\ Old' = Old
<1>1. TypeOK'
  BY DEF Restored, Inv, TypeOK, Phases, tables, fifo, bounds
<1>2. Old = main /\ Old' = main /\ main' = main
  BY DEF Restored, Old, tables
<1>3. SwitcherOK'
  BY DEF Restored, Inv, SwitcherOK
<1>4. longest' # {} => Sound(Under(main, longest') \cup longest')
  <2>1. CASE longest' = longest
    BY <2>1, <1>2 DEF Restored, Inv, TestOK
  <2>2. CASE longest' = successful /\ successful # {}
    <3>1. Under(main, successful) = Low(main, forkPoint)
      BY <2>2, FootFollowsForkPoint DEF Restored, Inv, TypeOK, SwitcherOK, TestOK
    <3> QED BY <2>2, <3>1 DEF Restored, Inv, TestOK
  <2> QED BY <2>1, <2>2 DEF Restored, Higher
<1>5. TestOK' /\ SwitchOK'
  BY <1>2, <1>4 DEF Restored, Inv, TestOK, SwitchOK
<1> QED BY <1>1, <1>2, <1>3, <1>5 DEF Restored, Inv, TablesDisjoint, tables

LEMMA SwitchOnChainInv ==
    ASSUME Inv, SwitchOnChain
    PROVE  Inv'
<1>1. /\ suite' = longest /\ longest # {} /\ longest \in SUBSET Blocks
      /\ forkPoint' = Number[Foot(longest)] - 1
  BY DEF SwitchOnChain, IsBetter, Inv, TypeOK
<1>2. /\ Number[Foot(longest)] \in Nat
      /\ \A b \in longest : Number[b] \in Nat /\ Number[b] >= Number[Foot(longest)]
  BY <1>1, TopAndFoot, TreeFacts
<1>3. /\ forkPoint' \in Int /\ forkPoint' >= -1 /\ \A b \in suite' : Number[b] > forkPoint'
  BY <1>1, <1>2
<1>4. TypeOK'
  BY <1>1, <1>3 DEF SwitchOnChain, Inv, TypeOK, Phases, tables, fifo, bounds
<1>5. Old = main /\ Old' = main /\ main' = main
  BY DEF SwitchOnChain, Inv, SwitcherOK, Old, tables
<1>6. SwitcherOK'
  BY <1>3 DEF SwitchOnChain, Inv, SwitcherOK
<1>7. Low(main, forkPoint') = Under(main, longest)
  <2>1. \A b \in main : Number[b] \in Nat
    BY TreeFacts DEF Inv, TypeOK
  <2> QED BY <1>1, <1>2, <2>1 DEF Low, Under
<1>8. Sound(Low(main', forkPoint') \cup suite')
  BY <1>1, <1>5, <1>7 DEF SwitchOnChain, Inv, TestOK
<1>9. TestOK' /\ SwitchOK'
  BY <1>5, <1>8 DEF SwitchOnChain, Inv, TestOK, SwitchOK
<1> QED BY <1>4, <1>5, <1>6, <1>9 DEF SwitchOnChain, Inv, TablesDisjoint, tables

LEMMA SwitchPopInv ==
    ASSUME Inv, SwitchPop
    PROVE  Inv'
<1>0. phase = "switchPop" /\ reverted = {}
  BY DEF SwitchPop, Inv, SwitcherOK
<1>1. CASE HeadNumber > forkPoint
  <2>1. /\ main' \in SUBSET Blocks /\ forks' \in SUBSET Blocks
        /\ TablesDisjoint' /\ Sound(main')
        /\ Low(main', forkPoint') = Low(main, forkPoint)
    BY <1>1, RevertAbove DEF SwitchPop, switcher
  <2>2. TypeOK'
    BY <1>1, <2>1 DEF SwitchPop, Inv, TypeOK, Phases, fifo, switcher, bounds
  <2>3. Old' = main'
    BY <1>0, <1>1 DEF SwitchPop, Old, switcher
  <2>4. SwitcherOK'
    BY <1>1 DEF SwitchPop, Inv, SwitcherOK, switcher
  <2>5. TestOK' /\ SwitchOK'
    BY <1>0, <1>1, <2>1, <2>3 DEF SwitchPop, Inv, TestOK, SwitchOK, switcher
  <2> QED BY <2>1, <2>2, <2>4, <2>5 DEF Inv
<1>2. CASE ~(HeadNumber > forkPoint)
  <2>1. phase' = "switchAdd" /\ main' = main /\ forks' = forks /\ UNCHANGED switcher
    BY <1>2 DEF SwitchPop, tables
  <2>2. TypeOK'
    BY <2>1 DEF SwitchPop, Inv, TypeOK, Phases, fifo, switcher, bounds
  <2>3. HN(main) <= forkPoint /\ HN(main) \in Int /\ forkPoint \in Int
    BY <1>2, HeadNumberIsHN, HeadNumberOf DEF Inv, TypeOK
  <2>4. Low(main, forkPoint) = main
    BY <2>3, LowIsAll DEF Inv, TypeOK
  <2>5. Over(main, suite)
    <3>1. \A b \in suite : Number[b] \in Nat /\ Number[b] > forkPoint
      BY TreeFacts DEF Inv, TypeOK, SwitcherOK
    <3>2. Sound(main \cup suite)
      BY <1>0, <2>4 DEF Inv, SwitchOK
    <3> QED BY <2>3, <3>1, <3>2 DEF Over
  <2>6. Old' = main'
    BY <1>0, <2>1 DEF Old, switcher
  <2>7. SwitcherOK'
    BY <1>0, <2>1 DEF Inv, SwitcherOK, switcher
  <2>8. TestOK' /\ SwitchOK'
    BY <2>1, <2>5, <2>6 DEF Inv, TestOK, SwitchOK, switcher
  <2> QED BY <2>1, <2>2, <2>7, <2>8 DEF Inv, TablesDisjoint
<1> QED BY <1>1, <1>2

LEMMA SwitchAddInv ==
    ASSUME Inv, SwitchAdd
    PROVE  Inv'
<1>1. CASE suite = {} \/ ~Accepted(Foot(suite))
  <2>1. UNCHANGED tables /\ \E ok \in BOOLEAN : Finish(ok)
    BY <1>1 DEF SwitchAdd
  <2> QED BY <2>1, FinishInv DEF SwitchAdd, Inv, TypeOK, TablesDisjoint, tables
<1>2. CASE suite # {} /\ Accepted(Foot(suite))
  <2> DEFINE f == Foot(suite)
  <2>1. Over(main, suite) /\ phase = "switchAdd" /\ reverted = {} /\ successful = {}
    BY DEF SwitchAdd, Inv, SwitchOK, SwitcherOK
  <2>2. f \in suite /\ f \in Blocks /\ Over(main \cup {f}, suite \ {f})
    BY <1>2, <2>1, FootIsAccepted DEF Inv, TypeOK
  <2>3. /\ main' = main \cup {f} /\ main' \in SUBSET Blocks /\ forks' \in SUBSET Blocks
        /\ TablesDisjoint' /\ Sound(main')
    BY <1>2, <2>2, AddStep DEF SwitchAdd, Inv
  <2>4. /\ suite' = suite \ {f} /\ forkPoint' = forkPoint /\ successful' = successful
        /\ reverted' = reverted /\ longest' = longest /\ suites' = suites
        /\ phase' = phase
    BY <1>2 DEF SwitchAdd
  <2>5. TypeOK'
    BY <1>2, <2>3, <2>4 DEF SwitchAdd, Inv, TypeOK, Phases, fifo, bounds
  <2>6. Old' = main'
    BY <2>1, <2>4 DEF Old
  <2>7. SwitcherOK'
    BY <2>1, <2>4 DEF Inv, SwitcherOK
  <2>8. TestOK' /\ SwitchOK'
    BY <2>1, <2>2, <2>3, <2>4, <2>6 DEF Inv, TestOK, SwitchOK
  <2> QED BY <2>3, <2>5, <2>7, <2>8 DEF Inv
<1> QED BY <1>1, <1>2

-----------------------------------------------------------------------------
(***************************************************************************)
(* The theorems.                                                           *)
(***************************************************************************)
LEMMA NextInv == Inv /\ [Next]_vars => Inv'
<1> SUFFICES ASSUME Inv, [Next]_vars PROVE Inv'
  OBVIOUS
<1>1. CASE UNCHANGED vars
  <2>1. TypeOK'
    BY <1>1 DEF Inv, TypeOK, vars, tables, fifo, switcher, bounds
  <2> QED BY <1>1, <2>1, NothingTouched DEF vars
<1>2. ASSUME NEW b \in Blocks, Submit(b)
      PROVE  Inv'
  BY <1>2, PushInv, OpsFacts DEF Submit, Inv, TypeOK, bounds
<1>3. CASE PullResolution
  BY <1>3, PushInv, OpsFacts DEF PullResolution, Inv, TypeOK, bounds
<1>4. ASSUME NEW op \in {RevertOp, ApplyOp}, Command(op)
      PROVE  Inv'
  <2>1. commands' \in 0..MaxCommands
    BY <1>4, ConfAssumption DEF Command, Inv, TypeOK
  <2> QED BY <1>4, <2>1, PushInv, OpsFacts DEF Command
<1>5. CASE Begin
  BY <1>5, BeginInv
<1>6. CASE \E b \in Blocks, noResolution \in BOOLEAN : SubmitBlock(b, noResolution)
  BY <1>6, SubmitBlockInv
<1>7. CASE RevertCurrentBlock
  BY <1>7, RevertCurrentBlockInv
<1>8. CASE ApplyNextAvailableFork
  BY <1>8, ApplyNextAvailableForkInv
<1>9. CASE BlockResolution
  BY <1>9, BlockResolutionInv
<1>10. CASE NoBlockAccepted
  BY <1>10, NoBlockAcceptedInv
<1>11. CASE SwitcherStep
  <2>1. CASE Stay
    BY <2>1, FinishInv DEF Stay, Inv, TypeOK, TablesDisjoint, tables
  <2> QED
    BY <1>11, <2>1, TryToForkInv, PickSuiteInv, PopBlockInv, PoppedInv, TryBlockInv,
       EndOfTryInv, RollbackInv, RolledBackInv, RestoreInv, RestoredInv,
       SwitchOnChainInv, SwitchPopInv, SwitchAddInv DEF SwitcherStep
<1>12. CASE Restart
  BY <1>12, RestartInv
<1> QED
  BY <1>1, <1>2, <1>3, <1>4, <1>5, <1>6, <1>7, <1>8, <1>9, <1>10, <1>11, <1>12
     DEF Next, NodeStep

LEMMA SpecInv == Spec => []Inv
BY InitInv, NextInv, PTL DEF Spec

(***************************************************************************)
(* Every variable of BlockchainService and of its Switcher keeps its type.  *)
(***************************************************************************)
THEOREM TypeCorrect == Spec => []TypeOK
<1>1. Inv => TypeOK
  BY DEF Inv
<1> QED BY <1>1, SpecInv, PTL

(***************************************************************************)
(* In the middle of any operation, test of a fork or switch, and after a    *)
(* restart, the main table is a chain of valid blocks down to the root.     *)
(***************************************************************************)
THEOREM MainStaysSound == Spec => []MainIsSound
<1>1. Inv => MainIsSound
  BY DEF Inv, MainIsSound, Sound
<1> QED BY <1>1, SpecInv, PTL

(***************************************************************************)
(* No block is ever in the main table and in the forks at once.             *)
(***************************************************************************)
THEOREM TablesStayDisjoint == Spec => []TablesDisjoint
<1>1. Inv => TablesDisjoint
  BY DEF Inv
<1> QED BY <1>1, SpecInv, PTL

(***************************************************************************)
(* The Switcher is never refused a block it puts back after a test, nor one *)
(* of the chain it switches on: it does not stop at the fork point.         *)
(***************************************************************************)
THEOREM SwitcherNeverStuck == Spec => []NeverHalfway
<1>1. Inv => NeverHalfway
  <2> SUFFICES ASSUME Inv PROVE NeverHalfway
    OBVIOUS
  <2>1. ASSUME NEW S \in SUBSET Blocks, S # {}, Over(main, S)
        PROVE  Accepted(Foot(S))
    BY <2>1, FootIsAccepted DEF Inv, TypeOK, Accepted, Follows
  <2>2. phase = "restore" => Over(main, reverted)
    BY DEF Inv, TestOK, Over, Old
  <2>3. phase = "switchAdd" => Over(main, suite)
    BY DEF Inv, SwitchOK
  <2> QED BY <2>1, <2>2, <2>3 DEF NeverHalfway, Inv, TypeOK
<1> QED BY <1>1, SpecInv, PTL

-----------------------------------------------------------------------------
LEMMA AddForgetsNothing ==
    ASSUME Inv, NEW b \in Blocks, Accepted(b), AddBlock(b)
    PROVE  main \cup forks \subseteq main' \cup forks'
BY AddStep DEF Inv

LEMMA RevertForgetsNothing ==
    ASSUME RevertBlock
    PROVE  main \cup forks \subseteq main' \cup forks'
BY DEF RevertBlock

LEMMA NextForgetsNothing ==
    ASSUME Inv, Inv', [Next]_vars
    PROVE  main \cup forks \subseteq main' \cup forks'
<1>1. CASE UNCHANGED tables
  BY <1>1 DEF tables
<1>2. CASE \E b \in Blocks, noResolution \in BOOLEAN : SubmitBlock(b, noResolution)
  BY <1>2 DEF SubmitBlock
<1>3. CASE RevertBlock
  BY <1>3, RevertForgetsNothing
<1>4. CASE \E b \in Blocks : Accepted(b) /\ AddBlock(b)
  BY <1>4, AddForgetsNothing
<1>5. CASE ApplyNextAvailableFork
  <2>1. CASE UNCHANGED tables
    BY <1>1, <2>1
  <2>2. CASE ~UNCHANGED tables
    <3> DEFINE b == CHOOSE c \in Potentials : \A d \in Potentials : c <= d
    <3>1. Accepted(b) /\ AddBlock(b)
      BY <1>5, <2>2 DEF ApplyNextAvailableFork
    <3>2. b \in Valid /\ b \in Blocks
      BY <3>1, TreeFacts DEF Accepted
    <3> HIDE DEF b
    <3> QED BY <1>4, <3>1, <3>2
  <2> QED BY <2>1, <2>2
<1>6. CASE SwitcherStep
  <2>1. ASSUME Accepted(Foot(reverted)), AddBlock(Foot(reverted))
        PROVE  \E b \in Blocks : Accepted(b) /\ AddBlock(b)
    BY <2>1, TreeFacts DEF Accepted
  <2>2. ASSUME Accepted(Foot(suite)), AddBlock(Foot(suite))
        PROVE  \E b \in Blocks : Accepted(b) /\ AddBlock(b)
    BY <2>2, TreeFacts DEF Accepted
  <2>3. \/ UNCHANGED tables \/ RevertBlock
        \/ \E b \in Blocks : Accepted(b) /\ AddBlock(b)
    BY <1>6, <2>1, <2>2
       DEF SwitcherStep, TryToFork, PickSuite, PopBlock, Popped, TryBlock, EndOfTry, Rollback,
           RolledBack, Restore, Restored, Stay, SwitchOnChain, SwitchPop, SwitchAdd
  <2> QED BY <1>1, <1>3, <1>4, <2>3
<1>7. CASE BlockResolution
  <2>1. \E b \in Blocks : Accepted(b) /\ AddBlock(b)
    BY <1>7 DEF BlockResolution, Potentials, Inv, TypeOK
  <2> QED BY <1>4, <2>1
<1>8. CASE RevertCurrentBlock
  BY <1>1, <1>3, <1>8 DEF RevertCurrentBlock
<1>9. CASE UNCHANGED vars
  BY <1>1, <1>9 DEF vars
<1>10. CASE \/ (\E b \in Blocks : Submit(b)) \/ PullResolution
            \/ (\E op \in {RevertOp, ApplyOp} : Command(op))
            \/ Begin \/ NoBlockAccepted \/ Restart
  BY <1>1, <1>10 DEF Submit, PullResolution, Command, Begin, NoBlockAccepted, Restart
<1> QED
  BY <1>2, <1>5, <1>6, <1>7, <1>8, <1>9, <1>10 DEF Next, NodeStep

(***************************************************************************)
(* A block that was kept stays in one of the two tables, whatever is tested, *)
(* switched on or reverted: a branch that was left can be followed again.   *)
(***************************************************************************)
THEOREM NoBlockForgotten == Spec => NothingForgotten
<1>1. Inv /\ Inv' /\ [Next]_vars => [main \cup forks \subseteq (main \cup forks)']_vars
  BY NextForgetsNothing
<1> QED BY <1>1, SpecInv, PTL DEF Spec, NothingForgotten

-----------------------------------------------------------------------------
(***************************************************************************)
(* The chain of a block is determined by the block.                        *)
(***************************************************************************)
LEMMA ChainIsUnique ==
    ASSUME NEW h \in Blocks, NEW C \in SUBSET Blocks, NEW D \in SUBSET Blocks,
           IsChain(C, h), IsChain(D, h)
    PROVE  C \subseteq D
<1> SUFFICES ASSUME C \ D # {} PROVE FALSE
  OBVIOUS
<1> DEFINE t == Top(C \ D)
<1>1. t \in C \ D /\ \A b \in C \ D : Number[b] <= Number[t]
  BY TopAndFoot
<1>2. t # h
  BY <1>1 DEF IsChain
<1>3. PICK c \in C : Previous[c] = t
  BY <1>1, <1>2 DEF IsChain
<1>4. Number[c] = Number[t] + 1 /\ Number[t] \in Nat
  BY <1>1, <1>3, TreeFacts
<1>5. c \in D
  BY <1>1, <1>4
<1>6. Previous[c] \in D
  BY <1>4, <1>5 DEF IsChain
<1> QED BY <1>1, <1>3, <1>6

\* A sound chain is the chain of its head.
LEMMA SoundIsChain ==
    ASSUME NEW C \in SUBSET Blocks, C # {}, Sound(C)
    PROVE  IsChain(C, Top(C)) /\ Top(C) \in C
<1> DEFINE t == Top(C)
<1>1. t \in C /\ \A b \in C : Number[b] <= Number[t]
  BY TopAndFoot
<1>2. ASSUME NEW b \in C, b # t
      PROVE  \E c \in C : Previous[c] = b
  <2> DEFINE H == {c \in C : Number[c] > Number[b]}
             f == Foot(H)
  <2>1. Number[b] \in Nat /\ Number[t] \in Nat /\ Number[b] # Number[t]
    BY <1>1, <1>2, TreeFacts DEF Sound, Choice!Sound
  <2>2. t \in H /\ H \in SUBSET Blocks
    BY <1>1, <2>1
  <2>3. f \in H /\ \A c \in H : Number[f] <= Number[c]
    BY <2>2, TopAndFoot
  <2>4. Number[f] \in Nat /\ Number[f] > Number[b] /\ f \in C
    BY <2>3, TreeFacts
  <2> HIDE DEF f
  <2>5. Previous[f] \in C /\ Previous[f] \in Blocks
    BY <2>1, <2>4 DEF Sound, Choice!Sound
  <2>6. Number[f] = Number[Previous[f]] + 1 /\ Number[Previous[f]] \in Nat
    BY <2>4, <2>5, TreeFacts
  <2>7. Previous[f] \notin H
    BY <2>3, <2>6
  <2>8. Number[Previous[f]] = Number[b]
    BY <2>1, <2>4, <2>5, <2>6, <2>7
  <2>9. Previous[f] = b
    BY <2>5, <2>8 DEF Sound, Choice!Sound
  <2> QED BY <2>4, <2>9
<1> QED BY <1>1, <1>2 DEF IsChain, Sound, Choice!Sound

\* The head of the chain of a block is this block.
LEMMA TopOfChain ==
    ASSUME NEW C \in SUBSET Blocks, Sound(C), NEW h, IsChain(C, h)
    PROVE  Top(C) = h /\ C # {}
<1>1. h \in C /\ \A b \in C : Number[b] <= Number[h]
  BY DEF IsChain
<1>2. Top(C) \in C /\ Number[h] <= Number[Top(C)]
  BY <1>1, TopAndFoot
<1>3. Number[h] \in Nat /\ Number[Top(C)] \in Nat /\ Number[Top(C)] <= Number[h]
  BY <1>1, <1>2, TreeFacts
<1> QED BY <1>1, <1>2, <1>3 DEF Sound, Choice!Sound

\* The kept blocks determine the chain of one of them.
LEMMA ChainOfKept ==
    ASSUME NEW K \in SUBSET Blocks, NEW h \in Blocks, NEW C \in SUBSET K, IsChain(C, h)
    PROVE  (CHOOSE D \in SUBSET K : IsChain(D, h)) = C
<1> DEFINE E == CHOOSE D \in SUBSET K : IsChain(D, h)
<1>1. E \in SUBSET K /\ IsChain(E, h)
  OBVIOUS
<1> HIDE DEF E
<1>2. E \subseteq C /\ C \subseteq E
  BY <1>1, ChainIsUnique
<1> QED BY <1>2 DEF E

-----------------------------------------------------------------------------
(***************************************************************************)
(* The FIFO under the node: every step of the node is a step of the FIFO,   *)
(* or leaves it alone, so that the id of the running operation is in the     *)
(* table.                                                                  *)
(***************************************************************************)
FifoProofs == INSTANCE GlobalFifo_proofs WITH closing <- "open"

RunningIsRegistered == running # NoOp => running \in operations

FifoAgrees == FifoProofs!FifoInv

LEMMA FifoInit == Init => FifoAgrees
<1> SUFFICES ASSUME Init PROVE FifoAgrees
  OBVIOUS
<1>1. FifoProofs!FifoInit
  BY DEF Init, FifoProofs!FifoInit
<1> QED BY <1>1, OpsFacts, FifoProofs!FifoInvInit DEF FifoAgrees

LEMMA FifoStep ==
    ASSUME Inv, [Next]_vars
    PROVE  [FifoProofs!FifoNext]_(FifoProofs!fifoVars)
<1> DEFINE F == [FifoProofs!FifoNext]_(FifoProofs!fifoVars)
<1>1. ASSUME NEW op \in Ops, Fifo!Push(op)
      PROVE  F
  BY <1>1 DEF Fifo!Push, Fifo!Refused, FifoProofs!FifoNext, FifoProofs!Push, FifoProofs!Refused
<1>2. ASSUME NEW op \in Ops, Fifo!SettleAndPush(op)
      PROVE  F
  BY <1>2 DEF Fifo!SettleAndPush, Fifo!Refused, Fifo!ClosingAfter, FifoProofs!FifoNext,
              FifoProofs!SettleAndPush, FifoProofs!Refused, FifoProofs!ClosingAfter
<1>3. ASSUME NEW ok \in BOOLEAN, Fifo!Settle(ok)
      PROVE  F
  BY <1>3 DEF Fifo!Settle, Fifo!ClosingAfter, FifoProofs!FifoNext, FifoProofs!Settle,
              FifoProofs!ClosingAfter
<1>4. CASE UNCHANGED fifo
  BY <1>4 DEF fifo, FifoProofs!fifoVars
<1>5. ASSUME NEW ok \in BOOLEAN, Finish(ok)
      PROVE  F
  BY <1>3, <1>4, <1>5 DEF Finish
<1>6. CASE Begin
  BY <1>6 DEF Begin, Fifo!Start, FifoProofs!FifoNext, FifoProofs!Start
<1>7. CASE Restart
  BY <1>7 DEF Restart, Fifo!Reset, FifoProofs!FifoNext, FifoProofs!Reset
<1>8. CASE \E b \in Blocks, noResolution \in BOOLEAN : SubmitBlock(b, noResolution)
  BY <1>2, <1>3, <1>8, OpsFacts DEF SubmitBlock
<1>9. CASE \/ (\E b \in Blocks : Submit(b)) \/ PullResolution
           \/ (\E op \in {RevertOp, ApplyOp} : Command(op))
  BY <1>1, <1>9, OpsFacts DEF Submit, PullResolution, Command
<1>10. CASE RevertCurrentBlock
  BY <1>5, <1>10 DEF RevertCurrentBlock
<1>11. CASE ApplyNextAvailableFork
  <2>1. \E ok \in BOOLEAN : Finish(ok)
    BY <1>11 DEF ApplyNextAvailableFork
  <2> QED BY <1>5, <2>1
<1>12. CASE BlockResolution \/ NoBlockAccepted \/ UNCHANGED vars
  BY <1>4, <1>12 DEF BlockResolution, NoBlockAccepted, vars
<1>13. CASE SwitcherStep
  <2>1. UNCHANGED fifo \/ \E ok \in BOOLEAN : Finish(ok)
    BY <1>13
       DEF SwitcherStep, TryToFork, PickSuite, PopBlock, Popped, TryBlock, EndOfTry, Rollback,
           RolledBack, Restore, Restored, Stay, SwitchOnChain, SwitchPop, SwitchAdd
  <2> QED BY <1>4, <1>5, <2>1
<1> QED
  BY <1>6, <1>7, <1>8, <1>9, <1>10, <1>11, <1>12, <1>13 DEF Next, NodeStep

LEMMA FifoNext == FifoAgrees /\ Inv /\ [Next]_vars => FifoAgrees'
BY FifoStep, OpsFacts, FifoProofs!FifoInvStep DEF FifoAgrees

LEMMA Registered == FifoAgrees => RunningIsRegistered
BY DEF FifoAgrees, FifoProofs!FifoInv, FifoProofs!TableMatchesQueue, RunningIsRegistered

-----------------------------------------------------------------------------
(***************************************************************************)
(* The strengthening.  While forks are tested, the chain the node stands on *)
(* is kept, in two tables; what is tried or switched on is above the last     *)
(* final block, and so is what is reverted.                                *)
(***************************************************************************)
LastFinal == Number[current] + SwitchOnHeadAdvance - ForkSize

Above(S) == \A b \in S : Number[b] > LastFinal

Switching == {"switchPop", "switchAdd"}

Stands ==
    /\ current = NoBlock <=> phase \in Quiet
    /\ current # NoBlock =>
        /\ Chain \subseteq main \cup forks /\ Sound(Chain) /\ IsChain(Chain, current)
        /\ phase \notin Switching => Chain = Old
        /\ \A b \in Chain : Number[b] <= LastFinal => b \in main
        /\ \A S \in suites : Above(S)
        /\ Above(suite) /\ Above(successful) /\ Above(longest)
        /\ phase \in {"pop", "try", "rollback", "switchPop"} => forkPoint >= LastFinal
        /\ phase = "switchPop" => suite = longest /\ IsBetter
        /\ phase = "switchAdd" => main \cup suite # {} /\ FarEnough(Top(main \cup suite), current)

LEMMA NumbersOK ==
    ASSUME Inv, current # NoBlock
    PROVE  /\ current \in Blocks /\ Number[current] \in Nat
           /\ LastFinal \in Int /\ forkPoint \in Int
           /\ SwitchOnHeadAdvance \in Nat /\ ForkSize \in Nat
           /\ \A b \in Blocks : Number[b] \in Nat
BY TreeFacts, ConfAssumption DEF Inv, TypeOK, LastFinal

\* The Switcher goes on: the chain is the same, whatever the tables hold.
LEMMA ChainIsKept ==
    ASSUME Inv, Inv', Stands, current # NoBlock, current' = current,
           main \cup forks \subseteq main' \cup forks'
    PROVE  /\ Chain' = Chain
           /\ Chain' \subseteq main' \cup forks' /\ Sound(Chain') /\ IsChain(Chain', current')
<1> DEFINE K == main' \cup forks'
<1>1. K \in SUBSET Blocks /\ current \in Blocks
  BY DEF Inv, TypeOK
<1>2. Chain \in SUBSET K /\ IsChain(Chain, current) /\ Sound(Chain)
  BY DEF Stands
<1>3. (CHOOSE D \in SUBSET K : IsChain(D, current)) = Chain
  BY <1>1, <1>2, ChainOfKept
<1>4. Chain' = CHOOSE D \in SUBSET K : IsChain(D, current)
  BY DEF Chain, ChainOf
<1> QED BY <1>2, <1>3, <1>4

\* A step inside a test or a switch.
LEMMA StandsKept ==
    ASSUME Inv, Inv', Stands, current # NoBlock, current' = current, phase' \notin Quiet,
           main \cup forks \subseteq main' \cup forks',
           phase' \notin Switching => phase \notin Switching /\ Old' = Old,
           \A b \in main : Number[b] <= LastFinal => b \in main',
           \A S \in suites' : Above(S),
           Above(suite'), Above(successful'), Above(longest'),
           phase' \in {"pop", "try", "rollback", "switchPop"} => forkPoint' >= LastFinal,
           phase' = "switchPop" => suite' = longest' /\ IsBetter',
           phase' = "switchAdd"
             => main' \cup suite' # {} /\ FarEnough(Top(main' \cup suite'), current)
    PROVE  Stands' /\ Chain' = Chain
<1>1. /\ Chain' = Chain
      /\ Chain' \subseteq main' \cup forks' /\ Sound(Chain') /\ IsChain(Chain', current')
  BY ChainIsKept
<1>2. LastFinal' = LastFinal
  BY DEF LastFinal
<1>3. /\ \A S \in suites' : Above(S)'
      /\ Above(suite)' /\ Above(successful)' /\ Above(longest)'
  BY <1>2 DEF Above
<1>4. phase' \notin Switching => Chain' = Old'
  BY <1>1 DEF Stands
<1>5. \A b \in Chain' : Number[b] <= LastFinal' => b \in main'
  BY <1>1, <1>2 DEF Stands
<1> QED BY <1>1, <1>2, <1>3, <1>4, <1>5 DEF Stands

\* Outside the tests the chain is the main table.
LEMMA StandsQuiet ==
    ASSUME current' = NoBlock, phase' \in Quiet
    PROVE  Stands' /\ Chain' = main'
BY DEF Stands, Chain

LEMMA FinishQuiet ==
    ASSUME NEW ok, Finish(ok)
    PROVE  Stands' /\ Chain' = main'
BY StandsQuiet DEF Finish, SwitcherReset, Quiet

-----------------------------------------------------------------------------
(***************************************************************************)
(* The steps of the Switcher.                                              *)
(***************************************************************************)
Kept == main \cup forks \subseteq main' \cup forks'

LEMMA TestBegins ==
    ASSUME Inv, Inv', Stands, TryToFork
    PROVE  Stands' /\ Chain = main /\ Chain' = main'
<1>1. current = NoBlock /\ Chain = main
  BY DEF TryToFork, Stands, Quiet, Chain
<1>2. CASE main = {}
  BY <1>1, <1>2, FinishQuiet DEF TryToFork
<1>3. CASE main # {}
  <2>1. /\ current' = Top(main) /\ phase' = "pick" /\ main' = main /\ forks' = forks
        /\ suites' = PotentialSuites(Top(main)) /\ reverted' = {}
        /\ suite' = {} /\ successful' = {} /\ longest' = {}
    BY <1>3 DEF TryToFork, tables, Inv, SwitcherOK
  <2>2. main \in SUBSET Blocks /\ forks \in SUBSET Blocks /\ Sound(main)
    BY DEF Inv, TypeOK
  <2>3. IsChain(main, Top(main)) /\ Top(main) \in Blocks
    BY <1>3, <2>2, SoundIsChain
  <2>4. Chain' = main
    <3>1. (CHOOSE D \in SUBSET (main \cup forks) : IsChain(D, Top(main))) = main
      BY <2>2, <2>3, ChainOfKept
    <3>2. Top(main) # NoBlock
      BY <2>3, TreeFacts
    <3> QED BY <2>1, <3>1, <3>2 DEF Chain, ChainOf
  <2>5. Old' = main
    BY <2>1 DEF Old
  <2>6. ASSUME NEW S \in suites', NEW b \in S
        PROVE  Number[b] > LastFinal'
    <3>1. PICK h \in Candidates(Top(main)) : IsSuite(S, h)
      BY <2>1 DEF PotentialSuites
    <3>2. /\ h \in Blocks /\ b \in Blocks
          /\ Number[h] >= Number[Top(main)] + SwitchOnHeadAdvance
      BY <2>2, <2>1, <3>1 DEF Candidates, FarEnough, NumberStart, PotentialSuites
    <3>3. Number[b] >= Number[h] - ForkSize + 1
      BY <3>1, <3>2, TreeFacts, ConfAssumption DEF IsSuite
    <3>4. /\ Number[h] \in Nat /\ Number[b] \in Nat /\ Number[Top(main)] \in Nat
          /\ SwitchOnHeadAdvance \in Nat /\ ForkSize \in Nat
      BY <2>3, <3>2, TreeFacts, ConfAssumption
    <3> QED BY <2>1, <3>2, <3>3, <3>4 DEF LastFinal
  <2>7. current' # NoBlock
    BY <2>1, <2>3, TreeFacts
  <2>8. \A S \in suites' : Above(S)'
    BY <2>6 DEF Above
  <2>9. Above(suite)' /\ Above(successful)' /\ Above(longest)'
    BY <2>1 DEF Above
  <2>10. Stands'
    BY <2>1, <2>2, <2>3, <2>4, <2>5, <2>7, <2>8, <2>9 DEF Stands, Quiet, Switching
  <2> QED BY <1>1, <2>1, <2>4, <2>10
<1> QED BY <1>2, <1>3

\* The lowest block of blocks above the last final one makes a fork point that is not under it.
LEMMA ForkPointOfSuite ==
    ASSUME Inv, current # NoBlock, NEW S \in SUBSET Blocks, S # {}, Above(S)
    PROVE  Number[Foot(S)] - 1 >= LastFinal
<1>1. Foot(S) \in S /\ Foot(S) \in Blocks
  BY TopAndFoot
<1>2. Number[Foot(S)] > LastFinal
  BY <1>1 DEF Above
<1> QED BY <1>1, <1>2, NumbersOK

LEMMA PickSuiteStands ==
    ASSUME Inv, Inv', Stands, Kept, PickSuite
    PROVE  Stands' /\ Chain' = Chain
<1>0. phase = "pick" /\ phase' = "pop" /\ current # NoBlock
  BY DEF PickSuite, Stands, Quiet
<1>1. PICK S \in suites : /\ suites' = suites \ {S}
                          /\ suite' = S
                          /\ forkPoint' = Number[Foot(S)] - 1
  <2>1. \E s \in suites : \A t \in suites : Before(s, t)
    BY BestSuite DEF PickSuite, Inv, TypeOK, SwitcherOK
  <2> QED BY <2>1 DEF PickSuite
<1>2. S \in SUBSET Blocks /\ S # {} /\ Above(S)
  BY <1>0 DEF Inv, TypeOK, SwitcherOK, Stands
<1>3. forkPoint' >= LastFinal
  BY <1>0, <1>1, <1>2, ForkPointOfSuite
<1>4. Old' = Old
  BY PickSuiteInv
<1>5. /\ current' = current /\ main' = main /\ successful' = successful /\ longest' = longest
  BY DEF PickSuite, tables
<1>6. /\ \A T \in suites' : Above(T)
      /\ Above(suite') /\ Above(successful') /\ Above(longest')
  BY <1>0, <1>1, <1>2, <1>5 DEF Stands
<1> QED BY <1>0, <1>3, <1>4, <1>5, <1>6, StandsKept DEF Kept, Quiet, Switching

\* A head above the fork point is reverted: the final blocks stay.
LEMMA RevertKeepsFinal ==
    ASSUME Inv, current # NoBlock, RevertBlock, UNCHANGED forkPoint, HeadNumber > forkPoint,
           forkPoint >= LastFinal
    PROVE  \A b \in main : Number[b] <= LastFinal => b \in main'
<1>1. Low(main', forkPoint) = Low(main, forkPoint)
  BY RevertAbove
<1>2. \A b \in main : Number[b] \in Nat
  BY TreeFacts DEF Inv, TypeOK
<1> QED BY <1>1, <1>2, NumbersOK DEF Low

LEMMA PopBlockStands ==
    ASSUME Inv, Inv', Stands, Kept, PopBlock
    PROVE  Stands' /\ Chain' = Chain
<1>0. phase = "pop" /\ phase' = "pop" /\ current # NoBlock
  BY DEF PopBlock, Stands, Quiet
<1>1. /\ current' = current /\ suites' = suites /\ suite' = suite /\ forkPoint' = forkPoint
      /\ successful' = successful /\ longest' = longest
  BY DEF PopBlock
<1>2. forkPoint >= LastFinal
  BY <1>0 DEF Stands
<1>3. \A b \in main : Number[b] <= LastFinal => b \in main'
  BY <1>0, <1>2, RevertKeepsFinal DEF PopBlock
<1>4. Old' = Old
  BY PopBlockInv
<1>5. /\ \A T \in suites' : Above(T)
      /\ Above(suite') /\ Above(successful') /\ Above(longest')
  BY <1>0, <1>1 DEF Stands
<1> QED BY <1>0, <1>1, <1>2, <1>3, <1>4, <1>5, StandsKept DEF Kept, Quiet, Switching

LEMMA PoppedStands ==
    ASSUME Inv, Inv', Stands, Kept, Popped
    PROVE  Stands' /\ Chain' = Chain
<1>0. phase = "pop" /\ phase' = "try" /\ current # NoBlock
  BY DEF Popped, Stands, Quiet
<1>1. /\ current' = current /\ suites' = suites /\ suite' = suite /\ forkPoint' = forkPoint
      /\ successful' = successful /\ longest' = longest /\ main' = main
  BY DEF Popped, switcher, tables
<1>2. forkPoint >= LastFinal
  BY <1>0 DEF Stands
<1>4. Old' = Old
  BY PoppedInv
<1>5. /\ \A T \in suites' : Above(T)
      /\ Above(suite') /\ Above(successful') /\ Above(longest')
  BY <1>0, <1>1 DEF Stands
<1> QED BY <1>0, <1>1, <1>2, <1>4, <1>5, StandsKept DEF Kept, Quiet, Switching

LEMMA TryBlockStands ==
    ASSUME Inv, Inv', Stands, Kept, TryBlock
    PROVE  Stands' /\ Chain' = Chain
<1>0. phase = "try" /\ phase' = "try" /\ current # NoBlock
  BY DEF TryBlock, Stands, Quiet
<1>1. /\ current' = current /\ suites' = suites /\ forkPoint' = forkPoint /\ longest' = longest
      /\ successful' = successful \cup {Foot(suite)} /\ suite' = suite \ {Foot(suite)}
  BY DEF TryBlock
<1>2. forkPoint >= LastFinal
  BY <1>0 DEF Stands
<1>3. Foot(suite) \in suite /\ Foot(suite) \in Blocks
  BY TopAndFoot DEF TryBlock, Inv, TypeOK
<1>4. main' = main \cup {Foot(suite)}
  BY <1>3, AddStep DEF TryBlock, Inv
<1>5. Old' = Old
  BY TryBlockInv
<1>6. /\ \A T \in suites' : Above(T)
      /\ Above(suite') /\ Above(successful') /\ Above(longest')
  BY <1>0, <1>1, <1>3 DEF Stands, Above
<1> QED BY <1>0, <1>1, <1>2, <1>4, <1>5, <1>6, StandsKept DEF Kept, Quiet, Switching

LEMMA EndOfTryStands ==
    ASSUME Inv, Inv', Stands, Kept, EndOfTry
    PROVE  Stands' /\ Chain' = Chain
<1>0. phase = "try" /\ phase' = "rollback" /\ current # NoBlock
  BY DEF EndOfTry, Stands, Quiet
<1>1. /\ current' = current /\ suites' = suites /\ suite' = {} /\ forkPoint' = forkPoint
      /\ successful' = successful /\ longest' = longest /\ main' = main
  BY DEF EndOfTry, tables
<1>2. forkPoint >= LastFinal
  BY <1>0 DEF Stands
<1>4. Old' = Old
  BY EndOfTryInv
<1>5. /\ \A T \in suites' : Above(T)
      /\ Above(suite') /\ Above(successful') /\ Above(longest')
  BY <1>0, <1>1 DEF Stands, Above
<1> QED BY <1>0, <1>1, <1>2, <1>4, <1>5, StandsKept DEF Kept, Quiet, Switching

LEMMA RollbackStands ==
    ASSUME Inv, Inv', Stands, Kept, Rollback
    PROVE  Stands' /\ Chain' = Chain
<1>0. phase = "rollback" /\ phase' = "rollback" /\ current # NoBlock
  BY DEF Rollback, Stands, Quiet
<1>1. /\ current' = current /\ suites' = suites /\ suite' = suite /\ forkPoint' = forkPoint
      /\ successful' = successful /\ longest' = longest
  BY DEF Rollback, switcher
<1>2. forkPoint >= LastFinal
  BY <1>0 DEF Stands
<1>3. \A b \in main : Number[b] <= LastFinal => b \in main'
  BY <1>0, <1>1, <1>2, RevertKeepsFinal DEF Rollback
<1>4. Old' = Old
  BY RollbackInv
<1>5. /\ \A T \in suites' : Above(T)
      /\ Above(suite') /\ Above(successful') /\ Above(longest')
  BY <1>0, <1>1 DEF Stands
<1> QED BY <1>0, <1>1, <1>2, <1>3, <1>4, <1>5, StandsKept DEF Kept, Quiet, Switching

LEMMA RolledBackStands ==
    ASSUME Inv, Inv', Stands, Kept, RolledBack
    PROVE  Stands' /\ Chain' = Chain
<1>0. phase = "rollback" /\ phase' = "restore" /\ current # NoBlock
  BY DEF RolledBack, Stands, Quiet
<1>1. /\ current' = current /\ suites' = suites /\ suite' = suite
      /\ successful' = successful /\ longest' = longest /\ main' = main
  BY DEF RolledBack, switcher, tables
<1>4. Old' = Old
  BY RolledBackInv
<1>5. /\ \A T \in suites' : Above(T)
      /\ Above(suite') /\ Above(successful') /\ Above(longest')
  BY <1>0, <1>1 DEF Stands
<1> QED BY <1>0, <1>1, <1>4, <1>5, StandsKept DEF Kept, Quiet, Switching

\* By SwitcherNeverStuck the restored blocks are accepted.
LEMMA RestoreStands ==
    ASSUME Inv, Inv', Stands, Kept, Restore
    PROVE  Stands' /\ Chain' = Chain
<1>0. phase = "restore" /\ current # NoBlock /\ reverted # {}
  BY DEF Restore, Stands, Quiet
<1>1. Over(main, reverted)
  BY <1>0 DEF Inv, TestOK, Over, Old
<1>2. Foot(reverted) \in Blocks /\ Accepted(Foot(reverted))
  BY <1>0, <1>1, FootIsAccepted DEF Inv, TypeOK, Accepted, Follows
<1>3. /\ current' = current /\ suites' = suites /\ suite' = suite /\ phase' = phase
      /\ successful' = successful /\ longest' = longest
  BY <1>2 DEF Restore
<1>4. main' = main \cup {Foot(reverted)}
  BY <1>2, AddStep DEF Restore, Inv
<1>5. Old' = Old
  BY <1>2, RestoreInv
<1>6. /\ \A T \in suites' : Above(T)
      /\ Above(suite') /\ Above(successful') /\ Above(longest')
  BY <1>0, <1>3 DEF Stands
<1> QED BY <1>0, <1>3, <1>4, <1>5, <1>6, StandsKept DEF Kept, Quiet, Switching

LEMMA RestoredStands ==
    ASSUME Inv, Inv', Stands, Kept, Restored
    PROVE  Stands' /\ Chain' = Chain
<1>0. phase = "restore" /\ phase' = "pick" /\ current # NoBlock
  BY DEF Restored, Stands, Quiet
<1>1. /\ current' = current /\ suites' = suites /\ suite' = suite /\ successful' = {}
      /\ longest' \in {successful, longest} /\ main' = main
  BY DEF Restored, tables
<1>2. Old' = Old
  BY RestoredInv
<1>3. /\ \A T \in suites' : Above(T)
      /\ Above(suite') /\ Above(successful') /\ Above(longest')
  BY <1>0, <1>1 DEF Stands, Above
<1> QED BY <1>0, <1>1, <1>2, <1>3, StandsKept DEF Kept, Quiet, Switching

LEMMA SwitchOnChainStands ==
    ASSUME Inv, Inv', Stands, Kept, SwitchOnChain
    PROVE  Stands' /\ Chain' = Chain
<1>0. phase = "pick" /\ phase' = "switchPop" /\ current # NoBlock
  BY DEF SwitchOnChain, Stands, Quiet
<1>1. /\ current' = current /\ suites' = suites /\ suite' = longest /\ longest' = longest
      /\ successful' = successful /\ main' = main /\ longest # {}
      /\ forkPoint' = Number[Foot(longest)] - 1
  BY DEF SwitchOnChain, tables, IsBetter
<1>2. IsBetter'
  BY <1>1 DEF SwitchOnChain, IsBetter
<1>3. Above(longest) /\ longest \in SUBSET Blocks
  BY <1>0 DEF Stands, Inv, TypeOK
<1>4. forkPoint' >= LastFinal
  BY <1>0, <1>1, <1>3, ForkPointOfSuite
<1>5. /\ \A T \in suites' : Above(T)
      /\ Above(suite') /\ Above(successful') /\ Above(longest')
  BY <1>0, <1>1 DEF Stands
<1> QED BY <1>0, <1>1, <1>2, <1>4, <1>5, StandsKept DEF Kept, Quiet, Switching

\* The blocks of the best fork end the chain that the switch makes.
LEMMA SwitchedHead ==
    ASSUME NEW C \in SUBSET Blocks, NEW S \in SUBSET Blocks, S # {}, Over(C, S)
    PROVE  Top(C \cup S) = Top(S)
<1>1. /\ C \cup S \in SUBSET Blocks /\ C \cup S # {}
      /\ Top(S) \in S /\ \A b \in S : Number[b] <= Number[Top(S)]
  BY TopAndFoot
<1>2. /\ Top(C \cup S) \in C \cup S
      /\ \A b \in C \cup S : Number[b] <= Number[Top(C \cup S)]
  BY <1>1, TopAndFoot
<1>3. \A b \in C : Number[b] <= HN(C)
  BY HeadNumberOf
<1>4. \A b \in S : Number[b] > HN(C)
  BY DEF Over
<1>5. HN(C) \in Int /\ \A b \in C \cup S : Number[b] \in Nat
  BY <1>1, HeadNumberOf, TreeFacts
<1>6. Number[Top(C \cup S)] <= Number[Top(S)]
  BY <1>1, <1>2, <1>3, <1>4, <1>5
<1>7. Number[Top(C \cup S)] = Number[Top(S)]
  BY <1>1, <1>2, <1>5, <1>6
<1> QED BY <1>1, <1>2, <1>7 DEF Over, Sound, Choice!Sound

LEMMA SwitchPopStands ==
    ASSUME Inv, Inv', Stands, Kept, SwitchPop
    PROVE  Stands' /\ Chain' = Chain
<1>0. /\ phase = "switchPop" /\ phase' \in {"switchPop", "switchAdd"} /\ current # NoBlock
      /\ suite = longest /\ IsBetter
  BY DEF SwitchPop, Stands, Quiet
<1>1. /\ current' = current /\ suites' = suites /\ suite' = suite /\ forkPoint' = forkPoint
      /\ successful' = successful /\ longest' = longest
  BY DEF SwitchPop, switcher
<1>2. forkPoint >= LastFinal /\ IsBetter'
  BY <1>0, <1>1 DEF Stands, IsBetter
<1>3. \A b \in main : Number[b] <= LastFinal => b \in main'
  <2>1. CASE HeadNumber > forkPoint
    BY <1>0, <1>1, <1>2, <2>1, RevertKeepsFinal DEF SwitchPop
  <2>2. CASE ~(HeadNumber > forkPoint)
    BY <2>2 DEF SwitchPop, tables
  <2> QED BY <2>1, <2>2
<1>4. phase' = "switchAdd"
        => main' \cup suite' # {} /\ FarEnough(Top(main' \cup suite'), current)
  <2> SUFFICES ASSUME phase' = "switchAdd"
               PROVE  main' \cup suite' # {} /\ FarEnough(Top(main' \cup suite'), current)
    OBVIOUS
  <2>1. Over(main', suite')
    BY DEF Inv, SwitchOK
  <2>2. main' \in SUBSET Blocks /\ suite' \in SUBSET Blocks /\ suite' # {}
    BY <1>0, <1>1 DEF IsBetter, Inv, TypeOK
  <2>3. Top(main' \cup suite') = Top(longest)
    BY <1>0, <1>1, <2>1, <2>2, SwitchedHead
  <2> QED BY <1>0, <2>2, <2>3 DEF IsBetter
<1>5. /\ \A T \in suites' : Above(T)
      /\ Above(suite') /\ Above(successful') /\ Above(longest')
  BY <1>0, <1>1 DEF Stands
<1> QED BY <1>0, <1>1, <1>2, <1>3, <1>4, <1>5, StandsKept DEF Kept, Quiet, Switching

SwitchGoesOn == SwitchAdd /\ suite # {}

LEMMA SwitchAddStands ==
    ASSUME Inv, Inv', Stands, Kept, SwitchGoesOn
    PROVE  Stands' /\ Chain' = Chain
<1>0. phase = "switchAdd" /\ current # NoBlock /\ suite # {}
  BY DEF SwitchGoesOn, SwitchAdd, Stands, Quiet
<1>1. Over(main, suite)
  BY <1>0 DEF Inv, SwitchOK
<1>2. Foot(suite) \in suite /\ Foot(suite) \in Blocks /\ Accepted(Foot(suite))
  BY <1>0, <1>1, FootIsAccepted DEF Inv, TypeOK, Accepted, Follows
<1>3. /\ current' = current /\ suites' = suites /\ suite' = suite \ {Foot(suite)}
      /\ phase' = phase /\ successful' = successful /\ longest' = longest
  BY <1>0, <1>2 DEF SwitchGoesOn, SwitchAdd
<1>4. main' = main \cup {Foot(suite)}
  BY <1>0, <1>2, AddStep DEF SwitchGoesOn, SwitchAdd, Inv
<1>5. main' \cup suite' = main \cup suite
  BY <1>2, <1>3, <1>4
<1>6. main' \cup suite' # {} /\ FarEnough(Top(main' \cup suite'), current)
  BY <1>0, <1>5 DEF Stands
<1>7. /\ \A T \in suites' : Above(T)
      /\ Above(suite') /\ Above(successful') /\ Above(longest')
  BY <1>0, <1>3 DEF Stands, Above
<1> QED BY <1>0, <1>3, <1>4, <1>6, <1>7, StandsKept DEF Kept, Quiet, Switching

SwitcherGoesOn ==
    \/ PickSuite \/ PopBlock \/ Popped \/ TryBlock \/ EndOfTry \/ Rollback \/ RolledBack
    \/ Restore \/ Restored \/ SwitchOnChain \/ SwitchPop \/ SwitchGoesOn

LEMMA SwitcherIsInvisible ==
    ASSUME Inv, Inv', Stands, Kept, SwitcherGoesOn
    PROVE  Stands' /\ Chain' = Chain
BY PickSuiteStands, PopBlockStands, PoppedStands, TryBlockStands, EndOfTryStands,
   RollbackStands, RolledBackStands, RestoreStands, RestoredStands, SwitchOnChainStands,
   SwitchPopStands, SwitchAddStands DEF SwitcherGoesOn

-----------------------------------------------------------------------------
(***************************************************************************)
(* Every step is a step of the choice, or none.                            *)
(***************************************************************************)
Refines == [Choice!Next]_Chain

LEMMA HeadIsTop == \A C : Choice!Head(C) = Top(C)
BY DEF Choice!Head, Top

\* What becomes of the chain the node stood on is its head, and what is final.
LEMMA StoodOn ==
    ASSUME Inv, Stands, current # NoBlock
    PROVE  /\ Chain # {} /\ Choice!Head(Chain) = current
           /\ \A b \in Chain :
                Number[b] <= Number[current] + SwitchOnHeadAdvance - ForkSize => b \in main
<1>1. Chain \in SUBSET Blocks /\ Sound(Chain) /\ IsChain(Chain, current)
  BY DEF Stands, Inv, TypeOK
<1> QED BY <1>1, TopOfChain, HeadIsTop DEF Stands, LastFinal

LEMMA SwitchIsChosen ==
    ASSUME Inv, Inv', Stands, SwitchAdd, suite = {}
    PROVE  Stands' /\ Refines
<1>1. phase = "switchAdd" /\ current # NoBlock /\ main' = main
  BY DEF SwitchAdd, Stands, Quiet, tables
<1>2. Stands' /\ Chain' = main
  BY <1>1, FinishQuiet DEF SwitchAdd
<1>3. main # {} /\ FarEnough(Top(main), current)
  <2>1. main \cup suite = main
    OBVIOUS
  <2> QED BY <1>1, <2>1 DEF Stands
<1>4. Chain # {} /\ Choice!Head(Chain) = current
  BY <1>1, StoodOn
<1>5. Choice!KeepsFinal(main)
  BY <1>1, <1>4, StoodOn DEF Choice!KeepsFinal
<1>6. Choice!Switch
  BY <1>2, <1>3, <1>4, <1>5, HeadIsTop
     DEF Choice!Switch, FarEnough, NumberStart, TimeStart
<1>7. Sound(main')
  BY DEF Inv
<1> QED BY <1>1, <1>2, <1>6, <1>7 DEF Refines, Choice!Next, Sound

LEMMA RestartIsChosen ==
    ASSUME Inv, Inv', Stands, Restart
    PROVE  Stands' /\ Refines
<1>1. Stands' /\ Chain' = main
  BY StandsQuiet DEF Restart, SwitcherReset, Quiet, tables
<1>2. CASE current = NoBlock
  BY <1>1, <1>2 DEF Chain, Refines
<1>3. CASE current # NoBlock
  <2>1. Choice!KeepsFinal(main)
    BY <1>3, StoodOn DEF Choice!KeepsFinal
  <2>2. restarts' # restarts
    BY DEF Restart, Inv, TypeOK
  <2>3. Choice!Interrupt
    BY <1>1, <2>1, <2>2 DEF Choice!Interrupt
  <2>4. Sound(main)
    BY DEF Inv
  <2> QED BY <1>1, <2>3, <2>4 DEF Refines, Choice!Next, Sound
<1> QED BY <1>1, <1>2, <1>3

\* A block added outside the tests extends the chain.
LEMMA AddIsChosen ==
    ASSUME Inv, Inv', Stands, current = NoBlock, Chain' = main',
           NEW b \in Blocks, Accepted(b), AddBlock(b)
    PROVE  Refines
<1>1. Chain = main /\ main' = main \cup {b} /\ b \notin main
  BY AddStep DEF Chain, Inv
<1>2. Choice!Extend
  BY <1>1, HeadIsTop DEF Choice!Extend, Accepted, Follows
<1>3. Sound(main')
  BY DEF Inv
<1> QED BY <1>2, <1>3 DEF Refines, Choice!Next, Sound

LEMMA RevertIsChosen ==
    ASSUME Inv, Inv', Stands, RunningIsRegistered, RevertCurrentBlock
    PROVE  Stands' /\ Refines
<1>1. current = NoBlock /\ Chain = main
  BY DEF RevertCurrentBlock, Stands, Quiet, Chain
<1>2. Stands' /\ Chain' = main'
  BY FinishQuiet DEF RevertCurrentBlock
<1>3. CASE main = {}
  BY <1>1, <1>2, <1>3 DEF RevertCurrentBlock, tables, Refines
<1>4. CASE main # {}
  <2>1. main' = main \ {Top(main)}
    BY <1>4 DEF RevertCurrentBlock, RevertBlock
  <2>2. RevertOp \in operations
    BY OpsFacts DEF RevertCurrentBlock, RunningIsRegistered
  <2>3. Choice!Undo
    BY <1>1, <1>2, <1>4, <2>1, <2>2, HeadIsTop DEF Choice!Undo
  <2>4. Sound(main')
    BY DEF Inv
  <2> QED BY <1>2, <2>3, <2>4 DEF Refines, Choice!Next, Sound
<1> QED BY <1>2, <1>3, <1>4

LEMMA ApplyIsChosen ==
    ASSUME Inv, Inv', Stands, ApplyNextAvailableFork
    PROVE  Stands' /\ Refines
<1>1. current = NoBlock
  BY DEF ApplyNextAvailableFork, Stands, Quiet
<1>2. \E ok \in BOOLEAN : Finish(ok)
  BY DEF ApplyNextAvailableFork
<1>3. Stands' /\ Chain' = main'
  BY <1>2, FinishQuiet
<1>4. CASE UNCHANGED tables
  BY <1>1, <1>3, <1>4 DEF tables, Chain, Refines
<1>5. CASE ~UNCHANGED tables
  <2> DEFINE b == CHOOSE c \in Potentials : \A d \in Potentials : c <= d
  <2>1. Accepted(b) /\ AddBlock(b)
    BY <1>5 DEF ApplyNextAvailableFork
  <2> HIDE DEF b
  <2>2. b \in Blocks
    BY <2>1, TreeFacts DEF Accepted
  <2> QED BY <1>1, <1>3, <2>1, <2>2, AddIsChosen
<1> QED BY <1>4, <1>5

LEMMA ResolutionIsChosen ==
    ASSUME Inv, Inv', Stands, BlockResolution
    PROVE  Stands' /\ Refines
<1>1. current = NoBlock /\ current' = NoBlock /\ phase' \in Quiet
  BY DEF BlockResolution, Stands, Quiet, switcher
<1>2. Stands' /\ Chain' = main'
  BY <1>1, StandsQuiet
<1>3. PICK b \in Potentials : Accepted(b) /\ AddBlock(b)
  BY DEF BlockResolution
<1>4. b \in Blocks
  BY DEF Potentials, Inv, TypeOK
<1> QED BY <1>1, <1>2, <1>3, <1>4, AddIsChosen

LEMMA StayIsNoStep ==
    ASSUME Inv, Inv', Stands, Stay
    PROVE  Stands' /\ Refines
<1>1. phase = "pick" /\ current # NoBlock /\ reverted = {}
  BY DEF Stay, Stands, Quiet, Inv, SwitcherOK
<1>2. Chain = main
  BY <1>1 DEF Stands, Switching, Old
<1>3. Stands' /\ Chain' = main' /\ main' = main
  BY FinishQuiet DEF Stay, tables
<1> QED BY <1>2, <1>3 DEF Refines

\* What neither tests nor changes the main table: pushes, starts, submissions.
LEMMA OutsideIsNoStep ==
    ASSUME Inv, Inv', Stands, Kept, main' = main, UNCHANGED switcher,
           phase' = phase \/ (phase \in Quiet /\ phase' \in Quiet)
    PROVE  Stands' /\ Refines
<1>1. CASE current = NoBlock
  <2>1. phase' \in Quiet
    BY <1>1 DEF Stands
  <2> QED BY <1>1, <2>1, StandsQuiet DEF switcher, Chain, Refines
<1>2. CASE current # NoBlock
  <2>1. phase \notin Quiet /\ phase' = phase
    BY <1>2 DEF Stands
  <2>2. /\ current' = current /\ suites' = suites /\ suite' = suite /\ forkPoint' = forkPoint
        /\ successful' = successful /\ longest' = longest /\ reverted' = reverted
    BY DEF switcher
  <2>3. Old' = Old /\ (IsBetter' <=> IsBetter)
    BY <2>1, <2>2 DEF Old, IsBetter
  <2>4. /\ \A T \in suites' : Above(T)
        /\ Above(suite') /\ Above(successful') /\ Above(longest')
    BY <1>2, <2>2 DEF Stands
  <2>5. /\ phase' \in {"pop", "try", "rollback", "switchPop"} => forkPoint' >= LastFinal
        /\ phase' = "switchPop" => suite' = longest' /\ IsBetter'
        /\ phase' = "switchAdd"
             => main' \cup suite' # {} /\ FarEnough(Top(main' \cup suite'), current)
    BY <1>2, <2>1, <2>2, <2>3 DEF Stands
  <2>6. Stands' /\ Chain' = Chain
    BY <1>2, <2>1, <2>2, <2>3, <2>4, <2>5, StandsKept DEF Kept
  <2> QED BY <2>6 DEF Refines
<1> QED BY <1>1, <1>2

LEMMA StepIsChosen ==
    ASSUME Inv, Inv', Stands, RunningIsRegistered, [Next]_vars
    PROVE  Stands' /\ Refines
<1>0. Kept
  BY NextForgetsNothing DEF Kept
<1>1. CASE SwitcherStep
  <2>1. CASE TryToFork
    BY <2>1, TestBegins DEF Refines, TryToFork, tables
  <2>2. CASE Stay
    BY <2>2, StayIsNoStep
  <2>3. CASE SwitchAdd /\ suite = {}
    BY <2>3, SwitchIsChosen
  <2>4. CASE SwitcherGoesOn
    BY <1>0, <2>4, SwitcherIsInvisible DEF Refines
  <2> QED
    BY <1>1, <2>1, <2>2, <2>3, <2>4 DEF SwitcherStep, SwitcherGoesOn, SwitchGoesOn
<1>2. CASE Restart
  BY <1>2, RestartIsChosen
<1>3. CASE RevertCurrentBlock
  BY <1>3, RevertIsChosen
<1>4. CASE ApplyNextAvailableFork
  BY <1>4, ApplyIsChosen
<1>5. CASE BlockResolution
  BY <1>5, ResolutionIsChosen
<1>6. CASE \/ (\E b \in Blocks : Submit(b)) \/ PullResolution
           \/ (\E op \in {RevertOp, ApplyOp} : Command(op)) \/ UNCHANGED vars
  BY <1>0, <1>6, OutsideIsNoStep DEF Submit, PullResolution, Command, vars, tables
<1>7. CASE Begin \/ NoBlockAccepted
  BY <1>0, <1>7, OutsideIsNoStep DEF Begin, NoBlockAccepted, tables, Quiet
<1>8. CASE \E b \in Blocks, noResolution \in BOOLEAN : SubmitBlock(b, noResolution)
  BY <1>0, <1>8, OutsideIsNoStep DEF SubmitBlock, Quiet
<1> QED
  BY <1>1, <1>2, <1>3, <1>4, <1>5, <1>6, <1>7, <1>8 DEF Next, NodeStep

ChoiceInv == Inv /\ FifoAgrees /\ Stands

LEMMA ChoiceInit == Init => ChoiceInv /\ Chain = {}
<1> SUFFICES ASSUME Init PROVE ChoiceInv /\ Chain = {}
  OBVIOUS
<1>1. Inv /\ FifoAgrees
  BY InitInv, FifoInit
<1> QED BY <1>1 DEF Init, ChoiceInv, Stands, Chain, Quiet

LEMMA ChoiceStep == ChoiceInv /\ [Next]_vars => ChoiceInv' /\ [Choice!Next]_Chain
<1> SUFFICES ASSUME ChoiceInv, [Next]_vars PROVE ChoiceInv' /\ [Choice!Next]_Chain
  OBVIOUS
<1>1. Inv' /\ FifoAgrees'
  BY NextInv, FifoNext DEF ChoiceInv
<1>2. Stands' /\ Refines
  BY <1>1, Registered, StepIsChosen DEF ChoiceInv
<1> QED BY <1>1, <1>2 DEF ChoiceInv, Refines

(***************************************************************************)
(* BlockchainService implements the choice of the chain: whatever forks are *)
(* tested, and wherever the process is interrupted, the node stands on a     *)
(* sound chain that only grows, is exchanged for one with the advance that   *)
(* tryToFork requires, or is taken back by an operator; and no block deeper  *)
(* than the fork window leaves it otherwise.                               *)
(***************************************************************************)
THEOREM NodeImplementsChoice == Spec => ImplementsChoice
<1>1. Init => ChoiceInv /\ Chain = {}
  BY ChoiceInit
<1>2. ChoiceInv /\ [Next]_vars => ChoiceInv' /\ [Choice!Next]_Chain
  BY ChoiceStep
<1> QED BY <1>1, <1>2, PTL DEF Spec, ImplementsChoice, Choice!Spec
(***************************************************************************)
(* The operations of BlockchainService keep the table of ids of the FIFO in  *)
(* agreement with its queue: submissions, resolutions and tests of forks do  *)
(* not leak an id, nor leave out one of a resolution they push.             *)
(***************************************************************************)
THEOREM NodeKeepsFifo == Spec => []Fifo!TableMatchesQueue
<1>1. ChoiceInv => Fifo!TableMatchesQueue
  BY DEF ChoiceInv, FifoAgrees, FifoProofs!FifoInv, FifoProofs!TableMatchesQueue,
         FifoProofs!Queued, Fifo!TableMatchesQueue, Fifo!Queued
<1>2. Spec => []ChoiceInv
  BY ChoiceInit, ChoiceStep, PTL DEF Spec
<1> QED BY <1>1, <1>2, PTL
=============================================================================
