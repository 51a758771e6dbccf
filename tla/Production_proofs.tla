--------------------------- MODULE Production_proofs ---------------------------
(***************************************************************************)
(* The next block of a member, for any persons, documents, parameters and    *)
(* workers: the block generated is one that every node accepts.             *)
(*                                                                         *)
(* The rules read the indexes; the generator reads the tables of documents    *)
(* first, whose rows may be older than the chain.  The invariant says how     *)
(* old: a row of a written identity comes with its revocation.  And the       *)
(* answers of the workers are about the block that is being proved.         *)
(***************************************************************************)
EXTENDS BlockGenerator, Prover, NaturalsInduction, WellFoundedInduction, SequenceTheorems, FiniteSetTheorems, TLAPS

(* The newcomers, one after the other. *)

Chosen == [persons : SUBSET Person, certs : SUBSET (Person \X Person)]
NoneChosen == [persons |-> {}, certs |-> {}]

LEMMA CheckType ==
    ASSUME GeneratorTypeOK, NEW p \in Person, NEW c \in Chosen
    PROVE  CheckNewcomer(p, c) \in Chosen
<1>1. FoundCerts(p) \subseteq Person \X Person
  BY DEF FoundCerts, GeneratorTypeOK
<1>2. NewCerts(p, c) \subseteq Person \X Person
  BY <1>1 DEF NewCerts
<1> QED BY <1>2 DEF CheckNewcomer, Chosen

\* The numbers of elements, one by one.
LEMMA NoLeast == ASSUME NEW n \in Nat, NEW D, D \subseteq 0..n, \A k \in D : k # 0 /\ k - 1 \in D PROVE D = {}
<1> SUFFICES ASSUME D # {} PROVE FALSE
  OBVIOUS
<1>1. D \subseteq Nat
  OBVIOUS
<1> DEFINE R == OpToRel(<, Nat)
<1>2. IsWellFoundedOn(R, Nat)
  BY NatLessThanWellFounded, Zenon
<1>3. \A j, k \in Nat : j < k => <<j, k>> \in R
  BY Zenon DEF OpToRel
<1> HIDE DEF R
<1>4. PICK k \in D : \A j \in D : ~(<<j, k>> \in R)
  BY <1>1, <1>2, WFMin
<1>5. k - 1 \in Nat /\ k - 1 < k
  BY <1>1
<1> QED BY <1>1, <1>3, <1>4, <1>5

Follows(g, n, order) ==
    /\ g \in [0..n -> Chosen] /\ g[0] = NoneChosen
    /\ \A i \in 1..n : g[i] = CheckNewcomer(order[i], g[i - 1])

LEMMA NewcomersOneByOne ==
    ASSUME GeneratorTypeOK, NEW order, NEW n \in Nat, n = Len(order), \A i \in 1..n : order[i] \in Person
    PROVE  \E g : Follows(g, n, order) /\ FindNewcomers(order) = g[n]
<1> DEFINE D == {k \in 0..n : \A g : ~Follows(g, k, order)}
           rule(g) == [i \in 0..n |-> IF i = 0 THEN NoneChosen ELSE CheckNewcomer(order[i], g[i - 1])]
<1>1. ASSUME NEW k \in 1..n, NEW g, Follows(g, k - 1, order) PROVE \E h : Follows(h, k, order)
  <2> DEFINE h == [i \in 0..k |-> IF i = k THEN CheckNewcomer(order[k], g[k - 1]) ELSE g[i]]
  <2>1. g \in [0..k - 1 -> Chosen] /\ k - 1 \in 0..k - 1
    BY <1>1 DEF Follows
  <2>2. CheckNewcomer(order[k], g[k - 1]) \in Chosen
    BY <2>1, CheckType
  <2>3. h \in [0..k -> Chosen]
    BY <2>1, <2>2
  <2>4. h[0] = NoneChosen
    BY <1>1 DEF Follows
  <2>5. ASSUME NEW i \in 1..k PROVE h[i] = CheckNewcomer(order[i], h[i - 1])
    <3>1. i - 1 \in 0..k /\ i - 1 # k /\ h[i - 1] = g[i - 1]
      OBVIOUS
    <3>2. CASE i = k
      BY <3>1, <3>2
    <3>3. CASE i # k
      <4>1. h[i] = g[i] /\ i \in 1..k - 1
        BY <3>3
      <4> QED BY <3>1, <4>1, <1>1 DEF Follows
    <3> QED BY <3>2, <3>3
  <2> HIDE DEF h
  <2> QED BY <2>3, <2>4, <2>5 DEF Follows
<1>2. Follows([i \in 0..0 |-> NoneChosen], 0, order)
  BY DEF Follows, NoneChosen, Chosen
<1>3. D = {}
  <2>1. \A k \in D : k # 0 /\ k - 1 \in D
    BY <1>1, <1>2
  <2> HIDE DEF D
  <2>2. D \subseteq 0..n
    BY DEF D
  <2> QED BY <2>1, <2>2, NoLeast
<1>4. PICK f : Follows(f, n, order)
  BY <1>3
<1>5. f = rule(f)
  BY <1>4 DEF Follows
<1> DEFINE g == CHOOSE h : h = rule(h)
<1>6. g = rule(g)
  BY <1>5
<1>7. FindNewcomers(order) = g[n]
  BY Zenon DEF FindNewcomers, NoneChosen
<1> HIDE DEF g
<1>8. g[0] = NoneChosen /\ DOMAIN g = 0..n /\ \A i \in 1..n : g[i] = CheckNewcomer(order[i], g[i - 1])
  BY <1>6
<1>9. \A i \in 0..n : g[i] \in Chosen
  <2> DEFINE E == {i \in 0..n : g[i] \notin Chosen}
  <2>1. \A i \in E : i # 0
    BY <1>8 DEF NoneChosen, Chosen
  <2>2. \A i \in E : i - 1 \in E
    BY <2>1, <1>8, CheckType
  <2>3. E = {}
    <3>1. E \subseteq 0..n
      OBVIOUS
    <3> HIDE DEF E
    <3> QED BY <2>1, <2>2, <3>1, NoLeast
  <2> QED BY <2>3
<1>10. g = [i \in 0..n |-> g[i]]
  BY <1>6
<1> QED BY <1>7, <1>8, <1>9, <1>10 DEF Follows

\* Newcomers chosen so far: each one found its own certifications, a certifier counts once.
Enough(p, c) == \E mine \in SUBSET c.certs : (\A d \in mine : d[2] = p) /\ EnoughLinks(p, mine)

ChoiceIsRight(c) ==
    /\ c.persons \subseteq FilterJoiners
    /\ \A d \in c.certs : d \in FoundCerts(d[2])
    /\ \A d, e \in c.certs : d[1] = e[1] => d = e
    /\ \A p \in c.persons : Enough(p, c)

LEMMA CheckKeepsRight ==
    ASSUME GeneratorTypeOK, NEW p \in FilterJoiners, NEW c \in Chosen, ChoiceIsRight(c)
    PROVE  ChoiceIsRight(CheckNewcomer(p, c))
<1> DEFINE mine == NewCerts(p, c)
<1>1. \A d \in mine : d \in FoundCerts(p) /\ d[2] = p /\ d \in Person \X Person /\ d[1] \notin Issuers(c.certs)
  BY DEF NewCerts, FoundCerts, GeneratorTypeOK
<1>2. CASE ~EnoughLinks(p, mine)
  BY <1>2 DEF CheckNewcomer
<1>3. CASE EnoughLinks(p, mine)
  <2> DEFINE x == [persons |-> c.persons \cup {p}, certs |-> c.certs \cup mine]
  <2>1. CheckNewcomer(p, c) = x
    BY <1>3 DEF CheckNewcomer
  <2>2. x.persons = c.persons \cup {p} /\ x.certs = c.certs \cup mine
    OBVIOUS
  <2> HIDE DEF x, mine
  <2>3. x.persons \subseteq FilterJoiners
    BY <2>2 DEF ChoiceIsRight
  <2>4. \A d \in x.certs : d \in FoundCerts(d[2])
    BY <2>2, <1>1 DEF ChoiceIsRight
  <2>5. \A d, e \in x.certs : d[1] = e[1] => d = e
    <3> SUFFICES ASSUME NEW d \in x.certs, NEW e \in x.certs, d[1] = e[1] PROVE d = e
      OBVIOUS
    <3>1. CASE d \in mine /\ e \in mine
      BY <3>1, <1>1
    <3>2. CASE d \in c.certs /\ e \in c.certs
      BY <3>2 DEF ChoiceIsRight
    <3>3. CASE d \in c.certs /\ e \in mine
      BY <3>3, <1>1 DEF Issuers
    <3>4. CASE e \in c.certs /\ d \in mine
      BY <3>4, <1>1 DEF Issuers
    <3> QED BY <2>2, <3>1, <3>2, <3>3, <3>4
  <2>6. ASSUME NEW q \in x.persons PROVE Enough(q, x)
    <3>1. CASE q = p
      <4>1. mine \in SUBSET x.certs
        BY <2>2
      <4> QED BY <1>1, <1>3, <3>1, <4>1 DEF Enough
    <3>2. CASE q \in c.persons
      <4>1. PICK m \in SUBSET c.certs : (\A d \in m : d[2] = q) /\ EnoughLinks(q, m)
        BY <3>2 DEF ChoiceIsRight, Enough
      <4>2. m \in SUBSET x.certs
        BY <2>2
      <4> QED BY <4>1, <4>2 DEF Enough
    <3> QED BY <2>2, <3>1, <3>2
  <2> QED BY <2>1, <2>3, <2>4, <2>5, <2>6 DEF ChoiceIsRight
<1> QED BY <1>2, <1>3

LEMMA NewcomersAreRight ==
    ASSUME GeneratorTypeOK, NEW order \in SetToSeqs(FilterJoiners)
    PROVE  FindNewcomers(order) \in Chosen /\ ChoiceIsRight(FindNewcomers(order))
<1> DEFINE n == Len(order)
<1>1. IsFiniteSet(FilterJoiners) /\ FilterJoiners \subseteq Person
  <2>1. FilterJoiners \subseteq Person
    BY DEF FilterJoiners, PreJoin, PendingIn
  <2> QED BY <2>1, FS_Subset, GeneratorAssumption
<1>2. Cardinality(FilterJoiners) \in Nat
  BY <1>1, FS_CardinalityType
<1>3. n \in Nat /\ \A i \in 1..n : order[i] \in FilterJoiners
  BY <1>2 DEF SetToSeqs
<1> HIDE DEF n
<1>4. PICK g : Follows(g, n, order) /\ FindNewcomers(order) = g[n]
  BY <1>1, <1>3, NewcomersOneByOne DEF n
<1> DEFINE D == {i \in 0..n : ~ChoiceIsRight(g[i])}
<1>5. \A i \in 0..n : g[i] \in Chosen
  BY <1>4 DEF Follows
<1>6. ChoiceIsRight(NoneChosen)
  BY DEF ChoiceIsRight, NoneChosen
<1>7. \A i \in D : i # 0
  BY <1>4, <1>6 DEF Follows
<1>8. ASSUME NEW i \in D PROVE i - 1 \in D
  <2>1. i \in 1..n /\ i - 1 \in 0..n
    <3>1. i \in 0..n /\ i # 0
      BY <1>7
    <3> HIDE DEF D
    <3> QED BY <1>3, <3>1
  <2>2. g[i] = CheckNewcomer(order[i], g[i - 1])
    BY <1>4, <2>1 DEF Follows
  <2>3. ~ChoiceIsRight(g[i - 1])
    BY <1>3, <1>5, <2>1, <2>2, CheckKeepsRight
  <2> QED BY <2>1, <2>3
<1>9. D = {}
  <2>1. D \subseteq 0..n
    OBVIOUS
  <2> HIDE DEF D
  <2> QED BY <1>3, <1>7, <1>8, <2>1, NoLeast
<1> QED BY <1>3, <1>4, <1>5, <1>9

----------------------------------------------------------------------------
(* What the tables and the indexes say of a person. *)

Statuses == {"unknown", "member", "excluded", "revoked"}

\* A row of a written identity comes with its revocation; any other is of an identity that is not written.
RowsFollow == \A p \in Person : idties[p].kept =>
    IF idties[p].was THEN idties[p].revocation /\ Written(p) ELSE ~Written(p) /\ ~idties[p].member

GeneratorInv == GeneratorTypeOK /\ RowsFollow

\* Who is not revoked is what the sandbox says of him.
LEMMA InfoIsRight ==
    ASSUME GeneratorInv, NEW p \in Person, p \notin Revocating, status[p] # "revoked"
    PROVE  (Info(p).member <=> Member(p)) /\ (Info(p).was <=> Written(p))
<1>1. status[p] \in Statuses /\ idties[p].was \in BOOLEAN /\ idties[p].member \in BOOLEAN
  BY DEF GeneratorInv, GeneratorTypeOK, Statuses
<1>2. CASE ~idties[p].kept
  <2>1. Info(p) = [member |-> Member(p), was |-> Written(p), revoked |-> status[p] = "revoked"]
    BY <1>2 DEF Info
  <2> QED BY <2>1
<1>3. CASE idties[p].kept
  <2>1. Info(p).member = idties[p].member /\ Info(p).was = idties[p].was
    BY <1>3 DEF Info
  <2>2. ~idties[p].was
    BY <1>1, <1>3 DEF GeneratorInv, RowsFollow, Revocating, Written, Statuses
  <2>3. ~Written(p) /\ ~idties[p].member
    BY <1>3, <2>2 DEF GeneratorInv, RowsFollow
  <2>4. ~Member(p)
    BY <2>3 DEF Member, Written
  <2> QED BY <2>1, <2>2, <2>3, <2>4
<1> QED BY <1>2, <1>3

----------------------------------------------------------------------------
(* The generated block. *)

BlockOK(b) ==
    /\ DOMAIN b = {"identities", "joiners", "actives", "leavers", "revoked", "excluded", "certs"}
    /\ b.identities \subseteq Person /\ b.joiners \subseteq Person /\ b.actives \subseteq Person
    /\ b.leavers \subseteq Person /\ b.revoked \subseteq Person /\ b.excluded \subseteq Person
    /\ b.certs \subseteq Person \X Person

\* Updates are of distinct certifiers who did not certify a newcomer.
LEMMA UpdatesAreRight ==
    ASSUME GeneratorTypeOK, NEW c \in Chosen
    PROVE  /\ MergeUpdates(c) \subseteq NewCertsFromWoT
           /\ \A d, e \in MergeUpdates(c) : d[1] = e[1] => d = e
           /\ \A d \in MergeUpdates(c) : d[1] \notin Issuers(c.certs)
<1> DEFINE free == {d \in NewCertsFromWoT : d[1] \notin Issuers(c.certs)}
           one(i) == CHOOSE d \in free : d[1] = i
<1>1. ASSUME NEW i \in Issuers(free) PROVE one(i) \in free /\ one(i)[1] = i
  <2>1. \E d \in free : d[1] = i
    BY DEF Issuers
  <2> QED BY <2>1
<1>2. MergeUpdates(c) = {one(i) : i \in Issuers(free)}
  BY DEF MergeUpdates
<1> HIDE DEF one
<1>3. \A d \in MergeUpdates(c) : d \in free /\ d = one(d[1])
  BY <1>1, <1>2
<1> QED BY <1>3

\* What the generator makes of the newcomers that it chose.
LEMMA CreatedBlock ==
    ASSUME GeneratorInv, NEW c \in Chosen, ChoiceIsRight(c), NEW b, b = CreateBlock(c, MergeUpdates(c))
    PROVE  /\ BlockOK(b)
           /\ b.revoked = Revocating /\ b.excluded = toKick \cup Revocating
           /\ \A p \in b.joiners \cup b.actives \cup b.leavers :
                p \in Person /\ p \notin b.excluded /\ p \notin msHeld /\ status[p] # "revoked"
           /\ \A p \in b.joiners \cup b.actives : p \in c.persons /\ p \notin b.leavers
           /\ \A p \in b.joiners : ~Member(p) /\ (Written(p) \/ p \in b.identities)
           /\ \A p \in b.actives \cup b.leavers : Member(p)
           /\ \A p \in b.identities : p \in b.joiners /\ ~UidTaken(p)
           /\ \A d \in b.certs : \/ d \in MergeUpdates(c) /\ d[2] \notin b.leavers \cup b.excluded
                                 \/ d \in c.certs /\ d[2] \in b.joiners \cup b.actives
           /\ \A d \in c.certs : d[2] \in b.joiners \cup b.actives => d \in b.certs
<1> DEFINE L == FindLeavers \ Spared({})
           out == Spared(L)
           joins == c.persons \ out
           updates == MergeUpdates(c)
<1>1. /\ DOMAIN b = {"identities", "joiners", "actives", "leavers", "revoked", "excluded", "certs"}
      /\ b.identities = {p \in joins : ~Info(p).member /\ ~Info(p).was}
      /\ b.joiners = {p \in joins : ~Info(p).member}
      /\ b.actives = {p \in joins : Info(p).member}
      /\ b.leavers = {p \in L : Info(p).member}
      /\ b.revoked = Revocating
      /\ b.excluded = toKick \cup Revocating
      /\ b.certs = {d \in updates : d[2] \notin out} \cup {d \in c.certs : d[2] \in joins}
  BY DEF CreateBlock
<1>2. L \subseteq Person \ msHeld /\ \A p \in L : Info(p).member
  BY DEF FindLeavers, PendingOut
<1>3. FilterJoiners \subseteq Person \ msHeld /\ \A p \in FilterJoiners : Info(p).was \/ ~UidTaken(p)
  BY DEF FilterJoiners, PreJoin, PendingIn
<1>4. c.persons \subseteq FilterJoiners
  BY DEF ChoiceIsRight
<1>5. \A S, p : p \in Spared(S) <=> p \in toKick \/ p \in Revocating \/ (p \in Person /\ status[p] = "revoked") \/ p \in S
  BY DEF Spared
<1>6. updates \subseteq Person \X Person /\ c.certs \subseteq Person \X Person
  <2>1. updates \subseteq NewCertsFromWoT
    BY UpdatesAreRight DEF GeneratorInv
  <2>2. NewCertsFromWoT \subseteq Person \X Person
    BY DEF NewCertsFromWoT, GeneratorInv, GeneratorTypeOK
  <2> QED BY <2>1, <2>2 DEF Chosen
<1>7. Revocating \subseteq Person /\ toKick \subseteq Person
  BY DEF Revocating, GeneratorInv, GeneratorTypeOK
<1> HIDE DEF L, updates
<1>8. L \cap Spared({}) = {}
  BY DEF L
<1>9. b.leavers = L
  BY <1>1, <1>2
<1>10. ASSUME NEW p \in joins
       PROVE  /\ p \in Person /\ p \in c.persons /\ p \notin L /\ p \notin toKick /\ p \notin Revocating
              /\ p \notin msHeld /\ status[p] # "revoked"
              /\ (Info(p).member <=> Member(p)) /\ (Info(p).was <=> Written(p)) /\ (Info(p).was \/ ~UidTaken(p))
  <2>1. p \in Person /\ p \in c.persons /\ p \notin L /\ p \notin toKick /\ p \notin Revocating
        /\ p \notin msHeld /\ status[p] # "revoked"
    BY <1>3, <1>4, <1>5
  <2>2. (Info(p).member <=> Member(p)) /\ (Info(p).was <=> Written(p))
    BY <2>1, InfoIsRight
  <2> QED BY <2>1, <2>2, <1>3, <1>4
<1>11. ASSUME NEW p \in L
       PROVE  p \in Person /\ p \notin toKick /\ p \notin Revocating /\ p \notin msHeld /\ status[p] # "revoked" /\ Member(p)
  <2>1. p \in Person /\ p \notin toKick /\ p \notin Revocating /\ p \notin msHeld /\ status[p] # "revoked"
    BY <1>2, <1>5, <1>8
  <2>2. Info(p).member <=> Member(p)
    BY <2>1, InfoIsRight
  <2> QED BY <2>1, <2>2, <1>2
<1> HIDE DEF joins
<1>12. BlockOK(b)
  <2>1. joins \subseteq Person
    BY <1>10
  <2> QED BY <1>1, <1>2, <1>6, <1>7, <2>1 DEF BlockOK
<1>13. b.joiners \cup b.actives = joins
  BY <1>1
<1>14. \A p \in b.joiners \cup b.actives \cup b.leavers :
          p \in Person /\ p \notin b.excluded /\ p \notin msHeld /\ status[p] # "revoked"
  BY <1>1, <1>9, <1>10, <1>11, <1>13
<1>15. \A p \in b.joiners \cup b.actives : p \in c.persons /\ p \notin b.leavers
  BY <1>9, <1>10, <1>13
<1>16. ASSUME NEW p \in b.joiners PROVE ~Member(p) /\ (Written(p) \/ p \in b.identities)
  <2>1. p \in joins /\ ~Info(p).member
    BY <1>1
  <2>2. Written(p) \/ ~Info(p).was
    BY <2>1, <1>10
  <2>3. ~Member(p)
    BY <2>1, <1>10
  <2> QED BY <2>1, <2>2, <2>3, <1>1
<1>17. ASSUME NEW p \in b.actives \cup b.leavers PROVE Member(p)
  BY <1>1, <1>9, <1>10, <1>11
<1>18. ASSUME NEW p \in b.identities PROVE p \in b.joiners /\ ~UidTaken(p)
  <2>1. p \in joins /\ ~Info(p).member /\ ~Info(p).was
    BY <1>1
  <2> QED BY <2>1, <1>1, <1>10
<1>19. \A d \in b.certs : \/ d \in updates /\ d[2] \notin b.leavers \cup b.excluded
                          \/ d \in c.certs /\ d[2] \in b.joiners \cup b.actives
  BY <1>1, <1>5, <1>9, <1>13
<1>20. \A d \in c.certs : d[2] \in b.joiners \cup b.actives => d \in b.certs
  BY <1>1, <1>13
<1> QED BY <1>1, <1>12, <1>14, <1>15, <1>16, <1>17, <1>18, <1>19, <1>20 DEF updates

LEMMA SizeIsNat ==
    ASSUME NEW b, BlockOK(b)
    PROVE  Length(b) \in Nat
<1>1. IsFiniteSet(Person \X Person)
  BY FS_Product, GeneratorAssumption
<1>2. /\ IsFiniteSet(b.identities) /\ IsFiniteSet(b.joiners) /\ IsFiniteSet(b.actives)
      /\ IsFiniteSet(b.leavers) /\ IsFiniteSet(b.revoked) /\ IsFiniteSet(b.certs)
  <2>1. /\ b.identities \in SUBSET Person /\ b.joiners \in SUBSET Person /\ b.actives \in SUBSET Person
        /\ b.leavers \in SUBSET Person /\ b.revoked \in SUBSET Person /\ b.certs \in SUBSET (Person \X Person)
    BY DEF BlockOK
  <2>2. IsFiniteSet(Person)
    BY GeneratorAssumption
  <2> QED BY <2>1, <2>2, <1>1, FS_Subset
<1>3. /\ Cardinality(b.identities) \in Nat /\ Cardinality(b.joiners) \in Nat /\ Cardinality(b.actives) \in Nat
      /\ Cardinality(b.leavers) \in Nat /\ Cardinality(b.revoked) \in Nat /\ Cardinality(b.certs) \in Nat
  BY <1>2, FS_CardinalityType
<1> QED BY <1>3 DEF Length

\* At most one element that is such and such.
LEMMA OneAtMost ==
    ASSUME NEW S, IsFiniteSet(S), \A x, y \in S : x = y
    PROVE  Cardinality(S) <= 1
<1>1. CASE S = {}
  BY <1>1, FS_EmptySet
<1>2. ASSUME NEW x \in S PROVE Cardinality(S) = 1
  <2>1. S = {x}
    OBVIOUS
  <2> QED BY <2>1, FS_Singleton
<1> QED BY <1>1, <1>2

LEMMA CreatedBlockIsValid ==
    ASSUME GeneratorInv, NEW c \in Chosen, ChoiceIsRight(c), NEW b, b = CreateBlock(c, MergeUpdates(c)),
           ~SameUidTwice(b), ~RevokesNoMember(b), ~KickedOnceMore, ~(Length(b) >= MaxLen)
    PROVE  Valid(b)
<1>1. /\ BlockOK(b)
      /\ b.revoked = Revocating /\ b.excluded = toKick \cup Revocating
      /\ \A p \in b.joiners \cup b.actives \cup b.leavers :
           p \in Person /\ p \notin b.excluded /\ p \notin msHeld /\ status[p] # "revoked"
      /\ \A p \in b.joiners \cup b.actives : p \in c.persons /\ p \notin b.leavers
      /\ \A p \in b.joiners : ~Member(p) /\ (Written(p) \/ p \in b.identities)
      /\ \A p \in b.actives \cup b.leavers : Member(p)
      /\ \A p \in b.identities : p \in b.joiners /\ ~UidTaken(p)
  BY CreatedBlock
<1>2. /\ \A d \in b.certs : \/ d \in MergeUpdates(c) /\ d[2] \notin b.leavers \cup b.excluded
                            \/ d \in c.certs /\ d[2] \in b.joiners \cup b.actives
      /\ \A d \in c.certs : d[2] \in b.joiners \cup b.actives => d \in b.certs
  BY CreatedBlock
<1>3. \A d \in MergeUpdates(c) : d \in certs /\ Writable(d) /\ Member(d[2]) /\ d[2] \notin leaving
  BY UpdatesAreRight DEF GeneratorInv, NewCertsFromWoT
<1>4. \A d \in c.certs : d \in certs /\ Writable(d) /\ d[2] \notin leaving
  BY DEF ChoiceIsRight, FoundCerts
<1>5. \A p \in b.revoked : Member(p)
  BY DEF RevokesNoMember
<1>6. LocalRules(b)
  <2>1. UniqueUids(b)
    BY DEF UniqueUids, SameUidTwice
  <2>2. IdentitiesMatchJoin(b) /\ RevokedAreExcluded(b) /\ PubkeyUnicity(b)
    BY <1>1 DEF IdentitiesMatchJoin, RevokedAreExcluded, PubkeyUnicity
  <2>3. MembershipUnicity(b)
    <3> SUFFICES ASSUME NEW p \in Person
                 PROVE  Cardinality({s \in {"joiners", "actives", "leavers", "revoked"} : p \in b[s]}) <= 1
      BY DEF MembershipUnicity
    <3> DEFINE K == {"joiners", "actives", "leavers", "revoked"}
               S == {s \in K : p \in b[s]}
    <3>1. IsFiniteSet(K)
      <4>1. IsFiniteSet({"joiners"}) /\ IsFiniteSet({"actives"}) /\ IsFiniteSet({"leavers"}) /\ IsFiniteSet({"revoked"})
        BY FS_Singleton
      <4>2. IsFiniteSet(({"joiners"} \cup {"actives"}) \cup ({"leavers"} \cup {"revoked"}))
        BY <4>1, FS_Union
      <4>3. K = ({"joiners"} \cup {"actives"}) \cup ({"leavers"} \cup {"revoked"})
        OBVIOUS
      <4> QED BY <4>2, <4>3
    <3>2. IsFiniteSet(S)
      BY <3>1, FS_Subset
    <3>3. \A s, t \in S : s = t
      <4>1. ~(p \in b.joiners /\ p \in b.actives)
        BY <1>1
      <4>2. p \in b.joiners \/ p \in b.actives => p \notin b.leavers
        BY <1>1
      <4>3. p \in b.joiners \cup b.actives \cup b.leavers => p \notin b.revoked
        BY <1>1
      <4> QED BY <4>1, <4>2, <4>3
    <3> HIDE DEF S
    <3>4. Cardinality(S) <= 1
      BY <3>2, <3>3, OneAtMost
    <3> QED BY <3>4 DEF S
  <2>4. OneByIssuer(b)
    <3> SUFFICES ASSUME NEW d \in b.certs, NEW e \in b.certs, d[1] = e[1] PROVE d = e
      BY DEF OneByIssuer
    <3>1. CASE d \in MergeUpdates(c) /\ e \in MergeUpdates(c)
      BY <3>1, UpdatesAreRight DEF GeneratorInv
    <3>2. CASE d \in c.certs /\ e \in c.certs
      BY <3>2 DEF ChoiceIsRight
    <3>3. \A x \in MergeUpdates(c), y \in c.certs : x[1] # y[1]
      BY UpdatesAreRight DEF GeneratorInv, Issuers
    <3> QED BY <1>2, <3>1, <3>2, <3>3
  <2>5. NotForLeaverOrExcluded(b)
    BY <1>1, <1>2 DEF NotForLeaverOrExcluded
  <2> QED BY <2>1, <2>2, <2>3, <2>4, <2>5 DEF LocalRules
<1>7. MembershipPeriod(b)
  BY <1>1 DEF MembershipPeriod
<1>8. CertificationRules(b)
  <2>1. \A d \in b.certs : Writable(d) /\ d[2] \notin leaving
    BY <1>2, <1>3, <1>4
  <2>2. CertificationPeriod(b) /\ FromMember(b) /\ NotToLeaver(b) /\ NoReplay(b)
    BY <2>1 DEF CertificationPeriod, FromMember, NotToLeaver, NoReplay, Writable, Chainable
  <2>3. CertificationStock(b)
    <3> SUFFICES ASSUME NEW d \in b.certs PROVE Stock(d[1]) <= SigStock
      BY DEF CertificationStock
    <3>1. IsFiniteSet({l \in links : l[1] = d[1]})
      <4>1. IsFiniteSet(Person \X Person)
        BY FS_Product, GeneratorAssumption
      <4>2. {l \in links : l[1] = d[1]} \in SUBSET (Person \X Person)
        BY DEF GeneratorInv, GeneratorTypeOK
      <4> QED BY <4>1, <4>2, FS_Subset
    <3>2. Stock(d[1]) \in Nat /\ SigStock \in Nat
      BY <3>1, FS_CardinalityType, GeneratorAssumption DEF Stock
    <3>3. Stock(d[1]) < SigStock
      BY <2>1 DEF Writable, Chainable
    <3> QED BY <3>2, <3>3
  <2>4. ToMemberOrNewcomer(b)
    BY <1>1, <1>2, <1>3 DEF ToMemberOrNewcomer
  <2> QED BY <2>2, <2>3, <2>4 DEF CertificationRules
<1>9. MembershipRules(b)
  <2>1. NewIdentities(b) /\ JoinsOnce(b) /\ LeaverIsMember(b) /\ ActiveIsMember(b) /\ RevokedIsMember(b)
    BY <1>1, <1>5 DEF NewIdentities, JoinsOnce, LeaverIsMember, ActiveIsMember, RevokedIsMember
  <2>2. NotOnRevoked(b)
    BY <1>1 DEF NotOnRevoked, Revocating
  <2>3. ExcludedIsMember(b) /\ HasToBeExcluded(b)
    BY <1>1, <1>5 DEF ExcludedIsMember, HasToBeExcluded, GeneratorInv, KickedOnceMore
  <2>4. EnoughCerts(b)
    <3> SUFFICES ASSUME NEW p \in b.joiners \cup b.actives
                 PROVE  Cardinality(Certifiers(p, links \cup b.certs)) >= SigQty
      BY DEF EnoughCerts
    <3>1. PICK mine \in SUBSET c.certs : (\A d \in mine : d[2] = p) /\ EnoughLinks(p, mine)
      BY <1>1 DEF ChoiceIsRight, Enough
    <3> DEFINE few == Certifiers(p, links) \cup Issuers(mine)
               all == Certifiers(p, links \cup b.certs)
    <3>2. few \subseteq all
      <4>1. mine \subseteq b.certs
        BY <1>2, <3>1
      <4> QED BY <3>1, <4>1 DEF Certifiers, Issuers
    <3>3. all \subseteq Person
      BY <1>1 DEF Certifiers, Issuers, BlockOK, GeneratorInv, GeneratorTypeOK
    <3>4. Cardinality(few) >= SigQty
      BY <3>1 DEF EnoughLinks
    <3> HIDE DEF few, all
    <3>5. IsFiniteSet(all)
      BY <3>3, FS_Subset, GeneratorAssumption
    <3>6. Cardinality(few) <= Cardinality(all) /\ IsFiniteSet(few)
      BY <3>2, <3>5, FS_Subset
    <3>7. Cardinality(few) \in Nat /\ Cardinality(all) \in Nat /\ SigQty \in Nat
      BY <3>5, <3>6, FS_CardinalityType, GeneratorAssumption
    <3>8. Cardinality(all) >= SigQty
      BY <3>4, <3>6, <3>7
    <3> QED BY <3>8 DEF all
  <2> QED BY <2>1, <2>2, <2>3, <2>4 DEF MembershipRules
<1>10. Length(b) < MaxLen
  BY <1>1, SizeIsNat, GeneratorAssumption
<1> QED BY <1>6, <1>7, <1>8, <1>9, <1>10 DEF Valid

LEMMA GeneratedAreValid == GeneratorInv => GeneratedBlockIsValid
<1> SUFFICES ASSUME GeneratorInv, NEW b \in GeneratedBlocks
             PROVE  Valid(b) \/ SameUidTwice(b) \/ RevokesNoMember(b) \/ KickedOnceMore \/ Length(b) >= MaxLen
  BY DEF GeneratedBlockIsValid
<1>1. PICK order \in SetToSeqs(FilterJoiners) : b = GenerateNextBlock(order)
  BY DEF GeneratedBlocks
<1> DEFINE c == FindNewcomers(order)
<1>2. c \in Chosen /\ ChoiceIsRight(c)
  BY NewcomersAreRight DEF GeneratorInv
<1>3. b = CreateBlock(c, MergeUpdates(c))
  BY <1>1 DEF GenerateNextBlock
<1> HIDE DEF c
<1> QED BY <1>2, <1>3, CreatedBlockIsValid

----------------------------------------------------------------------------
(* The steps. *)

LEMMA GeneratorStarts == GeneratorInit => GeneratorInv
<1> SUFFICES ASSUME GeneratorInit PROVE GeneratorInv
  OBVIOUS
<1>1. GeneratorTypeOK
  <2>1. MaxHeight \in Nat /\ height \in 1..MaxHeight /\ -1 \in -1..MaxHeight /\ 0 \in -1..MaxHeight
    BY GeneratorAssumption DEF GeneratorInit
  <2>2. lastMs \in [Person -> -1..MaxHeight]
    BY <2>1 DEF GeneratorInit
  <2>3. links \subseteq Person \X Person
    BY GeneratorAssumption DEF GeneratorInit
  <2> QED BY <2>1, <2>2, <2>3 DEF GeneratorInit, GeneratorTypeOK, NoRow
<1>2. RowsFollow
  BY DEF GeneratorInit, RowsFollow, NoRow
<1> QED BY <1>1, <1>2 DEF GeneratorInv

RowType == [kept : BOOLEAN, revocation : BOOLEAN, member : BOOLEAN, was : BOOLEAN]

\* A document changes the table of identities only, as far as the invariant goes.
LEMMA TablesKeep ==
    ASSUME GeneratorInv, UNCHANGED indexVars, idties' \in [Person -> RowType],
           memberships' \subseteq Membership, certs' \subseteq Person \X Person,
           \A p \in Person : idties'[p] # idties[p] =>
               IF idties'[p].was THEN idties'[p].revocation /\ Written(p) ELSE ~Written(p) /\ ~idties'[p].member
    PROVE  GeneratorInv'
<1>1. GeneratorTypeOK'
  BY DEF GeneratorInv, GeneratorTypeOK, indexVars, RowType
<1>2. \A p \in Person : Written(p)' = Written(p) /\ Member(p)' = Member(p)
  BY DEF Written, Member, indexVars
<1>3. RowsFollow'
  BY <1>2 DEF GeneratorInv, RowsFollow
<1> QED BY <1>1, <1>3 DEF GeneratorInv

LEMMA SubmitIdentityKeeps == ASSUME GeneratorInv, NEW p \in Person, SubmitIdentity(p) PROVE GeneratorInv'
<1>1. NewRow \in RowType /\ ~NewRow.was /\ ~NewRow.member
  BY DEF NewRow, NoRow, RowType
<1>2. idties' \in [Person -> RowType] /\ ~Written(p)
  BY <1>1 DEF SubmitIdentity, Acceptable, Known, GeneratorInv, GeneratorTypeOK, RowType
<1>3. \A q \in Person : idties'[q] # idties[q] => q = p /\ idties'[q] = NewRow
  BY DEF SubmitIdentity, GeneratorInv, GeneratorTypeOK
<1> QED BY <1>1, <1>2, <1>3, TablesKeep DEF SubmitIdentity, GeneratorInv, GeneratorTypeOK

LEMMA SubmitCertificationKeeps ==
    ASSUME GeneratorInv, NEW p \in Person, NEW q \in Person, SubmitCertification(p, q) PROVE GeneratorInv'
<1>1. NewRow \in RowType /\ ~NewRow.was /\ ~NewRow.member
  BY DEF NewRow, NoRow, RowType
<1>2. idties' \in [Person -> RowType] /\ certs' \subseteq Person \X Person
  BY <1>1 DEF SubmitCertification, GeneratorInv, GeneratorTypeOK, RowType
<1>3. \A r \in Person : idties'[r] # idties[r] => r = q /\ idties'[r] = NewRow /\ ~Written(r)
  BY DEF SubmitCertification, Known, GeneratorInv, GeneratorTypeOK
<1> QED BY <1>1, <1>2, <1>3, TablesKeep DEF SubmitCertification, GeneratorInv, GeneratorTypeOK

LEMMA SubmitMembershipKeeps ==
    ASSUME GeneratorInv, NEW p \in Person, NEW in \in BOOLEAN, SubmitMembership(p, in) PROVE GeneratorInv'
<1>1. [issuer |-> p, in |-> in, number |-> height] \in Membership
  BY GeneratorAssumption DEF Membership, GeneratorInv, GeneratorTypeOK
<1>2. memberships' \subseteq Membership
  BY <1>1 DEF SubmitMembership, GeneratorInv, GeneratorTypeOK
<1> QED BY <1>2, TablesKeep DEF SubmitMembership, GeneratorInv, GeneratorTypeOK, RowType

LEMMA SubmitRevocationKeeps == ASSUME GeneratorInv, NEW p \in Person, SubmitRevocation(p) PROVE GeneratorInv'
<1> DEFINE row == [kept |-> TRUE, revocation |-> TRUE, member |-> Info(p).member, was |-> Info(p).was]
<1>1. Info(p).member \in BOOLEAN /\ Info(p).was \in BOOLEAN
  BY DEF Info, Member, Written, GeneratorInv, GeneratorTypeOK
<1>2. idties' \in [Person -> RowType] /\ \A q \in Person : idties'[q] # idties[q] => q = p /\ idties'[q] = row
  BY <1>1 DEF SubmitRevocation, GeneratorInv, GeneratorTypeOK, RowType
<1>3. IF Info(p).was THEN Written(p) ELSE ~Written(p) /\ ~Info(p).member
  <2>1. CASE idties[p].kept
    BY <2>1 DEF Info, GeneratorInv, RowsFollow
  <2>2. CASE ~idties[p].kept
    BY <2>2 DEF Info, Written, Member
  <2> QED BY <2>1, <2>2
<1>4. IF row.was THEN row.revocation /\ Written(p) ELSE ~Written(p) /\ ~row.member
  BY <1>3
<1> HIDE DEF row
<1> QED BY <1>2, <1>4, TablesKeep DEF SubmitRevocation, GeneratorInv, GeneratorTypeOK

LEMMA OthersAreBlocks == ASSUME NEW b \in OtherBlocks, GeneratorTypeOK PROVE BlockOK(b)
<1>1. BlockOK(Empty)
  BY DEF BlockOK, Empty, GeneratorTypeOK
<1>2. ASSUME NEW p \in Person PROVE /\ BlockOK([Empty EXCEPT !.actives = {p}])
                                    /\ BlockOK([Empty EXCEPT !.leavers = {p}])
                                    /\ BlockOK([Empty EXCEPT !.revoked = {p}, !.excluded = @ \cup {p}])
  BY DEF BlockOK, Empty, GeneratorTypeOK
<1>3. ASSUME NEW c \in Person \X Person PROVE BlockOK([Empty EXCEPT !.certs = {c}])
  BY DEF BlockOK, Empty, GeneratorTypeOK
<1>4. ASSUME NEW p \in Person, NEW cs \in {{}} \cup {{c} : c \in Person \X Person}
      PROVE  BlockOK([Empty EXCEPT !.identities = IF Written(p) THEN {} ELSE {p}, !.joiners = {p}, !.certs = cs])
  <2>1. cs \subseteq Person \X Person /\ (IF Written(p) THEN {} ELSE {p}) \subseteq Person
    OBVIOUS
  <2> QED BY <2>1 DEF BlockOK, Empty, GeneratorTypeOK
<1>5. ASSUME b \in OtherJoins PROVE BlockOK(b)
  <2> DEFINE join(p, cs) == [Empty EXCEPT !.identities = IF Written(p) THEN {} ELSE {p}, !.joiners = {p}, !.certs = cs]
  <2>1. OtherJoins = {join(p, cs) : p \in Person, cs \in {{}} \cup {{c} : c \in Person \X Person}}
    BY DEF OtherJoins
  <2> HIDE DEF join
  <2>2. PICK p \in Person, cs \in {{}} \cup {{c} : c \in Person \X Person} : b = join(p, cs)
    BY <1>5, <2>1
  <2> QED BY <1>4, <2>2 DEF join
<1>6. CASE b \in {[Empty EXCEPT !.actives = {p}] : p \in Person}
  BY <1>2, <1>6, Zenon
<1>7. CASE b \in {[Empty EXCEPT !.leavers = {p}] : p \in Person}
  BY <1>2, <1>7, Zenon
<1>8. CASE b \in {[Empty EXCEPT !.revoked = {p}, !.excluded = @ \cup {p}] : p \in Person}
  BY <1>2, <1>8, Zenon
<1>9. CASE b \in {[Empty EXCEPT !.certs = {c}] : c \in Person \X Person}
  BY <1>3, <1>9, Zenon
<1>10. CASE b \in {Empty}
  BY <1>1, <1>10
<1> QED BY <1>5, <1>6, <1>7, <1>8, <1>9, <1>10, Zenon DEF OtherBlocks

LEMMA GeneratedAreBlocks == ASSUME GeneratorInv, NEW b \in GeneratedBlocks PROVE BlockOK(b)
<1>1. PICK order \in SetToSeqs(FilterJoiners) : b = CreateBlock(FindNewcomers(order), MergeUpdates(FindNewcomers(order)))
  BY DEF GeneratedBlocks, GenerateNextBlock
<1>2. FindNewcomers(order) \in Chosen /\ ChoiceIsRight(FindNewcomers(order))
  BY NewcomersAreRight DEF GeneratorInv
<1> QED BY <1>1, <1>2, CreatedBlock

LEMMA AddBlockKeeps ==
    ASSUME GeneratorInv, NEW b, BlockOK(b), Valid(b), height < MaxHeight, NEW expired, NEW lapsed, NEW trimmed,
           AddBlock(b, expired, lapsed, trimmed)
    PROVE  GeneratorInv'
<1> DEFINE member(p) == p \in b.joiners \/ (Member(p) /\ p \notin b.excluded)
           ms == b.joiners \cup b.actives \cup b.leavers
<1>1. /\ height' = height + 1
      /\ status' = [p \in Person |->
           IF p \in b.revoked THEN "revoked"
           ELSE IF member(p) THEN "member" ELSE IF p \in b.excluded THEN "excluded" ELSE status[p]]
      /\ lastMs' = [p \in Person |-> IF p \in ms THEN height ELSE lastMs[p]]
      /\ leaving' = leaving \cup b.leavers
      /\ links' = (links \cup b.certs) \ expired
      /\ toKick' \subseteq Person
      /\ msHeld' = ms /\ certHeld' = Issuers(b.certs)
      /\ idties' = IdtiesAfter(b, trimmed) /\ memberships' = MembershipsAfter(b) /\ certs' = CertsAfter(b)
  BY DEF AddBlock
<1>2. NoRow = [kept |-> FALSE, revocation |-> FALSE, member |-> FALSE, was |-> FALSE]
  BY DEF NoRow
<1>3. /\ b.identities \subseteq Person /\ b.joiners \subseteq Person /\ b.actives \subseteq Person
      /\ b.leavers \subseteq Person /\ b.revoked \subseteq Person /\ b.excluded \subseteq Person
      /\ b.certs \subseteq Person \X Person
  BY DEF BlockOK
<1>4. /\ \A p \in b.joiners : Written(p) \/ p \in b.identities
      /\ \A p \in b.excluded : Member(p) /\ p \notin b.joiners
      /\ b.revoked \subseteq b.excluded
  BY DEF Valid, MembershipRules, JoinsOnce, ExcludedIsMember, LocalRules, RevokedAreExcluded, PubkeyUnicity
<1> HIDE DEF ms
<1>5. GeneratorTypeOK'
  <2>1. height' \in 1..MaxHeight /\ height \in -1..MaxHeight
    BY <1>1, GeneratorAssumption DEF GeneratorInv, GeneratorTypeOK
  <2>2. status' \in [Person -> {"unknown", "member", "excluded", "revoked"}]
    <3> HIDE DEF member
    <3> QED BY <1>1 DEF GeneratorInv, GeneratorTypeOK
  <2>3. lastMs' \in [Person -> -1..MaxHeight]
    BY <1>1, <2>1 DEF GeneratorInv, GeneratorTypeOK
  <2>4. leaving' \subseteq Person /\ toKick' \subseteq Person /\ msHeld' \subseteq Person
    BY <1>1, <1>3 DEF GeneratorInv, GeneratorTypeOK, ms
  <2>5. certHeld' \subseteq Person /\ links' \subseteq Person \X Person /\ certs' \subseteq Person \X Person
    BY <1>1, <1>3 DEF GeneratorInv, GeneratorTypeOK, Issuers, CertsAfter
  <2>6. idties' \in [Person -> [kept : BOOLEAN, revocation : BOOLEAN, member : BOOLEAN, was : BOOLEAN]]
    BY <1>1, <1>2 DEF GeneratorInv, GeneratorTypeOK, IdtiesAfter
  <2>7. memberships' \subseteq Membership
    BY <1>1 DEF GeneratorInv, GeneratorTypeOK, MembershipsAfter
  <2> QED BY <2>1, <2>2, <2>3, <2>4, <2>5, <2>6, <2>7 DEF GeneratorTypeOK
<1>6. RowsFollow'
  <2> SUFFICES ASSUME NEW p \in Person, idties'[p].kept
               PROVE  IF idties'[p].was THEN idties'[p].revocation /\ Written(p)' ELSE ~Written(p)' /\ ~idties'[p].member
    BY DEF RowsFollow
  <2>1. idties'[p] = idties[p] /\ p \notin b.identities
    BY <1>1, <1>2 DEF IdtiesAfter, SameUid
  <2>2. Written(p)' <=> Written(p)
    <3>1. status'[p] = IF p \in b.revoked THEN "revoked"
                       ELSE IF member(p) THEN "member" ELSE IF p \in b.excluded THEN "excluded" ELSE status[p]
      BY <1>1
    <3>2. member(p) => Written(p)
      BY <1>4, <2>1 DEF Member, Written
    <3>3. p \in b.excluded => Written(p)
      BY <1>4 DEF Member, Written
    <3> HIDE DEF member
    <3> QED BY <1>4, <3>1, <3>2, <3>3 DEF Written
  <2> QED BY <2>1, <2>2 DEF GeneratorInv, RowsFollow
<1> QED BY <1>5, <1>6 DEF GeneratorInv

LEMMA NextBlockKeeps == ASSUME GeneratorInv, NextBlock PROVE GeneratorInv'
<1>1. PICK b \in GeneratedBlocks \cup OtherBlocks :
         /\ Valid(b)
         /\ \/ \E expired \in {{}} \cup {{c} : c \in links} : AddBlock(b, expired, {}, {})
            \/ \E p \in {q \in Person : Member(q) /\ q \notin b.actives} :
                 \E trimmed \in {{}, {q \in {p} : idties[q].revocation}} : AddBlock(b, {}, {p}, trimmed)
  BY DEF NextBlock
<1>2. height < MaxHeight
  BY DEF NextBlock
<1>3. BlockOK(b)
  BY GeneratedAreBlocks, OthersAreBlocks DEF GeneratorInv
<1>4. \E expired, lapsed, trimmed : AddBlock(b, expired, lapsed, trimmed)
  BY <1>1
<1> QED BY <1>1, <1>2, <1>3, <1>4, AddBlockKeeps

\* Whatever persons, documents and blocks: what a node generates is a block every node accepts, but for the four cases
\* that the property names (BlockGenerator.createBlock beside LOCAL_RULES_FUNCTIONS and the rules of the chain).
THEOREM MadeBlocksPass == GeneratorSpec => []GeneratedBlockIsValid
<1>1. GeneratorInv /\ [GeneratorNext]_generatorVars => GeneratorInv'
  <2> SUFFICES ASSUME GeneratorInv, [GeneratorNext]_generatorVars PROVE GeneratorInv'
    OBVIOUS
  <2>1. ASSUME NEW p \in Person, SubmitIdentity(p) \/ SubmitRevocation(p) PROVE GeneratorInv'
    BY <2>1, SubmitIdentityKeeps, SubmitRevocationKeeps
  <2>2. ASSUME NEW p \in Person, NEW q \in Person, SubmitCertification(p, q) PROVE GeneratorInv'
    BY <2>2, SubmitCertificationKeeps
  <2>3. ASSUME NEW p \in Person, NEW in \in BOOLEAN, SubmitMembership(p, in) PROVE GeneratorInv'
    BY <2>3, SubmitMembershipKeeps
  <2>4. CASE NextBlock
    BY <2>4, NextBlockKeeps
  <2>5. CASE UNCHANGED generatorVars
    BY <2>5, TablesKeep DEF generatorVars, GeneratorInv, GeneratorTypeOK, RowType
  <2> QED BY <2>1, <2>2, <2>3, <2>4, <2>5 DEF GeneratorNext
<1> QED BY <1>1, GeneratorStarts, GeneratedAreValid, PTL DEF GeneratorSpec

----------------------------------------------------------------------------
(***************************************************************************)
(* The proof of the block.  A worker learns of a new proof by a message, of   *)
(* its cancellation by another one and by the file pow.txt, and answers in    *)
(* its own time.  The invariant follows the proof that it was asked for: in   *)
(* its inbox, next, computed or answered, in one of these only, and the       *)
(* master asks for another one after all of them answered or were killed.   *)
(***************************************************************************)
Message == [kind : {"cancel", "newPoW"}, block : Block]
Turns == [run : Block, next : Block, stop : BOOLEAN]
Answer == [block : Block, found : BOOLEAN]
CancelMessage == [kind |-> "cancel", block |-> 0]

Proofs(q) == {i \in 1..Len(q) : q[i].kind = "newPoW"}

\* Nothing is asked of a worker.
Nothing(q, s, a) == Proofs(q) = {} /\ s.next = 0 /\ s.run = 0 /\ a = NoAnswer

\* A worker, with its inbox, state and answer: the proof it was asked for is in one place at a time.
Turn(q, s, a, mine, block) ==
    /\ \A i \in Proofs(q) : mine /\ q[i].block = block /\ s.next = 0 /\ s.run = 0 /\ a = NoAnswer
    /\ \A i, j \in Proofs(q) : i = j
    /\ s.next # 0 => mine /\ s.next = block /\ s.run = 0 /\ a = NoAnswer
    /\ s.run # 0 => mine /\ s.run = block /\ a = NoAnswer
    /\ a # NoAnswer => mine /\ a.block = block

OneByOne == \A w \in Worker : Turn(inbox[w], slave[w], answers[w], w \in asked, proof)
ProvingWorks == loop = "proving" <=> work # "none"
AskedWhileProving == work \notin {"asked", "stopping"} => asked = {}

ProverInv == ProverTypeOK /\ ProvingWorks /\ AskedWhileProving /\ OneByOne

----------------------------------------------------------------------------
(* The turns of a worker. *)

LEMMA NotMine == ASSUME NEW q, NEW s, NEW a, NEW b, Turn(q, s, a, FALSE, b) PROVE Nothing(q, s, a)
  BY DEF Turn, Nothing

LEMMA NothingIsFine == ASSUME NEW q, NEW s, NEW a, Nothing(q, s, a), NEW mine, NEW b PROVE Turn(q, s, a, mine, b)
  BY DEF Turn, Nothing

LEMMA CancelAdded ==
    ASSUME NEW q \in Seq(Message), NEW m \in Message, m.kind = "cancel"
    PROVE  /\ Append(q, m) \in Seq(Message) /\ Proofs(Append(q, m)) = Proofs(q)
           /\ \A i \in Proofs(q) : Append(q, m)[i] = q[i]
<1>1. /\ Append(q, m) \in Seq(Message) /\ Len(Append(q, m)) = Len(q) + 1 /\ Len(q) \in Nat
      /\ Append(q, m)[Len(q) + 1] = m /\ \A i \in 1..Len(q) : Append(q, m)[i] = q[i]
  BY AppendProperties
<1> QED BY <1>1 DEF Proofs

LEMMA ProofAdded ==
    ASSUME NEW q \in Seq(Message), NEW m \in Message, m.kind = "newPoW", NEW s, NEW a, Nothing(q, s, a)
    PROVE  Append(q, m) \in Seq(Message) /\ Turn(Append(q, m), s, a, TRUE, m.block)
<1>1. /\ Append(q, m) \in Seq(Message) /\ Len(Append(q, m)) = Len(q) + 1 /\ Len(q) \in Nat
      /\ Append(q, m)[Len(q) + 1] = m /\ \A i \in 1..Len(q) : Append(q, m)[i] = q[i]
  BY AppendProperties
<1>2. Proofs(Append(q, m)) = {Len(q) + 1}
  BY <1>1 DEF Proofs, Nothing
<1> QED BY <1>1, <1>2 DEF Turn, Nothing

LEMMA HeadRead ==
    ASSUME NEW q \in Seq(Message), q # <<>>
    PROVE  /\ Tail(q) \in Seq(Message) /\ Head(q) \in Message
           /\ Proofs(Tail(q)) = {i - 1 : i \in Proofs(q) \ {1}}
           /\ \A i \in Proofs(Tail(q)) : i + 1 \in Proofs(q) /\ Tail(q)[i] = q[i + 1]
           /\ Head(q).kind = "newPoW" <=> 1 \in Proofs(q)
           /\ Head(q) = q[1]
<1>1. /\ Len(q) \in Nat \ {0} /\ Head(q) = q[1] /\ Tail(q) \in Seq(Message) /\ Len(Tail(q)) = Len(q) - 1
      /\ \A i \in 1..Len(q) - 1 : Tail(q)[i] = q[i + 1]
  OBVIOUS
<1>2. \A i \in Proofs(Tail(q)) : i + 1 \in Proofs(q) /\ Tail(q)[i] = q[i + 1] /\ (i + 1) - 1 = i /\ i + 1 # 1
  BY <1>1 DEF Proofs
<1>3. \A i \in Proofs(q) \ {1} : i - 1 \in Proofs(Tail(q))
  <2> SUFFICES ASSUME NEW i \in Proofs(q) \ {1} PROVE i - 1 \in Proofs(Tail(q))
    OBVIOUS
  <2>1. i - 1 \in 1..Len(q) - 1 /\ (i - 1) + 1 = i /\ q[i].kind = "newPoW"
    BY <1>1 DEF Proofs
  <2>2. Tail(q)[i - 1] = q[i]
    BY <1>1, <2>1
  <2> QED BY <1>1, <2>1, <2>2 DEF Proofs
<1>4. Proofs(Tail(q)) = {i - 1 : i \in Proofs(q) \ {1}}
  BY <1>2, <1>3
<1>5. q[1] \in Message /\ 1 \in 1..Len(q)
  BY <1>1
<1>6. q[1].kind = "newPoW" <=> 1 \in Proofs(q)
  BY <1>5 DEF Proofs
<1> QED BY <1>1, <1>2, <1>4, <1>5, <1>6

LEMMA ReadTurn ==
    ASSUME NEW q \in Seq(Message), q # <<>>, NEW s \in Turns, NEW a, NEW mine \in BOOLEAN, NEW b,
           Turn(q, s, a, mine, b), NEW t \in Turns, t.run = s.run,
           Head(q).kind = "newPoW" => t.next = Head(q).block, Head(q).kind # "newPoW" => t.next = s.next
    PROVE  Turn(Tail(q), t, a, mine, b)
<1>1. /\ \A i \in Proofs(Tail(q)) : i + 1 \in Proofs(q) /\ Tail(q)[i] = q[i + 1]
      /\ Head(q).kind = "newPoW" <=> 1 \in Proofs(q)
      /\ Head(q) = q[1]
  BY HeadRead
<1>2. \A i \in Proofs(Tail(q)) : i \in Nat /\ i + 1 # 1
  BY HeadRead DEF Proofs
<1>3. \A i, j \in Proofs(Tail(q)) : i = j
  <2> SUFFICES ASSUME NEW i \in Proofs(Tail(q)), NEW j \in Proofs(Tail(q)) PROVE i = j
    OBVIOUS
  <2>1. i + 1 = j + 1
    BY <1>1 DEF Turn
  <2> QED BY <1>2, <2>1
<1>4. CASE Head(q).kind = "newPoW"
  <2>1. Proofs(Tail(q)) = {}
    <3> SUFFICES ASSUME NEW i \in Proofs(Tail(q)) PROVE FALSE
      OBVIOUS
    <3>1. i + 1 = 1
      BY <1>1, <1>4 DEF Turn
    <3> QED BY <3>1, <1>2
  <2>2. mine /\ q[1].block = b /\ s.run = 0 /\ a = NoAnswer
    BY <1>1, <1>4 DEF Turn
  <2> QED BY <1>1, <1>4, <2>1, <2>2 DEF Turn
<1>5. CASE Head(q).kind # "newPoW"
  BY <1>1, <1>3, <1>5 DEF Turn
<1> QED BY <1>4, <1>5

----------------------------------------------------------------------------
(* The steps. *)

CancelSent == inbox' = inbox \/ inbox' = [w \in Worker |-> Append(inbox[w], CancelMessage)]

ProverTypes ==
    /\ head \in [num : 0..MaxHead, own : BOOLEAN] /\ resolution \in Block
    /\ events \in Seq([num : 0..MaxHead, own : BOOLEAN])
    /\ loop \in {"top", "toWait", "waiting", "queued", "generating", "proving", "submit", "event"}
    /\ continue \in BOOLEAN /\ delay \in BOOLEAN /\ triggered \in BOOLEAN
    /\ current \in BOOLEAN /\ overtaken \in BOOLEAN /\ found \in BOOLEAN
    /\ resolver \in {"none", "wait", "canceller", "spent"}
    /\ proof \in Block /\ last \in Block /\ file \in Block
    /\ work \in {"none", "file", "online", "asked", "stopping", "orphan"}
    /\ asked \subseteq Worker /\ cluster \in {"none", "starting", "online"}
    /\ cancels \in Seq(Cancellation) /\ blanks \in Nat /\ stops \in Nat
    /\ inbox \in [Worker -> Seq(Message)] /\ slave \in [Worker -> Turns] /\ answers \in [Worker -> Answer]

LEMMA Typed == (ProverTypeOK <=> ProverTypes) /\ (ProverTypeOK' <=> ProverTypes')
  BY DEF ProverTypeOK, ProverTypes, Message, Turns, Answer

LEMMA CancelsAreSent ==
    ASSUME ProverInv, CancelSent, UNCHANGED <<slave, answers, asked, proof>>
    PROVE  inbox' \in [Worker -> Seq(Message)] /\ OneByOne'
<1>1. inbox \in [Worker -> Seq(Message)] /\ CancelMessage \in Message /\ CancelMessage.kind = "cancel"
  <2>1. 0 \in Block
    BY ProverAssumption DEF Block
  <2> QED BY <2>1, Typed DEF ProverInv, ProverTypes, Message, CancelMessage
<1>2. CASE inbox' = inbox
  BY <1>1, <1>2 DEF ProverInv, OneByOne
<1>3. CASE inbox' = [w \in Worker |-> Append(inbox[w], CancelMessage)]
  <2>1. ASSUME NEW w \in Worker
        PROVE  /\ inbox'[w] = Append(inbox[w], CancelMessage) /\ inbox'[w] \in Seq(Message)
               /\ Proofs(inbox'[w]) = Proofs(inbox[w]) /\ \A i \in Proofs(inbox[w]) : inbox'[w][i] = inbox[w][i]
    BY <1>1, <1>3, CancelAdded
  <2>2. inbox' \in [Worker -> Seq(Message)]
    BY <1>3, <2>1
  <2>3. ASSUME NEW w \in Worker PROVE Turn(inbox'[w], slave[w], answers[w], w \in asked, proof)
    <3>1. Turn(inbox[w], slave[w], answers[w], w \in asked, proof)
      BY DEF ProverInv, OneByOne
    <3> QED BY <2>1, <3>1 DEF Turn
  <2> QED BY <2>2, <2>3 DEF OneByOne
<1> QED BY <1>2, <1>3 DEF CancelSent

\* Nothing is asked of any worker when the master awaits none.
LEMMA NoneAsked ==
    ASSUME ProverInv, asked = {}
    PROVE  \A w \in Worker : Nothing(inbox[w], slave[w], answers[w])
<1> SUFFICES ASSUME NEW w \in Worker PROVE Nothing(inbox[w], slave[w], answers[w])
  OBVIOUS
<1>1. Turn(inbox[w], slave[w], answers[w], w \in asked, proof) /\ w \notin asked
  BY DEF ProverInv, OneByOne
<1> QED BY <1>1 DEF Turn, Nothing

LEMMA ProverStarts == ProverInit => ProverInv
<1> SUFFICES ASSUME ProverInit PROVE ProverInv
  OBVIOUS
<1>1. 0 \in Block /\ 0 \in 0..MaxHead
  BY ProverAssumption DEF Block
<1>2. ProverTypeOK
  <2>1. inbox \in [Worker -> Seq(Message)] /\ events \in Seq([num : 0..MaxHead, own : BOOLEAN]) /\ cancels \in Seq(Cancellation)
    BY DEF ProverInit
  <2>2. slave \in [Worker -> Turns] /\ answers \in [Worker -> Answer]
    BY <1>1 DEF ProverInit, Idle, NoAnswer, Turns, Answer
  <2>3. head \in [num : 0..MaxHead, own : BOOLEAN]
    BY <1>1 DEF ProverInit
  <2> QED BY <1>1, <2>1, <2>2, <2>3, Typed DEF ProverInit, ProverTypes
<1>3. \A w \in Worker : Nothing(inbox[w], slave[w], answers[w])
  BY DEF ProverInit, Nothing, Proofs, Idle
<1>4. OneByOne
  BY <1>3, NothingIsFine DEF OneByOne
<1> QED BY <1>2, <1>4 DEF ProverInv, ProvingWorks, AskedWhileProving, ProverInit

\* A step that asks nothing of the workers.
LEMMA CalmStep ==
    ASSUME ProverInv, ProverTypeOK', ProvingWorks', CancelSent, UNCHANGED <<slave, answers, asked, proof>>,
           work' = work \/ asked = {}
    PROVE  ProverInv'
<1>1. OneByOne'
  BY CancelsAreSent
<1>2. AskedWhileProving'
  BY DEF ProverInv, AskedWhileProving
<1> QED BY <1>1, <1>2 DEF ProverInv

LEMMA CheckKeeps == ASSUME ProverInv, Check PROVE ProverInv'
<1>1. ProverTypeOK'
  <2>1. delay' = delay \/ delay' \in {TRUE, FALSE}
    BY DEF Check
  <2>2. resolver' = resolver \/ resolver' = "canceller"
    BY DEF Check
  <2>3. triggered' = triggered \/ triggered' = FALSE
    BY DEF Check
  <2>4. delay' \in BOOLEAN /\ triggered' \in BOOLEAN /\ resolver' \in {"none", "wait", "canceller", "spent"}
    BY <2>1, <2>2, <2>3, Typed DEF ProverInv, ProverTypes
  <2>5. loop' \in {"toWait", "queued"} /\ UNCHANGED <<chainVars, fileVars, slaveVars, workVars, continue, proof, last, cancels, stops>>
    BY DEF Check
  <2> QED BY <2>4, <2>5, Typed DEF ProverInv, chainVars, fileVars, slaveVars, workVars, ProverTypes
<1> QED BY <1>1, CalmStep DEF ProverInv, Check, CancelSent, ProvingWorks, chainVars, fileVars, slaveVars, workVars

LEMMA WaitKeeps == ASSUME ProverInv, Wait PROVE ProverInv'
<1>1. ProverTypeOK'
  BY Typed DEF ProverInv, Wait, chainVars, fileVars, slaveVars, workVars, ProverTypes
<1> QED BY <1>1, CalmStep DEF ProverInv, Wait, CancelSent, ProvingWorks, chainVars, fileVars, slaveVars, workVars

LEMMA GenerateKeeps == ASSUME ProverInv, Generate PROVE ProverInv'
<1>1. ProverTypeOK'
  BY Typed DEF ProverInv, Generate, chainVars, fileVars, slaveVars, workVars, ProverTypes
<1> QED BY <1>1, CalmStep DEF ProverInv, Generate, CancelSent, ProvingWorks, chainVars, fileVars, slaveVars, workVars

LEMMA TimerKeeps == ASSUME ProverInv, Timer PROVE ProverInv'
<1>1. ProverTypeOK'
  BY Typed DEF ProverInv, Timer, chainVars, fileVars, slaveVars, workVars, ProverTypes
<1> QED BY <1>1, CalmStep DEF ProverInv, Timer, CancelSent, ProvingWorks, chainVars, fileVars, slaveVars, workVars

LEMMA StartServiceKeeps == ASSUME ProverInv, StartService PROVE ProverInv'
<1>1. ProverTypeOK'
  BY Typed DEF ProverInv, StartService, chainVars, fileVars, slaveVars, workVars, ProverTypes
<1> QED BY <1>1, CalmStep DEF ProverInv, StartService, CancelSent, ProvingWorks, chainVars, fileVars, slaveVars, workVars

LEMMA SubmitKeeps == ASSUME ProverInv, Submit PROVE ProverInv'
<1>1. ProverTypeOK'
  BY Typed DEF ProverInv, Submit, chainVars, fileVars, slaveVars, workVars, ProverTypes
<1> QED BY <1>1, CalmStep DEF ProverInv, Submit, CancelSent, ProvingWorks, chainVars, fileVars, slaveVars, workVars

LEMMA WriteBlankKeeps == ASSUME ProverInv, WriteBlank PROVE ProverInv'
<1>1. 0 \in Block
  BY ProverAssumption DEF Block
<1>2. ProverTypeOK'
  BY <1>1, Typed DEF ProverInv, WriteBlank, loopVars, chainVars, slaveVars, workVars, ProverTypes
<1> QED BY <1>2, CalmStep DEF ProverInv, WriteBlank, CancelSent, ProvingWorks, loopVars, chainVars, slaveVars, workVars

LEMMA WriteCurrentKeeps == ASSUME ProverInv, WriteCurrent PROVE ProverInv'
<1>1. ProverTypeOK'
  BY Typed DEF ProverInv, WriteCurrent, loopVars, chainVars, slaveVars, ProverTypes
<1>2. asked = {}
  BY DEF WriteCurrent, ProverInv, AskedWhileProving
<1> QED BY <1>1, <1>2, CalmStep DEF ProverInv, WriteCurrent, CancelSent, ProvingWorks, loopVars, chainVars, slaveVars

LEMMA WorkersOnlineKeeps == ASSUME ProverInv, WorkersOnline PROVE ProverInv'
<1>1. ProverTypeOK'
  BY Typed DEF ProverInv, WorkersOnline, loopVars, chainVars, fileVars, slaveVars, ProverTypes
<1> QED BY <1>1, CalmStep DEF ProverInv, WorkersOnline, CancelSent, ProvingWorks, loopVars, chainVars, fileVars, slaveVars

\* The cancellations in progress.
LEMMA ReleasedAreTyped == ASSUME ProverInv PROVE Released \in Seq(Cancellation)
<1>1. cancels \in Seq(Cancellation)
  BY Typed DEF ProverInv, ProverTypes
<1>2. Len(cancels) \in Nat /\ DOMAIN cancels = 1..Len(cancels) /\ \A i \in 1..Len(cancels) : cancels[i] \in Cancellation
  BY <1>1
<1>3. \A i \in 1..Len(cancels) : [cancels[i] EXCEPT !.waits = FALSE] \in Cancellation
  BY <1>2 DEF Cancellation
<1> QED BY <1>2, <1>3 DEF Released

LEMMA EndOfWorkKeeps ==
    ASSUME ProverInv, NEW ok \in BOOLEAN, EndOfWork(ok), work # "none", asked = {},
           UNCHANGED <<chainVars, fileVars, slaveVars, continue, delay, resolver, triggered, proof,
                       current, overtaken, asked, found, cluster, stops>>
    PROVE  ProverInv'
<1>1. cancels' \in Seq(Cancellation) /\ last' \in Block /\ loop' \in {"submit", "top"} /\ work' = "none"
  BY ReleasedAreTyped, Typed DEF EndOfWork, ProverInv, ProverTypes
<1>2. ProverTypeOK'
  BY <1>1, Typed DEF ProverInv, chainVars, fileVars, slaveVars, ProverTypes
<1> QED BY <1>1, <1>2, CalmStep DEF CancelSent, ProvingWorks, chainVars, fileVars, slaveVars

LEMMA CanceledInInitKeeps == ASSUME ProverInv, CanceledInInit PROVE ProverInv'
  BY EndOfWorkKeeps DEF CanceledInInit, ProverInv, AskedWhileProving

LEMMA AllStoppedKeeps == ASSUME ProverInv, AllStopped PROVE ProverInv'
<1>1. found \in BOOLEAN
  BY Typed DEF ProverInv, ProverTypes
<1> QED BY <1>1, EndOfWorkKeeps DEF AllStopped

LEMMA AskWorkersKeeps == ASSUME ProverInv, AskWorkers PROVE ProverInv'
<1>1. asked = {} /\ work = "online"
  BY DEF AskWorkers, ProverInv, AskedWhileProving
<1>2. UNCHANGED <<loopVars, chainVars, fileVars, slave, answers, current, overtaken, cluster, cancels, stops>>
      /\ work' \in {"orphan", "asked"}
  BY DEF AskWorkers
<1>3. found' \in BOOLEAN
  BY DEF AskWorkers
<1>4. CASE cluster = "none"
  <2>1. asked' = {} /\ inbox' = inbox
    BY <1>4 DEF AskWorkers
  <2>2. ProverTypeOK'
    BY <1>2, <1>3, <2>1, Typed DEF ProverInv, loopVars, chainVars, fileVars, ProverTypes
  <2> QED BY <1>1, <1>2, <2>1, <2>2, CalmStep DEF ProverInv, CancelSent, ProvingWorks, loopVars
<1>5. CASE cluster # "none"
  <2>1. asked' = Worker /\ work' = "asked"
        /\ inbox' = [w \in Worker |-> Append(inbox[w], [kind |-> "newPoW", block |-> proof])]
    BY <1>5 DEF AskWorkers
  <2> DEFINE m == [kind |-> "newPoW", block |-> proof]
  <2>2. m \in Message /\ m.kind = "newPoW" /\ m.block = proof /\ inbox \in [Worker -> Seq(Message)]
    BY Typed DEF ProverInv, ProverTypes, Message
  <2> HIDE DEF m
  <2>3. \A w \in Worker : inbox'[w] = Append(inbox[w], m)
    BY <2>1 DEF m
  <2>4. ASSUME NEW w \in Worker
        PROVE  inbox'[w] \in Seq(Message) /\ Turn(inbox'[w], slave[w], answers[w], TRUE, proof)
    <3>1. Nothing(inbox[w], slave[w], answers[w])
      BY <1>1, NoneAsked
    <3> QED BY <2>2, <2>3, <3>1, ProofAdded
  <2>5. inbox' \in [Worker -> Seq(Message)]
    BY <2>1, <2>4
  <2>6. ProverTypeOK'
    BY <1>2, <1>3, <2>1, <2>5, Typed DEF ProverInv, loopVars, chainVars, fileVars, ProverTypes
  <2>7. OneByOne'
    <3> SUFFICES ASSUME NEW w \in Worker PROVE Turn(inbox'[w], slave'[w], answers'[w], w \in asked', proof')
      BY DEF OneByOne
    <3>1. (w \in asked') = TRUE /\ slave' = slave /\ answers' = answers /\ proof' = proof
      BY <1>2, <2>1 DEF loopVars
    <3> QED BY <2>4, <3>1
  <2> QED BY <1>1, <1>2, <2>1, <2>6, <2>7 DEF ProverInv, ProvingWorks, AskedWhileProving, loopVars
<1> QED BY <1>4, <1>5

\* A step of one worker.
LEMMA WorkerStepKeeps ==
    ASSUME ProverInv, NEW w \in Worker, UNCHANGED <<loopVars, chainVars, fileVars, workVars, cancels, stops>>,
           inbox' \in [Worker -> Seq(Message)], slave' \in [Worker -> Turns], answers' \in [Worker -> Answer],
           \A v \in Worker \ {w} : inbox'[v] = inbox[v] /\ slave'[v] = slave[v] /\ answers'[v] = answers[v],
           Turn(inbox'[w], slave'[w], answers'[w], w \in asked, proof)
    PROVE  ProverInv'
<1>1. ProverTypeOK'
  BY Typed DEF ProverInv, loopVars, chainVars, fileVars, workVars, ProverTypes
<1>2. OneByOne'
  <2> SUFFICES ASSUME NEW v \in Worker PROVE Turn(inbox'[v], slave'[v], answers'[v], v \in asked', proof')
    BY DEF OneByOne
  <2>1. asked' = asked /\ proof' = proof
    BY DEF workVars, loopVars
  <2>2. CASE v = w
    BY <2>1, <2>2
  <2>3. CASE v # w
    BY <2>1, <2>3 DEF ProverInv, OneByOne
  <2> QED BY <2>2, <2>3
<1> QED BY <1>1, <1>2 DEF ProverInv, ProvingWorks, AskedWhileProving, workVars, loopVars

LEMMA ReceiveKeeps == ASSUME ProverInv, NEW w \in Worker, Receive(w) PROVE ProverInv'
<1> DEFINE m == Head(inbox[w])
           t == CASE m.kind = "newPoW" -> [slave[w] EXCEPT !.next = m.block, !.stop = TRUE]
                  [] m.kind = "cancel" -> [slave[w] EXCEPT !.stop = @ \/ slave[w].run # 0]
<1>1. inbox \in [Worker -> Seq(Message)] /\ slave \in [Worker -> Turns] /\ answers \in [Worker -> Answer]
  BY Typed DEF ProverInv, ProverTypes
<1>2. inbox[w] # <<>> /\ inbox' = [inbox EXCEPT ![w] = Tail(@)] /\ slave' = [slave EXCEPT ![w] = t] /\ answers' = answers
  BY DEF Receive
<1>3. m \in Message /\ Tail(inbox[w]) \in Seq(Message)
  BY <1>1, <1>2, HeadRead
<1>4. t \in Turns /\ t.run = slave[w].run /\ (m.kind = "newPoW" => t.next = m.block) /\ (m.kind # "newPoW" => t.next = slave[w].next)
  <2>1. CASE m.kind = "newPoW"
    BY <1>1, <1>3, <2>1 DEF Turns, Message
  <2>2. CASE m.kind = "cancel"
    <3>1. (slave[w].stop \/ slave[w].run # 0) \in BOOLEAN
      BY <1>1 DEF Turns
    <3>2. m.kind # "newPoW"
      BY <2>2
    <3>3. t = [slave[w] EXCEPT !.stop = @ \/ slave[w].run # 0]
      BY <2>2, <3>2
    <3> HIDE DEF t, m
    <3> QED BY <1>1, <2>2, <3>1, <3>2, <3>3 DEF Turns
  <2> QED BY <1>3, <2>1, <2>2 DEF Message
<1> HIDE DEF t, m
<1>5. Turn(Tail(inbox[w]), t, answers[w], w \in asked, proof)
  <2>1. Turn(inbox[w], slave[w], answers[w], w \in asked, proof)
    BY DEF ProverInv, OneByOne
  <2>2. (w \in asked) \in BOOLEAN /\ slave[w] \in Turns /\ inbox[w] \in Seq(Message)
    BY <1>1
  <2> QED BY <1>2, <1>4, <2>1, <2>2, ReadTurn DEF m
<1>6. inbox'[w] = Tail(inbox[w]) /\ slave'[w] = t
      /\ \A v \in Worker \ {w} : inbox'[v] = inbox[v] /\ slave'[v] = slave[v] /\ answers'[v] = answers[v]
  BY <1>1, <1>2
<1>7. inbox' \in [Worker -> Seq(Message)] /\ slave' \in [Worker -> Turns]
  BY <1>1, <1>2, <1>3, <1>4
<1>8. UNCHANGED <<loopVars, chainVars, fileVars, workVars, cancels, stops>>
  BY DEF Receive
<1> QED BY <1>1, <1>2, <1>5, <1>6, <1>7, <1>8, WorkerStepKeeps

LEMMA BeginKeeps == ASSUME ProverInv, NEW w \in Worker, Begin(w) PROVE ProverInv'
<1> DEFINE t == [run |-> slave[w].next, next |-> 0, stop |-> FALSE]
<1>1. inbox \in [Worker -> Seq(Message)] /\ slave \in [Worker -> Turns] /\ answers \in [Worker -> Answer]
  BY Typed DEF ProverInv, ProverTypes
<1>2. t \in Turns
  BY <1>1, ProverAssumption DEF Turns, Block
<1>3. slave' = [slave EXCEPT ![w] = t] /\ slave[w].next # 0 /\ slave[w].run = 0
      /\ UNCHANGED <<loopVars, chainVars, fileVars, workVars, inbox, answers, cancels, stops>>
  BY DEF Begin
<1>4. Turn(inbox[w], t, answers[w], w \in asked, proof)
  <2>1. Turn(inbox[w], slave[w], answers[w], w \in asked, proof)
    BY DEF ProverInv, OneByOne
  <2>2. t.run = slave[w].next /\ t.next = 0
    OBVIOUS
  <2> HIDE DEF t
  <2> QED BY <1>3, <2>1, <2>2 DEF Turn
<1> HIDE DEF t
<1>5. slave' \in [Worker -> Turns] /\ slave'[w] = t /\ \A v \in Worker \ {w} : slave'[v] = slave[v]
  BY <1>1, <1>2, <1>3
<1> QED BY <1>1, <1>3, <1>4, <1>5, WorkerStepKeeps

LEMMA CheckFileKeeps == ASSUME ProverInv, NEW w \in Worker, CheckFile(w) PROVE ProverInv'
<1>1. inbox \in [Worker -> Seq(Message)] /\ slave \in [Worker -> Turns] /\ answers \in [Worker -> Answer]
  BY Typed DEF ProverInv, ProverTypes
<1>2. slave' = [slave EXCEPT ![w].stop = TRUE]
      /\ UNCHANGED <<loopVars, chainVars, fileVars, workVars, inbox, answers, cancels, stops>>
  BY DEF CheckFile
<1>3. slave' \in [Worker -> Turns] /\ slave'[w].run = slave[w].run /\ slave'[w].next = slave[w].next
      /\ \A v \in Worker \ {w} : slave'[v] = slave[v]
  BY <1>1, <1>2 DEF Turns
<1>4. Turn(inbox[w], slave'[w], answers[w], w \in asked, proof)
  <2>1. Turn(inbox[w], slave[w], answers[w], w \in asked, proof)
    BY DEF ProverInv, OneByOne
  <2> QED BY <1>3, <2>1 DEF Turn
<1> QED BY <1>1, <1>2, <1>3, <1>4, WorkerStepKeeps

LEMMA ComputeKeeps == ASSUME ProverInv, NEW w \in Worker, Compute(w) PROVE ProverInv'
<1>1. inbox \in [Worker -> Seq(Message)] /\ slave \in [Worker -> Turns] /\ answers \in [Worker -> Answer] /\ 0 \in Block
  BY Typed, ProverAssumption DEF ProverInv, ProverTypes, Block
<1>2. PICK ok \in BOOLEAN : answers' = [answers EXCEPT ![w] = [block |-> slave[w].run, found |-> ok]]
  BY DEF Compute
<1>3. slave' = [slave EXCEPT ![w].run = 0, ![w].stop = FALSE] /\ slave[w].run # 0 /\ answers[w] = NoAnswer
      /\ UNCHANGED <<loopVars, chainVars, fileVars, workVars, inbox, cancels, stops>>
  BY DEF Compute
<1>4. slave' \in [Worker -> Turns] /\ slave'[w].run = 0 /\ slave'[w].next = slave[w].next
      /\ \A v \in Worker \ {w} : slave'[v] = slave[v]
  BY <1>1, <1>3 DEF Turns
<1>5. answers' \in [Worker -> Answer] /\ answers'[w].block = slave[w].run /\ \A v \in Worker \ {w} : answers'[v] = answers[v]
  BY <1>1, <1>2 DEF Answer, Turns
<1>6. Turn(inbox[w], slave'[w], answers'[w], w \in asked, proof)
  <2>1. Turn(inbox[w], slave[w], answers[w], w \in asked, proof)
    BY DEF ProverInv, OneByOne
  <2> QED BY <1>3, <1>4, <1>5, <2>1 DEF Turn
<1> QED BY <1>1, <1>3, <1>4, <1>5, <1>6, WorkerStepKeeps

LEMMA AnsweredKeeps == ASSUME ProverInv, NEW w \in Worker, Answered(w) PROVE ProverInv'
<1>1. /\ answers[w] # NoAnswer /\ answers' = [answers EXCEPT ![w] = NoAnswer] /\ asked' = asked \ {w}
      /\ UNCHANGED <<loopVars, chainVars, file, slave, current, overtaken, cluster, cancels, stops>>
  BY DEF Answered
<1>2. CancelSent /\ work \in {"asked", "stopping"} /\ work' = "stopping" /\ (blanks' = blanks \/ blanks' = blanks + 1)
  BY DEF Answered, CancelSent, CancelWorkersWork, CancelMessage
<1>3. inbox \in [Worker -> Seq(Message)] /\ answers \in [Worker -> Answer] /\ NoAnswer \in Answer /\ answers[w].found \in BOOLEAN
      /\ CancelMessage \in Message /\ CancelMessage.kind = "cancel"
  <2>1. 0 \in Block
    BY ProverAssumption DEF Block
  <2>2. inbox \in [Worker -> Seq(Message)] /\ answers \in [Worker -> Answer]
    BY Typed DEF ProverInv, ProverTypes
  <2>3. answers[w].found \in BOOLEAN
    BY <2>2 DEF Answer
  <2>4. NoAnswer \in Answer
    BY <2>1 DEF NoAnswer, Answer
  <2>5. CancelMessage \in Message /\ CancelMessage.kind = "cancel"
    BY <2>1 DEF CancelMessage, Message
  <2> QED BY <2>2, <2>3, <2>4, <2>5
<1>4. found' \in BOOLEAN
  <2>1. found' = found \/ found' = answers[w].found
    BY DEF Answered
  <2> QED BY <1>3, <2>1, Typed DEF ProverInv, ProverTypes
<1>5. ASSUME NEW v \in Worker
      PROVE  /\ inbox'[v] \in Seq(Message) /\ Proofs(inbox'[v]) = Proofs(inbox[v])
             /\ \A i \in Proofs(inbox[v]) : inbox'[v][i] = inbox[v][i]
  <2>1. CASE inbox' = inbox
    BY <1>3, <2>1
  <2>2. CASE inbox' = [x \in Worker |-> Append(inbox[x], CancelMessage)]
    <3>1. inbox'[v] = Append(inbox[v], CancelMessage) /\ inbox[v] \in Seq(Message)
      BY <1>3, <2>2
    <3> QED BY <1>3, <3>1, CancelAdded
  <2> QED BY <1>2, <2>1, <2>2 DEF CancelSent
<1>6. inbox' \in [Worker -> Seq(Message)] /\ answers' \in [Worker -> Answer]
  <2>1. inbox' = [v \in Worker |-> inbox'[v]]
    BY <1>2, <1>3 DEF CancelSent
  <2> QED BY <1>1, <1>3, <1>5, <2>1
<1>7. ProverTypeOK'
  <2>1. asked' \subseteq Worker /\ blanks' \in Nat
    BY <1>1, <1>2, Typed DEF ProverInv, ProverTypes
  <2> QED BY <1>1, <1>2, <1>4, <1>6, <2>1, Typed DEF ProverInv, loopVars, chainVars, ProverTypes
<1>8. OneByOne'
  <2> SUFFICES ASSUME NEW v \in Worker PROVE Turn(inbox'[v], slave'[v], answers'[v], v \in asked', proof')
    BY DEF OneByOne
  <2>1. Turn(inbox[v], slave[v], answers[v], v \in asked, proof) /\ slave' = slave /\ proof' = proof
    BY <1>1 DEF ProverInv, OneByOne, loopVars
  <2>2. CASE v = w
    <3>1. answers'[w] = NoAnswer
      BY <1>1, <1>3
    <3>2. Nothing(inbox'[w], slave[w], answers'[w])
      BY <1>1, <1>5, <2>1, <2>2, <3>1 DEF Turn, Nothing
    <3> QED BY <2>1, <2>2, <3>2, NothingIsFine
  <2>3. CASE v # w
    <3>1. answers'[v] = answers[v] /\ (v \in asked' <=> v \in asked)
      BY <1>1, <1>3, <2>3
    <3> QED BY <1>5, <2>1, <3>1 DEF Turn
  <2> QED BY <2>2, <2>3
<1> QED BY <1>1, <1>2, <1>7, <1>8 DEF ProverInv, ProvingWorks, AskedWhileProving, loopVars

LEMMA GeneratedKeeps == ASSUME ProverInv, Generated PROVE ProverInv'
<1>1. loop = "generating" /\ work = "none" /\ asked = {}
  BY DEF Generated, ProverInv, ProvingWorks, AskedWhileProving
<1>2. UNCHANGED <<chainVars, continue, delay, resolver, triggered, last, asked, found, cancels, file, slave, answers, stops>>
  BY DEF Generated
<1>3. CASE Prove(head.num + 1)
  <2>1. /\ CancelSent /\ blanks' = blanks + 1 /\ proof' = head.num + 1 /\ loop' = "proving" /\ work' = "file"
        /\ cluster' \in {cluster, "starting"}
    BY <1>3 DEF Prove, CancelSent, CancelMessage
  <2>2. current' \in BOOLEAN /\ overtaken' \in BOOLEAN
    BY <1>3 DEF Prove
  <2>3. head \in [num : 0..MaxHead, own : BOOLEAN]
    BY Typed DEF ProverInv, ProverTypes
  <2>4. head.num + 1 \in Block
    BY <2>3, ProverAssumption DEF Block
  <2>5. \A w \in Worker : Nothing(inbox[w], slave[w], answers[w])
    BY <1>1, NoneAsked
  <2>6. inbox \in [Worker -> Seq(Message)] /\ CancelMessage \in Message /\ CancelMessage.kind = "cancel"
    <3>1. 0 \in Block
      BY ProverAssumption DEF Block
    <3> QED BY <3>1, Typed DEF ProverInv, ProverTypes, Message, CancelMessage
  <2>7. ASSUME NEW w \in Worker PROVE inbox'[w] \in Seq(Message) /\ Proofs(inbox'[w]) = {}
    <3>1. Proofs(inbox[w]) = {} /\ inbox[w] \in Seq(Message)
      BY <2>5, <2>6 DEF Nothing
    <3>2. inbox'[w] = inbox[w] \/ inbox'[w] = Append(inbox[w], CancelMessage)
      BY <2>1 DEF CancelSent
    <3> QED BY <2>6, <3>1, <3>2, CancelAdded
  <2>8. inbox' = [w \in Worker |-> inbox'[w]]
    BY <2>1, <2>6 DEF CancelSent
  <2>9. ProverTypeOK'
    <3>1. blanks' \in Nat /\ cluster' \in {"none", "starting", "online"}
      BY <2>1, Typed DEF ProverInv, ProverTypes
    <3>2. inbox' \in [Worker -> Seq(Message)]
      BY <2>7, <2>8
    <3>3. proof' \in Block
      BY <2>1, <2>4
    <3>4. loop' = "proving" /\ work' = "file"
      BY <2>1
    <3> QED BY <1>2, <2>2, <3>1, <3>2, <3>3, <3>4, Typed DEF ProverInv, chainVars, ProverTypes
  <2>10. OneByOne'
    <3> SUFFICES ASSUME NEW w \in Worker PROVE Turn(inbox'[w], slave'[w], answers'[w], w \in asked', proof')
      BY DEF OneByOne
    <3>1. Nothing(inbox'[w], slave'[w], answers'[w])
      BY <1>2, <2>5, <2>7 DEF Nothing
    <3> QED BY <3>1, NothingIsFine
  <2> QED BY <1>1, <1>2, <2>1, <2>9, <2>10 DEF ProverInv, ProvingWorks, AskedWhileProving
<1>4. CASE loop' = "top" /\ UNCHANGED <<inbox, cluster, blanks, proof, current, overtaken, work>>
  <2>1. ProverTypeOK'
    BY <1>2, <1>4, Typed DEF ProverInv, chainVars, ProverTypes
  <2> QED BY <1>1, <1>2, <1>4, <2>1, CalmStep DEF CancelSent, ProvingWorks
<1> QED BY <1>3, <1>4 DEF Generated

\* What a cancellation changes.
CancelTypes == current' \in BOOLEAN /\ overtaken' \in BOOLEAN /\ blanks' \in Nat /\ cancels' \in Seq(Cancellation)

LEMMA CancelWorkIsTyped ==
    ASSUME ProverInv, NEW before \in Seq(Cancellation), NEW then \in {"nothing", "resolve", "shutdown", "kill"},
           CancelWork(before, then)
    PROVE  CancelSent /\ CancelTypes
<1>1. CancelSent /\ blanks' = blanks + 1
  BY DEF CancelWork, CancelWorkersWork, CancelSent, CancelMessage
<1>2. current' \in BOOLEAN
  BY DEF CancelWork
<1>3. overtaken' \in BOOLEAN
  BY DEF CancelWork
<1> DEFINE c == [waits |-> current /\ Working /\ work # "file", then |-> then]
<1>4. c \in Cancellation
  <2>1. (current /\ Working /\ work # "file") \in BOOLEAN
    BY Typed DEF ProverInv, ProverTypes, Working
  <2> QED BY <2>1 DEF Cancellation
<1>5. cancels' = Append(before, c)
  BY DEF CancelWork
<1> HIDE DEF c
<1>6. cancels' \in Seq(Cancellation)
  BY <1>4, <1>5, AppendProperties
<1>7. blanks' \in Nat
  BY <1>1, Typed DEF ProverInv, ProverTypes
<1> QED BY <1>1, <1>2, <1>3, <1>6, <1>7 DEF CancelTypes

LEMMA FireResolverIsTyped ==
    ASSUME ProverInv, NEW before \in Seq(Cancellation), FireResolver(before)
    PROVE  /\ CancelSent /\ CancelTypes
           /\ resolver' \in {"none", "wait", "canceller", "spent"} /\ triggered' \in BOOLEAN
           /\ loop' = loop \/ (loop = "waiting" /\ loop' = "top")
<1>1. resolver' \in {"none", "wait", "canceller", "spent"} /\ (loop' = loop \/ (loop = "waiting" /\ loop' = "top"))
  BY DEF FireResolver
<1>2. triggered' \in BOOLEAN
  BY DEF FireResolver
<1>3. CASE resolver = "canceller" /\ Farm
  <2>1. CancelWork(before, "nothing")
    BY <1>3 DEF FireResolver
  <2> QED BY <1>1, <1>2, <2>1, CancelWorkIsTyped
<1>4. CASE ~(resolver = "canceller" /\ Farm)
  <2>1. cancels' = before /\ UNCHANGED <<inbox, blanks, current, overtaken>>
    BY <1>4 DEF FireResolver
  <2> QED BY <1>1, <1>2, <2>1, Typed DEF CancelSent, CancelTypes, ProverInv, ProverTypes
<1> QED BY <1>3, <1>4

Wakes == loop' = loop \/ (loop = "waiting" /\ loop' = "top")
Hears == events' = events \/ (events # <<>> /\ events' = Tail(events))
still == <<head, resolution, file, slave, answers, delay, proof, last, work, asked, found, cluster>>

\* A step of a cancellation, or of what it sends.
LEMMA CancelStep ==
    ASSUME ProverInv, CancelSent, CancelTypes,
           resolver' \in {"none", "wait", "canceller", "spent"}, triggered' \in BOOLEAN, continue' \in BOOLEAN,
           Wakes, Hears, stops' \in Nat, UNCHANGED still
    PROVE  ProverInv'
<1>1. events' \in Seq([num : 0..MaxHead, own : BOOLEAN])
  <2>1. events \in Seq([num : 0..MaxHead, own : BOOLEAN])
    BY Typed DEF ProverInv, ProverTypes
  <2>2. events # <<>> => Tail(events) \in Seq([num : 0..MaxHead, own : BOOLEAN])
    BY <2>1, HeadTailProperties
  <2> QED BY <2>1, <2>2 DEF Hears
<1>2. inbox' \in [Worker -> Seq(Message)]
  BY CancelsAreSent DEF still
<1>3. loop' \in {"top", "toWait", "waiting", "queued", "generating", "proving", "submit", "event"}
  BY Typed DEF ProverInv, ProverTypes, Wakes
<1>4. ProverTypeOK'
  BY <1>1, <1>2, <1>3, Typed DEF ProverInv, CancelTypes, ProverTypes, still
<1>5. ProvingWorks'
  BY DEF ProverInv, ProvingWorks, still, Wakes
<1> QED BY <1>4, <1>5, CalmStep DEF still

LEMMA BlockchainChangedKeeps == ASSUME ProverInv, BlockchainChanged PROVE ProverInv'
<1> DEFINE e == Head(events)
<1>1. events # <<>> /\ events' = Tail(events)
      /\ UNCHANGED <<head, resolution, file, slave, answers, continue, delay, proof, last, work, asked, found, cluster, stops>>
  BY DEF BlockchainChanged
<1>5. UNCHANGED still /\ continue' = continue /\ stops' = stops
  BY <1>1 DEF still
<1>2. \/ UNCHANGED <<cancels, inbox, blanks, current, overtaken, resolver, loop, triggered>>
      \/ CancelWork(cancels, "resolve") /\ UNCHANGED <<resolver, loop, triggered>>
      \/ FireResolver(cancels)
  BY DEF BlockchainChanged
<1>3. /\ cancels \in Seq(Cancellation) /\ blanks \in Nat /\ current \in BOOLEAN /\ overtaken \in BOOLEAN
      /\ resolver \in {"none", "wait", "canceller", "spent"} /\ triggered \in BOOLEAN /\ continue \in BOOLEAN /\ stops \in Nat
  BY Typed DEF ProverInv, ProverTypes
<1>4. CancelSent /\ CancelTypes /\ resolver' \in {"none", "wait", "canceller", "spent"} /\ triggered' \in BOOLEAN
      /\ Wakes
  <2>1. CASE UNCHANGED <<cancels, inbox, blanks, current, overtaken, resolver, loop, triggered>>
    BY <1>3, <2>1 DEF CancelSent, CancelTypes, Wakes
  <2>2. CASE CancelWork(cancels, "resolve") /\ UNCHANGED <<resolver, loop, triggered>>
    BY <1>3, <2>2, CancelWorkIsTyped DEF Wakes
  <2>3. CASE FireResolver(cancels)
    BY <1>3, <2>3, FireResolverIsTyped DEF Wakes
  <2> QED BY <1>2, <2>1, <2>2, <2>3
<1>6. continue' \in BOOLEAN /\ stops' \in Nat /\ Hears
  BY <1>1, <1>3 DEF Hears
<1> QED BY <1>4, <1>5, <1>6, CancelStep

LEMMA StopServiceKeeps == ASSUME ProverInv, StopService PROVE ProverInv'
<1>1. stops' = stops + 1 /\ CancelWork(cancels, "shutdown")
      /\ UNCHANGED <<chainVars, file, slave, answers, loop, delay, resolver, triggered, proof, last, work, asked, found, cluster>>
  BY DEF StopService
<1>2. /\ cancels \in Seq(Cancellation) /\ resolver \in {"none", "wait", "canceller", "spent"} /\ triggered \in BOOLEAN /\ stops \in Nat
  BY Typed DEF ProverInv, ProverTypes
<1>3. continue' \in BOOLEAN
  BY DEF StopService
<1>4. CancelSent /\ CancelTypes
  BY <1>1, <1>2, CancelWorkIsTyped
<1>5. UNCHANGED still
  BY <1>1 DEF chainVars, still
<1>6. Wakes /\ Hears /\ stops' \in Nat
  <2>1. Wakes /\ Hears
    BY <1>1 DEF chainVars, Wakes, Hears
  <2>2. stops' \in Nat
    BY <1>1, <1>2
  <2> QED BY <2>1, <2>2
<1>7. resolver' \in {"none", "wait", "canceller", "spent"} /\ triggered' \in BOOLEAN
  BY <1>1, <1>2
<1> QED BY <1>3, <1>4, <1>5, <1>6, <1>7, CancelStep

LEMMA RemovedCancel ==
    ASSUME NEW s \in Seq(Cancellation), NEW i \in DOMAIN s
    PROVE  RemoveAt(s, i) \in Seq(Cancellation)
<1>1. Len(s) \in Nat /\ i \in 1..Len(s) /\ \A k \in 1..Len(s) : s[k] \in Cancellation
  BY LenProperties
<1>2. SubSeq(s, 1, i - 1) \in Seq(Cancellation)
  <2>1. 1 \in Int /\ i - 1 \in Int /\ \A k \in 1..i - 1 : s[k] \in Cancellation
    BY <1>1
  <2> QED BY <2>1, SubSeqProperties
<1>3. SubSeq(s, i + 1, Len(s)) \in Seq(Cancellation)
  <2>1. i + 1 \in Int /\ Len(s) \in Int /\ \A k \in i + 1..Len(s) : s[k] \in Cancellation
    BY <1>1
  <2> QED BY <2>1, SubSeqProperties
<1> QED BY <1>2, <1>3, ConcatProperties DEF RemoveAt

LEMMA CanceledKeeps == ASSUME ProverInv, NEW i \in DOMAIN cancels, Canceled(i) PROVE ProverInv'
<1> DEFINE rest == RemoveAt(cancels, i)
<1>1. /\ cancels \in Seq(Cancellation) /\ blanks \in Nat /\ current \in BOOLEAN /\ overtaken \in BOOLEAN
      /\ resolver \in {"none", "wait", "canceller", "spent"} /\ triggered \in BOOLEAN /\ continue \in BOOLEAN /\ stops \in Nat
  BY Typed DEF ProverInv, ProverTypes
<1>2. rest \in Seq(Cancellation) /\ cancels[i].then \in {"nothing", "resolve", "shutdown", "kill"}
  <2>1. cancels[i] \in Cancellation
    BY <1>1
  <2> QED BY <1>1, <2>1, RemovedCancel DEF Cancellation
<1>3. UNCHANGED <<chainVars, file, continue, delay, proof, last, work, asked, found, stops>>
  BY DEF Canceled
<1>4. CASE cancels[i].then = "nothing"
  <2>1. cancels' = rest
        /\ UNCHANGED <<resolver, loop, triggered, inbox, blanks, current, overtaken, cluster, slave, answers>>
    BY <1>4 DEF Canceled
  <2> HIDE DEF rest
  <2>2. CancelSent /\ CancelTypes
    BY <1>1, <1>2, <2>1 DEF CancelSent, CancelTypes
  <2>3. resolver' \in {"none", "wait", "canceller", "spent"} /\ triggered' \in BOOLEAN /\ continue' \in BOOLEAN /\ stops' \in Nat
    BY <1>1, <1>3, <2>1
  <2>4. UNCHANGED still
    BY <1>3, <2>1 DEF still, chainVars
  <2>5. Wakes /\ Hears
    BY <1>3, <2>1 DEF chainVars, Wakes, Hears
  <2> QED BY <2>2, <2>3, <2>4, <2>5, CancelStep
<1>5. ASSUME NEW before \in Seq(Cancellation), FireResolver(before), UNCHANGED <<cluster, slave, answers>> PROVE ProverInv'
  <2>1. CancelSent /\ CancelTypes /\ resolver' \in {"none", "wait", "canceller", "spent"} /\ triggered' \in BOOLEAN
        /\ Wakes
    BY <1>5, FireResolverIsTyped DEF Wakes
  <2>2. continue' \in BOOLEAN /\ stops' \in Nat
    BY <1>1, <1>3
  <2>3. UNCHANGED still
    BY <1>3, <1>5 DEF still, chainVars
  <2>4. Hears
    BY <1>3 DEF chainVars, Hears
  <2> QED BY <2>1, <2>2, <2>3, <2>4, CancelStep
<1>6. CASE cancels[i].then = "resolve"
  <2>1. FireResolver(rest) /\ UNCHANGED <<cluster, slave, answers>>
    BY <1>6 DEF Canceled
  <2> HIDE DEF rest
  <2> QED BY <1>2, <1>5, <2>1
<1>7. CASE cancels[i].then = "shutdown"
  <2> DEFINE kill == [waits |-> FALSE, then |-> "kill"]
  <2>1. FireResolver(Append(rest, kill)) /\ UNCHANGED <<cluster, slave, answers>>
    BY <1>7 DEF Canceled
  <2>2. kill \in Cancellation
    BY DEF Cancellation
  <2> HIDE DEF rest, kill
  <2>3. Append(rest, kill) \in Seq(Cancellation)
    BY <1>2, <2>2, AppendProperties
  <2> QED BY <1>5, <2>1, <2>3
<1>8. CASE cancels[i].then = "kill"
  <2>1. cluster' = "none" /\ cancels' = rest
        /\ inbox' = [w \in Worker |-> <<>>] /\ slave' = [w \in Worker |-> Idle] /\ answers' = [w \in Worker |-> NoAnswer]
        /\ UNCHANGED <<resolver, loop, triggered, blanks, current, overtaken>>
    BY <1>8 DEF Canceled
  <2> HIDE DEF rest
  <2>2. 0 \in Block
    BY ProverAssumption DEF Block
  <2>3. Idle \in Turns /\ NoAnswer \in Answer /\ <<>> \in Seq(Message)
    BY <2>2 DEF Idle, NoAnswer, Turns, Answer
  <2>4. inbox' \in [Worker -> Seq(Message)] /\ slave' \in [Worker -> Turns] /\ answers' \in [Worker -> Answer]
    BY <2>1, <2>3
  <2>5. ProverTypeOK'
    BY <1>2, <1>3, <2>1, <2>4, Typed DEF ProverInv, chainVars, ProverTypes
  <2>6. OneByOne'
    <3> SUFFICES ASSUME NEW w \in Worker PROVE Turn(inbox'[w], slave'[w], answers'[w], w \in asked', proof')
      BY DEF OneByOne
    <3>1. Nothing(inbox'[w], slave'[w], answers'[w])
      BY <2>1 DEF Nothing, Idle, Proofs
    <3> QED BY <3>1, NothingIsFine
  <2> QED BY <1>3, <2>1, <2>5, <2>6 DEF ProverInv, ProvingWorks, AskedWhileProving
<1> QED BY <1>2, <1>4, <1>6, <1>7, <1>8

\* The chain moves.
LEMMA ChainStep ==
    ASSUME ProverInv, resolution' \in Block,
           \/ UNCHANGED <<head, events, loop>>
           \/ \E own \in BOOLEAN : ChangeHead(own),
           UNCHANGED <<fileVars, slaveVars, workVars, continue, delay, resolver, triggered, proof, last, cancels, stops>>
    PROVE  ProverInv'
<1>1. head' \in [num : 0..MaxHead, own : BOOLEAN] /\ events' \in Seq([num : 0..MaxHead, own : BOOLEAN])
      /\ (loop' = loop \/ (loop = "event" /\ loop' = "top"))
  <2>1. head \in [num : 0..MaxHead, own : BOOLEAN] /\ events \in Seq([num : 0..MaxHead, own : BOOLEAN])
    BY Typed DEF ProverInv, ProverTypes
  <2>2. CASE UNCHANGED <<head, events, loop>>
    BY <2>1, <2>2
  <2>3. CASE \E own \in BOOLEAN : ChangeHead(own)
    <3>1. PICK own \in BOOLEAN : ChangeHead(own)
      BY <2>3
    <3>2. head.num < MaxHead /\ head' = [num |-> head.num + 1, own |-> own] /\ events' = Append(events, head')
          /\ loop' = IF loop = "event" THEN "top" ELSE loop
      BY <3>1 DEF ChangeHead
    <3>3. head.num + 1 \in 0..MaxHead
      <4>1. head.num \in 0..MaxHead /\ head.num < MaxHead /\ MaxHead \in Nat
        BY <2>1, <3>2, ProverAssumption
      <4> QED BY <4>1
    <3>4. head' \in [num : 0..MaxHead, own : BOOLEAN]
      BY <3>2, <3>3
    <3> QED BY <2>1, <3>2, <3>4, AppendProperties
  <2> QED BY <2>2, <2>3
<1>2. ProverTypeOK'
  BY <1>1, Typed DEF ProverInv, fileVars, slaveVars, workVars, ProverTypes
<1>3. ProvingWorks'
  BY <1>1 DEF ProverInv, ProvingWorks, workVars
<1> QED BY <1>2, <1>3, CalmStep DEF CancelSent, slaveVars, workVars

LEMMA NetworkBlockKeeps == ASSUME ProverInv, NetworkBlock PROVE ProverInv'
<1>1. resolution' \in Block
  BY Typed DEF NetworkBlock, ProverInv, ProverTypes
<1> QED BY <1>1, ChainStep DEF NetworkBlock

LEMMA ResolveOwnKeeps == ASSUME ProverInv, ResolveOwn PROVE ProverInv'
<1>1. resolution' \in Block
  BY ProverAssumption DEF ResolveOwn, Block
<1> QED BY <1>1, ChainStep DEF ResolveOwn

\* PowWorker (src/app/modules/prover/lib/PowWorker.ts) takes any answer for that of the proof it asked for last, and the
\* cluster any first answer for that of the current block: whatever workers, cancellations, heads and stops, an answer is
\* one that the master awaits, about the block being proved.
THEOREM AnswersAreOfTheProof == ProverSpec => [](ProverTypeOK /\ AnswersMatch)
<1>1. ProverInv /\ [ProverNext]_proverVars => ProverInv'
  <2> SUFFICES ASSUME ProverInv, [ProverNext]_proverVars PROVE ProverInv'
    OBVIOUS
  <2>1. CASE LoopStep
    BY <2>1, CheckKeeps, WaitKeeps, GenerateKeeps, GeneratedKeeps, SubmitKeeps DEF LoopStep
  <2>2. CASE ClusterStep
    BY <2>2, WriteCurrentKeeps, WorkersOnlineKeeps, AskWorkersKeeps, CanceledInInitKeeps, AllStoppedKeeps DEF ClusterStep
  <2>3. CASE ResolveOwn \/ BlockchainChanged \/ Timer \/ NetworkBlock \/ StopService \/ StartService \/ WriteBlank
    BY <2>3, ResolveOwnKeeps, BlockchainChangedKeeps, TimerKeeps, NetworkBlockKeeps, StopServiceKeeps, StartServiceKeeps,
       WriteBlankKeeps
  <2>4. ASSUME NEW i \in DOMAIN cancels, Canceled(i) PROVE ProverInv'
    BY <2>4, CanceledKeeps
  <2>5. ASSUME NEW w \in Worker, WorkerStep(w) \/ Answered(w) PROVE ProverInv'
    BY <2>5, ReceiveKeeps, BeginKeeps, CheckFileKeeps, ComputeKeeps, AnsweredKeeps DEF WorkerStep
  <2>6. CASE UNCHANGED proverVars
    <3>1. ProverTypeOK'
      BY <2>6, Typed DEF ProverInv, ProverTypes, proverVars, loopVars, chainVars, fileVars, slaveVars, workVars
    <3> QED BY <2>6, <3>1, CalmStep
         DEF CancelSent, ProverInv, ProvingWorks, proverVars, loopVars, chainVars, fileVars, slaveVars, workVars
  <2> QED BY <2>1, <2>2, <2>3, <2>4, <2>5, <2>6 DEF ProverNext
<1>2. ProverInv => ProverTypeOK /\ AnswersMatch
  BY DEF ProverInv, OneByOne, Turn, AnswersMatch
<1> QED BY <1>1, <1>2, ProverStarts, PTL DEF ProverSpec
=============================================================================
