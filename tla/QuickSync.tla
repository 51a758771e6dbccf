------------------------------ MODULE QuickSync ------------------------------
(***************************************************************************)
(* The indexes of a node that synchronises without caution: the rules that *)
(* generate entries by time are only evaluated in the blocks where a known  *)
(* term is reached, entries of blocks that do not matter wait, and the last *)
(* blocks alone are applied as every block is otherwise.  The same chain is *)
(* applied block by block beside it.                                        *)
(***************************************************************************)
EXTENDS Integers, SequencesExt, FiniteSetsExt

CONSTANTS Person,
          Founder,      \* those of block 0
          MsTerm,       \* msValidity
          RevokeFactor, \* REVOCATION_FACTOR
          SigTerm,      \* sigValidity
          Needed,       \* sigQty
          UpTo,         \* number of the block synchronised up to
          TailLength,   \* requiredBindexSizeForTail
          LastTime      \* bound: median time

ASSUME QuickAssumption ==
    /\ Founder \subseteq Person
    /\ {MsTerm, RevokeFactor, SigTerm} \subseteq Nat \ {0} /\ {Needed, UpTo, TailLength, LastTime} \subseteq Nat

VARIABLES
    number,     \* last block applied
    medianTime, \* its median time
    usual,      \* the indexes, block by block
    quick,      \* the indexes of the synchronisation
    waiting,    \* its entries that are not written yet
    terms,      \* sync_expires
    nextTerm,   \* sync_nextExpiring
    unseen      \* history: those whose leave waited while their membership was ended

quickVars == <<number, medianTime, usual, quick, waiting, terms, nextTerm, unseen>>

FarAway == 2 * LastTime + MsTerm * RevokeFactor + SigTerm
Null == -1

\* Entries: of memberships, of identities, of certifications; fields that are null are left out.
Renew(p, made, t) == [of |-> p, created_on |-> made, expires_on |-> t + MsTerm, revokes_on |-> t + RevokeFactor * MsTerm]
JoinBack(p, made, t) == Renew(p, made, t) @@ [expired_on |-> Null]
Leaving(p, made) == [of |-> p, created_on |-> made, leaving |-> TRUE]
Revocation(p, n) == [of |-> p, created_on |-> n, revoked_on |-> n]

NoEntries == [m |-> <<>>, i |-> <<>>, c |-> <<>>]
And(x, y) == [m |-> x.m \o y.m, i |-> x.i \o y.i, c |-> x.c \o y.c]

\* flushIndexes: each entry overrides the fields it has.
Merge(index, entries) == FoldLeft(LAMBDA x, e : [x EXCEPT ![e.of] = [f \in DOMAIN @ |-> IF f \in DOMAIN e THEN e[f] ELSE @[f]]], index, entries)
Flush(d, x) == [m |-> Merge(d.m, x.m), i |-> Merge(d.i, x.i), c |-> Merge(d.c, x.c)]

IsMember(d, p) == d.i[p].member
Links(d) == {l \in DOMAIN d.c : d.c[l].expires_on # Null /\ d.c[l].expired_on = Null}
SetEntries(S, Entry(_)) == LET s == SetToSeq(S) IN [k \in DOMAIN s |-> Entry(s[k])]

\* BR_G92 to BR_G96, on the indexes before the entries x of the block.
Generated(d, x, n, t) ==
    LET expiredCerts == {l \in Links(d) : d.c[l].expires_on <= t}
        ended == {p \in Person : d.m[p].expires_on \in 0..t /\ d.m[p].expired_on = Null}
        received(p) == Cardinality({k \in DOMAIN x.c : x.c[k].of[2] = p})
        valid(p) == Cardinality({l \in Links(d) \ expiredCerts : l[2] = p}) + received(p)
        excluded == {x.i[k].of : k \in {j \in DOMAIN x.i : ~x.i[j].member}}
        lacking == {p \in {l[2] : l \in expiredCerts} : valid(p) < Needed /\ IsMember(d, p) /\ p \notin excluded}
        implicit == {p \in Person : d.m[p].revokes_on \in 0..t /\ d.m[p].revoked_on = Null}
    IN [c |-> SetEntries(expiredCerts, LAMBDA l : [of |-> l, expired_on |-> t]),
        m |-> SetEntries(ended, LAMBDA p : [of |-> p, created_on |-> d.m[p].created_on, expired_on |-> t])
              \o SetEntries(implicit, LAMBDA p : [of |-> p, created_on |-> d.m[p].created_on, revoked_on |-> n]),
        i |-> SetEntries({p \in ended : IsMember(d, p)} \cup lacking, LAMBDA p : [of |-> p, kick |-> TRUE])]

----------------------------------------------------------------------------
\* What a block says: nothing, a transaction or dividend, or something of one person; and its certifications.
Says == {[kind |-> "nothing"], [kind |-> "money"]} \cup [kind : {"join", "active", "leave", "revoke"}, of : Person]

Allowed(d, s) ==
    \/ s.kind \in {"nothing", "money"}
    \/ /\ s.kind = "join" /\ ~IsMember(d, s.of) /\ d.m[s.of].revoked_on = Null /\ number > d.m[s.of].created_on
    \/ /\ s.kind \in {"active", "leave"} /\ IsMember(d, s.of) /\ ~d.i[s.of].kick /\ number > d.m[s.of].created_on
    \/ /\ s.kind = "revoke" /\ IsMember(d, s.of) /\ d.m[s.of].revoked_on = Null

ToExclude(d, s) == {p \in Person : IsMember(d, p) /\ (d.i[p].kick \/ s = [kind |-> "revoke", of |-> p])}

\* The local index: what a block brings was made on the block before.
LocalIndex(d, s, certs, n) ==
    [m |-> CASE s.kind = "join" /\ d.m[s.of].created_on = Null -> <<Renew(s.of, number, medianTime) @@ [leaving |-> FALSE]>>
             [] s.kind = "join" /\ d.m[s.of].created_on # Null -> <<JoinBack(s.of, number, medianTime)>>
             [] s.kind = "active" -> <<Renew(s.of, number, medianTime)>>
             [] s.kind = "leave" -> <<Leaving(s.of, number)>>
             [] s.kind = "revoke" -> <<Revocation(s.of, n)>>
             [] OTHER -> <<>>,
     i |-> SetEntries(ToExclude(d, s), LAMBDA p : [of |-> p, member |-> FALSE, kick |-> FALSE])
           \o (IF s.kind = "join" THEN <<[of |-> s.of, member |-> TRUE]>> ELSE <<>>),
     c |-> SetEntries(certs, LAMBDA l : [of |-> l, expires_on |-> medianTime + SigTerm, expired_on |-> Null])]

TermsOf(x) == {x.m[k].expires_on : k \in {j \in DOMAIN x.m : "expires_on" \in DOMAIN x.m[j]}}
              \cup {x.m[k].revokes_on : k \in {j \in DOMAIN x.m : "revokes_on" \in DOMAIN x.m[j]}}
              \cup {x.c[k].expires_on : k \in DOMAIN x.c}

\* Blocks whose entries are written at once.
Matters(s, x, t) ==
    \/ s.kind \in {"money", "join", "active", "revoke"}
    \/ \E k \in DOMAIN x.i : ~x.i[k].member
    \/ x.c # <<>>
    \/ t >= nextTerm

Owners(x) == {x.m[k].of : k \in DOMAIN x.m}

\* mutant: the terms of the block that is applied are not remembered
RememberNothing(x) == terms

Remember(x) == terms \cup TermsOf(x)

\* flushMicIndexes: what waited is written before the rules only if the block has entries of its own.
FlushFirst(x) == IF x = NoEntries THEN [written |-> quick, held |-> waiting]
                 ELSE [written |-> Flush(quick, waiting), held |-> x]

WriteEntries(x, n, t) ==
    LET f == FlushFirst(x)
        generated == IF t >= nextTerm THEN Generated(f.written, f.held, n, t) ELSE NoEntries
    IN /\ quick' = Flush(f.written, And(f.held, generated))
       /\ waiting' = NoEntries
       /\ terms' = {k \in Remember(x) : k > t}
       /\ nextTerm' = Min(terms' \cup {FarAway})
       /\ unseen' = IF x # NoEntries THEN unseen \ (Owners(x) \ Owners(generated))
                    ELSE unseen \cup (Owners(waiting) \cap Owners(generated))

HoldEntries(x) ==
    /\ waiting' = And(waiting, x) /\ terms' = Remember(x) /\ unseen' = unseen \ Owners(x)
    /\ UNCHANGED <<quick, nextTerm>>

\* transform, for one block.
QuickBlock(s, x, n, t) == IF Matters(s, x, t) THEN WriteEntries(x, n, t) ELSE HoldEntries(x)

\* finalizeSync: the first of the last blocks writes what waits; they are applied as any block.
TailBlock(x, n, t) ==
    LET d == Flush(quick, waiting)
        generated == Generated(d, x, n, t)
    IN /\ quick' = Flush(d, And(x, generated))
       /\ waiting' = NoEntries /\ terms' = {} /\ nextTerm' = 0
       /\ unseen' = unseen \ (Owners(x) \ Owners(generated))

ApplyQuick(s, certs, t) ==
    LET n == number + 1  x == LocalIndex(usual, s, certs, n) IN
    /\ n <= UpTo /\ t <= LastTime /\ Allowed(usual, s)
    /\ s.kind = "join" => Cardinality({l \in Links(usual) \cup certs : l[2] = s.of}) >= Needed
    /\ \A l \in certs : /\ l \notin Links(usual) /\ IsMember(usual, l[1]) /\ l[1] # l[2]
                        /\ IsMember(usual, l[2]) \/ s = [kind |-> "join", of |-> l[2]]
    /\ \A p \in ToExclude(usual, s) : s \notin [kind : {"join", "active", "leave"}, of : {p}]
    /\ number' = n /\ medianTime' = t
    /\ usual' = Flush(usual, And(x, Generated(usual, x, n, t)))
    /\ IF n <= UpTo - TailLength - 1 THEN QuickBlock(s, x, n, t) ELSE TailBlock(x, n, t)

Block0 == LET all == [m |-> SetEntries(Founder, LAMBDA p : Renew(p, 0, 0) @@ [leaving |-> FALSE]),
                      i |-> SetEntries(Founder, LAMBDA p : [of |-> p, member |-> TRUE]),
                      c |-> SetEntries({l \in Founder \X Founder : l[1] # l[2]}, LAMBDA l : [of |-> l, expires_on |-> SigTerm])]
              none == [m |-> [p \in Person |-> [of |-> p, created_on |-> Null, expires_on |-> Null, revokes_on |-> Null,
                                                expired_on |-> Null, revoked_on |-> Null, leaving |-> FALSE]],
                       i |-> [p \in Person |-> [of |-> p, member |-> FALSE, kick |-> FALSE]],
                       c |-> [l \in Person \X Person |-> [of |-> l, expires_on |-> Null, expired_on |-> Null]]]
          IN [after |-> Flush(none, all), terms |-> TermsOf(all)]

QuickInit ==
    /\ number = 0 /\ medianTime = 0 /\ usual = Block0.after /\ quick = Block0.after
    /\ waiting = NoEntries /\ terms = Block0.terms /\ nextTerm = Min(Block0.terms \cup {FarAway})
    /\ unseen = {}

QuickNext == \E s \in Says, t \in {medianTime, medianTime + 1}, certs \in SUBSET (Person \X Person) :
                Cardinality(certs) <= 1 /\ ApplyQuick(s, certs, t)

QuickSpec == QuickInit /\ [][QuickNext]_quickVars

----------------------------------------------------------------------------
\* The indexes of a quick synchronisation are, with the entries that wait, those of the same chain block by block.
\* One difference: a membership ended by a block that says nothing of members, when the leave of its owner still
\* waits, keeps the date of the membership before the leave.
SameIndexes ==
    LET d == Flush(quick, waiting)
        but(p) == IF p \in unseen THEN {"created_on"} ELSE {}
    IN /\ d.i = usual.i /\ d.c = usual.c
       /\ \A p \in Person : \A f \in DOMAIN d.m[p] \ but(p) : d.m[p][f] = usual.m[p][f]
=============================================================================
