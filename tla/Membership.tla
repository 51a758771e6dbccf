----------------------------- MODULE Membership -----------------------------
(***************************************************************************)
(* Who is a member: memberships that are written, renewed, left, revoked, that *)
(* expire and are revoked by time; members that must be excluded at the next *)
(* block; and what the revert of a block gives back.  MINDEX and IINDEX with *)
(* their secondary indexes (src/app/lib/dal/indexDAL/leveldb/), the rules    *)
(* that concern them (src/app/lib/indexer.ts, rules/local_rules.ts) and the  *)
(* nodes of the web of trust (blockchain/DuniterBlockchain.ts).             *)
(*                                                                         *)
(* Certifications are seen through their effect: any member may lack them,  *)
(* and be kicked, in any block.                                            *)
(***************************************************************************)
EXTENDS Integers, SequencesExt

CONSTANTS
    Pubs,          \* public keys
    Roots,         \* the members of block 0
    Kinds,         \* bound: what the blocks may say of each key
    Lacking,       \* bound: the members that may lack certifications
    MsValidity,    \* conf.msValidity
    MsWindow,      \* conf.msWindow
    MsPeriod,      \* conf.msPeriod
    Factor,        \* REVOCATION_FACTOR
    ForkSize,      \* conf.forksize
    MaxBindex,     \* requiredBindexSizeForTail: the blocks that BINDEX keeps
    MaxBlock,      \* bound: the highest block number
    MaxTime,       \* bound: the highest median time
    MaxReverts     \* bound: the number of reverts

ASSUME MembersAssumption ==
    /\ Roots \subseteq Pubs /\ Lacking \subseteq Pubs
    /\ Kinds \in [Pubs -> SUBSET {"join", "active", "leave", "revoke"}]
ASSUME ConfAssumption ==
    /\ MsValidity \in Nat \ {0} /\ Factor \in Nat \ {0} /\ {MsWindow, MsPeriod} \subseteq Nat
    /\ ForkSize \in Nat /\ MaxBindex \in Nat /\ MaxBindex > ForkSize
    /\ {MaxBlock, MaxTime, MaxReverts} \subseteq Nat

VARIABLES
    chain,      \* the main chain: the median time, the members and the entries of each block
    mindex,     \* level_mindex: the entries of each key
    expiresOn,  \* level_mindex/expiresOn: the keys by term
    revokesOn,  \* level_mindex/revokesOn: the keys by term of the implicit revocation
    iindex,     \* level_iindex: the entries of each key
    kick,       \* level_iindex/kick: the block that kicked a key, and those that did before
    enabled,    \* the enabled nodes of the web of trust
    peak,       \* the highest number ever reached: reverts stay in the fork window
    reverts,    \* the number of reverts
    failed,     \* what a missing entry of an index interrupted, and for whom
    marks       \* history: what went through the corners of the code, by key

vars == <<chain, mindex, expiresOn, revokesOn, iindex, kick, enabled, peak, reverts, failed, marks>>

Null  == 0     \* null, undefined and 0 are the same to the code that reads them
Early == -1    \* the terms of revokesOn that are no date: they come before every date
Dates == 0..(MaxTime + Factor * MsValidity)

Height   == Len(chain) - 1
HeadTime == Last(chain).time
NoFailure == [step |-> "none", index |-> "none", pubs |-> {}]
Sound     == failed = NoFailure     \* nothing is modelled after a failure

-----------------------------------------------------------------------------
(***************************************************************************)
(* The entries.  The block a membership is made on gives its terms; fields   *)
(* that are null in an entry are left out, for they override nothing.       *)
(***************************************************************************)
Renewal(c, based, n, t) ==
    [writtenOn |-> n, created_on |-> c, expires_on |-> based + MsValidity,
     revokes_on |-> based + Factor * MsValidity, chainable_on |-> t + MsPeriod]
Newcomer(c, based, n, t) == Renewal(c, based, n, t) @@ [expired_on |-> Null, revoked_on |-> Null]
JoinBack(c, based, n, t) == Renewal(c, based, n, t) @@ [expired_on |-> 0]
Leave(c, n, t)   == [writtenOn |-> n, created_on |-> c, chainable_on |-> t + MsPeriod]
Revoked(n, t)    == [writtenOn |-> n, created_on |-> n, revoked_on |-> n,
                     chainable_on |-> t + MsPeriod]
Expiry(c, n, t)  == [writtenOn |-> n, created_on |-> c, expired_on |-> t]
Implicit(c, n)   == [writtenOn |-> n, created_on |-> c, revoked_on |-> n]

Created(n)  == [op |-> "CREATE", writtenOn |-> n, member |-> TRUE, kick |-> FALSE]
Back(n)     == [op |-> "UPDATE", writtenOn |-> n, member |-> TRUE]
Excluded(n) == [op |-> "UPDATE", writtenOn |-> n, member |-> FALSE, kick |-> FALSE]
Kicked(n)   == [op |-> "UPDATE", writtenOn |-> n, kick |-> TRUE]

Has(e, field) == field \in DOMAIN e

\* Each entry overrides the fields it has.
Reduced(entries) ==
    LET upTo[i \in 0..Len(entries)] == IF i = 0 THEN <<>> ELSE entries[i] @@ upTo[i - 1]
    IN  upTo[Len(entries)]

\* reduceForDBTrimming: the entries below the tail become one.
Trimmed(entries, tail) ==
    LET old == SelectSeq(entries, LAMBDA e : e.writtenOn < tail)
    IN  IF old = <<>> THEN entries
        ELSE <<Reduced(old)>> \o SelectSeq(entries, LAMBDA e : e.writtenOn >= tail)

Known(p)    == iindex[p] # <<>>
IsMember(p) == Known(p) /\ Reduced(iindex[p]).member
Members     == {p \in Pubs : IsMember(p)}
Ms(p)       == Reduced(mindex[p])
ToBeKicked  == {p \in Pubs : kick[p].on # Null}

-----------------------------------------------------------------------------
(***************************************************************************)
(* The rules of a block.  What it says of a key: nothing, a membership made  *)
(* on block c, or a revocation.                                            *)
(***************************************************************************)
Nothing == [kind |-> "none", on |-> 0]

NotRevoked(p) == Known(p) => Ms(p).revoked_on = Null

AcceptableMembership(p, c) ==
    /\ HeadTime - chain[c + 1].time <= MsWindow
    /\ Known(p) => c > Ms(p).created_on
    /\ NotRevoked(p)
    /\ \A e \in ToSet(mindex[p]) : Has(e, "chainable_on") => e.chainable_on <= HeadTime

Acceptable(p, says) ==
    \/ says = Nothing
    \/ /\ says.kind = "join" /\ ~IsMember(p) /\ AcceptableMembership(p, says.on)
    \/ /\ says.kind \in {"active", "leave"} /\ IsMember(p) /\ AcceptableMembership(p, says.on)
    \/ /\ says.kind = "revoke" /\ IsMember(p) /\ Ms(p).revoked_on = Null

\* bound: memberships are made on the last block of their median time, as numbers only follow.
Bases == {c \in 0..Height : c < Height => chain[c + 1].time < chain[c + 2].time}

Contents ==
    LET all(p) == {Nothing} \cup [kind : Kinds[p] \ {"revoke"}, on : Bases]
                            \cup [kind : Kinds[p] \cap {"revoke"}, on : {0}]
        may == [p \in Pubs |-> {s \in all(p) : Acceptable(p, s)}]
    IN  {says \in [Pubs -> UNION {may[p] : p \in Pubs}] : \A p \in Pubs : says[p] \in may[p]}

\* The excluded are members; they are all those to be kicked or being revoked, and only those.
Exclusions(says) ==
    LET revoked == {p \in Pubs : says[p].kind = "revoke"}
    IN  {X \in SUBSET Members :
            /\ ToBeKicked \cup revoked \subseteq X
            /\ \A p \in X : Reduced(iindex[p]).kick \/ p \in revoked
            /\ \A p \in X : says[p].kind \in {"none", "revoke"}}

-----------------------------------------------------------------------------
(***************************************************************************)
(* What a block of median time t generates, from the indexes before it.     *)
(***************************************************************************)
ExpiringLate(t) ==      \* mutant: a membership that reaches its term lasts until the next time
    {p \in UNION {expiresOn[k] : k \in 0..t} : Ms(p).expires_on < t /\ Ms(p).expired_on = Null}

Expiring(t) ==
    {p \in UNION {expiresOn[k] : k \in 0..t} : Ms(p).expires_on <= t /\ Ms(p).expired_on = Null}

AtTermOfRevocation(t) == revokesOn[Early] \cup UNION {revokesOn[k] : k \in 0..t}

Revoking(t) == {p \in AtTermOfRevocation(t) : Ms(p).revokes_on <= t /\ Ms(p).revoked_on = Null}

\* The keys that the index of implicit revocations gives are read in MINDEX: null for these.
Ghosts(t) == {p \in AtTermOfRevocation(t) : mindex[p] = <<>>}

\* BR_G94: the excluded of the block are still members in IINDEX.
KickedByMembership(t) == Expiring(t) \cap Members

Local(p, s, n, t) ==
    LET based == chain[s.on + 1].time
    IN  CASE s.kind = "join" /\ ~Known(p) -> <<Newcomer(s.on, based, n, t)>>
          [] s.kind = "join" /\ Known(p)  -> <<JoinBack(s.on, based, n, t)>>
          [] s.kind = "active"            -> <<Renewal(s.on, based, n, t)>>
          [] s.kind = "leave"             -> <<Leave(s.on, n, t)>>
          [] s.kind = "revoke"            -> <<Revoked(n, t)>>
          [] OTHER                        -> <<>>

OneIf(cond, e) == IF cond THEN <<e>> ELSE <<>>

Entries(says, n, t) ==
    LET expiring == Expiring(t)
        revoking == Revoking(t)
    IN  [p \in Pubs |->
            Local(p, says[p], n, t)
         \o (IF p \in expiring THEN <<Expiry(Ms(p).created_on, n, t)>> ELSE <<>>)
         \o (IF p \in revoking THEN <<Implicit(Ms(p).created_on, n)>> ELSE <<>>)]

Identities(says, X, kicked, n) ==
    [p \in Pubs |->
        OneIf(says[p].kind = "join", IF Known(p) THEN Back(n) ELSE Created(n))
     \o OneIf(p \in X, Excluded(n))
     \o OneIf(p \in kicked, Kicked(n))]

-----------------------------------------------------------------------------
(***************************************************************************)
(* The indexes of terms.  A key is taken out of a term and put in another;   *)
(* taking out of a term that is no more in the index throws.                *)
(***************************************************************************)
Move(index, out, into) ==
    [k \in DOMAIN index |-> (index[k] \ {x[2] : x \in {y \in out : y[1] = k}})
                            \cup {x[2] : x \in {y \in into : y[1] = k}}]
Missing(index, out) == {x[2] : x \in {y \in out : index[y[1]] = {}}}

With(entries, field) == {p \in Pubs : \E e \in ToSet(entries[p]) : Has(e, field) /\ e[field] # Null}
Term(entries, p, field) == (CHOOSE e \in ToSet(entries[p]) : Has(e, field))[field]

(***************************************************************************)
(* onInsert: a renewal moves the key to its new term; an end (an expiry, a   *)
(* revocation) takes it out of the term it had before the block.            *)
(***************************************************************************)
OnInsertAny(index, entries, term, end) ==   \* mutant: an ended membership is moved too
    LET known   == {p \in Pubs : mindex[p] # <<>>}
        renewed == With(entries, term)
        moved   == {<<Ms(p)[term], p>> : p \in renewed \cap known}
        ended   == {<<Ms(p)[term], p>> : p \in With(entries, end) \cap known}
        after   == Move(index, moved, {<<Term(entries, p, term), p>> : p \in renewed})
    IN  [index   |-> Move(after, ended, {}),
         missing |-> Missing(index, moved) \cup Missing(after, ended)]

OnInsert(index, entries, term, end) ==
    LET known   == {p \in Pubs : mindex[p] # <<>>}
        renewed == With(entries, term)
        moved   == {<<Ms(p)[term], p>> : p \in {q \in renewed \cap known : Ms(q)[end] = Null}}
        ended   == {<<Ms(p)[term], p>> : p \in With(entries, end) \cap known}
        after   == Move(index, moved, {<<Term(entries, p, term), p>> : p \in renewed})
    IN  [index   |-> Move(after, ended, {}),
         missing |-> Missing(index, moved) \cup Missing(after, ended)]

TouchedRenewed(entries, kept) ==    \* mutant: the revert of an expiry gives nothing back
    {p \in Pubs : (\E e \in ToSet(entries[p]) : Has(e, "expires_on")) /\ kept[p] # <<>>}

Touched(entries, kept) == {p \in Pubs : entries[p] # <<>> /\ kept[p] # <<>>}

(***************************************************************************)
(* onRemove: a renewal that is removed gives the term before it back; then   *)
(* every key that the block touched is put back, at the term it has         *)
(* (expiresOn), or at the block that revoked it, null if none (revokesOn).  *)
(***************************************************************************)
OnRemove(index, entries, kept, term, touched) ==
    LET renewed == With(entries, term)
        removed == {<<Term(entries, p, term), p>> : p \in renewed}
        before  == {<<Reduced(kept[p])[term], p>> : p \in {q \in renewed : kept[q] # <<>>}}
    IN  [index   |-> Move(index, removed, before \cup touched),
         missing |-> Missing(index, removed)]

\* LevelIIndexKickIndexer: members are excluded at the block after the one that kicks them.
Mark(k, n) == [k EXCEPT !.on = n]

KickOnInsert(p, entries, n) ==
    LET marked == IF Kicked(n) \in ToSet(entries) THEN Mark(kick[p], n) ELSE kick[p]
    IN  IF Excluded(n) \in ToSet(entries) /\ marked.on # Null /\ marked.on = n - 1
        THEN [on |-> Null, done |-> Append(marked.done, marked.on)] ELSE marked

Pop(k) == IF k.done = <<>> THEN [on |-> Null, done |-> <<>>]
          ELSE [on |-> Last(k.done), done |-> Front(k.done)]

KickOnRemove(p, entries, n) ==
    LET unkicked == IF Kicked(n) \in ToSet(entries) THEN Pop(kick[p]) ELSE kick[p]
    IN  IF Excluded(n) \in ToSet(entries) /\ n - 1 \in ToSet(unkicked.done)
        THEN Pop(unkicked) ELSE unkicked

KickOnTrimming(k, tail) ==
    LET done == SelectSeq(k.done, LAMBDA n : n >= tail)
    IN  IF done = <<>> /\ k.on # Null THEN k ELSE [k EXCEPT !.done = done]

-----------------------------------------------------------------------------
(***************************************************************************)
(* saveBlockData: MINDEX and its indexes of terms, IINDEX and its index of   *)
(* kicks, the nodes of the web of trust, the trimming.  Nothing is written   *)
(* yet when the generated entries throw; when an index of terms does, the    *)
(* entries of MINDEX are.                                                  *)
(***************************************************************************)
GenerationFails(pubs) ==
    /\ failed' = [step |-> "generate", index |-> "revokesOn", pubs |-> pubs]
    /\ UNCHANGED <<chain, mindex, expiresOn, revokesOn, iindex, kick, enabled, peak, reverts,
                   marks>>

SaveFails(entries, index, pubs) ==
    /\ failed' = [step |-> "save", index |-> index, pubs |-> pubs]
    /\ mindex' = [p \in Pubs |-> mindex[p] \o entries[p]]
    /\ UNCHANGED <<chain, expiresOn, revokesOn, iindex, kick, enabled, peak, reverts, marks>>

AddBlock(t, says, X, K) ==
    LET n  == Height + 1
        ms == Entries(says, n, t)
        is == Identities(says, X, KickedByMembership(t) \cup K, n)
        expires == OnInsert(expiresOn, ms, "expires_on", "expired_on")
        revokes == OnInsert(revokesOn, ms, "revokes_on", "revoked_on")
        joiners == {p \in Pubs : says[p].kind = "join"}
        tail    == n - MaxBindex
    IN  /\ Sound
        /\ n <= MaxBlock /\ t \in HeadTime..MaxTime
        /\ IF Ghosts(t) # {} THEN GenerationFails(Ghosts(t))
           ELSE IF expires.missing # {} THEN SaveFails(ms, "expiresOn", expires.missing)
           ELSE IF revokes.missing # {} THEN SaveFails(ms, "revokesOn", revokes.missing)
           ELSE /\ chain' = Append(chain,
                        [time |-> t, mindex |-> ms, iindex |-> is,
                         membersCount |-> Last(chain).membersCount
                                            + Cardinality(joiners) - Cardinality(X)])
                /\ mindex' = [p \in Pubs |-> Trimmed(mindex[p] \o ms[p], tail)]
                /\ expiresOn' = expires.index
                /\ revokesOn' = revokes.index
                /\ iindex' = [p \in Pubs |-> Trimmed(iindex[p] \o is[p], tail)]
                /\ kick' = [p \in Pubs |-> KickOnTrimming(KickOnInsert(p, is[p], n), tail)]
                /\ enabled' = (enabled \cup joiners) \ X
                /\ peak' = Max({peak, n})
                /\ UNCHANGED <<reverts, failed, marks>>

-----------------------------------------------------------------------------
InForkWindow == Height > 0 /\ Height > peak - ForkSize

\* undoMembersUpdate: those who came back, the newcomers, the excluded.
UndoMembers(entries) ==
    LET some(P(_)) == {p \in Pubs : \E e \in ToSet(entries[p]) : P(e)}
        joined(e)  == Has(e, "member") /\ e.member
        left(e)    == Has(e, "member") /\ ~e.member
    IN  (enabled \ some(joined)) \cup some(left)

(***************************************************************************)
(* revertBlock: the nodes, then removeBlock on MINDEX and on IINDEX.  The    *)
(* index of kicks throws when the block it removes is not the one it has.   *)
(***************************************************************************)
RevertFails(undone, kept, index, pubs) ==
    /\ failed' = [step |-> "revert", index |-> index, pubs |-> pubs]
    /\ enabled' = undone /\ mindex' = kept
    /\ UNCHANGED <<chain, expiresOn, revokesOn, iindex, kick, peak, marks>>

RevertBlock ==
    LET n  == Height
        Of(index) == [p \in Pubs |-> SelectSeq(index[p], LAMBDA e : e.writtenOn = n)]
        ms == Of(mindex)
        is == Of(iindex)
        kept    == [p \in Pubs |-> SelectSeq(mindex[p], LAMBDA e : e.writtenOn # n)]
        touched == Touched(ms, kept)
        expires == OnRemove(expiresOn, ms, kept, "expires_on",
                            {<<Reduced(kept[p]).expires_on, p>> : p \in touched})
        revokes == OnRemove(revokesOn, ms, kept, "revokes_on", {<<Early, p>> : p \in touched})
        kicked  == {p \in Pubs : Kicked(n) \in ToSet(is[p])}
        other   == {p \in kicked : kick[p].on # n}
        undone  == UndoMembers(is)
    IN  /\ Sound
        /\ InForkWindow /\ reverts < MaxReverts
        /\ reverts' = reverts + 1
        /\ IF expires.missing # {} THEN RevertFails(undone, kept, "expiresOn", expires.missing)
           ELSE IF revokes.missing # {} THEN RevertFails(undone, kept, "revokesOn", revokes.missing)
           ELSE IF other # {} THEN RevertFails(undone, kept, "kick", other)
           ELSE /\ chain' = Front(chain)
                /\ mindex' = kept
                /\ expiresOn' = expires.index
                /\ revokesOn' = revokes.index
                /\ iindex' = [p \in Pubs |-> SelectSeq(iindex[p], LAMBDA e : e.writtenOn # n)]
                /\ kick' = [p \in Pubs |-> KickOnRemove(p, is[p], n)]
                /\ enabled' = undone
                /\ marks' = marks
                       \cup {<<"reverted", p>> : p \in {q \in Pubs : ms[q] # <<>>}}
                       \cup {<<"revocation reverted", p>> : p \in With(ms, "revoked_on")}
                       \cup {<<"kicked while excluded", p>> :
                                  p \in {q \in kicked : Excluded(n) \in ToSet(is[q])}}
                       \cup {<<"kicked again", p>> : p \in {q \in kicked : kick[q].done # <<>>}}
                /\ UNCHANGED <<peak, failed>>

-----------------------------------------------------------------------------
Init ==
    LET root == [p \in Pubs |-> OneIf(p \in Roots, Newcomer(0, 0, 0, 0))]
        idty == [p \in Pubs |-> OneIf(p \in Roots, Created(0))]
    IN  /\ chain = <<[time |-> 0, mindex |-> root, iindex |-> idty,
                      membersCount |-> Cardinality(Roots)]>>
        /\ mindex = root /\ iindex = idty
        /\ expiresOn = [k \in Dates |-> IF k = MsValidity THEN Roots ELSE {}]
        /\ revokesOn = [k \in Dates \cup {Early} |-> IF k = Factor * MsValidity THEN Roots ELSE {}]
        /\ kick = [p \in Pubs |-> [on |-> Null, done |-> <<>>]]
        /\ enabled = Roots /\ peak = 0 /\ reverts = 0
        /\ failed = NoFailure /\ marks = {}

Next ==
    \/ \E says \in Contents : \E X \in Exclusions(says), t \in HeadTime..MaxTime :
           \E K \in SUBSET (Lacking \cap (Members \ X)) : AddBlock(t, says, X, K)
    \/ RevertBlock

Spec == Init /\ [][Next]_vars

-----------------------------------------------------------------------------
OnChain(p, index) == FlattenSeq([k \in DOMAIN chain |-> chain[k][index][p]])

\* The corners of the code, which the properties below name where they matter.
AtTerm(entries) ==
    /\ \E e \in ToSet(entries) : Has(e, "expires_on")
    /\ \E e \in ToSet(entries) :
           ~Has(e, "expires_on") /\ (Has(e, "expired_on") \/ Has(e, "revoked_on"))
RenewedAtTerm(p)       == \E k \in DOMAIN chain : AtTerm(chain[k].mindex[p])
Marked(p, what)        == <<what, p>> \in marks

(***************************************************************************)
(* After any blocks and reverts, IINDEX and MINDEX reduce to what the blocks *)
(* of the chain wrote; the web of trust and the count of members of the      *)
(* current block agree with them.                                          *)
(***************************************************************************)
MembersAgree ==
    Sound => /\ \A p \in Pubs : /\ Reduced(mindex[p]) = Reduced(OnChain(p, "mindex"))
                                /\ Reduced(iindex[p]) = Reduced(OnChain(p, "iindex"))
             /\ enabled = Members
             /\ Last(chain).membersCount = Cardinality(Members)

(***************************************************************************)
(* A membership can be found at its term until it expires, an identity at    *)
(* the term of its implicit revocation until it is revoked.                 *)
(***************************************************************************)
TermsKept ==
    Sound => \A p \in {q \in Pubs : Known(q)} :
        /\ Ms(p).expired_on = Null => p \in expiresOn[Ms(p).expires_on]
        /\ Ms(p).revoked_on = Null => p \in revokesOn[Ms(p).revokes_on] \cup revokesOn[Early]

(***************************************************************************)
(* A member has a membership that is not over, or has just been kicked: the  *)
(* next block excludes it.  The exception is a membership written in a block *)
(* that ends the one before it.                                            *)
(***************************************************************************)
NoLapsedMember ==
    Sound => \A p \in {q \in Members : ~RenewedAtTerm(q)} :
        \/ kick[p].on = Height
        \/ /\ Ms(p).expired_on = Null /\ Ms(p).revoked_on = Null
           /\ \/ Ms(p).expires_on > HeadTime
              \/ \E e \in ToSet(Last(chain).mindex[p]) : Has(e, "expires_on")

(***************************************************************************)
(* Those to be excluded at the next block are those the current block       *)
(* kicked, except after the revert of a second kick or of a kick of a member *)
(* that the same block excluded.                                           *)
(***************************************************************************)
KicksFollow ==
    Sound => \A p \in Pubs :
        \/ p \in ToBeKicked <=> Kicked(Height) \in ToSet(Last(chain).iindex[p])
        \/ Marked(p, "kicked again") \/ Marked(p, "kicked while excluded")

\* The three together: indexes, terms and kicks are those of the chain, whatever was reverted.
IndexesAgree == MembersAgree /\ TermsKept /\ KicksFollow

(***************************************************************************)
(* Saving or reverting a block is interrupted by an index only after a       *)
(* membership was written in the block that ends the one before it, the      *)
(* revert of a revocation, or a kick in the block of the exclusion.         *)
(***************************************************************************)
FailuresExplained ==
    \A p \in failed.pubs :
        \/ failed.step = "generate" /\ Marked(p, "reverted")
        \/ /\ failed.step = "save"
           /\ AtTerm(SelectSeq(mindex[p], LAMBDA e : e.writtenOn = Height + 1))
        \/ failed.step = "revert" /\ AtTerm(Last(chain).mindex[p])
        \/ failed.index = "revokesOn" /\ Marked(p, "revocation reverted")
        \/ failed.index = "kick" /\ Marked(p, "kicked while excluded")

(***************************************************************************)
(* "Members are excluded at B# +1" (LevelIIndexKickIndexer.onInsert): those  *)
(* the next block has to exclude are members, or no block can follow.       *)
(***************************************************************************)
ToBeKickedAreMembers == Sound => ToBeKicked \subseteq Members
=============================================================================
