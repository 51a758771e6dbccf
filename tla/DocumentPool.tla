---------------------------- MODULE DocumentPool ----------------------------
(***************************************************************************)
(* The documents that wait to be written in a block: identities,            *)
(* certifications, revocations and memberships submitted to the services,   *)
(* their sandboxes, and what blocks, in any order with the submissions,     *)
(* remove from them.  Everything is one operation of the FIFO, but the      *)
(* reading of the certified identity, done before.                         *)
(***************************************************************************)
EXTENDS Integers, FiniteSets, SequencesExt

CONSTANTS IdtyDocs,     \* identities: [pub, uid, ref], of keys that are not members yet
          CertDocs,     \* certifications: [from, idty, ref]
          MsDocs,       \* memberships: [pub, type, ref]
          OwnKey,       \* key of the node
          IdtySize,     \* SANDBOX_SIZE_IDENTITIES
          CertSize,     \* SANDBOX_SIZE_CERTIFICATIONS
          MsSize,       \* SANDBOX_SIZE_MEMBERSHIPS
          IdtyWindow, SigWindow, MsWindow, SigReplay, MsTerm,
          MaxDocHeight, \* bound: number of the last block
          MaxReverted   \* bound: blocks reverted

ASSUME PoolAssumption ==
    /\ {IdtySize, CertSize, MsSize} \subseteq Nat \ {0}
    /\ {IdtyWindow, SigWindow, MsWindow, SigReplay, MsTerm, MaxDocHeight, MaxReverted} \subseteq Nat
    /\ \A i \in IdtyDocs : i.ref \in Nat
    /\ \A c \in CertDocs : c.idty \in IdtyDocs /\ c.from # c.idty.pub /\ c.ref \in Nat
    /\ \A d \in MsDocs : d.type \in {"IN", "OUT"} /\ d.ref \in Nat

VARIABLES
    written,     \* blocks after the root: [kind, idty, certs, ms]
    rows,        \* table idty
    certRows,    \* table cert
    msRows,      \* table membership
    requests,    \* submissions of certifications under way
    registered,  \* history: identities whose revocation was accepted
    dropped,     \* history: identities that a block removed from the table
    late,        \* history: certifications accepted on a current block that was not the current one any more
    unwritten    \* blocks reverted

tables == <<rows, certRows, msRows>>
poolVars == <<written, tables, requests, registered, dropped, late, unwritten>>

\* A block has the median time of its number.
Height == Len(written)
IdtyOf(b) == {b[k].idty : k \in {n \in DOMAIN b : b[n].kind = "newcomer"}}
WrittenIdty == IdtyOf(written)
RevokedIdty == {written[k].idty : k \in {n \in DOMAIN written : written[n].kind = "revocation"}}
MemberKeys == {i.pub : i \in WrittenIdty \ RevokedIdty}

\* Memberships of a key in the chain, with the block that wrote them.
WrittenMs(pub) ==
    {<<written[k].ms, k>> : k \in {n \in DOMAIN written : written[n].kind \in {"newcomer", "renewal"} /\ written[n].ms.pub = pub}}
MsExpiry(pub) == LET last == CHOOSE m \in WrittenMs(pub) : \A n \in WrittenMs(pub) : n[2] <= m[2] IN last[1].ref + MsTerm

----------------------------------------------------------------------------
(* Sandboxes. *)

Counted == {i \in DOMAIN rows : ~rows[i].member}
CertsOf(i) == Cardinality({c \in certRows : c.idty = i})
RanksAbove(i, j) == CertsOf(j) = 0 /\ i.ref > j.ref

\* An identity that arrives has no certification: it must rank above the lowest of the best ones.
IdtyAccepted(i) == i.pub = OwnKey \/ Cardinality({j \in Counted : ~RanksAbove(i, j)}) < IdtySize

\* The request lists the oldest certifications of the issuer, and compares with the most recent of these.
CertAccepted(c) ==
    LET mine == {d \in certRows : d.from = c.from} IN
    \/ c.from = OwnKey \/ Cardinality(mine) < CertSize
    \/ Cardinality({d \in mine : d.ref < c.ref}) >= CertSize

\* The rows of memberships have no field block_number: no membership ranks above another.
MsAccepted(d) == d.pub = OwnKey \/ Cardinality(msRows) < MsSize

----------------------------------------------------------------------------
(* Submissions. *)

KnownIdty(i) == i \in DOMAIN rows \/ i \in WrittenIdty

IdtyValid(i) ==
    /\ ~KnownIdty(i)
    /\ \A j \in WrittenIdty : j.pub # i.pub /\ j.uid # i.uid
    /\ i.ref <= Height /\ Height <= i.ref + IdtyWindow

Row(expires, revocation, member) == [expires |-> expires, revocation |-> revocation, member |-> member, removed |-> FALSE]

SaveIdentity(i, row) == rows' = [j \in DOMAIN rows \cup {i} |-> IF j = i THEN row ELSE rows[j]]

SubmitIdentity(i) ==
    /\ IdtyValid(i) /\ IdtyAccepted(i)
    /\ SaveIdentity(i, Row(i.ref + IdtyWindow, FALSE, FALSE))
    /\ UNCHANGED <<written, certRows, msRows, requests, registered, dropped, late, unwritten>>

NoRequest == [stage |-> "idle"]

\* submitCertification reads the current block and the identity, and absorbs the one that the certification holds when
\* there is none: one operation for an identity at a time.
ReadCertified(c) ==
    /\ requests[c] = NoRequest /\ c.ref <= Height
    /\ LET next == IF KnownIdty(c.idty) THEN "certify" ELSE "absorb" IN
       /\ next = "absorb" => ~\E d \in CertDocs : requests[d].stage = "absorb" /\ d.idty = c.idty
       /\ requests' = [requests EXCEPT ![c] = [stage |-> next, height |-> Height, absorbed |-> next = "absorb"]]
    /\ UNCHANGED <<written, tables, registered, dropped, late, unwritten>>

\* The sandbox is not asked for an identity that is absorbed.
AbsorbIdentity(c) ==
    /\ requests[c].stage = "absorb"
    /\ IF IdtyValid(c.idty)
       THEN /\ SaveIdentity(c.idty, Row(c.idty.ref + IdtyWindow, FALSE, FALSE))
            /\ requests' = [requests EXCEPT ![c].stage = "certify"]
       ELSE requests' = [requests EXCEPT ![c] = NoRequest] /\ UNCHANGED rows
    /\ UNCHANGED <<written, certRows, msRows, registered, dropped, late, unwritten>>

\* Against the current block that was read.
CertValid(c, height) ==
    /\ c.ref <= Height /\ c.ref + SigWindow >= height
    /\ c \notin certRows
    /\ ~\E k \in DOMAIN written : \E d \in written[k].certs :
        d.from = c.from /\ d.idty.pub = c.idty.pub /\ k + SigReplay > height
    /\ CertAccepted(c)

\* mutant: the identity that was absorbed really leaves the table
ReallyDelete(i) == rows' = [j \in DOMAIN rows \ {i} |-> rows[j]]

\* deleteByHash: a mark that nothing reads.
DeleteByHash(i) == rows' = [j \in DOMAIN rows |-> IF j = i THEN [rows[j] EXCEPT !.removed = TRUE] ELSE rows[j]]

Certify(c) ==
    /\ requests[c].stage = "certify"
    /\ requests' = [requests EXCEPT ![c] = NoRequest]
    /\ IF CertValid(c, requests[c].height)
       THEN /\ certRows' = certRows \cup {c}
            /\ late' = IF c.ref + SigWindow < Height THEN late \cup {c} ELSE late
            /\ UNCHANGED rows
       ELSE /\ IF requests[c].absorbed THEN DeleteByHash(c.idty) ELSE UNCHANGED rows
            /\ UNCHANGED <<certRows, late>>
    /\ UNCHANGED <<written, msRows, registered, dropped, unwritten>>

\* The row of an identity unknown so far is never given the end of its window: it is 0.
SubmitRevocation(i) ==
    /\ \/ i \in DOMAIN rows /\ ~rows[i].revocation
          /\ SaveIdentity(i, Row(rows[i].expires, TRUE, rows[i].member))
       \/ i \notin DOMAIN rows /\ i \in WrittenIdty \ RevokedIdty
          /\ SaveIdentity(i, Row(MsExpiry(i.pub), TRUE, TRUE))
       \/ ~KnownIdty(i) /\ IdtyAccepted(i) /\ SaveIdentity(i, Row(0, TRUE, FALSE))
    /\ registered' = registered \cup {i} /\ dropped' = dropped \ {i}
    /\ UNCHANGED <<written, certRows, msRows, requests, late, unwritten>>

MostRecent(pub) == {d.ref : d \in {x \in msRows : x.pub = pub}} \cup {m[1].ref : m \in WrittenMs(pub)}

SubmitMembership(d) ==
    /\ \A n \in MostRecent(d.pub) : n < d.ref
    /\ d.type = "OUT" => d.pub \in MemberKeys
    /\ d.ref <= Height /\ Height <= d.ref + MsWindow
    /\ MsAccepted(d)
    /\ msRows' = msRows \cup {d}
    /\ UNCHANGED <<written, rows, certRows, requests, registered, dropped, late, unwritten>>

----------------------------------------------------------------------------
(* Blocks, of this node or of another: with documents that are in the tables or not. *)

\* mutant: another identity with the same uid is left
RemoveSamePubkey(b) ==
    {i \in DOMAIN rows : b.kind \in {"newcomer", "revocation"} /\ i.pub = b.idty.pub}

\* createNewcomers: the pubkey and the uid are now used.  updateMembers: the key is revoked.
RemovedBy(b) ==
    {i \in DOMAIN rows :
        \/ b.kind \in {"newcomer", "revocation"} /\ i.pub = b.idty.pub
        \/ b.kind = "newcomer" /\ i.uid = b.idty.uid}

Expired(h) == {i \in DOMAIN rows : rows[i].expires < h}

WriteDocuments(b) ==
    /\ Height < MaxDocHeight
    /\ written' = Append(written, b)
    /\ LET gone == RemovedBy(b) \cup Expired(Height + 1) IN
       /\ rows' = [i \in DOMAIN rows \ gone |-> rows[i]]
       /\ dropped' = dropped \cup gone \cup (IF b.kind = "newcomer" THEN {b.idty} ELSE {})
    /\ certRows' = {c \in certRows \ b.certs : c.ref + SigWindow >= Height + 1}
    /\ msRows' = {d \in msRows : d # b.ms /\ d.ref + MsWindow >= Height + 1}
    /\ late' = {}
    /\ UNCHANGED <<requests, registered, unwritten>>

NoMs == [pub |-> "", type |-> "IN", ref |-> 0]
NoIdty == [pub |-> "", uid |-> "", ref |-> 0]
Block(kind, i, certs, d) == [kind |-> kind, idty |-> i, certs |-> certs, ms |-> d]

WriteNewcomer(i, certs, d) ==
    /\ \A j \in WrittenIdty : j.pub # i.pub /\ j.uid # i.uid
    /\ d.pub = i.pub /\ d.type = "IN" /\ i.ref <= d.ref /\ d.ref <= Height
    /\ certs # {} /\ \A c \in certs : c.ref <= Height
    /\ WriteDocuments(Block("newcomer", i, certs, d))

WriteRevocation(i) ==
    /\ i \in WrittenIdty \ RevokedIdty
    /\ WriteDocuments(Block("revocation", i, {}, NoMs))

WriteRenewal(d) ==
    /\ d.pub \in MemberKeys /\ d.ref <= Height /\ \A m \in WrittenMs(d.pub) : m[1].ref < d.ref
    /\ WriteDocuments(Block("renewal", NoIdty, {}, d))

WriteEmpty == WriteDocuments(Block("empty", NoIdty, {}, NoMs))

\* revertBlock gives no document back.
RevertDocuments ==
    /\ Height > 0 /\ unwritten < MaxReverted
    /\ written' = Front(written) /\ unwritten' = unwritten + 1
    /\ UNCHANGED <<tables, requests, registered, dropped, late>>

PoolInit ==
    /\ written = <<>>
    /\ rows = [i \in {} |-> Row(0, FALSE, FALSE)] /\ certRows = {} /\ msRows = {}
    /\ requests = [c \in CertDocs |-> NoRequest]
    /\ registered = {} /\ dropped = {} /\ late = {} /\ unwritten = 0

PoolNext ==
    \/ \E i \in IdtyDocs : SubmitIdentity(i) \/ SubmitRevocation(i) \/ WriteRevocation(i)
    \/ \E c \in CertDocs : ReadCertified(c) \/ AbsorbIdentity(c) \/ Certify(c)
    \/ \E d \in MsDocs : SubmitMembership(d) \/ WriteRenewal(d)
    \/ \E i \in IdtyDocs, d \in MsDocs : \E certs \in SUBSET {c \in CertDocs : c.idty = i} : WriteNewcomer(i, certs, d)
    \/ WriteEmpty \/ RevertDocuments

PoolSpec == PoolInit /\ [][PoolNext]_poolVars

----------------------------------------------------------------------------
\* No submission, accepted or refused, makes the node lose what it accepted before: the identity of a certification
\* that waits is there, and so is a revocation, until a block writes or removes it.
AcceptedIsKept ==
    /\ \A c \in certRows : KnownIdty(c.idty) \/ c.idty \in dropped
    /\ \A i \in registered : (i \in DOMAIN rows /\ rows[i].revocation) \/ i \in dropped

\* What waits may still be written: identities use no key and no uid of the chain (but those that a revocation made),
\* and windows are not over, unless a certification was checked against an older current block.
PoolIsCurrent ==
    /\ \A i \in {n \in DOMAIN rows : ~rows[n].revocation} :
        /\ rows[i].expires >= Height
        /\ \A j \in WrittenIdty : j.pub # i.pub /\ j.uid # i.uid
    /\ \A c \in certRows \ late : c.ref + SigWindow >= Height
    /\ \A d \in msRows : d.ref + MsWindow >= Height
=============================================================================
