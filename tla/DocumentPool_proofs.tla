-------------------------- MODULE DocumentPool_proofs --------------------------
(***************************************************************************)
(* What waits to be written, for any documents, windows and sizes: nothing  *)
(* accepted is lost by another submission, and nothing that waits is over.  *)
(*                                                                         *)
(* An identity is followed from its first submission: it has a row, or a    *)
(* block removed it; a block that writes one does so too, which is what      *)
(* remains true once that block is reverted.                               *)
(***************************************************************************)
EXTENDS DocumentPool, Gossip, SequenceTheorems, FiniteSetTheorems, TLAPS

Kinds == {"newcomer", "revocation", "renewal", "empty"}

BlockType == [kind : Kinds, idty : IdtyDocs \cup {NoIdty}, certs : SUBSET CertDocs, ms : MsDocs \cup {NoMs}]

Request == {NoRequest} \cup [stage : {"absorb", "certify"}, height : Nat, absorbed : BOOLEAN]

IsRow(r) ==
    /\ DOMAIN r = {"expires", "revocation", "member", "removed"} /\ r = [f \in DOMAIN r |-> r[f]]
    /\ r.revocation \in BOOLEAN /\ (~r.revocation => r.expires \in Int)

PoolTypeOK ==
    /\ written \in Seq(BlockType)
    /\ DOMAIN rows \subseteq IdtyDocs
    /\ \A i \in DOMAIN rows : IsRow(rows[i])
    /\ certRows \subseteq CertDocs /\ msRows \subseteq MsDocs
    /\ requests \in [CertDocs -> Request]

\* A block that wrote an identity removed it from the table, or it came back.
Kept(i) == i \in DOMAIN rows \/ i \in dropped

IdentitiesKept ==
    /\ \A i \in WrittenIdty : Kept(i)
    /\ \A c \in CertDocs : requests[c].stage = "certify" => Kept(c.idty)
    /\ \A c \in certRows : Kept(c.idty)
    /\ \A i \in registered : (i \in DOMAIN rows /\ rows[i].revocation) \/ i \in dropped

PoolInv == PoolTypeOK /\ IdentitiesKept /\ PoolIsCurrent

----------------------------------------------------------------------------
(* Blocks. *)

LEMMA Appended ==
    ASSUME PoolTypeOK, NEW b
    PROVE  /\ Len(Append(written, b)) = Height + 1 /\ Height \in Nat
           /\ IdtyOf(Append(written, b)) = WrittenIdty \cup (IF b.kind = "newcomer" THEN {b.idty} ELSE {})
<1> DEFINE s == Append(written, b)
<1>1. /\ Len(written) \in Nat /\ Len(s) = Len(written) + 1 /\ DOMAIN s = 1..(Len(written) + 1) /\ DOMAIN written = 1..Len(written)
      /\ s[Len(written) + 1] = b /\ \A k \in 1..Len(written) : s[k] = written[k]
  BY DEF PoolTypeOK
<1>2. \A k \in DOMAIN s : k \in DOMAIN written \/ k = Len(written) + 1
  BY <1>1
<1>3. ASSUME NEW i \in IdtyOf(s) PROVE i \in WrittenIdty \/ (b.kind = "newcomer" /\ i = b.idty)
  BY <1>1, <1>2 DEF IdtyOf, WrittenIdty
<1>4. ASSUME NEW i \in WrittenIdty PROVE i \in IdtyOf(s)
  <2>1. PICK k \in DOMAIN written : written[k].kind = "newcomer" /\ i = written[k].idty
    BY DEF WrittenIdty, IdtyOf
  <2>2. k \in DOMAIN s /\ s[k] = written[k]
    BY <1>1, <2>1
  <2> QED BY <2>1, <2>2 DEF IdtyOf
<1>5. b.kind = "newcomer" => b.idty \in IdtyOf(s)
  <2>1. Len(written) + 1 \in DOMAIN s
    BY <1>1
  <2> QED BY <1>1, <2>1 DEF IdtyOf
<1>6. Height = Len(written)
  BY DEF Height
<1> QED BY <1>1, <1>3, <1>4, <1>5, <1>6

LEMMA FrontOf ==
    ASSUME NEW S, NEW s \in Seq(S), Len(s) > 0
    PROVE  /\ Front(s) \in Seq(S) /\ Len(Front(s)) = Len(s) - 1
           /\ \A k \in DOMAIN Front(s) : k \in DOMAIN s /\ Front(s)[k] = s[k]
<1>1. PICK n : n = Len(s) - 1
  OBVIOUS
<1>2. n \in Nat /\ \A k \in 1..n : k \in DOMAIN s /\ s[k] \in S /\ 1 + k - 1 = k
  BY <1>1
<1>3. PICK t : t = SubSeq(s, 1, n)
  OBVIOUS
<1>4. /\ t \in Seq(S) /\ Len(t) = IF 1 <= n THEN n - 1 + 1 ELSE 0
      /\ \A k \in 1..(n - 1 + 1) : t[k] = s[1 + k - 1]
  BY <1>2, <1>3, SubSeqProperties
<1>5. Len(t) = n /\ DOMAIN t = 1..n
  BY <1>2, <1>4
<1>6. \A k \in 1..n : t[k] = s[k]
  <2>1. n - 1 + 1 = n
    BY <1>2
  <2> QED BY <1>2, <1>4, <2>1
<1>7. Front(s) = t
  BY <1>1, <1>3 DEF Front
<1> QED BY <1>1, <1>2, <1>4, <1>5, <1>6, <1>7

LEMMA Reverted ==
    ASSUME PoolTypeOK, Height > 0
    PROVE  /\ Len(Front(written)) = Height - 1 /\ Height \in Nat
           /\ Front(written) \in Seq(BlockType)
           /\ IdtyOf(Front(written)) \subseteq WrittenIdty
<1>1. /\ Front(written) \in Seq(BlockType) /\ Len(Front(written)) = Len(written) - 1 /\ Len(written) \in Nat
      /\ \A k \in DOMAIN Front(written) : k \in DOMAIN written /\ Front(written)[k] = written[k]
  BY FrontOf DEF PoolTypeOK, Height
<1> QED BY <1>1 DEF IdtyOf, WrittenIdty, Height

\* The documents have their references and their identities.
LEMMA Documents ==
    /\ IdtyWindow \in Nat /\ SigWindow \in Nat /\ MsWindow \in Nat
    /\ \A i \in IdtyDocs : i.ref \in Nat
    /\ \A c \in CertDocs : c.idty \in IdtyDocs /\ c.ref \in Nat
    /\ \A d \in MsDocs : d.ref \in Nat
  BY PoolAssumption

----------------------------------------------------------------------------
(* Submissions: rows are added, marked or given a revocation. *)

LEMMA SubmissionStep ==
    ASSUME PoolInv, PoolTypeOK', written' = written, late \subseteq late',
           \A i \in DOMAIN rows : i \in DOMAIN rows' /\ (rows[i].revocation => rows'[i].revocation),
           \A i \in dropped : i \in dropped' \/ (i \in DOMAIN rows' /\ rows'[i].revocation),
           \A i \in registered' : i \in registered \/ (i \in DOMAIN rows' /\ rows'[i].revocation),
           \A i \in DOMAIN rows' :
              \/ rows'[i].revocation
              \/ i \in DOMAIN rows /\ ~rows[i].revocation /\ rows'[i].expires = rows[i].expires
              \/ IdtyValid(i) /\ rows'[i].expires = i.ref + IdtyWindow,
           \A c \in CertDocs : requests'[c].stage = "certify" =>
              requests[c].stage = "certify" \/ KnownIdty(c.idty) \/ c.idty \in DOMAIN rows',
           \A c \in certRows' :
              c \in certRows \/ (requests[c].stage = "certify" /\ (c \in late' \/ c.ref + SigWindow >= Height)),
           \A d \in msRows' : d \in msRows \/ Height <= d.ref + MsWindow
    PROVE  PoolInv'
<1> USE DEF PoolInv
<1>1. Height' = Height /\ WrittenIdty' = WrittenIdty /\ Height \in Nat
  BY DEF Height, WrittenIdty, PoolTypeOK
<1>2. ASSUME NEW i, Kept(i) PROVE Kept(i)'
  BY <1>2 DEF Kept
<1>3. \A i : KnownIdty(i) => Kept(i)
  BY DEF KnownIdty, Kept, IdentitiesKept
<1>4. IdentitiesKept'
  <2>1. \A i \in WrittenIdty' : Kept(i)'
    BY <1>1, <1>2 DEF IdentitiesKept
  <2>2. ASSUME NEW c \in CertDocs, requests'[c].stage = "certify" PROVE Kept(c.idty)'
    BY <1>2, <1>3, <2>2 DEF IdentitiesKept, Kept
  <2>3. ASSUME NEW c \in certRows' PROVE Kept(c.idty)'
    BY <1>2, <2>3 DEF IdentitiesKept, PoolTypeOK
  <2>4. ASSUME NEW i \in registered' PROVE (i \in DOMAIN rows' /\ rows'[i].revocation) \/ i \in dropped'
    BY <2>4 DEF IdentitiesKept
  <2> QED BY <2>1, <2>2, <2>3, <2>4 DEF IdentitiesKept, Kept
<1>5. PoolIsCurrent'
  <2>1. ASSUME NEW i \in DOMAIN rows', ~rows'[i].revocation
        PROVE  rows'[i].expires >= Height /\ \A j \in WrittenIdty : j.pub # i.pub /\ j.uid # i.uid
    <3>1. CASE i \in DOMAIN rows /\ ~rows[i].revocation /\ rows'[i].expires = rows[i].expires
      BY <3>1 DEF PoolIsCurrent
    <3>2. CASE IdtyValid(i) /\ rows'[i].expires = i.ref + IdtyWindow
      <4>1. i.ref \in Nat
        BY Documents DEF PoolTypeOK
      <4> QED BY <1>1, <3>2, <4>1, Documents DEF IdtyValid
    <3> QED BY <2>1, <3>1, <3>2
  <2>2. \A c \in certRows' \ late' : c.ref + SigWindow >= Height
    BY DEF PoolIsCurrent
  <2>3. ASSUME NEW d \in msRows' PROVE d.ref + MsWindow >= Height
    <3>1. d.ref \in Nat /\ (d \in msRows => d.ref + MsWindow >= Height)
      BY Documents DEF PoolIsCurrent, PoolTypeOK
    <3> QED BY <1>1, <3>1, Documents
  <2> QED BY <1>1, <2>1, <2>2, <2>3 DEF PoolIsCurrent
<1> QED BY <1>4, <1>5

\* A row that is saved, or changed.
LEMMA Saved ==
    ASSUME PoolTypeOK, NEW i \in IdtyDocs, NEW e, NEW rev \in BOOLEAN, NEW m, rev \/ e \in Int,
           SaveIdentity(i, Row(e, rev, m))
    PROVE  /\ DOMAIN rows' = DOMAIN rows \cup {i} /\ DOMAIN rows' \subseteq IdtyDocs
           /\ \A j \in DOMAIN rows : j # i => rows'[j] = rows[j]
           /\ rows'[i].revocation = rev /\ rows'[i].expires = e
           /\ \A j \in DOMAIN rows' : IsRow(rows'[j])
<1>1. /\ DOMAIN rows' = DOMAIN rows \cup {i} /\ rows'[i] = Row(e, rev, m)
      /\ \A j \in DOMAIN rows : j # i => rows'[j] = rows[j]
  BY DEF SaveIdentity
<1>2. Row(e, rev, m).revocation = rev /\ Row(e, rev, m).expires = e /\ IsRow(Row(e, rev, m))
  BY DEF Row, IsRow
<1> QED BY <1>1, <1>2 DEF PoolTypeOK

LEMMA SubmitIdentityStep == ASSUME PoolInv, NEW i \in IdtyDocs, SubmitIdentity(i) PROVE PoolInv'
<1> USE DEF PoolInv
<1>1. /\ IdtyValid(i) /\ i \notin DOMAIN rows
      /\ SaveIdentity(i, Row(i.ref + IdtyWindow, FALSE, FALSE)) /\ i.ref + IdtyWindow \in Int
      /\ UNCHANGED <<written, certRows, msRows, requests, registered, dropped, late, unwritten>>
  <2>1. i.ref + IdtyWindow \in Int
    BY Documents
  <2> QED BY <2>1, Zenon DEF SubmitIdentity, IdtyValid, KnownIdty
<1>2. /\ DOMAIN rows' = DOMAIN rows \cup {i} /\ DOMAIN rows' \subseteq IdtyDocs
      /\ \A j \in DOMAIN rows : rows'[j] = rows[j]
      /\ rows'[i].revocation = FALSE /\ rows'[i].expires = i.ref + IdtyWindow
      /\ \A j \in DOMAIN rows' : IsRow(rows'[j])
  BY <1>1, Saved
<1>3. PoolTypeOK'
  BY <1>1, <1>2 DEF PoolTypeOK
<1>4. /\ \A c \in certRows' : c \in certRows
      /\ \A j \in DOMAIN rows' :
              \/ rows'[j].revocation
              \/ j \in DOMAIN rows /\ ~rows[j].revocation /\ rows'[j].expires = rows[j].expires
              \/ IdtyValid(j) /\ rows'[j].expires = j.ref + IdtyWindow
  BY <1>1, <1>2
<1> QED BY <1>1, <1>2, <1>3, <1>4, SubmissionStep

LEMMA SubmitRevocationStep == ASSUME PoolInv, NEW i \in IdtyDocs, SubmitRevocation(i) PROVE PoolInv'
<1> USE DEF PoolInv
<1>1. /\ \E e, m : SaveIdentity(i, Row(e, TRUE, m))
      /\ registered' = registered \cup {i} /\ dropped' = dropped \ {i}
      /\ UNCHANGED <<written, certRows, msRows, requests, late, unwritten>>
  BY DEF SubmitRevocation
<1>2. /\ DOMAIN rows' = DOMAIN rows \cup {i} /\ DOMAIN rows' \subseteq IdtyDocs
      /\ \A j \in DOMAIN rows : j # i => rows'[j] = rows[j]
      /\ rows'[i].revocation = TRUE
      /\ \A j \in DOMAIN rows' : IsRow(rows'[j])
  BY <1>1, Saved
<1>3. PoolTypeOK'
  BY <1>1, <1>2 DEF PoolTypeOK
<1>4. \A j \in DOMAIN rows' :
          \/ rows'[j].revocation
          \/ j \in DOMAIN rows /\ ~rows[j].revocation /\ rows'[j].expires = rows[j].expires
  BY <1>2
<1> QED BY <1>1, <1>2, <1>3, <1>4, SubmissionStep

LEMMA ReadCertifiedStep == ASSUME PoolInv, NEW c \in CertDocs, ReadCertified(c) PROVE PoolInv'
<1> USE DEF PoolInv
<1> DEFINE next == IF KnownIdty(c.idty) THEN "certify" ELSE "absorb"
           request == [stage |-> next, height |-> Height, absorbed |-> next = "absorb"]
<1>1. requests' = [requests EXCEPT ![c] = request] /\ UNCHANGED <<written, tables, registered, dropped, late, unwritten>>
  BY DEF ReadCertified
<1>2. request \in Request /\ (request.stage = "certify" => KnownIdty(c.idty))
  BY DEF Request, Height, PoolTypeOK
<1>3. PoolTypeOK'
  BY <1>1, <1>2 DEF PoolTypeOK, tables
<1>4. \A d \in CertDocs : requests'[d].stage = "certify" => requests[d].stage = "certify" \/ KnownIdty(d.idty)
  BY <1>1, <1>2 DEF PoolTypeOK
<1>5. \A j \in DOMAIN rows : rows[j].revocation \in BOOLEAN
  BY DEF PoolTypeOK, IsRow
<1> QED BY <1>1, <1>3, <1>4, <1>5, SubmissionStep DEF tables

LEMMA AbsorbIdentityStep == ASSUME PoolInv, NEW c \in CertDocs, AbsorbIdentity(c) PROVE PoolInv'
<1> USE DEF PoolInv
<1>0. PICK i : i = c.idty
  OBVIOUS
<1>1. requests[c] \in [stage : {"absorb", "certify"}, height : Nat, absorbed : BOOLEAN] /\ i \in IdtyDocs /\ i.ref + IdtyWindow \in Int
  <2>1. requests[c] \in Request /\ requests[c].stage = "absorb" /\ NoRequest.stage # "absorb"
    BY DEF AbsorbIdentity, PoolTypeOK, NoRequest
  <2>2. requests[c] # NoRequest
    BY <2>1
  <2> QED BY <1>0, <2>1, <2>2, Documents DEF Request
<1>2. UNCHANGED <<written, certRows, msRows, registered, dropped, late, unwritten>>
  BY DEF AbsorbIdentity
<1>3. \A j \in DOMAIN rows : rows[j].revocation \in BOOLEAN
  BY DEF PoolTypeOK, IsRow
<1>4. CASE IdtyValid(i)
  <2>1. /\ SaveIdentity(i, Row(i.ref + IdtyWindow, FALSE, FALSE)) /\ i \notin DOMAIN rows
        /\ requests' = [requests EXCEPT ![c].stage = "certify"]
    BY <1>0, <1>4, Zenon DEF AbsorbIdentity, IdtyValid, KnownIdty
  <2>2. /\ DOMAIN rows' = DOMAIN rows \cup {i} /\ DOMAIN rows' \subseteq IdtyDocs
        /\ \A j \in DOMAIN rows : rows'[j] = rows[j]
        /\ rows'[i].revocation = FALSE /\ rows'[i].expires = i.ref + IdtyWindow
        /\ \A j \in DOMAIN rows' : IsRow(rows'[j])
    BY <1>1, <2>1, Saved
  <2>3. requests' \in [CertDocs -> Request] /\ \A d \in CertDocs : d # c => requests'[d] = requests[d]
    <3>1. [requests[c] EXCEPT !.stage = "certify"] \in Request
      BY <1>1 DEF Request
    <3> QED BY <2>1, <3>1 DEF PoolTypeOK
  <2>4. PoolTypeOK'
    BY <1>2, <2>2, <2>3 DEF PoolTypeOK
  <2>5. /\ \A d \in CertDocs : requests'[d].stage = "certify" => requests[d].stage = "certify" \/ d.idty \in DOMAIN rows'
        /\ \A j \in DOMAIN rows' :
              \/ rows'[j].revocation
              \/ j \in DOMAIN rows /\ ~rows[j].revocation /\ rows'[j].expires = rows[j].expires
              \/ IdtyValid(j) /\ rows'[j].expires = j.ref + IdtyWindow
    BY <1>0, <1>4, <2>2, <2>3
  <2> QED BY <1>2, <2>2, <2>4, <2>5, SubmissionStep
<1>5. CASE ~IdtyValid(i)
  <2>1. requests' = [requests EXCEPT ![c] = NoRequest] /\ rows' = rows
    BY <1>0, <1>5, Zenon DEF AbsorbIdentity
  <2>2. requests' \in [CertDocs -> Request] /\ \A d \in CertDocs : requests'[d].stage = "certify" => requests[d].stage = "certify"
    BY <2>1 DEF PoolTypeOK, Request, NoRequest
  <2>3. PoolTypeOK'
    BY <1>2, <2>1, <2>2 DEF PoolTypeOK
  <2> QED BY <1>2, <1>3, <2>1, <2>2, <2>3, SubmissionStep
<1> QED BY <1>4, <1>5

LEMMA CertifyStep == ASSUME PoolInv, NEW c \in CertDocs, Certify(c) PROVE PoolInv'
<1> USE DEF PoolInv
<1>1. /\ requests[c].stage = "certify" /\ requests' = [requests EXCEPT ![c] = NoRequest]
      /\ UNCHANGED <<written, msRows, registered, dropped, unwritten>>
  BY DEF Certify
<1>2. requests' \in [CertDocs -> Request] /\ \A d \in CertDocs : requests'[d].stage = "certify" => requests[d].stage = "certify"
  BY <1>1 DEF PoolTypeOK, Request, NoRequest
<1>3. \A j \in DOMAIN rows : rows[j].revocation \in BOOLEAN
  BY DEF PoolTypeOK, IsRow
<1>4. CASE CertValid(c, requests[c].height)
  <2>1. certRows' = certRows \cup {c} /\ late' = (IF c.ref + SigWindow < Height THEN late \cup {c} ELSE late) /\ rows' = rows
    BY <1>4 DEF Certify
  <2>2. late \subseteq late' /\ (c \in late' \/ c.ref + SigWindow >= Height)
    <3>1. c.ref \in Nat /\ SigWindow \in Nat /\ Height \in Nat
      BY Documents DEF PoolTypeOK, Height
    <3> QED BY <2>1, <3>1
  <2>3. PoolTypeOK'
    BY <1>1, <1>2, <2>1 DEF PoolTypeOK
  <2>4. \A d \in certRows' : d \in certRows \/ (requests[d].stage = "certify" /\ (d \in late' \/ d.ref + SigWindow >= Height))
    BY <1>1, <2>1, <2>2
  <2> QED BY <1>1, <1>2, <1>3, <2>1, <2>2, <2>3, <2>4, SubmissionStep
<1>5. CASE ~CertValid(c, requests[c].height)
  <2>1. certRows' = certRows /\ late' = late /\ (DeleteByHash(c.idty) \/ rows' = rows)
    BY <1>5, Zenon DEF Certify
  <2>2. /\ DOMAIN rows' = DOMAIN rows
        /\ \A j \in DOMAIN rows : /\ rows'[j].revocation = rows[j].revocation /\ rows'[j].expires = rows[j].expires
                                 /\ IsRow(rows'[j])
    <3>1. CASE rows' = rows
      BY <3>1 DEF PoolTypeOK
    <3>2. CASE DeleteByHash(c.idty)
      <4>1. DOMAIN rows' = DOMAIN rows /\ \A j \in DOMAIN rows : rows'[j] = rows[j] \/ rows'[j] = [rows[j] EXCEPT !.removed = TRUE]
        BY <3>2 DEF DeleteByHash
      <4>2. \A j \in DOMAIN rows : IsRow(rows[j])
        BY DEF PoolTypeOK
      <4>3. ASSUME NEW j \in DOMAIN rows
            PROVE  rows'[j].revocation = rows[j].revocation /\ rows'[j].expires = rows[j].expires /\ IsRow(rows'[j])
        BY <4>1, <4>2 DEF IsRow
      <4> QED BY <4>1, <4>3
    <3> QED BY <2>1, <3>1, <3>2
  <2>3. PoolTypeOK'
    BY <1>1, <1>2, <2>1, <2>2 DEF PoolTypeOK
  <2> QED BY <1>1, <1>2, <1>3, <2>1, <2>2, <2>3, SubmissionStep
<1> QED BY <1>4, <1>5

LEMMA SubmitMembershipStep == ASSUME PoolInv, NEW d \in MsDocs, SubmitMembership(d) PROVE PoolInv'
<1> USE DEF PoolInv
<1>1. /\ Height <= d.ref + MsWindow /\ msRows' = msRows \cup {d}
      /\ UNCHANGED <<written, rows, certRows, requests, registered, dropped, late, unwritten>>
  BY DEF SubmitMembership
<1>2. PoolTypeOK' /\ \A j \in DOMAIN rows : rows[j].revocation \in BOOLEAN
  BY <1>1 DEF PoolTypeOK, IsRow
<1> QED BY <1>1, <1>2, SubmissionStep

----------------------------------------------------------------------------
(* Blocks: what they write leaves the tables, and so does what expires. *)

LEMMA WriteDocumentsStep ==
    ASSUME PoolInv, NEW b \in BlockType, WriteDocuments(b)
    PROVE  PoolInv'
<1> USE DEF PoolInv
<1> DEFINE gone == RemovedBy(b) \cup Expired(Height + 1)
<1>1. /\ written' = Append(written, b) /\ rows' = [i \in DOMAIN rows \ gone |-> rows[i]]
      /\ dropped' = dropped \cup gone \cup (IF b.kind = "newcomer" THEN {b.idty} ELSE {})
      /\ certRows' = {c \in certRows \ b.certs : c.ref + SigWindow >= Height + 1}
      /\ msRows' = {d \in msRows : d # b.ms /\ d.ref + MsWindow >= Height + 1}
      /\ late' = {} /\ UNCHANGED <<requests, registered, unwritten>>
  BY DEF WriteDocuments
<1>2. /\ Height' = Height + 1 /\ Height \in Nat /\ written' \in Seq(BlockType)
      /\ WrittenIdty' = WrittenIdty \cup (IF b.kind = "newcomer" THEN {b.idty} ELSE {})
  <2>1. Append(written, b) \in Seq(BlockType)
    BY DEF PoolTypeOK
  <2>2. Len(Append(written, b)) = Height + 1 /\ Height \in Nat
        /\ IdtyOf(Append(written, b)) = WrittenIdty \cup (IF b.kind = "newcomer" THEN {b.idty} ELSE {})
    BY Appended
  <2>3. Height' = Len(written') /\ WrittenIdty' = IdtyOf(written')
    BY DEF Height, WrittenIdty
  <2> QED BY <1>1, <2>1, <2>2, <2>3
<1>3. DOMAIN rows' = DOMAIN rows \ gone /\ \A i \in DOMAIN rows' : i \in DOMAIN rows /\ rows'[i] = rows[i]
  BY <1>1
<1>4. PoolTypeOK'
  BY <1>1, <1>2, <1>3 DEF PoolTypeOK
<1>5. ASSUME NEW i, Kept(i) PROVE Kept(i)'
  BY <1>1, <1>3, <1>5 DEF Kept
<1>6. IdentitiesKept'
  <2>1. ASSUME NEW i \in WrittenIdty' PROVE Kept(i)'
    <3>1. CASE i \in WrittenIdty
      BY <1>5, <3>1 DEF IdentitiesKept
    <3>2. CASE b.kind = "newcomer" /\ i = b.idty
      BY <1>1, <3>2 DEF Kept
    <3> QED BY <1>2, <2>1, <3>1, <3>2
  <2>2. \A c \in CertDocs : requests'[c].stage = "certify" => Kept(c.idty)'
    BY <1>1, <1>5 DEF IdentitiesKept
  <2>3. \A c \in certRows' : Kept(c.idty)'
    BY <1>1, <1>5 DEF IdentitiesKept
  <2>4. ASSUME NEW i \in registered' PROVE (i \in DOMAIN rows' /\ rows'[i].revocation) \/ i \in dropped'
    BY <1>1, <1>3, <2>4 DEF IdentitiesKept
  <2> QED BY <2>1, <2>2, <2>3, <2>4 DEF IdentitiesKept, Kept
<1>7. PoolIsCurrent'
  <2>1. ASSUME NEW i \in DOMAIN rows', ~rows'[i].revocation
        PROVE  rows'[i].expires >= Height + 1 /\ \A j \in WrittenIdty' : j.pub # i.pub /\ j.uid # i.uid
    <3>1. i \in DOMAIN rows /\ i \notin RemovedBy(b) /\ i \notin Expired(Height + 1) /\ rows'[i] = rows[i]
      BY <1>3
    <3>2. rows[i].expires \in Int /\ ~(rows[i].expires < Height + 1)
      BY <2>1, <3>1 DEF Expired, PoolTypeOK, IsRow
    <3>3. \A j \in WrittenIdty : j.pub # i.pub /\ j.uid # i.uid
      BY <2>1, <3>1 DEF PoolIsCurrent
    <3>4. b.kind = "newcomer" => b.idty.pub # i.pub /\ b.idty.uid # i.uid
      BY <3>1 DEF RemovedBy
    <3> QED BY <1>2, <3>1, <3>2, <3>3, <3>4
  <2> QED BY <1>1, <1>2, <2>1 DEF PoolIsCurrent
<1> QED BY <1>4, <1>6, <1>7

LEMMA WriteNewcomerStep ==
    ASSUME PoolInv, NEW i \in IdtyDocs, NEW d \in MsDocs, NEW certs \in SUBSET CertDocs, WriteNewcomer(i, certs, d)
    PROVE  PoolInv'
  BY WriteDocumentsStep DEF WriteNewcomer, Block, BlockType, Kinds

LEMMA WriteEmptyStep == PoolInv /\ WriteEmpty => PoolInv'
<1>1. Block("empty", NoIdty, {}, NoMs) \in BlockType
  BY DEF Block, BlockType, Kinds
<1> QED BY <1>1, WriteDocumentsStep DEF WriteEmpty

LEMMA RevertDocumentsStep == ASSUME PoolInv, RevertDocuments PROVE PoolInv'
<1> USE DEF PoolInv
<1>1. /\ Height > 0 /\ written' = Front(written)
      /\ UNCHANGED <<rows, certRows, msRows, requests, registered, dropped, late>>
  BY DEF RevertDocuments, tables
<1>2. /\ Height' = Height - 1 /\ Height \in Nat /\ written' \in Seq(BlockType) /\ WrittenIdty' \subseteq WrittenIdty
  <2>1. Height' = Len(written') /\ WrittenIdty' = IdtyOf(written')
    BY DEF Height, WrittenIdty
  <2> QED BY <1>1, <2>1, Reverted
<1>3. PoolTypeOK'
  BY <1>1, <1>2 DEF PoolTypeOK
<1>4. IdentitiesKept'
  BY <1>1, <1>2 DEF IdentitiesKept, Kept
<1>5. PoolIsCurrent'
  <2>1. ASSUME NEW i \in DOMAIN rows, ~rows[i].revocation PROVE rows[i].expires >= Height - 1
    <3>1. rows[i].expires \in Int /\ rows[i].expires >= Height
      BY <2>1 DEF PoolTypeOK, IsRow, PoolIsCurrent
    <3> QED BY <1>2, <3>1
  <2>2. ASSUME NEW c \in certRows \ late PROVE c.ref + SigWindow >= Height - 1
    <3>1. c.ref + SigWindow \in Int /\ c.ref + SigWindow >= Height
      BY Documents DEF PoolTypeOK, PoolIsCurrent
    <3> QED BY <1>2, <3>1
  <2>3. ASSUME NEW d \in msRows PROVE d.ref + MsWindow >= Height - 1
    <3>1. d.ref + MsWindow \in Int /\ d.ref + MsWindow >= Height
      BY Documents DEF PoolTypeOK, PoolIsCurrent
    <3> QED BY <1>2, <3>1
  <2>4. \A i \in DOMAIN rows : ~rows[i].revocation => \A j \in WrittenIdty' : j.pub # i.pub /\ j.uid # i.uid
    BY <1>2 DEF PoolIsCurrent
  <2> QED BY <1>1, <1>2, <2>1, <2>2, <2>3, <2>4 DEF PoolIsCurrent
<1> QED BY <1>3, <1>4, <1>5

----------------------------------------------------------------------------
LEMMA PoolStart == PoolInit => PoolInv
<1> SUFFICES ASSUME PoolInit PROVE PoolInv
  OBVIOUS
<1>1. WrittenIdty = {} /\ written \in Seq(BlockType) /\ DOMAIN rows = {}
  BY DEF PoolInit, WrittenIdty, IdtyOf
<1>2. requests \in [CertDocs -> Request] /\ \A c \in CertDocs : requests[c].stage # "certify"
  BY DEF PoolInit, Request, NoRequest
<1> QED BY <1>1, <1>2 DEF PoolInit, PoolInv, PoolTypeOK, IdentitiesKept, PoolIsCurrent

LEMMA PoolStep == PoolInv /\ [PoolNext]_poolVars => PoolInv'
<1> SUFFICES ASSUME PoolInv, [PoolNext]_poolVars PROVE PoolInv'
  OBVIOUS
<1>1. ASSUME NEW i \in IdtyDocs, SubmitIdentity(i) \/ SubmitRevocation(i) PROVE PoolInv'
  BY <1>1, SubmitIdentityStep, SubmitRevocationStep
<1>2. ASSUME NEW c \in CertDocs, ReadCertified(c) \/ AbsorbIdentity(c) \/ Certify(c) PROVE PoolInv'
  BY <1>2, ReadCertifiedStep, AbsorbIdentityStep, CertifyStep
<1>3. ASSUME NEW d \in MsDocs, SubmitMembership(d) PROVE PoolInv'
  BY <1>3, SubmitMembershipStep
<1>4. ASSUME NEW i \in IdtyDocs, WriteRevocation(i) PROVE PoolInv'
  <2>1. Block("revocation", i, {}, NoMs) \in BlockType
    BY DEF Block, BlockType, Kinds
  <2> QED BY <1>4, <2>1, WriteDocumentsStep DEF WriteRevocation
<1>5. ASSUME NEW d \in MsDocs, WriteRenewal(d) PROVE PoolInv'
  <2>1. Block("renewal", NoIdty, {}, d) \in BlockType
    BY DEF Block, BlockType, Kinds
  <2> QED BY <1>5, <2>1, WriteDocumentsStep DEF WriteRenewal
<1>6. ASSUME NEW i \in IdtyDocs, NEW d \in MsDocs, NEW certs \in SUBSET {c \in CertDocs : c.idty = i}, WriteNewcomer(i, certs, d)
      PROVE  PoolInv'
  BY <1>6, WriteNewcomerStep
<1>7. CASE WriteEmpty \/ RevertDocuments
  BY <1>7, WriteEmptyStep, RevertDocumentsStep
<1>8. CASE UNCHANGED poolVars
  BY <1>8 DEF poolVars, tables, PoolInv, PoolTypeOK, IdentitiesKept, Kept, PoolIsCurrent, WrittenIdty, Height
<1> QED BY <1>1, <1>2, <1>3, <1>4, <1>5, <1>6, <1>7, <1>8 DEF PoolNext

LEMMA PoolAlways == PoolSpec => []PoolInv
  BY PoolStart, PoolStep, PTL DEF PoolSpec

\* No submission to IdentityService or MembershipService, whatever blocks come meanwhile, loses the identity of a
\* certification that waits, or a revocation that was accepted, unless a block removed it.
THEOREM NothingAcceptedIsLost == PoolSpec => []AcceptedIsKept
<1>1. PoolInv => AcceptedIsKept
  BY DEF PoolInv, IdentitiesKept, AcceptedIsKept, Kept, KnownIdty
<1> QED BY <1>1, PoolAlways, PTL

\* What the tables hold after each block may still be written: no identity uses a key or a uid of the chain, and no window is
\* over, but for a certification checked against an older current block.
THEOREM PoolStaysCurrent == PoolSpec => []PoolIsCurrent
<1>1. PoolInv => PoolIsCurrent
  BY DEF PoolInv
<1> QED BY <1>1, PoolAlways, PTL

----------------------------------------------------------------------------
(***************************************************************************)
(* The documents that go from site to site.  What a site holds is at the    *)
(* other end of each of its connections or on its way there, unless no push *)
(* carried it; and few copies of it come from one neighbour, which is why   *)
(* none is taken for a spammer.                                            *)
(***************************************************************************)
Pushed == [via : Link, to : Site, paper : Paper, again : BOOLEAN]
SomePapers == Seq(Paper) \ {<<>>}

GossipTypeOK ==
    /\ holds \in [Site -> SUBSET Paper] /\ unsent \in [Site -> SUBSET Paper] /\ missed \subseteq Paper /\ offered \subseteq Paper
    /\ wire \subseteq Pushed /\ \A m \in wire : m.to \in Ends[m.via] /\ m.via \in open
    /\ posts \subseteq [from : Site, to : Site, paper : Paper]
    /\ errors \in [Site -> [Paper \X Site -> Nat]]
    /\ links \subseteq Link /\ open \subseteq links
    /\ pulled = NoPull \/ pulled \in [by : Site, papers : SomePapers]
    /\ job = NoJob \/ job \in [to : Site, papers : SomePapers, strict : BOOLEAN]

\* Rows of identities: one of a member comes with its revocation, a revocation with one, and none of these is pushed, or
\* read.
RowsExplained == \A n \in Site : \A p \in holds[n] :
    /\ p.kind = "idty" /\ p.about \in MemberSubject =>
          p \in missed /\ \E r \in holds[n] : r.kind = "rev" /\ r.about = p.about
    /\ p.kind = "rev" => p \in missed /\ Idty(p.about) \in holds[n]

\* A document that was not missed is at the other end of each connection, or on its way there.
OnItsWay(c, n, p) ==
    \/ p \in missed \/ p \in holds[OtherEnd(c, n)]
    \/ \E again \in BOOLEAN : [via |-> c, to |-> OtherEnd(c, n), paper |-> p, again |-> again] \in wire

EverythingGoesOn == \A c \in links : \A n \in Ends[c] : \A p \in holds[n] : OnItsWay(c, n, p)

\* Copies of a document that a site has not received yet from another, of those given once and once more.
Copies(n, p, from, again) == {c \in Between(n, from) : [via |-> c, to |-> n, paper |-> p, again |-> again] \in wire}
Under(n, p, from) == Cardinality(Copies(n, p, from, FALSE)) + Cardinality(Copies(n, p, from, TRUE))

\* What a site received or is about to of a document from one sender: nothing before the sender has it, one copy
\* by connection once it has, and another one once the mempool gave it again.
Few(n, p, from) ==
    /\ p \notin holds[from] => /\ errors[n][<<p, from>>] = 0
                               /\ \A again \in BOOLEAN : Copies(n, p, from, again) = {}
    /\ p \in unsent[from] =>
          /\ p \in holds[from] /\ Copies(n, p, from, TRUE) = {}
          /\ errors[n][<<p, from>>] + Under(n, p, from) <= Cardinality(Between(n, from))
    /\ errors[n][<<p, from>>] + Under(n, p, from) <= 2 * Cardinality(Between(n, from))

FewCopies == \A n, from \in Site : \A p \in Paper : Few(n, p, from)

GossipInv == GossipTypeOK /\ RowsExplained /\ EverythingGoesOn /\ FewCopies /\ NoHonestBan

----------------------------------------------------------------------------
(* Sites, connections and documents. *)

LEMMA GossipConstants ==
    /\ \A c \in Link : \E n, m \in Site : n # m /\ Ends[c] = {n, m}
    /\ Entry \subseteq Site /\ HttpSite \subseteq Site
    /\ \A p \in Paper : p = [kind |-> p.kind, about |-> p.about] /\ p.kind \in {"idty", "cert", "ms", "rev", "tx"}
    /\ MemberSubject \subseteq Subject /\ \A s \in Subject : Idty(s) \in Paper
    /\ IsFiniteSet(Link) /\ IsFiniteSet(Paper)
    /\ RepeatThreshold \in Nat
    /\ \A n, m \in Site : 2 * Cardinality(Between(n, m)) < RepeatThreshold
BY GossipAssumption

LEMMA TwoEnds ==
    ASSUME NEW c \in Link, NEW n \in Ends[c]
    PROVE  /\ n \in Site /\ OtherEnd(c, n) \in Ends[c] /\ OtherEnd(c, n) \in Site /\ OtherEnd(c, n) # n
           /\ OtherEnd(c, OtherEnd(c, n)) = n
           /\ Ends[c] = {n, OtherEnd(c, n)}
<1>1. PICK a, b \in Site : a # b /\ Ends[c] = {a, b}
  BY GossipConstants
<1>2. PICK m : m = OtherEnd(c, n)
  OBVIOUS
<1>3. m \in Ends[c] /\ m # n
  <2>1. \E x \in Ends[c] : x # n
    BY <1>1
  <2> QED BY <1>2, <2>1 DEF OtherEnd
<1>4. Ends[c] = {n, m} /\ n \in Site /\ m \in Site
  BY <1>1, <1>3
<1>5. OtherEnd(c, m) \in Ends[c] /\ OtherEnd(c, m) # m
  <2>1. \E x \in Ends[c] : x # m
    BY <1>3
  <2> QED BY <2>1 DEF OtherEnd
<1> QED
  BY <1>2, <1>3, <1>4, <1>5

LEMMA BetweenFacts ==
    ASSUME NEW n, NEW m
    PROVE  IsFiniteSet(Between(n, m)) /\ Cardinality(Between(n, m)) \in Nat /\ Between(n, m) \subseteq Link
<1>1. Between(n, m) \in SUBSET Link
  BY DEF Between
<1> QED
  BY <1>1, GossipConstants, FS_Subset, FS_CardinalityType

\* A connection with a sender is one between the two.
LEMMA LinkIsBetween ==
    ASSUME NEW c \in Link, NEW n \in Ends[c]
    PROVE  c \in Between(n, OtherEnd(c, n)) /\ c \in Between(OtherEnd(c, n), n)
BY TwoEnds DEF Between

LEMMA RowsArePapers ==
    ASSUME NEW p \in Paper
    PROVE  Rows(p) \subseteq Paper /\ p \in Rows(p)
<1>1. p.kind # "tx" => p.about \in Subject
  BY DEF Subject
<1> QED
  BY <1>1, GossipConstants DEF Rows

LEMMA CopiesFacts ==
    ASSUME NEW n, NEW p, NEW from, NEW again
    PROVE  /\ Copies(n, p, from, again) \subseteq Between(n, from) /\ IsFiniteSet(Copies(n, p, from, again))
           /\ Cardinality(Copies(n, p, from, again)) \in Nat
           /\ Cardinality(Copies(n, p, from, again)) <= Cardinality(Between(n, from))
<1>1. Copies(n, p, from, again) \in SUBSET Between(n, from)
  BY DEF Copies
<1> QED
  BY <1>1, BetweenFacts, FS_Subset, FS_CardinalityType

\* The same in the next state.
LEMMA NextCopiesFacts ==
    ASSUME NEW n, NEW p, NEW from, NEW again
    PROVE  /\ Copies(n, p, from, again)' \subseteq Between(n, from) /\ IsFiniteSet(Copies(n, p, from, again)')
           /\ Cardinality(Copies(n, p, from, again)') \in Nat
           /\ Cardinality(Copies(n, p, from, again)') <= Cardinality(Between(n, from))
<1>1. Copies(n, p, from, again)' \in SUBSET Between(n, from)
  BY DEF Copies
<1> QED
  BY <1>1, BetweenFacts, FS_Subset, FS_CardinalityType

LEMMA FewerCopies ==
    ASSUME NEW n, NEW p, NEW from, NEW again, Copies(n, p, from, again)' \subseteq Copies(n, p, from, again)
    PROVE  Cardinality(Copies(n, p, from, again)') <= Cardinality(Copies(n, p, from, again))
BY CopiesFacts, FS_Subset

\* Fewer messages and errors keep the counts, when the sender forgets no document.
LEMMA FewRemains ==
    ASSUME FewCopies, NEW n \in Site, NEW from \in Site, NEW p \in Paper,
           errors \in [Site -> [Paper \X Site -> Nat]], errors' \in [Site -> [Paper \X Site -> Nat]],
           errors'[n][<<p, from>>] <= errors[n][<<p, from>>],
           \A again \in BOOLEAN : Copies(n, p, from, again)' \subseteq Copies(n, p, from, again),
           holds[from] \subseteq holds'[from], p \in unsent'[from] => p \in unsent[from]
    PROVE  Few(n, p, from)'
<1>1. PICK a, b, c, d, e, f, l :
         /\ a = Cardinality(Copies(n, p, from, FALSE)) /\ b = Cardinality(Copies(n, p, from, TRUE))
         /\ c = Cardinality(Copies(n, p, from, FALSE)') /\ d = Cardinality(Copies(n, p, from, TRUE)')
         /\ e = errors[n][<<p, from>>] /\ f = errors'[n][<<p, from>>] /\ l = Cardinality(Between(n, from))
  OBVIOUS
<1>2. a \in Nat /\ b \in Nat /\ c \in Nat /\ d \in Nat /\ e \in Nat /\ f \in Nat /\ l \in Nat
  <2>1. <<p, from>> \in Paper \X Site
    OBVIOUS
  <2>2. e \in Nat /\ f \in Nat
    BY <1>1, <2>1
  <2> QED BY <1>1, <2>2, CopiesFacts, NextCopiesFacts, BetweenFacts
<1>3. c <= a /\ d <= b /\ f <= e
  <2>1. c <= a
    BY <1>1, FewerCopies
  <2>2. d <= b
    BY <1>1, FewerCopies
  <2> QED BY <1>1, <2>1, <2>2
<1>4. Few(n, p, from)
  BY DEF FewCopies
<1>5. /\ p \notin holds[from] => e = 0 /\ \A again \in BOOLEAN : Copies(n, p, from, again) = {}
      /\ p \in unsent[from] => p \in holds[from] /\ Copies(n, p, from, TRUE) = {} /\ e + (a + b) <= l
      /\ e + (a + b) <= 2 * l
  BY <1>1, <1>4 DEF Few, Under
<1>6. p \notin holds'[from] => f = 0 /\ \A again \in BOOLEAN : Copies(n, p, from, again)' = {}
  BY <1>2, <1>3, <1>5
<1>7. p \in unsent'[from] => p \in holds'[from] /\ Copies(n, p, from, TRUE)' = {} /\ f + (c + d) <= l
  <2> SUFFICES ASSUME p \in unsent'[from]
               PROVE  p \in holds'[from] /\ Copies(n, p, from, TRUE)' = {} /\ f + (c + d) <= l
    OBVIOUS
  <2>1. p \in holds[from] /\ Copies(n, p, from, TRUE) = {} /\ e + (a + b) <= l
    BY <1>5
  <2>2. f + (c + d) <= l
    BY <1>2, <1>3, <2>1
  <2>3. Copies(n, p, from, TRUE)' \subseteq Copies(n, p, from, TRUE)
    OBVIOUS
  <2> QED BY <2>1, <2>2, <2>3
<1>8. f + (c + d) <= 2 * l
  BY <1>2, <1>3, <1>5
<1>9. Between(n, from)' = Between(n, from)
  BY DEF Between
<1> QED
  BY <1>1, <1>6, <1>7, <1>8, <1>9 DEF Few, Under

LEMMA GossipInitOK == GossipInit => GossipInv
<1> SUFFICES ASSUME GossipInit PROVE GossipInv
  OBVIOUS
<1>1. PICK x \in Scenarios : links = x.links /\ offered = x.papers
  BY DEF GossipInit
<1>2. links \subseteq Link /\ offered \subseteq Paper
  BY <1>1, GossipAssumption
<1>3. /\ open = links /\ bans = [n \in Site |-> {}] /\ holds = [n \in Site |-> {}] /\ wire = {} /\ posts = {} /\ missed = {}
      /\ unsent = [n \in Site |-> {}] /\ pulled = NoPull /\ job = NoJob
  BY DEF GossipInit
<1>4. errors = [n \in Site |-> [k \in Paper \X Site |-> 0]]
  BY DEF GossipInit
<1>5. GossipTypeOK
  <2>1. errors \in [Site -> [Paper \X Site -> Nat]]
    BY <1>4
  <2>2. holds \in [Site -> SUBSET Paper] /\ unsent \in [Site -> SUBSET Paper]
    BY <1>3
  <2>3. wire \subseteq Pushed /\ \A m \in wire : m.to \in Ends[m.via] /\ m.via \in open
    BY <1>3
  <2> QED BY <1>2, <1>3, <2>1, <2>2, <2>3 DEF GossipTypeOK
<1>6. RowsExplained
  BY <1>3 DEF RowsExplained
<1>7. EverythingGoesOn
  <2> SUFFICES ASSUME NEW c \in links, NEW n \in Ends[c], NEW p \in holds[n] PROVE FALSE
    BY DEF EverythingGoesOn
  <2>1. n \in Site
    BY <1>2, TwoEnds
  <2> QED BY <1>3, <2>1
<1>8. FewCopies
  <2> SUFFICES ASSUME NEW n \in Site, NEW from \in Site, NEW p \in Paper PROVE Few(n, p, from)
    BY DEF FewCopies
  <2>1. \A again \in BOOLEAN : Copies(n, p, from, again) = {}
    BY <1>3 DEF Copies
  <2>2. errors[n][<<p, from>>] = 0 /\ p \notin unsent[from]
    BY <1>3, <1>4
  <2>3. Under(n, p, from) = 0
    <3>1. Copies(n, p, from, FALSE) = {} /\ Copies(n, p, from, TRUE) = {}
      BY <2>1
    <3>2. Cardinality(Copies(n, p, from, FALSE)) = 0 /\ Cardinality(Copies(n, p, from, TRUE)) = 0
      BY <3>1, FS_EmptySet
    <3>3. Under(n, p, from) = 0 + 0
      BY <3>2 DEF Under
    <3> QED BY <3>3
  <2>4. Cardinality(Between(n, from)) \in Nat
    BY BetweenFacts
  <2>5. errors[n][<<p, from>>] + Under(n, p, from) <= 2 * Cardinality(Between(n, from))
    <3>1. PICK l \in Nat : l = Cardinality(Between(n, from))
      BY <2>4
    <3>2. 0 + 0 <= 2 * l
      BY <3>1
    <3> QED BY <2>2, <2>3, <3>1, <3>2
  <2> QED BY <2>1, <2>2, <2>5 DEF Few
<1>9. NoHonestBan
  BY <1>3 DEF NoHonestBan
<1> QED
  BY <1>5, <1>6, <1>7, <1>8, <1>9 DEF GossipInv

----------------------------------------------------------------------------
(* The invariant by parts: what keeps each. *)

\* No document is forgotten and none changes its ways.
LEMMA RowsRemain ==
    ASSUME RowsExplained, UNCHANGED holds, missed \subseteq missed'
    PROVE  RowsExplained'
BY DEF RowsExplained, Idty

\* Only messages whose document arrives or is missed are taken off the wire.
LEMMA GoingOnRemains ==
    ASSUME GossipTypeOK, EverythingGoesOn, UNCHANGED <<holds, links>>, missed \subseteq missed',
           \A m \in wire \ wire' : m.paper \in holds[Sender(m)] => m.paper \in missed' \/ m.paper \in holds[m.to]
    PROVE  EverythingGoesOn'
<1> SUFFICES ASSUME NEW c \in links', NEW n \in Ends[c], NEW p \in holds'[n] PROVE OnItsWay(c, n, p)'
  BY DEF EverythingGoesOn
<1>1. c \in links /\ c \in Link /\ p \in holds[n] /\ holds' = holds
  BY DEF GossipTypeOK
<1>2. OnItsWay(c, n, p)
  BY <1>1 DEF EverythingGoesOn
<1>3. CASE p \in missed \/ p \in holds[OtherEnd(c, n)]
  BY <1>1, <1>3 DEF OnItsWay, OtherEnd
<1>4. ASSUME NEW again \in BOOLEAN, [via |-> c, to |-> OtherEnd(c, n), paper |-> p, again |-> again] \in wire
      PROVE  OnItsWay(c, n, p)'
  <2>1. PICK m \in wire : m = [via |-> c, to |-> OtherEnd(c, n), paper |-> p, again |-> again]
    BY <1>4
  <2>2. CASE m \in wire'
    BY <1>1, <2>1, <2>2 DEF OnItsWay, OtherEnd
  <2>3. CASE m \notin wire'
    <3>1. m.paper = p /\ m.via = c /\ m.to = OtherEnd(c, n)
      BY <2>1
    <3>2. Sender(m) = n
      BY <1>1, <3>1, TwoEnds DEF Sender
    <3>3. p \in missed' \/ p \in holds[OtherEnd(c, n)]
      BY <1>1, <2>3, <3>1, <3>2
    <3> QED BY <1>1, <3>3 DEF OnItsWay, OtherEnd
  <2> QED BY <2>2, <2>3
<1> QED
  BY <1>2, <1>3, <1>4 DEF OnItsWay

LEMMA FewCopiesRemain ==
    ASSUME FewCopies, errors \in [Site -> [Paper \X Site -> Nat]], errors' \in [Site -> [Paper \X Site -> Nat]],
           \A n, from \in Site : \A p \in Paper : errors'[n][<<p, from>>] <= errors[n][<<p, from>>],
           wire' \subseteq wire, UNCHANGED <<holds, unsent>>
    PROVE  FewCopies'
<1> SUFFICES ASSUME NEW n \in Site, NEW from \in Site, NEW p \in Paper PROVE Few(n, p, from)'
  BY DEF FewCopies
<1>1. \A again \in BOOLEAN : Copies(n, p, from, again)' \subseteq Copies(n, p, from, again)
  BY DEF Copies, Between
<1> QED
  BY <1>1, FewRemains

\* Steps that touch neither the documents of the sites nor what is pushed.
LEMMA QuietStep ==
    ASSUME GossipInv, UNCHANGED <<holds, unsent, missed, wire, errors, bans, links, open>>,
           offered' \subseteq Paper, posts' \subseteq [from : Site, to : Site, paper : Paper],
           pulled' = NoPull \/ pulled' \in [by : Site, papers : SomePapers],
           job' = NoJob \/ job' \in [to : Site, papers : SomePapers, strict : BOOLEAN]
    PROVE  GossipInv'
<1>1. GossipTypeOK'
  BY DEF GossipInv, GossipTypeOK
<1>2. RowsExplained'
  BY RowsRemain DEF GossipInv
<1>3. EverythingGoesOn'
  BY GoingOnRemains DEF GossipInv
<1>4. FewCopies'
  <2>1. \A n, from \in Site : \A p \in Paper : errors'[n][<<p, from>>] <= errors[n][<<p, from>>]
    <3> SUFFICES ASSUME NEW n \in Site, NEW from \in Site, NEW p \in Paper
                 PROVE  errors'[n][<<p, from>>] <= errors[n][<<p, from>>]
      OBVIOUS
    <3>1. errors[n][<<p, from>>] \in Nat
      BY DEF GossipInv, GossipTypeOK
    <3> QED BY <3>1
  <2> QED BY <1>1, <2>1, FewCopiesRemain DEF GossipInv, GossipTypeOK
<1>5. NoHonestBan'
  BY DEF GossipInv, NoHonestBan
<1> QED
  BY <1>1, <1>2, <1>3, <1>4, <1>5 DEF GossipInv

----------------------------------------------------------------------------
(* A document is accepted. *)

LEMMA PushFacts ==
    ASSUME GossipTypeOK, NEW n \in Site, NEW p \in Paper, NEW m \in Push(n, p)
    PROVE  /\ m \in Pushed /\ m.via \in open /\ m.via \in Link /\ n \in Ends[m.via] /\ m.to = OtherEnd(m.via, n)
           /\ m.to \in Ends[m.via] /\ m.paper = p /\ m.again = FALSE
<1>1. PICK c \in LinksOf(n) : m = [via |-> c, to |-> OtherEnd(c, n), paper |-> p, again |-> FALSE]
  BY DEF Push
<1>2. c \in open /\ c \in Link /\ n \in Ends[c]
  BY <1>1 DEF LinksOf, GossipTypeOK
<1>3. OtherEnd(c, n) \in Site /\ OtherEnd(c, n) \in Ends[c]
  BY <1>2, TwoEnds
<1> QED
  BY <1>1, <1>2, <1>3 DEF Pushed

LEMMA AcceptKeepsTypes ==
    ASSUME GossipTypeOK, NEW n \in Site, NEW p \in Paper, NEW w, NEW q, w \subseteq wire, q \subseteq posts,
           Accept(n, p, w, q), UNCHANGED <<errors, links, open>>, offered' \subseteq Paper,
           pulled' = NoPull \/ pulled' \in [by : Site, papers : SomePapers],
           job' = NoJob \/ job' \in [to : Site, papers : SomePapers, strict : BOOLEAN]
    PROVE  GossipTypeOK'
<1>1. Rows(p) \subseteq Paper /\ p \in Paper
  BY RowsArePapers
<1>2. holds' \in [Site -> SUBSET Paper] /\ unsent' \in [Site -> SUBSET Paper] /\ missed' \subseteq Paper
  <2>1. holds' \in [Site -> SUBSET Paper]
    BY <1>1 DEF Accept, GossipTypeOK
  <2>2. unsent' \in [Site -> SUBSET Paper]
    BY <1>1 DEF Accept, GossipTypeOK
  <2>3. missed' \subseteq Paper
    BY <1>1 DEF Accept, GossipTypeOK
  <2> QED BY <2>1, <2>2, <2>3
<1>3. wire' \subseteq Pushed /\ \A m \in wire' : m.to \in Ends[m.via] /\ m.via \in open'
  <2> SUFFICES ASSUME NEW m \in wire' PROVE m \in Pushed /\ m.to \in Ends[m.via] /\ m.via \in open
    OBVIOUS
  <2>1. m \in wire \/ m \in Push(n, p)
    BY DEF Accept
  <2> QED BY <2>1, PushFacts DEF GossipTypeOK
<1>4. posts' \subseteq [from : Site, to : Site, paper : Paper]
  <2>1. Route(n, p) \subseteq [from : Site, to : Site, paper : Paper]
    BY GossipConstants DEF Route
  <2> QED BY <2>1 DEF Accept, GossipTypeOK
<1> QED
  BY <1>2, <1>3, <1>4 DEF GossipTypeOK

LEMMA AcceptKeepsRows ==
    ASSUME GossipTypeOK, RowsExplained, NEW n \in Site, NEW p \in Paper, NEW w, NEW q, Accept(n, p, w, q), ~Refused(n, p)
    PROVE  RowsExplained'
<1> SUFFICES ASSUME NEW x \in Site, NEW r \in holds'[x]
             PROVE  /\ r.kind = "idty" /\ r.about \in MemberSubject =>
                         r \in missed' /\ \E v \in holds'[x] : v.kind = "rev" /\ v.about = r.about
                    /\ r.kind = "rev" => r \in missed' /\ Idty(r.about) \in holds'[x]
  BY DEF RowsExplained, Idty
<1>1. /\ holds' = [holds EXCEPT ![n] = @ \cup Rows(p)] /\ missed \subseteq missed' /\ Rows(p) \ {p} \subseteq missed'
      /\ ~Readable(p) => Rows(p) \subseteq missed'
  BY DEF Accept
<1>2. \A y \in Site : holds[y] \subseteq holds'[y]
  BY <1>1 DEF GossipTypeOK
<1>3. CASE r \in holds[x]
  BY <1>1, <1>2, <1>3 DEF RowsExplained
<1>4. CASE r \notin holds[x]
  <2>1. x = n /\ r \in Rows(p) /\ Rows(p) \subseteq holds'[n]
    BY <1>1, <1>4 DEF GossipTypeOK
  <2>2. CASE r = p
    <3>1. ~(r.kind = "idty" /\ r.about \in MemberSubject)
      BY <2>2 DEF Refused
    <3>2. ASSUME r.kind = "rev" PROVE r \in missed' /\ Idty(r.about) \in holds'[x]
      <4>1. ~Readable(p) /\ Idty(p.about) \in Rows(p) /\ p \in Rows(p)
        BY <2>2, <3>2 DEF Readable, Rows
      <4> QED BY <1>1, <2>1, <2>2, <4>1
    <3> QED BY <3>1, <3>2
  <2>3. CASE r # p
    <3>1. r = Idty(p.about) /\ (p.kind = "rev" \/ p.about \notin MemberSubject) /\ p \in Rows(p)
      BY <2>1, <2>3 DEF Rows
    <3>2. r.kind = "idty" /\ r.about = p.about
      BY <3>1 DEF Idty
    <3>3. r \in missed' /\ p \in holds'[x]
      BY <1>1, <2>1, <2>3, <3>1
    <3> QED BY <3>1, <3>2, <3>3
  <2> QED BY <2>2, <2>3
<1> QED
  BY <1>3, <1>4

LEMMA AcceptKeepsGoing ==
    ASSUME GossipTypeOK, EverythingGoesOn, NEW n \in Site, NEW p \in Paper, NEW w, NEW q, Accept(n, p, w, q),
           w \subseteq wire, \A m \in wire \ w : m.to = n /\ m.paper = p, UNCHANGED <<links, open>>
    PROVE  EverythingGoesOn'
<1> SUFFICES ASSUME NEW c \in links, NEW x \in Ends[c], NEW r \in holds'[x] PROVE OnItsWay(c, x, r)'
  BY DEF EverythingGoesOn
<1>1. /\ holds' = [holds EXCEPT ![n] = @ \cup Rows(p)] /\ missed \subseteq missed' /\ Rows(p) \ {p} \subseteq missed'
      /\ Deaf(n) => Rows(p) \subseteq missed'
      /\ wire' = w \cup Push(n, p)
  BY DEF Accept
<1>2. /\ c \in Link /\ x \in Site /\ OtherEnd(c, x) \in Site
      /\ \A y \in Site : holds[y] \subseteq holds'[y]
      /\ Rows(p) \subseteq holds'[n] /\ p \in Rows(p)
  BY <1>1, TwoEnds, RowsArePapers DEF GossipTypeOK
<1>3. CASE r \in holds[x]
  <2>1. OnItsWay(c, x, r)
    BY <1>3 DEF EverythingGoesOn
  <2>2. CASE r \in missed \/ r \in holds[OtherEnd(c, x)]
    BY <1>1, <1>2, <2>2 DEF OnItsWay, OtherEnd
  <2>3. ASSUME NEW again \in BOOLEAN, [via |-> c, to |-> OtherEnd(c, x), paper |-> r, again |-> again] \in wire
        PROVE  OnItsWay(c, x, r)'
    <3>1. PICK m \in wire : m = [via |-> c, to |-> OtherEnd(c, x), paper |-> r, again |-> again]
      BY <2>3
    <3>2. CASE m \in w
      <4>1. m \in wire'
        BY <1>1, <3>2
      <4> QED BY <3>1, <4>1 DEF OnItsWay, OtherEnd
    <3>3. CASE m \notin w
      <4>1. r = p /\ OtherEnd(c, x) = n
        BY <3>1, <3>3
      <4> QED BY <1>2, <4>1 DEF OnItsWay, OtherEnd
    <3> QED BY <3>2, <3>3
  <2> QED BY <2>1, <2>2, <2>3 DEF OnItsWay
<1>4. CASE r \notin holds[x]
  <2>1. x = n /\ r \in Rows(p)
    BY <1>1, <1>4 DEF GossipTypeOK
  <2>2. CASE r # p \/ Deaf(n)
    BY <1>1, <2>1, <2>2 DEF OnItsWay
  <2>3. CASE r = p /\ ~Deaf(n)
    <3>1. c \in LinksOf(n)
      BY <2>1, <2>3 DEF Deaf, LinksOf
    <3>2. [via |-> c, to |-> OtherEnd(c, n), paper |-> p, again |-> FALSE] \in wire'
      BY <1>1, <3>1 DEF Push
    <3>3. FALSE \in BOOLEAN
      OBVIOUS
    <3> QED BY <2>1, <2>3, <3>2, <3>3 DEF OnItsWay, OtherEnd
  <2> QED BY <2>2, <2>3
<1> QED
  BY <1>3, <1>4

LEMMA AcceptKeepsFew ==
    ASSUME GossipTypeOK, FewCopies, NEW n \in Site, NEW p \in Paper, NEW w, NEW q, Accept(n, p, w, q), ~Refused(n, p),
           w \subseteq wire, UNCHANGED errors
    PROVE  FewCopies'
<1> SUFFICES ASSUME NEW x \in Site, NEW from \in Site, NEW r \in Paper PROVE Few(x, r, from)'
  BY DEF FewCopies
<1>1. holds' = [holds EXCEPT ![n] = @ \cup Rows(p)] /\ wire' = w \cup Push(n, p) /\ p \in Rows(p)
  BY RowsArePapers DEF Accept
<1>2. unsent' = unsent \/ unsent' = [unsent EXCEPT ![n] = @ \cup {p}]
  BY DEF Accept
<1>3. CASE from = n /\ r = p
  <2>1. p \notin holds[n] /\ p \in holds'[n]
    BY <1>1 DEF Refused, GossipTypeOK
  <2>2. errors'[x][<<p, n>>] = 0
    BY <2>1 DEF FewCopies, Few
  <2>3. Copies(x, p, n, TRUE) = {}
    BY <2>1 DEF FewCopies, Few
  <2>4. Copies(x, p, n, TRUE)' = {}
    <3> SUFFICES ASSUME NEW c \in Copies(x, p, n, TRUE)' PROVE FALSE
      OBVIOUS
    <3>1. PICK m : m = [via |-> c, to |-> x, paper |-> p, again |-> TRUE] /\ m \in wire' /\ c \in Between(x, n)
      BY DEF Copies, Between
    <3>2. m \in Push(n, p) \/ m \in wire
      BY <1>1, <3>1
    <3>3. m \notin Push(n, p)
      <4>1. ASSUME m \in Push(n, p) PROVE FALSE
        <5>1. m.again = FALSE
          BY <4>1, PushFacts
        <5>2. m.again = TRUE
          BY <3>1
        <5> QED BY <5>1, <5>2
      <4> QED BY <4>1
    <3>4. c \in Copies(x, p, n, TRUE)
      BY <3>1, <3>2, <3>3 DEF Copies
    <3> QED BY <2>3, <3>4
  <2>5. PICK a, l \in Nat : a = Cardinality(Copies(x, p, n, FALSE)') /\ l = Cardinality(Between(x, n)) /\ a <= l
    BY NextCopiesFacts, BetweenFacts
  <2>6. Under(x, p, n)' = a + 0
    <3>1. Cardinality(Copies(x, p, n, TRUE)') = 0
      BY <2>4, FS_EmptySet
    <3> QED BY <2>5, <3>1 DEF Under
  <2>7. errors'[x][<<p, n>>] + Under(x, p, n)' <= l /\ errors'[x][<<p, n>>] + Under(x, p, n)' <= 2 * l
    <3>1. PICK u : u = Under(x, p, n)' /\ u = a + 0
      BY <2>6
    <3>2. a \in Nat /\ l \in Nat /\ a <= l
      BY <2>5
    <3>3. 0 + u <= l /\ 0 + u <= 2 * l
      BY <3>1, <3>2
    <3> QED BY <2>2, <3>1, <3>3
  <2>8. Between(x, n)' = Between(x, n)
    BY DEF Between
  <2> QED BY <1>3, <2>1, <2>4, <2>5, <2>7, <2>8 DEF Few
<1>4. CASE ~(from = n /\ r = p)
  <2>1. ASSUME NEW again \in BOOLEAN PROVE Copies(x, r, from, again)' \subseteq Copies(x, r, from, again)
    <3> SUFFICES ASSUME NEW c \in Copies(x, r, from, again)' PROVE c \in Copies(x, r, from, again)
      OBVIOUS
    <3>1. PICK m : m = [via |-> c, to |-> x, paper |-> r, again |-> again] /\ m \in wire' /\ c \in Between(x, from)
      BY DEF Copies, Between
    <3>2. CASE m \in wire
      BY <3>1, <3>2 DEF Copies
    <3>3. CASE m \in Push(n, p)
      <4>1. c \in Link /\ n \in Ends[c] /\ x = OtherEnd(c, n) /\ r = p
        <5>1. m.via \in Link /\ n \in Ends[m.via] /\ m.to = OtherEnd(m.via, n) /\ m.paper = p
          BY <3>3, PushFacts
        <5>2. m.via = c /\ m.to = x /\ m.paper = r
          BY <3>1
        <5> QED BY <5>1, <5>2
      <4>2. Ends[c] = {n, x} /\ n # x
        BY <4>1, TwoEnds
      <4>3. Ends[c] = {x, from}
        BY <3>1 DEF Between
      <4>4. from = n
        BY <4>2, <4>3
      <4> QED BY <1>4, <4>1, <4>4
    <3> QED BY <1>1, <3>1, <3>2, <3>3
  <2>2. holds[from] \subseteq holds'[from]
    BY <1>1 DEF GossipTypeOK
  <2>3. r \in unsent'[from] => r \in unsent[from]
    BY <1>2, <1>4 DEF GossipTypeOK
  <2>4. errors'[x][<<r, from>>] <= errors[x][<<r, from>>] /\ errors' = errors
    <3>1. errors[x][<<r, from>>] \in Nat
      BY DEF GossipTypeOK
    <3> QED BY <3>1
  <2> QED BY <2>1, <2>2, <2>3, <2>4, FewRemains DEF GossipTypeOK
<1> QED
  BY <1>3, <1>4

LEMMA AcceptKeepsGossip ==
    ASSUME GossipInv, NEW n \in Site, NEW p \in Paper, NEW w, NEW q, Accept(n, p, w, q), ~Refused(n, p),
           w \subseteq wire, \A m \in wire \ w : m.to = n /\ m.paper = p, q \subseteq posts,
           UNCHANGED <<errors, bans, links, open>>, offered' \subseteq Paper,
           pulled' = NoPull \/ pulled' \in [by : Site, papers : SomePapers],
           job' = NoJob \/ job' \in [to : Site, papers : SomePapers, strict : BOOLEAN]
    PROVE  GossipInv'
<1>1. GossipTypeOK'
  BY AcceptKeepsTypes DEF GossipInv
<1>2. RowsExplained'
  BY AcceptKeepsRows DEF GossipInv
<1>3. EverythingGoesOn'
  BY AcceptKeepsGoing DEF GossipInv
<1>4. FewCopies'
  BY AcceptKeepsFew DEF GossipInv
<1>5. NoHonestBan'
  BY DEF GossipInv, NoHonestBan
<1> QED
  BY <1>1, <1>2, <1>3, <1>4, <1>5 DEF GossipInv

\* A document that the site refuses, posted or pulled, changes nothing.
LEMMA DeclineKeepsGossip ==
    ASSUME GossipInv, NEW q, Decline(wire, q), q \subseteq posts,
           UNCHANGED <<errors, bans, links, open>>, offered' \subseteq Paper,
           pulled' = NoPull \/ pulled' \in [by : Site, papers : SomePapers],
           job' = NoJob \/ job' \in [to : Site, papers : SomePapers, strict : BOOLEAN]
    PROVE  GossipInv'
<1>1. /\ UNCHANGED <<holds, unsent, missed, wire, errors, bans, links, open>>
      /\ posts' \subseteq [from : Site, to : Site, paper : Paper]
  BY DEF Decline, GossipInv, GossipTypeOK
<1> QED
  BY <1>1, QuietStep

----------------------------------------------------------------------------
(* What a site lists. *)

\* A list of a set of documents has each of them.
LEMMA ListOfSet ==
    ASSUME NEW S \in SUBSET Paper
    PROVE  SetToSeq(S) \in Seq(Paper) /\ S \subseteq ToSet(SetToSeq(S))
<1>1. IsFiniteSet(S) /\ Cardinality(S) \in Nat /\ ExistsBijection(1..Cardinality(S), S)
  BY GossipConstants, FS_Subset, FS_CardinalityType
<1>2. \E f \in [1..Cardinality(S) -> S] : IsInjective(f)
  BY <1>1 DEF ExistsBijection, Bijection, Injection, IsInjective
<1>3. PICK f : f = SetToSeq(S) /\ f \in [1..Cardinality(S) -> S] /\ IsInjective(f)
  BY <1>2 DEF SetToSeq
<1>4. f \in Injection(1..Cardinality(S), S)
  BY <1>3 DEF Injection, IsInjective
<1>5. Cardinality(1..Cardinality(S)) = Cardinality(S)
  BY <1>1, FS_Interval
<1>6. f \in Surjection(1..Cardinality(S), S)
  BY <1>1, <1>4, <1>5, FS_Injection
<1>7. S \subseteq ToSet(f)
  BY <1>3, <1>6 DEF Surjection, ToSet
<1>8. f \in Seq(Paper)
  BY <1>1, <1>3
<1> QED
  BY <1>3, <1>7, <1>8

LEMMA Joined ==
    ASSUME NEW a \in Seq(Paper), NEW b \in Seq(Paper)
    PROVE  a \o b \in Seq(Paper) /\ ToSet(a) \subseteq ToSet(a \o b) /\ ToSet(b) \subseteq ToSet(a \o b)
<1>1. /\ Len(a) \in Nat /\ Len(b) \in Nat /\ DOMAIN a = 1..Len(a) /\ DOMAIN b = 1..Len(b)
  BY LenProperties
<1>2. PICK c : c = a \o b
  OBVIOUS
<1>3. /\ c \in Seq(Paper) /\ Len(c) = Len(a) + Len(b)
      /\ \A k \in 1..Len(a) + Len(b) : c[k] = IF k <= Len(a) THEN a[k] ELSE b[k - Len(a)]
  BY <1>2, ConcatProperties
<1>4. DOMAIN c = 1..Len(a) + Len(b)
  BY <1>3, LenProperties
<1>5. ASSUME NEW x \in ToSet(a) PROVE x \in ToSet(c)
  <2>1. PICK k \in 1..Len(a) : x = a[k]
    BY <1>1 DEF ToSet
  <2>2. k \in 1..Len(a) + Len(b) /\ c[k] = x
    BY <1>1, <1>3, <2>1
  <2> QED BY <1>4, <2>2 DEF ToSet
<1>6. ASSUME NEW x \in ToSet(b) PROVE x \in ToSet(c)
  <2>1. PICK k \in 1..Len(b) : x = b[k]
    BY <1>1 DEF ToSet
  <2>2. Len(a) + k \in 1..Len(a) + Len(b) /\ ~(Len(a) + k <= Len(a)) /\ Len(a) + k - Len(a) = k
    BY <1>1, <2>1
  <2>3. c[Len(a) + k] = x
    BY <1>3, <2>1, <2>2
  <2> QED BY <1>4, <2>2, <2>3 DEF ToSet
<1> QED
  BY <1>2, <1>3, <1>5, <1>6

LEMMA ListedArePapers ==
    ASSUME GossipTypeOK, NEW n \in Site, NEW S \in SUBSET Subject, NEW k
    PROVE  /\ {Idty(s) : s \in S} \subseteq Paper
           /\ UNION {Pending(n, k, s) : s \in S} \subseteq Paper
           /\ Revocations(n, S) \subseteq Paper
BY GossipConstants DEF GossipTypeOK, Pending, Revocations

LEMMA TreeFacts ==
    ASSUME GossipTypeOK, NEW n \in Site, NEW S \in SUBSET Subject, NEW R \in SUBSET Subject
    PROVE  /\ DocumentsTree(n, S, R) \in Seq(Paper)
           /\ {Idty(s) : s \in S} \subseteq ToSet(DocumentsTree(n, S, R))
           /\ Revocations(n, R) \subseteq ToSet(DocumentsTree(n, S, R))
           /\ UNION {Pending(n, "cert", s) : s \in S} \subseteq ToSet(DocumentsTree(n, S, R))
           /\ UNION {Pending(n, "ms", s) : s \in S} \subseteq ToSet(DocumentsTree(n, S, R))
<1>1. PICK a, b, c, d : /\ a = SetToSeq({Idty(s) : s \in S}) /\ b = SetToSeq(Revocations(n, R))
                        /\ c = OfKind(n, "cert", S) /\ d = OfKind(n, "ms", S)
  OBVIOUS
<1>2. a \in Seq(Paper) /\ {Idty(s) : s \in S} \subseteq ToSet(a)
  BY <1>1, ListedArePapers, ListOfSet
<1>3. b \in Seq(Paper) /\ Revocations(n, R) \subseteq ToSet(b)
  BY <1>1, ListedArePapers, ListOfSet
<1>4. c \in Seq(Paper) /\ UNION {Pending(n, "cert", s) : s \in S} \subseteq ToSet(c)
  <2>1. PICK U : U = UNION {Pending(n, "cert", s) : s \in S}
    OBVIOUS
  <2>2. U \subseteq Paper
    BY <2>1, ListedArePapers
  <2>3. c = SetToSeq(U)
    BY <1>1, <2>1 DEF OfKind
  <2> QED BY <2>1, <2>2, <2>3, ListOfSet
<1>5. d \in Seq(Paper) /\ UNION {Pending(n, "ms", s) : s \in S} \subseteq ToSet(d)
  <2>1. PICK U : U = UNION {Pending(n, "ms", s) : s \in S}
    OBVIOUS
  <2>2. U \subseteq Paper
    BY <2>1, ListedArePapers
  <2>3. d = SetToSeq(U)
    BY <1>1, <2>1 DEF OfKind
  <2> QED BY <2>1, <2>2, <2>3, ListOfSet
<1>6. a \o b \in Seq(Paper) /\ ToSet(a) \subseteq ToSet(a \o b) /\ ToSet(b) \subseteq ToSet(a \o b)
  BY <1>2, <1>3, Joined
<1>7. /\ (a \o b) \o c \in Seq(Paper) /\ ToSet(a \o b) \subseteq ToSet((a \o b) \o c)
      /\ ToSet(c) \subseteq ToSet((a \o b) \o c)
  BY <1>4, <1>6, Joined
<1>8. /\ ((a \o b) \o c) \o d \in Seq(Paper) /\ ToSet((a \o b) \o c) \subseteq ToSet(((a \o b) \o c) \o d)
      /\ ToSet(d) \subseteq ToSet(((a \o b) \o c) \o d)
  BY <1>5, <1>7, Joined
<1>9. DocumentsTree(n, S, R) = ((a \o b) \o c) \o d
  BY <1>1 DEF DocumentsTree
<1> QED
  BY <1>2, <1>3, <1>4, <1>5, <1>6, <1>7, <1>8, <1>9

LEMMA ListedFacts ==
    ASSUME NEW n, NEW k
    PROVE  PendingAbove(n, k) \subseteq Subject /\ Listed(n, k) \subseteq Subject /\ PendingAbove(n, k) \subseteq Listed(n, k)
BY GossipConstants DEF PendingAbove, Listed

\* What is done with the first of some papers.
LEMMA FirstAndRest ==
    ASSUME NEW s \in SomePapers
    PROVE  Head(s) \in Paper /\ (Tail(s) # <<>> => Tail(s) \in SomePapers)
BY HeadTailProperties DEF SomePapers

----------------------------------------------------------------------------
(* One lemma for each action. *)

LEMMA SubmitKeeps ==
    ASSUME GossipInv, NEW n \in Site, NEW p \in Paper, SubmitPaper(n, p)
    PROVE  GossipInv'
<1>1. Accept(n, p, wire, posts) /\ ~Refused(n, p) /\ UNCHANGED <<errors, bans, links, open, pulled, job>>
  BY DEF SubmitPaper, Refused
<1>2. /\ offered' \subseteq Paper
      /\ pulled' = NoPull \/ pulled' \in [by : Site, papers : SomePapers]
      /\ job' = NoJob \/ job' \in [to : Site, papers : SomePapers, strict : BOOLEAN]
  BY <1>1 DEF SubmitPaper, GossipInv, GossipTypeOK
<1> QED
  BY <1>1, <1>2, AcceptKeepsGossip

\* A document refused counts once, and is one copy less on its way: the sender is not banned.
LEMMA RefusedPushKeeps ==
    ASSUME GossipInv, NEW m \in wire, ~Readable(m.paper) \/ Refused(m.to, m.paper), CountError(m.to, m.paper, Sender(m)),
           BanIfRepeated(m.to, Sender(m)), Decline({o \in wire \ {m} : o.via \in open'}, posts),
           UNCHANGED <<pulled, job, links, offered>>
    PROVE  GossipInv'
<1>1. PICK n, p, from, c, again : n = m.to /\ p = m.paper /\ from = Sender(m) /\ c = m.via /\ again = m.again
  OBVIOUS
<1>2. /\ GossipTypeOK /\ m \in Pushed /\ c \in Link /\ c \in open /\ n \in Ends[c] /\ p \in Paper /\ again \in BOOLEAN
      /\ m = [via |-> c, to |-> n, paper |-> p, again |-> again]
  BY <1>1 DEF GossipInv, GossipTypeOK, Pushed
<1>3. from = OtherEnd(c, n) /\ n \in Site /\ from \in Site /\ c \in Between(n, from) /\ OtherEnd(c, from) = n
  BY <1>1, <1>2, TwoEnds, LinkIsBetween DEF Sender
<1>4. errors' = [errors EXCEPT ![n][<<p, from>>] = @ + 1]
  BY <1>1 DEF CountError
<1>5. /\ errors \in [Site -> [Paper \X Site -> Nat]] /\ errors' \in [Site -> [Paper \X Site -> Nat]]
      /\ errors'[n][<<p, from>>] = errors[n][<<p, from>>] + 1
      /\ \A y, z \in Site : \A r \in Paper : <<y, r, z>> # <<n, p, from>> => errors'[y][<<r, z>>] = errors[y][<<r, z>>]
  <2>1. errors \in [Site -> [Paper \X Site -> Nat]] /\ <<p, from>> \in Paper \X Site /\ n \in Site
    BY <1>2, <1>3 DEF GossipTypeOK
  <2>2. PICK g, k : g = errors[n] /\ k = <<p, from>> /\ g \in [Paper \X Site -> Nat] /\ k \in Paper \X Site
    BY <2>1
  <2>3. PICK f : f = [g EXCEPT ![k] = g[k] + 1]
    OBVIOUS
  <2>4. /\ f \in [Paper \X Site -> Nat] /\ f[<<p, from>>] = errors[n][<<p, from>>] + 1
        /\ \A j \in Paper \X Site : j # <<p, from>> => f[j] = errors[n][j]
    <3>1. g[k] + 1 \in Nat
      BY <2>2
    <3>2. f \in [Paper \X Site -> Nat] /\ f[k] = g[k] + 1 /\ \A j \in Paper \X Site : j # k => f[j] = g[j]
      BY <2>2, <2>3, <3>1
    <3> QED BY <2>2, <3>2
  <2>5. errors' = [errors EXCEPT ![n] = f]
    BY <1>4, <2>2, <2>3
  <2>6. errors' \in [Site -> [Paper \X Site -> Nat]] /\ errors'[n] = f /\ \A y \in Site : y # n => errors'[y] = errors[y]
    BY <2>1, <2>4, <2>5
  <2>7. ASSUME NEW y \in Site, NEW z \in Site, NEW r \in Paper, <<y, r, z>> # <<n, p, from>>
        PROVE  errors'[y][<<r, z>>] = errors[y][<<r, z>>]
    <3>1. CASE y # n
      BY <2>6, <3>1
    <3>2. CASE y = n /\ <<r, z>> # <<p, from>>
      BY <2>4, <2>6, <3>2
    <3> QED BY <2>7, <3>1, <3>2
  <2> QED BY <2>1, <2>4, <2>6, <2>7
<1>6. /\ wire' = {o \in wire \ {m} : o.via \in open'} /\ posts' = posts
      /\ UNCHANGED <<holds, missed, unsent>>
  BY DEF Decline
<1>7. FewCopies'
  <2> SUFFICES ASSUME NEW x \in Site, NEW z \in Site, NEW r \in Paper PROVE Few(x, r, z)'
    BY DEF FewCopies
  <2>1. \A a \in BOOLEAN : Copies(x, r, z, a)' \subseteq Copies(x, r, z, a)
    BY <1>6 DEF Copies, Between
  <2>2. CASE <<x, r, z>> # <<n, p, from>>
    <3>1. errors'[x][<<r, z>>] <= errors[x][<<r, z>>]
      <4>1. errors[x][<<r, z>>] \in Nat
        BY <1>5
      <4> QED BY <1>5, <2>2, <4>1
    <3> QED BY <1>5, <1>6, <2>1, <3>1, FewRemains DEF GossipInv
  <2>3. CASE <<x, r, z>> = <<n, p, from>>
    <3>1. Copies(n, p, from, again)' \subseteq Copies(n, p, from, again) \ {c}
      BY <1>2, <1>6 DEF Copies, Between
    <3>2. c \in Copies(n, p, from, again)
      BY <1>2, <1>3 DEF Copies
    <3>3. Cardinality(Copies(n, p, from, again)') <= Cardinality(Copies(n, p, from, again)) - 1
      <4>1. IsFiniteSet(Copies(n, p, from, again) \ {c})
        BY CopiesFacts, FS_RemoveElement
      <4>2. Cardinality(Copies(n, p, from, again) \ {c}) = Cardinality(Copies(n, p, from, again)) - 1
        BY <3>2, CopiesFacts, FS_RemoveElement
      <4> QED BY <3>1, <4>1, <4>2, FS_Subset
    <3>4. PICK a, b, a1, b1, e, l \in Nat :
             /\ a = Cardinality(Copies(n, p, from, FALSE)) /\ b = Cardinality(Copies(n, p, from, TRUE))
             /\ a1 = Cardinality(Copies(n, p, from, FALSE)') /\ b1 = Cardinality(Copies(n, p, from, TRUE)')
             /\ e = errors[n][<<p, from>>] /\ l = Cardinality(Between(n, from))
      <4>1. errors[n][<<p, from>>] \in Nat
        BY <1>2, <1>3, <1>5
      <4> QED BY <4>1, CopiesFacts, NextCopiesFacts, BetweenFacts
    <3>16. a \in Nat /\ b \in Nat /\ a1 \in Nat /\ b1 \in Nat /\ e \in Nat /\ l \in Nat
      OBVIOUS
    <3>5. a1 <= a /\ b1 <= b
      BY <2>1, <2>3, <3>4, FewerCopies
    <3>6. a1 + b1 <= a + b - 1
      <4>1. CASE again = TRUE
        <5>1. b1 <= b - 1
          BY <3>3, <3>4, <4>1
        <5> QED BY <3>16, <3>5, <5>1
      <4>2. CASE again = FALSE
        <5>1. a1 <= a - 1
          BY <3>3, <3>4, <4>2
        <5> QED BY <3>16, <3>5, <5>1
      <4> QED BY <1>2, <4>1, <4>2
    <3>7. Few(n, p, from)
      BY <1>2, <1>3 DEF GossipInv, FewCopies
    <3>8. p \in holds[from]
      BY <1>2, <3>2, <3>7 DEF Few
    <3>9. p \in unsent[from] => Copies(n, p, from, TRUE) = {} /\ e + (a + b) <= l
      BY <3>4, <3>7 DEF Few, Under
    <3>10. e + (a + b) <= 2 * l
      BY <3>4, <3>7 DEF Few, Under
    <3>11. (e + 1) + (a1 + b1) <= e + (a + b)
      BY <3>16, <3>6
    <3>12. p \in unsent'[from] => Copies(n, p, from, TRUE)' = {} /\ (e + 1) + (a1 + b1) <= l
      <4> SUFFICES ASSUME p \in unsent[from] PROVE Copies(n, p, from, TRUE)' = {} /\ (e + 1) + (a1 + b1) <= l
        BY <1>6
      <4>1. Copies(n, p, from, TRUE)' = {}
        <5>1. Copies(n, p, from, TRUE) = {}
          BY <3>9
        <5> QED BY <2>1, <2>3, <5>1
      <4>2. (e + 1) + (a1 + b1) <= l
        <5>1. e + (a + b) <= l
          BY <3>9
        <5> QED BY <3>16, <3>11, <5>1
      <4> QED BY <4>1, <4>2
    <3>13. (e + 1) + (a1 + b1) <= 2 * l
      BY <3>16, <3>10, <3>11
    <3>14. /\ errors'[n][<<p, from>>] = e + 1 /\ Under(n, p, from)' = a1 + b1 /\ Between(n, from)' = Between(n, from)
           /\ p \in holds'[from]
      BY <1>5, <1>6, <3>4, <3>8 DEF Under, Between
    <3>15. Few(n, p, from)'
      BY <3>4, <3>12, <3>13, <3>14 DEF Few
    <3> QED BY <2>3, <3>15
  <2> QED BY <2>2, <2>3
<1>8. \A r \in Paper : ~(errors'[n][<<r, from>>] >= RepeatThreshold)
  <2> SUFFICES ASSUME NEW r \in Paper PROVE ~(errors'[n][<<r, from>>] >= RepeatThreshold)
    OBVIOUS
  <2>1. Few(n, r, from)'
    BY <1>3, <1>7 DEF FewCopies
  <2>2. PICK e, a, b, l \in Nat :
           /\ e = errors'[n][<<r, from>>] /\ l = Cardinality(Between(n, from))
           /\ a = Cardinality(Copies(n, r, from, FALSE)') /\ b = Cardinality(Copies(n, r, from, TRUE)')
    <3>1. errors'[n][<<r, from>>] \in Nat
      BY <1>3, <1>5
    <3> QED BY <3>1, NextCopiesFacts, BetweenFacts
  <2>3. e + (a + b) <= 2 * l
    BY <2>1, <2>2 DEF Few, Under, Between
  <2>4. 2 * l < RepeatThreshold /\ RepeatThreshold \in Nat
    BY <1>3, <2>2, GossipConstants
  <2>5. ~(e >= RepeatThreshold)
    <3>1. e \in Nat /\ a \in Nat /\ b \in Nat /\ l \in Nat
      OBVIOUS
    <3> QED BY <2>3, <2>4, <3>1
  <2> QED BY <2>2, <2>5
<1>9. bans' = bans /\ open' = open
  BY <1>1, <1>8 DEF BanIfRepeated
<1>10. wire' = wire \ {m}
  BY <1>6, <1>9 DEF GossipInv, GossipTypeOK
<1>11. GossipTypeOK'
  BY <1>5, <1>6, <1>9, <1>10 DEF GossipInv, GossipTypeOK
<1>12. RowsExplained'
  BY <1>6, RowsRemain DEF GossipInv
<1>13. EverythingGoesOn'
  <2>1. ASSUME p \in holds[from] PROVE p \in missed' \/ p \in holds[n]
    <3>1. CASE ~Readable(p)
      BY <1>3, <1>6, <2>1, <3>1 DEF Readable, GossipInv, RowsExplained
    <3>2. CASE Refused(n, p)
      BY <1>3, <1>6, <2>1, <3>2 DEF Refused, GossipInv, RowsExplained
    <3> QED BY <1>1, <3>1, <3>2
  <2> QED BY <1>1, <1>6, <1>10, <2>1, GoingOnRemains DEF GossipInv
<1>14. NoHonestBan'
  BY <1>9 DEF GossipInv, NoHonestBan
<1> QED
  BY <1>7, <1>11, <1>12, <1>13, <1>14 DEF GossipInv

LEMMA ReceivesKeeps ==
    ASSUME GossipInv, NEW m \in wire, Receives(m)
    PROVE  GossipInv'
<1>1. m.to \in Site /\ m.paper \in Paper /\ UNCHANGED <<pulled, job, links, offered>>
  BY DEF Receives, NoEvent, GossipInv, GossipTypeOK, Pushed
<1>2. CASE Readable(m.paper) /\ ~Refused(m.to, m.paper)
  <2>1. Accept(m.to, m.paper, wire \ {m}, posts) /\ UNCHANGED <<errors, bans, open>>
    BY <1>2 DEF Receives
  <2>2. /\ offered' \subseteq Paper
        /\ pulled' = NoPull \/ pulled' \in [by : Site, papers : SomePapers]
        /\ job' = NoJob \/ job' \in [to : Site, papers : SomePapers, strict : BOOLEAN]
    BY <1>1 DEF GossipInv, GossipTypeOK
  <2>3. wire \ {m} \subseteq wire /\ \A o \in wire \ (wire \ {m}) : o.to = m.to /\ o.paper = m.paper
    OBVIOUS
  <2> QED BY <1>1, <1>2, <2>1, <2>2, <2>3, AcceptKeepsGossip
<1>3. CASE ~(Readable(m.paper) /\ ~Refused(m.to, m.paper))
  <2>1. /\ CountError(m.to, m.paper, Sender(m)) /\ BanIfRepeated(m.to, Sender(m))
        /\ Decline({o \in wire \ {m} : o.via \in open'}, posts)
    BY <1>3 DEF Receives
  <2> QED BY <1>1, <1>3, <2>1, RefusedPushKeeps
<1> QED
  BY <1>2, <1>3

LEMMA ForgetErrorKeeps ==
    ASSUME GossipInv, NEW n \in Site, NEW p \in Paper, ForgetError(n, p)
    PROVE  GossipInv'
<1>1. /\ errors' = [errors EXCEPT ![n] = [k \in Paper \X Site |-> IF k[1] = p THEN 0 ELSE @[k]]]
      /\ UNCHANGED <<holds, wire, posts, bans, open, pulled, unsent, job, missed, links, offered>>
  BY DEF ForgetError, Incident
<1>2. PICK f : f = [k \in Paper \X Site |-> IF k[1] = p THEN 0 ELSE errors[n][k]]
  OBVIOUS
<1>3. errors \in [Site -> [Paper \X Site -> Nat]]
  BY DEF GossipInv, GossipTypeOK
<1>4. f \in [Paper \X Site -> Nat] /\ \A k \in Paper \X Site : f[k] <= errors[n][k]
  <2>1. PICK g : g = errors[n] /\ g \in [Paper \X Site -> Nat]
    BY <1>3
  <2>2. \A k \in Paper \X Site : g[k] \in Nat /\ 0 <= g[k] /\ g[k] <= g[k]
    BY <2>1
  <2> QED BY <1>2, <2>1, <2>2
<1>5. errors' = [errors EXCEPT ![n] = f]
  BY <1>1, <1>2
<1>6. errors' \in [Site -> [Paper \X Site -> Nat]] /\ errors'[n] = f /\ \A y \in Site : y # n => errors'[y] = errors[y]
  BY <1>3, <1>4, <1>5
<1>7. ASSUME NEW y \in Site, NEW z \in Site, NEW r \in Paper
      PROVE  errors'[y][<<r, z>>] <= errors[y][<<r, z>>]
  <2>1. <<r, z>> \in Paper \X Site
    OBVIOUS
  <2>2. errors[y][<<r, z>>] \in Nat
    BY <1>3, <2>1
  <2>3. CASE y # n
    <3>1. errors'[y] = errors[y]
      BY <1>6, <2>3
    <3> QED BY <2>2, <3>1
  <2>4. CASE y = n
    BY <1>4, <1>6, <2>1, <2>4
  <2> QED BY <2>3, <2>4
<1>8. GossipTypeOK'
  BY <1>1, <1>6 DEF GossipInv, GossipTypeOK
<1>9. RowsExplained' /\ EverythingGoesOn' /\ NoHonestBan'
  BY <1>1, RowsRemain, GoingOnRemains DEF GossipInv, NoHonestBan
<1>10. FewCopies'
  BY <1>1, <1>3, <1>6, <1>7, FewCopiesRemain DEF GossipInv
<1> QED
  BY <1>8, <1>9, <1>10 DEF GossipInv

\* The mempool gives a transaction once more, while at most one copy of it went by each connection.
LEMMA PushPendingKeeps ==
    ASSUME GossipInv, NEW n \in Site, NEW chosen \in SUBSET LinksOf(n), PushPendingTransactions(n, chosen)
    PROVE  GossipInv'
<1> DEFINE New == {[via |-> c, to |-> OtherEnd(c, n), paper |-> p, again |-> TRUE] : c \in chosen, p \in unsent[n]}
<1>0. GossipTypeOK /\ FewCopies
  BY DEF GossipInv
<1>1. /\ unsent' = [unsent EXCEPT ![n] = {}] /\ wire' = wire \cup New
      /\ UNCHANGED <<holds, posts, errors, bans, open, pulled, job, missed, links, offered>>
  BY DEF PushPendingTransactions, NoEvent
<1>2. ASSUME NEW m \in New
      PROVE  \E c \in chosen, p \in unsent[n] :
                /\ m = [via |-> c, to |-> OtherEnd(c, n), paper |-> p, again |-> TRUE]
                /\ c \in open /\ c \in Link /\ n \in Ends[c] /\ OtherEnd(c, n) \in Ends[c] /\ OtherEnd(c, n) \in Site /\ p \in Paper
  <2>1. PICK c \in chosen, p \in unsent[n] : m = [via |-> c, to |-> OtherEnd(c, n), paper |-> p, again |-> TRUE]
    BY <1>2
  <2>2. c \in open /\ c \in Link /\ n \in Ends[c] /\ p \in Paper
    BY <1>0 DEF LinksOf, GossipTypeOK
  <2>3. OtherEnd(c, n) \in Ends[c] /\ OtherEnd(c, n) \in Site
    BY <2>2, TwoEnds
  <2> QED BY <2>1, <2>2, <2>3
<1> HIDE DEF New
<1>3. GossipTypeOK'
  <2>1. wire' \subseteq Pushed /\ \A m \in wire' : m.to \in Ends[m.via] /\ m.via \in open'
    <3> SUFFICES ASSUME NEW m \in wire' PROVE m \in Pushed /\ m.to \in Ends[m.via] /\ m.via \in open
      BY <1>1
    <3>1. CASE m \in wire
      BY <1>0, <3>1 DEF GossipTypeOK
    <3>2. CASE m \in New
      <4>1. PICK c \in chosen, p \in unsent[n] :
               /\ m = [via |-> c, to |-> OtherEnd(c, n), paper |-> p, again |-> TRUE]
               /\ c \in open /\ c \in Link /\ OtherEnd(c, n) \in Ends[c] /\ OtherEnd(c, n) \in Site /\ p \in Paper
        BY <1>2, <3>2
      <4>2. TRUE \in BOOLEAN
        OBVIOUS
      <4>3. m \in Pushed
        BY <4>1, <4>2 DEF Pushed
      <4>4. m.to = OtherEnd(c, n) /\ m.via = c
        BY <4>1
      <4> QED BY <4>1, <4>3, <4>4
    <3> QED BY <1>1, <3>1, <3>2
  <2>2. unsent' \in [Site -> SUBSET Paper]
    BY <1>0, <1>1 DEF GossipTypeOK
  <2> QED BY <1>0, <1>1, <2>1, <2>2 DEF GossipTypeOK
<1>4. RowsExplained' /\ EverythingGoesOn' /\ NoHonestBan'
  <2>1. wire \ wire' = {}
    BY <1>1
  <2> QED BY <1>1, <2>1, RowsRemain, GoingOnRemains DEF GossipInv, NoHonestBan
<1>5. FewCopies'
  <2> SUFFICES ASSUME NEW x \in Site, NEW z \in Site, NEW r \in Paper PROVE Few(x, r, z)'
    BY DEF FewCopies
  <2>1. CASE z = n /\ r \in unsent[n]
    <3>1. Few(x, r, n)
      BY <1>0 DEF FewCopies
    <3>2. r \in holds'[n] /\ r \notin unsent'[n] /\ Between(x, n)' = Between(x, n) /\ errors' = errors
      BY <1>0, <1>1, <2>1, <3>1 DEF Few, Between, GossipTypeOK
    <3>3. Copies(x, r, n, FALSE)' \subseteq Copies(x, r, n, FALSE)
      <4> SUFFICES ASSUME NEW c \in Copies(x, r, n, FALSE)' PROVE c \in Copies(x, r, n, FALSE)
        OBVIOUS
      <4>1. PICK m : m = [via |-> c, to |-> x, paper |-> r, again |-> FALSE] /\ m \in wire' /\ c \in Between(x, n)
        BY DEF Copies, Between
      <4>2. m \notin New
        <5>1. ASSUME m \in New PROVE FALSE
          <6>1. m.again = TRUE
            BY <1>2, <5>1
          <6>2. m.again = FALSE
            BY <4>1
          <6> QED BY <6>1, <6>2
        <5> QED BY <5>1
      <4> QED BY <1>1, <4>1, <4>2 DEF Copies
    <3>4. PICK a, a1, b1, e, l \in Nat :
             /\ a = Cardinality(Copies(x, r, n, FALSE)) /\ a1 = Cardinality(Copies(x, r, n, FALSE)')
             /\ b1 = Cardinality(Copies(x, r, n, TRUE)') /\ b1 <= l
             /\ e = errors[x][<<r, n>>] /\ l = Cardinality(Between(x, n))
      <4>1. <<r, n>> \in Paper \X Site
        OBVIOUS
      <4>2. errors[x][<<r, n>>] \in Nat
        BY <1>0, <4>1 DEF GossipTypeOK
      <4> QED BY <4>2, CopiesFacts, NextCopiesFacts, BetweenFacts
    <3>5. a1 <= a
      BY <3>3, <3>4, FewerCopies
    <3>6. Copies(x, r, n, TRUE) = {} /\ e + Under(x, r, n) <= l
      BY <2>1, <3>1, <3>4 DEF Few
    <3>7. Under(x, r, n) = a + 0
      <4>1. Cardinality(Copies(x, r, n, TRUE)) = 0
        BY <3>6, FS_EmptySet
      <4> QED BY <3>4, <4>1 DEF Under
    <3>8. e + (a + 0) <= l
      BY <3>6, <3>7
    <3>9. b1 <= l
      BY <3>4
    <3>10. a \in Nat /\ a1 \in Nat /\ b1 \in Nat /\ e \in Nat /\ l \in Nat
      OBVIOUS
    <3>11. e + (a1 + b1) <= 2 * l
      BY <3>5, <3>8, <3>9, <3>10
    <3>12. errors'[x][<<r, n>>] + Under(x, r, n)' <= 2 * Cardinality(Between(x, n)')
      BY <3>2, <3>4, <3>11 DEF Under
    <3> QED BY <2>1, <3>2, <3>12 DEF Few
  <2>2. CASE ~(z = n /\ r \in unsent[n])
    <3>1. ASSUME NEW again \in BOOLEAN PROVE Copies(x, r, z, again)' \subseteq Copies(x, r, z, again)
      <4> SUFFICES ASSUME NEW c \in Copies(x, r, z, again)' PROVE c \in Copies(x, r, z, again)
        OBVIOUS
      <4>1. PICK m : m = [via |-> c, to |-> x, paper |-> r, again |-> again] /\ m \in wire' /\ c \in Between(x, z)
        BY DEF Copies, Between
      <4>2. CASE m \in wire
        BY <4>1, <4>2 DEF Copies
      <4>3. CASE m \in New
        <5>1. /\ c \in Link /\ n \in Ends[c] /\ x = OtherEnd(c, n) /\ r \in unsent[n]
          BY <1>2, <4>1, <4>3
        <5>2. Ends[c] = {n, x} /\ n # x
          BY <5>1, TwoEnds
        <5>3. Ends[c] = {x, z}
          BY <4>1 DEF Between
        <5> QED BY <2>2, <5>1, <5>2, <5>3
      <4> QED BY <1>1, <4>1, <4>2, <4>3
    <3>2. r \in unsent'[z] => r \in unsent[z]
      BY <1>0, <1>1 DEF GossipTypeOK
    <3>3. errors'[x][<<r, z>>] <= errors[x][<<r, z>>] /\ errors' = errors
      <4>1. errors[x][<<r, z>>] \in Nat
        BY <1>0 DEF GossipTypeOK
      <4> QED BY <1>1, <4>1
    <3>4. holds[z] \subseteq holds'[z]
      BY <1>1
    <3> QED BY <1>0, <3>1, <3>2, <3>3, <3>4, FewRemains DEF GossipTypeOK
  <2> QED BY <2>1, <2>2
<1> QED
  BY <1>3, <1>4, <1>5 DEF GossipInv

\* What a connection that is cut carried is missed.
LEMMA CutLinkKeeps ==
    ASSUME GossipInv, NEW c \in Link, CutLink(c)
    PROVE  GossipInv'
<1>0. GossipTypeOK /\ FewCopies
  BY DEF GossipInv
<1>1. /\ open' = open \ {c} /\ wire' = {m \in wire : m.via # c}
      /\ missed' = missed \cup {m.paper : m \in {o \in wire : o.via = c}}
      /\ UNCHANGED <<holds, posts, errors, bans, pulled, unsent, job, links, offered>>
  BY DEF CutLink, Incident
<1>2. missed' \subseteq Paper
  BY <1>0, <1>1 DEF GossipTypeOK, Pushed
<1>3. GossipTypeOK'
  BY <1>0, <1>1, <1>2 DEF GossipTypeOK
<1>4. RowsExplained'
  BY <1>1, RowsRemain DEF GossipInv
<1>5. EverythingGoesOn'
  <2>1. \A m \in wire \ wire' : m.paper \in missed'
    BY <1>1
  <2> QED BY <1>0, <1>1, <2>1, GoingOnRemains DEF GossipInv
<1>6. FewCopies'
  <2>1. \A x, z \in Site : \A r \in Paper : errors'[x][<<r, z>>] <= errors[x][<<r, z>>]
    <3> SUFFICES ASSUME NEW x \in Site, NEW z \in Site, NEW r \in Paper PROVE errors'[x][<<r, z>>] <= errors[x][<<r, z>>]
      OBVIOUS
    <3>1. errors[x][<<r, z>>] \in Nat
      BY <1>0 DEF GossipTypeOK
    <3> QED BY <1>1, <3>1
  <2>2. errors \in [Site -> [Paper \X Site -> Nat]] /\ errors' \in [Site -> [Paper \X Site -> Nat]] /\ wire' \subseteq wire
    BY <1>0, <1>1 DEF GossipTypeOK
  <2> QED BY <1>0, <1>1, <2>1, <2>2, FewCopiesRemain
<1>7. NoHonestBan'
  BY <1>1 DEF GossipInv, NoHonestBan
<1> QED
  BY <1>3, <1>4, <1>5, <1>6, <1>7 DEF GossipInv

\* A connection that comes back carries nothing yet.
LEMMA ConnectKeeps ==
    ASSUME GossipInv, NEW c \in Link, Connect(c)
    PROVE  GossipInv'
<1>0. GossipTypeOK /\ FewCopies
  BY DEF GossipInv
<1>1. /\ c \in links /\ open' = open \cup {c}
      /\ UNCHANGED <<holds, wire, posts, errors, bans, pulled, unsent, job, missed, links, offered>>
  BY DEF Connect, NoEvent
<1>2. GossipTypeOK'
  BY <1>0, <1>1 DEF GossipTypeOK
<1>3. RowsExplained' /\ EverythingGoesOn' /\ NoHonestBan'
  BY <1>1, RowsRemain, GoingOnRemains DEF GossipInv, NoHonestBan
<1>4. FewCopies'
  <2>1. \A x, z \in Site : \A r \in Paper : errors'[x][<<r, z>>] <= errors[x][<<r, z>>]
    <3> SUFFICES ASSUME NEW x \in Site, NEW z \in Site, NEW r \in Paper PROVE errors'[x][<<r, z>>] <= errors[x][<<r, z>>]
      OBVIOUS
    <3>1. errors[x][<<r, z>>] \in Nat
      BY <1>0 DEF GossipTypeOK
    <3> QED BY <1>1, <3>1
  <2>2. errors \in [Site -> [Paper \X Site -> Nat]] /\ errors' \in [Site -> [Paper \X Site -> Nat]] /\ wire' \subseteq wire
    BY <1>0, <1>1 DEF GossipTypeOK
  <2> QED BY <1>0, <1>1, <2>1, <2>2, FewCopiesRemain
<1> QED
  BY <1>2, <1>3, <1>4 DEF GossipInv

LEMMA DeliverPostKeeps ==
    ASSUME GossipInv, NEW o \in posts, DeliverPost(o)
    PROVE  GossipInv'
<1>1. /\ o.to \in Site /\ o.paper \in Paper /\ UNCHANGED <<errors, bans, open, pulled, job, links, offered>>
      /\ posts \ {o} \subseteq posts
  BY DEF DeliverPost, NoEvent, GossipInv, GossipTypeOK
<1>2. /\ offered' \subseteq Paper
      /\ pulled' = NoPull \/ pulled' \in [by : Site, papers : SomePapers]
      /\ job' = NoJob \/ job' \in [to : Site, papers : SomePapers, strict : BOOLEAN]
  BY <1>1 DEF GossipInv, GossipTypeOK
<1>3. CASE Refused(o.to, o.paper)
  <2>1. Decline(wire, posts \ {o})
    BY <1>3 DEF DeliverPost
  <2> QED BY <1>1, <1>2, <2>1, DeclineKeepsGossip
<1>4. CASE ~Refused(o.to, o.paper)
  <2>1. Accept(o.to, o.paper, wire, posts \ {o})
    BY <1>4 DEF DeliverPost
  <2> QED BY <1>1, <1>2, <1>4, <2>1, AcceptKeepsGossip
<1> QED
  BY <1>3, <1>4

LEMMA UnreachableKeeps ==
    ASSUME GossipInv, NEW o \in posts, Unreachable(o)
    PROVE  GossipInv'
<1>1. /\ posts' = posts \ {o} /\ UNCHANGED <<holds, wire, errors, bans, open, pulled, unsent, job, missed, links, offered>>
  BY DEF Unreachable, Incident
<1>2. /\ offered' \subseteq Paper /\ posts' \subseteq [from : Site, to : Site, paper : Paper]
      /\ pulled' = NoPull \/ pulled' \in [by : Site, papers : SomePapers]
      /\ job' = NoJob \/ job' \in [to : Site, papers : SomePapers, strict : BOOLEAN]
  BY <1>1 DEF GossipInv, GossipTypeOK
<1> QED
  BY <1>1, <1>2, QuietStep

LEMMA PeerIsUpKeeps ==
    ASSUME GossipInv, NEW n, NEW m, PeerIsUp(n, m)
    PROVE  GossipInv'
<1>1. UNCHANGED <<holds, wire, posts, errors, bans, open, pulled, unsent, job, missed, links, offered>>
  BY DEF PeerIsUp, NoEvent
<1>2. /\ offered' \subseteq Paper /\ posts' \subseteq [from : Site, to : Site, paper : Paper]
      /\ pulled' = NoPull \/ pulled' \in [by : Site, papers : SomePapers]
      /\ job' = NoJob \/ job' \in [to : Site, papers : SomePapers, strict : BOOLEAN]
  BY <1>1 DEF GossipInv, GossipTypeOK
<1> QED
  BY <1>1, <1>2, QuietStep

LEMMA AnswersKeeps ==
    ASSUME GossipInv, NEW n \in Site, NEW m \in Site, Answers(n, m)
    PROVE  GossipInv'
<1>1. /\ NewFor(n, m) # {} /\ pulled' = [by |-> n, papers |-> Requirements(m, MinSig)]
      /\ UNCHANGED <<holds, wire, posts, errors, bans, open, unsent, job, missed, links, offered>>
  BY DEF Answers, NoEvent
<1>2. Requirements(m, MinSig) \in Seq(Paper)
  BY ListedFacts, TreeFacts DEF Requirements, GossipInv
<1>3. Requirements(m, MinSig) # <<>>
  BY <1>1 DEF NewFor, ToSet
<1>4. pulled' \in [by : Site, papers : SomePapers]
  BY <1>1, <1>2, <1>3 DEF SomePapers
<1>5. /\ offered' \subseteq Paper /\ posts' \subseteq [from : Site, to : Site, paper : Paper]
      /\ job' = NoJob \/ job' \in [to : Site, papers : SomePapers, strict : BOOLEAN]
  BY <1>1 DEF GossipInv, GossipTypeOK
<1> QED
  BY <1>1, <1>4, <1>5, QuietStep

LEMMA ApplyPulledKeeps ==
    ASSUME GossipInv, ApplyPulled
    PROVE  GossipInv'
<1>1. PICK n, p, left : n = pulled.by /\ p = Head(pulled.papers) /\ left = Tail(pulled.papers)
  OBVIOUS
<1>2. /\ pulled \in [by : Site, papers : SomePapers]
      /\ IF Refused(n, p) THEN Decline(wire, posts) ELSE Accept(n, p, wire, posts)
      /\ pulled' = IF left = <<>> THEN NoPull ELSE [pulled EXCEPT !.papers = left]
      /\ UNCHANGED <<errors, bans, open, job, links, offered>>
  BY <1>1 DEF ApplyPulled, NoEvent, GossipInv, GossipTypeOK
<1>3. n \in Site /\ p \in Paper /\ (left # <<>> => left \in SomePapers)
  BY <1>1, <1>2, FirstAndRest
<1>4. pulled' = NoPull \/ pulled' \in [by : Site, papers : SomePapers]
  BY <1>2, <1>3
<1>5. /\ offered' \subseteq Paper
      /\ job' = NoJob \/ job' \in [to : Site, papers : SomePapers, strict : BOOLEAN]
  BY <1>2 DEF GossipInv, GossipTypeOK
<1>6. CASE Refused(n, p)
  <2>1. Decline(wire, posts)
    BY <1>2, <1>6
  <2> QED BY <1>2, <1>4, <1>5, <2>1, DeclineKeepsGossip
<1>7. CASE ~Refused(n, p)
  <2>1. Accept(n, p, wire, posts)
    BY <1>2, <1>7
  <2> QED BY <1>2, <1>3, <1>4, <1>5, <1>7, <2>1, AcceptKeepsGossip
<1> QED
  BY <1>6, <1>7

LEMMA StartJobKeeps ==
    ASSUME GossipInv, NEW to \in Site, NEW papers \in Seq(Paper), NEW strict \in BOOLEAN, StartJob(to, papers, strict)
    PROVE  GossipInv'
<1>1. /\ papers # <<>> /\ job' = [to |-> to, papers |-> papers, strict |-> strict]
      /\ UNCHANGED <<holds, wire, posts, errors, bans, open, pulled, unsent, missed, links, offered>>
  BY DEF StartJob, Incident
<1>2. job' \in [to : Site, papers : SomePapers, strict : BOOLEAN]
  BY <1>1 DEF SomePapers
<1>3. /\ offered' \subseteq Paper /\ posts' \subseteq [from : Site, to : Site, paper : Paper]
      /\ pulled' = NoPull \/ pulled' \in [by : Site, papers : SomePapers]
  BY <1>1 DEF GossipInv, GossipTypeOK
<1> QED
  BY <1>1, <1>2, <1>3, QuietStep

LEMMA PostOfJobKeeps ==
    ASSUME GossipInv, PostOfJob
    PROVE  GossipInv'
<1>1. PICK n, p, left :
         /\ n = job.to /\ p = Head(job.papers)
         /\ left = IF job.strict /\ p.kind = "rev" /\ Refused(n, p) THEN SkipIdentity ELSE Tail(job.papers)
  OBVIOUS
<1>2. /\ job \in [to : Site, papers : SomePapers, strict : BOOLEAN]
      /\ IF Refused(n, p) THEN Decline(wire, posts) ELSE Accept(n, p, wire, posts)
      /\ job' = IF left = <<>> THEN NoJob ELSE [job EXCEPT !.papers = left]
      /\ UNCHANGED <<errors, bans, open, pulled, links, offered>>
  BY <1>1 DEF PostOfJob, NoEvent, GossipInv, GossipTypeOK
<1>3. n \in Site /\ p \in Paper /\ (left # <<>> => left \in SomePapers)
  <2>1. job.papers \in SomePapers /\ job.to \in Site
    BY <1>2
  <2>2. left = <<>> \/ left = Tail(job.papers)
    BY <1>1 DEF SkipIdentity
  <2> QED BY <1>1, <2>1, <2>2, FirstAndRest
<1>4. job' = NoJob \/ job' \in [to : Site, papers : SomePapers, strict : BOOLEAN]
  BY <1>2, <1>3
<1>5. /\ offered' \subseteq Paper
      /\ pulled' = NoPull \/ pulled' \in [by : Site, papers : SomePapers]
  BY <1>2 DEF GossipInv, GossipTypeOK
<1>6. CASE Refused(n, p)
  <2>1. Decline(wire, posts)
    BY <1>2, <1>6
  <2> QED BY <1>2, <1>4, <1>5, <2>1, DeclineKeepsGossip
<1>7. CASE ~Refused(n, p)
  <2>1. Accept(n, p, wire, posts)
    BY <1>2, <1>7
  <2> QED BY <1>2, <1>3, <1>4, <1>5, <1>7, <2>1, AcceptKeepsGossip
<1> QED
  BY <1>6, <1>7

\* Each command lists documents of what is known where it reads.
LEMMA CommandsKeep ==
    ASSUME GossipInv, Commands
    PROVE  GossipInv'
<1>0. GossipTypeOK /\ HttpSite \subseteq Site
  BY GossipConstants DEF GossipInv
<1>1. ASSUME NEW n \in Site, NEW s \in Subject, NEW R \in SUBSET Subject
      PROVE  IdentityDocuments(n, s, R) \in Seq(Paper)
  <2>1. PICK a, b, c, d : /\ a = <<Idty(s)>> /\ b = SetToSeq(Revocations(n, R \cap {s}))
                          /\ c = OfKind(n, "cert", {s}) /\ d = OfKind(n, "ms", {s})
    OBVIOUS
  <2>2. a \in Seq(Paper)
    BY <2>1, GossipConstants
  <2>3. b \in Seq(Paper)
    <3>1. Revocations(n, R \cap {s}) \subseteq Paper
      BY <1>0, ListedArePapers
    <3> QED BY <2>1, <3>1, ListOfSet
  <2>4. ASSUME NEW k PROVE OfKind(n, k, {s}) \in Seq(Paper)
    <3>1. PICK U : U = UNION {Pending(n, k, x) : x \in {s}}
      OBVIOUS
    <3>2. U \subseteq Paper
      BY <1>0, <3>1, ListedArePapers
    <3> QED BY <3>1, <3>2, ListOfSet DEF OfKind
  <2>5. a \o b \in Seq(Paper)
    BY <2>2, <2>3, Joined
  <2>6. (a \o b) \o c \in Seq(Paper)
    BY <2>1, <2>4, <2>5, Joined
  <2>7. ((a \o b) \o c) \o d \in Seq(Paper)
    BY <2>1, <2>4, <2>6, Joined
  <2> QED BY <2>1, <2>7 DEF IdentityDocuments
<1>2. PICK n \in Site, to \in HttpSite :
         \/ \E s \in Subject :
               Import(n, s, to) \/ CrawlLookup(n, s, to) \/ SyncMempoolForward(n, s, to) \/ ImportLookup(n, s, to)
         \/ ForwardPendingMs(n, to)
  BY DEF Commands
<1>3. to \in Site /\ TRUE \in BOOLEAN /\ FALSE \in BOOLEAN
  BY <1>0
<1>4. ASSUME NEW s \in Subject, Import(n, s, to) PROVE GossipInv'
  <2>1. StartJob(to, IdentityDocuments(n, s, {s} \ MemberSubject), TRUE)
    BY <1>4 DEF Import
  <2>2. IdentityDocuments(n, s, {s} \ MemberSubject) \in Seq(Paper)
    BY <1>1
  <2> QED BY <1>3, <2>1, <2>2, StartJobKeeps
<1>5. ASSUME NEW s \in Subject, CrawlLookup(n, s, to) PROVE GossipInv'
  <2>1. StartJob(to, IdentityDocuments(n, s, PendingAbove(n, LookupSig)), TRUE)
    BY <1>5 DEF CrawlLookup
  <2>2. IdentityDocuments(n, s, PendingAbove(n, LookupSig)) \in Seq(Paper)
    BY <1>1, ListedFacts
  <2> QED BY <1>3, <2>1, <2>2, StartJobKeeps
<1>6. ASSUME NEW s \in Subject, SyncMempoolForward(n, s, to) PROVE GossipInv'
  <2>1. StartJob(to, DocumentsTree(n, {s}, {s} \ MemberSubject), FALSE)
    BY <1>6 DEF SyncMempoolForward
  <2>2. DocumentsTree(n, {s}, {s} \ MemberSubject) \in Seq(Paper)
    <3>1. {s} \in SUBSET Subject /\ {s} \ MemberSubject \in SUBSET Subject
      OBVIOUS
    <3> QED BY <1>0, <3>1, TreeFacts
  <2> QED BY <1>3, <2>1, <2>2, StartJobKeeps
<1>7. ASSUME NEW s \in Subject, ImportLookup(n, s, to) PROVE GossipInv'
  <2>1. StartJob(to, IdentityDocuments(n, s, {}), FALSE)
    BY <1>7 DEF ImportLookup
  <2>2. IdentityDocuments(n, s, {}) \in Seq(Paper)
    BY <1>1
  <2> QED BY <1>3, <2>1, <2>2, StartJobKeeps
<1>8. ASSUME ForwardPendingMs(n, to) PROVE GossipInv'
  <2>1. StartJob(to, OfKind(n, "ms", Subject), FALSE)
    BY <1>8 DEF ForwardPendingMs
  <2>2. OfKind(n, "ms", Subject) \in Seq(Paper)
    <3>1. PICK U : U = UNION {Pending(n, "ms", x) : x \in Subject}
      OBVIOUS
    <3>2. U \subseteq Paper
      BY <1>0, <3>1, ListedArePapers
    <3> QED BY <3>1, <3>2, ListOfSet DEF OfKind
  <2> QED BY <1>3, <2>1, <2>2, StartJobKeeps
<1> QED
  BY <1>2, <1>4, <1>5, <1>6, <1>7, <1>8

LEMMA GossipStepKeeps == GossipInv /\ [GossipNext]_gossipVars => GossipInv'
<1> SUFFICES ASSUME GossipInv, [GossipNext]_gossipVars PROVE GossipInv'
  OBVIOUS
<1>1. ASSUME NEW n \in Site, NEW p \in Paper, SubmitPaper(n, p) \/ ForgetError(n, p) PROVE GossipInv'
  BY <1>1, SubmitKeeps, ForgetErrorKeeps
<1>2. ASSUME NEW m \in wire, Receives(m) PROVE GossipInv'
  BY <1>2, ReceivesKeeps
<1>3. ASSUME NEW n \in Site, NEW chosen \in SUBSET LinksOf(n), PushPendingTransactions(n, chosen) PROVE GossipInv'
  BY <1>3, PushPendingKeeps
<1>4. ASSUME NEW c \in Link, CutLink(c) \/ Connect(c) PROVE GossipInv'
  BY <1>4, CutLinkKeeps, ConnectKeeps
<1>5. ASSUME NEW q \in posts, DeliverPost(q) \/ Unreachable(q) PROVE GossipInv'
  BY <1>5, DeliverPostKeeps, UnreachableKeeps
<1>6. ASSUME NEW n \in Site, NEW m \in Site, PeerIsUp(n, m) \/ SandboxPull(n, m) PROVE GossipInv'
  BY <1>6, PeerIsUpKeeps, AnswersKeeps DEF SandboxPull
<1>7. ASSUME NEW n \in Site, NEW c \in Link, PullDocpool(n, c) PROVE GossipInv'
  <2>1. c \in LinksOf(n) /\ Answers(n, OtherEnd(c, n))
    BY <1>7 DEF PullDocpool
  <2>2. OtherEnd(c, n) \in Site
    BY <2>1, TwoEnds DEF LinksOf
  <2> QED BY <2>1, <2>2, AnswersKeeps
<1>8. CASE ApplyPulled
  BY <1>8, ApplyPulledKeeps
<1>9. CASE Commands
  BY <1>9, CommandsKeep
<1>10. CASE PostOfJob
  BY <1>10, PostOfJobKeeps
<1>11. CASE UNCHANGED gossipVars
  <2>1. /\ UNCHANGED <<holds, unsent, missed, wire, errors, bans, links, open>>
        /\ offered' \subseteq Paper /\ posts' \subseteq [from : Site, to : Site, paper : Paper]
        /\ pulled' = NoPull \/ pulled' \in [by : Site, papers : SomePapers]
        /\ job' = NoJob \/ job' \in [to : Site, papers : SomePapers, strict : BOOLEAN]
    BY <1>11 DEF gossipVars, GossipInv, GossipTypeOK
  <2> QED BY <2>1, QuietStep
<1> QED
  BY <1>1, <1>2, <1>3, <1>4, <1>5, <1>6, <1>7, <1>8, <1>9, <1>10, <1>11 DEF GossipNext

----------------------------------------------------------------------------
\* At rest, what a pull from a site carries is at the other end of its connections: refused there, since the site has it,
\* or since it is the row of a member, which has the revocation that came with it.
LEMMA CarriedIsThere ==
    ASSUME GossipTypeOK, RowsExplained, NEW n \in Site, NEW m \in Site, NewFor(m, n) = {}, NEW p \in holds[n], Carried(n, p)
    PROVE  p \in holds[m]
<1>1. PICK papers : papers = Requirements(n, MinSig)
  OBVIOUS
<1>2. \A r \in ToSet(papers) : Refused(m, r)
  BY <1>1 DEF NewFor
<1>3. PICK L, A : /\ L = Listed(n, MinSig) /\ A = PendingAbove(n, MinSig) /\ L \subseteq Subject /\ A \subseteq L
                  /\ MemberSubject \subseteq L
  BY ListedFacts DEF Listed
<1>4. /\ {Idty(s) : s \in L} \subseteq ToSet(papers) /\ Revocations(n, A) \subseteq ToSet(papers)
      /\ UNION {Pending(n, "cert", s) : s \in L} \subseteq ToSet(papers)
      /\ UNION {Pending(n, "ms", s) : s \in L} \subseteq ToSet(papers)
  <2>1. papers = DocumentsTree(n, L, A) /\ L \in SUBSET Subject /\ A \in SUBSET Subject
    BY <1>1, <1>3 DEF Requirements
  <2> QED BY <2>1, TreeFacts
<1>5. /\ p \in Paper /\ p = [kind |-> p.kind, about |-> p.about] /\ p.kind \in {"idty", "cert", "ms", "rev", "tx"}
      /\ p.kind # "tx" /\ p.about \in L /\ (p.kind \in {"cert", "ms"} \/ p.about \in A)
  BY <1>3, GossipConstants DEF Carried, GossipTypeOK
<1>6. CASE p.kind = "cert"
  <2>1. p \in Pending(n, "cert", p.about)
    BY <1>6 DEF Pending
  <2>2. Refused(m, p)
    BY <1>2, <1>4, <1>5, <2>1
  <2> QED BY <1>6, <2>2 DEF Refused
<1>7. CASE p.kind = "ms"
  <2>1. p \in Pending(n, "ms", p.about)
    BY <1>7 DEF Pending
  <2>2. Refused(m, p)
    BY <1>2, <1>4, <1>5, <2>1
  <2> QED BY <1>7, <2>2 DEF Refused
<1>8. ASSUME NEW r \in holds[n], r.kind = "rev", r.about = p.about, p.about \in A PROVE r \in holds[m]
  <2>1. r \in Pending(n, "rev", p.about)
    BY <1>8 DEF Pending
  <2>2. r \in Revocations(n, A)
    BY <1>8, <2>1 DEF Revocations
  <2>3. Refused(m, r)
    BY <1>2, <1>4, <2>2
  <2> QED BY <1>8, <2>3 DEF Refused
<1>9. CASE p.kind = "rev"
  BY <1>5, <1>8, <1>9
<1>10. CASE p.kind = "idty"
  <2>1. p = Idty(p.about)
    BY <1>5, <1>10 DEF Idty
  <2>2. Refused(m, p)
    BY <1>2, <1>4, <1>5, <2>1
  <2>3. CASE p.about \in MemberSubject
    <3>1. PICK r \in holds[n] : r.kind = "rev" /\ r.about = p.about
      BY <1>10, <2>3 DEF RowsExplained
    <3>2. r \in holds[m]
      BY <1>5, <1>8, <1>10, <3>1
    <3>3. Idty(r.about) \in holds[m]
      BY <3>1, <3>2 DEF RowsExplained
    <3> QED BY <2>1, <3>1, <3>3
  <2> QED BY <2>2, <2>3 DEF Refused
<1> QED
  BY <1>5, <1>6, <1>7, <1>9, <1>10

LEMMA EverythingArrives == GossipInv => SpreadAtRest
<1> SUFFICES ASSUME GossipInv, AtRest, NEW c \in links, NEW n \in Ends[c], NEW p \in holds[n], p \notin holds[OtherEnd(c, n)]
             PROVE  p \in missed /\ ~Carried(n, p)
  BY DEF SpreadAtRest
<1>1. c \in Link /\ n \in Site /\ OtherEnd(c, n) \in Ends[c] /\ OtherEnd(c, n) \in Site /\ OtherEnd(c, OtherEnd(c, n)) = n
  BY TwoEnds DEF GossipInv, GossipTypeOK
<1>2. wire = {} /\ NewFor(OtherEnd(c, n), n) = {}
  BY <1>1 DEF AtRest
<1>3. p \in missed
  BY <1>2 DEF GossipInv, EverythingGoesOn, OnItsWay
<1>4. ~Carried(n, p)
  BY <1>1, <1>2, CarriedIsThere DEF GossipInv
<1> QED
  BY <1>3, <1>4

\* For any sites, connections and documents, any cuts, failed posts, commands and orders: what a site accepts is, at
\* rest, at the other end of each of its connections, but for what a connection missed and no pull carries; and no honest
\* site is banned by another, since a connection brings a document twice at most (handlePushMessage, banConnection).
THEOREM DocumentsGoEverywhere == GossipSpec => []DocumentsSpread
<1>1. GossipInv => DocumentsSpread
  BY EverythingArrives DEF DocumentsSpread, GossipInv
<1> QED
  BY <1>1, GossipInitOK, GossipStepKeeps, PTL DEF GossipSpec
====
