------------------------------ MODULE CertIndex ------------------------------
(***************************************************************************)
(* Certifications: what a block writes about them in CINDEX and its two     *)
(* secondary indexes (src/app/lib/dal/indexDAL/leveldb/LevelDBCindex.ts) and *)
(* in the web of trust, what a revert takes back, and what the trimming      *)
(* forgets (src/app/lib/indexer.ts, blockchain/DuniterBlockchain.ts).        *)
(*                                                                         *)
(* A certification is issued by a member to another, on a block.  It cannot  *)
(* be written again before a delay (replay), and expires when the median     *)
(* time reaches its term.  The blocks of the chain are kept with what they   *)
(* wrote: that is the reference the indexes are compared with.              *)
(***************************************************************************)
EXTENDS Integers, SequencesExt

CONSTANTS
    Members,       \* the keys that issue and receive certifications
    Pairs,         \* the certifications there may be: <<issuer, receiver>>
    RootCerts,     \* those of block 0
    SigValidity,   \* conf.sigValidity
    SigReplay,     \* conf.sigReplay
    SigPeriod,     \* conf.sigPeriod
    SigWindow,     \* conf.sigWindow
    SigStock,      \* conf.sigStock
    ForkSize,      \* conf.forksize
    MaxBindex,     \* requiredBindexSizeForTail: the blocks that BINDEX keeps
    MaxBlock,      \* bound: the highest block number
    MaxTime,       \* bound: the highest median time
    MaxReverts     \* bound: the certifications of the reverted blocks

ASSUME MembersAssumption ==
    /\ \A p \in Pairs : p \in Members \X Members /\ p[1] # p[2]
    /\ RootCerts \subseteq Pairs
ASSUME ConfAssumption ==
    /\ {SigReplay, SigPeriod, SigWindow} \subseteq 0..SigValidity
    /\ SigStock \in Nat \ {0} /\ ForkSize \in Nat /\ MaxBindex \in Nat /\ MaxBindex > ForkSize
    /\ {MaxBlock, MaxTime, MaxReverts} \subseteq Nat

VARIABLES
    chain,       \* the main chain: the median time of each block and what it wrote
    issued,      \* level_cindex: the entries of each issuer, in order
    received,    \* level_cindex: who certified each receiver
    expiresOn,   \* level_cindex/expiresOn: the issuers by term
    writtenOn,   \* level_cindex/writtenOn: the issuers by block
    wot,         \* the links of the web of trust
    peak,        \* the highest number ever reached: reverts stay in the fork window
    reverted     \* history: the certifications of the reverted blocks, and what was left

vars == <<chain, issued, received, expiresOn, writtenOn, wot, peak, reverted>>

Numbers == 0..MaxBlock
Times   == 0..(MaxTime + SigValidity)

Height   == Len(chain) - 1
HeadTime == Last(chain).time
Pair(e)  == <<e.issuer, e.receiver>>

\* The block that a certification was made on matters by its median time alone.
Creation(p, based, n, t) ==
    [op |-> "CREATE", issuer |-> p[1], receiver |-> p[2], writtenOn |-> n,
     chainable_on |-> t + SigPeriod, replayable_on |-> t + SigReplay,
     expires_on |-> based + SigValidity, expired_on |-> 0]

Expiry(p, n, t) ==
    [op |-> "UPDATE", issuer |-> p[1], receiver |-> p[2], writtenOn |-> n, expired_on |-> t]

-----------------------------------------------------------------------------
(***************************************************************************)
(* Reading the index.  The entries of an issuer reduce to one certification *)
(* per receiver, each entry overriding the fields it has.                   *)
(***************************************************************************)
Of(index, p) == SelectSeq(index[p[1]], LAMBDA e : e.receiver = p[2])

IsValid(entries) == entries # <<>> /\ Last(entries).op = "CREATE"
Expired(entries) == entries # <<>> /\ Last(entries).op = "UPDATE"
Reduced(entries) == Last(SelectSeq(entries, LAMBDA e : e.op = "CREATE"))

Valid == {p \in Pairs : IsValid(Of(issued, p))}

\* findExpiresOnLteNotExpiredYet: by the issuers of the terms, then by the reduced entries.
Expiring(t) ==
    {p \in Pairs : /\ \E k \in Times : k <= t /\ p[1] \in expiresOn[k]
                   /\ IsValid(Of(issued, p)) /\ Reduced(Of(issued, p)).expires_on <= t}

-----------------------------------------------------------------------------
\* The rules of a block on one certification, with the median time of the current block.
Acceptable(p, based) ==
    /\ HeadTime - based <= SigWindow
    /\ HeadTime <= based + SigValidity
    /\ \A e \in ToSet(issued[p[1]]) : e.op = "CREATE" => e.chainable_on <= HeadTime
    /\ Cardinality({q \in Valid : q[1] = p[1]}) <= SigStock
    /\ p \in Valid => Reduced(Of(issued, p)).replayable_on < HeadTime

\* The certifications of a block: one by issuer at most, each on a block of the chain.
Contents ==
    LET bases == {chain[k].time : k \in DOMAIN chain}
    IN  {C \in SUBSET {c \in Pairs \X bases : Acceptable(c[1], c[2])} :
            \A c, d \in C : c[1][1] = d[1][1] => c = d}

\* wotb.addLink does nothing above the stock.
AddLink(links, p) ==
    IF Cardinality({q \in links : q[1] = p[1]}) < SigStock THEN links \cup {p} ELSE links

\* updateWotbLinks, and its reverse in revertBlock, in the order of the entries.
Update(links, e) == IF e.op = "CREATE" THEN AddLink(links, Pair(e)) ELSE links \ {Pair(e)}

UndoNone(links, e) ==   \* mutant: the links of an expiry are not restored
    IF e.op = "CREATE" THEN links \ {Pair(e)} ELSE links

Undo(links, e)   == IF e.op = "CREATE" THEN links \ {Pair(e)} ELSE AddLink(links, Pair(e))

-----------------------------------------------------------------------------
(***************************************************************************)
(* trimRecords: the issuers who wrote below the tail lose the certifications *)
(* that have expired below it, and the terms up to the last of them go.     *)
(***************************************************************************)
TrimmableEarly(index, writers, tail) ==     \* mutant: an expiry that may be reverted goes too
    {p \in Pairs : /\ \E n \in Numbers : n < tail /\ p[1] \in ToSet(writers[n])
                   /\ Expired(Of(index, p))}

Trimmable(index, writers, tail) ==
    {p \in Pairs : /\ \E n \in Numbers : n < tail /\ p[1] \in ToSet(writers[n])
                   /\ Expired(Of(index, p)) /\ Last(Of(index, p)).writtenOn < tail}

Trim(index, terms, writers, tail) ==
    LET gone == Trimmable(index, writers, tail)
        last == Max({0} \cup {Last(Of(index, p)).expired_on : p \in gone})
    IN  /\ issued' = [m \in Members |-> SelectSeq(index[m], LAMBDA e : Pair(e) \notin gone)]
        /\ expiresOn' = [k \in Times |-> IF k <= last THEN {} ELSE terms[k]]
        /\ writtenOn' = [n \in Numbers |-> IF n < tail THEN <<>> ELSE writers[n]]

(***************************************************************************)
(* A block: its certifications, then the expiries that the index gives, are  *)
(* inserted and indexed; the indexes are trimmed; the links follow.         *)
(***************************************************************************)
TermOfLast(issuers, new) ==   \* mutant: the term forgets the issuers it had
    IF new = {} THEN issuers ELSE new

Term(issuers, new) == issuers \cup new

Insert(entries, n) ==
    LET CreatedAt(k) == {e \in ToSet(entries) : e.op = "CREATE" /\ e.expires_on = k}
        index   == [m \in Members |-> issued[m] \o SelectSeq(entries, LAMBDA e : e.issuer = m)]
        terms   == [k \in Times |-> Term(expiresOn[k], {e.issuer : e \in CreatedAt(k)})]
        writers == IF entries = <<>> THEN writtenOn
                   ELSE [writtenOn EXCEPT ![n] = [i \in DOMAIN entries |-> entries[i].issuer]]
    IN  /\ received' = [m \in Members |->
                received[m] \cup {e.issuer : e \in {f \in ToSet(entries) :
                                                        f.op = "CREATE" /\ f.receiver = m}}]
        /\ Trim(index, terms, writers, n - MaxBindex)

AddBlock(t, C) ==
    LET n == Height + 1
        local == {Creation(c[1], c[2], n, t) : c \in C}
        entries == SetToSeq(local) \o SetToSeq({Expiry(p, n, t) : p \in Expiring(t)})
    IN  /\ n <= MaxBlock /\ t \in HeadTime..MaxTime
        /\ chain' = Append(chain, [time |-> t, entries |-> entries])
        /\ Insert(entries, n)
        /\ wot' = FoldLeft(Update, wot, entries)
        /\ peak' = Max({peak, n})
        /\ UNCHANGED reverted

-----------------------------------------------------------------------------
\* getWrittenOn: the entries of the block, once for each time its issuer is listed.
Written(n) ==
    FlattenSeq([i \in DOMAIN writtenOn[n] |->
                    SelectSeq(issued[writtenOn[n][i]], LAMBDA e : e.writtenOn = n)])

(***************************************************************************)
(* A revert: the links, then removeBlock.  An issuer leaves the received of  *)
(* a certification when what remains of it has expired, and the terms of    *)
(* what is removed go, whoever else has the same term.                      *)
(***************************************************************************)

StillReceived(index, removed, m) ==
    received[m] \ {e.issuer : e \in {f \in removed :
                       f.receiver = m /\ Expired(Of(index, Pair(f)))}}


WithoutBlock(n, m) ==
    IF m \in ToSet(writtenOn[n])
    THEN SelectSeq(issued[m], LAMBDA e : e.writtenOn # n) ELSE issued[m]

InForkWindow == Height > 0 /\ Height > peak - ForkSize

Left(index, p) ==
    IF IsValid(Of(index, p)) THEN "valid" ELSE IF Expired(Of(index, p)) THEN "expired" ELSE "none"

RevertBlock ==
    LET n == Height
        index   == [m \in Members |-> WithoutBlock(n, m)]
        removed == ToSet(Written(n))
    IN  /\ InForkWindow
        /\ chain' = Front(chain)
        /\ wot' = FoldLeft(Undo, wot, Written(n))
        /\ issued' = index
        /\ received' = [m \in Members |-> StillReceived(index, removed, m)]
        /\ expiresOn' = [k \in Times |->
                IF \E e \in removed : e.op = "CREATE" /\ e.expires_on = k
                THEN {} ELSE expiresOn[k]]
        /\ reverted' = reverted \cup
               {[pair |-> Pair(e), term |-> e.expires_on, left |-> Left(index, Pair(e))] :
                    e \in {f \in removed : f.op = "CREATE"}}
        /\ Cardinality(reverted') <= MaxReverts
        /\ UNCHANGED <<writtenOn, peak>>

-----------------------------------------------------------------------------
Init ==
    LET root == SetToSeq({Creation(p, 0, 0, 0) : p \in RootCerts})
    IN  /\ chain = <<[time |-> 0, entries |-> root]>>
        /\ issued = [m \in Members |-> SelectSeq(root, LAMBDA e : e.issuer = m)]
        /\ received = [m \in Members |-> {p[1] : p \in {q \in RootCerts : q[2] = m}}]
        /\ expiresOn = [k \in Times |-> {p[1] : p \in {q \in RootCerts : k = SigValidity}}]
        /\ writtenOn = [n \in Numbers |->
                IF n = 0 THEN [i \in DOMAIN root |-> root[i].issuer] ELSE <<>>]
        /\ wot = FoldLeft(Update, {}, root)
        /\ peak = 0 /\ reverted = {}

Next ==
    \/ \E t \in 0..MaxTime, C \in Contents : AddBlock(t, C)
    \/ RevertBlock

Spec == Init /\ [][Next]_vars

-----------------------------------------------------------------------------
\* What the blocks of the chain say of a certification.
ChainOf(p) ==
    SelectSeq(FlattenSeq([k \in DOMAIN chain |-> chain[k].entries]), LAMBDA e : Pair(e) = p)

(***************************************************************************)
(* After any blocks, reverts and trimmings, an issuer has the entries of the *)
(* chain; what is missing ended in an expiry that no revert can reach.      *)
(***************************************************************************)
IndexFollowsChain ==
    \A p \in Pairs :
        LET all == ChainOf(p)
            cut == Len(all) - Len(Of(issued, p))
        IN  /\ cut >= 0 /\ Of(issued, p) = SubSeq(all, cut + 1, Len(all))
            /\ cut > 0 => all[cut].op = "UPDATE" /\ all[cut].writtenOn <= peak - ForkSize

(***************************************************************************)
(* The links of the web of trust are the valid certifications, except that  *)
(* the revert of a replay takes the link of the certification it renewed.   *)
(* The receiver of a valid certification finds it (the rules on the number   *)
(* of certifications count those), except when the revert of a renewal made  *)
(* after an expiry was followed by the revert of that expiry.               *)
(***************************************************************************)
LinksAgree ==
    /\ wot \subseteq Valid
    /\ \A p \in Valid \ wot : \E r \in reverted : r.pair = p /\ r.left = "valid"
    /\ \A p \in Valid : p[1] \in received[p[2]]
                        \/ \E r \in reverted : r.pair = p /\ r.left = "expired"

(***************************************************************************)
(* A certification expires once, at the first block that reaches its term:   *)
(* no block finds one that is overdue, except when the revert of another     *)
(* removed their common term from the index of terms.                       *)
(***************************************************************************)
ExpiresInTime ==
    \A p \in Valid :
        LET cert == Reduced(Of(issued, p))
        IN  cert.expires_on <= HeadTime /\ cert.writtenOn < Height =>
                \E r \in reverted : r.term = cert.expires_on

(***************************************************************************)
(* "Even after the revert, the link between issuer and receiver is still     *)
(* valid. So don't remove it." (LevelDBCindex.removeBlock, of the revert of  *)
(* a replay before term)                                                   *)
(***************************************************************************)
LinkSurvives == \A r \in reverted : r.left = "valid" /\ r.pair \in Valid => r.pair \in wot
=============================================================================
