--------------------------- MODULE BlockGenerator ---------------------------
(***************************************************************************)
(* The documents a node keeps until they are written (IdentityService,     *)
(* MembershipService and the tables idty, membership and cert), the block  *)
(* its prover makes of them (BlockGenerator) and the rules every node       *)
(* checks it with.  Each person has one key and one identity document; the *)
(* documents of a person are based on HEAD when they are submitted.        *)
(***************************************************************************)
EXTENDS Integers, FiniteSetsExt, SequencesExt

CONSTANTS Person,       \* keys, with their identity
          Founder,      \* members after the root block, who all certified each other
          Gone,         \* members of an earlier block, excluded since
          Rivals,       \* persons who want the same uid
          SigQty,       \* conf.sigQty
          SigStock,     \* conf.sigStock
          MaxLen,       \* the least length a block may not reach
          MaxHeight,    \* bound: number of the last block
          Offered       \* bound: the documents someone submits, <<kind, issuer, person it is about>>

ASSUME GeneratorAssumption ==
    /\ Founder \subseteq Person /\ Gone \subseteq Person \ Founder /\ Rivals \subseteq Person \ (Founder \cup Gone)
    /\ IsFiniteSet(Person) /\ {SigQty, SigStock, MaxLen} \subseteq Nat /\ MaxHeight \in Nat \ {0}
    /\ Offered \subseteq {"identity", "cert", "in", "out", "revocation"} \X Person \X Person

VARIABLES
    height,         \* number of HEAD
    status,         \* IINDEX and MINDEX
    lastMs,         \* created_on of the last membership written
    leaving,        \* MINDEX: the membership is a leave
    toKick,         \* IINDEX: the next block must exclude
    links,          \* CINDEX: <<issuer, receiver>>
    msHeld,         \* whose last membership has its chainable_on after HEAD
    certHeld,       \* whose last certification has its chainable_on after HEAD
    idties,         \* table idty
    memberships,    \* table membership
    certs           \* table cert

indexVars == <<height, status, lastMs, leaving, toKick, links, msHeld, certHeld>>
generatorVars == <<indexVars, idties, memberships, certs>>

NoRow == [kept |-> FALSE, revocation |-> FALSE, member |-> FALSE, was |-> FALSE]
NewRow == [NoRow EXCEPT !.kept = TRUE]
Membership == [issuer : Person, in : BOOLEAN, number : 0..MaxHeight]

SameUid(p, q) == p = q \/ {p, q} \subseteq Rivals
Written(p) == status[p] # "unknown"
Member(p) == status[p] = "member"
UidTaken(p) == \E q \in Person : SameUid(p, q) /\ Written(q)
Issuers(cs) == {c[1] : c \in cs}
Certifiers(p, cs) == Issuers({c \in cs : c[2] = p})
Stock(p) == Cardinality({c \in links : c[1] = p})

\* getGlobalIdentityByHash...: the row of the sandbox hides what is written.
Known(p) == idties[p].kept \/ Written(p)
Info(p) == IF idties[p].kept
           THEN [member |-> idties[p].member, was |-> idties[p].was, revoked |-> FALSE]
           ELSE [member |-> Member(p), was |-> Written(p), revoked |-> status[p] = "revoked"]

----------------------------------------------------------------------------
(* Documents submitted. *)

Acceptable(p) == ~Known(p) /\ ~UidTaken(p)

\* Also what is left of a certification refused after it absorbed its identity: the row is only
\* marked as removed, which nothing reads.
SubmitIdentity(p) ==
    /\ <<"identity", p, p>> \in Offered /\ Acceptable(p)
    /\ idties' = [idties EXCEPT ![p] = NewRow]
    /\ UNCHANGED <<indexVars, memberships, certs>>

\* A certification brings the identity it is about.
SubmitCertification(p, q) ==
    /\ <<"cert", p, q>> \in Offered /\ p # q /\ Member(p) /\ <<p, q>> \notin certs
    /\ Known(q) \/ Acceptable(q)
    /\ certs' = certs \cup {<<p, q>>}
    /\ idties' = IF Known(q) THEN idties ELSE [idties EXCEPT ![q] = NewRow]
    /\ UNCHANGED <<indexVars, memberships>>

MostRecent(p) == Max({lastMs[p]} \cup {m.number : m \in {x \in memberships : x.issuer = p}})

SubmitMembership(p, in) ==
    /\ <<IF in THEN "in" ELSE "out", p, p>> \in Offered
    /\ MostRecent(p) < height
    /\ in \/ Member(p)
    /\ memberships' = memberships \cup {[issuer |-> p, in |-> in, number |-> height]}
    /\ UNCHANGED <<indexVars, idties, certs>>

SubmitRevocation(p) ==
    /\ <<"revocation", p, p>> \in Offered /\ ~Info(p).revoked /\ ~idties[p].revocation
    /\ idties' = [idties EXCEPT ![p] =
            [kept |-> TRUE, revocation |-> TRUE, member |-> Info(p).member, was |-> Info(p).was]]
    /\ UNCHANGED <<indexVars, memberships, certs>>

----------------------------------------------------------------------------
(* The generator. *)

Revocating == {p \in Person : idties[p].revocation /\ idties[p].was /\ status[p] \in {"member", "excluded"}}

\* existsNonReplayableLink, existsNonChainableLink
Chainable(i) == i \notin certHeld /\ Stock(i) < SigStock
Writable(c) == c \notin links /\ Member(c[1]) /\ Chainable(c[1])

Newest(p, in) == Max({m.number : m \in {x \in memberships : x.issuer = p /\ x.in = in}} \cup {-1})

PendingIn == {p \in Person \ msHeld : \E m \in memberships : m.issuer = p /\ m.in}
PendingOut == {p \in Person \ msHeld : \E m \in memberships : m.issuer = p /\ ~m.in}

PreJoin == {p \in PendingIn : Newest(p, TRUE) > lastMs[p] /\ Known(p) /\ ~Info(p).revoked}
FilterJoiners == {p \in PreJoin : Info(p).was \/ ~UidTaken(p)}
FoundCerts(p) == IF p \in leaving THEN {} ELSE {c \in certs : c[2] = p /\ Writable(c)}

\* iteratedChecking, one newcomer after the other: a certifier counts once, in the order of the newcomers.
NewCerts(p, chosen) == {c \in FoundCerts(p) : c[1] \notin Issuers(chosen.certs)}
EnoughLinks(p, new) == Cardinality(Certifiers(p, links) \cup Issuers(new)) >= SigQty
CheckNewcomer(p, chosen) ==
    LET mine == NewCerts(p, chosen) IN
    IF EnoughLinks(p, mine)
    THEN [persons |-> chosen.persons \cup {p}, certs |-> chosen.certs \cup mine]
    ELSE chosen
FindNewcomers(order) ==
    LET chosen[i \in 0..Len(order)] ==
            IF i = 0 THEN [persons |-> {}, certs |-> {}] ELSE CheckNewcomer(order[i], chosen[i - 1])
    IN chosen[Len(order)]

FindLeavers == {p \in PendingOut : Newest(p, FALSE) > lastMs[p] /\ Info(p).member}

NewCertsFromWoT == {c \in certs : Writable(c) /\ Member(c[2]) /\ c[2] \notin leaving}

\* mutant: a certifier of newcomers also certifies in the web of trust
MergeAllUpdates(newcomers) == LET free == NewCertsFromWoT IN
    {CHOOSE c \in free : c[1] = i : i \in Issuers(free)}

\* A member certifies once, a newcomer first.
MergeUpdates(newcomers) == LET free == {c \in NewCertsFromWoT : c[1] \notin Issuers(newcomers.certs)} IN
    {CHOOSE c \in free : c[1] = i : i \in Issuers(free)}

\* createBlock: nothing is written of those who are or were excluded by it, nor joins of those who leave.
Spared(leavers) == toKick \cup Revocating \cup {p \in Person : status[p] = "revoked"} \cup leavers

\* Then, while the length of the block stays under the limit.
CreateBlock(newcomers, updates) ==
    LET leavers == FindLeavers \ Spared({})
        out == Spared(leavers)
        joins == newcomers.persons \ out
    IN [identities |-> {p \in joins : ~Info(p).member /\ ~Info(p).was},
        joiners |-> {p \in joins : ~Info(p).member},
        actives |-> {p \in joins : Info(p).member},
        leavers |-> {p \in leavers : Info(p).member},
        revoked |-> Revocating,
        excluded |-> toKick \cup Revocating,
        certs |-> {c \in updates : c[2] \notin out} \cup {c \in newcomers.certs : c[2] \in joins}]

\* generateNextBlock: newcomers are taken in any order.
GenerateNextBlock(order) ==
    LET newcomers == FindNewcomers(order) IN CreateBlock(newcomers, MergeUpdates(newcomers))
GeneratedBlocks == {GenerateNextBlock(order) : order \in SetToSeqs(FilterJoiners)}

Length(b) == Cardinality(b.identities) + Cardinality(b.joiners) + Cardinality(b.actives)
             + Cardinality(b.leavers) + Cardinality(b.revoked) + Cardinality(b.certs)

----------------------------------------------------------------------------
(* The rules a block obeys by itself: LOCAL_RULES_FUNCTIONS. *)

UniqueUids(b) == \A p, q \in b.identities : SameUid(p, q) => p = q
IdentitiesMatchJoin(b) == b.identities \subseteq b.joiners
RevokedAreExcluded(b) == b.revoked \subseteq b.excluded
MembershipUnicity(b) == \A p \in Person :
    Cardinality({s \in {"joiners", "actives", "leavers", "revoked"} : p \in b[s]}) <= 1
PubkeyUnicity(b) == (b.joiners \cup b.actives \cup b.leavers) \cap b.excluded = {}
OneByIssuer(b) == \A c, d \in b.certs : c[1] = d[1] => c = d
NotForLeaverOrExcluded(b) == \A c \in b.certs : c[2] \notin b.leavers \cup b.excluded

LocalRules(b) ==
    /\ UniqueUids(b) /\ IdentitiesMatchJoin(b) /\ RevokedAreExcluded(b)
    /\ MembershipUnicity(b) /\ PubkeyUnicity(b) /\ OneByIssuer(b) /\ NotForLeaverOrExcluded(b)

(* The rules it obeys in the chain: what completeGlobalScope reads of the indexes, and BR_G. *)

NewIdentities(b) == \A p \in b.identities : ~UidTaken(p)
ExcludedIsMember(b) == \A p \in b.excluded : Member(p)
HasToBeExcluded(b) == toKick \subseteq b.excluded /\ b.excluded \subseteq toKick \cup b.revoked
MembershipPeriod(b) == (b.joiners \cup b.actives \cup b.leavers) \cap msHeld = {}
NotOnRevoked(b) == \A p \in b.joiners \cup b.actives \cup b.leavers \cup b.revoked : status[p] # "revoked"
JoinsOnce(b) == \A p \in b.joiners : ~Member(p) /\ (Written(p) \/ p \in b.identities)
EnoughCerts(b) == \A p \in b.joiners \cup b.actives : Cardinality(Certifiers(p, links \cup b.certs)) >= SigQty
LeaverIsMember(b) == \A p \in b.leavers : Member(p)
ActiveIsMember(b) == \A p \in b.actives : Member(p)
RevokedIsMember(b) == \A p \in b.revoked : Member(p)
CertificationPeriod(b) == \A c \in b.certs : c[1] \notin certHeld
CertificationStock(b) == \A c \in b.certs : Stock(c[1]) <= SigStock
FromMember(b) == \A c \in b.certs : Member(c[1])
ToMemberOrNewcomer(b) == \A c \in b.certs : Member(c[2]) \/ c[2] \in b.joiners
NotToLeaver(b) == \A c \in b.certs : c[2] \notin leaving
NoReplay(b) == b.certs \cap links = {}

CertificationRules(b) ==
    /\ CertificationPeriod(b) /\ CertificationStock(b) /\ FromMember(b)
    /\ ToMemberOrNewcomer(b) /\ NotToLeaver(b) /\ NoReplay(b)

MembershipRules(b) ==
    /\ NewIdentities(b) /\ NotOnRevoked(b) /\ JoinsOnce(b) /\ EnoughCerts(b)
    /\ LeaverIsMember(b) /\ ActiveIsMember(b) /\ RevokedIsMember(b) /\ ExcludedIsMember(b) /\ HasToBeExcluded(b)

Valid(b) == LocalRules(b) /\ MembershipPeriod(b) /\ CertificationRules(b) /\ MembershipRules(b) /\ Length(b) < MaxLen

----------------------------------------------------------------------------
(* The next block: one of this node, or a small one of another node. *)

Empty == [identities |-> {}, joiners |-> {}, actives |-> {}, leavers |-> {}, revoked |-> {}, excluded |-> toKick, certs |-> {}]
OtherJoins ==
    {[Empty EXCEPT !.identities = IF Written(p) THEN {} ELSE {p}, !.joiners = {p}, !.certs = cs] :
        p \in Person, cs \in {{}} \cup {{c} : c \in Person \X Person}}
OtherBlocks ==
    {Empty} \cup OtherJoins
    \cup {[Empty EXCEPT !.actives = {p}] : p \in Person}
    \cup {[Empty EXCEPT !.leavers = {p}] : p \in Person}
    \cup {[Empty EXCEPT !.revoked = {p}, !.excluded = @ \cup {p}] : p \in Person}
    \cup {[Empty EXCEPT !.certs = {c}] : c \in Person \X Person}

\* What the sandboxes lose: the documents written, the identities of the same uid, those out of date.
IdtiesAfter(b, trimmed) == [p \in Person |->
    IF p \in b.revoked \cup trimmed \/ \E q \in b.identities : SameUid(p, q) THEN NoRow ELSE idties[p]]
MembershipsAfter(b) == {m \in memberships :
    ~(m.issuer \in b.joiners \cup b.actives \cup b.leavers /\ m.number = Newest(m.issuer, m.issuer \notin b.leavers))}
CertsAfter(b) == certs \ b.certs

\* Rows whose date is passed: those of the members whose membership ends, at its very date or later.
\* BR_G94 and BR_G95 read who is a member before the block; only the first also kicks one that the block excludes.
AddBlock(b, expired, lapsed, trimmed) ==
    LET member(p) == p \in b.joiners \/ (Member(p) /\ p \notin b.excluded)
        ms == b.joiners \cup b.actives \cup b.leavers
    IN
    /\ height' = height + 1
    /\ status' = [p \in Person |->
         IF p \in b.revoked THEN "revoked"
         ELSE IF member(p) THEN "member" ELSE IF p \in b.excluded THEN "excluded" ELSE status[p]]
    /\ lastMs' = [p \in Person |-> IF p \in ms THEN height ELSE lastMs[p]]
    /\ leaving' = leaving \cup b.leavers
    /\ links' = (links \cup b.certs) \ expired
    /\ toKick' = {p \in Person : Member(p) /\
         \/ p \in lapsed
         \/ p \notin b.excluded /\ (\E c \in expired : c[2] = p) /\ Cardinality(Certifiers(p, links')) < SigQty}
    /\ msHeld' = ms /\ certHeld' = Issuers(b.certs)
    /\ idties' = IdtiesAfter(b, trimmed) /\ memberships' = MembershipsAfter(b) /\ certs' = CertsAfter(b)

NextBlock ==
    /\ height < MaxHeight
    /\ \E b \in GeneratedBlocks \cup OtherBlocks :
         /\ Valid(b)
         /\ \/ \E expired \in {{}} \cup {{c} : c \in links} : AddBlock(b, expired, {}, {})
            \/ \E p \in {q \in Person : Member(q) /\ q \notin b.actives} :
                 \E trimmed \in {{}, {q \in {p} : idties[q].revocation}} : AddBlock(b, {}, {p}, trimmed)

GeneratorInit ==
    /\ height = 1
    /\ status = [p \in Person |-> IF p \in Founder THEN "member" ELSE IF p \in Gone THEN "excluded" ELSE "unknown"]
    /\ lastMs = [p \in Person |-> IF p \in Founder \cup Gone THEN 0 ELSE -1]
    /\ leaving = {} /\ toKick = {} /\ msHeld = {} /\ certHeld = {}
    /\ links = {c \in Founder \X Founder : c[1] # c[2]}
    /\ idties = [p \in Person |-> NoRow] /\ memberships = {} /\ certs = {}

GeneratorNext ==
    \/ \E p \in Person : SubmitIdentity(p) \/ SubmitRevocation(p)
    \/ \E p, q \in Person : SubmitCertification(p, q)
    \/ \E p \in Person, in \in BOOLEAN : SubmitMembership(p, in)
    \/ NextBlock

GeneratorSpec == GeneratorInit /\ [][GeneratorNext]_generatorVars

----------------------------------------------------------------------------
GeneratorTypeOK ==
    /\ height \in 1..MaxHeight
    /\ status \in [Person -> {"unknown", "member", "excluded", "revoked"}]
    /\ lastMs \in [Person -> -1..MaxHeight]
    /\ {leaving, toKick, msHeld, certHeld} \subseteq SUBSET Person
    /\ {links, certs} \subseteq SUBSET (Person \X Person)
    /\ idties \in [Person -> [kept : BOOLEAN, revocation : BOOLEAN, member : BOOLEAN, was : BOOLEAN]]
    /\ memberships \subseteq Membership

\* Two newcomers with the same uid: only the written ones are looked at.
SameUidTwice(b) == \E p, q \in b.identities : p # q /\ SameUid(p, q)
\* The owner of an excluded identity asks for its revocation, which only a member may have.
RevokesNoMember(b) == \E p \in b.revoked : ~Member(p)
\* The block at whose time a membership ended excluded or revoked that member: it was kicked again (BR_G94),
\* no block can exclude who is no member, and the chain stops.
KickedOnceMore == \E p \in toKick : ~Member(p)

\* The block a node generates is one that every node accepts, but for the three cases above and
\* a block as long as the limit.
GeneratedBlockIsValid ==
    \A b \in GeneratedBlocks :
        Valid(b) \/ SameUidTwice(b) \/ RevokesNoMember(b) \/ KickedOnceMore \/ Length(b) >= MaxLen
=============================================================================
