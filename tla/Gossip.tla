------------------------------- MODULE Gossip -------------------------------
(***************************************************************************)
(* How the documents that wait for a block travel between nodes: pushed    *)
(* over WS2P by the node that accepts them, posted over HTTP by its router,*)
(* pulled from the sandboxes of others, and carried by the commands of an  *)
(* operator.  Every node runs this program; a connection may be cut, with  *)
(* what it carries, and a POST may fail.  The documents stay acceptable    *)
(* everywhere: what removes them is in DocumentPool.                       *)
(***************************************************************************)
EXTENDS Integers, FiniteSets, SequencesExt

CONSTANTS Site,            \* nodes, each with its key
          Link,            \* WS2P connections
          Ends,            \* the two sites of a connection
          Entry,           \* sites where users submit documents
          HttpSite,        \* sites with a BMA endpoint, known by all
          Paper,           \* documents: [kind, about]
          MemberSubject,   \* identities written in the chain, of those that documents are about
          RepeatThreshold, \* WS2PConstants.BAN_ON_REPEAT_THRESHOLD
          MinSig,          \* certifications that the sandbox of an identity needs to be pulled
          LookupSig,       \* the same, for crawl-lookup (option minsig)
          Scenarios,       \* connections that the sites keep, and documents that users submit: [links, papers]
          MaxEvents        \* bound: connections cut, POSTs that fail, errors forgotten and commands

Idty(s) == [kind |-> "idty", about |-> s]
Subject == {p.about : p \in {q \in Paper : q.kind # "tx"}}
Between(n, m) == {c \in Link : Ends[c] = {n, m}}

\* The last conjunct: the code bans at 5 errors, and two nodes have at most two connections, one asked by each.
ASSUME GossipAssumption ==
    /\ \A c \in Link : \E n, m \in Site : n # m /\ Ends[c] = {n, m}
    /\ Entry \cup HttpSite \subseteq Site
    /\ \A x \in Scenarios : x.links \subseteq Link /\ x.papers \subseteq Paper
    /\ \A p \in Paper : p = [kind |-> p.kind, about |-> p.about] /\ p.kind \in {"idty", "cert", "ms", "rev", "tx"}
    /\ MemberSubject \subseteq Subject /\ \A s \in Subject : Idty(s) \in Paper
    /\ IsFiniteSet(Link) /\ IsFiniteSet(Paper)
    /\ {RepeatThreshold, MinSig, LookupSig} \subseteq Nat \ {0} /\ MaxEvents \in Nat
    /\ \A n, m \in Site : 2 * Cardinality(Between(n, m)) < RepeatThreshold

VARIABLES
    holds,      \* documents in the tables of a site
    wire,       \* pushes on their way: [via, to, paper, again]
    posts,      \* POSTs on their way: [from, to, paper]
    errors,     \* WS2PServerMessageHandler.errors: wrong documents, by document and sender
    bans,       \* WS2PCluster.banned
    links,      \* connections that the sites keep
    open,       \* the ones that are established
    down,       \* peers that a site considers DOWN
    pulled,     \* the pull under way: [by, papers], documents that are not submitted yet
    unsent,     \* transactions that the mempool has not given to the cluster yet
    job,        \* a command under way: [to, papers, strict]
    missed,     \* history: documents that were not pushed to someone
    offered,    \* documents that users have not submitted yet
    events      \* counter of the bound

gossipVars == <<holds, wire, posts, errors, bans, links, open, down, pulled, unsent, job, missed, offered, events>>

LinksOf(n) == {c \in open : n \in Ends[c]}
OtherEnd(c, n) == CHOOSE m \in Ends[c] : m # n
Incident == events < MaxEvents /\ events' = events + 1 /\ UNCHANGED <<links, offered>>
NoEvent == UNCHANGED <<links, offered, events>>

----------------------------------------------------------------------------
(* A document submitted to a site. *)

\* An identity is refused when it has a row or is written, any other document when it is in its table.
Refused(n, p) == p \in holds[n] \/ (p.kind = "idty" /\ p.about \in MemberSubject)

\* A certification brings the identity along when it is new; a revocation makes a row of the identity, pending or written.
Rows(p) ==
    {p} \cup IF p.kind = "rev" \/ (p.kind = "cert" /\ p.about \notin MemberSubject) THEN {Idty(p.about)} ELSE {}

\* The stream of a connection tells the kind of a document by its fields: the one of a revocation is not among its cases,
\* and a revocation has the field idty_uid of a certification.
Readable(p) == p.kind # "rev"

\* mutant: transactions are left to the mempool
PushButTransactions(n, p) ==
    IF p.kind = "tx" THEN {} ELSE {[via |-> c, to |-> OtherEnd(c, n), paper |-> p, again |-> FALSE] : c \in LinksOf(n)}

Push(n, p) == {[via |-> c, to |-> OtherEnd(c, n), paper |-> p, again |-> FALSE] : c \in LinksOf(n)}

\* The router chooses among the peers that are UP, all of them here: their number is below the maximum.
Route(n, p) == {[from |-> n, to |-> m, paper |-> p] : m \in HttpSite \ ({n} \cup down[n])}

Deaf(n) == \E c \in links \ open : n \in Ends[c]

\* The document is saved, then given to every stream: connections, the one that it came by included, and router.
Accept(n, p, w, q) ==
    /\ holds' = [holds EXCEPT ![n] = @ \cup Rows(p)]
    /\ wire' = w \cup Push(n, p)
    /\ posts' = q \cup Route(n, p)
    /\ missed' = missed \cup IF Deaf(n) \/ ~Readable(p) THEN Rows(p) ELSE Rows(p) \ {p}
    /\ unsent' = IF p.kind = "tx" THEN [unsent EXCEPT ![n] = @ \cup {p}] ELSE unsent

Decline(w, q) == wire' = w /\ posts' = q /\ UNCHANGED <<holds, missed, unsent>>

\* pushEntity: a user posts a new document.
SubmitPaper(n, p) ==
    /\ n \in Entry /\ p \in offered /\ offered' = offered \ {p}
    /\ ~Refused(n, p)
    /\ Accept(n, p, wire, posts)
    /\ UNCHANGED <<errors, bans, links, open, down, pulled, job, events>>

----------------------------------------------------------------------------
(* Pushes over WS2P. *)

Sender(m) == OtherEnd(m.via, m.to)

CountError(n, p, from) == errors' = [errors EXCEPT ![n][<<p, from>>] = @ + 1]

\* A document refused is remembered, whatever the reason; the sender of RepeatThreshold times the same one is banned, and
\* its connections are closed.
BanIfRepeated(n, from) ==
    IF \E p \in Paper : errors'[n][<<p, from>>] >= RepeatThreshold
    THEN /\ bans' = [bans EXCEPT ![n] = @ \cup {from}]
         /\ open' = {c \in open : Ends[c] # {n, from}}
    ELSE UNCHANGED <<bans, open>>

Receives(m) ==
    /\ m \in wire
    /\ LET n == m.to  p == m.paper  left == wire \ {m} IN
       IF Readable(p) /\ ~Refused(n, p)
       THEN Accept(n, p, left, posts) /\ UNCHANGED <<errors, bans, open>>
       ELSE /\ CountError(n, p, Sender(m))
            /\ BanIfRepeated(n, Sender(m))
            /\ Decline({o \in left : o.via \in open'}, posts)
    /\ UNCHANGED <<down, pulled, job>> /\ NoEvent

\* The timer of any error of a document forgets the ones of every sender.
ForgetError(n, p) ==
    /\ Incident
    /\ \E m \in Site : errors[n][<<p, m>>] > 0
    /\ errors' = [errors EXCEPT ![n] = [k \in Paper \X Site |-> IF k[1] = p THEN 0 ELSE @[k]]]
    /\ UNCHANGED <<holds, wire, posts, bans, open, down, pulled, unsent, job, missed>>

\* Every 2 seconds, the transactions that the mempool received since are pushed on connections chosen at random.
PushPendingTransactions(n, chosen) ==
    /\ unsent[n] # {}
    /\ unsent' = [unsent EXCEPT ![n] = {}]
    /\ wire' = wire \cup {[via |-> c, to |-> OtherEnd(c, n), paper |-> p, again |-> TRUE] : c \in chosen, p \in unsent[n]}
    /\ UNCHANGED <<holds, posts, errors, bans, open, down, pulled, job, missed>> /\ NoEvent

\* What a connection carries is lost with it.
CutLink(c) ==
    /\ c \in open /\ Incident
    /\ open' = open \ {c}
    /\ wire' = {m \in wire : m.via # c}
    /\ missed' = missed \cup {m.paper : m \in {o \in wire : o.via = c}}
    /\ UNCHANGED <<holds, posts, errors, bans, down, pulled, unsent, job>>

Connect(c) ==
    /\ c \in links \ open
    /\ \A n \in Ends[c] : OtherEnd(c, n) \notin bans[n]
    /\ open' = open \cup {c}
    /\ UNCHANGED <<holds, wire, posts, errors, bans, down, pulled, unsent, job, missed>> /\ NoEvent

----------------------------------------------------------------------------
(* POSTs over HTTP.  The answer of a site that refuses is ignored. *)

DeliverPost(q) ==
    /\ q \in posts
    /\ LET left == posts \ {q} IN
       IF Refused(q.to, q.paper) THEN Decline(wire, left) ELSE Accept(q.to, q.paper, wire, left)
    /\ UNCHANGED <<errors, bans, open, down, pulled, job>> /\ NoEvent

\* The multicaster tells the router that the peer is unreachable: it is DOWN until the crawler finds it UP.
Unreachable(q) ==
    /\ q \in posts /\ Incident
    /\ posts' = posts \ {q}
    /\ down' = [down EXCEPT ![q.from] = @ \cup {q.to}]
    /\ UNCHANGED <<holds, wire, errors, bans, open, pulled, unsent, job, missed>>

PeerIsUp(n, m) ==
    /\ m \in down[n]
    /\ down' = [down EXCEPT ![n] = @ \ {m}]
    /\ UNCHANGED <<holds, wire, posts, errors, bans, open, pulled, unsent, job, missed>> /\ NoEvent

----------------------------------------------------------------------------
(* What a site answers when it is asked for the requirements of the identities in its sandbox. *)

Pending(n, k, s) == {p \in holds[n] : p.kind = k /\ p.about = s}

\* The rows of identities, pending or revoked members, certified enough in the sandbox.
PendingAbove(n, minsig) == {s \in Subject : Idty(s) \in holds[n] /\ Cardinality(Pending(n, "cert", s)) >= minsig}

\* Members are certified enough in the chain, and are listed without their revocation.
Listed(n, minsig) == PendingAbove(n, minsig) \cup MemberSubject

Revocations(n, S) == UNION {Pending(n, "rev", s) : s \in S}
OfKind(n, k, S) == SetToSeq(UNION {Pending(n, k, s) : s \in S})

\* getDocumentsTree: identities, revocations, certifications and memberships, in this order.
DocumentsTree(n, S, revoked) ==
    SetToSeq({Idty(s) : s \in S}) \o SetToSeq(Revocations(n, revoked)) \o OfKind(n, "cert", S) \o OfKind(n, "ms", S)

Requirements(n, minsig) == DocumentsTree(n, Listed(n, minsig), PendingAbove(n, minsig))

NoPull == [papers |-> <<>>]

\* What the site would accept of what the other answers.
NewFor(n, m) == {p \in ToSet(Requirements(m, MinSig)) : ~Refused(n, p)}

\* One answer at a time is applied (bound), when something in it is new.
Answers(n, m) ==
    /\ pulled = NoPull /\ NewFor(n, m) # {}
    /\ pulled' = [by |-> n, papers |-> Requirements(m, MinSig)]
    /\ UNCHANGED <<holds, wire, posts, errors, bans, open, down, unsent, job, missed>> /\ NoEvent

\* Of every connection, when they are at most CRAWL_PEERS_COUNT.
PullDocpool(n, c) == c \in LinksOf(n) /\ Answers(n, OtherEnd(c, n))

\* The crawler of BMA asks the peers that are UP.
SandboxPull(n, m) == m \in HttpSite \ ({n} \cup down[n]) /\ Answers(n, m)

\* applyMempoolRequirements: one document after the other, errors are silent; the ones accepted are pushed in turn.
ApplyPulled ==
    /\ pulled # NoPull
    /\ LET n == pulled.by  p == Head(pulled.papers)  left == Tail(pulled.papers) IN
       /\ IF Refused(n, p) THEN Decline(wire, posts) ELSE Accept(n, p, wire, posts)
       /\ pulled' = IF left = <<>> THEN NoPull ELSE [pulled EXCEPT !.papers = left]
    /\ UNCHANGED <<errors, bans, open, down, job>> /\ NoEvent

----------------------------------------------------------------------------
(* Commands that read the documents of a site and post them to another. *)

NoJob == [papers |-> <<>>, strict |-> FALSE]

\* req2fwd: identity by identity.  A revocation that is refused ends what is done for its identity.
IdentityDocuments(n, s, revoked) ==
    <<Idty(s)>> \o SetToSeq(Revocations(n, revoked \cap {s})) \o OfKind(n, "cert", {s}) \o OfKind(n, "ms", {s})

StartJob(to, papers, strict) ==
    /\ job = NoJob /\ papers # <<>> /\ to \in HttpSite
    /\ Incident
    /\ job' = [to |-> to, papers |-> papers, strict |-> strict]
    /\ UNCHANGED <<holds, wire, posts, errors, bans, open, down, pulled, unsent, missed>>

Has(n, s) == Idty(s) \in holds[n] \/ s \in MemberSubject

\* import: the identities that match a search, whatever their certifications.
Import(n, s, to) == Has(n, s) /\ StartJob(to, IdentityDocuments(n, s, {s} \ MemberSubject), TRUE)

\* crawl-lookup
CrawlLookup(n, s, to) == s \in Listed(n, LookupSig) /\ StartJob(to, IdentityDocuments(n, s, PendingAbove(n, LookupSig)), TRUE)

\* sync-mempool-fwd: like applyMempoolRequirements.
SyncMempoolForward(n, s, to) == Has(n, s) /\ StartJob(to, DocumentsTree(n, {s}, {s} \ MemberSubject), FALSE)

\* import-lookup: without revocations.
ImportLookup(n, s, to) == Has(n, s) /\ StartJob(to, IdentityDocuments(n, s, {}), FALSE)

\* fwd-pending-ms
ForwardPendingMs(n, to) == StartJob(to, OfKind(n, "ms", Subject), FALSE)

\* The papers of a strict job are all of one identity.
SkipIdentity == <<>>

PostOfJob ==
    /\ job # NoJob
    /\ LET p == Head(job.papers)
           left == IF job.strict /\ p.kind = "rev" /\ Refused(job.to, p) THEN SkipIdentity ELSE Tail(job.papers) IN
       /\ IF Refused(job.to, p) THEN Decline(wire, posts) ELSE Accept(job.to, p, wire, posts)
       /\ job' = IF left = <<>> THEN NoJob ELSE [job EXCEPT !.papers = left]
    /\ UNCHANGED <<errors, bans, open, down, pulled>> /\ NoEvent

----------------------------------------------------------------------------
GossipInit ==
    /\ \E x \in Scenarios : links = x.links /\ offered = x.papers
    /\ open = links /\ bans = [n \in Site |-> {}] /\ down = [n \in Site |-> {}]
    /\ holds = [n \in Site |-> {}] /\ wire = {} /\ posts = {} /\ missed = {}
    /\ errors = [n \in Site |-> [k \in Paper \X Site |-> 0]]
    /\ unsent = [n \in Site |-> {}] /\ pulled = NoPull /\ job = NoJob /\ events = 0

Commands ==
    \E n \in Site, to \in HttpSite :
        \/ \E s \in Subject :
            Import(n, s, to) \/ CrawlLookup(n, s, to) \/ SyncMempoolForward(n, s, to) \/ ImportLookup(n, s, to)
        \/ ForwardPendingMs(n, to)

GossipNext ==
    \/ \E n \in Site, p \in Paper : SubmitPaper(n, p) \/ ForgetError(n, p)
    \/ \E m \in wire : Receives(m)
    \/ \E n \in Site : \E chosen \in SUBSET LinksOf(n) : PushPendingTransactions(n, chosen)
    \/ \E c \in Link : CutLink(c) \/ Connect(c)
    \/ \E q \in posts : DeliverPost(q) \/ Unreachable(q)
    \/ \E n, m \in Site : PeerIsUp(n, m) \/ SandboxPull(n, m)
    \/ \E n \in Site, c \in Link : PullDocpool(n, c)
    \/ ApplyPulled \/ Commands \/ PostOfJob

GossipSpec == GossipInit /\ [][GossipNext]_gossipVars

----------------------------------------------------------------------------
(* Properties. *)

\* Nodes that run this program do not ban each other (WS2PServerMessageHandler.ts:103-146): the copies of a document that
\* a node gets of another one, over two connections, back from the receiver, and again from the mempool, stay below the
\* number of errors that bans.
NoHonestBan == \A n \in Site : bans[n] = {}

\* What the docpool pulls carry (WS2PReqMapperByServer.ts:60-89): the documents of a pending identity that has
\* certifications in the sandbox; of a member, certifications and memberships, and the revocation when there is a row of
\* it with certifications.
Carried(n, p) ==
    \/ p.kind \in {"cert", "ms"} /\ p.about \in MemberSubject
    \/ p.kind # "tx" /\ p.about \in PendingAbove(n, MinSig)

AtRest ==
    /\ wire = {} /\ posts = {} /\ pulled = NoPull /\ open = links
    /\ \A c \in links : \A n \in Ends[c] : NewFor(n, OtherEnd(c, n)) = {}

\* A document that a node has is at the other end of each of its connections when nothing is under way any more, the
\* connections cut are back, and no pull would bring anything; unless a connection missed it and the pulls from that node
\* cannot carry it (a revocation is never read from a push).
SpreadAtRest ==
    AtRest => \A c \in links : \A n \in Ends[c] : \A p \in holds[n] :
        p \in holds[OtherEnd(c, n)] \/ (p \in missed /\ ~Carried(n, p))

\* The two together: what honest nodes accept goes everywhere, and none of them is banned for it.
DocumentsSpread == NoHonestBan /\ SpreadAtRest
=============================================================================
