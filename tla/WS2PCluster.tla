----------------------------- MODULE WS2PCluster -----------------------------
(***************************************************************************)
(* The places of a node: connections it serves (level 2) and connections   *)
(* it made (level 1).  Keys are allowed one by one, while others are, and   *)
(* the excess is trimmed by tasks that await between what they read and     *)
(* what they close.                                                        *)
(***************************************************************************)
EXTENDS Integers, FiniteSetsExt, SequencesExt

CONSTANTS Key,          \* the nodes around, by their keys
          Own,          \* its siblings: nodes of its own key, each told by its uuid
          MemberKey,    \* members
          Prefered,     \* preferedNodes and privilegedNodes
          MaxPrivate,   \* maxLevel1Size
          MaxPublic,    \* maxLevel2Peers
          BundleSize,   \* INITIAL_CONNECTION_PEERS_BUNDLE_SIZE
          MaxConns,     \* bound: connections, one less while a key is banned
          MaxBans       \* bound: keys banned at once

ASSUME ClusterAssumption ==
    /\ IsFiniteSet(Key) /\ Own \subseteq Key /\ MemberKey \subseteq Key /\ Prefered \subseteq Key
    /\ {MaxPrivate, MaxPublic, BundleSize, MaxConns, MaxBans} \subseteq Nat

VARIABLES
    served,     \* connections of WS2PServer, in order
    clients,    \* ws2pClients
    attempts,   \* connections being negotiated
    crawl,      \* connectToWS2Peers: peers left, the own one among them or not, countPublicNodesWithSameKey, and
                \* whether a bundle is being connected
    tasks,      \* trimming tasks
    failed,     \* the last client trimming threw
    banned,
    made        \* connections so far

clusterVars == <<served, clients, attempts, crawl, tasks, failed, banned, made>>

Id == 1..MaxConns
Connection == [id : Id, key : Key]

\* keyPriorityLevel
KeyPriorityLevel(k) == (IF k \in MemberKey THEN 1 ELSE 0) + (IF k \in Prefered THEN 2 ELSE 0) + (IF k \in Own THEN 4 ELSE 0)
Keys(cs) == {c.key : c \in cs}
Served == ToSet(served)
ClientsCount == Cardinality(Keys(clients) \ Own)
NumberOfConnectedPublicNodesWithSameKey == Cardinality({c \in clients : c.key \in Own})
CountConnexions == Cardinality({c \in Served : c.key \notin Own})
Lowest(cs) == {c \in cs : \A d \in cs : KeyPriorityLevel(c.key) <= KeyPriorityLevel(d.key)}
\* Connections that may be made.
Bound == IF banned = {} THEN MaxConns ELSE MaxConns - 1
Started == made < Bound /\ made' = made + 1

----------------------------------------------------------------------------
(* acceptPubkey, asked twice of a connection: for CONNECT and for ACK; the OK comes later. *)

Accepts(k, connected, count, max) ==
    k \notin banned /\ k \notin connected
    /\ (count < max \/ \E c \in connected : KeyPriorityLevel(k) > KeyPriorityLevel(c))

\* The keys that a server looks at are those it serves, a client all of them; a sibling is refused only if its uuid
\* is that of a client, which connections it serves do not tell.
AcceptPubkey(a) ==
    IF a.way = "in"
    THEN a.key \in Own \/ Accepts(a.key, Keys(Served), CountConnexions, MaxPublic)
    ELSE IF a.key \in Own THEN a.key \notin Keys(clients)
    ELSE Accepts(a.key, Keys(clients \cup Served), ClientsCount, MaxPrivate)

Incoming(k) ==
    /\ Started
    /\ attempts' = attempts \cup {[id |-> made', key |-> k, way |-> "in", asked |-> 0]}
    /\ UNCHANGED <<served, clients, crawl, tasks, failed, banned>>

Allow(a) ==
    /\ a.asked < 2 /\ AcceptPubkey(a)
    /\ attempts' = (attempts \ {a}) \cup {[a EXCEPT !.asked = @ + 1]}
    /\ UNCHANGED <<served, clients, crawl, tasks, failed, banned, made>>

\* A refusal, a timeout or a lost socket.
GiveUp(a) ==
    /\ attempts' = attempts \ {a}
    /\ UNCHANGED <<served, clients, crawl, tasks, failed, banned, made>>

\* mutant: duplicates stay
KeepDuplicates(cs) == cs

\* removeDuplicateConnections: the loop goes on with the list it cuts.
RemoveDuplicates(cs) ==
    LET again == {i \in DOMAIN cs : cs[i].key \notin Own /\ \E j \in 1..i - 1 : cs[j].key = cs[i].key} IN
    IF again = {} THEN cs ELSE RemoveAt(cs, Min(again))

\* removeConnection of the server: nothing for a connection that left already.
Spliced(cs, id) ==
    IF \E i \in DOMAIN cs : cs[i].id = id THEN RemoveAt(cs, CHOOSE i \in DOMAIN cs : cs[i].id = id) ELSE cs

NewTask(kind, id) == [kind |-> kind, id |-> id, pick |-> 0, left |-> {}, keys |-> {}]

\* The handler of "connection" after connect.
Connected(a) ==
    /\ a.way = "in" /\ a.asked = 2
    /\ attempts' = attempts \ {a}
    /\ served' = RemoveDuplicates(Append(served, [id |-> a.id, key |-> a.key]))
    /\ tasks' = tasks \cup {NewTask("server", a.id)}
    /\ UNCHANGED <<clients, crawl, failed, banned, made>>

\* connectToRemoteWS, by the flow of documents when the peer comes alone.
ConnectToRemoteWS(a) ==
    /\ a.way \in {"bundle", "flow"} /\ a.asked = 2
    /\ attempts' = attempts \ {a}
    /\ clients' = clients \cup {[id |-> a.id, key |-> a.key]}
    /\ tasks' = IF a.way = "flow" THEN tasks \cup {NewTask("client", a.id)} ELSE tasks
    /\ UNCHANGED <<served, crawl, failed, banned, made>>

\* listenServerFlow: a peer document with an endpoint.
ListenServerFlow(k) ==
    /\ AcceptPubkey([way |-> "flow", key |-> k]) /\ Started
    /\ attempts' = attempts \cup {[id |-> made', key |-> k, way |-> "flow", asked |-> 0]}
    /\ UNCHANGED <<served, clients, crawl, tasks, failed, banned>>

----------------------------------------------------------------------------
(* connectToWS2Peers: by bundles, the own peer first, then the prefered ones. *)

NoCrawl == [left |-> {}, own |-> FALSE, siblings |-> 1, busy |-> FALSE]
Before(k, o) == k \in Prefered /\ o \notin Prefered

\* A full server lets one go.  The peer of the own key is in the table or not.
ConnectToWS2Peers ==
    /\ crawl = NoCrawl /\ made < Bound
    /\ \E own \in BOOLEAN : crawl' = [left |-> Key \ Own, own |-> own, siblings |-> 1, busy |-> FALSE]
    /\ tasks' = IF CountConnexions = MaxPublic /\ served # <<>> THEN tasks \cup {NewTask("once", made)} ELSE tasks
    /\ UNCHANGED <<served, clients, attempts, failed, banned, made>>

\* Before the own peer was looked at, as if one sibling was awaited.
GoesOn ==
    \/ ClientsCount < MaxPrivate
    \/ NumberOfConnectedPublicNodesWithSameKey < crawl.siblings

\* The own peer gives the siblings it has an endpoint of.
Bundle ==
    /\ (crawl.left # {} \/ crawl.own) /\ ~crawl.busy /\ GoesOn
    /\ \E ks \in kSubset(Min({BundleSize - (IF crawl.own THEN 1 ELSE 0), Cardinality(crawl.left)}), crawl.left),
          ss \in IF crawl.own THEN SUBSET Own ELSE {{}} :
         LET order == SetToSeq(ks \cup ss) IN
         /\ \A k \in ks, o \in crawl.left \ ks : ~Before(o, k)
         /\ made' = made + Len(order) /\ made' <= Bound
         /\ attempts' = attempts \cup
              {[id |-> made + i, key |-> order[i], way |-> "bundle", asked |-> 0] : i \in DOMAIN order}
         /\ crawl' = [left |-> crawl.left \ ks, own |-> FALSE, busy |-> TRUE,
                      siblings |-> IF crawl.own THEN Cardinality(ss) ELSE crawl.siblings]
    /\ UNCHANGED <<served, clients, tasks, failed, banned>>

\* All the attempts of the bundle ended: a timer is set to trim.
EndBundle ==
    /\ crawl.busy /\ \A a \in attempts : a.way # "bundle"
    /\ crawl' = IF crawl.left = {} THEN NoCrawl ELSE [crawl EXCEPT !.busy = FALSE]
    /\ tasks' = tasks \cup {NewTask("client", made)}
    /\ UNCHANGED <<served, clients, attempts, failed, banned, made>>

EndCrawl ==
    /\ (crawl.left # {} \/ crawl.own) /\ ~crawl.busy /\ ~GoesOn
    /\ crawl' = NoCrawl
    /\ UNCHANGED <<served, clients, attempts, tasks, failed, banned, made>>

----------------------------------------------------------------------------
(* Trimming the server: the lowest is chosen, then closed. *)

Update(t, u) == (tasks \ {t}) \cup {u}

RemoveLowPriorityConnection(t) ==
    /\ t.kind \in {"server", "once"} /\ t.pick = 0
    /\ IF served # <<>> /\ (t.kind = "once" \/ CountConnexions > MaxPublic)
       THEN \E c \in Lowest(Served) : tasks' = Update(t, [t EXCEPT !.pick = c.id])
       ELSE tasks' = tasks \ {t}
    /\ UNCHANGED <<served, clients, attempts, crawl, failed, banned, made>>

RemoveConnection(t) ==
    /\ t.kind \in {"server", "once"} /\ t.pick # 0
    /\ served' = Spliced(served, t.pick)
    /\ tasks' = IF t.kind = "once" THEN tasks \ {t} ELSE Update(t, [t EXCEPT !.pick = 0])
    /\ UNCHANGED <<clients, attempts, crawl, failed, banned, made>>

----------------------------------------------------------------------------
(* Trimming the clients: removeLowPriorityConnections. *)

ClientIds == {c.id : c \in clients}
ClientOf(id) == CHOOSE c \in clients : c.id = id
Public(t, id) == ClientOf(id).key \in t.keys \ Own

\* The keys that the server has at that time, and the ids to look at for a place already taken there.
BeginTrim(t) ==
    /\ t.kind = "client"
    /\ tasks' = Update(t, [t EXCEPT !.kind = "public", !.left = ClientIds, !.keys = Keys(Served)]) /\ failed' = FALSE
    /\ UNCHANGED <<served, clients, attempts, crawl, banned, made>>

Throw(t) == failed' = TRUE /\ tasks' = tasks \ {t}

\* Ids are looked at in any order up to one to close; one that is gone throws.
TrimPublic(t) ==
    /\ t.kind = "public"
    /\ \E seen \in SUBSET t.left :
         \/ \E id \in seen : id \notin ClientIds /\ Throw(t)
         \/ /\ seen \subseteq ClientIds /\ \A id \in seen : ~Public(t, id)
            /\ \/ seen = t.left /\ tasks' = Update(t, [t EXCEPT !.kind = "count", !.left = {}, !.keys = {}])
               \/ \E id \in (t.left \ seen) \cap ClientIds :
                    /\ Public(t, id)
                    /\ tasks' = Update(t, [t EXCEPT !.kind = "waitPublic", !.pick = id, !.left = t.left \ (seen \cup {id})])
            /\ UNCHANGED failed
    /\ UNCHANGED <<served, clients, attempts, crawl, banned, made>>

\* Too many: the priorities are read one by one.
TrimCount(t) ==
    /\ t.kind = "count"
    /\ IF ClientsCount > MaxPrivate
       THEN \E c \in Lowest(clients) : tasks' = Update(t, [t EXCEPT !.kind = "scan", !.pick = c.id, !.left = ClientIds])
       ELSE tasks' = tasks \ {t}
    /\ UNCHANGED <<served, clients, attempts, crawl, failed, banned, made>>

\* One that vanished before its turn throws, and so does the one chosen; another may have had its turn.
TrimScan(t) ==
    /\ t.kind = "scan"
    /\ \/ ~(t.left \subseteq ClientIds) /\ Throw(t)
       \/ /\ t.pick \in ClientIds
          /\ tasks' = Update(t, [t EXCEPT !.kind = "wait", !.left = {}]) /\ UNCHANGED failed
    /\ UNCHANGED <<served, clients, attempts, crawl, banned, made>>

\* The event of the socket came.
TrimGoesOn(t) ==
    /\ t.kind \in {"waitPublic", "wait"} /\ t.pick \notin ClientIds
    /\ tasks' = Update(t, [t EXCEPT !.kind = IF @ = "wait" THEN "count" ELSE "public", !.pick = 0])
    /\ UNCHANGED <<served, clients, attempts, crawl, failed, banned, made>>

----------------------------------------------------------------------------
(* Ends of connections, by any end. *)

ClientClosed(c) ==
    /\ clients' = clients \ {c}
    /\ UNCHANGED <<served, attempts, crawl, tasks, failed, banned, made>>

ServedClosed(c) ==
    /\ served' = Spliced(served, c.id)
    /\ UNCHANGED <<clients, attempts, crawl, tasks, failed, banned, made>>

\* Its clients are closed, which their events tell like any end.
BanConnection(k) ==
    /\ made < MaxConns /\ Cardinality(banned) < MaxBans /\ k \in Keys(clients \cup Served) \ Own
    /\ banned' = banned \cup {k}
    /\ UNCHANGED <<served, clients, attempts, crawl, tasks, failed, made>>

Unban(k) ==
    /\ k \in banned /\ banned' = banned \ {k}
    /\ UNCHANGED <<served, clients, attempts, crawl, tasks, failed, made>>

----------------------------------------------------------------------------
ClusterInit ==
    /\ served = <<>> /\ clients = {} /\ attempts = {}
    /\ crawl = NoCrawl /\ tasks = {} /\ failed = FALSE
    /\ banned = {} /\ made = 0

ClusterNext ==
    \/ \E k \in Key : Incoming(k) \/ ListenServerFlow(k) \/ BanConnection(k) \/ Unban(k)
    \/ \E a \in attempts : Allow(a) \/ GiveUp(a) \/ Connected(a) \/ ConnectToRemoteWS(a)
    \/ ConnectToWS2Peers \/ Bundle \/ EndBundle \/ EndCrawl
    \/ \E t \in tasks :
         \/ RemoveLowPriorityConnection(t) \/ RemoveConnection(t) \/ BeginTrim(t) \/ TrimPublic(t)
         \/ TrimCount(t) \/ TrimScan(t) \/ TrimGoesOn(t)
    \/ \E c \in clients : ClientClosed(c)
    \/ \E c \in Served : ServedClosed(c)

ClusterSpec == ClusterInit /\ [][ClusterNext]_clusterVars

----------------------------------------------------------------------------
ClusterTypeOK ==
    /\ served \in Seq(Connection) /\ clients \subseteq Connection
    /\ attempts \subseteq [id : Id, key : Key, way : {"in", "bundle", "flow"}, asked : 0..2]
    /\ crawl \in [left : SUBSET Key, own : BOOLEAN, siblings : Nat, busy : BOOLEAN] /\ failed \in BOOLEAN
    /\ tasks \subseteq [kind : {"server", "once", "client", "public", "waitPublic", "count", "scan", "wait"},
                       id : 0..MaxConns, pick : 0..MaxConns, left : SUBSET Id, keys : SUBSET Key]
    /\ banned \subseteq Key /\ made \in 0..MaxConns

\* An excess of connections never stays unnoticed: someone is at work on it, or the last trimming of
\* the clients threw on a connection that another one closed under its eyes.  No key is served twice.
PlacesKept ==
    /\ CountConnexions > MaxPublic => \E t \in tasks : t.kind = "server"
    /\ ClientsCount > MaxPrivate => failed \/ crawl.busy \/ \E t \in tasks : t.kind \notin {"server", "once"}
    /\ \A c, d \in Served : c.key = d.key /\ c.key \notin Own => c = d
=============================================================================
