----------------------------- MODULE WS2PHeads -----------------------------
(***************************************************************************)
(* The heads of the network: every node tells the others the block it is   *)
(* on, and passes on what it learns.  A head received is compared with the  *)
(* one cached, then checked against the members and the blocks while other  *)
(* heads come, then cached and buffered until a timer spreads the buffer.   *)
(***************************************************************************)
EXTENDS Integers, FiniteSetsExt

CONSTANTS HeadNode,     \* nodes
          Wire,         \* connections: sets of two nodes
          OldNode,      \* nodes whose heads have no V2 message
          NoHead,
          Mover,        \* bound: nodes whose chain moves
          MaxBlock,     \* bound: number of the last block
          MaxSpreads    \* bound: times heads are spread

ASSUME HeadsAssumption ==
    /\ OldNode \subseteq HeadNode /\ Mover \subseteq HeadNode /\ Wire \subseteq SUBSET HeadNode
    /\ MaxBlock \in Nat \ {0} /\ MaxSpreads \in Nat

VARIABLES
    onBlock,        \* current block of each node
    member,         \* keys that are members
    headsCache,     \* headsCache: head of each node, as a node knows it
    memberkeys,     \* memberkeysCache
    blockstamps,    \* blockstampsCache
    received,       \* heads compared, whose checks are awaited
    newHeads,       \* newHeads: the buffer
    headsTimeout,   \* the timer of the buffer is set
    sent,           \* heads on the wire
    asked,          \* getKnownHeads at work: the block it read
    spreads         \* times heads were spread

headsVars == <<onBlock, member, headsCache, memberkeys, blockstamps, received, newHeads, headsTimeout, sent, asked, spreads>>

HeadBlock == 1..MaxBlock
HeadInfo == [block : HeadBlock, step : Nat]
Neighbours(n) == {m \in HeadNode : {n, m} \in Wire /\ m # n}

\* From m to n by k connections, or less.
Within(m, n, k) ==
    \E path \in [0..k -> HeadNode] :
        /\ path[0] = m /\ path[k] = n
        /\ \A i \in 1..k : path[i] = path[i - 1] \/ path[i] \in Neighbours(path[i - 1])

----------------------------------------------------------------------------
(* Receiving. *)

\* Unknown, more recent or closer.
Better(h, known) ==
    \/ known = NoHead
    \/ known.block < h.block
    \/ known.block = h.block /\ h.step < known.step

\* headReceived up to its first await; a head that only has a V1 message is awaited before the timer is set.
Compared(n, id, h) ==
    IF Better(h, headsCache[n][id])
    THEN received \cup {[at |-> n, id |-> id, head |-> h, seen |-> headsCache[n][id],
                         stage |-> IF id = n \/ id \in Neighbours(n) THEN "block" ELSE "member"]}
    ELSE received
HeadsReceived(n, id, h) ==
    /\ received' = Compared(n, id, h)
    /\ headsTimeout' = [headsTimeout EXCEPT ![n] = @ \/ id \notin OldNode \/ received' = received]

Deliver(m) ==
    /\ HeadsReceived(m.to, m.id, m.head) /\ sent' = sent \ {m}
    /\ UNCHANGED <<onBlock, member, headsCache, memberkeys, blockstamps, newHeads, asked, spreads>>

Lose(m) ==
    /\ sent' = sent \ {m}
    /\ UNCHANGED <<onBlock, member, headsCache, memberkeys, blockstamps, received, newHeads, headsTimeout, asked, spreads>>

\* The end of the awaited reception sets the timer.
Ended(r) == headsTimeout' = [headsTimeout EXCEPT ![r.at] = @ \/ r.id \in OldNode]

\* isMemberKey: a key once a member is one for ever.
IsMemberKey(r) ==
    /\ r.stage = "member"
    /\ IF r.id \in memberkeys[r.at] \cup member
       THEN /\ received' = (received \ {r}) \cup {[r EXCEPT !.stage = "block"]}
            /\ memberkeys' = [memberkeys EXCEPT ![r.at] = @ \cup {r.id}]
            /\ UNCHANGED headsTimeout
       ELSE received' = received \ {r} /\ Ended(r) /\ UNCHANGED memberkeys
    /\ UNCHANGED <<onBlock, member, headsCache, blockstamps, newHeads, sent, asked, spreads>>

\* existsBlock: a stamp asked once is taken for a block we have.
ExistsBlock(n, b) == b \in blockstamps[n] \/ b <= onBlock[n]

\* The head is cached without another look at the cache.
Cache(r) ==
    /\ r.stage = "block"
    /\ received' = received \ {r} /\ Ended(r)
    /\ blockstamps' = [blockstamps EXCEPT ![r.at] = @ \cup {r.head.block}]
    /\ IF ExistsBlock(r.at, r.head.block)
       THEN /\ headsCache' = [headsCache EXCEPT ![r.at][r.id] = r.head]
            /\ newHeads' = [newHeads EXCEPT ![r.at] = @ \cup {[id |-> r.id, head |-> r.head]}]
       ELSE UNCHANGED <<headsCache, newHeads>>
    /\ UNCHANGED <<onBlock, member, memberkeys, sent, asked, spreads>>

----------------------------------------------------------------------------
(* Spreading. *)

\* mutant: the heads are passed on as they came
SpreadUnchanged(n, heads) ==
    {[to |-> m, id |-> x.id, head |-> x.head] : m \in Neighbours(n), x \in heads}

\* Every connection gets them, one step further.
Spread(n, heads) ==
    {[to |-> m, id |-> x.id, head |-> [x.head EXCEPT !.step = @ + 1]] : m \in Neighbours(n), x \in heads}

SpreadNewHeads(n) ==
    /\ headsTimeout[n] /\ headsTimeout' = [headsTimeout EXCEPT ![n] = FALSE]
    /\ newHeads' = [newHeads EXCEPT ![n] = {}]
    /\ sent' = sent \cup Spread(n, newHeads[n])
    /\ spreads < MaxSpreads /\ spreads' = spreads + 1
    /\ UNCHANGED <<onBlock, member, headsCache, memberkeys, blockstamps, received, asked>>

\* The node is on a new block: it receives its own head, and spreads it at once.
HeadChanged(n) ==
    /\ onBlock[n] < MaxBlock /\ onBlock' = [onBlock EXCEPT ![n] = @ + 1]
    /\ LET h == [block |-> onBlock[n] + 1, step |-> 0] IN
       /\ HeadsReceived(n, n, h)
       /\ sent' = sent \cup Spread(n, {[id |-> n, head |-> h]})
       /\ spreads < MaxSpreads /\ spreads' = spreads + 1
       /\ blockstamps' = [blockstamps EXCEPT ![n] = @ \cup {h.block}]
    /\ UNCHANGED <<member, headsCache, memberkeys, newHeads, asked>>

\* getKnownHeads makes the head of the node when it has none: it reads the block, then writes.
GetKnownHeads(n) ==
    /\ headsCache[n][n] = NoHead /\ onBlock[n] > 0 /\ asked[n] = 0
    /\ asked' = [asked EXCEPT ![n] = onBlock[n]]
    /\ UNCHANGED <<onBlock, member, headsCache, memberkeys, blockstamps, received, newHeads, headsTimeout, sent, spreads>>

OwnHeadMade(n) ==
    /\ asked[n] > 0 /\ asked' = [asked EXCEPT ![n] = 0]
    /\ headsCache' = [headsCache EXCEPT ![n][n] = [block |-> asked[n], step |-> 0]]
    /\ UNCHANGED <<onBlock, member, memberkeys, blockstamps, received, newHeads, headsTimeout, sent, spreads>>

Excluded(k) ==
    /\ k \in member /\ member' = member \ {k}
    /\ UNCHANGED <<onBlock, headsCache, memberkeys, blockstamps, received, newHeads, headsTimeout, sent, asked, spreads>>

HeadsInit ==
    /\ onBlock \in [HeadNode -> 0..MaxBlock - 1] /\ spreads = 0 /\ member = HeadNode
    /\ headsCache = [n \in HeadNode |-> [m \in HeadNode |-> NoHead]]
    /\ memberkeys = [n \in HeadNode |-> {}] /\ blockstamps = [n \in HeadNode |-> {}]
    /\ received = {} /\ newHeads = [n \in HeadNode |-> {}]
    /\ headsTimeout = [n \in HeadNode |-> FALSE] /\ sent = {} /\ asked = [n \in HeadNode |-> 0]

HeadsNext ==
    \/ \E m \in sent : Deliver(m) \/ Lose(m)
    \/ \E r \in received : IsMemberKey(r) \/ Cache(r)
    \/ \E n \in HeadNode : SpreadNewHeads(n) \/ OwnHeadMade(n)
    \/ \E n \in Mover : HeadChanged(n) \/ GetKnownHeads(n) \/ Excluded(n)

HeadsSpec == HeadsInit /\ [][HeadsNext]_headsVars

----------------------------------------------------------------------------
HeadsTypeOK ==
    /\ onBlock \in [HeadNode -> 0..MaxBlock] /\ member \subseteq HeadNode
    /\ headsCache \in [HeadNode -> [HeadNode -> HeadInfo \cup {NoHead}]]
    /\ memberkeys \in [HeadNode -> SUBSET HeadNode] /\ blockstamps \in [HeadNode -> SUBSET HeadBlock]
    /\ received \subseteq [at : HeadNode, id : HeadNode, head : HeadInfo, seen : HeadInfo \cup {NoHead}, stage : {"member", "block"}]
    /\ newHeads \in [HeadNode -> SUBSET [id : HeadNode, head : HeadInfo]]
    /\ headsTimeout \in [HeadNode -> BOOLEAN]
    /\ sent \subseteq [to : HeadNode, id : HeadNode, head : HeadInfo] /\ asked \in [HeadNode -> 0..MaxBlock]
    /\ spreads \in 0..MaxSpreads

\* The heads a node knows are of blocks their issuers had, and come through as many steps as the network
\* needs; one is replaced by a newer or closer one, unless the entry is no longer the one it was compared
\* to, or is the node's own, remade while it changed.
HeadsAdvance ==
    [][\A n, i \in HeadNode : headsCache'[n][i] # headsCache[n][i] =>
        LET h == headsCache'[n][i] IN
        /\ h.block <= onBlock[i] /\ Within(i, n, h.step)
        /\ \/ Better(h, headsCache[n][i])
           \/ \E r \in received \ received' : r.at = n /\ r.id = i /\ r.seen # headsCache[n][i]
           \/ i = n /\ asked[n] > 0]_headsVars
=============================================================================
