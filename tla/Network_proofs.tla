--------------------------- MODULE Network_proofs ---------------------------
(***************************************************************************)
(* What nodes know of each other goes forward: the heads that they forward, *)
(* for any nodes and connections, however heads are delayed, lost, reordered *)
(* and checked; the table of peers, for any keys, limit and order of the     *)
(* documents and connections; and the blocks it pulls, for any chains,       *)
(* window and sizes of chunks.  And a node keeps to the places it has, for   *)
(* any keys and limits.                                                     *)
(*                                                                         *)
(* The property of the heads speaks of each change of the cache.  Its        *)
(* invariant follows a head from its issuer: wherever it is (on a            *)
(* connection, awaiting a check, buffered), it is of a block that its issuer *)
(* had, and its steps tell a way from there; and one that awaits its checks  *)
(* was better than what it was compared with.                              *)
(*                                                                         *)
(* The invariant of the peers follows the rows that are read, changed and    *)
(* saved again: a writer of a key puts back or replaces the row it read; and *)
(* it counts the keys that have a row, that are being saved or that were     *)
(* given room.                                                              *)
(*                                                                         *)
(* The invariant of the pulls says where the last common block is, at every  *)
(* step of a pull during which neither chain moved.                        *)
(*                                                                         *)
(* The invariant of the places says who is at work on an excess, from the   *)
(* attempts that may become connections on: a bundle is busy as long as one *)
(* of its attempts lasts, and a task ends only where nothing is left to do. *)
(***************************************************************************)
EXTENDS WS2PCluster, WS2PHeads, Peering, Pulling, FiniteSetTheorems, SequenceTheorems, WellFoundedInduction, TLAPS

-----------------------------------------------------------------------------
(***************************************************************************)
(* The heads of the other nodes.                                           *)
(***************************************************************************)
\* The head of i, as n has it, is of a block that i had, and came through as many connections as it says.
Told(i, n, h) == h.block <= onBlock[i] /\ Within(i, n, h.step)

HeadsTold ==
    /\ \A m \in sent : Told(m.id, m.to, m.head)
    /\ \A r \in received : Told(r.id, r.at, r.head)
    /\ \A n \in HeadNode : \A x \in newHeads[n] : Told(x.id, n, x.head)
    /\ \A n \in HeadNode : asked[n] <= onBlock[n]

WereBetter == \A r \in received : Better(r.head, r.seen)

HeadsInv == HeadsTypeOK /\ HeadsTold /\ WereBetter

\* A change of one entry of a cache, as HeadsAdvance wants it.
Advance(n, i) ==
    headsCache'[n][i] # headsCache[n][i] =>
        LET h == headsCache'[n][i] IN
        /\ Told(i, n, h)
        /\ \/ Better(h, headsCache[n][i])
           \/ \E r \in received \ received' : r.at = n /\ r.id = i /\ r.seen # headsCache[n][i]
           \/ i = n /\ asked[n] > 0

----------------------------------------------------------------------------
(* Ways between nodes. *)

LEMMA NoStep == ASSUME NEW n \in HeadNode PROVE Within(n, n, 0)
<1> DEFINE path == [j \in 0..0 |-> n]
<1>1. path \in [0..0 -> HeadNode] /\ path[0] = n
  OBVIOUS
<1>2. \A i \in 1..0 : path[i] = path[i - 1] \/ path[i] \in Neighbours(path[i - 1])
  OBVIOUS
<1> QED BY <1>1, <1>2 DEF Within

LEMMA OneStepFurther ==
    ASSUME NEW i \in HeadNode, NEW n \in HeadNode, NEW k \in Nat, Within(i, n, k), NEW m \in Neighbours(n)
    PROVE  Within(i, m, k + 1)
<1>1. PICK p \in [0..k -> HeadNode] :
        /\ p[0] = i /\ p[k] = n
        /\ \A j \in 1..k : p[j] = p[j - 1] \/ p[j] \in Neighbours(p[j - 1])
  BY DEF Within
<1> DEFINE path == [j \in 0..(k + 1) |-> IF j = k + 1 THEN m ELSE p[j]]
<1>2. m \in HeadNode
  BY DEF Neighbours
<1>3. path \in [0..(k + 1) -> HeadNode] /\ path[0] = i /\ path[k + 1] = m /\ path[k] = n
  BY <1>1, <1>2
<1>4. ASSUME NEW j \in 1..(k + 1) PROVE path[j] = path[j - 1] \/ path[j] \in Neighbours(path[j - 1])
  <2>1. CASE j = k + 1
    BY <1>3, <2>1
  <2>2. CASE j # k + 1
    <3>1. j \in 1..k /\ j - 1 \in 0..k /\ path[j] = p[j] /\ path[j - 1] = p[j - 1]
      BY <2>2
    <3> QED BY <1>1, <3>1
  <2> QED BY <2>1, <2>2
<1> QED BY <1>3, <1>4 DEF Within

\* A head spread by a node is told to its neighbours.
LEMMA SpreadTells ==
    ASSUME HeadsTypeOK, NEW n \in HeadNode, NEW heads \in SUBSET [id : HeadNode, head : HeadInfo],
           \A x \in heads : Told(x.id, n, x.head)
    PROVE  /\ Spread(n, heads) \subseteq [to : HeadNode, id : HeadNode, head : HeadInfo]
           /\ \A m \in Spread(n, heads) : Told(m.id, m.to, m.head)
<1> SUFFICES ASSUME NEW s \in Spread(n, heads)
             PROVE  s \in [to : HeadNode, id : HeadNode, head : HeadInfo] /\ Told(s.id, s.to, s.head)
  OBVIOUS
<1>1. PICK m \in Neighbours(n), x \in heads : s = [to |-> m, id |-> x.id, head |-> [x.head EXCEPT !.step = @ + 1]]
  BY DEF Spread
<1>2. /\ m \in HeadNode /\ x.id \in HeadNode /\ x.head \in HeadInfo /\ x.head.step \in Nat /\ x.head.block \in HeadBlock
  BY DEF Neighbours, HeadInfo
<1>3. /\ [x.head EXCEPT !.step = @ + 1] \in HeadInfo
      /\ [x.head EXCEPT !.step = @ + 1].block = x.head.block
      /\ [x.head EXCEPT !.step = @ + 1].step = x.head.step + 1
  BY <1>2 DEF HeadInfo
<1>4. s.to = m /\ s.id = x.id /\ s.head = [x.head EXCEPT !.step = @ + 1]
  BY <1>1
<1>5. Within(x.id, m, x.head.step + 1) /\ x.head.block <= onBlock[x.id]
  BY <1>2, OneStepFurther DEF Told
<1> QED BY <1>1, <1>2, <1>3, <1>4, <1>5 DEF Told

Reception == [at : HeadNode, id : HeadNode, head : HeadInfo, seen : HeadInfo \cup {NoHead}, stage : {"member", "block"}]

\* A head that is compared, if it is kept, is better than what it was compared with.
LEMMA ComparedBetter ==
    ASSUME HeadsTypeOK, NEW n \in HeadNode, NEW id \in HeadNode, NEW h \in HeadInfo
    PROVE  /\ Compared(n, id, h) \subseteq Reception
           /\ \A r \in Compared(n, id, h) : r \in received \/ (r.at = n /\ r.id = id /\ r.head = h /\ Better(r.head, r.seen))
<1>1. received \subseteq Reception /\ headsCache[n][id] \in HeadInfo \cup {NoHead}
  BY DEF HeadsTypeOK, Reception
<1>2. CASE Better(h, headsCache[n][id])
  <2> DEFINE new == [at |-> n, id |-> id, head |-> h, seen |-> headsCache[n][id],
                     stage |-> IF id = n \/ id \in Neighbours(n) THEN "block" ELSE "member"]
  <2>1. new \in Reception /\ new.at = n /\ new.id = id /\ new.head = h /\ new.seen = headsCache[n][id]
    BY <1>1 DEF Reception
  <2>2. Compared(n, id, h) = received \cup {new}
    BY <1>2 DEF Compared
  <2> QED BY <1>1, <1>2, <2>1, <2>2
<1>3. CASE ~Better(h, headsCache[n][id])
  BY <1>1, <1>3 DEF Compared
<1> QED BY <1>2, <1>3

\* The type of what a step leaves alone or only takes from.
LEMMA HeadsTypes == HeadsTypeOK =>
        /\ onBlock \in [HeadNode -> 0..MaxBlock] /\ onBlock \in [HeadNode -> Nat] /\ received \subseteq Reception
        /\ \A n \in HeadNode : newHeads[n] \in SUBSET [id : HeadNode, head : HeadInfo]
        /\ \A n \in HeadNode : \A x \in newHeads[n] : x.id \in HeadNode /\ x.head \in HeadInfo
        /\ \A r \in received : r.at \in HeadNode /\ r.id \in HeadNode /\ r.head \in HeadInfo
        /\ \A m \in sent : m.to \in HeadNode /\ m.id \in HeadNode /\ m.head \in HeadInfo
  BY HeadsAssumption DEF HeadsTypeOK, Reception

\* What is told stays told: the block of an issuer only goes up.
LEMMA StaysTold ==
    ASSUME HeadsInv, HeadsTypeOK', \A n \in HeadNode : onBlock[n] <= onBlock'[n],
           \A m \in sent' : m \in sent \/ Told(m.id, m.to, m.head)',
           \A r \in received' : r \in received \/ (Told(r.id, r.at, r.head)' /\ Better(r.head, r.seen)),
           \A n \in HeadNode : \A x \in newHeads'[n] : x \in newHeads[n] \/ Told(x.id, n, x.head)',
           \A n \in HeadNode : asked'[n] = asked[n] \/ asked'[n] <= onBlock'[n]
    PROVE  HeadsInv'
<1>1. ASSUME NEW i \in HeadNode, NEW n, NEW h \in HeadInfo, Told(i, n, h) PROVE Told(i, n, h)'
  <2>1. onBlock[i] \in Nat /\ onBlock'[i] \in Nat /\ h.block \in Nat
    BY HeadsTypes, HeadsAssumption DEF HeadsInv, HeadsTypeOK, HeadInfo, HeadBlock
  <2> QED BY <1>1, <2>1 DEF Told
<1>2. \A m \in sent' : Told(m.id, m.to, m.head)'
  BY <1>1, HeadsTypes DEF HeadsInv, HeadsTold
<1>3. \A r \in received' : Told(r.id, r.at, r.head)' /\ Better(r.head, r.seen)
  BY <1>1, HeadsTypes DEF HeadsInv, HeadsTold, WereBetter
<1>4. \A n \in HeadNode : \A x \in newHeads'[n] : Told(x.id, n, x.head)'
  BY <1>1, HeadsTypes DEF HeadsInv, HeadsTold
<1>5. ASSUME NEW n \in HeadNode PROVE asked'[n] <= onBlock'[n]
  <2>1. asked[n] \in Nat /\ onBlock[n] \in Nat /\ onBlock'[n] \in Nat /\ asked[n] <= onBlock[n]
    BY HeadsAssumption DEF HeadsInv, HeadsTypeOK, HeadsTold
  <2> QED BY <2>1
<1> QED BY <1>2, <1>3, <1>4, <1>5 DEF HeadsInv, HeadsTold, WereBetter, Told, Better

----------------------------------------------------------------------------
(* Receiving. *)

LEMMA DeliverStep == ASSUME HeadsInv, NEW m \in sent, Deliver(m) PROVE HeadsInv' /\ headsCache' = headsCache
<1> USE DEF HeadsInv
<1>1. m.to \in HeadNode /\ m.id \in HeadNode /\ m.head \in HeadInfo /\ Told(m.id, m.to, m.head)
  BY HeadsTypes DEF HeadsTold
<1>2. /\ received' = Compared(m.to, m.id, m.head) /\ sent' = sent \ {m}
      /\ headsTimeout' \in [HeadNode -> BOOLEAN]
      /\ UNCHANGED <<onBlock, member, headsCache, memberkeys, blockstamps, newHeads, asked, spreads>>
  BY DEF Deliver, HeadsReceived, HeadsTypeOK
<1>3. /\ received' \subseteq Reception
      /\ \A r \in received' : r \in received \/ (r.at = m.to /\ r.id = m.id /\ r.head = m.head /\ Better(r.head, r.seen))
  BY <1>1, <1>2, ComparedBetter
<1>4. HeadsTypeOK'
  BY <1>2, <1>3 DEF HeadsTypeOK, Reception
<1>5. Told(m.id, m.to, m.head)'
  BY <1>1, <1>2 DEF Told
<1>6. \A n \in HeadNode : onBlock[n] <= onBlock'[n]
  BY <1>2, HeadsTypes
<1>7. \A r \in received' : r \in received \/ (Told(r.id, r.at, r.head)' /\ Better(r.head, r.seen))
  BY <1>3, <1>5
<1> QED BY <1>2, <1>4, <1>6, <1>7, StaysTold

LEMMA LoseStep == ASSUME HeadsInv, NEW m \in sent, Lose(m) PROVE HeadsInv' /\ headsCache' = headsCache
<1>1. HeadsTypeOK' /\ \A n \in HeadNode : onBlock[n] <= onBlock'[n]
  BY HeadsTypes DEF HeadsInv, HeadsTypeOK, Lose
<1> QED BY <1>1, StaysTold DEF Lose

LEMMA IsMemberKeyStep == ASSUME HeadsInv, NEW r \in received, IsMemberKey(r) PROVE HeadsInv' /\ headsCache' = headsCache
<1> USE DEF HeadsInv
<1> DEFINE next == [r EXCEPT !.stage = "block"]
<1>1. r \in Reception /\ r.at \in HeadNode /\ r.id \in HeadNode /\ Told(r.id, r.at, r.head) /\ Better(r.head, r.seen)
  BY HeadsTypes DEF HeadsTold, WereBetter
<1>2. next \in Reception /\ next.at = r.at /\ next.id = r.id /\ next.head = r.head /\ next.seen = r.seen
  BY <1>1 DEF Reception
<1>3. /\ received' \subseteq received \cup {next}
      /\ headsTimeout' \in [HeadNode -> BOOLEAN] /\ memberkeys' \in [HeadNode -> SUBSET HeadNode]
      /\ UNCHANGED <<onBlock, member, headsCache, blockstamps, newHeads, sent, asked, spreads>>
  <2>1. CASE r.id \in memberkeys[r.at] \cup member
    <3>1. /\ received' = (received \ {r}) \cup {next} /\ headsTimeout' = headsTimeout
          /\ memberkeys' = [memberkeys EXCEPT ![r.at] = @ \cup {r.id}]
      BY <2>1 DEF IsMemberKey
    <3>2. received' \subseteq received \cup {next}
      BY <3>1
    <3> QED BY <1>1, <3>1, <3>2 DEF IsMemberKey, HeadsTypeOK
  <2>2. CASE r.id \notin memberkeys[r.at] \cup member
    <3>1. received' = received \ {r} /\ Ended(r) /\ memberkeys' = memberkeys
      BY <2>2 DEF IsMemberKey
    <3> QED BY <3>1 DEF IsMemberKey, Ended, HeadsTypeOK
  <2> QED BY <2>1, <2>2
<1>4. HeadsTypeOK'
  <2>1. received' \subseteq Reception
    BY <1>2, <1>3, HeadsTypes
  <2> QED BY <1>3, <2>1 DEF HeadsTypeOK, Reception
<1>5. Told(next.id, next.at, next.head)' /\ Better(next.head, next.seen)
  BY <1>1, <1>2, <1>3 DEF Told
<1>6. \A n \in HeadNode : onBlock[n] <= onBlock'[n]
  BY <1>3, HeadsTypes
<1>7. \A x \in received' : x \in received \/ (Told(x.id, x.at, x.head)' /\ Better(x.head, x.seen))
  BY <1>3, <1>5
<1> QED BY <1>3, <1>4, <1>6, <1>7, StaysTold

\* The head whose checks end is told to its node, and was better than what it was compared with.
LEMMA CacheStep == ASSUME HeadsInv, NEW r \in received, Cache(r) PROVE HeadsInv' /\ \A n, i \in HeadNode : Advance(n, i)
<1> USE DEF HeadsInv
<1>1. r.at \in HeadNode /\ r.id \in HeadNode /\ r.head \in HeadInfo /\ Told(r.id, r.at, r.head) /\ Better(r.head, r.seen)
  BY HeadsTypes DEF HeadsTold, WereBetter
<1>2. /\ received' = received \ {r}
      /\ headsTimeout' \in [HeadNode -> BOOLEAN] /\ blockstamps' \in [HeadNode -> SUBSET HeadBlock]
      /\ UNCHANGED <<onBlock, member, memberkeys, sent, asked, spreads>>
  BY <1>1 DEF Cache, Ended, HeadsTypeOK, HeadInfo
<1>3. /\ headsCache' \in [HeadNode -> [HeadNode -> HeadInfo \cup {NoHead}]]
      /\ \A n, i \in HeadNode : headsCache'[n][i] # headsCache[n][i] => n = r.at /\ i = r.id /\ headsCache'[n][i] = r.head
  <2>1. CASE headsCache' = [headsCache EXCEPT ![r.at][r.id] = r.head]
    BY <1>1, <2>1 DEF HeadsTypeOK
  <2>2. CASE UNCHANGED headsCache
    BY <2>2 DEF HeadsTypeOK
  <2> QED BY <2>1, <2>2 DEF Cache
<1>4. /\ newHeads' \in [HeadNode -> SUBSET [id : HeadNode, head : HeadInfo]]
      /\ \A n \in HeadNode : \A x \in newHeads'[n] : x \in newHeads[n] \/ (n = r.at /\ x.id = r.id /\ x.head = r.head)
  <2>1. CASE newHeads' = [newHeads EXCEPT ![r.at] = @ \cup {[id |-> r.id, head |-> r.head]}]
    <3>1. [id |-> r.id, head |-> r.head] \in [id : HeadNode, head : HeadInfo]
      BY <1>1
    <3>2. newHeads[r.at] \cup {[id |-> r.id, head |-> r.head]} \in SUBSET [id : HeadNode, head : HeadInfo]
      BY <1>1, <3>1 DEF HeadsTypeOK
    <3> QED BY <1>1, <2>1, <3>2 DEF HeadsTypeOK
  <2>2. CASE UNCHANGED newHeads
    BY <2>2 DEF HeadsTypeOK
  <2> QED BY <2>1, <2>2 DEF Cache
<1>5. HeadsTypeOK'
  BY <1>2, <1>3, <1>4 DEF HeadsTypeOK
<1>6. Told(r.id, r.at, r.head)' /\ \A n \in HeadNode : onBlock[n] <= onBlock'[n]
  BY <1>1, <1>2, HeadsTypes DEF Told
<1>7. \A n \in HeadNode : \A x \in newHeads'[n] : x \in newHeads[n] \/ Told(x.id, n, x.head)'
  BY <1>4, <1>6
<1>8. HeadsInv'
  BY <1>2, <1>5, <1>6, <1>7, StaysTold
<1>9. \A n, i \in HeadNode : Advance(n, i)
  BY <1>1, <1>2, <1>3 DEF Advance
<1> QED BY <1>8, <1>9

----------------------------------------------------------------------------
(* Spreading, and the head of the node itself. *)

LEMMA SpreadNewHeadsStep == ASSUME HeadsInv, NEW n \in HeadNode, SpreadNewHeads(n) PROVE HeadsInv' /\ headsCache' = headsCache
<1> USE DEF HeadsInv
<1>1. /\ newHeads' = [newHeads EXCEPT ![n] = {}] /\ headsTimeout' = [headsTimeout EXCEPT ![n] = FALSE]
      /\ sent' = sent \cup Spread(n, newHeads[n]) /\ spreads' = spreads + 1 /\ spreads < MaxSpreads
      /\ UNCHANGED <<onBlock, member, headsCache, memberkeys, blockstamps, received, asked>>
  BY DEF SpreadNewHeads
<1>2. /\ Spread(n, newHeads[n]) \subseteq [to : HeadNode, id : HeadNode, head : HeadInfo]
      /\ \A m \in Spread(n, newHeads[n]) : Told(m.id, m.to, m.head)
  BY HeadsTypes, SpreadTells DEF HeadsTold
<1>3. spreads' \in 0..MaxSpreads
  BY <1>1, HeadsAssumption DEF HeadsTypeOK
<1>4. HeadsTypeOK'
  BY <1>1, <1>2, <1>3 DEF HeadsTypeOK
<1>5. \A m \in sent' : m \in sent \/ Told(m.id, m.to, m.head)'
  BY <1>1, <1>2 DEF Told
<1>6. \A k \in HeadNode : onBlock[k] <= onBlock'[k] /\ newHeads'[k] \subseteq newHeads[k]
  BY <1>1, HeadsTypes DEF HeadsTypeOK
<1> QED BY <1>1, <1>4, <1>5, <1>6, StaysTold

LEMMA HeadChangedStep == ASSUME HeadsInv, NEW n \in HeadNode, HeadChanged(n) PROVE HeadsInv' /\ headsCache' = headsCache
<1> USE DEF HeadsInv
<1>0. PICK h : h = [block |-> onBlock[n] + 1, step |-> 0]
  OBVIOUS
<1> DEFINE own == [id |-> n, head |-> h]
<1>1. /\ onBlock[n] < MaxBlock /\ onBlock' = [onBlock EXCEPT ![n] = @ + 1]
      /\ received' = Compared(n, n, h) /\ headsTimeout' \in [HeadNode -> BOOLEAN]
      /\ sent' = sent \cup Spread(n, {own}) /\ spreads < MaxSpreads /\ spreads' = spreads + 1
      /\ blockstamps' = [blockstamps EXCEPT ![n] = @ \cup {h.block}]
      /\ UNCHANGED <<member, headsCache, memberkeys, newHeads, asked>>
  BY <1>0 DEF HeadChanged, HeadsReceived, HeadsTypeOK
<1>2. /\ onBlock[n] \in Nat /\ MaxBlock \in Nat /\ h.block \in HeadBlock /\ h \in HeadInfo
      /\ h.block = onBlock[n] + 1 /\ h.step = 0
  BY <1>0, <1>1, HeadsTypes, HeadsAssumption DEF HeadBlock, HeadInfo
<1>3. /\ onBlock' \in [HeadNode -> 0..MaxBlock] /\ onBlock'[n] = onBlock[n] + 1
      /\ \A k \in HeadNode : onBlock[k] <= onBlock'[k]
  <2>1. onBlock[n] + 1 \in 0..MaxBlock
    BY <1>1, <1>2
  <2>2. onBlock' \in [HeadNode -> 0..MaxBlock] /\ onBlock'[n] = onBlock[n] + 1
    BY <1>1, <2>1 DEF HeadsTypeOK
  <2>3. \A k \in HeadNode : onBlock[k] \in Nat /\ (k # n => onBlock'[k] = onBlock[k])
    BY <1>1, HeadsTypes
  <2> QED BY <2>2, <2>3
<1>4. /\ received' \subseteq Reception
      /\ \A r \in received' : r \in received \/ (r.at = n /\ r.id = n /\ r.head = h /\ Better(r.head, r.seen))
  BY <1>1, <1>2, ComparedBetter
<1>5. Told(n, n, h)'
  BY <1>2, <1>3, NoStep DEF Told
<1>6. /\ Spread(n, {own}) \subseteq [to : HeadNode, id : HeadNode, head : HeadInfo]
      /\ \A m \in Spread(n, {own}) : Told(m.id, m.to, m.head)'
  <2> SUFFICES ASSUME NEW s \in Spread(n, {own})
               PROVE  s \in [to : HeadNode, id : HeadNode, head : HeadInfo] /\ Told(s.id, s.to, s.head)'
    OBVIOUS
  <2>1. PICK m \in Neighbours(n), x \in {own} : s = [to |-> m, id |-> x.id, head |-> [x.head EXCEPT !.step = @ + 1]]
    BY DEF Spread
  <2>2. m \in HeadNode /\ x.id = n /\ x.head = h
    BY <2>1 DEF Neighbours
  <2>3. /\ [x.head EXCEPT !.step = @ + 1] \in HeadInfo
        /\ [x.head EXCEPT !.step = @ + 1].block = h.block
        /\ [x.head EXCEPT !.step = @ + 1].step = 0 + 1
    BY <1>2, <2>2 DEF HeadInfo
  <2>4. s.to = m /\ s.id = n /\ s.head = [x.head EXCEPT !.step = @ + 1]
    BY <2>1, <2>2
  <2>5. Within(n, m, 0 + 1)
    BY <2>1, NoStep, OneStepFurther
  <2>6. Told(n, m, s.head)'
    BY <1>2, <1>3, <2>3, <2>4, <2>5 DEF Told
  <2> QED BY <2>1, <2>2, <2>3, <2>4, <2>6
<1>7. HeadsTypeOK'
  <2>1. spreads' \in 0..MaxSpreads
    BY <1>1, HeadsAssumption DEF HeadsTypeOK
  <2>2. blockstamps' \in [HeadNode -> SUBSET HeadBlock]
    BY <1>1, <1>2 DEF HeadsTypeOK
  <2>3. sent' \subseteq [to : HeadNode, id : HeadNode, head : HeadInfo]
    BY <1>1, <1>6 DEF HeadsTypeOK
  <2> QED BY <1>1, <1>3, <1>4, <2>1, <2>2, <2>3 DEF HeadsTypeOK, Reception
<1>8. \A m \in sent' : m \in sent \/ Told(m.id, m.to, m.head)'
  BY <1>1, <1>6
<1>9. \A r \in received' : r \in received \/ (Told(r.id, r.at, r.head)' /\ Better(r.head, r.seen))
  BY <1>4, <1>5
<1> QED BY <1>1, <1>3, <1>7, <1>8, <1>9, StaysTold

LEMMA GetKnownHeadsStep == ASSUME HeadsInv, NEW n \in HeadNode, GetKnownHeads(n) PROVE HeadsInv' /\ headsCache' = headsCache
<1> USE DEF HeadsInv
<1>1. /\ asked' = [asked EXCEPT ![n] = onBlock[n]] /\ headsCache' = headsCache
      /\ UNCHANGED <<onBlock, member, memberkeys, blockstamps, received, newHeads, headsTimeout, sent, spreads>>
  BY DEF GetKnownHeads
<1>2. HeadsTypeOK'
  BY <1>1 DEF HeadsTypeOK
<1>3. \A k \in HeadNode : onBlock[k] <= onBlock'[k] /\ (asked'[k] = asked[k] \/ asked'[k] <= onBlock'[k])
  BY <1>1, HeadsTypes DEF HeadsTypeOK
<1> QED BY <1>1, <1>2, <1>3, StaysTold

LEMMA OwnHeadMadeStep == ASSUME HeadsInv, NEW n \in HeadNode, OwnHeadMade(n) PROVE HeadsInv' /\ \A m, i \in HeadNode : Advance(m, i)
<1> USE DEF HeadsInv
<1> DEFINE h == [block |-> asked[n], step |-> 0]
<1>1. /\ asked[n] > 0 /\ asked' = [asked EXCEPT ![n] = 0] /\ headsCache' = [headsCache EXCEPT ![n][n] = h]
      /\ UNCHANGED <<onBlock, member, memberkeys, blockstamps, received, newHeads, headsTimeout, sent, spreads>>
  BY DEF OwnHeadMade
<1>2. /\ asked[n] \in 0..MaxBlock /\ h \in HeadInfo /\ h.block = asked[n] /\ h.step = 0
  BY <1>1, HeadsAssumption DEF HeadsTypeOK, HeadInfo, HeadBlock
<1>3. /\ headsCache' \in [HeadNode -> [HeadNode -> HeadInfo \cup {NoHead}]]
      /\ \A m, i \in HeadNode : headsCache'[m][i] # headsCache[m][i] => m = n /\ i = n /\ headsCache'[m][i] = h
  BY <1>1, <1>2 DEF HeadsTypeOK
<1>4. asked' \in [HeadNode -> 0..MaxBlock]
  <2>1. 0 \in 0..MaxBlock
    BY HeadsAssumption
  <2> QED BY <1>1, <2>1 DEF HeadsTypeOK
<1>5. HeadsTypeOK'
  BY <1>1, <1>3, <1>4 DEF HeadsTypeOK
<1>6. \A k \in HeadNode : onBlock[k] <= onBlock'[k] /\ (asked'[k] = asked[k] \/ asked'[k] <= onBlock'[k])
  BY <1>1, HeadsTypes DEF HeadsTypeOK
<1>7. Told(n, n, h)
  BY <1>2, NoStep DEF Told, HeadsTold
<1> QED BY <1>1, <1>3, <1>5, <1>6, <1>7, StaysTold DEF Advance

LEMMA ExcludedStep == ASSUME HeadsInv, NEW k \in HeadNode, Excluded(k) PROVE HeadsInv' /\ headsCache' = headsCache
<1>1. HeadsTypeOK' /\ \A n \in HeadNode : onBlock[n] <= onBlock'[n]
  BY HeadsTypes DEF HeadsInv, HeadsTypeOK, Excluded
<1> QED BY <1>1, StaysTold DEF Excluded

----------------------------------------------------------------------------
LEMMA HeadsStart == HeadsInit => HeadsInv
<1> SUFFICES ASSUME HeadsInit PROVE HeadsInv
  OBVIOUS
<1>1. HeadsTypeOK
  <2>1. 0 \in 0..MaxBlock /\ 0 \in 0..MaxSpreads /\ 0..(MaxBlock - 1) \subseteq 0..MaxBlock
    BY HeadsAssumption
  <2> QED BY <2>1 DEF HeadsInit, HeadsTypeOK
<1>2. \A n \in HeadNode : asked[n] <= onBlock[n]
  BY HeadsAssumption DEF HeadsInit
<1> QED BY <1>1, <1>2 DEF HeadsInit, HeadsInv, HeadsTold, WereBetter

LEMMA HeadsStep == HeadsInv /\ [HeadsNext]_headsVars => HeadsInv' /\ \A n, i \in HeadNode : Advance(n, i)
<1> SUFFICES ASSUME HeadsInv, [HeadsNext]_headsVars PROVE HeadsInv' /\ \A n, i \in HeadNode : Advance(n, i)
  OBVIOUS
<1>1. ASSUME headsCache' = headsCache PROVE \A n, i \in HeadNode : Advance(n, i)
  BY <1>1 DEF Advance
<1>2. ASSUME NEW m \in sent, Deliver(m) \/ Lose(m) PROVE HeadsInv' /\ headsCache' = headsCache
  BY <1>2, DeliverStep, LoseStep
<1>3. ASSUME NEW r \in received, IsMemberKey(r) PROVE HeadsInv' /\ headsCache' = headsCache
  BY <1>3, IsMemberKeyStep
<1>4. ASSUME NEW r \in received, Cache(r) PROVE HeadsInv' /\ \A n, i \in HeadNode : Advance(n, i)
  BY <1>4, CacheStep
<1>5. ASSUME NEW n \in HeadNode, SpreadNewHeads(n) PROVE HeadsInv' /\ headsCache' = headsCache
  BY <1>5, SpreadNewHeadsStep
<1>6. ASSUME NEW n \in HeadNode, OwnHeadMade(n) PROVE HeadsInv' /\ \A k, i \in HeadNode : Advance(k, i)
  BY <1>6, OwnHeadMadeStep
<1>7. ASSUME NEW n \in Mover, HeadChanged(n) \/ GetKnownHeads(n) \/ Excluded(n) PROVE HeadsInv' /\ headsCache' = headsCache
  <2>1. n \in HeadNode
    BY HeadsAssumption
  <2> QED BY <1>7, <2>1, HeadChangedStep, GetKnownHeadsStep, ExcludedStep
<1>8. CASE UNCHANGED headsVars
  BY <1>1, <1>8 DEF headsVars, HeadsInv, HeadsTypeOK, HeadsTold, WereBetter, Told
<1> QED BY <1>1, <1>2, <1>3, <1>4, <1>5, <1>6, <1>7, <1>8 DEF HeadsNext

\* Whatever heads are delayed, lost or overtaken by others while their keys and blocks are checked, what WS2PCluster caches of a
\* node is of a block that this node had, came by a way as long as it says, and replaces a worse one but in the cases that
\* the property names.
THEOREM HeadsGoForward == HeadsSpec => HeadsAdvance
<1>1. HeadsInv /\ [HeadsNext]_headsVars =>
        [\A n, i \in HeadNode : headsCache'[n][i] # headsCache[n][i] =>
            LET h == headsCache'[n][i] IN
            /\ h.block <= onBlock[i] /\ Within(i, n, h.step)
            /\ \/ Better(h, headsCache[n][i])
               \/ \E r \in received \ received' : r.at = n /\ r.id = i /\ r.seen # headsCache[n][i]
               \/ i = n /\ asked[n] > 0]_headsVars
  BY HeadsStep DEF Advance, Told
<1> QED BY <1>1, HeadsStart, HeadsStep, PTL DEF HeadsSpec, HeadsAdvance

-----------------------------------------------------------------------------
(***************************************************************************)
(* The table of peers.                                                     *)
(***************************************************************************)
\* The peers out of the web of trust that have a row, and those whose row is being written or has room.
NonWoT == {r.key : r \in {x \in rows : x.nonWoT}}
Entering ==
    {w.key : w \in {x \in writers : x.row.nonWoT}} \cup {k \in AnyPeer : k = submission.key /\ submission.isNonWoT}

\* A key no two writers of which overlapped: it has one row at most, and its writer puts back
\* or replaces the row it read.
OneRow(p) ==
    /\ \A r, q \in rows : r.key = p /\ q.key = p => r = q
    /\ \A r \in rows : r.key = p => r.block = newest[p]
    /\ (\A r \in rows : r.key # p) /\ (\A w \in writers : w.key # p) => newest[p] = 0
    /\ \A w \in writers : w.key = p =>
         /\ \A v \in writers : v.key = p => v = w
         /\ w.stage = "insert" => \A r \in rows : r.key # p
         /\ w.kind = "status" => w.row.block = newest[p]
         /\ w.kind = "status" /\ w.stage = "delete" /\ w.row.nonWoT => p \in NonWoT
         /\ w.kind = "document" => submission.acceptNonWoT \/ w.row.block >= newest[p]

\* The operation of the FIFO saves one document at a time, of a known block but for a command.
OneDocument ==
    /\ \A w, v \in writers :
         w.kind = "document" => submission.stage = "save" /\ (v.kind = "document" => v = w)
    /\ submission.isNonWoT => submission.stage \in {"found", "save"}
    /\ submission.eraseIfAlreadyRecorded => submission.acceptNonWoT
    /\ submission.stage # "none" /\ ~submission.acceptNonWoT => submission.block <= current
    /\ signing.stage = "write" => signing.block <= current

RoomCounted == Cardinality((NonWoT \cup Entering) \ raced) <= Limit

\* What numbers the rows.
RowsNumbered ==
    /\ IsFiniteSet(rows) /\ IsFiniteSet(writers) /\ Cardinality(writers) <= writes
    /\ \A w \in writers : w.row.key = w.key

PeeringInv ==
    /\ PeeringTypeOK
    /\ \A p \in AnyPeer \ raced : OneRow(p)
    /\ OneDocument
    /\ RoomCounted
    /\ RowsNumbered

Writers == [id : 1..MaxWrites, key : AnyPeer, row : Row, kind : {"document", "status"}, stage : {"delete", "insert"}]

LEMMA PeerFacts ==
    /\ IsFiniteSet(AnyPeer) /\ Limit \in Nat /\ MaxDoc \in Nat /\ 1 \in Doc /\ 0 \in Doc
    /\ MaxWrites \in Nat /\ Peer \subseteq AnyPeer /\ Self \in AnyPeer
    /\ NoSubmission \in Submission
<1>1. IsFiniteSet(Peer) /\ Limit \in Nat /\ MaxDoc \in Nat \ {0} /\ MaxWrites \in Nat
  BY PeeringAssumption
<1>2. IsFiniteSet(AnyPeer)
  BY <1>1, FS_AddElement DEF AnyPeer
<1>3. NoSubmission \in Submission
  BY <1>1 DEF NoSubmission, Submission, AnyPeer, Doc
<1> QED BY <1>1, <1>2, <1>3 DEF AnyPeer, Doc

LEMMA LargerOfTwo ==
    ASSUME NEW a \in Nat, NEW b \in Nat
    PROVE  Max({a, b}) = IF a <= b THEN b ELSE a
BY DEF Max

LEMMA SmallerOfTwo ==
    ASSUME NEW a \in Nat, NEW b \in Nat
    PROVE  Min({a, b}) = IF a <= b THEN a ELSE b
BY DEF Min

\* The first row of a key is one of them.
LEMMA RowFound ==
    ASSUME PeeringTypeOK, NEW p, Known(p)
    PROVE  Found(p) \in rows /\ Found(p) \in Row /\ Found(p).key = p
<1> DEFINE R == OpToRel(<, Nat)
           I == {r.id : r \in RowsOf(p)}
<1>1. rows \subseteq Row /\ \A r \in RowsOf(p) : r \in rows /\ r.id \in Nat
  BY DEF PeeringTypeOK, RowsOf, Row
<1>2. I \subseteq Nat /\ I # {}
  BY <1>1 DEF Known
<1>3. IsWellFoundedOn(R, Nat)
  BY NatLessThanWellFounded, Zenon
<1>4. \A x, y \in Nat : <<x, y>> \notin R => ~(x < y)
  BY Zenon DEF OpToRel
<1> HIDE DEF R
<1>5. PICK m \in I : \A i \in I : <<i, m>> \notin R
  BY <1>2, <1>3, WFMin
<1>6. PICK r \in RowsOf(p) : r.id = m
  OBVIOUS
<1>7. \A q \in RowsOf(p) : r.id <= q.id
  <2> SUFFICES ASSUME NEW q \in RowsOf(p) PROVE r.id <= q.id
    OBVIOUS
  <2>1. q.id \in I /\ q.id \in Nat /\ m \in Nat
    BY <1>1, <1>2
  <2>2. ~(q.id < m)
    BY <1>4, <1>5, <2>1
  <2> QED BY <1>6, <2>1, <2>2
<1>8. Found(p) \in RowsOf(p)
  BY <1>6, <1>7 DEF Found
<1> QED BY <1>1, <1>8 DEF RowsOf

\* Fewer peers to count.
LEMMA FewerCounted ==
    ASSUME NEW S \in SUBSET AnyPeer, NEW T \in SUBSET AnyPeer, S \subseteq T, Cardinality(T) <= Limit
    PROVE  Cardinality(S) <= Limit
<1>1. IsFiniteSet(T) /\ IsFiniteSet(S) /\ Cardinality(S) <= Cardinality(T)
  BY PeerFacts, FS_Subset
<1>2. Cardinality(S) \in Nat /\ Cardinality(T) \in Nat
  BY <1>1, FS_CardinalityType
<1> QED BY <1>1, <1>2, PeerFacts

LEMMA Counted ==
    ASSUME PeeringTypeOK
    PROVE  NonWoT \in SUBSET AnyPeer /\ Entering \in SUBSET AnyPeer
BY DEF PeeringTypeOK, NonWoT, Entering, Row

LEMMA InvGivesPeersAdvance == PeeringInv => PeersAdvance
<1> SUFFICES ASSUME PeeringInv PROVE PeersAdvance
  OBVIOUS
<1>1. ASSUME NEW r \in rows, r.key \notin raced
      PROVE  RowsOf(r.key) = {r} /\ r.block = newest[r.key]
  <2>1. r.key \in AnyPeer \ raced
    BY <1>1 DEF PeeringInv, PeeringTypeOK, Row
  <2>2. OneRow(r.key)
    BY <2>1 DEF PeeringInv
  <2>3. r.block = newest[r.key]
    BY <2>2, Zenon DEF OneRow
  <2>4. \A q \in rows : q.key = r.key => q = r
    BY <2>2, Zenon DEF OneRow
  <2> QED BY <2>3, <2>4 DEF RowsOf
<1>2. Cardinality({r \in rows : r.key \notin raced /\ r.nonWoT}) <= Limit
  <2> DEFINE S == {r \in rows : r.key \notin raced /\ r.nonWoT}
             T == (NonWoT \cup Entering) \ raced
             f == [r \in S |-> r.key]
  <2>1. \A r, q \in S : r.key = q.key => r = q
    BY <1>1 DEF RowsOf
  <2>2. f \in [S -> T]
    BY DEF NonWoT
  <2>3. f \in Injection(S, T)
    BY <2>1, <2>2 DEF Injection, IsInjective
  <2>4. T \in SUBSET AnyPeer /\ Cardinality(T) <= Limit
    BY Counted DEF PeeringInv, RoomCounted
  <2> HIDE DEF f, S, T
  <2>5. IsFiniteSet(T)
    BY <2>4, PeerFacts, FS_Subset
  <2>6. IsFiniteSet(S) /\ Cardinality(S) <= Cardinality(T)
    BY <2>3, <2>5, FS_Injection
  <2>7. Cardinality(S) \in Nat /\ Cardinality(T) \in Nat
    BY <2>5, <2>6, FS_CardinalityType
  <2>8. Cardinality(S) <= Limit
    BY <2>4, <2>6, <2>7, PeerFacts
  <2> QED BY <2>8 DEF S
<1> QED BY <1>1, <1>2 DEF PeersAdvance

LEMMA PeeringInitInv == PeeringInit => PeeringInv
<1> SUFFICES ASSUME PeeringInit PROVE PeeringInv
  OBVIOUS
<1>1. rows = {} /\ writers = {} /\ writes = 0 /\ newest = [p \in AnyPeer |-> 0] /\ raced = {}
  BY DEF PeeringInit
<1>2. PeeringTypeOK
  BY PeerFacts DEF PeeringInit, PeeringTypeOK
<1>3. \A p \in AnyPeer : OneRow(p)
  BY <1>1 DEF OneRow
<1>4. (NonWoT \cup Entering) \ raced = {}
  BY <1>1 DEF PeeringInit, NonWoT, Entering, NoSubmission
<1>5. RoomCounted /\ RowsNumbered
  BY <1>1, <1>4, FS_EmptySet, PeerFacts DEF RoomCounted, RowsNumbered
<1>6. OneDocument
  BY <1>1 DEF PeeringInit, OneDocument, NoSubmission
<1> QED BY <1>2, <1>3, <1>5, <1>6 DEF PeeringInv

-----------------------------------------------------------------------------
\* A key that the step leaves alone.
WritersOf(p) == {w \in writers : w.key = p}

LEMMA RowKept ==
    ASSUME NEW p, OneRow(p), RowsOf(p)' = RowsOf(p), newest'[p] = newest[p],
           WritersOf(p)' = WritersOf(p),
           (\E w \in writers : w.key = p /\ w.kind = "document") /\ submission.acceptNonWoT => submission'.acceptNonWoT
    PROVE  OneRow(p)'
<1>1. \A w : w \in writers' /\ w.key = p <=> w \in writers /\ w.key = p
  BY DEF WritersOf
<1>2. \A r : r \in rows' /\ r.key = p <=> r \in rows /\ r.key = p
  BY DEF RowsOf
<1>3. p \in NonWoT' <=> p \in NonWoT
  BY <1>2 DEF NonWoT
<1>4. \A w \in writers : w.key = p /\ w.kind = "document" /\ submission.acceptNonWoT => submission'.acceptNonWoT
  OBVIOUS
<1> QED BY <1>1, <1>2, <1>3, <1>4 DEF OneRow

LEMMA RoomKept ==
    ASSUME RoomCounted, PeeringTypeOK,
           (NonWoT' \cup Entering') \ raced' \subseteq (NonWoT \cup Entering) \ raced
    PROVE  RoomCounted'
<1>1. (NonWoT \cup Entering) \ raced \in SUBSET AnyPeer
  BY Counted
<1> QED BY <1>1, FewerCounted DEF RoomCounted

\* A step that touches neither the table nor its writers, nor ends what is being saved.
LEMMA TableLeftAlone ==
    ASSUME PeeringInv, PeeringTypeOK', OneDocument', UNCHANGED <<rows, writers, newest, writes>>,
           raced \subseteq raced',
           submission.stage = "save" => submission' = submission,
           submission'.isNonWoT => submission.isNonWoT /\ submission'.key = submission.key
    PROVE  PeeringInv'
<1>1. ASSUME NEW p \in AnyPeer \ raced' PROVE OneRow(p)'
  <2>1. (\E w \in writers : w.key = p /\ w.kind = "document") /\ submission.acceptNonWoT => submission'.acceptNonWoT
    BY DEF PeeringInv, OneDocument
  <2> QED BY <1>1, <2>1, RowKept DEF PeeringInv, WritersOf, RowsOf
<1>2. NonWoT' = NonWoT /\ Entering' \subseteq Entering
  BY DEF NonWoT, Entering
<1>3. RoomCounted'
  BY <1>2, RoomKept DEF PeeringInv
<1>4. RowsNumbered'
  BY DEF PeeringInv, RowsNumbered
<1> QED BY <1>1, <1>3, <1>4 DEF PeeringInv

\* An operation enters the FIFO.
LEMMA PushStep ==
    ASSUME PeeringInv, NEW p \in AnyPeer, NEW b \in Doc, NEW listed \in BOOLEAN, b <= current,
           Push(p, b, listed), signing' \in [stage : {"none", "read", "write"}, block : Doc],
           signing'.stage = "write" => signing' = signing
    PROVE  PeeringInv'
<1>1. /\ submission = NoSubmission /\ submission' \in Submission /\ submission'.isNonWoT = FALSE
      /\ submission'.stage = "clean" /\ submission'.block = b
      /\ submission'.acceptNonWoT = FALSE /\ submission'.eraseIfAlreadyRecorded = FALSE
  BY PeerFacts DEF Push, NoSubmission, Submission
<1>2. submission.stage # "save" /\ UNCHANGED <<rows, writers, selfMember, current, tests, newest, raced, writes>>
  BY <1>1 DEF Push, NoSubmission
<1>3. PeeringTypeOK'
  BY <1>1, <1>2 DEF PeeringInv, PeeringTypeOK
<1>4. OneDocument'
  <2>1. \A w, v \in writers' : w.kind = "document" => FALSE
    BY <1>2 DEF PeeringInv, OneDocument
  <2> QED BY <1>1, <1>2, <2>1 DEF PeeringInv, OneDocument
<1> QED BY <1>1, <1>2, <1>3, <1>4, TableLeftAlone

LEMMA SubmitByCommandStep ==
    ASSUME PeeringInv, NEW p \in AnyPeer, NEW b \in Doc, NEW erase \in BOOLEAN, SubmitByCommand(p, b, erase)
    PROVE  PeeringInv'
<1>1. /\ submission = NoSubmission /\ submission' \in Submission /\ submission'.isNonWoT = FALSE
      /\ submission'.stage = "clean" /\ submission'.acceptNonWoT
  BY PeerFacts DEF SubmitByCommand, AtRest, NoSubmission, Submission
<1>2. /\ writers = {} /\ signing.stage = "none" /\ submission.stage # "save"
      /\ UNCHANGED <<rows, writers, selfMember, current, signing, tests, newest, raced, writes>>
  BY <1>1 DEF SubmitByCommand, AtRest, NoSubmission
<1>3. PeeringTypeOK'
  BY <1>1, <1>2 DEF PeeringInv, PeeringTypeOK
<1>4. OneDocument'
  BY <1>1, <1>2 DEF OneDocument
<1> QED BY <1>1, <1>2, <1>3, <1>4, TableLeftAlone

LEMMA ResetPeersStep ==
    ASSUME PeeringInv, ResetPeers
    PROVE  PeeringInv'
<1>1. /\ rows' = {} /\ writers' = {} /\ newest' = [p \in AnyPeer |-> 0] /\ submission = NoSubmission
      /\ UNCHANGED <<submission, writers, selfMember, current, signing, tests, raced, writes>>
  BY DEF ResetPeers, AtRest
<1>2. PeeringTypeOK'
  BY <1>1, PeerFacts DEF PeeringInv, PeeringTypeOK
<1>3. \A p \in AnyPeer : OneRow(p)'
  BY <1>1 DEF OneRow
<1>4. (NonWoT' \cup Entering') \ raced' = {}
  BY <1>1 DEF NonWoT, Entering, NoSubmission
<1>5. RoomCounted' /\ RowsNumbered'
  BY <1>1, <1>4, FS_EmptySet, PeerFacts DEF RoomCounted, RowsNumbered, PeeringInv
<1>6. OneDocument'
  BY <1>1 DEF PeeringInv, OneDocument
<1> QED BY <1>2, <1>3, <1>5, <1>6 DEF PeeringInv

\* A block, a membership, and the reads of generateSelfPeer.
LEMMA AroundStep ==
    ASSUME PeeringInv, NewBlock \/ Membership \/ GenerateSelfPeer \/ SignSelfPeer
    PROVE  PeeringInv'
<1>1. CASE NewBlock
  <2>1. current' \in Doc /\ current \in Nat /\ current' = current + 1
    BY <1>1, PeerFacts DEF NewBlock, PeeringInv, PeeringTypeOK, Doc
  <2>2. PeeringTypeOK'
    BY <1>1, <2>1 DEF NewBlock, PeeringInv, PeeringTypeOK
  <2>3. submission.block \in Nat /\ signing.block \in Nat
    BY DEF PeeringInv, PeeringTypeOK, Submission, Doc
  <2>4. OneDocument'
    BY <1>1, <2>1, <2>3 DEF NewBlock, PeeringInv, OneDocument
  <2> QED BY <1>1, <2>2, <2>4, TableLeftAlone DEF NewBlock
<1>2. CASE Membership
  <2>1. PeeringTypeOK' /\ OneDocument'
    BY <1>2 DEF Membership, PeeringInv, PeeringTypeOK, OneDocument
  <2> QED BY <1>2, <2>1, TableLeftAlone DEF Membership
<1>3. CASE GenerateSelfPeer
  <2>1. PeeringTypeOK' /\ OneDocument'
    BY <1>3, PeerFacts DEF GenerateSelfPeer, PeeringInv, PeeringTypeOK, OneDocument
  <2> QED BY <1>3, <2>1, TableLeftAlone DEF GenerateSelfPeer
<1>4. CASE SignSelfPeer
  <2> DEFINE b == IF Known(Self) THEN Found(Self).block ELSE 0
  <2>1. b \in Doc
    BY RowFound, PeerFacts DEF PeeringInv, Row
  <2> HIDE DEF b
  <2>2. b \in Nat /\ current \in Nat /\ current \in Doc
    BY <2>1, PeerFacts DEF Doc, PeeringInv, PeeringTypeOK
  <2>3. NextBlock(b) = IF b + 1 <= current THEN b + 1 ELSE current
    BY <2>2, SmallerOfTwo DEF NextBlock
  <2>4. NextBlock(b) \in Doc /\ NextBlock(b) <= current
    BY <2>2, <2>3, PeerFacts DEF Doc
  <2>5. signing' = [stage |-> "write", block |-> NextBlock(b)]
    BY <1>4 DEF SignSelfPeer, b
  <2>6. PeeringTypeOK'
    BY <1>4, <2>4, <2>5 DEF SignSelfPeer, PeeringInv, PeeringTypeOK
  <2>7. OneDocument'
    BY <1>4, <2>4, <2>5 DEF SignSelfPeer, PeeringInv, OneDocument
  <2> QED BY <1>4, <2>6, <2>7, TableLeftAlone DEF SignSelfPeer
<1> QED BY <1>1, <1>2, <1>3, <1>4

\* The rows of peers not heard of for long go.
LEMMA CleanStep ==
    ASSUME PeeringInv, CleanLongDownPeers
    PROVE  PeeringInv'
<1>1. /\ rows' = rows \ Gone /\ writers' = writers /\ raced \subseteq raced' /\ writes' = writes
      /\ submission.stage = "clean" /\ submission' = [submission EXCEPT !.stage = "room"]
      /\ newest' = [p \in AnyPeer |-> IF Known(p) /\ RowsOf(p) \subseteq Gone THEN 0 ELSE newest[p]]
      /\ \A w \in writers : (\E r \in Gone : r.key = w.key) => w.key \in raced'
      /\ UNCHANGED <<selfMember, current, signing, tests>>
  BY DEF CleanLongDownPeers
<1>2. /\ submission' \in Submission /\ submission'.stage = "room"
      /\ submission'.isNonWoT = submission.isNonWoT /\ submission'.key = submission.key
      /\ submission'.acceptNonWoT = submission.acceptNonWoT /\ submission'.block = submission.block
      /\ submission'.eraseIfAlreadyRecorded = submission.eraseIfAlreadyRecorded
  BY <1>1 DEF PeeringInv, PeeringTypeOK, Submission
<1>3. PeeringTypeOK'
  <2>1. newest' \in [AnyPeer -> Doc]
    BY <1>1, PeerFacts DEF PeeringInv, PeeringTypeOK
  <2>2. raced' \subseteq AnyPeer
    BY DEF CleanLongDownPeers, PeeringInv, PeeringTypeOK
  <2> QED BY <1>1, <1>2, <2>1, <2>2 DEF PeeringInv, PeeringTypeOK
<1>4. OneDocument'
  BY <1>1, <1>2 DEF PeeringInv, OneDocument
<1>5. ASSUME NEW p \in AnyPeer \ raced'
      PROVE  OneRow(p)'
  <2>0. OneRow(p)
    BY <1>1, <1>5 DEF PeeringInv
  <2>1. CASE \E r \in Gone : r.key = p
    <3>1. PICK r \in Gone : r.key = p
      BY <2>1
    <3>2. RowsOf(p) = {r}
      <4>1. r \in rows /\ \A q \in rows : q.key = p => q = r
        BY <2>0, <3>1, Zenon DEF Gone, OneRow
      <4> QED BY <3>1, <4>1 DEF RowsOf
    <3>3. newest'[p] = 0
      BY <1>1, <3>1, <3>2 DEF Known
    <3>4. (\A q \in rows' : q.key # p) /\ (\A w \in writers' : w.key # p)
      BY <1>1, <1>5, <3>1, <3>2 DEF RowsOf
    <3> QED BY <3>3, <3>4 DEF OneRow
  <2>2. CASE ~(\E r \in Gone : r.key = p)
    <3>1. RowsOf(p)' = RowsOf(p) /\ WritersOf(p)' = WritersOf(p)
      BY <1>1, <2>2 DEF RowsOf, WritersOf
    <3>2. newest'[p] = newest[p]
      <4>1. ~(Known(p) /\ RowsOf(p) \subseteq Gone)
        BY <2>2 DEF Known, RowsOf
      <4> QED BY <1>1, <4>1
    <3> QED BY <1>2, <2>0, <3>1, <3>2, RowKept
  <2> QED BY <2>1, <2>2
<1>6. NonWoT' \subseteq NonWoT /\ Entering' = Entering
  BY <1>1, <1>2 DEF NonWoT, Entering
<1>7. RoomCounted'
  BY <1>1, <1>6, RoomKept DEF PeeringInv
<1>8. RowsNumbered'
  BY <1>1, FS_Subset DEF PeeringInv, RowsNumbered
<1> QED BY <1>3, <1>4, <1>5, <1>7, <1>8 DEF PeeringInv

\* No more keys have a row than there are rows.
LEMMA KeysOfRows ==
    ASSUME PeeringTypeOK, IsFiniteSet(rows)
    PROVE  /\ CountNonWoTPeers \in Nat /\ Cardinality(NonWoT) \in Nat /\ IsFiniteSet(NonWoT)
           /\ Cardinality(NonWoT) <= CountNonWoTPeers
<1> DEFINE S == {r \in rows : r.nonWoT}
           f == [r \in S |-> r.key]
<1>1. IsFiniteSet(S)
  BY FS_Subset
<1>2. f \in Surjection(S, NonWoT)
  BY DEF NonWoT, Surjection
<1> HIDE DEF f
<1>3. IsFiniteSet(NonWoT) /\ Cardinality(NonWoT) <= Cardinality(S)
  BY <1>1, <1>2, FS_Surjection
<1>4. Cardinality(S) \in Nat /\ Cardinality(NonWoT) \in Nat
  BY <1>1, <1>3, FS_CardinalityType
<1> QED BY <1>3, <1>4 DEF CountNonWoTPeers

\* The room of a key out of the web of trust: there are fewer rows than the limit, and the rows that are missing
\* are of raced keys.
LEMMA RoomStep ==
    ASSUME PeeringInv, CheckRoom
    PROVE  PeeringInv'
<1>1. /\ submission.stage = "room" /\ submission.isNonWoT = FALSE
      /\ UNCHANGED <<rows, writers, selfMember, current, signing, tests, newest, writes>>
      /\ raced \subseteq raced' /\ raced' \subseteq AnyPeer
  BY DEF CheckRoom, PeeringInv, PeeringTypeOK, OneDocument, Submission
<1>2. \A w \in writers : w.kind # "document"
  BY <1>1 DEF PeeringInv, OneDocument
<1>3. CASE submission' = NoSubmission
  <2>1. PeeringTypeOK' /\ OneDocument'
    BY <1>1, <1>2, <1>3, PeerFacts DEF PeeringInv, PeeringTypeOK, OneDocument, NoSubmission
  <2> QED BY <1>1, <1>3, <2>1, TableLeftAlone DEF NoSubmission
<1>4. CASE submission' = [submission EXCEPT !.stage = "found"]
  <2>1. /\ submission' \in Submission /\ submission'.stage = "found"
        /\ submission'.isNonWoT = submission.isNonWoT /\ submission'.key = submission.key
        /\ submission'.acceptNonWoT = submission.acceptNonWoT /\ submission'.block = submission.block
        /\ submission'.eraseIfAlreadyRecorded = submission.eraseIfAlreadyRecorded
    BY <1>4 DEF PeeringInv, PeeringTypeOK, Submission
  <2>2. PeeringTypeOK' /\ OneDocument'
    BY <1>1, <1>2, <2>1 DEF PeeringInv, PeeringTypeOK, OneDocument
  <2> QED BY <1>1, <2>1, <2>2, TableLeftAlone
<1>5. CASE /\ ~(CountNonWoTPeers >= Limit)
           /\ submission' = [submission EXCEPT !.stage = "found", !.isNonWoT = TRUE]
           /\ raced' = raced \cup {w.key : w \in {x \in writers : x.stage = "insert" /\ x.row.nonWoT}}
  <2> DEFINE k == submission.key
  <2>1. /\ submission' \in Submission /\ submission'.stage = "found" /\ submission'.key = k
        /\ submission'.acceptNonWoT = submission.acceptNonWoT /\ submission'.block = submission.block
        /\ submission'.eraseIfAlreadyRecorded = submission.eraseIfAlreadyRecorded
        /\ k \in AnyPeer
    BY <1>5 DEF PeeringInv, PeeringTypeOK, Submission
  <2>2. PeeringTypeOK' /\ OneDocument'
    BY <1>1, <1>2, <2>1 DEF PeeringInv, PeeringTypeOK, OneDocument
  <2>3. ASSUME NEW p \in AnyPeer \ raced' PROVE OneRow(p)'
    BY <1>1, <2>1, <2>3, RowKept DEF PeeringInv, WritersOf, RowsOf
  <2>4. RowsNumbered'
    BY <1>1 DEF PeeringInv, RowsNumbered
  <2>5. ASSUME NEW w \in writers, w.row.nonWoT, w.key \notin raced'
        PROVE  w.key \in NonWoT
    <3>1. w.stage # "insert"
      BY <1>5, <2>5
    <3>2. w.kind = "status" /\ w.stage = "delete" /\ w.key \in AnyPeer \ raced
      BY <1>1, <1>2, <2>5, <3>1 DEF PeeringInv, PeeringTypeOK
    <3>3. OneRow(w.key)
      BY <3>2 DEF PeeringInv
    <3> QED BY <2>5, <3>2, <3>3, Zenon DEF OneRow
  <2>6. (NonWoT' \cup Entering') \ raced' \subseteq NonWoT \cup {k}
    <3>1. NonWoT' = NonWoT
      BY <1>1 DEF NonWoT
    <3>2. Entering' \subseteq {w.key : w \in {x \in writers : x.row.nonWoT}} \cup {k}
      BY <1>1, <2>1 DEF Entering
    <3> QED BY <2>5, <3>1, <3>2
  <2>7. Cardinality(NonWoT \cup {k}) <= Limit
    <3>1. /\ CountNonWoTPeers \in Nat /\ Cardinality(NonWoT) \in Nat /\ IsFiniteSet(NonWoT)
          /\ Cardinality(NonWoT) <= CountNonWoTPeers
      BY KeysOfRows DEF PeeringInv, RowsNumbered
    <3>2. Cardinality(NonWoT \cup {k}) = IF k \in NonWoT THEN Cardinality(NonWoT) ELSE Cardinality(NonWoT) + 1
      BY <3>1, FS_AddElement
    <3> QED BY <1>5, <3>1, <3>2, PeerFacts
  <2>8. NonWoT \cup {k} \in SUBSET AnyPeer
    BY <2>1, Counted DEF PeeringInv
  <2>9. RoomCounted'
    BY <2>6, <2>7, <2>8, FewerCounted DEF RoomCounted
  <2> QED BY <2>2, <2>3, <2>4, <2>9 DEF PeeringInv
<1> QED BY <1>3, <1>4, <1>5 DEF CheckRoom

LEMMA WriterType ==
    ASSUME NEW r \in Row, NEW kind \in {"document", "status"}, writes \in 0..MaxWrites, writes < MaxWrites
    PROVE  /\ Writer(r, kind) \in Writers
           /\ Writer(r, kind).key = r.key /\ Writer(r, kind).row.key = r.key
           /\ Writer(r, kind).row.block = r.block /\ Writer(r, kind).row.nonWoT = r.nonWoT
           /\ Writer(r, kind).kind = kind /\ Writer(r, kind).stage = "delete"
<1>1. [r EXCEPT !.id = 0] \in Row /\ r.key \in AnyPeer
  BY DEF Row
<1>2. writes + 1 \in 1..MaxWrites
  BY PeerFacts
<1> QED BY <1>1, <1>2 DEF Writer, Writers, Row

LEMMA OneMore ==
    ASSUME NEW S, NEW x, IsFiniteSet(S), NEW n \in Nat, Cardinality(S) <= n
    PROVE  IsFiniteSet(S \cup {x}) /\ Cardinality(S \cup {x}) <= n + 1
<1>1. Cardinality(S) \in Nat
  BY FS_CardinalityType
<1>2. /\ IsFiniteSet(S \cup {x})
      /\ Cardinality(S \cup {x}) = IF x \in S THEN Cardinality(S) ELSE Cardinality(S) + 1
  BY FS_AddElement
<1> QED BY <1>1, <1>2

\* A document that is not newer than the row found is refused; the others are saved.
LEMMA CheckStep ==
    ASSUME PeeringInv, Check
    PROVE  PeeringInv'
<1>1. /\ submission.stage = "found" /\ submission \in Submission /\ submission.key \in AnyPeer
      /\ submission.block \in Doc /\ submission.isNonWoT \in BOOLEAN
      /\ UNCHANGED <<rows, selfMember, current, signing, tests, newest>>
  BY DEF Check, PeeringInv, PeeringTypeOK, Submission
<1>2. \A w \in writers : w.kind # "document"
  BY <1>1 DEF PeeringInv, OneDocument
<1>3. CASE Refused(submission)
  <2>1. submission' = NoSubmission /\ UNCHANGED <<writers, raced, writes>>
    BY <1>3 DEF Check
  <2>2. PeeringTypeOK' /\ OneDocument'
    BY <1>1, <1>2, <2>1, PeerFacts DEF PeeringInv, PeeringTypeOK, OneDocument, NoSubmission
  <2> QED BY <1>1, <2>1, <2>2, TableLeftAlone DEF NoSubmission
<1>4. CASE ~Refused(submission)
  <2> DEFINE k == submission.key
             r == Saved(submission)
             W == Writer(r, "document")
  <2>1. /\ writes < MaxWrites /\ writes' = writes + 1
        /\ submission' = [submission EXCEPT !.stage = "save"]
        /\ writers' = writers \cup {W}
        /\ raced' = Overlap(k)
    BY <1>4 DEF Check
  <2>2. /\ r \in Row /\ r.key = k /\ r.nonWoT = submission.isNonWoT
        /\ r.block = IF submission.block <= current THEN submission.block ELSE 0
    BY <1>1, PeerFacts DEF Saved, Row
  <2> HIDE DEF r
  <2>3. /\ W \in Writers /\ W.key = k /\ W.row.key = k /\ W.row.block = r.block
        /\ W.row.nonWoT = submission.isNonWoT /\ W.kind = "document" /\ W.stage = "delete"
    BY <2>1, <2>2, WriterType DEF PeeringInv, PeeringTypeOK
  <2> HIDE DEF W
  <2>4. /\ submission' \in Submission /\ submission'.stage = "save" /\ submission'.key = k
        /\ submission'.isNonWoT = submission.isNonWoT
        /\ submission'.acceptNonWoT = submission.acceptNonWoT /\ submission'.block = submission.block
        /\ submission'.eraseIfAlreadyRecorded = submission.eraseIfAlreadyRecorded
    BY <1>1, <2>1 DEF Submission
  <2>5. raced \subseteq raced' /\ raced' \subseteq AnyPeer /\ ((\E w \in writers : w.key = k) => k \in raced')
    BY <1>1, <2>1 DEF Overlap, PeeringInv, PeeringTypeOK
  <2>6. PeeringTypeOK'
    <3>1. writes' \in 0..MaxWrites
      BY <2>1, PeerFacts DEF PeeringInv, PeeringTypeOK
    <3>2. writers' \subseteq Writers
      BY <2>1, <2>3 DEF PeeringInv, PeeringTypeOK, Writers
    <3> QED BY <1>1, <2>4, <2>5, <3>1, <3>2 DEF PeeringInv, PeeringTypeOK, Writers
  <2>7. OneDocument'
    BY <1>1, <1>2, <2>1, <2>4 DEF PeeringInv, OneDocument
  <2>8. ASSUME NEW p \in AnyPeer \ raced'
        PROVE  OneRow(p)'
    <3>0. OneRow(p)
      BY <2>5, <2>8 DEF PeeringInv
    <3>1. CASE p # k
      <4>1. WritersOf(p)' = WritersOf(p)
        BY <2>1, <2>3, <3>1 DEF WritersOf
      <4> QED BY <1>1, <2>4, <3>0, <4>1, RowKept DEF RowsOf
    <3>2. CASE p = k
      <4>1. \A w \in writers : w.key # p
        BY <2>5, <2>8, <3>2
      <4>2. submission.acceptNonWoT \/ W.row.block >= newest[p]
        <5> SUFFICES ASSUME ~submission.acceptNonWoT PROVE W.row.block >= newest[p]
          OBVIOUS
        <5>1. submission.block \in Nat /\ newest[p] \in Nat
          BY <1>1, <3>2 DEF Doc, PeeringInv, PeeringTypeOK
        <5>2. W.row.block = submission.block /\ ~submission.eraseIfAlreadyRecorded
          BY <1>1, <2>2, <2>3 DEF PeeringInv, OneDocument
        <5>3. CASE Known(p)
          <6>1. Found(p) \in rows /\ Found(p).key = p
            BY <5>3, RowFound DEF PeeringInv
          <6>2. Found(p).block = newest[p]
            BY <3>0, <6>1, Zenon DEF OneRow
          <6>3. ~(submission.block <= Found(p).block)
            BY <1>4, <3>2, <5>2, <5>3 DEF Refused
          <6> QED BY <5>1, <5>2, <6>2, <6>3
        <5>4. CASE ~Known(p)
          <6>1. \A q \in rows : q.key # p
            BY <5>4 DEF Known, RowsOf
          <6>2. newest[p] = 0
            BY <3>0, <4>1, <6>1, Zenon DEF OneRow
          <6> QED BY <5>1, <5>2, <6>2
        <5> QED BY <5>3, <5>4
      <4>3. \A w \in writers' : w.key = p => w = W
        BY <2>1, <4>1
      <4>4. W \in writers' /\ W.key = p
        BY <2>1, <2>3, <3>2
      <4> QED BY <1>1, <2>3, <2>4, <3>0, <4>2, <4>3, <4>4 DEF OneRow
    <3> QED BY <3>1, <3>2
  <2>9. RoomCounted'
    <3>1. NonWoT' = NonWoT
      BY <1>1 DEF NonWoT
    <3>2. Entering' \subseteq Entering
      <4>1. k \in AnyPeer
        BY <1>1
      <4> QED BY <2>1, <2>3, <2>4, <4>1 DEF Entering
    <3> QED BY <2>5, <3>1, <3>2, RoomKept DEF PeeringInv
  <2>10. RowsNumbered'
    <3>1. IsFiniteSet(writers) /\ Cardinality(writers) <= writes /\ writes \in Nat
      BY PeerFacts DEF PeeringInv, RowsNumbered, PeeringTypeOK
    <3>2. IsFiniteSet(writers') /\ Cardinality(writers') <= writes + 1
      BY <2>1, <3>1, OneMore
    <3> QED BY <1>1, <2>1, <2>3, <3>2 DEF PeeringInv, RowsNumbered
  <2> QED BY <2>6, <2>7, <2>8, <2>9, <2>10 DEF PeeringInv
<1> QED BY <1>3, <1>4

\* savePeer, first half.
LEMMA DeleteStep ==
    ASSUME PeeringInv, NEW w \in writers, Delete(w)
    PROVE  PeeringInv'
<1> DEFINE v == [w EXCEPT !.stage = "insert"]
<1>1. /\ w \in Writers /\ v \in Writers /\ v.key = w.key /\ v.row = w.row /\ v.kind = w.kind
      /\ v.stage = "insert" /\ w.stage = "delete"
  BY DEF Delete, PeeringInv, PeeringTypeOK, Writers
<1>2. /\ writers' = (writers \ {w}) \cup {v}
      /\ rows' = rows \ RowsOf(w.key)
      /\ UNCHANGED <<submission, selfMember, current, signing, tests, newest, raced, writes>>
  BY DEF Delete, Saving
<1> HIDE DEF v
<1>3. PeeringTypeOK'
  <2>1. writers' \subseteq Writers
    BY <1>1, <1>2 DEF PeeringInv, PeeringTypeOK, Writers
  <2> QED BY <1>2, <2>1 DEF PeeringInv, PeeringTypeOK, Writers
<1>4. OneDocument'
  BY <1>1, <1>2 DEF PeeringInv, OneDocument
<1>5. ASSUME NEW p \in AnyPeer \ raced'
      PROVE  OneRow(p)'
  <2>0. OneRow(p)
    BY <1>2, <1>5 DEF PeeringInv
  <2>1. CASE p # w.key
    <3>1. WritersOf(p)' = WritersOf(p) /\ RowsOf(p)' = RowsOf(p)
      BY <1>1, <1>2, <2>1 DEF WritersOf, RowsOf
    <3> QED BY <1>2, <2>0, <3>1, RowKept
  <2>2. CASE p = w.key
    <3>1. \A u \in writers' : u.key = p => u = v
      <4>1. \A u \in writers : u.key = p => u = w
        BY <2>0, <2>2, Zenon DEF OneRow
      <4> QED BY <1>2, <4>1
    <3>2. v \in writers' /\ v.key = p
      BY <1>1, <1>2, <2>2
    <3>3. \A r \in rows' : r.key # p
      BY <1>2, <2>2 DEF RowsOf
    <3>4. /\ w.kind = "status" => w.row.block = newest[p]
          /\ w.kind = "document" => submission.acceptNonWoT \/ w.row.block >= newest[p]
      BY <2>0, <2>2, Zenon DEF OneRow
    <3> QED BY <1>1, <1>2, <3>1, <3>2, <3>3, <3>4 DEF OneRow
  <2> QED BY <2>1, <2>2
<1>6. RoomCounted'
  <2>1. NonWoT' \subseteq NonWoT
    BY <1>2 DEF NonWoT
  <2>2. Entering' \subseteq Entering
    BY <1>1, <1>2 DEF Entering
  <2> QED BY <1>2, <2>1, <2>2, RoomKept DEF PeeringInv
<1>7. RowsNumbered'
  <2>1. IsFiniteSet(writers) /\ Cardinality(writers) <= writes /\ IsFiniteSet(rows)
    BY DEF PeeringInv, RowsNumbered
  <2>2. /\ IsFiniteSet(writers \ {w}) /\ Cardinality(writers \ {w}) = Cardinality(writers) - 1
        /\ Cardinality(writers) \in Nat /\ Cardinality(writers \ {w}) \in Nat
    <3>1. IsFiniteSet(writers \ {w}) /\ Cardinality(writers \ {w}) = Cardinality(writers) - 1
      BY <2>1, FS_RemoveElement
    <3> QED BY <2>1, <3>1, FS_CardinalityType
  <2>3. writes \in Nat /\ writes - 1 \in Nat /\ Cardinality(writers \ {w}) <= writes - 1
    <3>1. writes \in Nat
      BY PeerFacts DEF PeeringInv, PeeringTypeOK
    <3> QED BY <2>1, <2>2, <3>1
  <2>4. IsFiniteSet(writers') /\ Cardinality(writers') <= writes
    <3>1. /\ IsFiniteSet((writers \ {w}) \cup {v})
          /\ Cardinality((writers \ {w}) \cup {v}) <= (writes - 1) + 1
      BY <2>2, <2>3, OneMore
    <3> QED BY <1>2, <2>3, <3>1
  <2>5. IsFiniteSet(rows')
    BY <1>2, <2>1, FS_Subset
  <2>6. \A u \in writers' : u.row.key = u.key
    BY <1>1, <1>2 DEF PeeringInv, RowsNumbered
  <2> QED BY <1>2, <2>4, <2>5, <2>6 DEF RowsNumbered
<1> QED BY <1>3, <1>4, <1>5, <1>6, <1>7 DEF PeeringInv

\* savePeer, second half: the row that was read, changed, is the only one, unless another writer came in between.
LEMMA InsertStep ==
    ASSUME PeeringInv, NEW w \in writers, Insert(w)
    PROVE  PeeringInv'
<1> DEFINE r == [w.row EXCEPT !.id = NextId(w.key)]
<1>0. /\ IsFiniteSet(writers) /\ Cardinality(writers) <= writes /\ writes \in Nat /\ IsFiniteSet(rows)
      /\ Cardinality(writers) \in Nat
  BY FS_CardinalityType, PeerFacts DEF PeeringInv, RowsNumbered, PeeringTypeOK
<1>1. /\ w.stage = "insert" /\ writers' = writers \ {w} /\ rows' = rows \cup {r}
      /\ UNCHANGED <<selfMember, current, tests, raced, writes>>
  BY DEF Insert
<1>2. /\ w.key \in AnyPeer /\ newest \in [AnyPeer -> Doc]
      /\ w.row \in Row /\ w.row.block \in Doc /\ w.kind \in {"document", "status"} /\ w.row.key = w.key
  BY DEF PeeringInv, PeeringTypeOK, Row, RowsNumbered
<1>3. NextId(w.key) \in Nat
  BY <1>0 DEF NextId
<1>4. r \in Row /\ r.key = w.key /\ r.block = w.row.block /\ r.nonWoT = w.row.nonWoT
  BY <1>2, <1>3 DEF Row
<1> HIDE DEF r
<1>5. /\ w.kind = "document" =>
           /\ newest' = [newest EXCEPT ![w.key] = IF submission.acceptNonWoT THEN w.row.block
                                                  ELSE Max({@, w.row.block})]
           /\ submission' = NoSubmission
      /\ w.kind # "document" => newest' = newest /\ submission' = submission /\ signing' = signing
      /\ signing' = signing \/ signing' = [stage |-> "read", block |-> 0]
  BY DEF Insert
<1>6. w.kind = "document" => newest'[w.key] \in Doc /\ (OneRow(w.key) => newest'[w.key] = w.row.block)
  <2> SUFFICES ASSUME w.kind = "document"
               PROVE  newest'[w.key] \in Doc /\ (OneRow(w.key) => newest'[w.key] = w.row.block)
    OBVIOUS
  <2>1. newest[w.key] \in Doc /\ newest[w.key] \in Nat /\ w.row.block \in Nat
    BY <1>2 DEF Doc
  <2>2. CASE submission.acceptNonWoT
    BY <1>2, <1>5, <2>2
  <2>3. CASE ~submission.acceptNonWoT
    <3>1. newest'[w.key] = IF newest[w.key] <= w.row.block THEN w.row.block ELSE newest[w.key]
      BY <1>2, <1>5, <2>1, <2>3, LargerOfTwo
    <3>2. OneRow(w.key) => w.row.block >= newest[w.key]
      BY <2>3, Zenon DEF OneRow
    <3> QED BY <1>2, <2>1, <3>1, <3>2
  <2> QED BY <2>2, <2>3
<1>7. PeeringTypeOK'
  <2>1. newest' \in [AnyPeer -> Doc]
    BY <1>2, <1>5, <1>6
  <2>2. signing' \in [stage : {"none", "read", "write"}, block : Doc]
    BY <1>5, PeerFacts DEF PeeringInv, PeeringTypeOK
  <2>3. submission' \in Submission
    BY <1>2, <1>5, PeerFacts DEF PeeringInv, PeeringTypeOK
  <2> QED BY <1>1, <1>4, <2>1, <2>2, <2>3 DEF PeeringInv, PeeringTypeOK
<1>8. OneDocument'
  <2>1. CASE w.kind = "document"
    BY <1>1, <1>5, <2>1 DEF PeeringInv, OneDocument, NoSubmission
  <2>2. CASE w.kind # "document"
    BY <1>1, <1>5, <2>2 DEF PeeringInv, OneDocument
  <2> QED BY <2>1, <2>2
<1>9. ASSUME NEW p \in AnyPeer \ raced'
      PROVE  OneRow(p)'
  <2>0. OneRow(p)
    BY <1>1, <1>9 DEF PeeringInv
  <2>1. CASE p # w.key
    <3>1. WritersOf(p)' = WritersOf(p) /\ RowsOf(p)' = RowsOf(p)
      BY <1>1, <1>4, <2>1 DEF WritersOf, RowsOf
    <3>2. newest'[p] = newest[p]
      BY <1>2, <1>5, <2>1
    <3>3. (\E u \in writers : u.key = p /\ u.kind = "document") => submission' = submission
      <4>1. ASSUME NEW u \in writers, u.key = p, u.kind = "document" PROVE w.kind # "document"
        BY <2>1, <4>1 DEF PeeringInv, OneDocument
      <4> QED BY <1>5, <4>1
    <3> QED BY <2>0, <3>1, <3>2, <3>3, RowKept
  <2>2. CASE p = w.key
    <3>1. /\ \A u \in writers : u.key = p => u = w
          /\ \A q \in rows : q.key # p
          /\ w.kind = "status" => w.row.block = newest[p]
      BY <1>1, <2>0, <2>2, Zenon DEF OneRow
    <3>2. \A u \in writers' : u.key # p
      BY <1>1, <3>1
    <3>3. \A q \in rows' : q.key = p => q = r
      BY <1>1, <3>1
    <3>4. newest'[p] = r.block
      BY <1>2, <1>4, <1>5, <1>6, <2>0, <2>2, <3>1
    <3>5. r \in rows' /\ r.key = p
      BY <1>1, <1>4, <2>2
    <3> QED BY <3>2, <3>3, <3>4, <3>5 DEF OneRow
  <2> QED BY <2>1, <2>2
<1>10. RoomCounted'
  <2>1. Entering' \subseteq Entering
    BY <1>1, <1>5 DEF Entering, NoSubmission
  <2>2. NonWoT' \subseteq NonWoT \cup Entering
    BY <1>1, <1>4 DEF NonWoT, Entering
  <2> QED BY <1>1, <2>1, <2>2, RoomKept DEF PeeringInv
<1>11. RowsNumbered'
  <2>1. IsFiniteSet(rows') /\ IsFiniteSet(writers') /\ Cardinality(writers') = Cardinality(writers) - 1
    BY <1>0, <1>1, FS_AddElement, FS_RemoveElement
  <2> QED BY <1>0, <1>1, <2>1 DEF PeeringInv, RowsNumbered
<1> QED BY <1>7, <1>8, <1>9, <1>10, <1>11 DEF PeeringInv

\* setPeerUP and setPeerDown: a peer that was found is about to be saved.
LEMMA SetPeerStep ==
    ASSUME PeeringInv, NEW p \in AnyPeer, NEW up \in BOOLEAN, SetPeer(p, up), tests' \subseteq Peer,
           UNCHANGED <<rows, submission, selfMember, current, signing, newest>>
    PROVE  PeeringInv'
<1> DEFINE r == [Found(p) EXCEPT !.up = up]
           W == Writer(r, "status")
<1>1. /\ Found(p) \in rows /\ Found(p) \in Row /\ Found(p).key = p
      /\ r \in Row /\ r.key = p /\ r.block = Found(p).block /\ r.nonWoT = Found(p).nonWoT
  <2>1. Known(p) /\ PeeringTypeOK
    BY DEF SetPeer, PeeringInv
  <2>2. Found(p) \in rows /\ Found(p) \in Row /\ Found(p).key = p
    BY <2>1, RowFound
  <2> QED BY <2>2 DEF Row
<1>2. writes < MaxWrites /\ writes' = writes + 1 /\ writers' = writers \cup {W} /\ raced' = Overlap(p)
  BY DEF SetPeer
<1> HIDE DEF r
<1>3. /\ W \in Writers /\ W.key = p /\ W.row.key = p /\ W.row.block = r.block
      /\ W.row.nonWoT = r.nonWoT /\ W.kind = "status" /\ W.stage = "delete"
  BY <1>1, <1>2, WriterType DEF PeeringInv, PeeringTypeOK
<1> HIDE DEF W
<1>4. raced \subseteq raced' /\ raced' \subseteq AnyPeer /\ ((\E w \in writers : w.key = p) => p \in raced')
  BY <1>2 DEF Overlap, PeeringInv, PeeringTypeOK
<1>5. PeeringTypeOK'
  <2>1. writes' \in 0..MaxWrites
    BY <1>2, PeerFacts DEF PeeringInv, PeeringTypeOK
  <2>2. writers' \subseteq Writers
    BY <1>2, <1>3 DEF PeeringInv, PeeringTypeOK, Writers
  <2> QED BY <1>4, <2>1, <2>2 DEF PeeringInv, PeeringTypeOK, Writers
<1>6. OneDocument'
  BY <1>2, <1>3 DEF PeeringInv, OneDocument
<1>7. ASSUME NEW q \in AnyPeer \ raced'
      PROVE  OneRow(q)'
  <2>0. OneRow(q)
    BY <1>4, <1>7 DEF PeeringInv
  <2>1. CASE q # p
    <3>1. WritersOf(q)' = WritersOf(q)
      BY <1>2, <1>3, <2>1 DEF WritersOf
    <3> QED BY <2>0, <3>1, RowKept DEF RowsOf
  <2>2. CASE q = p
    <3>1. W \in writers' /\ W.key = q /\ \A w \in writers' : w.key = q => w = W
      BY <1>2, <1>3, <1>4, <1>7, <2>2
    <3>2. W.row.block = newest[q]
      BY <1>1, <1>3, <2>0, <2>2, Zenon DEF OneRow
    <3>3. W.row.nonWoT => q \in NonWoT'
      BY <1>1, <1>3, <2>2 DEF NonWoT
    <3> QED BY <1>3, <2>0, <3>1, <3>2, <3>3 DEF OneRow
  <2> QED BY <2>1, <2>2
<1>8. RoomCounted'
  <2>1. NonWoT' = NonWoT
    BY DEF NonWoT
  <2>2. Entering' \subseteq Entering \cup NonWoT
    BY <1>1, <1>2, <1>3 DEF Entering, NonWoT
  <2> QED BY <1>4, <2>1, <2>2, RoomKept DEF PeeringInv
<1>9. RowsNumbered'
  <2>1. IsFiniteSet(writers) /\ Cardinality(writers) <= writes /\ writes \in Nat
    BY PeerFacts DEF PeeringInv, RowsNumbered, PeeringTypeOK
  <2>2. IsFiniteSet(writers') /\ Cardinality(writers') <= writes + 1
    BY <1>2, <2>1, OneMore
  <2> QED BY <1>2, <1>3, <2>2 DEF PeeringInv, RowsNumbered
<1> QED BY <1>5, <1>6, <1>7, <1>8, <1>9 DEF PeeringInv

LEMMA TimeStep ==
    ASSUME PeeringInv, NEW r \in rows, TimePasses(r)
    PROVE  PeeringInv'
<1> DEFINE t == [r EXCEPT !.long = TRUE]
<1>1. /\ rows' = (rows \ {r}) \cup {t}
      /\ UNCHANGED <<submission, writers, selfMember, current, signing, tests, newest, raced, writes>>
  BY DEF TimePasses
<1>2. r \in Row /\ t \in Row /\ t.key = r.key /\ t.block = r.block /\ t.nonWoT = r.nonWoT
  BY DEF PeeringInv, PeeringTypeOK, Row
<1> HIDE DEF t
<1>3. PeeringTypeOK' /\ OneDocument'
  BY <1>1, <1>2 DEF PeeringInv, PeeringTypeOK, OneDocument
<1>4. NonWoT' = NonWoT /\ Entering' = Entering
  <2>1. Entering' = Entering
    BY <1>1 DEF Entering
  <2>2. NonWoT' = NonWoT
    BY <1>1, <1>2 DEF NonWoT
  <2> QED BY <2>1, <2>2
<1>5. ASSUME NEW p \in AnyPeer \ raced'
      PROVE  OneRow(p)'
  <2>0. OneRow(p)
    BY <1>1, <1>5 DEF PeeringInv
  <2>1. CASE p # r.key
    <3>1. RowsOf(p)' = RowsOf(p)
      BY <1>1, <1>2, <2>1 DEF RowsOf
    <3> QED BY <1>1, <2>0, <3>1, RowKept DEF WritersOf
  <2>2. CASE p = r.key
    <3>1. \A q \in rows : q.key = p => q = r
      BY <2>0, <2>2, Zenon DEF OneRow
    <3>2. t \in rows' /\ \A q \in rows' : q.key = p => q = t
      BY <1>1, <3>1
    <3>3. t.block = newest[p]
      BY <1>2, <2>0, <2>2, Zenon DEF OneRow
    <3>4. \A w \in writers : w.key = p =>
            /\ \A v \in writers : v.key = p => v = w
            /\ w.stage # "insert"
            /\ w.kind = "status" => w.row.block = newest[p]
            /\ w.kind = "status" /\ w.stage = "delete" /\ w.row.nonWoT => p \in NonWoT
            /\ w.kind = "document" => submission.acceptNonWoT \/ w.row.block >= newest[p]
      BY <2>0, <2>2, Zenon DEF OneRow
    <3> QED BY <1>1, <1>2, <1>4, <2>2, <3>2, <3>3, <3>4 DEF OneRow
  <2> QED BY <2>1, <2>2
<1>6. RoomCounted'
  BY <1>1, <1>4 DEF PeeringInv, RoomCounted
<1>7. RowsNumbered'
  <2>1. IsFiniteSet(rows \ {r})
    BY FS_Subset DEF PeeringInv, RowsNumbered
  <2>2. IsFiniteSet(rows')
    BY <1>1, <2>1, FS_AddElement
  <2> QED BY <1>1, <2>2 DEF PeeringInv, RowsNumbered
<1> QED BY <1>3, <1>5, <1>6, <1>7 DEF PeeringInv

LEMMA ElsewhereStep ==
    ASSUME PeeringInv, Elsewhere
    PROVE  PeeringInv'
<1>1. CASE WriteSelfPeer
  <2>1. /\ signing.block \in Doc /\ signing.block <= current
        /\ signing' \in [stage : {"none", "read", "write"}, block : Doc] /\ signing'.stage # "write"
    BY <1>1, PeerFacts DEF WriteSelfPeer, PeeringInv, PeeringTypeOK, OneDocument
  <2> QED BY <1>1, <2>1, PushStep, PeerFacts DEF WriteSelfPeer
<1>2. ASSUME NEW p \in Peer, SetPeerUP(p) \/ SetPeerDown(p) \/ TestPeer(p)
      PROVE  PeeringInv'
  <2>1. PICK up \in BOOLEAN :
          /\ SetPeer(p, up) /\ UNCHANGED <<rows, submission, selfMember, current, signing, newest>>
    BY <1>2 DEF SetPeerUP, SetPeerDown, TestPeer
  <2>2. tests' \subseteq Peer /\ p \in AnyPeer
    BY <1>2, PeerFacts DEF SetPeerUP, SetPeerDown, TestPeer, PeeringInv, PeeringTypeOK
  <2> QED BY <2>1, <2>2, SetPeerStep
<1>3. ASSUME NEW p \in Peer, NEW up \in BOOLEAN, Answers(p, up)
      PROVE  PeeringInv'
  <2>1. tests' \subseteq Peer /\ p \in AnyPeer
    BY <1>3, PeerFacts DEF Answers, PeeringInv, PeeringTypeOK
  <2>2. CASE Known(p)
    BY <1>3, <2>1, <2>2, SetPeerStep DEF Answers
  <2>3. CASE ~Known(p)
    <3>1. UNCHANGED <<writers, raced, writes, rows, submission, selfMember, current, signing, newest>>
      BY <1>3, <2>3 DEF Answers
    <3>2. PeeringTypeOK' /\ OneDocument'
      BY <2>1, <3>1 DEF PeeringInv, PeeringTypeOK, OneDocument
    <3> QED BY <3>1, <3>2, TableLeftAlone
  <2> QED BY <2>2, <2>3
<1>4. ASSUME NEW r \in rows, TimePasses(r)
      PROVE  PeeringInv'
  BY <1>4, TimeStep
<1>5. CASE NewBlock \/ Membership \/ GenerateSelfPeer \/ SignSelfPeer
  BY <1>5, AroundStep
<1> QED BY <1>1, <1>2, <1>3, <1>4, <1>5 DEF Elsewhere

LEMMA PeeringNextInv == PeeringInv /\ [PeeringNext]_peeringVars => PeeringInv'
<1> SUFFICES ASSUME PeeringInv, [PeeringNext]_peeringVars PROVE PeeringInv'
  OBVIOUS
<1>1. ASSUME NEW p \in AnyPeer, NEW b \in Doc, SubmitP(p, b)
      PROVE  PeeringInv'
  <2>1. signing' \in [stage : {"none", "read", "write"}, block : Doc] /\ signing' = signing
    BY <1>1 DEF SubmitP, PeeringInv, PeeringTypeOK
  <2> QED BY <1>1, <2>1, PushStep DEF SubmitP
<1>2. ASSUME NEW p \in AnyPeer, NEW b \in Doc, NEW erase \in BOOLEAN, SubmitByCommand(p, b, erase)
      PROVE  PeeringInv'
  BY <1>2, SubmitByCommandStep
<1>3. CASE ResetPeers
  BY <1>3, ResetPeersStep
<1>4. CASE CleanLongDownPeers
  BY <1>4, CleanStep
<1>5. CASE CheckRoom
  BY <1>5, RoomStep
<1>6. CASE Check
  BY <1>6, CheckStep
<1>7. ASSUME NEW w \in writers, Delete(w) \/ Insert(w)
      PROVE  PeeringInv'
  BY <1>7, DeleteStep, InsertStep
<1>8. CASE NodeRuns /\ Elsewhere
  BY <1>8, ElsewhereStep
<1>9. CASE UNCHANGED peeringVars
  <2>1. PeeringTypeOK' /\ OneDocument'
    BY <1>9 DEF peeringVars, PeeringInv, PeeringTypeOK, OneDocument
  <2> QED BY <1>9, <2>1, TableLeftAlone DEF peeringVars
<1> QED
  BY <1>1, <1>2, <1>3, <1>4, <1>5, <1>6, <1>7, <1>8, <1>9 DEF PeeringNext

(***************************************************************************)
(* submitP, savePeer and the changes of status: whatever the order of the    *)
(* documents, of the connections and of the commands, a key of which no two  *)
(* writers overlapped has one row, of its newest document, or of that of     *)
(* the last command, and the rows of the peers out of the web of trust are   *)
(* no more than the limit, but for those of the raced keys.                 *)
(***************************************************************************)
THEOREM PeersGoForward == PeeringSpec => []PeersAdvance
<1>1. PeeringInit => PeeringInv
  BY PeeringInitInv
<1>2. PeeringInv /\ [PeeringNext]_peeringVars => PeeringInv'
  BY PeeringNextInv
<1>3. PeeringInv => PeersAdvance
  BY InvGivesPeersAdvance
<1> QED BY <1>1, <1>2, <1>3, PTL DEF PeeringSpec

-----------------------------------------------------------------------------
(***************************************************************************)
(* The pulling of blocks.  Nothing is said of a pull once a chain moved      *)
(* during it, but for its types and the root that all chains share.  Before, *)
(* the pull follows the head it started from: its first chunk is what comes  *)
(* next on the remote chain, so it is applied, or is another branch, by what *)
(* the last common block is; and a search keeps that block between its       *)
(* bounds, which gives the three ways to end that the property allows.      *)
(***************************************************************************)
\* All chains start with the same block.
OfRoot(b) == b \in Seq(Label) /\ b # <<>> /\ b[1] = local[1]

\* The type of a pull.
PullState ==
    [stage : {"idle", "chunks", "fork", "search", "branch", "done", "failed"}, seen : Seq(Label), from : Nat,
     apply : Seq(Seq(Label)), applied : {"nothing", "todo", "written", "yes", "no"}, got : Seq(Seq(Label)),
     fork : Seq(Label), ahead : Seq(Label), top : Nat, bottom : Nat, look : Seq(Label), mine : Seq(Label)]

\* Every block a node keeps or downloads comes from the root of its chain.
Rooted(p) ==
    /\ p.stage # "idle" => p.from >= 1
    /\ p.applied = "todo" => p.apply # <<>>
    /\ \A i \in DOMAIN p.apply : OfRoot(p.apply[i])
    /\ p.got # <<NoBlock>> => \A i \in DOMAIN p.got : OfRoot(p.got[i])

OneRoot ==
    /\ OfRoot(local) /\ \A b \in stored : OfRoot(b)
    /\ \A r \in Remote : OfRoot(remote[r]) /\ Rooted(pull[r])

NextBlocks(r) == Blocks(remote[r], Len(local) + 1, Chunk)
CommonLength(r) == Len(Common(local, remote[r]))

\* What follows is said of the pull p from r, when the node knows the blocks of `known`.
\* The first chunk follows the head, and is known, or is of another branch.
Judged(r, p, known) ==
    /\ p.apply = NextBlocks(r) /\ p.apply # <<>>
    /\ \/ CommonLength(r) = Len(local) /\ p.fork = NoBlock /\ ToSet(p.apply) \subseteq known
       \/ CommonLength(r) < Len(local) /\ p.fork = p.apply[1] /\ p.ahead = remote[r]

\* The last common block is between the bounds of the search; the lower one, once moved, is below it.
Bounded(r, p) ==
    /\ Len(local) < Len(remote[r]) /\ CommonLength(r) < Len(local)
    /\ Bottom <= p.bottom /\ p.bottom <= CommonLength(r) /\ CommonLength(r) < p.top /\ p.top <= Len(local) + 1
    /\ p.bottom > Bottom => p.bottom < CommonLength(r)

Searched(r, p) ==
    /\ Bounded(r, p)
    /\ p.bottom <= Len(p.look) /\ Len(p.look) < p.top
    /\ p.look = UpTo(remote[r], Len(p.look)) /\ p.mine = UpTo(local, Len(p.look))

Followed(r, p, known) ==
    /\ p.stage # "idle" => p.seen = local
    /\ p.stage = "chunks" =>
        \/ /\ p.applied = "nothing" /\ p.from = Len(local) + 1 /\ p.fork = NoBlock
           /\ p.got \in {<<NoBlock>>, NextBlocks(r)}
        \/ p.applied = "todo" /\ p.apply = NextBlocks(r) /\ p.apply # <<>> /\ p.fork = NoBlock
        \/ p.applied = "written" /\ Judged(r, p, known) /\ p.fork = NoBlock
        \/ p.applied = "no" /\ Judged(r, p, known)
    /\ p.stage = "fork" => Judged(r, p, known) \/ (NextBlocks(r) = <<>> /\ p.fork = NoBlock)
    /\ p.stage = "search" => Searched(r, p)
    /\ p.stage = "branch" => Bottom <= CommonLength(r) /\ CommonLength(r) < Len(local)

\* PullIsComplete, of one pull.
CompletePull(r, p, known) ==
    LET c == remote[r]  b == Common(local, c) IN
    /\ p.stage = "failed" => Len(b) = Bottom
    /\ p.stage = "branch" => p.look = b
    /\ p.stage = "done" =>
         IF b = local THEN ToSet(Blocks(c, Len(b) + 1, Chunk)) \subseteq known
         ELSE AheadOf(c, local) /\ Len(b) > Bottom => ToSet(Blocks(c, Len(b) + 1, WindowSize)) \subseteq known

Tracked(r, p, known) == Followed(r, p, known) /\ CompletePull(r, p, known)

PullingInv ==
    /\ PullingTypeOK /\ pull \in [Remote -> PullState] /\ OneRoot
    /\ \A r \in Remote \ moved : Tracked(r, pull[r], KnownBlocks)

----------------------------------------------------------------------------
(* Parts of chains. *)

LEMMA PullingFacts ==
    /\ WindowSize \in Nat \ {0} /\ Chunk \in Nat \ {0} /\ HeadAdvance \in Nat \ {0} /\ MaxLength \in Nat \ {0}
    /\ MaxMoves \in Nat /\ MaxPulls \in Nat /\ StartChains \subseteq Seq(Label) \ {<<>>}
BY PullingAssumption

\* The larger and the smaller of two numbers.
LEMMA MaxMin ==
    ASSUME NEW a \in Int, NEW b \in Int
    PROVE  Max({a, b}) = (IF a >= b THEN a ELSE b) /\ Min({a, b}) = (IF a <= b THEN a ELSE b)
<1>1. \E x \in {a, b} : \A y \in {a, b} : x >= y
  OBVIOUS
<1>2. Max({a, b}) \in {a, b} /\ \A y \in {a, b} : Max({a, b}) >= y
  BY <1>1 DEF Max
<1>3. \E x \in {a, b} : \A y \in {a, b} : x <= y
  OBVIOUS
<1>4. Min({a, b}) \in {a, b} /\ \A y \in {a, b} : Min({a, b}) <= y
  BY <1>3 DEF Min
<1> QED BY <1>2, <1>4

\* A beginning of a chain.
LEMMA UpToFacts ==
    ASSUME NEW c \in Seq(Label), NEW i \in Int, i <= Len(c)
    PROVE  /\ UpTo(c, i) \in Seq(Label)
           /\ i >= 0 => Len(UpTo(c, i)) = i
           /\ \A k \in 1..i : UpTo(c, i)[k] = c[k]
<1>1. Len(c) \in Nat /\ \A k \in 1..i : c[k] \in Label
  BY LenProperties
<1>2. /\ SubSeq(c, 1, i) \in Seq(Label)
      /\ Len(SubSeq(c, 1, i)) = IF 1 <= i THEN i - 1 + 1 ELSE 0
      /\ \A k \in 1..i - 1 + 1 : SubSeq(c, 1, i)[k] = c[1 + k - 1]
  <2> HIDE <1>1
  <2>1. 1 \in Int /\ i \in Int
    OBVIOUS
  <2> QED BY <1>1, <2>1, SubSeqProperties
<1> QED BY <1>1, <1>2 DEF UpTo

\* Two chains have the same beginning when they have the same labels.
LEMMA SameBeginning ==
    ASSUME NEW c \in Seq(Label), NEW d \in Seq(Label), NEW i \in Nat, i <= Len(c), i <= Len(d)
    PROVE  UpTo(c, i) = UpTo(d, i) <=> \A k \in 1..i : c[k] = d[k]
<1>1. /\ UpTo(c, i) \in Seq(Label) /\ Len(UpTo(c, i)) = i /\ \A k \in 1..i : UpTo(c, i)[k] = c[k]
      /\ UpTo(d, i) \in Seq(Label) /\ Len(UpTo(d, i)) = i /\ \A k \in 1..i : UpTo(d, i)[k] = d[k]
  <2>1. i \in Int /\ i >= 0
    OBVIOUS
  <2>2. UpTo(c, i) \in Seq(Label) /\ Len(UpTo(c, i)) = i /\ \A k \in 1..i : UpTo(c, i)[k] = c[k]
    BY <2>1, UpToFacts
  <2>3. UpTo(d, i) \in Seq(Label) /\ Len(UpTo(d, i)) = i /\ \A k \in 1..i : UpTo(d, i)[k] = d[k]
    BY <2>1, UpToFacts
  <2> QED BY <2>2, <2>3
<1>2. ASSUME \A k \in 1..i : c[k] = d[k]
      PROVE  UpTo(c, i) = UpTo(d, i)
  BY <1>1, <1>2, SeqEqual
<1> QED BY <1>1, <1>2

LEMMA WholeChain == ASSUME NEW c \in Seq(Label) PROVE UpTo(c, Len(c)) = c
BY SubSeqFull DEF UpTo

LEMMA ShorterBeginning ==
    ASSUME NEW c \in Seq(Label), NEW i \in Nat, i <= Len(c), NEW j \in Nat, j <= i
    PROVE  UpTo(UpTo(c, i), j) = UpTo(c, j)
<1>1. UpTo(c, i) \in Seq(Label) /\ Len(UpTo(c, i)) = i /\ \A k \in 1..i : UpTo(c, i)[k] = c[k]
  BY UpToFacts
<1>2. Len(c) \in Nat
  BY LenProperties
<1> QED BY <1>1, <1>2, SameBeginning

LEMMA BeginningOfRoot ==
    ASSUME NEW c, OfRoot(c), NEW i \in 1..Len(c)
    PROVE  OfRoot(UpTo(c, i)) /\ Len(UpTo(c, i)) = i
<1>1. c \in Seq(Label) /\ Len(c) \in Nat
  BY LenProperties DEF OfRoot
<1>2. UpTo(c, i) \in Seq(Label) /\ Len(UpTo(c, i)) = i /\ UpTo(c, i)[1] = c[1]
  BY <1>1, UpToFacts
<1>3. UpTo(c, i) # <<>>
  BY <1>2, EmptySeq
<1> QED BY <1>2, <1>3 DEF OfRoot

LEMMA FunctionIsSequence ==
    ASSUME NEW S, NEW m \in Nat, NEW f \in [1..m -> S]
    PROVE  f \in Seq(S) /\ Len(f) = m
<1>1. f \in Seq(S)
  BY SeqDef
<1> QED BY <1>1, LenProperties

\* The blocks of a chain after one of them.
LEMMA BlocksFacts ==
    ASSUME NEW c, OfRoot(c), NEW i \in Nat \ {0}, NEW n \in Nat \ {0}
    PROVE  /\ Blocks(c, i, n) \in Seq(Seq(Label))
           /\ \A k \in DOMAIN Blocks(c, i, n) :
                /\ k \in Nat \ {0} /\ i + k - 1 <= Len(c) /\ Blocks(c, i, n)[k] = UpTo(c, i + k - 1)
                /\ OfRoot(Blocks(c, i, n)[k]) /\ Len(Blocks(c, i, n)[k]) = i + k - 1
           /\ Blocks(c, i, n) = <<>> <=> i > Len(c)
           /\ i <= Len(c) => 1 \in DOMAIN Blocks(c, i, n) /\ Blocks(c, i, n)[1] = UpTo(c, i)
<1>1. c \in Seq(Label) /\ Len(c) \in Nat
  BY LenProperties DEF OfRoot
<1>2. PICK l : l = Min({n, Len(c) - i + 1})
  OBVIOUS
<1>3. PICK m : m = Max({0, l})
  OBVIOUS
<1>4. PICK bl : bl = [k \in 1..m |-> UpTo(c, i + k - 1)]
  OBVIOUS
<1>5. Blocks(c, i, n) = bl
  BY <1>2, <1>3, <1>4 DEF Blocks
<1>6. l = IF n <= Len(c) - i + 1 THEN n ELSE Len(c) - i + 1
  <2>1. n \in Int /\ Len(c) - i + 1 \in Int
    BY <1>1
  <2> QED BY <1>2, <2>1, MaxMin
<1>7. m \in Nat /\ (m = 0 <=> i > Len(c)) /\ (m > 0 => m <= Len(c) - i + 1)
  <2>1. l \in Int
    BY <1>1, <1>6
  <2>2. m = IF 0 >= l THEN 0 ELSE l
    BY <1>3, <2>1, MaxMin
  <2> QED BY <1>1, <1>6, <2>2
<1>8. ASSUME NEW k \in 1..m
      PROVE  /\ k \in Nat \ {0} /\ i + k - 1 \in 1..Len(c) /\ bl[k] = UpTo(c, i + k - 1)
             /\ OfRoot(bl[k]) /\ Len(bl[k]) = i + k - 1 /\ bl[k] \in Seq(Label)
  <2>1. k \in Nat \ {0} /\ i + k - 1 \in 1..Len(c)
    BY <1>1, <1>7
  <2>2. bl[k] = UpTo(c, i + k - 1)
    BY <1>4
  <2>3. OfRoot(UpTo(c, i + k - 1)) /\ Len(UpTo(c, i + k - 1)) = i + k - 1
    BY <2>1, BeginningOfRoot
  <2> QED BY <2>1, <2>2, <2>3 DEF OfRoot
<1>9. bl \in Seq(Seq(Label)) /\ Len(bl) = m /\ DOMAIN bl = 1..m
  <2>1. bl \in [1..m -> Seq(Label)]
    BY <1>4, <1>8
  <2> QED BY <1>7, <2>1, FunctionIsSequence
<1>10. bl = <<>> <=> m = 0
  <2>1. ASSUME m = 0
        PROVE  bl = <<>>
    BY <1>9, <2>1, EmptySeq
  <2>2. Len(<<>>) = 0
    BY EmptySeq
  <2> QED BY <1>9, <2>1, <2>2
<1>11. i <= Len(c) => 1 \in 1..m
  BY <1>1, <1>7
<1>12. 1 \in 1..m => bl[1] = UpTo(c, i)
  <2>1. i + 1 - 1 = i
    OBVIOUS
  <2> QED BY <1>8, <2>1
<1>13. \A k \in 1..m : i + k - 1 <= Len(c)
  BY <1>8, <1>1
<1>14. \A k \in DOMAIN bl :
          /\ k \in Nat \ {0} /\ i + k - 1 <= Len(c) /\ bl[k] = UpTo(c, i + k - 1)
          /\ OfRoot(bl[k]) /\ Len(bl[k]) = i + k - 1
  BY <1>8, <1>9, <1>13
<1>15. bl = <<>> <=> i > Len(c)
  BY <1>7, <1>10
<1> QED BY <1>5, <1>9, <1>11, <1>12, <1>14, <1>15

\* A set of numbers up to n has a last one.
LEMMA LastOne ==
    ASSUME NEW n \in Nat, NEW T \in SUBSET (1..n), T # {}
    PROVE  \E m \in T : \A x \in T : x <= m
<1> DEFINE Above(x) == {y \in T : x < y}
           A == {Above(x) : x \in T}
<1>1. IsFiniteSet(T) /\ \A x \in T : x \in Int
  <2>1. IsFiniteSet(1..n)
    BY FS_Interval
  <2>2. IsFiniteSet(T)
    BY <2>1, FS_Subset
  <2> QED BY <2>2
<1>2. A \subseteq FiniteSubsetsOf(T) /\ A # {}
  <2>1. A \subseteq SUBSET T
    OBVIOUS
  <2>2. PICK x \in T : TRUE
    OBVIOUS
  <2>3. Above(x) \in A
    OBVIOUS
  <2> QED BY <1>1, <2>1, <2>3, FS_FiniteSubsetsOfFinite
<1>3. PICK X \in A : \A Y \in A : <<Y, X>> \notin StrictSubsetOrdering(T)
  BY <1>2, FS_StrictSubsetOrderingWellFounded, WFMin
<1>4. PICK m \in T : X = Above(m)
  OBVIOUS
<1>5. ASSUME NEW x \in T, m < x
      PROVE  FALSE
  <2>1. Above(x) \subseteq Above(m)
    <3>1. m \in Int /\ x \in Int /\ \A y \in T : y \in Int
      BY <1>1
    <3>2. \A y \in T : x < y => m < y
      BY <1>5, <3>1
    <3> QED BY <3>2
  <2>2. x \in Above(m) /\ x \notin Above(x)
    BY <1>5
  <2>3. Above(x) \in A /\ Above(x) # Above(m)
    BY <2>2
  <2>4. <<Above(x), Above(m)>> \in StrictSubsetOrdering(T)
    BY <2>1, <2>3 DEF StrictSubsetOrdering
  <2> QED BY <1>3, <1>4, <2>3, <2>4
<1>6. \A x \in T : x <= m
  BY <1>1, <1>5
<1> QED BY <1>6

\* The last common block, by its number: what is common is what is not above it.
LEMMA CommonFacts ==
    ASSUME OfRoot(local), NEW c, OfRoot(c)
    PROVE  /\ Len(Common(local, c)) \in 1..Len(local) /\ Len(Common(local, c)) <= Len(c)
           /\ Common(local, c) = UpTo(local, Len(Common(local, c)))
           /\ Common(local, c) = UpTo(c, Len(Common(local, c)))
           /\ \A i \in 1..Len(local) : i <= Len(c) =>
                (UpTo(local, i) = UpTo(c, i) <=> i <= Len(Common(local, c)))
           /\ Common(local, c) = local <=> Len(Common(local, c)) = Len(local)
<1> DEFINE Same(i) == i <= Len(c) /\ \A k \in 1..i : local[k] = c[k]
           T == {i \in 1..Len(local) : Same(i)}
<1>1. /\ local \in Seq(Label) /\ Len(local) \in Nat \ {0}
      /\ c \in Seq(Label) /\ Len(c) \in Nat \ {0} /\ local[1] = c[1]
  BY EmptySeq DEF OfRoot
<1>2. ASSUME NEW i \in 1..Len(local)
      PROVE  /\ Len(UpTo(local, i)) = i
             /\ Has(c, UpTo(local, i)) <=> Same(i)
             /\ i <= Len(c) => (UpTo(local, i) = UpTo(c, i) <=> Same(i))
  <2>1. i \in Nat /\ i <= Len(local) /\ UpTo(local, i) \in Seq(Label) /\ Len(UpTo(local, i)) = i
    BY <1>1, UpToFacts
  <2>2. Has(c, UpTo(local, i)) <=> i <= Len(c) /\ UpTo(UpTo(local, i), i) = UpTo(c, i)
    BY <2>1 DEF Has, IsPrefix, UpTo
  <2>3. UpTo(UpTo(local, i), i) = UpTo(local, i)
    BY <2>1, WholeChain
  <2>4. i <= Len(c) => (UpTo(local, i) = UpTo(c, i) <=> \A k \in 1..i : local[k] = c[k])
    BY <1>1, <2>1, SameBeginning
  <2> QED BY <2>1, <2>2, <2>3, <2>4
<1>3. 1 \in T
  <2>1. \A k \in 1..1 : k = 1
    OBVIOUS
  <2> QED BY <1>1, <2>1
<1>4. PICK m \in T : \A x \in T : x <= m
  <2>1. T \in SUBSET (1..Len(local)) /\ T # {}
    BY <1>3
  <2> HIDE DEF T
  <2> QED BY <1>1, <2>1, LastOne
<1>5. \A i \in 1..Len(local) : i <= m => Same(i)
  <2>1. m \in 1..Len(local) /\ Same(m)
    BY <1>4
  <2> QED BY <1>1, <2>1
<1>6. \A i \in 1..Len(local) : Same(i) <=> i <= m
  BY <1>4, <1>5
<1> HIDE DEF Same, T
<1>7. m \in 1..Len(local) /\ Same(m)
  BY <1>4 DEF T
<1> DEFINE Answer(b) == Has(c, b) /\ \A i \in Len(b) + 1..Len(local) : ~Has(c, UpTo(local, i))
<1>8. UpTo(local, m) \in {UpTo(local, i) : i \in 1..Len(local)} /\ Answer(UpTo(local, m))
  <2>1. Has(c, UpTo(local, m)) /\ Len(UpTo(local, m)) = m
    BY <1>2, <1>7
  <2>2. ASSUME NEW i \in m + 1..Len(local)
        PROVE  ~Has(c, UpTo(local, i))
    <3>1. i \in 1..Len(local) /\ ~(i <= m)
      BY <1>1, <1>7
    <3> QED BY <1>2, <1>6, <3>1
  <2> QED BY <1>7, <2>1, <2>2
<1>9. ASSUME NEW b \in {UpTo(local, i) : i \in 1..Len(local)}, Answer(b)
      PROVE  b = UpTo(local, m)
  <2>1. PICK j \in 1..Len(local) : b = UpTo(local, j)
    OBVIOUS
  <2>2. Same(j) /\ Len(b) = j
    BY <1>2, <1>9, <2>1
  <2>3. j <= m
    BY <1>6, <2>2
  <2>4. ~(m \in j + 1..Len(local))
    BY <1>9, <2>2, <1>8
  <2>5. j = m
    BY <1>1, <1>7, <2>3, <2>4
  <2> QED BY <2>1, <2>5
<1>10. Common(local, c) = CHOOSE b \in {UpTo(local, i) : i \in 1..Len(local)} : Answer(b)
  BY DEF Common
<1> HIDE DEF Answer
<1>11. Common(local, c) = UpTo(local, m)
  BY <1>8, <1>9, <1>10
<1>12. Len(Common(local, c)) = m
  BY <1>2, <1>7, <1>11
<1>13. m <= Len(c) /\ UpTo(local, m) = UpTo(c, m)
  BY <1>2, <1>7 DEF Same
<1>14. \A i \in 1..Len(local) : i <= Len(c) => (UpTo(local, i) = UpTo(c, i) <=> i <= m)
  BY <1>2, <1>6
<1>15. Common(local, c) = local <=> m = Len(local)
  <2>1. m = Len(local) => UpTo(local, m) = local
    BY <1>1, WholeChain
  <2> QED BY <1>11, <1>12, <2>1
<1> QED BY <1>7, <1>11, <1>12, <1>13, <1>14, <1>15

\* The lowest block that a search may look at.
LEMMA BottomFacts ==
    ASSUME OfRoot(local)
    PROVE  Bottom \in 1..Len(local) /\ Bottom >= Len(local) - WindowSize
<1>1. Len(local) \in Nat \ {0} /\ WindowSize \in Nat \ {0}
  BY EmptySeq, PullingFacts DEF OfRoot
<1>2. Bottom = IF 1 >= Len(local) - WindowSize THEN 1 ELSE Len(local) - WindowSize
  <2>1. 1 \in Int /\ Len(local) - WindowSize \in Int
    BY <1>1
  <2> QED BY <2>1, MaxMin DEF Bottom
<1> QED BY <1>1, <1>2

\* What a pull asks first, and when it is another branch.
LEMMA NextFacts ==
    ASSUME OfRoot(local), NEW r \in Remote, OfRoot(remote[r])
    PROVE  /\ NextBlocks(r) = <<>> <=> Len(remote[r]) <= Len(local)
           /\ \A k \in DOMAIN NextBlocks(r) :
                /\ k \in Nat \ {0} /\ OfRoot(NextBlocks(r)[k]) /\ Len(NextBlocks(r)[k]) = Len(local) + k
           /\ NextBlocks(r) # <<>> =>
                /\ NextBlocks(r)[1] = UpTo(remote[r], Len(local) + 1)
                /\ OfRoot(NextBlocks(r)[1]) /\ Len(NextBlocks(r)[1]) = Len(local) + 1
                /\ Front(NextBlocks(r)[1]) = local <=> CommonLength(r) = Len(local)
<1>1. /\ local \in Seq(Label) /\ Len(local) \in Nat \ {0}
      /\ remote[r] \in Seq(Label) /\ Len(remote[r]) \in Nat \ {0}
  BY EmptySeq DEF OfRoot
<1>2. Len(local) + 1 \in Nat \ {0} /\ Chunk \in Nat \ {0}
  BY <1>1, PullingFacts
<1>3. /\ \A k \in DOMAIN NextBlocks(r) :
           /\ k \in Nat \ {0} /\ Len(local) + 1 + k - 1 <= Len(remote[r])
           /\ OfRoot(NextBlocks(r)[k]) /\ Len(NextBlocks(r)[k]) = Len(local) + 1 + k - 1
      /\ NextBlocks(r) = <<>> <=> Len(local) + 1 > Len(remote[r])
      /\ Len(local) + 1 <= Len(remote[r]) =>
           1 \in DOMAIN NextBlocks(r) /\ NextBlocks(r)[1] = UpTo(remote[r], Len(local) + 1)
  <2>1. PICK i \in Nat \ {0} : i = Len(local) + 1
    BY <1>2
  <2>2. NextBlocks(r) = Blocks(remote[r], i, Chunk)
    BY <2>1 DEF NextBlocks
  <2>3. /\ \A k \in DOMAIN Blocks(remote[r], i, Chunk) :
             /\ k \in Nat \ {0} /\ i + k - 1 <= Len(remote[r])
             /\ OfRoot(Blocks(remote[r], i, Chunk)[k]) /\ Len(Blocks(remote[r], i, Chunk)[k]) = i + k - 1
        /\ Blocks(remote[r], i, Chunk) = <<>> <=> i > Len(remote[r])
        /\ i <= Len(remote[r]) =>
             1 \in DOMAIN Blocks(remote[r], i, Chunk) /\ Blocks(remote[r], i, Chunk)[1] = UpTo(remote[r], i)
    <3>1. PICK c : c = remote[r]
      OBVIOUS
    <3>2. PICK n \in Nat \ {0} : n = Chunk
      BY <1>2
    <3>3. OfRoot(c) /\ i \in Nat \ {0}
      BY <2>1, <3>1
    <3>4. \A k \in DOMAIN Blocks(c, i, n) : k \in Nat \ {0} /\ i + k - 1 <= Len(c)
      BY <3>2, <3>3, BlocksFacts
    <3>5. \A k \in DOMAIN Blocks(c, i, n) : OfRoot(Blocks(c, i, n)[k]) /\ Len(Blocks(c, i, n)[k]) = i + k - 1
      BY <3>2, <3>3, BlocksFacts
    <3>6. Blocks(c, i, n) = <<>> <=> i > Len(c)
      BY <3>2, <3>3, BlocksFacts
    <3>7. i <= Len(c) => 1 \in DOMAIN Blocks(c, i, n) /\ Blocks(c, i, n)[1] = UpTo(c, i)
      BY <3>2, <3>3, BlocksFacts
    <3> QED BY <3>1, <3>2, <3>4, <3>5, <3>6, <3>7
  <2> QED BY <2>1, <2>2, <2>3
<1>4. NextBlocks(r) = <<>> <=> Len(remote[r]) <= Len(local)
  BY <1>1, <1>3
<1>5. ASSUME NEW k \in DOMAIN NextBlocks(r)
      PROVE  k \in Nat \ {0} /\ OfRoot(NextBlocks(r)[k]) /\ Len(NextBlocks(r)[k]) = Len(local) + k
  <2>1. k \in Nat \ {0} /\ OfRoot(NextBlocks(r)[k]) /\ Len(NextBlocks(r)[k]) = Len(local) + 1 + k - 1
    BY <1>3
  <2>2. Len(local) + 1 + k - 1 = Len(local) + k
    BY <1>1, <2>1
  <2> QED BY <2>1, <2>2
<1>6. ASSUME NextBlocks(r) # <<>>
      PROVE  /\ NextBlocks(r)[1] = UpTo(remote[r], Len(local) + 1)
             /\ OfRoot(NextBlocks(r)[1]) /\ Len(NextBlocks(r)[1]) = Len(local) + 1
             /\ Front(NextBlocks(r)[1]) = local <=> CommonLength(r) = Len(local)
  <2>1. Len(local) + 1 <= Len(remote[r])
    BY <1>1, <1>4, <1>6
  <2>2. NextBlocks(r)[1] = UpTo(remote[r], Len(local) + 1) /\ 1 \in DOMAIN NextBlocks(r)
    BY <1>3, <2>1
  <2>3. OfRoot(NextBlocks(r)[1]) /\ Len(NextBlocks(r)[1]) = Len(local) + 1
    BY <1>5, <2>2
  <2>4. Front(NextBlocks(r)[1]) = UpTo(NextBlocks(r)[1], Len(local))
    <3>1. Len(local) + 1 - 1 = Len(local)
      BY <1>1
    <3> QED BY <2>3, <3>1 DEF Front, UpTo
  <2>5. UpTo(UpTo(remote[r], Len(local) + 1), Len(local)) = UpTo(remote[r], Len(local))
    <3>1. Len(local) + 1 \in Nat /\ Len(local) \in Nat /\ Len(local) <= Len(local) + 1
      BY <1>1
    <3> QED BY <1>1, <2>1, <3>1, ShorterBeginning
  <2>6. UpTo(local, Len(local)) = local
    BY <1>1, WholeChain
  <2>7. UpTo(local, Len(local)) = UpTo(remote[r], Len(local)) <=> Len(local) <= CommonLength(r)
    <3>1. Len(local) \in 1..Len(local) /\ Len(local) <= Len(remote[r])
      BY <1>1, <2>1
    <3> QED BY <3>1, CommonFacts DEF CommonLength
  <2>8. CommonLength(r) \in 1..Len(local)
    BY CommonFacts DEF CommonLength
  <2>9. Len(local) <= CommonLength(r) <=> CommonLength(r) = Len(local)
    BY <1>1, <2>8
  <2> QED BY <2>2, <2>3, <2>4, <2>5, <2>6, <2>7, <2>9
<1> QED BY <1>4, <1>5, <1>6

----------------------------------------------------------------------------
(* Steps. *)

\* What is said of a pull stays true as more blocks are known.
LEMMA MoreKnown ==
    ASSUME NEW r \in Remote, NEW p, NEW K, NEW L, K \subseteq L, Tracked(r, p, K)
    PROVE  Tracked(r, p, L)
<1>1. Judged(r, p, K) => Judged(r, p, L)
  BY DEF Judged
<1>2. Followed(r, p, L)
  BY <1>1 DEF Tracked, Followed
<1>3. CompletePull(r, p, L)
  BY DEF Tracked, CompletePull
<1> QED BY <1>2, <1>3 DEF Tracked

\* A pull stays what it was as long as neither chain moves.
LEMMA SameChains ==
    ASSUME NEW r \in Remote, local' = local, remote'[r] = remote[r], NEW p, p = pull'[r], NEW L, L = KnownBlocks',
           Tracked(r, p, L)
    PROVE  Tracked(r, pull[r], KnownBlocks)'
<1>1. NextBlocks(r)' = NextBlocks(r) /\ CommonLength(r)' = CommonLength(r) /\ Bottom' = Bottom
  BY DEF NextBlocks, CommonLength, Bottom
<1>2. Judged(r, pull[r], KnownBlocks)' <=> Judged(r, p, L)
  BY <1>1 DEF Judged
<1>3. Searched(r, pull[r])' <=> Searched(r, p)
  BY <1>1 DEF Searched, Bounded
<1>4. Followed(r, pull[r], KnownBlocks)'
  BY <1>1, <1>2, <1>3 DEF Tracked, Followed
<1>5. CompletePull(r, pull[r], KnownBlocks)'
  BY <1>1 DEF Tracked, CompletePull
<1> QED BY <1>4, <1>5 DEF Tracked

\* The step of one pull, which may store blocks.
LEMMA PullSteps ==
    ASSUME PullingInv, NEW r \in Remote, NEW p \in PullState, NEW K,
           pull' = [pull EXCEPT ![r] = p], UNCHANGED <<local, remote, moves>>, pulls' \in 0..MaxPulls,
           moved' \in SUBSET Remote, \A s \in Remote \ moved' : s = r \/ s \notin moved,
           stored \subseteq stored', \A b \in stored' : b \in stored \/ OfRoot(b),
           K \subseteq KnownBlocks', Rooted(p),
           r \notin moved' => Tracked(r, p, K)
    PROVE  PullingInv'
<1>1. /\ PullingTypeOK /\ pull \in [Remote -> PullState] /\ OneRoot
      /\ \A s \in Remote \ moved : Tracked(s, pull[s], KnownBlocks)
  BY DEF PullingInv
<1>2. pull' \in [Remote -> PullState]
  BY <1>1
<1>3. \A b : OfRoot(b)' <=> OfRoot(b)
  BY DEF OfRoot
<1>4. \A s \in Remote : Rooted(pull[s])' <=> Rooted(pull'[s])
  BY <1>3 DEF Rooted
<1>5. OneRoot'
  <2>1. \A s \in Remote : Rooted(pull'[s])
    BY <1>1 DEF OneRoot
  <2>2. OfRoot(local)' /\ \A b \in stored' : OfRoot(b)'
    BY <1>1, <1>3 DEF OneRoot, OfRoot
  <2>3. \A s \in Remote : OfRoot(remote[s])'
    BY <1>1 DEF OneRoot, OfRoot
  <2> QED BY <1>4, <2>1, <2>2, <2>3 DEF OneRoot
<1>6. PullingTypeOK'
  <2>1. \A b \in stored' : b \in Seq(Label) \ {<<>>}
    BY <1>1 DEF OneRoot, OfRoot
  <2>2. \A s \in Remote : pull'[s].stage \in {"idle", "chunks", "fork", "search", "branch", "done", "failed"}
    BY <1>2 DEF PullState
  <2> QED BY <1>1, <2>1, <2>2 DEF PullingTypeOK
<1>7. ASSUME NEW s \in Remote \ moved'
      PROVE  Tracked(s, pull[s], KnownBlocks)'
  <2>1. KnownBlocks \subseteq KnownBlocks'
    BY DEF KnownBlocks
  <2>2. PICK L : L = KnownBlocks'
    OBVIOUS
  <2>3. PICK q : q = pull'[s]
    OBVIOUS
  <2>4. Tracked(s, q, L)
    <3>1. CASE s = r
      <4>1. q = p
        BY <1>1, <2>3, <3>1
      <4>2. Tracked(s, q, K)
        BY <1>7, <3>1, <4>1
      <4> QED BY <2>2, <4>2, MoreKnown
    <3>2. CASE s # r
      <4>1. q = pull[s]
        BY <1>1, <2>3, <3>2
      <4>2. Tracked(s, q, KnownBlocks)
        BY <1>1, <1>7, <3>2, <4>1
      <4> QED BY <2>1, <2>2, <4>2, MoreKnown
    <3> QED BY <3>1, <3>2
  <2>5. local' = local /\ remote'[s] = remote[s]
    OBVIOUS
  <2> QED BY <2>2, <2>3, <2>4, <2>5, SameChains
<1> QED BY <1>2, <1>5, <1>6, <1>7 DEF PullingInv

\* What the invariant says of a pull.
LEMMA PullFacts ==
    ASSUME PullingInv, NEW r \in Remote
    PROVE  /\ pull[r] \in PullState /\ OfRoot(local) /\ OfRoot(remote[r]) /\ Rooted(pull[r])
           /\ local \in Seq(Label) /\ Len(local) \in Nat \ {0}
           /\ remote[r] \in Seq(Label) /\ Len(remote[r]) \in Nat \ {0}
           /\ \A b \in stored : OfRoot(b)
           /\ moved \subseteq Remote /\ pulls \in 0..MaxPulls
           /\ r \notin moved => Tracked(r, pull[r], KnownBlocks)
<1>1. pull[r] \in PullState /\ OfRoot(local) /\ OfRoot(remote[r]) /\ Rooted(pull[r]) /\ \A b \in stored : OfRoot(b)
  BY DEF PullingInv, OneRoot
<1>2. /\ local \in Seq(Label) /\ Len(local) \in Nat \ {0}
      /\ remote[r] \in Seq(Label) /\ Len(remote[r]) \in Nat \ {0}
  BY <1>1, EmptySeq DEF OfRoot
<1>3. moved \subseteq Remote /\ pulls \in 0..MaxPulls
  BY DEF PullingInv, PullingTypeOK
<1>4. r \notin moved => Tracked(r, pull[r], KnownBlocks)
  BY DEF PullingInv
<1> QED BY <1>1, <1>2, <1>3, <1>4

\* A step that stores nothing.
LEMMA SilentSteps ==
    ASSUME PullingInv, NEW r \in Remote, NEW p \in PullState, Step(r, p), Rooted(p),
           r \notin moved => Tracked(r, p, KnownBlocks)
    PROVE  PullingInv'
<1>1. moved \subseteq Remote /\ pulls \in 0..MaxPulls
  BY PullFacts
<1>2. /\ pull' = [pull EXCEPT ![r] = p] /\ UNCHANGED <<local, remote, moves>> /\ pulls' \in 0..MaxPulls
      /\ moved' = moved /\ stored' = stored
  BY <1>1 DEF Step, To
<1>3. KnownBlocks \subseteq KnownBlocks'
  BY <1>2 DEF KnownBlocks
<1>4. moved' \in SUBSET Remote /\ \A s \in Remote \ moved' : s = r \/ s \notin moved
  BY <1>1, <1>2
<1> QED BY <1>2, <1>3, <1>4, PullSteps

LEMMA IdleState == Idle \in PullState /\ Rooted(Idle) /\ \A r, K : Tracked(r, Idle, K)
<1>1. <<>> \in Seq(Label) /\ <<>> \in Seq(Seq(Label))
  BY EmptySeq
<1>2. Idle \in PullState
  BY <1>1 DEF Idle, PullState, NoBlock
<1>3. DOMAIN <<>> = {}
  OBVIOUS
<1>4. Rooted(Idle)
  BY <1>3 DEF Rooted, Idle
<1>5. \A r, K : Tracked(r, Idle, K)
  BY DEF Tracked, Followed, CompletePull, Idle
<1> QED BY <1>2, <1>4, <1>5

LEMMA PullKeeps == ASSUME PullingInv, NEW r \in Remote, Pull(r) PROVE PullingInv'
<1> DEFINE p == [Idle EXCEPT !.stage = "chunks", !.seen = local, !.from = Len(local) + 1, !.applied = "nothing",
                             !.got = <<NoBlock>>]
<1>1. /\ OfRoot(local) /\ local \in Seq(Label) /\ Len(local) \in Nat \ {0} /\ moved \subseteq Remote
      /\ pulls \in 0..MaxPulls
  BY PullFacts
<1>2. /\ pull' = [pull EXCEPT ![r] = p] /\ UNCHANGED <<local, remote, moves>> /\ pulls' \in 0..MaxPulls
      /\ moved' = moved \ {r} /\ stored' = stored
  <2>1. pulls < MaxPulls => pulls + 1 \in 0..MaxPulls
    BY <1>1, PullingFacts
  <2> QED BY <2>1 DEF Pull
<1>3. <<>> \in Seq(Label) /\ <<>> \in Seq(Seq(Label)) /\ <<NoBlock>> \in Seq(Seq(Label))
  BY EmptySeq DEF NoBlock
<1>4. p \in PullState
  <2>1. Len(local) + 1 \in Nat
    BY <1>1
  <2> QED BY <1>1, <1>3, <2>1, IdleState DEF PullState
<1>5. DOMAIN <<>> = {}
  OBVIOUS
<1>6. Rooted(p)
  BY <1>1, <1>5 DEF Rooted, Idle
<1>7. Tracked(r, p, KnownBlocks)
  <2>1. Followed(r, p, KnownBlocks)
    BY <1>1 DEF Followed, Idle, NoBlock
  <2>2. CompletePull(r, p, KnownBlocks)
    BY DEF CompletePull, Idle
  <2> QED BY <2>1, <2>2 DEF Tracked
<1>8. KnownBlocks \subseteq KnownBlocks'
  BY <1>2 DEF KnownBlocks
<1>9. moved' \in SUBSET Remote /\ \A s \in Remote \ moved' : s = r \/ s \notin moved
  BY <1>1, <1>2
<1> HIDE DEF p
<1> QED BY <1>2, <1>4, <1>6, <1>7, <1>8, <1>9, PullSteps

LEMMA EndPullKeeps == ASSUME PullingInv, NEW r \in Remote, EndPull(r) PROVE PullingInv'
<1>1. Step(r, Idle)
  BY DEF EndPull
<1> QED BY <1>1, IdleState, SilentSteps

LEMMA ApplyBranchKeeps == ASSUME PullingInv, NEW r \in Remote, ApplyBranch(r) PROVE PullingInv'
<1> DEFINE p == pull[r]
<1>1. /\ p \in PullState /\ OfRoot(local) /\ OfRoot(remote[r]) /\ Rooted(p) /\ Len(local) \in Nat \ {0}
      /\ moved \subseteq Remote /\ pulls \in 0..MaxPulls
      /\ r \notin moved => Tracked(r, p, KnownBlocks)
  BY PullFacts
<1>2. p.stage = "chunks" /\ p.applied = "todo" /\ ~IsFork(p) /\ moved' = moved
  BY DEF ApplyBranch
<1>3. ASSUME r \notin moved
      PROVE  /\ p.seen = local /\ p.apply = NextBlocks(r) /\ p.apply # <<>> /\ p.fork = NoBlock
             /\ CommonLength(r) = Len(local)
  <2>1. p.seen = local /\ p.apply = NextBlocks(r) /\ p.apply # <<>> /\ p.fork = NoBlock
    BY <1>1, <1>2, <1>3 DEF Tracked, Followed
  <2>2. Front(NextBlocks(r)[1]) = local
    BY <1>2, <2>1 DEF IsFork
  <2> QED BY <1>1, <2>1, <2>2, NextFacts
<1>4. CASE \A i \in DOMAIN p.apply : p.apply[i] \in KnownBlocks \/ InWindow(p.apply[i])
  <2>1. PICK q : q = [p EXCEPT !.applied = "written"]
    OBVIOUS
  <2>2. q \in PullState
    BY <1>1, <2>1 DEF PullState
  <2>3. /\ q.stage = "chunks" /\ q.applied = "written" /\ q.seen = p.seen /\ q.apply = p.apply /\ q.fork = p.fork
        /\ q.got = p.got /\ q.from = p.from /\ q.ahead = p.ahead
    BY <1>1, <1>2, <2>1 DEF PullState
  <2>4. To(r, q) /\ stored' = stored \cup (ToSet(p.apply) \ KnownBlocks)
    BY <1>4, <2>1 DEF ApplyBranch
  <2>5. Rooted(q)
    BY <1>1, <1>2, <2>3 DEF Rooted
  <2>6. PICK K : K = KnownBlocks'
    OBVIOUS
  <2>7. ToSet(p.apply) \subseteq K
    <3>1. local' = local
      BY <2>4 DEF To
    <3> QED BY <2>4, <2>6, <3>1 DEF KnownBlocks
  <2>8. r \notin moved => Tracked(r, q, K)
    <3>1. ASSUME r \notin moved
          PROVE  Judged(r, q, K)
      BY <1>3, <2>3, <2>7, <3>1 DEF Judged
    <3>2. ASSUME r \notin moved
          PROVE  Followed(r, q, K)
      BY <1>3, <2>3, <3>1, <3>2 DEF Followed
    <3>3. CompletePull(r, q, K)
      BY <2>3 DEF CompletePull
    <3> QED BY <3>2, <3>3 DEF Tracked
  <2>9. \A b \in ToSet(p.apply) : OfRoot(b)
    BY <1>1 DEF Rooted, ToSet
  <2>10. pull' = [pull EXCEPT ![r] = q] /\ UNCHANGED <<local, remote, moves>> /\ pulls' \in 0..MaxPulls
    BY <1>1, <2>4 DEF To
  <2>11. moved' \in SUBSET Remote /\ \A s \in Remote \ moved' : s = r \/ s \notin moved
    BY <1>1, <1>2
  <2>12. stored \subseteq stored' /\ (\A b \in stored' : b \in stored \/ OfRoot(b)) /\ K \subseteq KnownBlocks'
    BY <2>4, <2>6, <2>9
  <2>13. r \notin moved' => Tracked(r, q, K)
    BY <1>2, <2>8
  <2> QED BY <2>2, <2>5, <2>10, <2>11, <2>12, <2>13, PullSteps
<1>5. CASE ~(\A i \in DOMAIN p.apply : p.apply[i] \in KnownBlocks \/ InWindow(p.apply[i]))
  <2>1. PICK q : q = [p EXCEPT !.stage = "failed"]
    OBVIOUS
  <2>2. q \in PullState /\ Rooted(q)
    <3>1. q.stage = "failed" /\ q.from = p.from /\ q.apply = p.apply /\ q.got = p.got /\ q.applied = p.applied
      BY <1>1, <2>1 DEF PullState
    <3>2. q \in PullState
      BY <1>1, <2>1 DEF PullState
    <3> QED BY <1>1, <1>2, <3>1, <3>2 DEF Rooted
  <2>3. r \in moved
    <3> SUFFICES ASSUME r \notin moved PROVE FALSE
      OBVIOUS
    <3>1. PICK i \in DOMAIN p.apply : ~InWindow(p.apply[i])
      BY <1>5
    <3>2. i \in Nat \ {0} /\ Len(p.apply[i]) = Len(local) + i
      BY <1>1, <1>3, <3>1, NextFacts
    <3>3. WindowSize \in Nat
      BY PullingFacts
    <3> QED BY <1>1, <3>1, <3>2, <3>3 DEF InWindow
  <2>4. Step(r, q)
    BY <1>2, <1>5, <2>1 DEF ApplyBranch, Step
  <2> QED BY <2>2, <2>3, <2>4, SilentSteps
<1> QED BY <1>4, <1>5

LEMMA ReadCurrentKeeps == ASSUME PullingInv, NEW r \in Remote, ReadCurrent(r) PROVE PullingInv'
<1> DEFINE p == pull[r]
<1>1. /\ p \in PullState /\ OfRoot(local) /\ OfRoot(remote[r]) /\ Rooted(p)
      /\ local \in Seq(Label) /\ Len(local) \in Nat \ {0}
      /\ r \notin moved => Tracked(r, p, KnownBlocks)
  BY PullFacts
<1>2. PICK q : q = [p EXCEPT !.seen = local, !.applied = IF local = Last(p.apply) THEN "yes" ELSE "no"]
  OBVIOUS
<1>3. p.stage = "chunks" /\ p.applied = "written" /\ Step(r, q)
  BY <1>2 DEF ReadCurrent
<1>4. /\ q \in PullState
      /\ q.stage = "chunks" /\ q.applied = (IF local = Last(p.apply) THEN "yes" ELSE "no") /\ q.seen = local
      /\ q.apply = p.apply /\ q.fork = p.fork /\ q.got = p.got /\ q.from = p.from /\ q.ahead = p.ahead
  BY <1>1, <1>2, <1>3 DEF PullState
<1>5. Rooted(q)
  BY <1>1, <1>3, <1>4 DEF Rooted
<1>6. ASSUME r \notin moved
      PROVE  Tracked(r, q, KnownBlocks)
  <2>1. Judged(r, p, KnownBlocks) /\ p.fork = NoBlock
    BY <1>1, <1>3, <1>6 DEF Tracked, Followed
  <2>2. p.apply = NextBlocks(r) /\ p.apply # <<>>
    BY <2>1 DEF Judged
  <2>3. Len(p.apply) \in DOMAIN p.apply
    <3>1. p.apply \in Seq(Seq(Label))
      BY <1>1 DEF PullState
    <3> QED BY <2>2, <3>1, EmptySeq, LenProperties
  <2>4. Len(Last(p.apply)) = Len(local) + Len(p.apply) /\ Len(p.apply) \in Nat \ {0}
    BY <1>1, <2>2, <2>3, NextFacts DEF Last
  <2>5. local # Last(p.apply)
    BY <1>1, <2>4
  <2>6. Judged(r, q, KnownBlocks)
    BY <1>4, <2>1 DEF Judged
  <2>7. Followed(r, q, KnownBlocks)
    BY <1>4, <2>5, <2>6 DEF Followed
  <2>8. CompletePull(r, q, KnownBlocks)
    BY <1>4 DEF CompletePull
  <2> QED BY <2>7, <2>8 DEF Tracked
<1> QED BY <1>3, <1>4, <1>5, <1>6, SilentSteps

LEMMA FoundForkKeeps == ASSUME PullingInv, NEW r \in Remote, FoundFork(r) PROVE PullingInv'
<1> DEFINE p == pull[r]
<1>1. /\ p \in PullState /\ OfRoot(local) /\ OfRoot(remote[r]) /\ Rooted(p)
      /\ Len(local) \in Nat \ {0} /\ remote[r] \in Seq(Label)
      /\ r \notin moved => Tracked(r, p, KnownBlocks)
  BY PullFacts
<1>2. PICK q : q = [p EXCEPT !.applied = "no", !.fork = p.apply[1], !.ahead = remote[r]]
  OBVIOUS
<1>3. p.stage = "chunks" /\ p.applied = "todo" /\ IsFork(p) /\ Step(r, q)
  BY <1>2 DEF FoundFork
<1>4. p.apply[1] \in Seq(Label)
  <2>1. p.apply \in Seq(Seq(Label)) /\ p.apply # <<>>
    BY <1>1, <1>3 DEF PullState, Rooted
  <2>2. 1 \in 1..Len(p.apply)
    BY <2>1, EmptySeq
  <2> QED BY <2>1, <2>2, ElementOfSeq
<1>5. /\ q \in PullState
      /\ q.stage = "chunks" /\ q.applied = "no" /\ q.seen = p.seen /\ q.fork = p.apply[1] /\ q.ahead = remote[r]
      /\ q.apply = p.apply /\ q.got = p.got /\ q.from = p.from
  BY <1>1, <1>2, <1>3, <1>4 DEF PullState
<1>6. Rooted(q)
  BY <1>1, <1>3, <1>5 DEF Rooted
<1>7. ASSUME r \notin moved
      PROVE  Tracked(r, q, KnownBlocks)
  <2>1. p.seen = local /\ p.apply = NextBlocks(r) /\ p.apply # <<>>
    BY <1>1, <1>3, <1>7 DEF Tracked, Followed
  <2>2. CommonLength(r) # Len(local)
    <3>1. Front(NextBlocks(r)[1]) # local
      BY <1>3, <2>1 DEF IsFork
    <3> QED BY <1>1, <2>1, <3>1, NextFacts
  <2>3. CommonLength(r) < Len(local)
    BY <1>1, <2>2, CommonFacts DEF CommonLength
  <2>4. Judged(r, q, KnownBlocks)
    BY <1>5, <2>1, <2>3 DEF Judged
  <2>5. Followed(r, q, KnownBlocks)
    BY <1>5, <2>1, <2>4 DEF Followed
  <2>6. CompletePull(r, q, KnownBlocks)
    BY <1>5 DEF CompletePull
  <2> QED BY <2>5, <2>6 DEF Tracked
<1> QED BY <1>3, <1>5, <1>6, <1>7, SilentSteps

LEMMA DownloadKeeps == ASSUME PullingInv, NEW r \in Remote, Download(r) PROVE PullingInv'
<1> DEFINE p == pull[r]
<1>1. p \in PullState /\ OfRoot(remote[r]) /\ Rooted(p) /\ (r \notin moved => Tracked(r, p, KnownBlocks))
  BY PullFacts
<1>2. PICK next : next = Blocks(remote[r], p.from, Chunk)
  OBVIOUS
<1>3. PICK q : q = [p EXCEPT !.got = next]
  OBVIOUS
<1>4. p.stage = "chunks" /\ Step(r, q)
  BY <1>2, <1>3 DEF Download
<1>5. next \in Seq(Seq(Label)) /\ \A k \in DOMAIN next : OfRoot(next[k])
  <2>1. PICK i : i = p.from
    OBVIOUS
  <2>2. i \in Nat \ {0} /\ Chunk \in Nat \ {0}
    BY <1>1, <1>4, <2>1, PullingFacts DEF PullState, Rooted
  <2>3. Blocks(remote[r], i, Chunk) \in Seq(Seq(Label))
    BY <1>1, <2>2, BlocksFacts
  <2>4. \A k \in DOMAIN Blocks(remote[r], i, Chunk) : OfRoot(Blocks(remote[r], i, Chunk)[k])
    BY <1>1, <2>2, BlocksFacts
  <2> QED BY <1>2, <2>1, <2>3, <2>4
<1>6. /\ q \in PullState
      /\ q.stage = "chunks" /\ q.applied = p.applied /\ q.seen = p.seen /\ q.fork = p.fork /\ q.ahead = p.ahead
      /\ q.apply = p.apply /\ q.got = next /\ q.from = p.from
  BY <1>1, <1>3, <1>4, <1>5 DEF PullState
<1>7. Rooted(q)
  BY <1>1, <1>4, <1>5, <1>6 DEF Rooted
<1>8. ASSUME r \notin moved
      PROVE  Tracked(r, q, KnownBlocks)
  <2>1. Followed(r, p, KnownBlocks)
    BY <1>1, <1>8 DEF Tracked
  <2>2. Judged(r, p, KnownBlocks) => Judged(r, q, KnownBlocks)
    BY <1>6 DEF Judged
  <2>3. p.from = Len(local) + 1 => next = NextBlocks(r)
    BY <1>2 DEF NextBlocks
  <2>4. Followed(r, q, KnownBlocks)
    BY <1>4, <1>6, <2>1, <2>2, <2>3 DEF Followed
  <2>5. CompletePull(r, q, KnownBlocks)
    BY <1>6 DEF CompletePull
  <2> QED BY <2>4, <2>5 DEF Tracked
<1> QED BY <1>4, <1>6, <1>7, <1>8, SilentSteps

LEMMA NextChunkKeeps == ASSUME PullingInv, NEW r \in Remote, NextChunk(r) PROVE PullingInv'
<1> DEFINE p == pull[r]
<1>1. p \in PullState /\ Rooted(p) /\ (r \notin moved => Tracked(r, p, KnownBlocks))
  BY PullFacts
<1>2. p.stage = "chunks" /\ p.got # <<NoBlock>> /\ p.applied \in {"nothing", "yes", "no"}
  BY DEF NextChunk
<1>3. ASSUME r \notin moved
      PROVE  /\ p.seen = local
             /\ \/ p.applied = "nothing" /\ p.fork = NoBlock /\ p.got = NextBlocks(r)
                \/ p.applied = "no" /\ Judged(r, p, KnownBlocks)
  BY <1>1, <1>2, <1>3 DEF Tracked, Followed
<1>4. CASE p.got # <<>> /\ p.applied # "no"
  <2>1. PICK q : q = [p EXCEPT !.apply = p.got, !.applied = "todo", !.from = @ + Len(p.got), !.got = <<NoBlock>>]
    OBVIOUS
  <2>2. Step(r, q)
    BY <1>4, <2>1 DEF NextChunk
  <2>3. p.from + Len(p.got) \in Nat /\ p.from + Len(p.got) >= 1
    <3>1. p.from \in Nat /\ p.from >= 1 /\ p.got \in Seq(Seq(Label))
      BY <1>1, <1>2 DEF PullState, Rooted
    <3>2. Len(p.got) \in Nat
      BY <3>1, LenProperties
    <3> QED BY <3>1, <3>2
  <2>4. <<NoBlock>> \in Seq(Seq(Label))
    BY EmptySeq DEF NoBlock
  <2>5. /\ q \in PullState
        /\ q.stage = "chunks" /\ q.applied = "todo" /\ q.seen = p.seen /\ q.fork = p.fork
        /\ q.apply = p.got /\ q.got = <<NoBlock>> /\ q.from = p.from + Len(p.got)
    BY <1>1, <1>2, <2>1, <2>3, <2>4 DEF PullState
  <2>6. Rooted(q)
    BY <1>1, <1>2, <1>4, <2>3, <2>5 DEF Rooted
  <2>7. ASSUME r \notin moved
        PROVE  Tracked(r, q, KnownBlocks)
    <3>1. Followed(r, q, KnownBlocks)
      BY <1>3, <1>4, <2>5, <2>7 DEF Followed
    <3>2. CompletePull(r, q, KnownBlocks)
      BY <2>5 DEF CompletePull
    <3> QED BY <3>1, <3>2 DEF Tracked
  <2> QED BY <2>2, <2>5, <2>6, <2>7, SilentSteps
<1>5. CASE ~(p.got # <<>> /\ p.applied # "no")
  <2>1. PICK q : q = [p EXCEPT !.stage = "fork"]
    OBVIOUS
  <2>2. Step(r, q)
    BY <1>5, <2>1 DEF NextChunk
  <2>3. /\ q \in PullState
        /\ q.stage = "fork" /\ q.applied = p.applied /\ q.seen = p.seen /\ q.fork = p.fork /\ q.ahead = p.ahead
        /\ q.apply = p.apply /\ q.got = p.got /\ q.from = p.from
    BY <1>1, <2>1 DEF PullState
  <2>4. Rooted(q)
    BY <1>1, <1>2, <2>3 DEF Rooted
  <2>5. ASSUME r \notin moved
        PROVE  Tracked(r, q, KnownBlocks)
    <3>1. Judged(r, p, KnownBlocks) => Judged(r, q, KnownBlocks)
      BY <2>3 DEF Judged
    <3>2. Followed(r, q, KnownBlocks)
      BY <1>3, <1>5, <2>3, <2>5, <3>1 DEF Followed
    <3>3. CompletePull(r, q, KnownBlocks)
      BY <2>3 DEF CompletePull
    <3> QED BY <3>2, <3>3 DEF Tracked
  <2> QED BY <2>2, <2>3, <2>4, <2>5, SilentSteps
<1> QED BY <1>4, <1>5

\* A pull that looks at blocks keeps the rest.
LEMMA StageOnly ==
    ASSUME NEW p \in PullState, Rooted(p), NEW q \in PullState, p.stage # "idle",
           q.from = p.from, q.applied = p.applied, q.apply = p.apply, q.got = p.got
    PROVE  Rooted(q)
BY DEF Rooted

LEMMA FilterForkKeeps == ASSUME PullingInv, NEW r \in Remote, FilterFork(r) PROVE PullingInv'
<1> DEFINE p == pull[r]
<1>1. /\ p \in PullState /\ OfRoot(local) /\ OfRoot(remote[r]) /\ Rooted(p)
      /\ local \in Seq(Label) /\ Len(local) \in Nat \ {0}
      /\ remote[r] \in Seq(Label) /\ Len(remote[r]) \in Nat \ {0}
      /\ r \notin moved => Tracked(r, p, KnownBlocks)
  BY PullFacts
<1>2. p.stage = "fork"
  BY DEF FilterFork
<1>3. Bottom \in 1..Len(local) /\ Bottom \in Nat
  BY <1>1, BottomFacts
<1>4. /\ CommonLength(r) \in 1..Len(local) /\ CommonLength(r) <= Len(remote[r])
      /\ Common(local, remote[r]) = local <=> CommonLength(r) = Len(local)
  BY <1>1, CommonFacts DEF CommonLength
<1>5. ASSUME r \notin moved
      PROVE  /\ p.seen = local
             /\ Judged(r, p, KnownBlocks) \/ (NextBlocks(r) = <<>> /\ p.fork = NoBlock)
  BY <1>1, <1>2, <1>5 DEF Tracked, Followed
<1>6. CASE p.fork # NoBlock /\ AheadOf(p.ahead, p.seen) /\ Bottom <= Len(remote[r])
  <2>1. PICK q : q = [p EXCEPT !.stage = IF UpTo(remote[r], Bottom) = UpTo(local, Bottom) THEN "search" ELSE "done",
                               !.top = Len(p.fork), !.bottom = Bottom,
                               !.look = UpTo(remote[r], Bottom), !.mine = UpTo(local, Bottom)]
    OBVIOUS
  <2>2. Step(r, q)
    BY <1>6, <2>1 DEF FilterFork
  <2>3. /\ UpTo(remote[r], Bottom) \in Seq(Label) /\ Len(UpTo(remote[r], Bottom)) = Bottom
        /\ UpTo(local, Bottom) \in Seq(Label)
    BY <1>1, <1>3, <1>6, UpToFacts
  <2>4. Len(p.fork) \in Nat
    BY <1>1, LenProperties DEF PullState
  <2>5. /\ q \in PullState
        /\ q.stage = (IF UpTo(remote[r], Bottom) = UpTo(local, Bottom) THEN "search" ELSE "done")
        /\ q.top = Len(p.fork) /\ q.bottom = Bottom
        /\ q.look = UpTo(remote[r], Bottom) /\ q.mine = UpTo(local, Bottom) /\ q.seen = p.seen
        /\ q.from = p.from /\ q.applied = p.applied /\ q.apply = p.apply /\ q.got = p.got
    BY <1>1, <1>3, <2>1, <2>3, <2>4 DEF PullState
  <2>6. Rooted(q)
    BY <1>1, <1>2, <2>5, StageOnly
  <2>7. ASSUME r \notin moved
        PROVE  Tracked(r, q, KnownBlocks)
    <3>1. UpTo(local, Bottom) = UpTo(remote[r], Bottom) <=> Bottom <= CommonLength(r)
      BY <1>1, <1>3, <1>6, CommonFacts DEF CommonLength
    <3>2. Judged(r, p, KnownBlocks)
      BY <1>5, <1>6, <2>7
    <3>3. CommonLength(r) < Len(local) /\ p.fork = NextBlocks(r)[1] /\ NextBlocks(r) # <<>>
      BY <1>6, <3>2 DEF Judged
    <3>4. Len(p.fork) = Len(local) + 1 /\ Len(local) < Len(remote[r])
      BY <1>1, <3>3, NextFacts
    <3>5. q.stage = "search" => Searched(r, q)
      BY <1>1, <1>3, <1>4, <2>3, <2>5, <3>1, <3>3, <3>4 DEF Searched, Bounded
    <3>6. Followed(r, q, KnownBlocks)
      BY <1>5, <2>5, <2>7, <3>5 DEF Followed
    <3>7. q.stage = "done" => ~(CommonLength(r) > Bottom) /\ Common(local, remote[r]) # local
      BY <1>1, <1>3, <1>4, <2>5, <3>1, <3>3
    <3>8. CompletePull(r, q, KnownBlocks)
      BY <2>5, <3>7 DEF CompletePull, CommonLength
    <3> QED BY <3>6, <3>8 DEF Tracked
  <2> QED BY <2>2, <2>5, <2>6, <2>7, SilentSteps
<1>7. CASE p.fork # NoBlock /\ AheadOf(p.ahead, p.seen) /\ ~(Bottom <= Len(remote[r]))
  <2>1. PICK q : q = [p EXCEPT !.stage = "failed"]
    OBVIOUS
  <2>2. Step(r, q)
    BY <1>7, <2>1 DEF FilterFork
  <2>3. /\ q \in PullState /\ q.from = p.from /\ q.applied = p.applied /\ q.apply = p.apply /\ q.got = p.got
    BY <1>1, <2>1 DEF PullState
  <2>4. Rooted(q)
    BY <1>1, <1>2, <2>3, StageOnly
  <2>5. r \in moved
    <3> SUFFICES ASSUME r \notin moved PROVE FALSE
      OBVIOUS
    <3>1. NextBlocks(r) # <<>>
      BY <1>5, <1>7 DEF Judged
    <3>2. Len(local) < Len(remote[r])
      BY <1>1, <3>1, NextFacts
    <3> QED BY <1>1, <1>3, <1>7, <3>2
  <2> QED BY <2>2, <2>3, <2>4, <2>5, SilentSteps
<1>8. CASE ~(p.fork # NoBlock /\ AheadOf(p.ahead, p.seen))
  <2>1. PICK q : q = [p EXCEPT !.stage = "done"]
    OBVIOUS
  <2>2. Step(r, q)
    BY <1>2, <1>8, <2>1 DEF FilterFork
  <2>3. /\ q \in PullState /\ q.stage = "done" /\ q.seen = p.seen
        /\ q.from = p.from /\ q.applied = p.applied /\ q.apply = p.apply /\ q.got = p.got
    BY <1>1, <2>1 DEF PullState
  <2>4. Rooted(q)
    BY <1>1, <1>2, <2>3, StageOnly
  <2>5. ASSUME r \notin moved
        PROVE  Tracked(r, q, KnownBlocks)
    <3>1. Followed(r, q, KnownBlocks)
      BY <1>5, <2>3, <2>5 DEF Followed
    <3>2. CASE Judged(r, p, KnownBlocks) /\ CommonLength(r) = Len(local)
      <4>1. ToSet(NextBlocks(r)) \subseteq KnownBlocks
        BY <3>2 DEF Judged
      <4>2. Common(local, remote[r]) = local
        BY <1>4, <3>2
      <4> QED BY <2>3, <3>1, <4>1, <4>2 DEF Tracked, CompletePull, NextBlocks
    <3>3. CASE Judged(r, p, KnownBlocks) /\ CommonLength(r) # Len(local)
      <4>1. p.fork = NextBlocks(r)[1] /\ NextBlocks(r) # <<>> /\ p.ahead = remote[r]
        BY <3>3 DEF Judged
      <4>2. p.fork # NoBlock
        BY <1>1, <4>1, NextFacts DEF OfRoot, NoBlock
      <4>3. ~AheadOf(remote[r], local)
        BY <1>5, <1>8, <2>5, <4>1, <4>2
      <4>4. Common(local, remote[r]) # local
        BY <1>4, <3>3
      <4> QED BY <2>3, <3>1, <4>3, <4>4 DEF Tracked, CompletePull
    <3>4. CASE NextBlocks(r) = <<>>
      <4>1. ToSet(NextBlocks(r)) = {}
        BY <3>4 DEF ToSet
      <4>2. Len(remote[r]) <= Len(local)
        BY <1>1, <3>4, NextFacts
      <4>3. ~AheadOf(remote[r], local)
        BY <1>1, <4>2, PullingFacts DEF AheadOf
      <4> QED BY <2>3, <3>1, <4>1, <4>3 DEF Tracked, CompletePull, NextBlocks
    <3> QED BY <1>5, <2>5, <3>2, <3>3, <3>4
  <2> QED BY <2>2, <2>3, <2>4, <2>5, SilentSteps
<1> QED BY <1>6, <1>7, <1>8

LEMMA FollowForkKeeps == ASSUME PullingInv, NEW r \in Remote, FollowFork(r) PROVE PullingInv'
<1> DEFINE p == pull[r]
<1>1. /\ p \in PullState /\ OfRoot(local) /\ OfRoot(remote[r]) /\ Rooted(p)
      /\ Len(local) \in Nat \ {0}
      /\ moved \subseteq Remote /\ pulls \in 0..MaxPulls
      /\ r \notin moved => Tracked(r, p, KnownBlocks)
  BY PullFacts
<1>2. PICK i : i = Len(p.look) + 1
  OBVIOUS
<1>3. i \in Nat \ {0} /\ WindowSize \in Nat \ {0}
  BY <1>1, <1>2, LenProperties, PullingFacts DEF PullState
<1>4. PICK branch : branch = Blocks(remote[r], i, WindowSize)
  OBVIOUS
<1>5. \A k \in DOMAIN branch : OfRoot(branch[k])
  BY <1>1, <1>3, <1>4, BlocksFacts
<1>6. \A k \in DOMAIN branch : Len(branch[k]) = i + k - 1 /\ k \in Nat \ {0}
  BY <1>1, <1>3, <1>4, BlocksFacts
<1>7. p.stage = "branch" /\ moved' = moved
  BY DEF FollowFork
<1>8. ASSUME r \notin moved
      PROVE  /\ p.seen = local /\ p.look = Common(local, remote[r])
             /\ Bottom <= CommonLength(r) /\ CommonLength(r) < Len(local)
  BY <1>1, <1>7, <1>8 DEF Tracked, Followed, CompletePull
<1>9. CASE \A k \in DOMAIN branch : branch[k] \in KnownBlocks \/ InWindow(branch[k])
  <2>1. PICK q : q = [p EXCEPT !.stage = "done"]
    OBVIOUS
  <2>2. /\ q \in PullState /\ q.stage = "done" /\ q.seen = p.seen
        /\ q.from = p.from /\ q.applied = p.applied /\ q.apply = p.apply /\ q.got = p.got
    BY <1>1, <2>1 DEF PullState
  <2>3. To(r, q) /\ stored' = stored \cup (ToSet(branch) \ KnownBlocks)
    BY <1>2, <1>4, <1>9, <2>1 DEF FollowFork
  <2>4. Rooted(q)
    BY <1>1, <1>7, <2>2, StageOnly
  <2>5. PICK K : K = KnownBlocks'
    OBVIOUS
  <2>6. ToSet(branch) \subseteq K
    <3>1. local' = local
      BY <2>3 DEF To
    <3> QED BY <2>3, <2>5, <3>1 DEF KnownBlocks
  <2>7. r \notin moved' => Tracked(r, q, K)
    <3>1. ASSUME r \notin moved
          PROVE  Followed(r, q, K)
      BY <1>8, <2>2, <3>1 DEF Followed
    <3>2. ASSUME r \notin moved
          PROVE  CompletePull(r, q, K)
      <4>1. ToSet(Blocks(remote[r], Len(Common(local, remote[r])) + 1, WindowSize)) \subseteq K
        BY <1>2, <1>4, <1>8, <2>6, <3>2
      <4>2. Common(local, remote[r]) # local
        <5>1. Len(Common(local, remote[r])) # Len(local)
          BY <1>1, <1>8, <3>2, CommonFacts DEF CommonLength
        <5> QED BY <5>1
      <4> QED BY <2>2, <4>1, <4>2 DEF CompletePull
    <3> QED BY <1>7, <3>1, <3>2 DEF Tracked
  <2>8. \A b \in ToSet(branch) : OfRoot(b)
    BY <1>5 DEF ToSet
  <2>9. pull' = [pull EXCEPT ![r] = q] /\ UNCHANGED <<local, remote, moves>> /\ pulls' \in 0..MaxPulls
    BY <1>1, <2>3 DEF To
  <2>10. moved' \in SUBSET Remote /\ \A s \in Remote \ moved' : s = r \/ s \notin moved
    BY <1>1, <1>7
  <2>11. stored \subseteq stored' /\ (\A b \in stored' : b \in stored \/ OfRoot(b)) /\ K \subseteq KnownBlocks'
    BY <2>3, <2>5, <2>8
  <2> QED BY <2>2, <2>4, <2>7, <2>9, <2>10, <2>11, PullSteps
<1>10. CASE ~(\A k \in DOMAIN branch : branch[k] \in KnownBlocks \/ InWindow(branch[k]))
  <2>1. PICK q : q = [p EXCEPT !.stage = "failed"]
    OBVIOUS
  <2>2. q \in PullState /\ q.from = p.from /\ q.applied = p.applied /\ q.apply = p.apply /\ q.got = p.got
    BY <1>1, <2>1 DEF PullState
  <2>3. Rooted(q)
    BY <1>1, <1>7, <2>2, StageOnly
  <2>4. Step(r, q)
    BY <1>2, <1>4, <1>7, <1>10, <2>1 DEF FollowFork, Step
  <2>5. r \in moved
    <3> SUFFICES ASSUME r \notin moved PROVE FALSE
      OBVIOUS
    <3>1. PICK k \in DOMAIN branch : ~InWindow(branch[k])
      BY <1>10
    <3>2. Len(branch[k]) = i + k - 1 /\ k \in Nat \ {0}
      BY <1>6
    <3>3. i = CommonLength(r) + 1 /\ CommonLength(r) \in Nat
      BY <1>1, <1>2, <1>8, CommonFacts DEF CommonLength
    <3>4. Bottom \in Nat /\ Bottom >= Len(local) - WindowSize
      BY <1>1, BottomFacts
    <3> QED BY <1>1, <1>3, <1>8, <3>1, <3>2, <3>3, <3>4 DEF InWindow
  <2> QED BY <2>2, <2>3, <2>4, <2>5, SilentSteps
<1> QED BY <1>9, <1>10

\* The end of a round of findCommonRoot: q has the new bounds.
LEMMA LookAtKeeps ==
    ASSUME PullingInv, NEW r \in Remote, pull[r].stage = "search",
           NEW q \in PullState, q.stage = "search", q.seen = pull[r].seen, q.from = pull[r].from,
           q.applied = pull[r].applied, q.apply = pull[r].apply, q.got = pull[r].got,
           Step(r, LookAt(r, q)), r \notin moved => Bounded(r, q)
    PROVE  PullingInv'
<1> DEFINE p == pull[r]
<1>1. /\ p \in PullState /\ OfRoot(local) /\ OfRoot(remote[r]) /\ Rooted(p)
      /\ local \in Seq(Label) /\ Len(local) \in Nat \ {0}
      /\ remote[r] \in Seq(Label) /\ Len(remote[r]) \in Nat \ {0}
      /\ r \notin moved => Tracked(r, p, KnownBlocks)
  BY PullFacts
<1>2. PICK i : i = MiddleOf(q.top, q.bottom)
  OBVIOUS
<1>3. /\ q.top \in Nat /\ q.bottom \in Nat /\ i \in Int
      /\ q.bottom < q.top /\ q.top # q.bottom + 1 => q.bottom < i /\ i < q.top
  <2>1. q.top \in Nat /\ q.bottom \in Nat
    BY DEF PullState
  <2>2. i = q.bottom + (q.top - q.bottom + 1) \div 2
    BY <1>2 DEF MiddleOf
  <2> QED BY <2>1, <2>2
<1>4. CommonLength(r) \in 1..Len(local) /\ Bottom \in Nat
  BY <1>1, CommonFacts, BottomFacts DEF CommonLength
<1>5. r \notin moved => q.seen = local
  BY <1>1 DEF Tracked, Followed
<1>6. CASE q.top = q.bottom + 1
  <2>1. PICK s : s = [q EXCEPT !.stage = "done"]
    OBVIOUS
  <2>2. Step(r, s)
    BY <1>6, <2>1 DEF LookAt
  <2>3. /\ s \in PullState /\ s.stage = "done" /\ s.seen = q.seen
        /\ s.from = q.from /\ s.applied = q.applied /\ s.apply = q.apply /\ s.got = q.got
    BY <2>1 DEF PullState
  <2>4. Rooted(s)
    BY <1>1, <2>3, StageOnly
  <2>5. ASSUME r \notin moved
        PROVE  Tracked(r, s, KnownBlocks)
    <3>1. CommonLength(r) < Len(local) /\ ~(CommonLength(r) > Bottom)
      BY <1>3, <1>4, <1>6, <2>5 DEF Bounded
    <3>2. Common(local, remote[r]) # local
      <4>1. Len(Common(local, remote[r])) # Len(local)
        BY <1>1, <1>4, <3>1 DEF CommonLength
      <4> QED BY <4>1
    <3>3. CompletePull(r, s, KnownBlocks)
      BY <2>3, <3>1, <3>2 DEF CompletePull, CommonLength
    <3>4. Followed(r, s, KnownBlocks)
      BY <1>5, <2>3, <2>5 DEF Followed
    <3> QED BY <3>3, <3>4 DEF Tracked
  <2> QED BY <2>2, <2>3, <2>4, <2>5, SilentSteps
<1>7. CASE q.top # q.bottom + 1 /\ (i > Len(remote[r]) \/ i > Len(local))
  <2>1. PICK s : s = [q EXCEPT !.stage = "failed"]
    OBVIOUS
  <2>2. Step(r, s)
    BY <1>2, <1>7, <2>1 DEF LookAt
  <2>3. /\ s \in PullState /\ s.from = q.from /\ s.applied = q.applied /\ s.apply = q.apply /\ s.got = q.got
    BY <2>1 DEF PullState
  <2>4. Rooted(s)
    BY <1>1, <2>3, StageOnly
  <2>5. r \in moved
    BY <1>1, <1>3, <1>4, <1>7 DEF Bounded
  <2> QED BY <2>2, <2>3, <2>4, <2>5, SilentSteps
<1>8. CASE q.top # q.bottom + 1 /\ ~(i > Len(remote[r]) \/ i > Len(local))
  <2>1. PICK s : s = [q EXCEPT !.look = UpTo(remote[r], i), !.mine = UpTo(local, i)]
    OBVIOUS
  <2>2. Step(r, s)
    BY <1>2, <1>8, <2>1 DEF LookAt
  <2>3. UpTo(remote[r], i) \in Seq(Label) /\ UpTo(local, i) \in Seq(Label)
    BY <1>1, <1>3, <1>8, UpToFacts
  <2>4. /\ s \in PullState /\ s.stage = "search" /\ s.seen = q.seen /\ s.top = q.top /\ s.bottom = q.bottom
        /\ s.look = UpTo(remote[r], i) /\ s.mine = UpTo(local, i)
        /\ s.from = q.from /\ s.applied = q.applied /\ s.apply = q.apply /\ s.got = q.got
    BY <2>1, <2>3 DEF PullState
  <2>5. Rooted(s)
    BY <1>1, <2>4, StageOnly
  <2>6. ASSUME r \notin moved
        PROVE  Tracked(r, s, KnownBlocks)
    <3>1. q.bottom < i /\ i < q.top
      BY <1>3, <1>4, <1>8, <2>6 DEF Bounded
    <3>2. Len(UpTo(remote[r], i)) = i
      BY <1>1, <1>3, <1>8, <3>1, UpToFacts
    <3>3. Bounded(r, s)
      BY <2>4, <2>6 DEF Bounded
    <3>4. Searched(r, s)
      BY <1>3, <2>4, <3>1, <3>2, <3>3 DEF Searched
    <3>5. Followed(r, s, KnownBlocks)
      BY <1>5, <2>4, <2>6, <3>4 DEF Followed
    <3>6. CompletePull(r, s, KnownBlocks)
      BY <2>4 DEF CompletePull
    <3> QED BY <3>5, <3>6 DEF Tracked
  <2> QED BY <2>2, <2>4, <2>5, <2>6, SilentSteps
<1> QED BY <1>6, <1>7, <1>8

LEMMA FindCommonRootKeeps == ASSUME PullingInv, NEW r \in Remote, FindCommonRoot(r) PROVE PullingInv'
<1> DEFINE p == pull[r]
           up == Len(p.look) + 1
<1>1. /\ p \in PullState /\ OfRoot(local) /\ OfRoot(remote[r]) /\ Rooted(p)
      /\ local \in Seq(Label) /\ Len(local) \in Nat \ {0}
      /\ remote[r] \in Seq(Label) /\ Len(remote[r]) \in Nat \ {0}
      /\ r \notin moved => Tracked(r, p, KnownBlocks)
  BY PullFacts
<1>2. p.stage = "search"
  BY DEF FindCommonRoot
<1>3. Len(p.look) \in Nat
  BY <1>1, LenProperties DEF PullState
<1>4. Bottom \in 1..Len(local)
  BY <1>1, BottomFacts
<1>5. /\ CommonLength(r) \in 1..Len(local) /\ CommonLength(r) <= Len(remote[r])
      /\ Common(local, remote[r]) = UpTo(remote[r], CommonLength(r))
      /\ \A i \in 1..Len(local) : i <= Len(remote[r]) =>
           (UpTo(local, i) = UpTo(remote[r], i) <=> i <= CommonLength(r))
  BY <1>1, CommonFacts DEF CommonLength
<1>6. ASSUME r \notin moved
      PROVE  /\ p.seen = local /\ Bounded(r, p)
             /\ p.bottom <= Len(p.look) /\ Len(p.look) < p.top
             /\ p.look = UpTo(remote[r], Len(p.look)) /\ p.mine = UpTo(local, Len(p.look))
             /\ p.top \in Nat /\ p.bottom \in Nat
             /\ Len(p.look) \in 1..Len(local) /\ Len(p.look) <= Len(remote[r])
             /\ p.look = p.mine <=> Len(p.look) <= CommonLength(r)
  <2>1. /\ p.seen = local /\ Bounded(r, p)
        /\ p.bottom <= Len(p.look) /\ Len(p.look) < p.top
        /\ p.look = UpTo(remote[r], Len(p.look)) /\ p.mine = UpTo(local, Len(p.look))
    BY <1>1, <1>2, <1>6 DEF Tracked, Followed, Searched
  <2>2. p.top \in Nat /\ p.bottom \in Nat
    BY <1>1 DEF PullState
  <2>3. Len(p.look) \in 1..Len(local) /\ Len(p.look) <= Len(remote[r])
    BY <1>1, <1>3, <1>4, <2>1, <2>2 DEF Bounded
  <2>4. p.look = p.mine <=> Len(p.look) <= CommonLength(r)
    BY <1>5, <2>1, <2>3
  <2> QED BY <2>1, <2>2, <2>3, <2>4
<1>7. CASE p.look # p.mine
  <2>1. PICK q : q = Lower(p)
    OBVIOUS
  <2>2. Step(r, LookAt(r, q))
    BY <1>7, <2>1 DEF FindCommonRoot
  <2>3. /\ q \in PullState /\ q.stage = "search" /\ q.top = Len(p.look) /\ q.bottom = p.bottom /\ q.seen = p.seen
        /\ q.from = p.from /\ q.applied = p.applied /\ q.apply = p.apply /\ q.got = p.got
    BY <1>1, <1>2, <1>3, <2>1 DEF PullState, Lower
  <2>4. ASSUME r \notin moved
        PROVE  Bounded(r, q)
    <3>1. CommonLength(r) < Len(p.look) /\ Len(p.look) <= Len(local) + 1
      BY <1>3, <1>5, <1>6, <1>7, <2>4
    <3> QED BY <1>6, <2>3, <2>4, <3>1 DEF Bounded
  <2> QED BY <1>2, <2>2, <2>3, <2>4, LookAtKeeps
<1>8. CASE p.look = p.mine /\ (up > Len(remote[r]) \/ up > Len(local))
  <2>1. PICK q : q = [p EXCEPT !.stage = "failed"]
    OBVIOUS
  <2>2. Step(r, q)
    BY <1>8, <2>1 DEF FindCommonRoot
  <2>3. q \in PullState /\ q.from = p.from /\ q.applied = p.applied /\ q.apply = p.apply /\ q.got = p.got
    BY <1>1, <2>1 DEF PullState
  <2>4. Rooted(q)
    BY <1>1, <1>2, <2>3, StageOnly
  <2>5. r \in moved
    BY <1>1, <1>3, <1>5, <1>6, <1>8 DEF Bounded
  <2> QED BY <2>2, <2>3, <2>4, <2>5, SilentSteps
<1>9. CASE /\ p.look = p.mine /\ ~(up > Len(remote[r]) \/ up > Len(local))
           /\ UpTo(remote[r], up) = UpTo(local, up)
  <2>1. PICK q : q = Upper(p)
    OBVIOUS
  <2>2. Step(r, LookAt(r, q))
    BY <1>9, <2>1 DEF FindCommonRoot
  <2>3. /\ q \in PullState /\ q.stage = "search" /\ q.bottom = Len(p.look) /\ q.top = p.top /\ q.seen = p.seen
        /\ q.from = p.from /\ q.applied = p.applied /\ q.apply = p.apply /\ q.got = p.got
    BY <1>1, <1>2, <1>3, <2>1 DEF PullState, Upper
  <2>4. ASSUME r \notin moved
        PROVE  Bounded(r, q)
    <3>1. up \in 1..Len(local) /\ up <= Len(remote[r])
      BY <1>1, <1>3, <1>9
    <3>2. up <= CommonLength(r)
      BY <1>5, <1>9, <3>1
    <3>3. Len(p.look) < CommonLength(r)
      BY <1>3, <1>5, <3>2
    <3> QED BY <1>3, <1>4, <1>5, <1>6, <2>3, <2>4, <3>3 DEF Bounded
  <2> QED BY <1>2, <2>2, <2>3, <2>4, LookAtKeeps
<1>10. CASE /\ p.look = p.mine /\ ~(up > Len(remote[r]) \/ up > Len(local))
            /\ UpTo(remote[r], up) # UpTo(local, up)
  <2>1. PICK q : q = [p EXCEPT !.stage = IF Len(p.look) = p.bottom THEN "failed" ELSE "branch"]
    OBVIOUS
  <2>2. Step(r, q)
    BY <1>10, <2>1 DEF FindCommonRoot
  <2>3. /\ q \in PullState /\ q.stage = (IF Len(p.look) = p.bottom THEN "failed" ELSE "branch")
        /\ q.look = p.look /\ q.seen = p.seen
        /\ q.from = p.from /\ q.applied = p.applied /\ q.apply = p.apply /\ q.got = p.got
    BY <1>1, <2>1 DEF PullState
  <2>4. Rooted(q)
    BY <1>1, <1>2, <2>3, StageOnly
  <2>5. ASSUME r \notin moved
        PROVE  Tracked(r, q, KnownBlocks)
    <3>1. up \in 1..Len(local) /\ up <= Len(remote[r])
      BY <1>1, <1>3, <1>10
    <3>2. ~(up <= CommonLength(r))
      BY <1>5, <1>10, <3>1
    <3>3. Len(p.look) = CommonLength(r)
      BY <1>3, <1>5, <1>6, <1>10, <2>5, <3>2
    <3>4. p.look = Common(local, remote[r])
      BY <1>5, <1>6, <2>5, <3>3
    <3>5. Len(p.look) = p.bottom => CommonLength(r) = Bottom
      BY <1>3, <1>4, <1>6, <2>5, <3>3 DEF Bounded
    <3>6. Bottom <= CommonLength(r) /\ CommonLength(r) < Len(local)
      BY <1>4, <1>5, <1>6, <2>5 DEF Bounded
    <3>7. CompletePull(r, q, KnownBlocks)
      BY <2>3, <3>4, <3>5 DEF CompletePull, CommonLength
    <3>8. Followed(r, q, KnownBlocks)
      BY <1>6, <2>3, <2>5, <3>6 DEF Followed
    <3> QED BY <3>7, <3>8 DEF Tracked
  <2> QED BY <2>2, <2>3, <2>4, <2>5, SilentSteps
<1> QED BY <1>7, <1>8, <1>9, <1>10

----------------------------------------------------------------------------
(* The chains change. *)

\* The bounds of the pulls stay where they are, whatever is said of the chains.
LEMMA PullsRooted ==
    ASSUME PullingInv, pull' = pull, local'[1] = local[1],
           local' \in Seq(Label), local' # <<>>, \A b \in stored' : OfRoot(b), \A r \in Remote : OfRoot(remote'[r])
    PROVE  OneRoot'
<1>1. \A b : OfRoot(b)' <=> OfRoot(b)
  BY DEF OfRoot
<1>2. \A r \in Remote : Rooted(pull[r])' <=> Rooted(pull[r])
  BY <1>1 DEF Rooted
<1>3. \A r \in Remote : Rooted(pull[r])
  BY DEF PullingInv, OneRoot
<1>4. OfRoot(local)' /\ (\A b \in stored : OfRoot(b))'
  BY DEF OfRoot
<1>5. \A r \in Remote : OfRoot(remote[r])'
  BY DEF OfRoot
<1> QED BY <1>2, <1>3, <1>4, <1>5 DEF OneRoot

LEMMA ResolutionKeeps == ASSUME PullingInv, Resolution PROVE PullingInv'
<1>1. PullingTypeOK /\ pull \in [Remote -> PullState] /\ OneRoot
  BY DEF PullingInv
<1>2. PICK c \in stored : Move(c)
  BY DEF Resolution
<1>3. OfRoot(c) /\ OfRoot(local) /\ \A r \in Remote : OfRoot(remote[r])
  BY <1>1, <1>2 DEF OneRoot
<1>4. local' = c /\ moved' = Remote /\ UNCHANGED <<remote, pull, moves, pulls>>
  BY <1>2 DEF Move
<1>5. \A b \in stored' : OfRoot(b)
  <2>1. PICK m : m = Len(Common(local, c))
    OBVIOUS
  <2>2. m \in 1..Len(local)
    BY <1>3, <2>1, CommonFacts
  <2>3. stored' = (stored \cup {UpTo(local, i) : i \in m + 1..Len(local)}) \ {UpTo(c, i) : i \in 1..Len(c)}
    BY <1>2, <2>1 DEF Move
  <2>4. ASSUME NEW i \in m + 1..Len(local)
        PROVE  OfRoot(UpTo(local, i))
    <3>1. Len(local) \in Nat
      BY <1>3, LenProperties DEF OfRoot
    <3>2. i \in 1..Len(local)
      BY <2>2, <3>1
    <3> QED BY <1>3, <3>2, BeginningOfRoot
  <2> QED BY <1>1, <2>3, <2>4 DEF OneRoot
<1>6. OneRoot'
  BY <1>3, <1>4, <1>5, PullsRooted DEF OfRoot
<1>7. PullingTypeOK'
  <2>1. {local'} \cup stored' \subseteq Seq(Label) \ {<<>>}
    BY <1>3, <1>4, <1>5 DEF OfRoot
  <2>2. moved' \subseteq Remote
    BY <1>4
  <2> QED BY <1>1, <1>4, <2>1, <2>2 DEF PullingTypeOK
<1> QED BY <1>1, <1>4, <1>6, <1>7 DEF PullingInv

LEMMA RemoteMovesKeeps == ASSUME PullingInv, NEW r \in Remote, RemoteMoves(r) PROVE PullingInv'
<1>1. /\ PullingTypeOK /\ pull \in [Remote -> PullState] /\ OneRoot
      /\ \A s \in Remote \ moved : Tracked(s, pull[s], KnownBlocks)
  BY DEF PullingInv
<1>2. PICK l \in Label, back \in 0..1 :
        /\ back < Len(remote[r])
        /\ remote' = [remote EXCEPT ![r] = Append(UpTo(remote[r], Len(remote[r]) - back), l)]
  BY DEF RemoteMoves
<1>3. /\ moves < MaxMoves /\ moves' = moves + 1 /\ moved' = moved \cup {r}
      /\ UNCHANGED <<local, stored, pull, pulls>>
  BY DEF RemoteMoves
<1>4. PICK c : c = remote[r]
  OBVIOUS
<1>5. OfRoot(c) /\ c \in Seq(Label) /\ Len(c) \in Nat \ {0} /\ remote \in [Remote -> Seq(Label) \ {<<>>}]
  <2>1. OfRoot(c) /\ remote \in [Remote -> Seq(Label) \ {<<>>}]
    BY <1>1, <1>4 DEF OneRoot, PullingTypeOK
  <2> QED BY <2>1, EmptySeq DEF OfRoot
<1>6. PICK u : u = UpTo(c, Len(c) - back)
  OBVIOUS
<1>7. OfRoot(u) /\ u \in Seq(Label) /\ Len(u) \in Nat \ {0}
  <2>1. Len(c) - back \in 1..Len(c)
    BY <1>2, <1>4, <1>5
  <2>2. OfRoot(u)
    BY <1>5, <1>6, <2>1, BeginningOfRoot
  <2> QED BY <2>2, EmptySeq DEF OfRoot
<1>8. PICK d : d = Append(u, l)
  OBVIOUS
<1>9. d \in Seq(Label) /\ d # <<>> /\ d[1] = u[1]
  <2>1. d \in Seq(Label) /\ Len(d) = Len(u) + 1
    BY <1>7, <1>8, AppendProperties
  <2>2. d[1] = u[1]
    BY <1>7, <1>8, AppendProperties
  <2>3. Len(<<>>) = 0
    BY EmptySeq
  <2> QED BY <1>7, <2>1, <2>2, <2>3
<1>10. OfRoot(d)
  BY <1>7, <1>9 DEF OfRoot
<1>11. remote' = [remote EXCEPT ![r] = d]
  BY <1>2, <1>4, <1>6, <1>8
<1>12. remote' \in [Remote -> Seq(Label) \ {<<>>}] /\ \A s \in Remote : OfRoot(remote'[s])
  BY <1>1, <1>5, <1>9, <1>10, <1>11 DEF OneRoot
<1>13. OneRoot'
  <2>1. OfRoot(local) /\ \A b \in stored' : OfRoot(b)
    BY <1>1, <1>3 DEF OneRoot
  <2>2. local' \in Seq(Label) /\ local' # <<>> /\ local'[1] = local[1] /\ pull' = pull
    BY <1>3, <2>1 DEF OfRoot
  <2> QED BY <1>12, <2>1, <2>2, PullsRooted
<1>14. PullingTypeOK'
  <2>1. moves' \in 0..MaxMoves /\ moved' \subseteq Remote
    BY <1>1, <1>3, PullingFacts DEF PullingTypeOK
  <2> QED BY <1>1, <1>3, <1>12, <2>1 DEF PullingTypeOK
<1>15. ASSUME NEW s \in Remote \ moved'
       PROVE  Tracked(s, pull[s], KnownBlocks)'
  <2>1. s \in Remote \ moved /\ s # r
    BY <1>3, <1>15
  <2>2. local' = local /\ remote'[s] = remote[s] /\ pull'[s] = pull[s] /\ KnownBlocks' = KnownBlocks
    BY <1>3, <1>5, <1>11, <2>1 DEF KnownBlocks
  <2>3. PICK p : p = pull'[s]
    OBVIOUS
  <2>4. PICK L : L = KnownBlocks'
    OBVIOUS
  <2>5. Tracked(s, p, L)
    BY <1>1, <2>1, <2>2, <2>3, <2>4
  <2> QED BY <2>1, <2>2, <2>3, <2>4, <2>5, SameChains
<1> QED BY <1>1, <1>3, <1>13, <1>14, <1>15 DEF PullingInv

----------------------------------------------------------------------------

LEMMA PullingStart == PullingInit => PullingInv
<1> SUFFICES ASSUME PullingInit PROVE PullingInv
  OBVIOUS
<1>1. /\ local \in Seq(Label) \ {<<>>} /\ remote \in [Remote -> Seq(Label) \ {<<>>}] /\ stored = {}
      /\ \A r \in Remote : remote[r][1] = local[1]
      /\ pull = [r \in Remote |-> Idle] /\ moved = {} /\ moves = 0 /\ pulls = 0
  BY PullingFacts DEF PullingInit
<1>2. /\ Idle \in PullState /\ Rooted(Idle)
      /\ \A r \in Remote : Tracked(r, Idle, KnownBlocks)
  BY IdleState
<1>3. PullingTypeOK
  <2>1. Idle.stage = "idle"
    BY DEF Idle
  <2> QED BY <1>1, <2>1, PullingFacts DEF PullingTypeOK
<1>4. OneRoot
  BY <1>1, <1>2 DEF OneRoot, OfRoot
<1> QED BY <1>1, <1>2, <1>3, <1>4 DEF PullingInv

LEMMA PullingStep == PullingInv /\ [PullingNext]_pullingVars => PullingInv'
<1> SUFFICES ASSUME PullingInv, [PullingNext]_pullingVars PROVE PullingInv'
  OBVIOUS
<1>1. ASSUME NEW r \in Remote, Pull(r) PROVE PullingInv'
  BY <1>1, PullKeeps
<1>2. ASSUME NEW r \in Remote, ApplyBranch(r) PROVE PullingInv'
  BY <1>2, ApplyBranchKeeps
<1>3. ASSUME NEW r \in Remote, ReadCurrent(r) PROVE PullingInv'
  BY <1>3, ReadCurrentKeeps
<1>4. ASSUME NEW r \in Remote, FoundFork(r) PROVE PullingInv'
  BY <1>4, FoundForkKeeps
<1>5. ASSUME NEW r \in Remote, Download(r) PROVE PullingInv'
  BY <1>5, DownloadKeeps
<1>6. ASSUME NEW r \in Remote, NextChunk(r) PROVE PullingInv'
  BY <1>6, NextChunkKeeps
<1>7. ASSUME NEW r \in Remote, FilterFork(r) PROVE PullingInv'
  BY <1>7, FilterForkKeeps
<1>8. ASSUME NEW r \in Remote, FindCommonRoot(r) PROVE PullingInv'
  BY <1>8, FindCommonRootKeeps
<1>9. ASSUME NEW r \in Remote, FollowFork(r) PROVE PullingInv'
  BY <1>9, FollowForkKeeps
<1>10. ASSUME NEW r \in Remote, EndPull(r) PROVE PullingInv'
  BY <1>10, EndPullKeeps
<1>11. ASSUME NEW r \in Remote, RemoteMoves(r) PROVE PullingInv'
  BY <1>11, RemoteMovesKeeps
<1>12. CASE Resolution
  BY <1>12, ResolutionKeeps
<1>13. CASE UNCHANGED pullingVars
  <2>1. /\ PullingTypeOK /\ pull \in [Remote -> PullState] /\ OneRoot
        /\ \A r \in Remote \ moved : Tracked(r, pull[r], KnownBlocks)
    BY DEF PullingInv
  <2>2. UNCHANGED <<local, stored, remote, pull, moved, moves, pulls>>
    BY <1>13 DEF pullingVars
  <2>3. PullingTypeOK'
    BY <2>1, <2>2 DEF PullingTypeOK
  <2>4. OneRoot'
    BY <2>1, <2>2, PullsRooted DEF OneRoot, OfRoot
  <2>5. ASSUME NEW r \in Remote \ moved'
        PROVE  Tracked(r, pull[r], KnownBlocks)'
    <3>1. PICK p : p = pull'[r]
      OBVIOUS
    <3>2. PICK L : L = KnownBlocks'
      OBVIOUS
    <3>3. Tracked(r, p, L)
      BY <2>1, <2>2, <2>5, <3>1, <3>2 DEF KnownBlocks
    <3> QED BY <2>2, <3>1, <3>2, <3>3, SameChains
  <2> QED BY <2>1, <2>2, <2>3, <2>4, <2>5 DEF PullingInv
<1> QED BY <1>1, <1>2, <1>3, <1>4, <1>5, <1>6, <1>7, <1>8, <1>9, <1>10, <1>11, <1>12, <1>13 DEF PullingNext

\* A pull loses nothing while the chains stay: for any chains, window and sizes of chunks, it fails only where the
\* last common block is the lowest it may look at, the root that its binary search finds is the last common block,
\* and it ends with the next chunk, or the branch of a fork ahead enough, among the blocks that the node knows
\* (applyCoroutine, forks and findCommonRoot of pulling.ts).
THEOREM PullsAreComplete == PullingSpec => []PullIsComplete
<1>1. PullingInit => PullingInv
  BY PullingStart
<1>2. PullingInv /\ [PullingNext]_pullingVars => PullingInv'
  BY PullingStep
<1>3. PullingInv => PullIsComplete
  BY DEF PullingInv, Tracked, CompletePull, PullIsComplete
<1> QED BY <1>1, <1>2, <1>3, PTL DEF PullingSpec

-----------------------------------------------------------------------------
(***************************************************************************)
(* The places of a node.                                                   *)
(***************************************************************************)
Attempt == [id : Id, key : Key, way : {"in", "bundle", "flow"}, asked : 0..2]
CrawlState == [left : SUBSET Key, own : BOOLEAN, siblings : Nat, busy : BOOLEAN]
TrimTask == [kind : {"server", "once", "client", "public", "waitPublic", "count", "scan", "wait"},
             id : 0..MaxConns, pick : 0..MaxConns, left : SUBSET Id, keys : SUBSET Key]

\* A list of connections serves a key once, but for the key of the node.
ServesOnce(cs) == \A i, j \in DOMAIN cs : cs[i].key = cs[j].key /\ cs[i].key \notin Own => i = j

\* Someone is at work on an excess of clients.
ClientsWatched == failed \/ crawl.busy \/ \E t \in tasks : t.kind \notin {"server", "once"}

ClusterInv ==
    /\ ClusterTypeOK /\ IsFiniteSet(Served) /\ ServesOnce(served)
    /\ \A a \in attempts : a.way = "bundle" => crawl.busy
    /\ CountConnexions > MaxPublic => \E t \in tasks : t.kind = "server"
    /\ ClientsCount > MaxPrivate => ClientsWatched

LEMMA ClusterFacts ==
    /\ IsFiniteSet(Key) /\ MaxPrivate \in Nat /\ MaxPublic \in Nat /\ MaxConns \in Nat /\ Own \subseteq Key
BY ClusterAssumption

----------------------------------------------------------------------------
(* Lists of connections. *)

LEMMA RemovedAt ==
    ASSUME NEW s \in Seq(Connection), NEW i \in DOMAIN s
    PROVE  /\ RemoveAt(s, i) \in Seq(Connection) /\ Len(RemoveAt(s, i)) = Len(s) - 1
           /\ \A k \in 1..Len(s) - 1 : RemoveAt(s, i)[k] = IF k < i THEN s[k] ELSE s[k + 1]
<1>1. Len(s) \in Nat /\ i \in 1..Len(s) /\ \A k \in 1..Len(s) : s[k] \in Connection
  BY LenProperties
<1>2. PICK a : a = SubSeq(s, 1, i - 1)
  OBVIOUS
<1>3. PICK b : b = SubSeq(s, i + 1, Len(s))
  OBVIOUS
<1>4. a \in Seq(Connection) /\ Len(a) = i - 1 /\ \A k \in 1..i - 1 : a[k] = s[k]
  <2>1. 1 \in Int /\ i - 1 \in Int /\ \A k \in 1..i - 1 : s[k] \in Connection
    BY <1>1
  <2>2. /\ a \in Seq(Connection) /\ Len(a) = IF 1 <= i - 1 THEN i - 1 - 1 + 1 ELSE 0
        /\ \A k \in 1..i - 1 - 1 + 1 : a[k] = s[1 + k - 1]
    BY <1>2, <2>1, SubSeqProperties
  <2> QED BY <1>1, <2>2
<1>5. b \in Seq(Connection) /\ Len(b) = Len(s) - i /\ \A k \in 1..Len(s) - i : b[k] = s[i + k]
  <2>1. i + 1 \in Int /\ Len(s) \in Int /\ \A k \in i + 1..Len(s) : s[k] \in Connection
    BY <1>1
  <2>2. /\ b \in Seq(Connection) /\ Len(b) = IF i + 1 <= Len(s) THEN Len(s) - (i + 1) + 1 ELSE 0
        /\ \A k \in 1..Len(s) - (i + 1) + 1 : b[k] = s[i + 1 + k - 1]
    BY <1>3, <2>1, SubSeqProperties
  <2> QED BY <1>1, <2>2
<1>6. RemoveAt(s, i) = a \o b
  BY <1>2, <1>3 DEF RemoveAt
<1>7. /\ a \o b \in Seq(Connection) /\ Len(a \o b) = Len(a) + Len(b)
      /\ \A k \in 1..Len(a) + Len(b) : (a \o b)[k] = IF k <= Len(a) THEN a[k] ELSE b[k - Len(a)]
  <2>1. a \in Seq(Connection) /\ b \in Seq(Connection)
    BY <1>4, <1>5
  <2>2. a \o b \in Seq(Connection)
    BY <2>1, ConcatProperties
  <2>3. Len(a \o b) = Len(a) + Len(b)
    BY <2>1, ConcatProperties
  <2>4. ASSUME NEW k \in 1..Len(a) + Len(b)
        PROVE  (a \o b)[k] = IF k <= Len(a) THEN a[k] ELSE b[k - Len(a)]
    BY <2>1
  <2> QED BY <2>2, <2>3, <2>4
<1>8. PICK c : c = a \o b
  OBVIOUS
<1>9. ASSUME NEW k \in 1..Len(s) - 1
      PROVE  c[k] = IF k < i THEN s[k] ELSE s[k + 1]
  <2>1. c[k] = IF k <= i - 1 THEN a[k] ELSE b[k - (i - 1)]
    <3>1. Len(a) = i - 1 /\ k \in 1..Len(a) + Len(b)
      BY <1>1, <1>4, <1>5
    <3>2. c[k] = IF k <= Len(a) THEN a[k] ELSE b[k - Len(a)]
      BY <1>7, <1>8, <3>1
    <3> QED BY <3>1, <3>2
  <2>2. CASE k < i
    BY <1>1, <1>4, <2>1, <2>2
  <2>3. CASE ~(k < i)
    <3>1. k - (i - 1) \in 1..Len(s) - i /\ i + (k - (i - 1)) = k + 1
      BY <1>1, <2>3
    <3> QED BY <1>1, <1>5, <2>1, <2>3, <3>1
  <2> QED BY <2>2, <2>3
<1>10. Len(c) = Len(s) - 1 /\ c \in Seq(Connection)
  BY <1>1, <1>4, <1>5, <1>7, <1>8
<1> QED BY <1>6, <1>8, <1>9, <1>10

\* A connection less leaves the others in order.
LEMMA ShorterList ==
    ASSUME NEW s \in Seq(Connection), ServesOnce(s), NEW id
    PROVE  Spliced(s, id) \in Seq(Connection) /\ ServesOnce(Spliced(s, id)) /\ ToSet(Spliced(s, id)) \subseteq ToSet(s)
<1>1. CASE \E i \in DOMAIN s : s[i].id = id
  <2>1. PICK i \in DOMAIN s : Spliced(s, id) = RemoveAt(s, i)
    BY <1>1 DEF Spliced
  <2>2. PICK r : r = RemoveAt(s, i)
    OBVIOUS
  <2>3. /\ r \in Seq(Connection) /\ Len(r) = Len(s) - 1
        /\ \A k \in 1..Len(s) - 1 : r[k] = IF k < i THEN s[k] ELSE s[k + 1]
    BY <2>2, RemovedAt
  <2>4. Len(s) \in Nat /\ DOMAIN s = 1..Len(s) /\ DOMAIN r = 1..Len(s) - 1
    BY <2>3, LenProperties
  <2>5. \A k \in DOMAIN r : \E j \in DOMAIN s : r[k] = s[j] /\ j = (IF k < i THEN k ELSE k + 1)
    BY <2>3, <2>4
  <2>6. ToSet(r) \subseteq ToSet(s)
    BY <2>5 DEF ToSet
  <2>7. ASSUME NEW k \in DOMAIN r, NEW l \in DOMAIN r, r[k].key = r[l].key, r[k].key \notin Own
        PROVE  k = l
    <3>1. PICK j \in DOMAIN s : r[k] = s[j] /\ j = (IF k < i THEN k ELSE k + 1)
      BY <2>5
    <3>2. PICK m \in DOMAIN s : r[l] = s[m] /\ m = (IF l < i THEN l ELSE l + 1)
      BY <2>5
    <3>3. j = m
      BY <2>7, <3>1, <3>2 DEF ServesOnce
    <3> QED BY <2>4, <3>1, <3>2, <3>3
  <2>8. ServesOnce(r)
    BY <2>7 DEF ServesOnce
  <2> QED BY <2>1, <2>2, <2>3, <2>6, <2>8
<1>2. CASE ~\E i \in DOMAIN s : s[i].id = id
  BY <1>2 DEF Spliced
<1> QED BY <1>1, <1>2

\* removeDuplicateConnections takes the newcomer out when its key is served.
LEMMA NewInList ==
    ASSUME NEW s \in Seq(Connection), ServesOnce(s), NEW c \in Connection
    PROVE  /\ RemoveDuplicates(Append(s, c)) \in Seq(Connection) /\ ServesOnce(RemoveDuplicates(Append(s, c)))
           /\ ToSet(RemoveDuplicates(Append(s, c))) \subseteq ToSet(s) \cup {c}
<1>1. PICK a : a = Append(s, c)
  OBVIOUS
<1>2. Len(s) \in Nat /\ DOMAIN s = 1..Len(s)
  BY LenProperties
<1>3. /\ a \in Seq(Connection) /\ Len(a) = Len(s) + 1 /\ DOMAIN a = 1..Len(s) + 1
      /\ \A i \in 1..Len(s) : a[i] = s[i]
      /\ a[Len(s) + 1] = c
  <2>1. /\ a \in Seq(Connection) /\ Len(a) = Len(s) + 1 /\ \A i \in 1..Len(s) : a[i] = s[i]
        /\ a[Len(s) + 1] = c
    BY <1>1, AppendProperties
  <2> QED BY <2>1, LenProperties
<1>4. PICK again : again = {i \in DOMAIN a : a[i].key \notin Own /\ \E j \in 1..i - 1 : a[j].key = a[i].key}
  OBVIOUS
<1>5. again \subseteq {Len(s) + 1}
  <2>1. ASSUME NEW i \in again, i # Len(s) + 1
        PROVE  FALSE
    <3>1. i \in 1..Len(s) /\ a[i].key \notin Own
      BY <1>2, <1>3, <1>4, <2>1
    <3>2. PICK j \in 1..i - 1 : a[j].key = a[i].key
      BY <1>4, <2>1
    <3>3. j \in 1..Len(s) /\ j # i
      BY <1>2, <3>1, <3>2
    <3> QED BY <1>2, <1>3, <3>1, <3>2, <3>3 DEF ServesOnce
  <2> QED BY <2>1
<1>6. RemoveDuplicates(a) = IF again = {} THEN a ELSE RemoveAt(a, Min(again))
  BY <1>4 DEF RemoveDuplicates
<1>7. CASE again = {}
  <2>1. ToSet(a) \subseteq ToSet(s) \cup {c}
    <3>1. \A i \in DOMAIN a : i \in DOMAIN s \/ i = Len(s) + 1
      BY <1>2, <1>3
    <3>2. \A i \in DOMAIN a : (i \in DOMAIN s /\ a[i] = s[i]) \/ a[i] = c
      BY <1>2, <1>3, <3>1
    <3> QED BY <3>2 DEF ToSet
  <2>2. ASSUME NEW i \in DOMAIN a, NEW j \in DOMAIN a, a[i].key = a[j].key, a[i].key \notin Own, j < i
        PROVE  FALSE
    <3>1. j \in 1..i - 1
      BY <1>2, <1>3, <2>2
    <3>2. i \in again
      BY <1>4, <2>2, <3>1
    <3> QED BY <1>7, <3>2
  <2>3. ASSUME NEW i \in DOMAIN a, NEW j \in DOMAIN a, a[i].key = a[j].key, a[i].key \notin Own
        PROVE  i = j
    <3>1. ~(j < i) /\ ~(i < j)
      BY <2>2, <2>3
    <3> QED BY <1>2, <1>3, <3>1
  <2>4. ServesOnce(a)
    BY <2>3 DEF ServesOnce
  <2> QED BY <1>1, <1>3, <1>6, <1>7, <2>1, <2>4
<1>8. CASE again # {}
  <2>1. again = {Len(s) + 1} /\ Len(s) + 1 \in DOMAIN a
    BY <1>4, <1>5, <1>8
  <2>2. Min(again) = Len(s) + 1
    BY <1>2, <2>1 DEF Min
  <2>3. PICK r : r = RemoveAt(a, Len(s) + 1)
    OBVIOUS
  <2>4. /\ r \in Seq(Connection) /\ Len(r) = Len(a) - 1
        /\ \A k \in 1..Len(a) - 1 : r[k] = IF k < Len(s) + 1 THEN a[k] ELSE a[k + 1]
    BY <1>3, <2>1, <2>3, RemovedAt
  <2>5. Len(r) = Len(s) /\ \A k \in 1..Len(s) : r[k] = s[k]
    BY <1>2, <1>3, <2>4
  <2>6. r = s
    BY <1>2, <2>4, <2>5, SeqEqual
  <2> QED BY <1>1, <1>6, <1>8, <2>2, <2>3, <2>6
<1> QED BY <1>7, <1>8

----------------------------------------------------------------------------
(* Numbers of connections. *)

LEMMA FewerServed ==
    ASSUME IsFiniteSet(Served), Served' \subseteq Served
    PROVE  IsFiniteSet(Served)' /\ CountConnexions \in Nat /\ CountConnexions' \in Nat /\ CountConnexions' <= CountConnexions
<1>1. PICK A : A = {c \in Served : c.key \notin Own}
  OBVIOUS
<1>2. PICK B : B = {c \in Served' : c.key \notin Own}
  OBVIOUS
<1>3. A \subseteq Served /\ B \subseteq A
  BY <1>1, <1>2
<1>4. IsFiniteSet(A) /\ IsFiniteSet(Served')
  BY <1>3, FS_Subset
<1>5. IsFiniteSet(B) /\ Cardinality(B) <= Cardinality(A)
  BY <1>3, <1>4, FS_Subset
<1>6. Cardinality(A) \in Nat /\ Cardinality(B) \in Nat
  BY <1>4, <1>5, FS_CardinalityType
<1> QED BY <1>1, <1>2, <1>4, <1>5, <1>6 DEF CountConnexions

LEMMA FewerClients ==
    ASSUME ClusterTypeOK, clients' \subseteq clients
    PROVE  ClientsCount \in Nat /\ ClientsCount' \in Nat /\ ClientsCount' <= ClientsCount
<1>1. PICK A : A = Keys(clients) \ Own
  OBVIOUS
<1>2. PICK B : B = Keys(clients') \ Own
  OBVIOUS
<1>3. A \subseteq Key /\ B \subseteq A
  BY <1>1, <1>2 DEF Keys, ClusterTypeOK, Connection
<1>4. IsFiniteSet(A)
  BY <1>3, ClusterFacts, FS_Subset
<1>5. IsFiniteSet(B) /\ Cardinality(B) <= Cardinality(A)
  BY <1>3, <1>4, FS_Subset
<1>6. Cardinality(A) \in Nat /\ Cardinality(B) \in Nat
  BY <1>4, <1>5, FS_CardinalityType
<1> QED BY <1>1, <1>2, <1>5, <1>6 DEF ClientsCount, Keys

----------------------------------------------------------------------------
(* Steps. *)

Kinds == {"server", "once", "client", "public", "waitPublic", "count", "scan", "wait"}

LEMMA ClusterTypes ==
    ASSUME ClusterInv
    PROVE  /\ served \in Seq(Connection) /\ clients \subseteq Connection
           /\ attempts \subseteq Attempt /\ tasks \subseteq TrimTask
           /\ crawl \in CrawlState /\ failed \in BOOLEAN
           /\ banned \subseteq Key /\ made \in 0..MaxConns
           /\ \A c \in Served : c \in Connection
           /\ ClientIds \subseteq Id
<1>1. /\ served \in Seq(Connection) /\ clients \subseteq Connection
      /\ attempts \subseteq Attempt /\ tasks \subseteq TrimTask
      /\ crawl \in CrawlState /\ failed \in BOOLEAN
      /\ banned \subseteq Key /\ made \in 0..MaxConns
  BY DEF ClusterInv, ClusterTypeOK, Attempt, TrimTask, CrawlState
<1>2. \A c \in Served : c \in Connection
  BY <1>1, LenProperties DEF Served, ToSet
<1>3. ClientIds \subseteq Id
  BY <1>1 DEF ClientIds, Connection
<1> QED BY <1>1, <1>2, <1>3

\* What a change of the tasks, or of attempts, has to keep.
LEMMA PlacesStep ==
    ASSUME ClusterInv,
           served' \in Seq(Connection), ServesOnce(served'), Served' \subseteq Served, clients' \subseteq clients,
           attempts' \subseteq Attempt, tasks' \subseteq TrimTask,
           crawl' \in CrawlState, failed' \in BOOLEAN,
           banned' \subseteq Key, made' \in 0..MaxConns,
           \A a \in attempts' : a.way = "bundle" => crawl'.busy,
           (\E t \in tasks : t.kind = "server") => (\E t \in tasks' : t.kind = "server") \/ ~(CountConnexions > MaxPublic),
           ClientsWatched => ClientsWatched' \/ ~(ClientsCount > MaxPrivate)
    PROVE  ClusterInv'
<1>1. ClusterTypeOK /\ IsFiniteSet(Served) /\ MaxPublic \in Nat /\ MaxPrivate \in Nat
  BY ClusterFacts DEF ClusterInv
<1>2. ClusterTypeOK'
  BY <1>1 DEF ClusterTypeOK, Attempt, TrimTask, CrawlState
<1>3. IsFiniteSet(Served)' /\ CountConnexions \in Nat /\ CountConnexions' \in Nat /\ CountConnexions' <= CountConnexions
  BY <1>1, FewerServed
<1>4. ClientsCount \in Nat /\ ClientsCount' \in Nat /\ ClientsCount' <= ClientsCount
  BY <1>1, FewerClients
<1>5. ServesOnce(served)'
  BY DEF ServesOnce
<1>6. (\A a \in attempts : a.way = "bundle" => crawl.busy)'
  OBVIOUS
<1>7. CountConnexions' > MaxPublic => \E t \in tasks' : t.kind = "server"
  <2>1. CountConnexions' > MaxPublic => CountConnexions > MaxPublic
    BY <1>1, <1>3
  <2>2. CountConnexions > MaxPublic => \E t \in tasks : t.kind = "server"
    BY DEF ClusterInv
  <2> QED BY <2>1, <2>2
<1>8. ClientsCount' > MaxPrivate => ClientsWatched'
  <2>1. ClientsCount' > MaxPrivate => ClientsCount > MaxPrivate
    BY <1>1, <1>4
  <2>2. ClientsCount > MaxPrivate => ClientsWatched
    BY DEF ClusterInv
  <2> QED BY <2>1, <2>2
<1> QED BY <1>2, <1>3, <1>5, <1>6, <1>7, <1>8 DEF ClusterInv

\* A new attempt, or a change of one.
LEMMA AttemptStep ==
    ASSUME ClusterInv, UNCHANGED <<served, clients, crawl, tasks, failed, banned>>,
           made' \in 0..MaxConns, attempts' \subseteq Attempt,
           \A a \in attempts' : a.way = "bundle" => \E b \in attempts : b.way = "bundle"
    PROVE  ClusterInv'
<1>1. Served' = Served /\ ServesOnce(served')
  BY DEF Served, ClusterInv
<1>2. ClientsWatched' <=> ClientsWatched
  BY DEF ClientsWatched
<1>3. \A a \in attempts' : a.way = "bundle" => crawl'.busy
  BY DEF ClusterInv
<1> QED BY <1>1, <1>2, <1>3, ClusterTypes, PlacesStep

LEMMA IncomingStep == ASSUME ClusterInv, NEW k \in Key, Incoming(k) PROVE ClusterInv'
<1>1. made \in 0..MaxConns /\ attempts \subseteq Attempt /\ MaxConns \in Nat
  BY ClusterTypes, ClusterFacts
<1>2. made' \in Id
  BY <1>1 DEF Incoming, Started, Bound, Id
<1>3. [id |-> made', key |-> k, way |-> "in", asked |-> 0] \in Attempt
  BY <1>2 DEF Attempt
<1>4. PICK a : a = [id |-> made', key |-> k, way |-> "in", asked |-> 0]
  OBVIOUS
<1>5. a \in Attempt /\ a.way = "in" /\ attempts' = attempts \cup {a}
  BY <1>3, <1>4 DEF Incoming
<1> QED BY <1>1, <1>2, <1>5, AttemptStep DEF Incoming, Id

LEMMA ListenServerFlowStep == ASSUME ClusterInv, NEW k \in Key, ListenServerFlow(k) PROVE ClusterInv'
<1>1. made \in 0..MaxConns /\ attempts \subseteq Attempt /\ MaxConns \in Nat
  BY ClusterTypes, ClusterFacts
<1>2. made' \in Id
  BY <1>1 DEF ListenServerFlow, Started, Bound, Id
<1>3. [id |-> made', key |-> k, way |-> "flow", asked |-> 0] \in Attempt
  BY <1>2 DEF Attempt
<1>4. PICK a : a = [id |-> made', key |-> k, way |-> "flow", asked |-> 0]
  OBVIOUS
<1>5. a \in Attempt /\ a.way = "flow" /\ attempts' = attempts \cup {a}
  BY <1>3, <1>4 DEF ListenServerFlow
<1> QED BY <1>1, <1>2, <1>5, AttemptStep DEF ListenServerFlow, Id

LEMMA AllowStep == ASSUME ClusterInv, NEW a \in attempts, Allow(a) PROVE ClusterInv'
<1>1. made \in 0..MaxConns /\ attempts \subseteq Attempt /\ a \in Attempt
  BY ClusterTypes
<1>2. PICK b : b = [a EXCEPT !.asked = @ + 1]
  OBVIOUS
<1>3. b \in Attempt /\ b.way = a.way
  BY <1>1, <1>2 DEF Allow, Attempt
<1>4. attempts' = (attempts \ {a}) \cup {b}
  BY <1>2 DEF Allow
<1> QED BY <1>1, <1>3, <1>4, AttemptStep DEF Allow

LEMMA GiveUpStep == ASSUME ClusterInv, NEW a \in attempts, GiveUp(a) PROVE ClusterInv'
<1>1. made \in 0..MaxConns /\ attempts \subseteq Attempt
  BY ClusterTypes
<1> QED BY <1>1, AttemptStep DEF GiveUp

\* A change of the tasks only: the tasks of the server go on, and those of the clients.
LEMMA TaskStep ==
    ASSUME ClusterInv, UNCHANGED <<served, clients, attempts, crawl, banned, made>>,
           tasks' \subseteq TrimTask, failed' \in BOOLEAN,
           (\E t \in tasks : t.kind = "server") => (\E t \in tasks' : t.kind = "server") \/ ~(CountConnexions > MaxPublic),
           ClientsWatched => ClientsWatched' \/ ~(ClientsCount > MaxPrivate)
    PROVE  ClusterInv'
<1>1. Served' = Served /\ ServesOnce(served')
  BY DEF Served, ClusterInv
<1>2. \A a \in attempts' : a.way = "bundle" => crawl'.busy
  BY DEF ClusterInv
<1> QED BY <1>1, <1>2, ClusterTypes, PlacesStep

LEMMA NewTasks ==
    ASSUME ClusterInv, NEW kind \in Kinds, NEW id \in 0..MaxConns
    PROVE  NewTask(kind, id) \in TrimTask /\ NewTask(kind, id).kind = kind
<1>1. 0 \in 0..MaxConns
  BY ClusterFacts
<1> QED BY <1>1 DEF NewTask, TrimTask, Kinds

\* A task becomes another of the same side.
LEMMA UpdateStep ==
    ASSUME ClusterInv, NEW t \in tasks, NEW u \in TrimTask, tasks' = Update(t, u), u.kind = t.kind \/ t.kind \notin {"server", "once"},
           u.kind = t.kind \/ u.kind \notin {"server", "once"},
           UNCHANGED <<served, clients, attempts, crawl, banned, made>>, failed' \in BOOLEAN,
           t.kind \in {"server", "once"} => failed' = failed
    PROVE  ClusterInv'
<1>1. tasks \subseteq TrimTask
  BY ClusterTypes
<1>2. tasks' = (tasks \ {t}) \cup {u}
  BY DEF Update
<1>3. tasks' \subseteq TrimTask
  BY <1>1, <1>2
<1>4. (\E s \in tasks : s.kind = "server") => \E s \in tasks' : s.kind = "server"
  BY <1>2
<1>5. ClientsWatched => ClientsWatched'
  <2>1. CASE t.kind \in {"server", "once"}
    BY <1>2, <2>1 DEF ClientsWatched
  <2>2. CASE t.kind \notin {"server", "once"}
    BY <1>2, <2>2 DEF ClientsWatched
  <2> QED BY <2>1, <2>2
<1> QED BY <1>3, <1>4, <1>5, TaskStep

\* The newcomer may be one too many, and a task of the server starts with it.
LEMMA ConnectedStep == ASSUME ClusterInv, NEW a \in attempts, Connected(a) PROVE ClusterInv'
<1>1. a \in Attempt /\ served \in Seq(Connection) /\ ServesOnce(served) /\ made \in 0..MaxConns
  BY ClusterTypes DEF ClusterInv
<1>2. PICK c : c = [id |-> a.id, key |-> a.key]
  OBVIOUS
<1>3. c \in Connection /\ a.id \in 0..MaxConns
  BY <1>1, <1>2, ClusterFacts DEF Attempt, Connection, Id
<1>4. served' = RemoveDuplicates(Append(served, c))
  BY <1>2 DEF Connected
<1>5. served' \in Seq(Connection) /\ ServesOnce(served') /\ Served' \subseteq Served \cup {c}
  BY <1>1, <1>3, <1>4, NewInList DEF Served
<1>6. IsFiniteSet(Served \cup {c})
  BY FS_AddElement DEF ClusterInv
<1>7. IsFiniteSet(Served')
  BY <1>5, <1>6, FS_Subset
<1>8. PICK u : u = NewTask("server", a.id)
  OBVIOUS
<1>9. u \in TrimTask /\ u.kind = "server"
  BY <1>3, <1>8, NewTasks DEF Kinds
<1>10. tasks' = tasks \cup {u}
  BY <1>8 DEF Connected
<1>11. \E t \in tasks' : t.kind = "server"
  BY <1>9, <1>10
<1>12. ClientsWatched => ClientsWatched'
  BY <1>10 DEF ClientsWatched, Connected
<1>13. ClientsCount' = ClientsCount
  BY DEF ClientsCount, Connected
<1>14. ClientsCount' > MaxPrivate => ClientsWatched'
  BY <1>12, <1>13 DEF ClusterInv
<1>15. \A b \in attempts' : b.way = "bundle" => crawl'.busy
  BY DEF Connected, ClusterInv
<1>16. ClusterTypeOK'
  <2>1. tasks' \subseteq TrimTask
    BY <1>9, <1>10, ClusterTypes
  <2>2. attempts' \subseteq Attempt
    BY ClusterTypes DEF Connected
  <2>3. UNCHANGED <<clients, crawl, failed, banned, made>>
    BY DEF Connected
  <2> QED BY <1>5, <2>1, <2>2, <2>3, ClusterTypes DEF ClusterTypeOK, Attempt, TrimTask, CrawlState
<1> QED BY <1>5, <1>7, <1>11, <1>14, <1>15, <1>16 DEF ClusterInv, ServesOnce

\* A client more: the bundle it belongs to is still busy, or a task of its own starts.
LEMMA ConnectToRemoteWSStep == ASSUME ClusterInv, NEW a \in attempts, ConnectToRemoteWS(a) PROVE ClusterInv'
<1>1. a \in Attempt /\ made \in 0..MaxConns /\ clients \subseteq Connection
  BY ClusterTypes
<1>2. PICK c : c = [id |-> a.id, key |-> a.key]
  OBVIOUS
<1>3. c \in Connection /\ a.id \in 0..MaxConns
  BY <1>1, <1>2, ClusterFacts DEF Attempt, Connection, Id
<1>4. clients' = clients \cup {c}
  BY <1>2 DEF ConnectToRemoteWS
<1>5. PICK u : u = NewTask("client", a.id)
  OBVIOUS
<1>6. u \in TrimTask /\ u.kind = "client"
  BY <1>3, <1>5, NewTasks DEF Kinds
<1>7. tasks' = IF a.way = "flow" THEN tasks \cup {u} ELSE tasks
  BY <1>5 DEF ConnectToRemoteWS
<1>8. UNCHANGED <<served, crawl, failed, banned, made>>
  BY DEF ConnectToRemoteWS
<1>9. ClientsWatched'
  <2>1. CASE a.way = "bundle"
    BY <1>8, <2>1 DEF ClusterInv, ClientsWatched
  <2>2. CASE a.way = "flow"
    BY <1>6, <1>7, <2>2 DEF ClientsWatched
  <2> QED BY <2>1, <2>2 DEF ConnectToRemoteWS
<1>10. Served' = Served /\ CountConnexions' = CountConnexions
  BY <1>8 DEF Served, CountConnexions
<1>11. IsFiniteSet(Served')
  BY <1>10 DEF ClusterInv
<1>12. ServesOnce(served)'
  BY <1>8 DEF ServesOnce, ClusterInv
<1>13. CountConnexions' > MaxPublic => \E t \in tasks' : t.kind = "server"
  BY <1>7, <1>10 DEF ClusterInv
<1>14. \A b \in attempts' : b.way = "bundle" => crawl'.busy
  BY <1>8 DEF ConnectToRemoteWS, ClusterInv
<1>15. ClusterTypeOK'
  <2>1. tasks' \subseteq TrimTask
    BY <1>6, <1>7, ClusterTypes
  <2>2. attempts' \subseteq Attempt
    BY ClusterTypes DEF ConnectToRemoteWS
  <2>3. clients' \subseteq Connection
    BY <1>1, <1>3, <1>4
  <2> QED BY <1>8, <2>1, <2>2, <2>3, ClusterTypes DEF ClusterTypeOK, Attempt, TrimTask, CrawlState
<1> QED BY <1>9, <1>11, <1>12, <1>13, <1>14, <1>15 DEF ClusterInv

----------------------------------------------------------------------------
(* Steps of the crawl. *)

LEMMA ConnectToWS2PeersStep == ASSUME ClusterInv, ConnectToWS2Peers PROVE ClusterInv'
<1>1. made \in 0..MaxConns /\ tasks \subseteq TrimTask
  BY ClusterTypes
<1>2. PICK u : u = NewTask("once", made)
  OBVIOUS
<1>3. u \in TrimTask
  BY <1>1, <1>2, NewTasks DEF Kinds
<1>4. tasks \subseteq tasks' /\ tasks' \subseteq tasks \cup {u}
  BY <1>2 DEF ConnectToWS2Peers
<1>5. tasks' \subseteq TrimTask
  BY <1>1, <1>3, <1>4
<1>6. UNCHANGED <<served, clients, attempts, failed, banned, made>> /\ ~crawl.busy
  BY DEF ConnectToWS2Peers, NoCrawl
<1>7. crawl' \in CrawlState
  BY DEF ConnectToWS2Peers, CrawlState
<1>8. \A a \in attempts' : a.way = "bundle" => crawl'.busy
  BY <1>6 DEF ClusterInv
<1>9. ClientsWatched => ClientsWatched'
  BY <1>4, <1>6 DEF ClientsWatched
<1>10. Served' = Served /\ ServesOnce(served')
  BY <1>6 DEF Served, ClusterInv
<1> QED BY <1>4, <1>5, <1>6, <1>7, <1>8, <1>9, <1>10, ClusterTypes, PlacesStep

\* An enumeration of a finite set.
LEMMA Enumerated ==
    ASSUME NEW S, IsFiniteSet(S)
    PROVE  SetToSeq(S) \in Seq(S) /\ Len(SetToSeq(S)) \in Nat /\ \A i \in DOMAIN SetToSeq(S) : SetToSeq(S)[i] \in S /\ i \in 1..Len(SetToSeq(S))
<1>1. Cardinality(S) \in Nat /\ ExistsBijection(1..Cardinality(S), S)
  BY FS_CardinalityType
<1>2. \E f \in [1..Cardinality(S) -> S] : IsInjective(f)
  BY <1>1 DEF ExistsBijection, Bijection, Injection, IsInjective
<1>3. SetToSeq(S) \in [1..Cardinality(S) -> S]
  BY <1>2 DEF SetToSeq
<1>4. PICK q : q = SetToSeq(S)
  OBVIOUS
<1>5. q \in [1..Cardinality(S) -> S]
  BY <1>3, <1>4
<1>6. q \in Seq(S)
  BY <1>1, <1>5
<1>7. Len(q) \in Nat /\ DOMAIN q = 1..Len(q)
  BY <1>6, LenProperties
<1>8. \A i \in DOMAIN q : q[i] \in S /\ i \in 1..Len(q)
  BY <1>5, <1>7
<1> QED BY <1>4, <1>6, <1>7, <1>8

LEMMA BundleStep == ASSUME ClusterInv, Bundle PROVE ClusterInv'
<1>1. PICK ks \in SUBSET crawl.left, ss \in SUBSET Own :
         LET order == SetToSeq(ks \cup ss) IN
         /\ made' = made + Len(order) /\ made' <= Bound
         /\ attempts' = attempts \cup
              {[id |-> made + i, key |-> order[i], way |-> "bundle", asked |-> 0] : i \in DOMAIN order}
         /\ crawl' = [left |-> crawl.left \ ks, own |-> FALSE, busy |-> TRUE,
                      siblings |-> IF crawl.own THEN Cardinality(ss) ELSE crawl.siblings]
  BY DEF Bundle, kSubset
<1>2. /\ crawl.left \subseteq Key /\ crawl.siblings \in Nat /\ made \in 0..MaxConns /\ MaxConns \in Nat
      /\ IsFiniteSet(Key) /\ Own \subseteq Key
  BY ClusterTypes, ClusterFacts DEF CrawlState
<1>3. ks \cup ss \subseteq Key /\ ss \subseteq Key
  BY <1>1, <1>2
<1>4. IsFiniteSet(ks \cup ss) /\ Cardinality(ss) \in Nat
  BY <1>2, <1>3, FS_Subset, FS_CardinalityType
<1>5. PICK q : q = SetToSeq(ks \cup ss)
  OBVIOUS
<1>6. Len(q) \in Nat /\ \A i \in DOMAIN q : q[i] \in ks \cup ss /\ i \in 1..Len(q)
  BY <1>4, <1>5, Enumerated
<1>7. made' = made + Len(q) /\ made' \in 0..MaxConns
  <2>1. made' = made + Len(q) /\ made' <= Bound
    BY <1>1, <1>5
  <2> QED BY <1>2, <1>6, <2>1 DEF Bound
<1>8. \A i \in DOMAIN q : made + i \in Id /\ q[i] \in Key
  BY <1>2, <1>3, <1>6, <1>7 DEF Id
<1>9. {[id |-> made + i, key |-> q[i], way |-> "bundle", asked |-> 0] : i \in DOMAIN q} \subseteq Attempt
  BY <1>8 DEF Attempt
<1>10. attempts' \subseteq Attempt
  BY <1>1, <1>5, <1>9, ClusterTypes
<1>11. crawl' \in CrawlState /\ crawl'.busy
  BY <1>1, <1>2, <1>4 DEF CrawlState
<1>12. UNCHANGED <<served, clients, tasks, failed, banned>>
  BY DEF Bundle
<1>13. ClientsWatched'
  BY <1>11 DEF ClientsWatched
<1>14. Served' = Served /\ ServesOnce(served')
  BY <1>12 DEF Served, ClusterInv
<1>15. \A a \in attempts' : a.way = "bundle" => crawl'.busy
  BY <1>11
<1> QED BY <1>7, <1>10, <1>11, <1>12, <1>13, <1>14, <1>15, ClusterTypes, PlacesStep

LEMMA EndBundleStep == ASSUME ClusterInv, EndBundle PROVE ClusterInv'
<1>1. made \in 0..MaxConns /\ tasks \subseteq TrimTask /\ crawl \in CrawlState
  BY ClusterTypes
<1>2. PICK u : u = NewTask("client", made)
  OBVIOUS
<1>3. u \in TrimTask /\ u.kind = "client"
  BY <1>1, <1>2, NewTasks DEF Kinds
<1>4. tasks' = tasks \cup {u}
  BY <1>2 DEF EndBundle
<1>5. tasks' \subseteq TrimTask /\ ClientsWatched'
  BY <1>1, <1>3, <1>4 DEF ClientsWatched
<1>6. crawl' \in CrawlState
  BY <1>1 DEF EndBundle, NoCrawl, CrawlState
<1>7. UNCHANGED <<served, clients, attempts, failed, banned, made>>
  BY DEF EndBundle
<1>8. \A a \in attempts' : a.way # "bundle"
  BY DEF EndBundle
<1>9. Served' = Served /\ ServesOnce(served')
  BY <1>7 DEF Served, ClusterInv
<1> QED BY <1>4, <1>5, <1>6, <1>7, <1>8, <1>9, ClusterTypes, PlacesStep

LEMMA EndCrawlStep == ASSUME ClusterInv, EndCrawl PROVE ClusterInv'
<1>1. crawl \in CrawlState
  BY ClusterTypes
<1>2. crawl' \in CrawlState /\ crawl'.busy = crawl.busy
  BY <1>1 DEF EndCrawl, NoCrawl, CrawlState
<1>3. UNCHANGED <<served, clients, attempts, tasks, failed, banned, made>>
  BY DEF EndCrawl
<1>4. ClientsWatched => ClientsWatched'
  BY <1>2, <1>3 DEF ClientsWatched
<1>5. Served' = Served /\ ServesOnce(served')
  BY <1>3 DEF Served, ClusterInv
<1>6. \A a \in attempts' : a.way = "bundle" => crawl'.busy
  BY <1>2, <1>3 DEF ClusterInv
<1> QED BY <1>2, <1>3, <1>4, <1>5, <1>6, ClusterTypes, PlacesStep

----------------------------------------------------------------------------
(* Steps of the tasks of the server. *)

LEMMA RemoveLowPriorityConnectionStep == ASSUME ClusterInv, NEW t \in tasks, RemoveLowPriorityConnection(t) PROVE ClusterInv'
<1>1. t \in TrimTask /\ tasks \subseteq TrimTask /\ MaxConns \in Nat /\ MaxPublic \in Nat
  BY ClusterTypes, ClusterFacts
<1>2. UNCHANGED <<served, clients, attempts, crawl, failed, banned, made>> /\ t.kind \in {"server", "once"}
  BY DEF RemoveLowPriorityConnection
<1>3. CASE served # <<>> /\ (t.kind = "once" \/ CountConnexions > MaxPublic)
  <2>1. PICK c \in Lowest(Served) : tasks' = Update(t, [t EXCEPT !.pick = c.id])
    BY <1>3 DEF RemoveLowPriorityConnection
  <2>2. c.id \in 0..MaxConns
    BY <1>1, ClusterTypes DEF Lowest, Connection, Id
  <2>3. PICK u : u = [t EXCEPT !.pick = c.id]
    OBVIOUS
  <2>4. u \in TrimTask /\ u.kind = t.kind
    BY <1>1, <2>2, <2>3 DEF TrimTask
  <2>5. tasks' = Update(t, u)
    BY <2>1, <2>3
  <2> QED BY <1>2, <2>4, <2>5, ClusterTypes, UpdateStep
<1>4. CASE ~(served # <<>> /\ (t.kind = "once" \/ CountConnexions > MaxPublic))
  <2>1. tasks' = tasks \ {t}
    BY <1>4 DEF RemoveLowPriorityConnection
  <2>2. ClientsWatched => ClientsWatched'
    BY <1>2, <2>1 DEF ClientsWatched
  <2>3. t.kind = "once" \/ ~(CountConnexions > MaxPublic)
    <3>1. CASE served = <<>>
      <4>1. {c \in Served : c.key \notin Own} = {}
        BY <3>1 DEF Served, ToSet
      <4>2. CountConnexions = 0
        BY <4>1, FS_EmptySet DEF CountConnexions
      <4> QED BY <1>1, <4>2
    <3>2. CASE served # <<>>
      BY <1>4, <3>2
    <3> QED BY <3>1, <3>2
  <2>4. (\E s \in tasks : s.kind = "server") => (\E s \in tasks' : s.kind = "server") \/ ~(CountConnexions > MaxPublic)
    BY <2>1, <2>3
  <2>5. tasks' \subseteq TrimTask /\ failed' \in BOOLEAN
    BY <1>1, <1>2, <2>1, ClusterTypes
  <2> QED BY <1>2, <2>2, <2>4, <2>5, TaskStep
<1> QED BY <1>3, <1>4

LEMMA RemoveConnectionStep == ASSUME ClusterInv, NEW t \in tasks, RemoveConnection(t) PROVE ClusterInv'
<1>1. t \in TrimTask /\ tasks \subseteq TrimTask /\ served \in Seq(Connection) /\ ServesOnce(served) /\ 0 \in 0..MaxConns
  BY ClusterTypes, ClusterFacts DEF ClusterInv
<1>2. served' = Spliced(served, t.pick)
  BY DEF RemoveConnection
<1>3. served' \in Seq(Connection) /\ ServesOnce(served') /\ Served' \subseteq Served
  BY <1>1, <1>2, ShorterList DEF Served
<1>4. PICK u : u = [t EXCEPT !.pick = 0]
  OBVIOUS
<1>5. u \in TrimTask /\ u.kind = t.kind
  BY <1>1, <1>4 DEF TrimTask
<1>6. tasks' = IF t.kind = "once" THEN tasks \ {t} ELSE (tasks \ {t}) \cup {u}
  BY <1>4 DEF RemoveConnection, Update
<1>7. tasks' \subseteq TrimTask
  BY <1>1, <1>5, <1>6
<1>8. UNCHANGED <<clients, attempts, crawl, failed, banned, made>> /\ t.kind \in {"server", "once"}
  BY DEF RemoveConnection
<1>9. (\E s \in tasks : s.kind = "server") => \E s \in tasks' : s.kind = "server"
  BY <1>5, <1>6
<1>10. ClientsWatched => ClientsWatched'
  BY <1>6, <1>8 DEF ClientsWatched
<1>11. \A a \in attempts' : a.way = "bundle" => crawl'.busy
  BY <1>8 DEF ClusterInv
<1> QED BY <1>3, <1>7, <1>8, <1>9, <1>10, <1>11, ClusterTypes, PlacesStep

----------------------------------------------------------------------------
(* Steps of the tasks of the clients. *)

\* A trimming that throws leaves its mark.
LEMMA ThrowStep ==
    ASSUME ClusterInv, NEW t \in tasks, t.kind \notin {"server", "once"}, Throw(t),
           UNCHANGED <<served, clients, attempts, crawl, banned, made>>
    PROVE  ClusterInv'
<1>1. failed' = TRUE /\ tasks' = tasks \ {t}
  BY DEF Throw
<1>2. ClientsWatched'
  BY <1>1 DEF ClientsWatched
<1>3. (\E s \in tasks : s.kind = "server") => \E s \in tasks' : s.kind = "server"
  BY <1>1
<1>4. tasks' \subseteq TrimTask /\ failed' \in BOOLEAN
  BY <1>1, ClusterTypes
<1> QED BY <1>2, <1>3, <1>4, TaskStep

LEMMA BeginTrimStep == ASSUME ClusterInv, NEW t \in tasks, BeginTrim(t) PROVE ClusterInv'
<1>1. t \in TrimTask /\ ClientIds \subseteq Id /\ Keys(Served) \subseteq Key
  BY ClusterTypes DEF Keys, Connection
<1>2. PICK u : u = [t EXCEPT !.kind = "public", !.left = ClientIds, !.keys = Keys(Served)]
  OBVIOUS
<1>3. u \in TrimTask /\ u.kind = "public"
  BY <1>1, <1>2 DEF TrimTask
<1>4. tasks' = Update(t, u) /\ t.kind = "client" /\ failed' = FALSE
  BY <1>2 DEF BeginTrim
<1>5. UNCHANGED <<served, clients, attempts, crawl, banned, made>>
  BY DEF BeginTrim
<1> QED BY <1>1, <1>3, <1>4, <1>5, UpdateStep

LEMMA TrimPublicStep == ASSUME ClusterInv, NEW t \in tasks, TrimPublic(t) PROVE ClusterInv'
<1>1. /\ t \in TrimTask /\ ClientIds \subseteq Id /\ failed \in BOOLEAN
      /\ t.left \subseteq Id /\ t.pick \in 0..MaxConns /\ t.id \in 0..MaxConns
  BY ClusterTypes DEF TrimTask
<1>2. UNCHANGED <<served, clients, attempts, crawl, banned, made>> /\ t.kind = "public"
  BY DEF TrimPublic
<1>3. PICK seen \in SUBSET t.left :
         \/ \E id \in seen : id \notin ClientIds /\ Throw(t)
         \/ /\ seen \subseteq ClientIds /\ \A id \in seen : ~Public(t, id)
            /\ \/ seen = t.left /\ tasks' = Update(t, [t EXCEPT !.kind = "count", !.left = {}, !.keys = {}])
               \/ \E id \in (t.left \ seen) \cap ClientIds :
                    /\ Public(t, id)
                    /\ tasks' = Update(t, [t EXCEPT !.kind = "waitPublic", !.pick = id, !.left = t.left \ (seen \cup {id})])
            /\ UNCHANGED failed
  BY DEF TrimPublic
<1>4. CASE Throw(t)
  BY <1>2, <1>4, ThrowStep
<1>5. CASE tasks' = Update(t, [t EXCEPT !.kind = "count", !.left = {}, !.keys = {}]) /\ UNCHANGED failed
  <2>1. PICK u : u = [t EXCEPT !.kind = "count", !.left = {}, !.keys = {}]
    OBVIOUS
  <2>2. u \in TrimTask /\ u.kind = "count"
    BY <1>1, <2>1 DEF TrimTask
  <2> QED BY <1>1, <1>2, <1>5, <2>1, <2>2, UpdateStep
<1>6. ASSUME NEW id \in ClientIds, UNCHANGED failed,
             tasks' = Update(t, [t EXCEPT !.kind = "waitPublic", !.pick = id, !.left = t.left \ (seen \cup {id})])
      PROVE  ClusterInv'
  <2>1. PICK u : u = [t EXCEPT !.kind = "waitPublic", !.pick = id, !.left = t.left \ (seen \cup {id})]
    OBVIOUS
  <2>2. id \in Id /\ id \in 0..MaxConns
    BY <1>1, ClusterFacts DEF Id
  <2>3. u \in TrimTask /\ u.kind = "waitPublic"
    BY <1>1, <2>1, <2>2 DEF TrimTask
  <2>4. tasks' = Update(t, u) /\ failed' \in BOOLEAN
    BY <1>1, <1>6, <2>1, <2>2
  <2> QED BY <1>2, <2>3, <2>4, UpdateStep
<1> QED BY <1>3, <1>4, <1>5, <1>6

\* The task ends once there are no more clients than places.
LEMMA TrimCountStep == ASSUME ClusterInv, NEW t \in tasks, TrimCount(t) PROVE ClusterInv'
<1>1. t \in TrimTask /\ tasks \subseteq TrimTask /\ ClientIds \subseteq Id /\ clients \subseteq Connection
  BY ClusterTypes
<1>2. UNCHANGED <<served, clients, attempts, crawl, failed, banned, made>> /\ t.kind = "count"
  BY DEF TrimCount
<1>3. CASE ClientsCount > MaxPrivate
  <2>1. PICK c \in Lowest(clients) : tasks' = Update(t, [t EXCEPT !.kind = "scan", !.pick = c.id, !.left = ClientIds])
    BY <1>3 DEF TrimCount
  <2>2. c.id \in 0..MaxConns
    BY <1>1, ClusterFacts DEF Lowest, Connection, Id
  <2>3. PICK u : u = [t EXCEPT !.kind = "scan", !.pick = c.id, !.left = ClientIds]
    OBVIOUS
  <2>4. u \in TrimTask /\ u.kind = "scan"
    BY <1>1, <2>2, <2>3 DEF TrimTask
  <2>5. tasks' = Update(t, u)
    BY <2>1, <2>3
  <2> QED BY <1>2, <2>4, <2>5, ClusterTypes, UpdateStep
<1>4. CASE ~(ClientsCount > MaxPrivate)
  <2>1. tasks' = tasks \ {t}
    BY <1>4 DEF TrimCount
  <2>2. (\E s \in tasks : s.kind = "server") => \E s \in tasks' : s.kind = "server"
    BY <1>2, <2>1
  <2>3. tasks' \subseteq TrimTask /\ failed' \in BOOLEAN
    BY <1>1, <1>2, <2>1, ClusterTypes
  <2> QED BY <1>2, <1>4, <2>2, <2>3, TaskStep
<1> QED BY <1>3, <1>4

LEMMA TrimScanStep == ASSUME ClusterInv, NEW t \in tasks, TrimScan(t) PROVE ClusterInv'
<1>1. t \in TrimTask /\ ClientIds \subseteq Id /\ failed \in BOOLEAN
  BY ClusterTypes
<1>2. UNCHANGED <<served, clients, attempts, crawl, banned, made>> /\ t.kind = "scan"
  BY DEF TrimScan
<1>3. CASE Throw(t)
  BY <1>2, <1>3, ThrowStep
<1>4. CASE /\ t.pick \in ClientIds
           /\ tasks' = Update(t, [t EXCEPT !.kind = "wait", !.left = {}]) /\ UNCHANGED failed
  <2>1. PICK u : u = [t EXCEPT !.kind = "wait", !.left = {}]
    OBVIOUS
  <2>2. u \in TrimTask /\ u.kind = "wait"
    BY <1>1, <2>1 DEF TrimTask
  <2>3. tasks' = Update(t, u) /\ failed' \in BOOLEAN
    BY <1>1, <1>4, <2>1
  <2> QED BY <1>2, <2>2, <2>3, UpdateStep
<1> QED BY <1>3, <1>4 DEF TrimScan

LEMMA TrimGoesOnStep == ASSUME ClusterInv, NEW t \in tasks, TrimGoesOn(t) PROVE ClusterInv'
<1>1. t \in TrimTask /\ 0 \in 0..MaxConns
  BY ClusterTypes, ClusterFacts
<1>2. UNCHANGED <<served, clients, attempts, crawl, failed, banned, made>> /\ t.kind \in {"waitPublic", "wait"}
  BY DEF TrimGoesOn
<1>3. PICK u : u = [t EXCEPT !.kind = IF @ = "wait" THEN "count" ELSE "public", !.pick = 0]
  OBVIOUS
<1>4. u \in TrimTask /\ u.kind \in {"count", "public"}
  <2>1. CASE t.kind = "wait"
    BY <1>1, <1>3, <2>1 DEF TrimTask
  <2>2. CASE t.kind = "waitPublic"
    BY <1>1, <1>3, <2>2 DEF TrimTask
  <2> QED BY <1>2, <2>1, <2>2
<1>5. tasks' = Update(t, u)
  BY <1>3 DEF TrimGoesOn
<1> QED BY <1>2, <1>4, <1>5, ClusterTypes, UpdateStep

----------------------------------------------------------------------------
(* Ends of connections. *)

LEMMA ClientClosedStep == ASSUME ClusterInv, NEW c \in clients, ClientClosed(c) PROVE ClusterInv'
<1>1. UNCHANGED <<served, attempts, crawl, tasks, failed, banned, made>> /\ clients' \subseteq clients
  BY DEF ClientClosed
<1>3. ClientsWatched => ClientsWatched'
  BY <1>1 DEF ClientsWatched
<1>4. Served' = Served /\ ServesOnce(served')
  BY <1>1 DEF Served, ClusterInv
<1>5. \A a \in attempts' : a.way = "bundle" => crawl'.busy
  BY <1>1 DEF ClusterInv
<1> QED BY <1>1, <1>3, <1>4, <1>5, ClusterTypes, PlacesStep

LEMMA ServedClosedStep == ASSUME ClusterInv, NEW c \in Served, ServedClosed(c) PROVE ClusterInv'
<1>1. UNCHANGED <<clients, attempts, crawl, tasks, failed, banned, made>> /\ served' = Spliced(served, c.id)
  BY DEF ServedClosed
<1>2. served \in Seq(Connection) /\ ServesOnce(served)
  BY ClusterTypes DEF ClusterInv
<1>3. served' \in Seq(Connection) /\ ServesOnce(served') /\ Served' \subseteq Served
  BY <1>1, <1>2, ShorterList DEF Served
<1>4. ClientsWatched => ClientsWatched'
  BY <1>1 DEF ClientsWatched
<1>5. \A a \in attempts' : a.way = "bundle" => crawl'.busy
  BY <1>1 DEF ClusterInv
<1> QED BY <1>1, <1>3, <1>4, <1>5, ClusterTypes, PlacesStep

\* Bans change neither the connections nor who is at work.
LEMMA BanStep ==
    ASSUME ClusterInv, UNCHANGED <<served, clients, attempts, crawl, tasks, failed, made>>,
           banned' \subseteq Key
    PROVE  ClusterInv'
<1>1. ClientsWatched => ClientsWatched'
  BY DEF ClientsWatched
<1>2. Served' = Served /\ ServesOnce(served')
  BY DEF Served, ClusterInv
<1>3. \A a \in attempts' : a.way = "bundle" => crawl'.busy
  BY DEF ClusterInv
<1> QED BY <1>1, <1>2, <1>3, ClusterTypes, PlacesStep

LEMMA BanConnectionStep == ASSUME ClusterInv, NEW k \in Key, BanConnection(k) PROVE ClusterInv'
<1>1. banned' \subseteq Key
  BY ClusterTypes DEF BanConnection
<1> QED BY <1>1, BanStep DEF BanConnection

LEMMA UnbanStep == ASSUME ClusterInv, NEW k \in Key, Unban(k) PROVE ClusterInv'
<1>1. banned' \subseteq Key
  BY ClusterTypes DEF Unban
<1> QED BY <1>1, ClusterTypes, BanStep DEF Unban

----------------------------------------------------------------------------
LEMMA ClusterStep == ASSUME ClusterInv, [ClusterNext]_clusterVars PROVE ClusterInv'
<1>1. ASSUME NEW k \in Key, Incoming(k) \/ ListenServerFlow(k) \/ BanConnection(k) \/ Unban(k)
      PROVE  ClusterInv'
  BY <1>1, IncomingStep, ListenServerFlowStep, BanConnectionStep, UnbanStep
<1>2. ASSUME NEW a \in attempts, Allow(a) \/ GiveUp(a) \/ Connected(a) \/ ConnectToRemoteWS(a)
      PROVE  ClusterInv'
  BY <1>2, AllowStep, GiveUpStep, ConnectedStep, ConnectToRemoteWSStep
<1>3. CASE ConnectToWS2Peers \/ Bundle \/ EndBundle \/ EndCrawl
  BY <1>3, ConnectToWS2PeersStep, BundleStep, EndBundleStep, EndCrawlStep
<1>4. ASSUME NEW t \in tasks, RemoveLowPriorityConnection(t) \/ RemoveConnection(t) \/ BeginTrim(t) \/ TrimPublic(t)
      PROVE  ClusterInv'
  BY <1>4, RemoveLowPriorityConnectionStep, RemoveConnectionStep, BeginTrimStep, TrimPublicStep
<1>5. ASSUME NEW t \in tasks, TrimCount(t) \/ TrimScan(t) \/ TrimGoesOn(t)
      PROVE  ClusterInv'
  BY <1>5, TrimCountStep, TrimScanStep, TrimGoesOnStep
<1>6. ASSUME NEW c \in clients, ClientClosed(c)
      PROVE  ClusterInv'
  BY <1>6, ClientClosedStep
<1>7. ASSUME NEW c \in Served, ServedClosed(c)
      PROVE  ClusterInv'
  BY <1>7, ServedClosedStep
<1>8. CASE UNCHANGED clusterVars
  <2>1. UNCHANGED <<served, clients, attempts, crawl, tasks, failed, banned, made>>
    BY <1>8 DEF clusterVars
  <2> QED BY <2>1, ClusterTypes, BanStep
<1> QED BY <1>1, <1>2, <1>3, <1>4, <1>5, <1>6, <1>7, <1>8 DEF ClusterNext

LEMMA ClusterStart == ASSUME ClusterInit PROVE ClusterInv
<1>1. 0 \in 0..MaxConns /\ NoCrawl \in CrawlState /\ MaxPublic \in Nat /\ MaxPrivate \in Nat
  BY ClusterFacts DEF NoCrawl, CrawlState
<1>2. served = <<>> /\ clients = {} /\ attempts = {} /\ tasks = {}
  BY DEF ClusterInit
<1>3. served \in Seq(Connection)
  BY <1>2
<1>4. Served = {} /\ ServesOnce(served)
  BY <1>2 DEF Served, ToSet, ServesOnce
<1>5. CountConnexions = 0 /\ ClientsCount = 0 /\ IsFiniteSet(Served)
  <2>1. {c \in Served : c.key \notin Own} = {} /\ Keys(clients) \ Own = {}
    BY <1>2, <1>4 DEF Keys
  <2> QED BY <1>4, <2>1, FS_EmptySet DEF CountConnexions, ClientsCount
<1>6. ClusterTypeOK
  BY <1>1, <1>3 DEF ClusterInit, ClusterTypeOK, CrawlState
<1>7. ~(CountConnexions > MaxPublic) /\ ~(ClientsCount > MaxPrivate)
  BY <1>1, <1>5
<1> QED BY <1>2, <1>4, <1>5, <1>6, <1>7 DEF ClusterInv

\* An excess of connections is always someone's work, and no key is served twice.
THEOREM PlacesStayKept == ClusterSpec => []PlacesKept
<1>1. ClusterInit => ClusterInv
  BY ClusterStart
<1>2. ClusterInv /\ [ClusterNext]_clusterVars => ClusterInv'
  BY ClusterStep
<1>3. ClusterInv => PlacesKept
  <2>1. SUFFICES ASSUME ClusterInv PROVE PlacesKept
    OBVIOUS
  <2>2. ASSUME NEW c \in Served, NEW d \in Served, c.key = d.key, c.key \notin Own
        PROVE  c = d
    <3>1. PICK i \in DOMAIN served : c = served[i]
      BY DEF Served, ToSet
    <3>2. PICK j \in DOMAIN served : d = served[j]
      BY DEF Served, ToSet
    <3>3. i = j
      BY <2>1, <2>2, <3>1, <3>2 DEF ClusterInv, ServesOnce
    <3> QED BY <3>1, <3>2, <3>3
  <2>3. CountConnexions > MaxPublic => \E t \in tasks : t.kind = "server"
    BY <2>1 DEF ClusterInv
  <2>4. ClientsCount > MaxPrivate => failed \/ crawl.busy \/ \E t \in tasks : t.kind \notin {"server", "once"}
    BY <2>1 DEF ClusterInv, ClientsWatched
  <2> QED BY <2>2, <2>3, <2>4 DEF PlacesKept
<1> QED BY <1>1, <1>2, <1>3, PTL DEF ClusterSpec
=============================================================================
