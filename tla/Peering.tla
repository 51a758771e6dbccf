------------------------------ MODULE Peering ------------------------------
(***************************************************************************)
(* The table of peers.  Documents are submitted through the FIFO of the    *)
(* documents; the states UP and DOWN are written outside it, by whoever     *)
(* connects to a peer or fails to.  A peer is saved by deleting its rows    *)
(* and inserting what was read and changed before.  Two commands submit the *)
(* document of a peer with other parameters while the node is stopped.      *)
(***************************************************************************)
EXTENDS Integers, FiniteSetsExt

CONSTANTS Peer,         \* keys of the peers around
          Self,         \* key of this node, which siblings may use too
          Liked,        \* preferedNodes and privilegedNodes
          Limit,        \* nonWoTPeersLimit
          MaxDoc,       \* bound: block of a peer document
          MaxWrites     \* bound: rows saved

ASSUME PeeringAssumption ==
    /\ IsFiniteSet(Peer) /\ Self \notin Peer /\ Liked \subseteq Peer
    /\ {Limit, MaxWrites} \subseteq Nat /\ MaxDoc \in Nat \ {0}

VARIABLES
    rows,       \* table peers
    submission, \* the operation of the FIFO, or NoSubmission
    writers,    \* rows read and changed, being saved
    selfMember, \* this node's key is a member
    current,    \* current block
    signing,    \* generateSelfPeer at work: the row it read, and whether it wrote
    tests,      \* testPeers: peers being tested
    newest,     \* history: block of the newest document saved, or of that of a command since; 0 without
    raced,      \* history: keys two writers of which overlapped, or missing when the room was counted
    writes      \* rows saved, or about to be

peeringVars == <<rows, submission, writers, selfMember, current, signing, tests, newest, raced, writes>>

AnyPeer == Peer \cup {Self}
Doc == 0..MaxDoc
Row == [id : Nat, key : AnyPeer, block : Doc, up : BOOLEAN, nonWoT : BOOLEAN, long : BOOLEAN]
Submission == [key : AnyPeer, block : Doc, listed : BOOLEAN, eraseIfAlreadyRecorded : BOOLEAN, acceptNonWoT : BOOLEAN,
               isNonWoT : BOOLEAN, stage : {"none", "clean", "room", "found", "save"}]
NoSubmission == [key |-> Self, block |-> 0, listed |-> FALSE, eraseIfAlreadyRecorded |-> FALSE, acceptNonWoT |-> FALSE,
                 isNonWoT |-> FALSE, stage |-> "none"]

\* A key may have several rows: the first one inserted is read.
RowsOf(p) == {r \in rows : r.key = p}
Known(p) == RowsOf(p) # {}
Found(p) == CHOOSE r \in RowsOf(p) : \A q \in RowsOf(p) : r.id <= q.id

\* countNonWoTPeers: of the rows.
CountNonWoTPeers == Cardinality({r \in rows : r.nonWoT})

\* The number of the next row of a key, of which only the order matters: one more than the rows inserted so far.
NextId(p) == IF Known(p) THEN writes - Cardinality(writers) + 1 ELSE 1

----------------------------------------------------------------------------
(* submitP *)

Push(p, b, listed) ==
    /\ submission = NoSubmission
    /\ submission' = [NoSubmission EXCEPT !.key = p, !.block = b, !.listed = listed, !.stage = "clean"]
    /\ UNCHANGED <<rows, writers, selfMember, current, tests, newest, raced, writes>>

\* Documents are refused when their block is not in the fork window: those offered are of known blocks.
SubmitP(p, b) == b <= current /\ (p = Self => b > 0) /\ Push(p, b, FALSE) /\ UNCHANGED signing

AtRest == submission = NoSubmission /\ writers = {} /\ tests = {} /\ signing.stage = "none"

\* The commands "peer", which erases, and "sync", which does not: the room is not looked at, and the block may be
\* unknown unless the command is cautious.
SubmitByCommand(p, b, erase) ==
    /\ AtRest /\ (p = Self => b > 0)
    /\ submission' = [NoSubmission EXCEPT !.key = p, !.block = b, !.stage = "clean",
                                          !.eraseIfAlreadyRecorded = erase, !.acceptNonWoT = TRUE]
    /\ UNCHANGED <<rows, writers, selfMember, current, signing, tests, newest, raced, writes>>

\* The command that resets the peers.
ResetPeers ==
    /\ AtRest
    /\ rows' = {} /\ newest' = [p \in AnyPeer |-> 0]
    /\ UNCHANGED <<submission, writers, selfMember, current, signing, tests, raced, writes>>

\* cleanLongDownPeers: rows of peers out of the web of trust that were not heard of for long.
Gone == {r \in rows : r.nonWoT /\ r.long}
CleanLongDownPeers ==
    /\ submission.stage = "clean" /\ submission' = [submission EXCEPT !.stage = "room"]
    /\ rows' = rows \ Gone
    /\ newest' = [p \in AnyPeer |-> IF Known(p) /\ RowsOf(p) \subseteq Gone THEN 0 ELSE newest[p]]
    /\ raced' = raced \cup {w.key : w \in {x \in writers : \E r \in Gone : r.key = x.key}}
    /\ UNCHANGED <<writers, selfMember, current, signing, tests, writes>>

\* The peers that need room: it is the membership of this node that is looked at.
IsNonWoT(s) == ~s.acceptNonWoT /\ s.key # Self /\ s.key \notin Liked /\ ~selfMember

\* A row that is being replaced is missing when the room is counted.
CheckRoom ==
    /\ submission.stage = "room"
    /\ IF ~IsNonWoT(submission)
       THEN submission' = [submission EXCEPT !.stage = "found"] /\ UNCHANGED raced
       ELSE IF CountNonWoTPeers >= Limit
       THEN submission' = NoSubmission /\ UNCHANGED raced
       ELSE /\ submission' = [submission EXCEPT !.stage = "found", !.isNonWoT = TRUE]
            /\ raced' = raced \cup {w.key : w \in {x \in writers : x.stage = "insert" /\ x.row.nonWoT}}
    /\ UNCHANGED <<rows, writers, selfMember, current, signing, tests, newest, writes>>

\* mutant: an older document is taken
RefusedIfSame(s) == ~s.eraseIfAlreadyRecorded /\ Known(s.key) /\ s.block = Found(s.key).block

Refused(s) == ~s.eraseIfAlreadyRecorded /\ Known(s.key) /\ s.block <= Found(s.key).block

Overlap(p) == IF \E w \in writers : w.key = p THEN raced \cup {p} ELSE raced
Writer(r, kind) == [id |-> writes + 1, key |-> r.key, row |-> [r EXCEPT !.id = 0], kind |-> kind, stage |-> "delete"]

\* The row of a document of an unknown block is of the special block 0.
Saved(s) == [id |-> 0, key |-> s.key, block |-> IF s.block <= current THEN s.block ELSE 0, up |-> TRUE, nonWoT |-> s.isNonWoT, long |-> FALSE]

Check ==
    /\ submission.stage = "found" /\ writes < MaxWrites
    /\ LET s == submission IN
       IF Refused(s)
       THEN submission' = NoSubmission /\ UNCHANGED <<writers, raced, writes>>
       ELSE /\ writes' = writes + 1 /\ submission' = [s EXCEPT !.stage = "save"]
            /\ writers' = writers \cup {Writer(Saved(s), "document")}
            /\ raced' = Overlap(s.key)
    /\ UNCHANGED <<rows, selfMember, current, signing, tests, newest>>

\* A document of this node's key that does not list its endpoints: a new one is made, when its block allows it.
Complete(s) == s.key = Self /\ ~s.listed /\ current > s.block /\ signing.stage = "none"

----------------------------------------------------------------------------
(* savePeer: the rows of the key are deleted, then one is inserted. *)

Saving(w, s) == (writers \ {w}) \cup {[w EXCEPT !.stage = s]}
Delete(w) ==
    /\ w.stage = "delete" /\ writers' = Saving(w, "insert")
    /\ rows' = rows \ RowsOf(w.key)
    /\ UNCHANGED <<submission, selfMember, current, signing, tests, newest, raced, writes>>

Insert(w) ==
    /\ w.stage = "insert" /\ writers' = writers \ {w}
    /\ rows' = rows \cup {[w.row EXCEPT !.id = NextId(w.key)]}
    /\ IF w.kind = "document"
       THEN /\ submission' = NoSubmission
            /\ newest' = [newest EXCEPT ![w.key] = IF submission.acceptNonWoT THEN w.row.block ELSE Max({@, w.row.block})]
            /\ signing' = IF Complete(submission) THEN [stage |-> "read", block |-> 0] ELSE signing
       ELSE UNCHANGED <<submission, newest, signing>>
    /\ UNCHANGED <<selfMember, current, tests, raced, writes>>

\* setPeerUP, setPeerDown: the row is read, changed, and saved whatever happened meanwhile.
SetPeer(p, up) ==
    /\ Known(p) /\ writes < MaxWrites /\ writes' = writes + 1
    /\ writers' = writers \cup {Writer([Found(p) EXCEPT !.up = up], "status")}
    /\ raced' = Overlap(p)

\* A connection was made, or failed.
SetPeerUP(p) == SetPeer(p, TRUE) /\ UNCHANGED <<rows, submission, selfMember, current, signing, tests, newest>>
SetPeerDown(p) == SetPeer(p, FALSE) /\ UNCHANGED <<rows, submission, selfMember, current, signing, tests, newest>>

\* testPeers: a peer that is down is marked down again, then tested.
TestPeer(p) ==
    /\ Known(p) /\ ~Found(p).up /\ p \notin tests
    /\ SetPeer(p, FALSE) /\ tests' = tests \cup {p}
    /\ UNCHANGED <<rows, submission, selfMember, current, signing, newest>>
Answers(p, up) ==
    /\ p \in tests /\ tests' = tests \ {p} /\ \A w \in writers : w.key # p
    /\ IF Known(p) THEN SetPeer(p, up) ELSE UNCHANGED <<writers, raced, writes>>
    /\ UNCHANGED <<rows, submission, selfMember, current, signing, newest>>

----------------------------------------------------------------------------
(* generateSelfPeer: the row of the node is read, its next document based on the block after. *)

GenerateSelfPeer ==
    /\ signing.stage = "none" /\ signing' = [stage |-> "read", block |-> 0]
    /\ UNCHANGED <<rows, submission, writers, selfMember, current, tests, newest, raced, writes>>

NextBlock(b) == Min({b + 1, current})
SignSelfPeer ==
    /\ signing.stage = "read"
    /\ signing' = [stage |-> "write", block |-> NextBlock(IF Known(Self) THEN Found(Self).block ELSE 0)]
    /\ UNCHANGED <<rows, submission, writers, selfMember, current, tests, newest, raced, writes>>
WriteSelfPeer ==
    /\ signing.stage = "write" /\ Push(Self, signing.block, TRUE)
    /\ signing' = [stage |-> "none", block |-> 0]

----------------------------------------------------------------------------
NewBlock ==
    /\ current < MaxDoc /\ current' = current + 1
    /\ UNCHANGED <<rows, submission, writers, selfMember, signing, tests, newest, raced, writes>>
Membership ==
    /\ selfMember' = ~selfMember
    /\ UNCHANGED <<rows, submission, writers, current, signing, tests, newest, raced, writes>>
TimePasses(r) ==
    /\ ~r.long /\ rows' = (rows \ {r}) \cup {[r EXCEPT !.long = TRUE]}
    /\ UNCHANGED <<submission, writers, selfMember, current, signing, tests, newest, raced, writes>>

PeeringInit ==
    /\ rows = {} /\ submission = NoSubmission /\ writers = {}
    /\ selfMember \in BOOLEAN /\ current = 1 /\ signing = [stage |-> "none", block |-> 0]
    /\ tests = {} /\ newest = [p \in AnyPeer |-> 0] /\ raced = {} /\ writes = 0

\* What a node does beside the FIFO, which a command does not.
NodeRuns == ~submission.acceptNonWoT
Elsewhere ==
    \/ \E p \in Peer : SetPeerUP(p) \/ SetPeerDown(p) \/ TestPeer(p)
    \/ \E p \in Peer, up \in BOOLEAN : Answers(p, up)
    \/ GenerateSelfPeer \/ SignSelfPeer \/ WriteSelfPeer
    \/ NewBlock \/ Membership \/ \E r \in rows : TimePasses(r)

PeeringNext ==
    \/ \E p \in AnyPeer, b \in Doc : SubmitP(p, b)
    \/ \E p \in AnyPeer, b \in Doc, erase \in BOOLEAN : SubmitByCommand(p, b, erase)
    \/ ResetPeers
    \/ CleanLongDownPeers \/ CheckRoom \/ Check
    \/ \E w \in writers : Delete(w) \/ Insert(w)
    \/ NodeRuns /\ Elsewhere

PeeringSpec == PeeringInit /\ [][PeeringNext]_peeringVars

----------------------------------------------------------------------------
PeeringTypeOK ==
    /\ rows \subseteq Row /\ submission \in Submission
    /\ writers \subseteq [id : 1..MaxWrites, key : AnyPeer, row : Row, kind : {"document", "status"}, stage : {"delete", "insert"}]
    /\ selfMember \in BOOLEAN /\ current \in Doc /\ tests \subseteq Peer /\ raced \subseteq AnyPeer
    /\ signing \in [stage : {"none", "read", "write"}, block : Doc]
    /\ newest \in [AnyPeer -> Doc] /\ writes \in 0..MaxWrites

\* A peer has one row, of its newest document, and those out of the web of trust stay within their limit: but for
\* the peers of which two writers overlapped, or that were being saved when the room was counted or a row removed.
PeersAdvance ==
    /\ \A r \in rows : r.key \notin raced => RowsOf(r.key) = {r} /\ r.block = newest[r.key]
    /\ Cardinality({r \in rows : r.key \notin raced /\ r.nonWoT}) <= Limit
=============================================================================
