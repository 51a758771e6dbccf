---------------------------- MODULE WS2PConnection ----------------------------
(***************************************************************************)
(* One WebSocket between two honest nodes: both ends authenticate each     *)
(* other (CONNECT or SYNC, ACK, OK), then exchange pushes, requests and     *)
(* answers.  The handlers of CONNECT and ACK await whether the key is       *)
(* allowed, while other messages arrive; each end has its own timeouts.     *)
(***************************************************************************)
EXTENDS Naturals, Sequences, FiniteSets

CONSTANTS MaxErrors,    \* MAXIMUM_ERRORS_COUNT
          MaxRequests   \* bound: requests of an end

ASSUME ConnectionAssumption == {MaxErrors, MaxRequests} \subseteq Nat

VARIABLES
    purpose,    \* "normal", "sync", or why it cannot work: other "key", other "currency"
    phase,      \* of each end
    net,        \* messages to each end, in order
    checking,   \* messages whose handler awaits tellIsAuthorizedPubkey
    registered, \* the CONNECT of the other is accepted
    heard,      \* remoteAuth: authenticatedByRemote
    acked,      \* localAuth: authenticated
    pending,    \* exchanges: requests without an answer
    sent,       \* requests made, and whether something was pushed
    causes,     \* history: the errors detected
    nbErrors

End == {"client", "server"}
Other(e) == CHOOSE o \in End : o # e
authVars == <<checking, registered, heard, acked>>
exchangeVars == <<pending, sent>>
errorVars == <<causes, nbErrors>>
connectionVars == <<purpose, phase, net, authVars, exchangeVars, errorVars>>

Message == [kind : {"CONNECT", "ACK", "OK", "push", "close"}, id : {0}]
           \cup [kind : {"request", "answer"}, id : 1..MaxRequests]
Say(kind) == [kind |-> kind, id |-> 0]
IsSync == purpose = "sync"
Active(e) == phase[e] \in {"asking", "connected"}

\* Messages put in the queue of the other end, once the head of one's own is taken.
Post(e, box, msgs) == [box EXCEPT ![Other(e)] = @ \o msgs]
Taken(e) == [net EXCEPT ![e] = Tail(@)]

----------------------------------------------------------------------------
(* Opening, and the first message. *)

\* The currency is known, or given by the CONNECT of the other.
SendConnect(e) == IF e = "client" /\ IsSync THEN <<>> ELSE <<Say("CONNECT")>>

\* newConnectionFromWebSocketServer, then connect
Serve ==
    /\ phase["server"] = "idle" /\ phase["client"] = "opening"
    /\ phase' = [phase EXCEPT !["server"] = "asking"]
    /\ net' = Post("server", net, SendConnect("server"))
    /\ UNCHANGED <<purpose, authVars, exchangeVars, errorVars>>

Opened ==
    /\ phase["client"] = "opening" /\ phase["server"] # "idle"
    /\ phase' = [phase EXCEPT !["client"] = "asking"]
    /\ net' = Post("client", net, SendConnect("client"))
    /\ UNCHANGED <<purpose, authVars, exchangeVars, errorVars>>

----------------------------------------------------------------------------
(* Errors and ends. *)

Terminate(e, box) ==
    /\ phase' = [phase EXCEPT ![e] = "closed"]
    /\ net' = Post(e, [box EXCEPT ![e] = <<>>], <<Say("close")>>)

\* errorDetected: the socket is terminated at the limit.
ErrorDetected(e, cause, box) ==
    /\ causes' = [causes EXCEPT ![e] = @ \cup {cause}]
    /\ nbErrors' = [nbErrors EXCEPT ![e] = @ + 1]
    /\ IF nbErrors'[e] >= MaxErrors THEN Terminate(e, box) ELSE phase' = phase /\ net' = box

\* mutant: who gives up waiting keeps the socket
TimeoutWithoutClose(e) ==
    /\ phase[e] \in {"opening", "asking"}
    /\ phase' = [phase EXCEPT ![e] = "closed"] /\ UNCHANGED net
    /\ UNCHANGED <<purpose, authVars, exchangeVars, errorVars>>

\* connectionTimeout: WS2PClient and WS2PServer close the socket.
Timeout(e) ==
    /\ phase[e] \in {"opening", "asking"}
    /\ IF phase["server"] = "idle"
       THEN phase' = [x \in End |-> "closed"] /\ UNCHANGED net
       ELSE Terminate(e, net)
    /\ UNCHANGED <<purpose, authVars, exchangeVars, errorVars>>

\* A connection trimmed, banned, or at the end of its time (SYNC).
Leave(e) ==
    /\ phase[e] = "connected" /\ Terminate(e, net)
    /\ UNCHANGED <<purpose, authVars, exchangeVars, errorVars>>

ReceiveClose(e) ==
    /\ net[e] # <<>> /\ Head(net[e]).kind = "close"
    /\ phase' = [phase EXCEPT ![e] = "closed"] /\ net' = [net EXCEPT ![e] = <<>>]
    /\ UNCHANGED <<purpose, authVars, exchangeVars, errorVars>>

----------------------------------------------------------------------------
(* Authentication. *)

\* Both promises of the end are resolved.
Progress(e, isAcked, isHeard) == [phase EXCEPT ![e] = IF isAcked /\ isHeard /\ @ = "asking" THEN "connected" ELSE @]

\* Only the client expects a key.
WrongKey(e) == purpose = "key" /\ e = "client"

ReceiveConnect(e) ==
    /\ Active(e) /\ net[e] # <<>> /\ Head(net[e]).kind = "CONNECT"
    /\ \/ heard[e] /\ ErrorDetected(e, "ALREADY_AUTHENTICATED_BY_REMOTE", Taken(e)) /\ UNCHANGED checking
       \/ ~heard[e] /\ WrongKey(e) /\ ErrorDetected(e, "INCORRECT_PUBKEY_FOR_REMOTE", Taken(e)) /\ UNCHANGED checking
       \/ ~heard[e] /\ ~WrongKey(e) /\ checking' = [checking EXCEPT ![e] = @ \cup {"CONNECT"}]
          /\ net' = Taken(e) /\ UNCHANGED <<phase, errorVars>>
    /\ UNCHANGED <<purpose, registered, heard, acked, exchangeVars>>

\* registerCONNECT once the key is checked: another currency throws.
RegisterConnect(e, allow) ==
    /\ Active(e) /\ "CONNECT" \in checking[e]
    /\ checking' = [checking EXCEPT ![e] = @ \ {"CONNECT"}]
    /\ \/ allow /\ purpose # "currency"
          /\ registered' = [registered EXCEPT ![e] = TRUE]
          /\ net' = Post(e, net, (IF e = "client" /\ IsSync THEN <<Say("CONNECT")>> ELSE <<>>) \o <<Say("ACK")>>)
          /\ UNCHANGED <<phase, errorVars>>
       \/ allow /\ purpose = "currency" /\ UNCHANGED <<registered, net, phase, errorVars>>
       \/ ~allow /\ ErrorDetected(e, "REJECTED_PUBKEY", net) /\ UNCHANGED registered
    /\ UNCHANGED <<purpose, heard, acked, exchangeVars>>

\* mutant: the OK is sent before the key is checked
ReceiveAckAtOnce(e) ==
    /\ Active(e) /\ net[e] # <<>> /\ Head(net[e]).kind = "ACK" /\ ~acked[e]
    /\ checking' = [checking EXCEPT ![e] = @ \cup {"ACK"}]
    /\ net' = Post(e, Taken(e), <<Say("OK")>>)
    /\ UNCHANGED <<phase, errorVars, purpose, registered, heard, acked, exchangeVars>>

ReceiveAck(e) ==
    /\ Active(e) /\ net[e] # <<>> /\ Head(net[e]).kind = "ACK"
    /\ \/ acked[e] /\ ErrorDetected(e, "ALREADY_AUTHENTICATED_REMOTE", Taken(e)) /\ UNCHANGED checking
       \/ ~acked[e] /\ WrongKey(e) /\ ErrorDetected(e, "INCORRECT_PUBKEY_FOR_REMOTE", Taken(e)) /\ UNCHANGED checking
       \/ ~acked[e] /\ ~WrongKey(e) /\ checking' = [checking EXCEPT ![e] = @ \cup {"ACK"}]
          /\ net' = Taken(e) /\ UNCHANGED <<phase, errorVars>>
    /\ UNCHANGED <<purpose, registered, heard, acked, exchangeVars>>

\* registerACK once the key is checked: a refusal says nothing.
RegisterAck(e, allow) ==
    /\ Active(e) /\ "ACK" \in checking[e]
    /\ checking' = [checking EXCEPT ![e] = @ \ {"ACK"}]
    /\ acked' = [acked EXCEPT ![e] = allow]
    /\ phase' = Progress(e, acked'[e], heard[e])
    /\ net' = IF allow THEN Post(e, net, <<Say("OK")>>) ELSE net
    /\ UNCHANGED <<purpose, registered, heard, exchangeVars, errorVars>>

\* The signature is that of the challenge registered with the CONNECT.
ReceiveOk(e) ==
    /\ Active(e) /\ net[e] # <<>> /\ Head(net[e]).kind = "OK"
    /\ \/ /\ heard[e] /\ ErrorDetected(e, "ALREADY_AUTHENTICATED_AND_CONFIRMED_BY_REMOTE", Taken(e))
          /\ UNCHANGED heard
       \/ /\ ~heard[e] /\ registered[e]
          /\ heard' = [heard EXCEPT ![e] = TRUE]
          /\ phase' = Progress(e, acked[e], TRUE) /\ net' = Taken(e) /\ UNCHANGED errorVars
       \/ /\ ~heard[e] /\ ~registered[e]
          /\ Terminate(e, Taken(e)) /\ UNCHANGED <<heard, errorVars>>
    /\ UNCHANGED <<purpose, checking, registered, acked, exchangeVars>>

----------------------------------------------------------------------------
(* Pushes, requests and answers. *)

\* A sync client only asks.
PushData(e) ==
    /\ phase[e] = "connected" /\ ~IsSync /\ ~sent[e].pushed
    /\ sent' = [sent EXCEPT ![e].pushed = TRUE]
    /\ net' = Post(e, net, <<Say("push")>>)
    /\ UNCHANGED <<purpose, phase, authVars, pending, errorVars>>

Request(e) ==
    /\ phase[e] = "connected" /\ sent[e].requests < MaxRequests
    /\ LET id == sent[e].requests + 1 IN
       /\ sent' = [sent EXCEPT ![e].requests = id]
       /\ pending' = [pending EXCEPT ![e] = @ \cup {id}]
       /\ net' = Post(e, net, <<[kind |-> "request", id |-> id]>>)
    /\ UNCHANGED <<purpose, phase, authVars, errorVars>>

RequestTimeout(e, id) ==
    /\ phase[e] = "connected" /\ id \in pending[e]
    /\ pending' = [pending EXCEPT ![e] = @ \ {id}]
    /\ UNCHANGED <<purpose, phase, net, authVars, sent, errorVars>>

\* Push and request of an end that is not authenticated; a push, the answer to a request;
\* an answer that someone awaits, or whose request is over.
ReceiveData(e) ==
    /\ Active(e) /\ net[e] # <<>> /\ Head(net[e]).kind \in {"push", "request", "answer"}
    /\ LET msg == Head(net[e]) IN
       \/ /\ ~acked[e]
          /\ ErrorDetected(e, "MUST_BE_AUTHENTICATED_FIRST", Taken(e)) /\ UNCHANGED pending
       \/ /\ acked[e] /\ msg.kind # "answer"
          /\ net' = IF msg.kind = "push" THEN Taken(e)
                    ELSE Post(e, Taken(e), <<[kind |-> "answer", id |-> msg.id]>>)
          /\ UNCHANGED <<phase, pending, errorVars>>
       \/ /\ acked[e] /\ msg.kind = "answer" /\ msg.id \in pending[e]
          /\ pending' = [pending EXCEPT ![e] = @ \ {msg.id}]
          /\ net' = Taken(e) /\ UNCHANGED <<phase, errorVars>>
       \/ /\ acked[e] /\ msg.kind = "answer" /\ msg.id \notin pending[e]
          /\ ErrorDetected(e, "ANSWER_TO_UNDEFINED_REQUEST", Taken(e)) /\ UNCHANGED pending
    /\ UNCHANGED <<purpose, authVars, sent>>

----------------------------------------------------------------------------
ConnectionInit ==
    /\ purpose \in {"normal", "sync", "key", "currency"}
    /\ phase = [e \in End |-> IF e = "client" THEN "opening" ELSE "idle"]
    /\ net = [e \in End |-> <<>>]
    /\ checking = [e \in End |-> {}]
    /\ registered = [e \in End |-> FALSE] /\ heard = [e \in End |-> FALSE] /\ acked = [e \in End |-> FALSE]
    /\ pending = [e \in End |-> {}] /\ sent = [e \in End |-> [requests |-> 0, pushed |-> FALSE]]
    /\ causes = [e \in End |-> {}] /\ nbErrors = [e \in End |-> 0]

Receive(e) == ReceiveClose(e) \/ ReceiveConnect(e) \/ ReceiveAck(e) \/ ReceiveOk(e) \/ ReceiveData(e)
Register(e) == \E allow \in BOOLEAN : RegisterConnect(e, allow) \/ RegisterAck(e, allow)

ConnectionNext ==
    \/ Serve \/ Opened
    \/ \E e \in End :
         \/ Receive(e) \/ Register(e) \/ Timeout(e) \/ Leave(e) \/ PushData(e) \/ Request(e)
         \/ \E id \in 1..MaxRequests : RequestTimeout(e, id)

\* What is sent arrives, keys are checked, and timers fire.
ConnectionFairness ==
    \A e \in End : WF_connectionVars(Receive(e)) /\ WF_connectionVars(Register(e)) /\ WF_connectionVars(Timeout(e))

ConnectionSpec == ConnectionInit /\ [][ConnectionNext]_connectionVars /\ ConnectionFairness

----------------------------------------------------------------------------
ConnectionTypeOK ==
    /\ purpose \in {"normal", "sync", "key", "currency"}
    /\ phase \in [End -> {"idle", "opening", "asking", "connected", "closed"}]
    /\ net \in [End -> Seq(Message)]
    /\ checking \in [End -> SUBSET {"CONNECT", "ACK"}]
    /\ {registered, heard, acked} \subseteq [End -> BOOLEAN]
    /\ pending \in [End -> SUBSET (1..MaxRequests)]
    /\ sent \in [End -> [requests : 0..MaxRequests, pushed : BOOLEAN]]
    /\ nbErrors \in [End -> Nat]

\* Between honest ends, however their messages, checks and timers interleave, the handlers never
\* detect a message out of its turn: only another key, a refused one and a late answer are errors.
OnlyHonestErrors ==
    \A e \in End : causes[e] \subseteq {"INCORRECT_PUBKEY_FOR_REMOTE", "REJECTED_PUBKEY", "ANSWER_TO_UNDEFINED_REQUEST"}

\* An end that believes in the connection is joined by the other one, or told that it is over.
NeverHalfConnected ==
    \A e \in End : phase[e] = "connected" ~> phase[Other(e)] = "connected" \/ phase[e] = "closed"
=============================================================================
