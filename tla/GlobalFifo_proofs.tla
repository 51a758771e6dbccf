-------------------------- MODULE GlobalFifo_proofs --------------------------
(***************************************************************************)
(* The FIFO keeps its table and its queue in agreement, for any number of   *)
(* operations.                                                             *)
(***************************************************************************)
EXTENDS GlobalFifo, TLAPS

USE NoOpAssumption

\* What appending a fresh id and taking the head do to the set of queued ids.
LEMMA AppendQueued ==
    ASSUME queue \in Seq(Ops), NEW op \in Ops, op \notin Queued,
           \A i, j \in DOMAIN queue : queue[i] = queue[j] => i = j,
           queue' = Append(queue, op)
    PROVE  /\ Queued' = Queued \cup {op}
           /\ \A i, j \in DOMAIN queue' : queue'[i] = queue'[j] => i = j
<1>1. /\ Len(queue) \in Nat /\ DOMAIN queue = 1..Len(queue)
      /\ DOMAIN queue' = 1..(Len(queue) + 1)
      /\ queue'[Len(queue) + 1] = op
      /\ \A i \in DOMAIN queue : queue'[i] = queue[i]
  OBVIOUS
<1>2. Queued' = Queued \cup {op}
  BY <1>1 DEF Queued
<1>3. ASSUME NEW i \in DOMAIN queue', NEW j \in DOMAIN queue', queue'[i] = queue'[j]
      PROVE  i = j
  <2>1. i \in DOMAIN queue \/ i = Len(queue) + 1
    BY <1>1
  <2>2. j \in DOMAIN queue \/ j = Len(queue) + 1
    BY <1>1
  <2> QED BY <1>1, <1>3, <2>1, <2>2 DEF Queued
<1> QED BY <1>2, <1>3

LEMMA TailQueued ==
    ASSUME queue \in Seq(Ops), queue # <<>>,
           \A i, j \in DOMAIN queue : queue[i] = queue[j] => i = j,
           queue' = Tail(queue)
    PROVE  /\ Queued' = Queued \ {Head(queue)}
           /\ Head(queue) \in Queued
           /\ \A i, j \in DOMAIN queue' : queue'[i] = queue'[j] => i = j
<1>1. /\ Len(queue) \in Nat \ {0} /\ DOMAIN queue = 1..Len(queue)
      /\ DOMAIN queue' = 1..(Len(queue) - 1)
      /\ Head(queue) = queue[1]
      /\ \A i \in DOMAIN queue' : queue'[i] = queue[i + 1]
  OBVIOUS
<1>2. \A i \in DOMAIN queue' : i + 1 \in DOMAIN queue /\ i + 1 # 1
  BY <1>1
<1>3. \A i \in DOMAIN queue : i # 1 => i - 1 \in DOMAIN queue' /\ (i - 1) + 1 = i
  BY <1>1
<1>4. Head(queue) \in Queued
  BY <1>1 DEF Queued
<1>5. Queued' \subseteq Queued \ {Head(queue)}
  BY <1>1, <1>2 DEF Queued
<1>6. Queued \ {Head(queue)} \subseteq Queued'
  <2> SUFFICES ASSUME NEW i \in DOMAIN queue, queue[i] # Head(queue)
               PROVE  \E k \in DOMAIN queue' : queue'[k] = queue[i]
    BY DEF Queued
  <2>1. i # 1
    BY <1>1
  <2> QED BY <2>1, <1>1, <1>3
<1>7. \A i, j \in DOMAIN queue' : queue'[i] = queue'[j] => i = j
  <2> SUFFICES ASSUME NEW i \in DOMAIN queue', NEW j \in DOMAIN queue',
                      queue'[i] = queue'[j]
               PROVE  i = j
    OBVIOUS
  <2>1. i + 1 = j + 1
    BY <1>1, <1>2
  <2> QED BY <2>1, <1>1
<1> QED BY <1>4, <1>5, <1>6, <1>7

FifoInv == FifoTypeOK /\ TableMatchesQueue /\ ClosedMeansIdle

LEMMA FifoInvInit == FifoInit => FifoInv
  BY DEF FifoInit, FifoInv, FifoTypeOK, TableMatchesQueue, ClosedMeansIdle, Queued

LEMMA FifoInvStep == FifoInv /\ [FifoNext]_fifoVars => FifoInv'
<1> SUFFICES ASSUME FifoInv, [FifoNext]_fifoVars PROVE FifoInv'
  OBVIOUS
<1> USE DEF FifoInv, FifoTypeOK, TableMatchesQueue, ClosedMeansIdle
<1>1. ASSUME NEW op \in Ops, Push(op) PROVE FifoInv'
  <2>1. op \notin Queued
    BY <1>1 DEF Push, Refused
  <2>2. /\ Queued' = Queued \cup {op}
        /\ \A i, j \in DOMAIN queue' : queue'[i] = queue'[j] => i = j
    BY <1>1, <2>1, AppendQueued DEF Push
  <2> QED BY <1>1, <2>1, <2>2 DEF Push, Refused
<1>2. CASE Start
  <2>1. /\ Queued' = Queued \ {Head(queue)} /\ Head(queue) \in Queued
        /\ \A i, j \in DOMAIN queue' : queue'[i] = queue'[j] => i = j
    BY <1>2, TailQueued DEF Start
  <2>2. Head(queue) \in Ops /\ Tail(queue) \in Seq(Ops)
    BY <1>2 DEF Start
  <2> QED BY <1>2, <2>1, <2>2 DEF Start
<1>3. ASSUME NEW ok \in BOOLEAN, Settle(ok) PROVE FifoInv'
  <2>1. Queued' = Queued
    BY <1>3 DEF Settle, Queued
  <2> QED BY <1>3, <2>1 DEF Settle, ClosingAfter
<1>4. ASSUME NEW op \in Ops, SettleAndPush(op) PROVE FifoInv'
  <2>1. CASE op \in operations
    <3>1. Queued' = Queued
      BY <1>4, <2>1 DEF SettleAndPush, Refused, Queued
    <3> QED BY <1>4, <2>1, <3>1 DEF SettleAndPush, Refused, ClosingAfter
  <2>2. CASE op \notin operations
    <3>1. op \notin Queued
      BY <2>2
    <3>2. /\ Queued' = Queued \cup {op}
          /\ \A i, j \in DOMAIN queue' : queue'[i] = queue'[j] => i = j
      BY <1>4, <2>2, <3>1, AppendQueued DEF SettleAndPush, Refused
    <3> QED BY <1>4, <2>2, <3>1, <3>2 DEF SettleAndPush, Refused, ClosingAfter
  <2> QED BY <2>1, <2>2
<1>5. CASE Close
  <2>1. Queued' = Queued
    BY <1>5 DEF Close, Queued
  <2> QED BY <1>5, <2>1 DEF Close
<1>6. CASE Reset
  BY <1>6 DEF Reset, Queued
<1>7. CASE UNCHANGED fifoVars
  BY <1>7 DEF fifoVars, Queued
<1> QED BY <1>1, <1>2, <1>3, <1>4, <1>5, <1>6, <1>7 DEF FifoNext

(***************************************************************************)
(* GlobalFifoPromise: however many operations are pushed, settled, refused   *)
(* or lost, the table of ids and the queue of tasks agree, so that no        *)
(* document is refused for ever and none is treated twice at the same time;  *)
(* and a FIFO that reports itself closed runs nothing.                      *)
(***************************************************************************)
THEOREM FifoCorrect == FifoSpec => [](FifoTypeOK /\ TableMatchesQueue /\ ClosedMeansIdle)
<1> SUFFICES FifoSpec => []FifoInv
  BY PTL DEF FifoInv
<1> QED BY FifoInvInit, FifoInvStep, PTL DEF FifoSpec
=============================================================================
