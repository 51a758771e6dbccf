---------------------------- MODULE Transactions ----------------------------
(***************************************************************************)
(* Transactions from their submission to a block: the pool that admits     *)
(* them one by one, the generator that picks those of the next block, and  *)
(* the rules a block must pass, as blocks are written and reverted.        *)
(*                                                                         *)
(* A source is <<transaction or key, position>>.  Its conditions are a set *)
(* of clauses, each a set of functions, in place of the parsed formula.    *)
(* The pool is kept by the Rust server: what it does with a document is    *)
(* taken from the calls.                                                   *)
(***************************************************************************)
EXTENDS Integers, Sequences, SequencesExt, FiniteSetsExt

CONSTANTS Payments,     \* the transactions, by their hash
          FirstUD,      \* the dividends, sources of block 0
          UnitBase,     \* unit base of the blocks
          TxWindow,     \* TX_WINDOW, in units of time
          MaxTries,     \* TRANSACTION_MAX_TRIES
          MaxChaining,  \* BLOCK_MAX_TX_CHAINING_DEPTH
          Room,         \* lines of a block left to transactions
          PoolSize,     \* transactions the pool admits
          SourcesKept,  \* blocks during which a consumed source is kept
          MaxTxHeight,  \* bound: number of the last block
          MaxTxTime,    \* bound: median time
          MaxForeign,   \* bound: transactions in a block of another node
          MaxUndoneTxs  \* bound: reverts

VARIABLES
    txChain,   \* blocks 1..n: their median time, hash and transactions
    nextTime,  \* median time the next block must have (vHEAD.medianTime)
    pool,      \* pending transactions
    made,      \* block generated by this node, or NoMade
    undone     \* reverts

txVars == <<txChain, nextTime, pool, made, undone>>

\* Definitions, that TLC evaluates once.
Tx == Payments
Dividends == FirstUD

NoMade == [made |-> FALSE, txs |-> <<>>]
txHeight == Len(txChain)
TimeOf(n) == IF n = 0 THEN 1 ELSE txChain[n].time
medianTime == TimeOf(txHeight)

----------------------------------------------------------------------------
(* A transaction. *)

\* getLen: the lines of the compact form, without comment.
TxLen(t) == 2 + 2 * Len(Tx[t].issuers) + 2 * Len(Tx[t].inputs) + Len(Tx[t].outputs)

Value(x) == x.amount * 10^x.base
SumOf(xs) == FoldLeft(LAMBDA sum, x : sum + Value(x), 0, xs)

\* checkTxAmountsValidity: the sums are equal, and what appears in a base comes from the lower ones.
Delta(t, base) == SumOf(SelectSeq(Tx[t].outputs, LAMBDA o : o.base = base))
                  - SumOf(SelectSeq(Tx[t].inputs, LAMBDA i : i.base = base))
CheckTxAmounts(t) ==
    /\ SumOf(Tx[t].inputs) = SumOf(Tx[t].outputs)
    /\ \A base \in 0..Max({Tx[t].outputs[i].base : i \in DOMAIN Tx[t].outputs}) :
           Delta(t, base) > 0 => MapThenSumSet(LAMBDA b : Delta(t, b), 0..base) <= 0

----------------------------------------------------------------------------
(* The sources. *)

OutputSource(t, i, time) == [id |-> <<t, i - 1>>, amount |-> Tx[t].outputs[i].amount, base |-> Tx[t].outputs[i].base,
                             conditions |-> Tx[t].outputs[i].conditions, time |-> time]
CreatedBy(txs, time) == UNION {{OutputSource(txs[j], i, time) : i \in DOMAIN Tx[txs[j]].outputs} : j \in DOMAIN txs}
SpentBy(txs) == UNION {{Tx[txs[j]].inputs[k].source : k \in DOMAIN Tx[txs[j]].inputs} : j \in DOMAIN txs}

SourcesCreated == Dividends \cup UNION {CreatedBy(txChain[n].txs, txChain[n].time) : n \in DOMAIN txChain}
Spent(id) == \E n \in DOMAIN txChain : id \in SpentBy(txChain[n].txs)
Forgotten(id) == \E n \in DOMAIN txChain : n < txHeight - SourcesKept /\ id \in SpentBy(txChain[n].txs)

\* getSource: what the indexes hold, consumed or not.
Stored(id) == {s \in SourcesCreated : s.id = id /\ ~Forgotten(id)}

\* findTransactionByHash, then the output at the position; its time is not known.
Unknown == -1
Promised(id, known) ==
    UNION {{OutputSource(t, i, Unknown) : i \in {x \in DOMAIN Tx[t].outputs : id = <<t, x - 1>>}} : t \in known}

----------------------------------------------------------------------------
(* The locks, for the versions of the protocol up to 12. *)

\* The function of an unlock is satisfied: a signature by its issuer's rank, a password by its hash.
Satisfied(param, t, conditions) ==
    \/ param.f = "SIG" /\ param.p < Len(Tx[t].issuers)
    \/ param.f = "XHX" /\ param \in UNION conditions

\* A function of the conditions holds.  No time has elapsed, or none is known: the value is falsy.
Holds(atom, t, params, now, elapsed) ==
    CASE atom.f = "SIG" -> \E i \in DOMAIN params : params[i].f = "SIG" /\ Tx[t].issuers[params[i].p + 1] = atom.p
      [] atom.f = "XHX" -> \E i \in DOMAIN params : params[i] = atom
      [] atom.f = "CLTV" -> now > 0 /\ now >= atom.p
      [] atom.f = "CSV" -> elapsed > 0 /\ elapsed >= atom.p

\* unlock: every parameter is satisfied, there are no more of them than functions, and the formula holds.
Unlocks(t, k, source, now) ==
    LET params == Tx[t].unlocks[k]
        elapsed == IF source.time = Unknown THEN 0 ELSE now - source.time
    IN  /\ \A i \in DOMAIN params : Satisfied(params[i], t, source.conditions)
        /\ Len(params) <= MapThenSumSet(Cardinality, source.conditions)
        /\ \E clause \in source.conditions : \A atom \in clause : Holds(atom, t, params, now, elapsed)

----------------------------------------------------------------------------
(* The rules of a block.  A block holds its transactions and its median time. *)

TwoInputs(txs) == \A j \in DOMAIN txs : Tx[txs[j]].inputs # <<>>  \* mutant: a source consumed twice is not seen

\* checkTxSources: no source is consumed twice, nor created twice.
CheckTxSources(txs) ==
    /\ \A j \in DOMAIN txs : Tx[txs[j]].inputs # <<>>
    /\ Cardinality(SpentBy(txs)) = FoldLeft(LAMBDA n, t : n + Len(Tx[t].inputs), 0, txs)
    /\ Cardinality({txs[j] : j \in DOMAIN txs}) = Len(txs)

CheckTxIssuers(txs) == \A j \in DOMAIN txs : Tx[txs[j]].issuers # <<>>
CheckTxRecipients(txs) == \A j \in DOMAIN txs :
    /\ Tx[txs[j]].outputs # <<>>
    /\ \A i \in DOMAIN Tx[txs[j]].outputs : \E atom \in UNION Tx[txs[j]].outputs[i].conditions : atom.f \in {"SIG", "XHX"}

\* getTransactionDepth: the links of the longest chain that ends with each transaction of the block.
Parents(txs, j) == {p \in DOMAIN txs : \E k \in DOMAIN Tx[txs[j]].inputs : Tx[txs[j]].inputs[k].source[1] = txs[p]}
ChainingDepth(txs) ==
    LET depth[j \in DOMAIN txs] == IF Parents(txs, j) = {} THEN 0 ELSE 1 + Max({depth[p] : p \in Parents(txs, j)})
    IN  IF txs = <<>> THEN 0 ELSE Max({depth[j] : j \in DOMAIN txs})
CheckMaxTransactionChainingDepth(txs) == ChainingDepth(txs) <= MaxChaining

LocalRules(txs) ==
    /\ CheckTxIssuers(txs) /\ CheckTxSources(txs) /\ CheckTxRecipients(txs)
    /\ \A j \in DOMAIN txs : CheckTxAmounts(txs[j])
    /\ CheckMaxTransactionChainingDepth(txs)

\* BR_G102, BR_G103: the block of the stamp is on the chain, hash included, and recent enough.
RuleTxWritability(t) ==
    /\ Tx[t].ref[1] <= txHeight
    /\ Tx[t].ref[1] # 0 => txChain[Tx[t].ref[1]].hash = Tx[t].ref[2]
    /\ medianTime - TimeOf(Tx[t].ref[1]) <= TxWindow

\* The source of an input: one of the block first, else the one the indexes hold.
SourceFor(id, b) ==
    LET local == {s \in CreatedBy(b.txs, b.time) : s.id = id} IN
    IF local # {} THEN local ELSE Stored(id)

\* BR_G46, BR_G87: what the block creates is available, whatever it replaces.
InputIsAvailable(id, b) ==
    id \notin {s.id : s \in CreatedBy(b.txs, b.time)} => ~Spent(id)
InputIsUnlocked(t, k, b) == \E s \in SourceFor(Tx[t].inputs[k].source, b) : Unlocks(t, k, s, b.time)
InputIsTimeUnlocked(t, k, b) == \A s \in SourceFor(Tx[t].inputs[k].source, b) : b.time - s.time >= Tx[t].locktime
RuleOutputBase(t) == \A i \in DOMAIN Tx[t].outputs : Tx[t].outputs[i].base <= UnitBase

GlobalRules(b) == \A j \in DOMAIN b.txs : LET t == b.txs[j] IN
    /\ RuleTxWritability(t)
    /\ \A k \in DOMAIN Tx[t].inputs :
           InputIsAvailable(Tx[t].inputs[k].source, b) /\ InputIsUnlocked(t, k, b) /\ InputIsTimeUnlocked(t, k, b)
    /\ RuleOutputBase(t)

CheckBlock(b) == LocalRules(b.txs) /\ GlobalRules(b)

----------------------------------------------------------------------------
(* One transaction alone. *)

\* checkSourcesAvailability, at the time `now`; `known` are the transactions found by their hash.
InputPasses(t, k, now, known) ==
    LET id == Tx[t].inputs[k].source
        found == IF Stored(id) # {} THEN Stored(id) ELSE Promised(id, known)
    IN  \E s \in found :
            /\ Stored(id) # {} => ~Spent(id)
            /\ s.time # Unknown => now - s.time >= Tx[t].locktime
            /\ Unlocks(t, k, s, now)
CheckSingleTransaction(t, now, known) ==
    /\ \A k \in DOMAIN Tx[t].inputs : InputPasses(t, k, now, known)
    /\ \A i \in DOMAIN Tx[t].outputs : Tx[t].outputs[i].base <= UnitBase
    /\ SumOf(Tx[t].inputs) = SumOf(Tx[t].outputs)

\* checkTxBlockStamp: the number alone is looked up.
CheckTxBlockStamp(t) == Tx[t].ref[1] <= txHeight /\ medianTime <= TimeOf(Tx[t].ref[1]) + TxWindow

----------------------------------------------------------------------------
(* Submission. *)

Written == UNION {Range(txChain[n].txs) : n \in DOMAIN txChain}

\* processVerifiedTx: a transaction found by its hash, pending or written, is refused; so is one the pool has no
\* place for.  The others are checked one tick ahead.
ProcessVerifiedTx(t) ==
    /\ t \notin pool \cup Written
    /\ CheckTxBlockStamp(t)
    /\ CheckSingleTransaction(t, medianTime + 1, pool \cup Written)
    /\ Cardinality(pool) < PoolSize
    /\ pool' = pool \cup {t}
    /\ UNCHANGED <<txChain, nextTime, made, undone>>

----------------------------------------------------------------------------
(* Generation. *)

\* findTransactions: those that pass together with the ones already taken, in the order of the pool.
Passes(t, taken) ==
    /\ LocalRules(Append(taken, t))
    /\ CheckSingleTransaction(t, medianTime + 1, Range(taken))
    /\ CheckTxBlockStamp(t)
FindTransactions(order) == FoldLeft(LAMBDA taken, t : IF Passes(t, taken) THEN Append(taken, t) ELSE taken, <<>>, order)

\* A transaction that did not pass leaves the pool once its stamp is old enough.
Abandoned(taken) == {t \in pool \ Range(taken) : txHeight - Tx[t].ref[1] + 1 >= MaxTries}

FitsAlone(taken) ==  \* mutant: the length of a transaction that does not fit is not counted
    FoldLeft(LAMBDA acc, t : IF acc.len + TxLen(t) < Room
                             THEN [len |-> acc.len + TxLen(t), txs |-> Append(acc.txs, t)] ELSE acc,
             [len |-> 0, txs |-> <<>>], taken).txs

\* createBlock: the length left is counted down for those that do not fit too, so that none that follows does.
Fits(taken) ==
    FoldLeft(LAMBDA acc, t : [len |-> acc.len + TxLen(t),
                              txs |-> IF acc.len + TxLen(t) < Room THEN Append(acc.txs, t) ELSE acc.txs],
             [len |-> 0, txs |-> <<>>], taken).txs

\* The generator reads the pool, whose order is that of the Rust server.
GenerateNextBlock ==
    /\ made = NoMade /\ pool # {}
    /\ \E order \in SetToSeqs(pool) : LET taken == FindTransactions(order) IN
           /\ made' = [made |-> TRUE, txs |-> Fits(taken)]
           /\ pool' = pool \ Abandoned(taken)
    /\ UNCHANGED <<txChain, nextTime, undone>>

----------------------------------------------------------------------------
(* Blocks. *)

NextTimes(time) == time..(IF time < MaxTxTime THEN time + 1 ELSE time)

\* A block is written: its transactions leave the pool, and the expired ones (trimExpiredNonWrittenTxs), by the
\* wall-clock time they were received at: any of them.
WriteBlock(txs, hash) ==
    /\ txChain' = Append(txChain, [time |-> nextTime, hash |-> hash, txs |-> txs])
    /\ \E expired \in SUBSET (pool \ Range(txs)) : pool' = pool \ (Range(txs) \cup expired)
    /\ nextTime' \in NextTimes(nextTime)
    /\ UNCHANGED undone

MadeBlock == [time |-> nextTime, txs |-> made.txs]

\* The block of this node is submitted: it passes the rules or is lost.
SubmitMadeBlock ==
    /\ made # NoMade
    /\ made' = NoMade
    /\ IF CheckBlock(MadeBlock) /\ txHeight < MaxTxHeight THEN WriteBlock(made.txs, "own")
       ELSE UNCHANGED <<txChain, nextTime, pool, undone>>

\* A block of another node, whose pool may hold other transactions: the one being made has lost its place.
Foreign == UNION {{s \in [1..n -> DOMAIN Tx] : IsInjective(s)} : n \in 0..MaxForeign}
ReceiveBlock ==
    \E txs \in Foreign :
        /\ txHeight < MaxTxHeight
        /\ CheckBlock([time |-> nextTime, txs |-> txs])
        /\ WriteBlock(txs, "other")
        /\ made' = NoMade

\* The top block is left for another branch; the Rust server takes its transactions back.
UndoBlock ==
    /\ txHeight > 0 /\ undone < MaxUndoneTxs
    /\ txChain' = Front(txChain)
    /\ pool' = pool \cup Range(Last(txChain).txs)
    /\ nextTime' = medianTime
    /\ undone' = undone + 1
    /\ made' = NoMade

TxInit == txChain = <<>> /\ nextTime \in NextTimes(1) /\ pool = {} /\ made = NoMade /\ undone = 0

TxNext ==
    \/ \E t \in DOMAIN Tx : ProcessVerifiedTx(t)
    \/ GenerateNextBlock
    \/ SubmitMadeBlock
    \/ ReceiveBlock
    \/ UndoBlock

TxSpec == TxInit /\ [][TxNext]_txVars
----------------------------------------------------------------------------
(* Properties. *)

\* No sequence of blocks written, received and reverted creates or loses money: the sources that are left
\* are worth the dividends, so that none was spent twice, in one block or in two (BR_G46, BR_G87, checkTxSources).
MoneyKept ==
    MapThenSumSet(Value, {s \in SourcesCreated : ~Spent(s.id)}) = MapThenSumSet(Value, Dividends)

\* What the generator accepts and the rules of the block refuse: a chained input whose transaction has a locktime,
\* the time of the hypothetical source being unknown (global_rules.ts:157-167)...
LockedChild == \E j \in DOMAIN made.txs : Tx[made.txs[j]].locktime > 0 /\ Parents(made.txs, j) # {}
\* ... a lock that opens one tick after the current block, when the next block has the same median time
\* (blockGenerator.ts:189)...
OneTickEarly == nextTime = medianTime /\ \E j \in DOMAIN made.txs : \E k \in DOMAIN Tx[made.txs[j]].inputs :
    \/ ~InputIsUnlocked(made.txs[j], k, MadeBlock)
    \/ ~InputIsTimeUnlocked(made.txs[j], k, MadeBlock)
\* ... and a stamp whose block was left: only its number is looked up (global_rules.ts:359-372).
AbandonedStamp == \E j \in DOMAIN made.txs : LET ref == Tx[made.txs[j]].ref IN
    ref[1] > 0 /\ txChain[ref[1]].hash # ref[2]

\* The transactions of a generated block pass the rules the block is checked with: those that are picked do not
\* exclude each other, and a block that is full holds no transaction without the one it is chained to.
GeneratedTransactionsPass ==
    made # NoMade => CheckBlock(MadeBlock) \/ LockedChild \/ OneTickEarly \/ AbandonedStamp
=============================================================================
