------------------------------- MODULE Money -------------------------------
(***************************************************************************)
(* The money of the accounts: the dividend store, the index of sources     *)
(* with its secondary indexes, and the wallets, as blocks are applied,     *)
(* reverted and trimmed.  An account is the condition SIG(p) of a key p; a *)
(* block writes an event about a member, or a transaction with one input, *)
(* or neither; its outputs are the sources <<number, position>>, and the   *)
(* dividend of block number for a key p is the source <<p, number>>.       *)
(***************************************************************************)
EXTENDS Integers, Sequences, FiniteSetsExt

CONSTANTS Pub,          \* public keys
          Root,         \* newcomers of block 0
          UD,           \* the dividend
          MinAmount,    \* ACCOUNT_MINIMUM_CURRENT_BASED_AMOUNT
          Kept,         \* blocks whose consumptions are kept (requiredBindexSizeForTail)
          UndoWindow,     \* conf.forksize
          MaxNumber,    \* bound: number of the last block
          MaxFailures,  \* bound: generations of indexes that fail
          MaxUndone    \* bound: blocks reverted

ASSUME MoneyAssumption ==
    /\ Root \subseteq Pub /\ {UD, MinAmount, Kept, UndoWindow, MaxNumber, MaxFailures, MaxUndone} \subseteq Nat
    /\ MinAmount <= UD /\ UndoWindow <= Kept

VARIABLES
    blocks,      \* blocks 1..n: event, dividend or not
    dividend,   \* level_dividend: row of each key, or NoRow
    trimOn,     \* level_dividend_trim_index: keys that consumed at each block
    rows,       \* level_sindex: creations and consumptions of sources
    sourcesOn,  \* level_sindex/written_on: sources written by each block
    consumedOn, \* level_sindex/consumed_on: sources consumed by each block
    accounts,   \* level_sindex/conditions: sources of each condition (or of a block number: see TrimSources)
    wallet,     \* level_wallet: balance of each account
    drift,      \* history: what the known defects moved a balance away from its sources
    unspent,    \* history: sources whose consumption was reverted
    top,        \* history: highest block applied
    failures,   \* generations that failed
    reverts     \* blocks reverted

moneyVars == <<blocks, dividend, trimOn, rows, sourcesOn, consumedOn, accounts, wallet, drift, unspent, top, failures, reverts>>

Number == 0..MaxNumber
Source == (Number \X {0, 1}) \cup (Pub \X Number)
NoRow == [member |-> FALSE, row |-> FALSE, availables |-> [n \in Number |-> 0], consumed |-> {}]
NewRow == [NoRow EXCEPT !.member = TRUE, !.row = TRUE]
Event == [kind : {"none", "newcomer", "back", "excluded"}, pub : Pub]
height == Len(blocks)

\* A creation, or a consumption, of a source.
Row == [id : Source, amount : Nat, condition : Pub, on : Number, consumed : BOOLEAN]

Total(amounts) == MapThenSumSet(LAMBDA r : r.amount, amounts)
Availables(p) == MapThenSumSet(LAMBDA n : dividend[p].availables[n], Number)

----------------------------------------------------------------------------
(* Reading the sources. *)

Consumed(id) == \E r \in rows : r.id = id /\ r.consumed
Available(r) == ~r.consumed /\ ~Consumed(r.id)

\* What the index of conditions finds of an account.
AvailableFor(p) == {r \in rows : r.id \in accounts[p] /\ Available(r)}

\* MembersUpdate of the blocks, and keys it has seen.
LastEvent(p) == LET e == {i \in DOMAIN blocks : blocks[i].event.kind # "none" /\ blocks[i].event.pub = p}
           IN  IF e = {} THEN IF p \in Root THEN "newcomer" ELSE "none" ELSE blocks[Max(e)].event.kind
Events == {e \in Event :
    CASE e.kind = "none" -> e.pub = CHOOSE p \in Pub : TRUE
      [] e.kind = "newcomer" -> LastEvent(e.pub) = "none"
      [] e.kind = "back" -> LastEvent(e.pub) = "excluded"
      [] e.kind = "excluded" -> LastEvent(e.pub) \in {"newcomer", "back"}}

\* A transaction: nothing, or an available input and the outputs that share its amount.
Spendable ==
    {[id |-> x, amount |-> UD, condition |-> x[1], dividend |-> TRUE] :
        x \in {y \in Pub \X Number : dividend[y[1]].availables[y[2]] > 0}}
    \cup {[id |-> r.id, amount |-> r.amount, condition |-> r.condition, dividend |-> FALSE] :
        r \in {s \in rows : Available(s)}}
NoInput == [id |-> <<0, 0>>, amount |-> 0, condition |-> CHOOSE p \in Pub : TRUE, dividend |-> TRUE]
Output(n, pos, amount, p) == [id |-> <<n, pos>>, amount |-> amount, condition |-> p, on |-> n, consumed |-> FALSE]
Outputs(n, s) ==
    IF s = NoInput THEN {{}}
    ELSE {{Output(n, 0, s.amount, p)} : p \in Pub}
         \cup {{Output(n, 0, 1, p), Output(n, 1, s.amount - 1, s.condition)} : p \in {q \in Pub : s.amount > 1 /\ q # s.condition}}
Consumption(r, n) == [id |-> r.id, amount |-> r.amount, condition |-> r.condition, on |-> n, consumed |-> TRUE]

----------------------------------------------------------------------------
(* Applying a block. *)

\* createMember for each entry of the local IINDEX (the excluded one too), then the dividend, if any.
Created(e) == [p \in Pub |->
    IF e.kind = "none" \/ e.pub # p THEN dividend[p]
    ELSE IF dividend[p].row THEN [dividend[p] EXCEPT !.member = TRUE] ELSE NewRow]
Producers(d) == {p \in Pub : d[p].row /\ d[p].member}
Produced(d, n) == [p \in Pub |->
    IF p \in Producers(d) THEN [d[p] EXCEPT !.availables[n] = @ + 1] ELSE d[p]]

\* The variation of an account in the block, before its garbage.
Variation(p, s, outputs, ud) ==
    Total({o \in outputs : o.condition = p})
    - (IF s # NoInput /\ s.condition = p THEN s.amount ELSE 0)
    + (IF p \in ud THEN UD ELSE 0)

\* Every account of an entry is examined, those that only receive a dividend too: the keys of the map
\* are taken, whatever their value.
Touched(s, outputs, ud) == {o.condition : o \in outputs} \cup (IF s = NoInput THEN {} ELSE {s.condition}) \cup ud

\* The dividend of the block, as an entry of the account.
Receipt(p, n) == [id |-> <<p, n>>, amount |-> UD, condition |-> p, on |-> n, consumed |-> FALSE]

\* The accounts left below the minimum lose their sources: those of the block, its dividend included, and
\* those the index of conditions finds.
Garbage(s, outputs, ud, n) ==
    UNION {{Consumption(r, n) : r \in {o \in outputs \cup {Receipt(q, n) : q \in ud} \cup AvailableFor(p) :
                                         o.condition = p /\ o.id # s.id}} :
        p \in {q \in Touched(s, outputs, ud) : wallet[q] + Variation(q, s, outputs, ud) < MinAmount}}

\* What the garbage takes of the dividends of an account: an entry of the store of sources, the dividend stays.
Wasted(garbage, p) == Total({x \in garbage : x.consumed /\ x.id[1] = p})

Negative(s, outputs, ud) == \E p \in Touched(s, outputs, ud) : wallet[p] + Variation(p, s, outputs, ud) < 0

\* updateMembers, once the indexes are written.
MembersUpdate(d, e) == IF e.kind = "excluded" THEN [d EXCEPT ![e.pub].member = FALSE] ELSE d

\* consume: the dividend spent leaves the available ones.
Consume(d, s, n) ==
    IF s = NoInput \/ ~s.dividend THEN d
    ELSE [d EXCEPT ![s.condition].availables[s.id[2]] = @ - 1, ![s.condition].consumed = @ \cup {<<n, s.id[2]>>}]

\* trimConsumedUDs: by the index of what was consumed at each block.
TrimDividends(d, on, below) == [p \in Pub |->
    IF \E k \in Number : k < below /\ p \in on[k]
    THEN [d[p] EXCEPT !.consumed = {c \in @ : c[1] >= below}] ELSE d[p]]
TrimmedOn(on, below) == [k \in Number |-> IF k < below THEN {} ELSE on[k]]

\* trimConsumedSource: the sources consumed below leave the store and the index of their condition.  What
\* is left of those the block wrote is stored in the index of conditions, under the number of the block.
Dropped(r, on, below) == {id \in UNION {on[k] : k \in {x \in Number : x < below}} :
    \E x \in r : x.id = id /\ x.consumed /\ x.on < below}

TrimAccounts(a, r, w, on, below) == LET gone == Dropped(r, on, below) IN
    [k \in Pub \cup Number |->
        IF k \in Pub THEN a[k] \ gone
        ELSE IF k < below /\ on[k] \cap gone # {} THEN w[k] \ {CHOOSE id \in on[k] \cap gone : TRUE} ELSE a[k]]

\* insertBatch of the sources, with their three secondary indexes.
Inserted(new, n) ==
    [rows |-> rows \cup new,
     sourcesOn |-> [sourcesOn EXCEPT ![n] = {x.id : x \in new}],
     consumedOn |-> [consumedOn EXCEPT ![n] = {x.id : x \in {y \in new : y.consumed}}],
     accounts |-> [k \in Pub \cup Number |-> accounts[k] \cup {x.id : x \in {y \in new : y.condition = k}}]]

\* The dividend consumed is indexed by the block that consumes it.
TrimIndex(s, n) == IF s # NoInput /\ s.dividend THEN [trimOn EXCEPT ![n] = {s.condition}] ELSE trimOn

UpdateWallets(s, outputs, ud, n) == [p \in Pub |-> wallet[p] + Variation(p, s, outputs, ud)
    - Total({x \in Garbage(s, outputs, ud, n) : x.condition = p})]

ApplyBlock(e, ud, s, outputs) ==
    LET n == height + 1
        d0 == Created(e)
        receivers == IF ud THEN Producers(d0) ELSE {}
        d1 == IF ud THEN Produced(d0, n) ELSE d0
        d2 == MembersUpdate(Consume(d1, s, n), e)
        new == outputs \cup Garbage(s, outputs, receivers, n)
                \cup (IF s = NoInput \/ s.dividend THEN {} ELSE {Consumption(s, n)})
        i == Inserted(new, n)
        below == IF n > Kept THEN n - Kept ELSE 0
        gone == Dropped(i.rows, i.consumedOn, below)
    IN
    /\ ~Negative(s, outputs, receivers)
    /\ blocks' = Append(blocks, [event |-> e, ud |-> ud])
    /\ dividend' = TrimDividends(d2, TrimIndex(s, n), below) /\ trimOn' = TrimmedOn(TrimIndex(s, n), below)
    /\ rows' = {x \in i.rows : x.id \notin gone}
    /\ sourcesOn' = i.sourcesOn
    /\ consumedOn' = [k \in Number |-> IF k < below THEN i.consumedOn[k] \ gone ELSE i.consumedOn[k]]
    /\ accounts' = TrimAccounts(i.accounts, i.rows, i.sourcesOn, i.consumedOn, below)
    /\ wallet' = UpdateWallets(s, outputs, receivers, n)
    /\ unspent' = unspent \ i.consumedOn[n]
    /\ top' = Max({top, n})
    /\ drift' = [p \in Pub |-> drift[p] - Wasted(Garbage(s, outputs, receivers, n), p)]
    /\ UNCHANGED <<failures, reverts>>

\* The generation of the indexes fails (an account would be negative, or a later rule throws), once the
\* dividends of the block are in their store.
FailBlock(e, ud) ==
    /\ failures < MaxFailures /\ failures' = failures + 1
    /\ LET d0 == Created(e) IN
       /\ dividend' = IF ud THEN Produced(d0, height + 1) ELSE d0
       /\ drift' = [p \in Pub |-> IF ud /\ p \in Producers(d0) THEN drift[p] - UD ELSE drift[p]]
    /\ UNCHANGED <<blocks, trimOn, rows, sourcesOn, consumedOn, accounts, wallet, unspent, top, reverts>>

SaveBlockData ==
    /\ height < MaxNumber
    /\ \E e \in Events, ud \in BOOLEAN, s \in Spendable \cup {NoInput} :
         /\ e.kind = "none" \/ s = NoInput
         /\ \E outputs \in Outputs(height + 1, s) : ApplyBlock(e, ud, s, outputs)

GenerationFails == height < MaxNumber /\ \E e \in Events, ud \in BOOLEAN : FailBlock(e, ud)

----------------------------------------------------------------------------
(* Reverting the last block. *)

\* mutant: the consumption of a dividend is forgotten when its block is reverted
UndoDividendsWithoutRecovery(d, n) == [p \in Pub |->
    [d[p] EXCEPT !.availables[n] = IF @ > 0 THEN @ - 1 ELSE 0]]

\* undoMembersUpdate: the row of a newcomer is deleted, with the dividends it holds.
UndoMembers(d, e) ==
    CASE e.kind = "none" -> d
      [] e.kind = "newcomer" -> [d EXCEPT ![e.pub] = NoRow]
      [] e.kind = "back" -> [d EXCEPT ![e.pub].member = FALSE]
      [] e.kind = "excluded" -> [d EXCEPT ![e.pub].member = TRUE]

\* revertUDs: one dividend of the block is removed, and those it consumed are available again.
UndoDividends(d, n) == [p \in Pub |->
    LET back == {c \in d[p].consumed : c[1] = n} IN
    [d[p] EXCEPT
        !.availables = [k \in Number |->
            @[k] - (IF k = n /\ @[k] > 0 THEN 1 ELSE 0) + (IF <<n, k>> \in back THEN 1 ELSE 0)],
        !.consumed = @ \ back]]

\* removeBlock of the sources: each one the block wrote leaves the index of its condition, even if it
\* was only consumed.
Undone(n) == {r \in rows : r.on = n}
AccountsWithout(n) == [k \in Pub \cup Number |-> accounts[k] \ {r.id : r \in {x \in Undone(n) : x.condition = k}}]

\* The wallets follow the dividends destroyed and recovered, and the sources undone.
UndoWallets(d, n) == [p \in Pub |-> wallet[p]
    - (IF d[p].availables[n] > 0 THEN UD ELSE 0)
    + UD * Cardinality({c \in d[p].consumed : c[1] = n})
    - Total({r \in Undone(n) : r.condition = p /\ ~r.consumed})
    + Total({r \in Undone(n) : r.condition = p /\ r.consumed})]

UndoBlock ==
    LET n == height
        e == blocks[n].event
        d == UndoMembers(dividend, e)
        kept == rows \ Undone(n)
    IN
    /\ n > 0 /\ n > top - UndoWindow
    /\ reverts < MaxUndone /\ reverts' = reverts + 1
    /\ blocks' = SubSeq(blocks, 1, n - 1)
    /\ dividend' = UndoDividends(d, n)
    /\ trimOn' = [trimOn EXCEPT ![n] = {}]
    /\ rows' = kept
    /\ accounts' = AccountsWithout(n)
    /\ sourcesOn' = [sourcesOn EXCEPT ![n] = {}]
    /\ consumedOn' = IF sourcesOn[n] = {} THEN consumedOn ELSE [consumedOn EXCEPT ![n] = {}]
    /\ wallet' = UndoWallets(d, n)
    /\ drift' = [p \in Pub |-> drift[p] + Wasted(Undone(n), p)
                    + (IF e.kind = "newcomer" /\ e.pub = p THEN UD * Availables(p) ELSE 0)]
    /\ unspent' = (unspent \cup {r.id : r \in {x \in Undone(n) : x.consumed}}) \cap {r.id : r \in kept}
    /\ UNCHANGED <<top, failures>>

MoneyInit ==
    /\ blocks = <<>>
    /\ dividend = [p \in Pub |-> IF p \in Root THEN NewRow ELSE NoRow]
    /\ trimOn = [n \in Number |-> {}] /\ rows = {}
    /\ sourcesOn = [n \in Number |-> {}] /\ consumedOn = [n \in Number |-> {}]
    /\ accounts = [k \in Pub \cup Number |-> {}]
    /\ wallet = [p \in Pub |-> 0]
    /\ drift = [p \in Pub |-> 0] /\ unspent = {} /\ top = 0 /\ failures = 0 /\ reverts = 0

MoneyNext == SaveBlockData \/ GenerationFails \/ UndoBlock

MoneySpec == MoneyInit /\ [][MoneyNext]_moneyVars

----------------------------------------------------------------------------
MoneyTypeOK ==
    /\ blocks \in Seq([event : Event, ud : BOOLEAN]) /\ height <= MaxNumber
    /\ dividend \in [Pub -> [member : BOOLEAN, row : BOOLEAN, availables : [Number -> Nat], consumed : SUBSET (Number \X Number)]]
    /\ trimOn \in [Number -> SUBSET Pub]
    /\ rows \subseteq Row
    /\ {sourcesOn, consumedOn} \subseteq [Number -> SUBSET Source]
    /\ accounts \in [Pub \cup Number -> SUBSET Source]
    /\ {wallet, drift} \subseteq [Pub -> Int]
    /\ unspent \subseteq Source /\ {top, failures, reverts} \subseteq Nat

\* The balance of an account is what its sources and dividends available are worth, but for the
\* defects that drift counts: dividends of a generation that failed, those of a newcomer reverted, and
\* those the garbage charges to the wallet and leaves available.
BalancesAgree ==
    \A p \in Pub : wallet[p] = Total({r \in rows : Available(r) /\ r.condition = p}) + UD * Availables(p) + drift[p]

\* The sources of an account are found by its condition, but for those whose consumption was reverted.
SourcesFound ==
    /\ \A r \in rows : Available(r) => r.id \in accounts[r.condition] \cup unspent
    /\ \A p \in Pub : \A id \in accounts[p] : \E r \in rows : r.id = id /\ r.condition = p

\* Both views of an account agree: its balance, and the sources found by its condition.
AccountsAgree == BalancesAgree /\ SourcesFound
=============================================================================
