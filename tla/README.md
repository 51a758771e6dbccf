# Duniter in TLA+

Duniter is a node of a blockchain for a libre currency: members certify each
other (the web of trust), members compute blocks by proof of work, and every
member receives a dividend. These modules model the node of this repository
(TypeScript under `app/` and `server.ts`), component by component; TLC checks
them on small instances, and TLAPS proves about the core for every instance.

Paths below are relative to the repository.

## 1. The system

| Component | State | Operations | Talks to |
|---|---|---|---|
| Global FIFO (`app/service/GlobalFifoPromise.ts`) | queue of tasks, table of ids, current promise | push, start, settle, close | every service pushes its writes here |
| Blockchain service (`app/service/BlockchainService.ts`) | the cache of invalid forks | submitBlock, blockResolution, forkResolution, revert and reapply commands | FIFO, Switcher, block store |
| Switcher (`app/lib/blockchain/Switcher.ts`) | local to one call: suites, reverted and successful blocks | tryToFork: find suites, test each, switch | reverts and adds blocks through SwitcherDao |
| Applying a block (`app/lib/blockchain/DuniterBlockchain.ts`, `app/lib/computation/BlockchainContext.ts`) | none of its own | checkBlock, pushTheBlock, saveBlockData, revertBlock, pushSideBlock | the global indexes, the wot, the block store, the Rust server |
| Indexer and rules (`app/lib/indexer.ts`, `app/lib/rules/`) | none: functions of a block and the indexes | local index, HEAD, global rules, generated entries | read the indexes |
| Global indexes (`app/lib/dal/indexDAL/leveldb/`) | BINDEX, IINDEX, MINDEX, CINDEX, SINDEX, dividends, wallets, blocks, each with secondary indexes | insert, trim, removeBlock, queries | LevelDB |
| Documents (`app/service/IdentityService.ts`, `MembershipService.ts`, `TransactionsService.ts`) | SQLite sandboxes | submit identity, certification, revocation, membership, transaction | FIFO, sandboxes, rules |
| Peering (`app/service/PeeringService.ts`) | table of peers, own peer document | submitP, generateSelfPeer | FIFO, router |
| Prover (`app/modules/prover/`) | the proof loop, the workers | prove, cancel, self-submit | FIFO, blockchain service, forked processes |
| Crawler (`app/modules/crawler/`) | timers | pull blocks, pull sandboxes, test peers, sync | remote nodes, blockchain service |
| WS2P (`app/modules/ws2p/`) | connections and their authentication, banned and reachable peers | connect, accept, head, request, pull | remote nodes, services |
| BMA (`app/modules/bma/`) | rate limiters | HTTP routes | services |
| Server (`server.ts`) | the services | initDAL (maintenance and resolutions), disconnect, revert, reapply | everything |

A node is one event loop. Its writes are serialised by the FIFO; what is left of
concurrency is between an operation and the `await`s before or after it, between
the node and its workers or remote peers, and between a step and the end of the
process. What is hard: forks tested in place in the main table; a block made of
some ten writes to as many databases with no transaction; indexes that must be
exactly undone by a revert; timers and messages that race.

What makes each component correct:

- FIFO: an operation runs once, alone, in order; nothing runs once closed.
- Choice of a chain: the chain is always valid, the best fork within the window
  is followed, blocks below the window are final, no block is lost.
- Stores: after any block, revert or crash they all describe the same block.
- Indexes: removing a block restores the state before it; a certification,
  membership or source expires, is renewed or is spent exactly once.
- Rules: the computed variables (difficulty, median time, dividend) stay in
  bounds; a chain can always be continued (no deadlock between rules).
- Documents and peers: a document accepted stays consistent with what it refers
  to; a newer document is never replaced by an older one.
- Prover: a proof is cancelled when the chain moves, and the loop never sleeps
  for ever.

## 2. Modules

| Module | What it is |
|---|---|
| `GlobalFifo` | the FIFO, by itself |
| `ChainChoice` | abstract specification: what a node promises about its chain |
| `ForkResolution` | blockchain service and Switcher over the two tables of the block store; instantiates `GlobalFifo`, implements `ChainChoice` |
| `ServerRun` | one run of the program: databases, services, interruption; EXTENDS `GlobalFifo` |
| `BlockStores` | the writes of one block and of one revert, store after store, the end of the process between any two of them, and the maintenance at startup |
| `CertIndex` | certifications: the rules, CINDEX with its secondary indexes, the links of the web of trust, reverts and trimming |
| `Membership` | memberships, revocations and exclusions: the rules, MINDEX and IINDEX with their secondary indexes, the nodes of the web of trust, reverts |
| `Money` | dividends, sources and wallets as blocks are applied, reverted and trimmed |
| `BlockHead` | the computed fields of HEAD: frame of issuers, difficulty, median time, dividend, base, mass; and the cached next HEAD |
| `Transactions` | a transaction from the pool to a block: admission, choice of the generator, rules of the block |
| `DocumentPool` | identities, certifications, memberships and revocations waiting in their sandboxes |
| `BlockGenerator` | the documents the generator puts in a block, and the rules that the block must obey |
| `Prover` | the permanent proof loop, its canceller, the cluster and its workers |
| `QuickSync` | the indexes that a quick synchronisation builds, beside those of the same chain block by block |
| `SyncDownload` | milestones, chunks, files and peers of a synchronisation |
| `Pulling` | the pull of blocks: chunks, fork, search of the common root |
| `Gossip` | pending documents spread by pushes, posts, pulls and commands |
| `WS2PConnection` | one connection: handshake, requests, answers, timeouts |
| `WS2PCluster` | the places of the node: who is connected, trimmed, banned |
| `WS2PHeads` | the heads a node hears of, caches and passes on |
| `Peering` | the table of peers |
| `MCForkResolution`, `MCForkProgress` | trees of blocks for TLC |
| `MCCertIndex`, `MCMembership` | constants of those two modules |
| `MCServices`, `MCStores`, `MCRecords`, `MCRules`, `MCProof`, `MCNetwork` | one instance for several components that share no state |
| `GlobalFifo_proofs`, `ForkResolution_proofs`, `ServerRun_proofs`, `BlockStores_proofs`, `DocumentPool_proofs`, `Remotes_proofs`, `Network_proofs`, `Production_proofs` | theorems; `Remotes_proofs` is about `SyncDownload` and `WS2PConnection`, `Production_proofs` about `BlockGenerator` and `Prover`, `Network_proofs` about `WS2PCluster`, `WS2PHeads`, `Peering` and `Pulling`, `BlockStores_proofs` about `BlockHead` too, `DocumentPool_proofs` about `Gossip` too |

The last six MC modules put components side by side with a variable `focus` that says, from the
initial state on, which of them moves; the others keep an initial state. It is a way to
check several specifications in one run: no behaviour mixes two of them, and the
reachable states are the sum of theirs.

### GlobalFifo

`queue` is the waiting tasks of `async.queue`, `operations` the table of ids,
`running` the current task, `closing` the progress of `closeFIFO`. `Push` is
`pushFIFOPromise` accepted (a registered id is `Refused`); `Settle(ok)` is either
branch of the promise; `SettleAndPush` is a task that pushes another one as its
last act, as submitBlock does; `Close` pauses and waits; `Reset` is the end of
the process. `FifoSpec` assumes that the idle, unpaused queue starts its next
task and that a running promise settles: the event loop does the first, and all
promises pushed by the services end (no service awaits a later FIFO task from
inside a FIFO task).

### ForkResolution

`main` and `forks` are the tables of `LevelDBBlockchain` (`level_blockchain` and
`level_blockchain/forks`), sets of blocks since a number, respectively a number and
a hash, is the key; `invalidForks` is the cache of the service; `phase` and the
variables from `current` to `longest` are the locals of `tryToFork`,
`findLongestChain` and `switchOnChain` while they run. A block is a number (its hash:
the databases list blocks of equal number by hash); the tree, the times and the
verdict of the rules are constants. That the verdict depends only on the block and its
ancestors is what the protocol intends; how far the indexes keep that promise
is the subject of `CertIndex`, `Membership`, `Money` and `BlockHead`.

One step is one block added or reverted, since each is a chain of awaits during
which documents are pushed and the process may stop. `Submit`, `PullResolution`
and `Command` push; `Begin` is the queue's start; `SubmitBlock` is the whole of
submitBlock (duplicate, window and proof checks, the side block, the push of
its resolution); `BlockResolution` adds one potential next block and begins again,
`NoBlockAccepted` ends it and goes to forkResolution; `TryToFork` computes the
suites (`PotentialSuites`, maximal, as the code drops a head already inside a
suite), `PickSuite` .. `Restored` are one turn of the loop of findLongestChain,
`Stay` and `SwitchOnChain` the decision, `SwitchPop` and `SwitchAdd` the switch.
`Restart` is the end of the process at any step followed by a startup, which
resolves blocks and forks outside the FIFO before anything else.

`ChainChoice` sees only `Chain`: the main table, or, from the beginning of
tryToFork to its end, the chain of the block that was current. Its steps are
`Extend`, `Switch` (with both advances, and every block deeper than the fork window kept),
`Undo` (only if an operator asked) and `Interrupt`.

### BlockStores

`ForkResolution` takes the addition of a block as one step; this module opens it.
`main`, `side` and `bindex` are the tables of blocks and of HEADs; `store` says how
many times each of the other databases (the four indexes, the dividends, the two
kinds of movement of a wallet) holds what a block wrote; `wot` is the
web of trust in memory, `wotFile` its file, `wotIds` the identifiers that IINDEX
gave to the newcomers. `todo` is the rest of the running operation: `AddWrites` is
saveBlockData with the flush of the indexes, `RevertWrites` is revertBlock, and the
actions under `Write` are their writes, one each. `Crash` ends the process between
two of them, `Stop` is a disconnect of an idle node, `Start` and the actions under
`InitDAL` are the next start.

Every block brings something to every store, and each newcomer comes with a block
of his own: a block that leaves a store alone has fewer ways to go wrong. The writes inside
one store are taken as one. Left out: the links of the web of trust, the trimming,
the sandboxes, and the copy that the Rust server keeps.

What the maintenance repairs is BINDEX and the blocks, and nothing else. Cut

- between BINDEX and the main table, the next start reverts the HEAD, removes the
  entries, then throws in setSideBlock since the block was never saved; the start
  after it succeeds. On block 0 it never does (`NoCurrentBlock`), hence the
  premise of `StartsAgain`;
- after the dividends, the block is applied again and its dividend written twice;
- between the block and the file of the web of trust, the newcomers of the block have no node
  at the next start, and the following ones get ids other than on other nodes;
- inside a revert, the block comes back to the side blocks with entries left in an
  index, and the rules refuse it from then on.

`CrashesAreMended` bounds the damage: blocks and HEADs agree again after a start (`HeadsAgree`),
nothing of the chain is missing, and there is at most one copy too many per cut (`CutsAreBounded`).
`StoresAgree` says there is none without a cut.

### CertIndex

`issued` and `received` are the two arrays of a `level_cindex` record, `expiresOn` and
`writtenOn` its secondary indexes, `wot` the links. A block takes certifications that
the rules accept (`Acceptable`: age, period, stock, replay, all read from the index
as `completeGlobalScope` does), adds the expiries that the index of terms gives, inserts,
trims below the tail of BINDEX, and updates the links. `RevertBlock` undoes the links in the
order of the entries, then is removeBlock. Two things are kept only to compare: `chain`
has what each block wrote, `reverted` the certifications of the reverted blocks. All the keys
are members, blocks are of version 11 or more, and the process does not stop (`BlockStores` sees to that).

`IndexFollowsChain` is exact: reverts and trimmings leave the entries of the chain. The
other properties say what a revert may harm, and that nothing else is harmed:

- the revert of a replay removes the link of a certification that stays valid
  (`LinksAgree`; its finding is below);
- the revert of a certification deletes its whole term in the index: others of the
  same term never expire on this node (`ExpiresInTime`);
- a renewal made after an expiry, then both reverted: the certification is valid again but its receiver does not find it
  (`ReceiverFinds`, a conjunct of `LinksAgree`).

In each case the node computes later blocks otherwise than a node that never saw the
branch. The model also shows a certification renewed by the block whose time reaches its term: the
expiry is computed before the renewal is in the index, and comes after it, so the renewed
certification is written as expired. All nodes do the same. And the rule on the stock
accepts one certification more than `sigStock`, which `addLink` then ignores: the
instance stays below the stock.

### Membership

`mindex` and `iindex` are the entries of each key, where a field that is null in the code is
absent, so that `Reduced` (reduce) is one override after the other; `expiresOn` and
`revokesOn` are the keys by date, `kick` the index of the keys to exclude, `enabled` the nodes
of the web of trust (the members of the dividend store follow the same statements). `AddBlock` takes what
the block says of each key (`Contents`: at most one membership or a revocation, as
`checkMembershipUnicity` wants) and the exclusions (`Exclusions`: BR_G85 and BR_G86), generates the
expiries, kicks and implicit revocations from the indexes before the block, and writes
MINDEX, its dates, IINDEX, its kicks and the nodes in the order of saveBlockData.
`RevertBlock` is undoMembersUpdate, then removeBlock on MINDEX and on IINDEX. Certifications are an
input: in any block, any of the `Lacking` members may be kicked for the lack of them
(BR_G95), and a joiner has enough. Distances, signatures, the field `leaving`, the
uids and hashes are left out; there is no crash.

The dates of `revokesOn` that are no date ("null", or the number of a block, both of which
the code pads and sorts before any date of the real currency) are the key `Early`.
LevelDB's `get` rejects an absent key, and an absent key is an empty set here: `Missing` says who is taken out of one.
The operation then throws with MINDEX half done (`SaveFails`, `RevertFails`), or before any
write when the index gives a key without identity (`GenerationFails`). Nothing is modelled after that.

`IndexesAgree` is `MembersAgree`, `TermsKept` and `KicksFollow`. The properties hold with exceptions that they name, each a corner of the code:

- a membership written in the block whose time ends the one before it (`AtTerm`): the renewal
  takes the key out of its date, the expiry does it again, and the block cannot be saved; when another key keeps the date alive,
  or the member is coming back, the member keeps an expired membership and nothing kicks it;
- the revert of any block that touches a key leaves it under `Early`. That stands for the date
  a reverted revocation does not give back, but the next renewal or revocation of the key
  looks for the date, and throws; and if the first block of the key is reverted too,
  every later block fails;
- the revert of a second kick (`kicked again`) restores the first one, already done;
- a kick in the block of the exclusion (`kicked while excluded`): its finding is below.

### ServerRun

A run is a command that ends once configured, works on the databases (`sync`, `revert`,
`reset`...), starts the node, or starts and stops services. `step` is where processCommand is, `dal`
the databases, `writer` a write that does not go through the FIFO, `closer` the three
callers of disconnect (the command itself, the branch `catch`, the handler of SIGINT), `service` and
`later` the services and the jobs that their startService did not wait for. The FIFO is `GlobalFifo`
itself: `StartTask` and `SettleTask` are its steps. The model shows, and `CleanExit` names:

- what is done outside the FIFO, the resolutions of initDAL and commands as `sync` or `reset`, may be
  cut by SIGINT (`OutsideFIFO`, `server.ts:385-389`);
- when SIGINT closes the databases before they are opened (`dal = "late"`), `dal.close` rejects at the first LevelDB table
  (`LevelDBTable.ts:17-19`), so the process exits with the code of SIGINT. `CloseDal` always succeeds here: the model only has
  more exits with success than the program;
- closeFIFO rethrows the error of the task it waits for, so that disconnect skips `dal.close`
  (`server.ts:522`); the process then exits with an error, or with the code of SIGINT;
- the disconnect of the branch `catch` is not awaited (`index.ts:462`).

### Money

An account is the condition SIG(p). `dividend` and `trimOn` are the dividend store, `rows` with
`sourcesOn`, `consumedOn` and `accounts` the index of sources and its secondary indexes, `wallet` the
balances. A block has one event about a member, a transaction or nothing; `SaveBlockData` writes it in
the order of the code with its garbage of small accounts, `UndoBlock` is revertBlock, and
`GenerationFails` is a block refused after its dividends were produced. `AccountsAgree` is
`BalancesAgree` and `SourcesFound`. The exceptions are history variables:

- `drift`: dividends produced by a generation that then fails are not taken back
  (`DuniterBlockchain.ts:283`); a newcomer reverted loses its row before its dividends are
  reverted (`:576` before `:531`); the garbage of a dividend is written as the consumption of a
  transaction's source;
- `unspent`: a source whose consumption is reverted is no longer found by its condition
  (`LevelDBSindex.ts:312-327`).

Trimming writes in the index of conditions under the number of a block (`LevelDBSindex.ts:360-369`):
`accounts` has these keys too.

### BlockHead

`heads` are the HEADs of the chain, `tail` the first that BINDEX keeps, `vHEAD`, `vHEAD_1` and `reading` the cached next HEAD and the
computations of it under way. The rules are operators on what BINDEX holds. `HeadsAreRight` compares them with a node
that trimmed nothing (`SameHead`) and the cache with the chain (`VirtualHeadIsNext`); `DividendsAgree` is `MassIsDividends` and
`DividendAccepted`. The named exceptions: the size of BINDEX is that of the frame of its first block; a change of base out of time
creates a dividend that the mass does not count; a block written during the computation
leaves the cache wrong until the next one (`raced`); the generator takes its base from the members
before its block, so that its own block may be refused. The logarithm of the difficulty
is a table of thousandths.

### Transactions

`pool` is the mempool (kept by an external crate: modelled by its calls), `txChain` the blocks, `made` the block generated and not
yet submitted. `ProcessVerifiedTx` is the admission, `GenerateNextBlock` the choice, with chaining, room and tries, `SubmitMadeBlock` and
`ReceiveBlock` blocks under `CheckBlock`, `UndoBlock` a revert that gives the transactions back. `MoneyKept` is
the conservation of what the sources are worth. `GeneratedTransactionsPass` names what the
generator accepts and a block refuses: a child of a transaction with a locktime (`LockedChild`), a lock that opens one tick
later (`OneTickEarly`), a stamp on a block that was left (`AbandonedStamp`).
The formula of conditions is a set of clauses of atoms, and only version 12 of the
unlocking, in TypeScript, is modelled.

### DocumentPool

`rows`, `certRows` and `msRows` are the tables of pending documents, `requests` the certifications whose submission
has read the certified identity and waits for the FIFO. Submissions, and blocks with what
they remove from the tables, come in any order. `AcceptedIsKept` has the exception `dropped`, `PoolIsCurrent` the
exception `late`: the current block of a check is read before the operation that uses it. Seen in the model, and
outside the properties: the flag `removed` set by `IdentityDAL.deleteByHash` (`:303-307`) is never read; of two concurrent
certifications of an unknown identity, the second is lost with its absorption; a revocation of an unknown identity is deleted at
the next block; and a revert gives no document back.

### BlockGenerator

`idties`, `memberships` and `certs` are the sandboxes, the other variables the indexes. `NextBlock` is any
block a generator may make of them, written; who it kicks is read in the indexes before it, as BR_G94 does (`indexer.ts:2177-2200`).
`GeneratedBlockIsValid` says the rules accept it, but for

- two newcomers of one uid (`SameUidTwice`);
- the revocation of an identity that is not a member (`RevokesNoMember`);
- someone kicked once more (`KickedOnceMore`): excluded or revoked by the very block whose time ended his membership, he is
  kicked by it all the same. No block can then exclude who is no member: the case of `kicked_not_member`, seen by the generator;
- a length that reaches the limit.

`FindNewcomers` adds newcomers one by one, in any order, as `iteratedChecking` does.

### Prover

`loop` is where startPermanence is, `work` where proveByWorkers is, `cancels` the cancellations in progress, `inbox`, `slave` and `answers`
the workers and their messages, `file` with `blanks` the file `pow.txt` and its writes. HEAD changes by a block of the network
or by the node's own, and the service may be stopped, at any step. `LoopGoesOn` names the three corners where the loop waits for the next block
of somebody else: no timer guards the wait for the event of its own block (`AwaitsBlock`, `permanentProver.ts:172`), a cancellation that overtakes
the write of `pow.txt` is not heard (`MissedCancellation`, `powCluster.ts:174`), and a
proof asked to killed slaves never ends (`Orphaned`).

### QuickSync

`usual` are the indexes of a node that applies each block, `quick` and `waiting` those of the
synchronisation, which evaluates the rules by time only where `terms` says a term is reached, and delays the
entries of blocks that say nothing important. `SameIndexes` has one exception, `unseen`: the list of what flushes the entries lacks
the leavers (`GlobalIndexStream.ts`), so that a membership ended while the leave waits keeps the date of
the one before. Sources and wallets of this mode are not modelled.

### SyncDownload

Two chains leave each other after `root`; the node synchronised on follows one and may change (`Reorganise`). `milestone` are the top
blocks of the chunks, `chunk` the progress of each, `file` what an earlier run saved, `reserved` to `noNode` the peers, `delivered`
what was handed to the indexers. Of a chunk's blocks three things are kept: the branch of the hash that the last one announces (`on`), that of
the hash the first one refers to (`below`), and whether the interior is `right`: links, versions, inner hashes, hashes, length. A
hash fixes the blocks before it only in a chunk that is right. A peer may be `"wrong"`: its blocks announce any hash.

`CheckChunk` is what `downloadChunk` and `chainsCorrectly` look at when chunk *i* comes: its top (`TopIsMilestone`), its
first block (`FollowsBelow`), and the interior of chunk *i - 1* (`BelowIsRight`), which may have been saved and handed on since
(`DownloadStream.ts:91-100,204-245`). No chunk comes after the last one, so its interior is never looked at. `SyncedChain` says what is left: each
chunk handed on follows the one before, and all but the last are right. At the end the last one ends with the milestone of the node synchronised on, and the
others are its chain when the last is right. The blocks of the last chunk that
fall in the tail (`GlobalIndexStream.ts:421-422`) go through the rules of a block later, in `finalizeSync`, which is not modelled here.

Also seen: a chunk of wrong interior, once accepted, stays: each next chunk is refused and its supplier blamed, good as it may be,
until no peer is left and the synchronisation exits. It was saved before, so a later synchronisation meets it again
(`SavedFiles` begins with such files; `SyncEnds` says that this ends too). The validation of the cache may ask for the block −251, and exits after its
timeout. An answer with too many blocks is not represented.

### WS2PConnection

Both ends are this program. `net` are the messages to each end, `checking` those whose handler awaits
isAuthorizedPubkey, `registered`, `heard` and `acked` the halves of the authentication, `pending` the exchanges. `causes` keeps why an
end counted an error: `OnlyHonestErrors` says that none is a message out of its turn (a late answer counts as one, and nothing resets the count).

### WS2PCluster

`served` and `clients` are the connections, `attempts` those under way, `crawl` the function that
fills the free places, `tasks` the trimmings, each of which reads, awaits and closes. `Own` are the siblings of
the node, of the same key and told apart by their uuid, which have places of their own. `GoesOn` is the guard of the crawl: it goes on while there is a place,
or while fewer siblings are connected than expected (`WS2PCluster.ts:673-678`). One is expected until the own peer is met in the table, so that
without it the crawl goes over the whole table even when all places are taken; the excess is trimmed after. A trimming of the clients
takes the keys served once, before its awaits (`keys` of a task, `:1048-1051`), and may so close a connection for a place that is no longer taken.
`PlacesKept` has the exception `failed`: a trimming throws when the connection it awaits is closed by
another (`WS2PCluster.ts:1078-1090`).

### WS2PHeads

`headsCache`, `memberkeys` and `blockstamps` are the caches of each node; a head received is
compared (`Deliver`), checked against members and blocks (`IsMemberKey`) and cached (`Cache`) in three steps between which other heads come. Messages are reordered, and may be lost.
`HeadsAdvance` has the two races by which an older head replaces a newer one: an entry that changed since it was compared, and the own head made during a change of the node.

### Peering

`rows` is the table as SQLite has it: a set of rows, several of which may be of one key; the first inserted is the one read (`Found`),
while the room of the peers out of the web of trust is a count of rows (`CountNonWoTPeers`, `SqlitePeers.ts:50-57`). A save deletes the rows of the key and
inserts one, so that two savers (`writers`) may leave two. `submission` is the operation of the FIFO with the parameters of
submitP: nodes leave them out, the commands `sync` and `peer` skip the room with `acceptNonWoT`, and `peer` replaces a newer document
with `eraseIfAlreadyRecorded` (`PeeringService.ts:129,200-203`). A command works on a node at rest (`SubmitByCommand`, `ResetPeers`), and the
node does nothing else until it is done (`NodeRuns`); what follows runs on what it left. `signing` is the making of the node's own peer, `tests` the tests of
peers. `PeersAdvance` is about each row of a key that did not race: it is alone, and of the newest document since the last command. `raced` are the keys
whose savers overlapped, or of which a row was between its deletion and its insertion when the room was counted or the long down removed.

### Pulling

A block is the path of labels that leads to it, a chain its last block; `pull` is the
progress of the pull from each remote, and either chain may move meanwhile (`moved`). `FindCommonRoot` is one round of the binary search with its lookups
of missing blocks. `PullIsComplete` says what an undisturbed pull finds and stores; a root at the lowest block makes it
throw, since the position to look at is then still −1.

### Gossip

Sites run the program; `wire` are the pushes, `posts` the HTTP posts, `pulled` the pull under way, `job` a command, `errors` and `bans`
the counts of wrong documents. `DocumentsSpread` is `NoHonestBan` and `SpreadAtRest`, the state form of "what is accepted
ends up everywhere". A document already known counts as a wrong one, and every node echoes what it accepts to its sender: four
copies at most count here, the ban comes at five, so the end of a ban is not modelled. A
revocation is never read from a push (it has the field `idty_uid`, and is taken for a certification): it
spreads by BMA, or by a pull of an identity with pending certifications. So `SpreadAtRest` leaves out, for each connection, what was `missed` and is not `Carried` by a pull over it.
The assumption on `RepeatThreshold` says how many connections two sites may have: at most two (one asked by each), which is what keeps the ban of an honest site out of reach.

## 3. Runs

Twelve runs, eight that pass and four that show a disagreement of the code with its own words.

| Run | Instance | What it shows |
|---|---|---|
| `fork_choice` | 7 blocks in two branches of up to 4, one of them forked again and with a refused head; fork window 3, advance 1; one waiting operation, one restart, one command | soundness of the main table at each step (`MainIsSound`), disjoint tables, no refusal on the way back (`NeverHalfway`), no block forgotten, and the refinement of `ChainChoice` |
| `fork_progress` | 5 valid blocks in two branches, advance 2, one restart | the best fork is followed whenever the Switcher declines; every operation ends; a next block never waits for ever |
| `fork_ignored` | 6 blocks: a refused head and a valid head on the same two blocks | expected violation of `BestForkFollowed`: the cache of invalid forks holds the accepted blocks of a tested suite, so the other head is not followed (`Switcher.ts:286` against the comment of `Switcher.ts:48`) |
| `services` | FIFO: 3 operations. Run: the same, a command that reverts, one that posts documents. Connection: 2 errors and 2 requests allowed. Synchronisation: 3 chunks of 2 blocks, 2 peers, one on another chain beside any saved files or one of wrong blocks without any, one reorganisation | the table of ids is the queue and the running task, and accepted operations settle; a process that exits with success wrote and closed everything, and an interruption ends it; two honest ends never see a message out of its turn, nor believe alone in a connection; the chunks synchronised follow each other and all but the last are what their hashes say, and it ends |
| `block_stores` | Stores: 2 blocks, two ends of the process at any write, one stop. HEAD: 6 blocks, one reverted. Pool: two newcomers of one uid, sandboxes of one row, two heights, one revert | with no cut operation the stores agree, after any cut and a start the damage is mended or bounded, and a node with a block starts again; the fields of HEAD are those recomputed from the whole chain, and so is the dividend; no accepted document is lost and none outlives its time, but for named cases |
| `wot_not_saved` | 2 blocks, one stop | expected violation of `WotSaved`: a revert followed by a disconnect leaves the file of the web of trust with the members of the reverted block (`revert.ts:41`, "Save DB") |
| `records` | Certifications: two issuers, one receiver, 6 blocks, times 0 to 3 for a validity of 2, one revert. Accounts: 2 keys, 3 blocks, one failure, one revert. Quick synchronisation: 2 persons, 6 blocks, a tail of 1. Gossip: 3 sites in a line, 5 scenarios of one or two documents, one event | the index follows the chain, links and expiries agree with it but for what was reverted; balances are the sum of the sources; quick and ordinary indexes are the same; documents spread and nobody is banned for it |
| `replay_reverted` | the certifications above | expected violation of `LinkSurvives` (`DuniterBlockchain.ts:508` against the comment of `LevelDBCindex.ts:206`) |
| `rules` | Memberships: one key with all its acts, another that joins; 5 blocks, times 0 to 2 for a validity of 1 and an implicit revocation at 2, two reverts. Transactions: 5 payments, 3 heights, one revert | members, web of trust and indexes agree with the chain, no one stays a member without membership beyond the next block, and the indexes stop the node in the named cases only; money is kept, and what a node generates passes its rules but for named cases |
| `kicked_not_member` | the memberships above | expected violation of `ToBeKickedAreMembers`: a member revoked by the block whose time ends its membership is kicked by it too (`indexer.ts:2189` against `LevelIIndexKickIndexer.ts:40`), and no block can follow |
| `proof` | Prover: 2 workers, one change of HEAD, one stop, two cancellations. Generator: 5 persons of all situations, 1 signature needed, stock of 2, two heights, blocks of 6 lines | the loop goes on but for three named corners; a generated block obeys the rules but for named corners |
| `network` | Places: a sibling, a member and a prefered key, 3 connections (2 while a key is banned), one ban at a time, one place of each kind. Heads: a line of 3 nodes, 2 blocks, 4 spreads. Peers: 2 keys (symmetric) and the node, room for 1, 2 documents, 3 writes, any commands. Pulls: 2 remotes, chains of up to 7 blocks, window 4, chunks of 2, one move, 2 pulls | places are kept; heads only advance, but for two named races; peers keep one row of the newest document and their room of rows, but for overlapping writers; a pull finds the common root and stores what it should |

**Bounds.** The trees of `fork_choice` are the smallest with a suite longer than the advance, two
suites to test in one call, a suite partly refused, and a head outside the window.
`MaxPending` bounds the queue when a block is submitted (resolutions come on top): one waiting submission
is enough to be ahead of or behind a resolution. `MaxRestarts` and `MaxCommands` are 1: the restart can
fall at any step, and a second one starts from a state reachable with one. In `block_stores`, two blocks are one to
lose and one to keep, and the second end of the process can fall in the maintenance after the first;
the same properties hold with three blocks (3.9 million states, too long for a regular run).
Six blocks let a certification expire, be renewed, lose both blocks and be trimmed.
Five blocks are a kick, an exclusion, a comeback and a second kick; two reverts take back a first membership and what
followed it. Three chunks are one at each end and one between two others; two peers are one on the chain, and one on the other branch or wrong. Seven blocks of a remote chain
are more than a window of four above a common root below it. In the memberships, certifications and transactions,
documents are made on the last block of their median time: only the order of the numbers matters. Every property
is checked without state constraint: bounds are guards of the actions, and each constant that is one says so.

**Deadlock.** `fork_choice`, `fork_progress` and `fork_ignored` look for deadlocks. The other systems may stop: an
idle node waits for ever, a process exits, a synchronisation ends, and chains whose numbers are bounded reach their bound.

**Fairness.** Always weak, always of what a process does by itself, and never of users, peers, blocks or ends of the process.

- `ForkResolution`: the running operation and the start of the next one (the event loop), and the
  pull of the crawlers (a repeating timer).
- `GlobalFifo`, `ServerRun`: the start of the next task, the end of a running promise, the closing of the databases and the
  exit; in a run, while the process lives.
- `BlockStores`: the writes, the maintenance of `initDAL`, and the service manager that starts again a node that exited on an error
  (`release/extra/systemd/duniter.service`).
- `WS2PConnection`: messages on an open socket arrive, checks of the web of trust settle, timeouts fire.
- `SyncDownload`: promises settle and timers fire; a peer may never answer (`AnswerTooLong` is the node's own timer).
- `Prover`: the event loop of each process and the delivery of messages between them, and a proof that is found in the end.

In the MC modules with a `focus`, each of these is conjoined with the focus it belongs to.

Each property of a passing run has a mutant in its module (an operator marked
`\* mutant`, used by no specification): a plausible mistake in the code that the run detects.

## 4. Proofs

The proofs are for every value of the constants that the assumptions of the module allow (`BlocksAssumption`, `TreeAssumption`,
`ConfAssumption`..., evaluated by the runs): types of the constants, and what the code's configuration ensures. No proof assumes a bound.

| Theorem | What holds in every behaviour |
|---|---|
| `GlobalFifo_proofs!FifoCorrect` | the table of ids is the queue and the running task, without duplicates; closed means idle |
| `ForkResolution_proofs!TypeCorrect`, `MainStaysSound`, `TablesStayDisjoint`, `SwitcherNeverStuck`, `NoBlockForgotten` | at every step the main table is a chain of valid blocks down to the root, no block is in both tables, a test of forks can always come back and a switch go to its end, and no block once accepted is forgotten |
| `ForkResolution_proofs!NodeImplementsChoice` | the node implements `ChainChoice`: it extends its chain, reverts on command, or switches to a branch ahead enough inside the window, and nothing else shows |
| `ForkResolution_proofs!NodeKeepsFifo` | in the node, too, the table of ids is the queue and the running task |
| `ServerRun_proofs!ExitIsClean`, `RunKeepsFifo` | exit with success means that operations are done and databases closed; a run drives the FIFO by its own actions, so its table is right |
| `BlockStores_proofs!StoresStayTogether`, `CutsAreMended` | the stores agree while nothing was cut; once maintained, what cuts leave is mended or bounded |
| `BlockStores_proofs!HeadsStayRight` | a HEAD computed on what BINDEX keeps is that of the whole chain while the frame of issuers fits in it; the cached HEAD is the next one unless a write raced with it |
| `DocumentPool_proofs!NothingAcceptedIsLost`, `PoolStaysCurrent` | the identity of a certification that waits, and an accepted revocation, are there until a block removes them; nothing waits that the chain or its window excludes, but for named cases |
| `DocumentPool_proofs!DocumentsGoEverywhere` | at rest, each document is at both ends of each connection but for what a connection missed and no pull carries; no honest site is banned |
| `Remotes_proofs!DownloadIsOneChain` | for any peers and files, of wrong blocks too, the chunks a synchronisation hands on follow each other and all but the last are what their hashes say; at the end the last one ends with the block of the node synchronised on, and all are its chain unless the interior of the last is wrong |
| `Remotes_proofs!NoMessageOutOfTurn` | the errors two honest ends detect are the three the property names, none a message out of turn |
| `Production_proofs!MadeBlocksPass` | a block made of the sandboxes passes the local and global rules, but for two newcomers of one uid, the revocation of a non-member, someone kicked once more by the block that excludes or revokes him, or a length that reaches the limit |
| `Production_proofs!AnswersAreOfTheProof` | an answer of a worker on its way is one that the master awaits, about the block being proved |
| `Network_proofs!HeadsGoForward` | each change of a cache of heads is to a block that its issuer had, and an improvement but in two races |
| `Network_proofs!PeersGoForward` | whatever nodes and commands submit, a key that did not race has one row, of its newest document or of that of the last command, and the rows of the others out of the web of trust are within their room |
| `Network_proofs!PlacesStayKept` | an excess of connections is someone's work, unless a trimming of the clients threw, and no key is served twice |
| `Network_proofs!PullsAreComplete` | an undisturbed pull finds the last common block, stores what it should, and fails only at the bottom of its window |

**Inductive invariants.** None of these properties is inductive as it stands.

- *FIFO.* The table follows the queue once the ids of the queue are unique.
- *Fork resolution.* The blocks put back after a test must be the ones that were on the fork point. `Inv` adds, for each
  phase of the Switcher, where the original chain is: while a suite is tested, `main` below the fork point together with
  `reverted` is the chain the test began on (`Low`, `Under`, `Over`), what is above is `successful`, and `longest`
  is a branch of valid blocks on a block still in place. So the foot of `reverted` is always accepted on the
  head. For the refinement, `ChoiceInv` adds `FifoAgrees` (the operation that runs is the one of the FIFO) and `Stands`: while forks are tested the chain of
  `current` is kept in the two tables, and no block as low as `LastFinal` leaves main. The mapped chain of a state is then
  unique (`ChainIsUnique`), so each step maps to a step of `ChainChoice` or to a stutter. One lemma per action, on
  lemmas about trees (`MinimalElement`, `TopAndFoot`, `AddedIsSound`, `RevertedIsSound`, `FootIsAccepted`).
- *Run of the program.* `RunInv` says what each step of a command implies: no operation before `initDAL` (`QuietStart`), services only after it
  (`ServicesAfterInit`), which operation writes (`WriterKnown`), and what a command that is done left behind.
- *Block stores.* `BlockInv` gives the content of each store at each point of the list of writes (`OperationKnown`), bounds
  what accumulates by the cuts (`StoresBounded`), and separates the side table (`SideApart`) and the nodes of the web of trust (`NodesKnown`).
- *HEADs.* `HeadInv`: BINDEX is consecutive and, after any trims and reverts, still has a frame of blocks of its last trimmed HEAD (`EnoughKept`); the cache, and each
  computation under way, is of the current block unless a write came meanwhile (`CacheFollows`).
- *Pool.* An identity is followed from its first submission (`IdentitiesKept`); a document that waits is one that the current blocks still allow.
- *Gossip.* `GossipInv`: what a site holds is at the other end of each connection, on its way there, or was missed (`EverythingGoesOn`); a member's identity has a row only beside its revocation (`RowsExplained`);
  and the pushes of a document from one site to another, on the wire or counted as wrong, are two per connection at most (`FewCopies`).
- *Generator.* `GeneratorInv`: the row of a written identity comes with its revocation, any other row is of an identity that was not written (`RowsFollow`).
  So what the generator reads in the sandbox is what the rules read in the indexes. The newcomers are chosen
  one after the other, each against those before (`CheckNewcomer`): that each choice meets the rules is proved by the least newcomer who would not (`NoLeast`).
- *Prover.* `ProverInv`: a proof asked of a worker is in one place at a time (in its inbox, next to run, run, or answered) and about the current proof (`OneByOne`), and
  no worker is asked unless the work is asked or stopping. It is beside `AnswersMatch`, which no run lists: TLC checked the whole invariant on the instance of `proof`.
- *Synchronisation.* `SyncInv`: the search of milestones stays inside its bounds, milestones are of the remote chain, a chunk that is done
  follows the one below, which is right and stays done until it is handed on (`ChunksInOrder`, `LastChecked`, `DeliveredChain`). That a hash fixes what is before it is only used of
  blocks that are right (`Blocks`, `BlocksGiven`).
- *Connection.* `ConnectionInv` says, at each end, that CONNECT, ACK and OK come once, each after what the other end did to send it, and that data come after the authentication.
- *Heads.* `HeadsInv` follows a head wherever it is (on a wire, awaiting a check, buffered): it is of a block that its issuer had, its steps tell a way
  from there, and one that awaits its check was better than what it was compared with.
- *Peers.* `PeeringInv`: a key without overlapping writers has one row or one writer, which puts it back or replaces it (`OneRow`); the room
  counts the rows that writers under way are to insert. The rows are numbered by the writers that are done (`RowsNumbered`).
- *Places.* `ClusterInv` adds to `PlacesKept` that a crawl is busy as long as an attempt of its bundle lasts (a client of a bundle brings no task of its own: the one that
  `EndBundle` sets comes later), and that each key has one index in the list of connections, which the cuts of `splice` keep (`ShorterList`, `NewInList`). A task of the server ends only where there
  is no excess; one of the clients where there is none, or where it throws.
- *Pulls.* `PullingInv` gives, at every step of a pull during which no chain moved, where the last common block is: with the head when the first chunk
  applies, below it when that chunk is another branch, and between the bounds of the search (`Bounded`), whose lower one, once moved, is below it. It rests on lemmas about beginnings of chains (`SameBeginning`,
  `ShorterBeginning`, `BlocksFacts`, `CommonFacts`).

TLC checked each of these on the instance of its run before it was proved. With the mutant of the property in the place of the definition, the
proof of `PullsAreComplete` fails at the lemma of the search, where it should.

**Only model-checked.**

- Liveness, under fairness: `AcceptedSettles`, `NeverHalfConnected`, `SyncEnds`, `InterruptEnds`, `StartsAgain`, `LoopGoesOn`, `OperationsEnd`, `NextBlockTaken`.
  The prover has no rule for fairness or ENABLED that these could use.
- `BestForkFollowed` holds with valid blocks only (`fork_progress`) and not in general (`fork_ignored`): it is no theorem.
- `CertIndex`, `Membership`, `Money`, `QuickSync`, and the dividends of `BlockHead`: indexes and counts are folds and
  selections over sequences, and what a fold computes is an induction over data, which the installed provers cannot do.
- `Transactions`: for the same reason (choices by `SelectSeq` and sums of amounts).

## 5. Plan and limits

Next proof: the conservation of `MoneyKept` step by step.

Not modelled, and why:

- SQL of the SQLite stores, its migrations, configuration, key pair, UPnP, dumps and plugins: input and output without an ordering of their own.
- The Rust server, its tools and the web of trust library (distance included): external; the node's own calls to the web of trust are in
  `CertIndex`, `Membership` and `BlockStores`.
- Most controllers of BMA (reads), formats and signatures of documents, `sync-mempool` commands, sources and wallets of the quick mode.

Seen while modelling, and not stated as findings since no line of the repository says otherwise:

- the revert of a block leaves a key under `null` in `level_mindex/revokesOn` (`LevelMIndexRevokesOnIndexer.ts:94`), at which a later renewal may throw;
- an issuer may hold one valid certification more than `sigStock` (`indexer.ts:1774` compares what was there before);
- the wait of the prover for the event of its own block has no timer (`permanentProver.ts:172`), unlike its other waits (`permanentProver.ts:212`);
- the list of what flushes delayed entries in a quick synchronisation lacks the leavers (`GlobalIndexStream.ts`);
- a chunk of wrong interior is found out by the next one, after it was saved: no synchronisation from these files goes on, and good peers are blamed for it
  (`DownloadStream.ts:91-106`); the interior of the last chunk is not looked at;
- the member excluded by a block that creates a dividend receives that dividend;
- an interruption may cut the resolution of the start, which is outside of the FIFO.
