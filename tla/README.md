# Verification of bitcoin-cash-stealth-demo

TLA+ models, TLC checks and TLAPS proofs for the stealth wallet and sharded pool
of this repository. Paths are relative to the repository root (`src/...`).
`PROJECT.json` lists the components, the runs, the mutants that show each
property can fail, the source lines behind every definition, the hazards of the
code and the theorems.

## 1. The system

`bchctl` (packages/cli) is a command-line wallet for Bitcoin Cash. It pays to and
scans for *stealth* outputs (one-time keys derived from a paycode), and operates
a *pool*: a set of covenant outputs, the *shards*, that absorb deposits
("notes") and pay withdrawals. There is no server. Each command is a process that
reads one JSON file, talks to an Electrum node, and writes the file back. The
desktop GUI runs these commands as child processes. Whatever ties the commands
together is therefore in two places: the *chain*, which the commands can only
extend with transactions the node accepts, and the *state file* of the profile.

### Inventory

| component | state it keeps | operations | what makes it correct |
|---|---|---|---|
| pool operations (`cli/src/pool/ops`, `commands/pool-stage-from.ts`) | a private copy of the pool state | init, deposit, stage-from, import, withdraw: load, check, build, broadcast, patch, save | stored pointers and records are true of the chain; a withdrawal is paid once; history is never lost; every command ends |
| shard builders (`pool-shards`) | none | `initShardsTx`, `importDepositToShard`, `withdrawFromShard` | no satoshi appears or disappears but the fee; the new pointer describes the output built |
| covenant (`pool-hash-fold`) | the commitment of a shard's token | re-fold and compare | only transactions that carry the folded commitment and the category spend a shard |
| state store (`pool-state/filestore.ts`) | the file and its parsed copy | load, get, set, flush | the file is read and replaced whole |
| state helpers (`pool-state/helpers.ts`, `cli/src/pool/state.ts`) | none | upserts, defaults, funding selection | an upsert keeps what it does not set; no spent or foreign output is chosen |
| stealth funding, send, change (`cli/src/ops/send.ts`, `stealth/change.ts`) | `stealthUtxos`, `restoreHints` | select, pay, derive change, mark spent | one-time keys are not shared; what is paid can be found and spent |
| stealth discovery (`commands/scan.ts`, `rpa-scan`) | `stealthUtxos` | scan a window, match, upsert | everything owned in the window is found, once |
| Electrum client (`electrum`, `cli/src/pool/io.ts`, `electrum-unspent.ts`) | a socket per call, the fee rate of the last five minutes | connect over servers and rounds, request, broadcast, fee, is-unspent | sockets do not leak; a transaction is sent once per call; a spent outpoint is not called unspent; every call ends |
| withdraw check (`commands/pool-withdraw-check.ts`) | none | compare a transaction with the covenant off chain | agrees with the covenant |
| legacy import and repair (`pool-state/legacy.ts`, `repair.ts`) | the file | one-way migration; repair is a stub | nothing is lost or counted twice |
| wallet, profile, config (`cli/src/wallet`, `config_store.ts`, `profile`) | `config.json`: profiles, keys, birthdays, the current profile | wallet init (create, hydrate, refresh), profile set, the app's repairs | no wallet the user was shown is lost; what is printed is what is stored; no birthday hides a payment |
| GUI (`gui/electron/main.ts`, `useBchctl.ts`, `app.tsx`, `tabs`) | running commands, busy flags, four gauges, the active profile | flows of commands, time limits, refreshes, switches of tab and profile | one writer per profile; gauges show the active profile as it is; one click pays once; controls come back |
| serialisation, signing, encodings (`tx-builder`, `utils`) | none | lengths, pushes, token prefixes, preimage, CashAddr | what one side writes the other reads, at every length; a mistyped address pays nobody |
| derivation | none | pure functions | payer and receiver derive one key |

### How they interact

* A command loads the file once at its start and saves its whole copy at its end.
  Nothing locks the file: `run` in the GUI, a second terminal or a scheduled scan
  may run at the same time.
* Between load and save a command waits for the node several times. The
  broadcast is the point of no return: the chain changes there, the file only at
  the save. An error of the broadcast (timeout, lost socket) does not say whether
  the transaction will be mined.
* The covenant sees only its input and the transaction; the local state reaches
  it as the unlocking data. What the file believes and what the chain holds meet
  there.

### What is hard

Interleaved commands on one profile; a death or a lost answer between broadcast
and save, then a retry; a transaction that arrives after its sender gave up; an
outpoint that was spent since the scan that found it; import's retries over three
spellings of the byte order; values split over two fee paths and checked twice
from two sources; two processes flushing through one temporary file; a config file
that commands truncate in place while the app renames over it; commands the app has
given up that still run; and a byte format held in six packages that only an
accepted transaction can show to agree. `PROJECT.json` lists each under `hazards`,
at its line.

## 2. Modules

| module | models | role |
|---|---|---|
| `PoolTx` | pool-shards builders, the commitments, the covenant as a predicate, the node's view of the chain | operators |
| `PoolOps` | the five pool commands as processes over one file and one chain | state machine |
| `PoolLedger` | what a pool promises | abstract specification |
| `PoolOpsProofs` | `PoolOps`: its types, pointers and records; its chain, the values on it and the refinement of `PoolLedger`; its commands' byte orders, history, stale pointers and payments | TLAPS |
| `StateFile` | `FileBackedPoolStateStore` on names and inodes | state machine |
| `AtomicFile` | one value, read and replaced whole | abstract specification |
| `MCStateFile` | instances | TLC |
| `StateFileProofs` | invariants of `StateFile`, the refinement of `AtomicFile` | TLAPS |
| `StealthTx` | one-time keys, what a scanner sees of a transaction, the stealth records and their upserts, funding selection | operators |
| `StealthWallet` | send, scan, and the stealth side of deposit and withdraw, as processes over the profiles' files and one chain | state machine |
| `Inbox` | what a receiver is promised | abstract specification |
| `MCStealthWallet` | instances | TLC |
| `StealthProofs` | invariants of `StealthWallet`, the refinement of `Inbox` | TLAPS |
| `ConfigStore` | `config.json` between `bchctl` commands and the app's main process | state machine |
| `ConfigProofs` | invariants of `ConfigStore` | TLAPS |
| `GuiFlows` | the renderer's flows, the children they run, tabs, profiles and gauges | state machine |
| `GuiProofs` | invariants of `GuiFlows` | TLAPS |
| `ElectrumCalls` | one process's calls to the Electrum servers | state machine |
| `ElectrumProofs` | invariants of `ElectrumCalls` | TLAPS |
| `Bytes` | byte strings, lengths, numbers, pushes and their readers | operators |
| `TxBytes` | tx-builder's serialisation, preimage and signature; the parsers of transactions and token prefixes | operators |
| `CashAddr` | the addresses of `utils/src/cashaddr.ts` | operators |
| `Covenant` | the opcodes of `pool_hash_fold_v1_1.casm` and the state cell, and the builders of what they read | operators |
| `ShardSpend` | init, import and withdraw down to their bytes, the node's validation, and the covenant's run phase by phase | state machine, composes the four above |
| `WireProofs` | the bytes of `ShardSpend`: what is written is read back, what a command builds is sealed | TLAPS |
| `ShardSpendProofs` | its node: the covenant's machine, the invariants of `ShardSpend` | TLAPS |
| `MCPoolOps`, `MCConfigStore`, `MCGuiFlows`, `MCElectrumCalls`, `MCShardSpend` | instances | TLC |

`PoolOps` and `StealthWallet` take the load and the save of the file as atomic.
`StateFile` is the reason they may, and the limit of it: until two flushes are in
progress at once the file is an `AtomicFile`; from then on it can be torn. A torn
file does not change what the other models say of the state: every later load
throws, so the profile stops until somebody repairs the file by hand (`repair.ts`
is a stub). Loads that overlap a single save are what the state machines
interleave.

`PoolOps` and `StealthWallet` are two views of the same commands. The first keeps
the shards, notes and covenant and takes fee coins as given; the second keeps
coins, keys and records, and a withdrawal there spends the covenant output that is
live. Nothing one view leaves out feeds back into the other: the pool half of the
state does not decide which coin is chosen, and the stealth half does not decide
which shard is spent.

### PoolTx

The chain is the sequence of accepted transactions, so a txid is a position.
A transaction keeps what the properties tell apart: the wallet UTXOs and notes
spent, the shard outputs spent, the payment, the shard outputs made. Hashes are
free constructors: a commitment is the record of what was folded into it, so two
are equal exactly when everything hashed is. `GenesisCommitment` is
`initialShardCommitment32`; `StateOut` is `computePoolStateOut`; a fold records
the byte order (`Mode`) under which the category was hashed, because import tries
several and the covenant knows one. `CovenantAccepts` re-folds the spent cell
under `CovenantMode`. `ImportBuilds`, `WithdrawBuilds` are the dust guards that
throw. Transaction bytes, scripts and signatures are data; signing is
deterministic (RFC 6979), which is why a transaction rebuilt from the same inputs
is the same transaction and `Known` can recognise it.

### PoolOps

| code | here |
|---|---|
| state file | `file`; `EmptyState` when it does not exist |
| a command's copy, `ctx.store` | `mem[p]` |
| where it is | `pc[p]`: `idle`, `send` (awaiting the broadcast), `save` |
| what it built | `job[p].txs`, for import one per category mode, tried in order |
| `runInit`, with and without `--fresh` | `StartInit`, `InitAgain`, `RecordInit` |
| `runDeposit` | `StartDeposit`, `NodeCreatesNote` |
| `stage-from` | `StageFrom` |
| `runImport` | `StartImport`, `NodeFailsScript` (next mode), `RecordImport` |
| `runWithdraw` | `StartWithdraw`, `RecordWithdraw` |
| the node's answer | `NodeAccepts`, `NodeEchoes` (it already had the transaction and says so with its id), `NodeRejects` |
| `saveState` | `Save`: the whole copy replaces the file |
| a timeout, a lost socket, a kill while waiting | `GivesUp`: what was sent stays on `wire` and may arrive later (`ArrivesLate`) |
| a kill after the answer | `Crash` |
| outside payments and spends | `Receive`, `SpendElsewhere` |

Loading, checking and building are one step: they read the private copy, and of
the chain only the prevout of an outpoint, which never changes. `import` does ask
whether the deposit is unspent, but ignores the answer (`import.ts:597`), so the
question is not a step. The operator's wishes are `Want`: a request may be asked
again until a command reports it done, which is how retries enter.

### StateFile

Names point at inodes; a process that holds an inode keeps it when the name moves
on; `OpenTmp` truncates; `WritePart` writes at the process's own offset; `Rename`
moves whatever the temporary name stands for by then. A document is one or more
parts and `Parse` accepts only a whole one. `Exit` may happen between any two
calls.

### StealthTx and StealthWallet

A one-time key is the record of what it was derived from: whose paycode, the key
pair that signs, the anchor outpoint and the index. Payer and receiver agree on a
key exactly when they agree on those, so the model tells every mistaken anchor,
sender or index apart and never a coincidence. A transaction keeps its inputs with
the key that signs each, its outputs, and `near`: the wallets for whose prefix the
server lists it. A sender grinds for the payee's prefix but a prefix also matches
by chance, so `near` is any member of `Bucket`.

| code | here |
|---|---|
| a profile's state file, its `stealthUtxos`, `restoreHints.nextSelfChangeIndex` and deposits | `file[w]`: `utxos` with the outpoint of the first (`head`), `next`, `deposits` |
| `selectFundingUtxo` | `SelectFunding`: base coins, or records of the given owner tag; the larger first |
| `runSend` | `Send`, `SendJob`, then the node's answer and `Patch` |
| `runDeposit`, stealth part | `Deposit`, `DepositJob`: index 0 and 1, the base key, the owner tag `Me` |
| `runWithdraw`, stealth part | `WithdrawExternal` (fee coin, change at the counter), `WithdrawFromShard` (no fee coin, anchored at the covenant input) |
| `recordDerivedChangeUtxo`, `upsertStealthUtxo`, `markStealthSpent` | `Recorded`, `Upsert`, `MarkSpent` |
| `scan --update-state` | `Scan` (candidates and matches, before the file is loaded), `Merge` (a fresh load, the upserts), or `Refuses` (the first record has another owner) |
| `scanRawTxForRpaOutputs` | `Matches`: every P2PKH input as anchor, indices below `MaxRole` |
| a timeout, a kill | `GivesUp`, `Crash`, `ArrivesLate` as in `PoolOps` |

Each command reads the file once and saves its whole copy; `scan` reads the chain
first and the file afterwards, and the two are separate steps because other
commands may finish between them.

### ConfigStore

A wallet is its key; its form is what `wallet init` distinguishes (`full` when
complete, `old` when only `privHex` is there, `odd` otherwise).

| code | here |
|---|---|
| `config.json` | `disk`: whole, torn or absent, and what it says |
| `writeFileSync` in `writeConfig` | `Open` (truncates what the name stands for), `Write` (into what was opened); text of another writer beneath may leave its tail |
| `writeTextAtomic` | `Renamed`: the name moves, so a command's open file is no longer `config.json` (`fd` = `gone`) |
| `wallet init`, cases A, B and C | `InitRefresh`, `InitHydrate`, `InitCreate`, then `NodeAnswers` |
| `--mnemonic` | `Mnemonics`: those the user has beforehand, and those an earlier init printed or stored; otherwise one is generated (`Generates`) |
| `chooseBirthdayHeight` | `Birthdays`: the height of `--birthday-height` (`Flag`), the birthday kept, the tip, the history; the node may fail to answer either question |
| the second read for the summary | `Report` |
| `profile set`, `profile set-network` | `ProfileSet` |
| `getConfig`, `listProfiles`, `setCurrentProfile` | `Handler`, `GuiSeed`, `GuiFinish`: load or replace, reconcile with the directories, save |
| a kill | `Dies`, also with the file truncated |

`clash` and `cut` record that two accesses overlapped, or that a command died with
the file truncated. `KeysKept` holds up to these two, which the code does not
exclude: the app takes a truncated file for a broken one and replaces it by one
without wallets (`main.ts:135-165`). What holds in spite of both is
`BirthdayCovers`. It speaks of wallets whose birthday comes from the node and from
nowhere else: a user who gives `wallet init` a mnemonic again has case C pick the tip
anew, and one who states a height gets that height, in every case (`BornNow`).

### GuiFlows

A click starts a flow, the sequence of the commands it has still to run. `slot` are
the flows in progress; a flow's command is a child that works, exits and is
announced in separate steps, and may be known to the renderer before or after its
exit. `late` are children given up by `Promise.race`: they still run, and still
count in `isRunning`, because only an exit removes them. Programs are per tab what
its handlers run, with and without their optional steps. `Result` is the code after
the `await`: it sets gauges, shows the repair of a failed init and goes on with the
flow. `odd` records the two excuses the properties name: a change no refresh
followed (`unread`) and flows that ran at the same time (`mixed`). The second can
happen because `isRunning` is false between two commands of a flow, and the tab's
own flag is lost when the tab is left.

### ElectrumCalls

Each call opens a connection of its own: `Begin`, `DialFails` over servers and
rounds, `Connected`, then the call's questions (`Questions`) one after the other,
and `Close`. `Lost` and `AnswersError` turn an answer into an error; what a call
makes of it is `Heard`. `callGetUtxosFromScripthash` tries five ways of calling
(`Tries`): two name the network, one names none and asks the default network, two
name the script hash as the network and throw at once. The third is why a script on
another network than the default can come back empty, hence `OnNetwork`. The fee
rate is kept with its age (`cache`), a fallback like an answer.

### Bytes, TxBytes, CashAddr, Covenant, ShardSpend

A byte string is a sequence of atoms: single bytes where code looks at them, and
runs nobody looks into (words, hashes, keys, signatures, the covenant's bytecode)
with their width. Lengths are computed in bytes, so every prefix, slice and depth
is what the code makes it. Hashes and signatures are free constructors: two are
equal exactly when what was hashed or signed is.

`ShardSpend` has a command build a raw transaction from a pool state, coins and an
address as typed (`InitShards`, `ImportDepositToShard`, `WithdrawFromShard`, and
`FoldLimbs` for a caller that folds limbs, which no command does yet). The node
parses the bytes (`NodeReads`), checks signatures, values and token categories
(`Valid`), and runs the covenant's functions one after the other, the loop one limb
at a time. The pool state goes on only from an accepted transaction, and the next
command reads the shard it spends out of the raw bytes. Preimage and outputs are
serialised by two pieces of code in tx-builder (`GetPreimage`, `BuildRawTx`), and
parsed by two (`ParseTx` in rpa-scan, `GetPrevoutScriptAndValue` in electrum); each
is its own definition.

An operator means the payee of one address (`Meant`) and types any of `Typed`. The
module says which slips those may be (`Slip`): one wrong symbol, two neighbours
exchanged, one symbol missing, the network left out or another, an address that is
right on another network (`OtherNetwork`), or one of another kind or length of hash.
What `decodeCashAddrToHash160` and the builder make of each is computed, not assumed
(`Payees`): a 32-byte P2PKH address does decode, and only the builder stops it.

## 3. Runs

| run | instance | shows |
|---|---|---|
| `pool_single` | one process, two shards, two notes, two requests, two pools, one fault, the covenant in the byte order import tries last, fair node | `TypeOK`; `HistoryAppendOnly`: nothing recorded is dropped; `StaleByOneStep`: a stale pointer is owed to an interrupted command and is exactly one transaction behind; `ImportFindsMode`; `CommandsEnd`: no command hangs |
| `pool_retry` | one process, the same payment wanted twice, two faults, a node that answers a known transaction with its id, an operator who retries | `PaidOncePerRequest`, `ReportedArePaid`; `WithdrawalsComplete`: every withdrawal is in the end reported |
| `pool_pair` | two processes, one fault | `StateFaithful`, `UniqueThread`, `RecordsTruthful`, `ValueAccounting`; the chain implements `PoolLedger` |
| `file_race` | two stores that both read and write, four inodes, documents of one part and of two | `TornOnlyByOverlap`, `FailsOnlyByOverlap`; implements `AtomicFile` until two saves clash |
| `stealth_one` | one command at a time, every command and way to scan, a chain of up to four transactions, one fault | `RecordsFaithful`, `SpentTrue`; `NothingLost`: a scan of its transaction finds every one-time coin; `NeverForgets`: no save drops a record, a marker or an index |
| `stealth_pair` | two commands of one profile, two base coins, one fault | `OneTimeKeys`: two transactions never pay to one key, though the counter is lost or read twice |
| `stealth_inbox` | a payer and a receiver who send, deposit, withdraw and scan, one command each at a time, one fault, fair scans | implements `Inbox` for both (`InboxKept`); `InboxRead`: in the end all that a prefix shows is on record, or scan refuses the file |
| `config` | two commands and the app, two profiles, two keys, whose mnemonics may be given to init again, a birthday that may be stated, three starts, one death; an empty installation, an old wallet, one of unknown form | `KeysKept`: a wallet the user was shown stays until overwritten by `--force`; `SummaryTrue`: the mnemonic and the address printed together belong together; `BirthdayCovers`: a birthday that only the node gave never lies above the first payment |
| `gui` | two profiles, one gauge, two flows at a time, two clicks from one rest to the next, one command given up | `OneWriter`, `GaugesOwn`, `GaugesFresh`, `PaysOnce`; `ControlsComeBack` |
| `electrum` | two servers, two rounds of connects, two errors or losses, a history of three transactions, a fee that moves | `OneSocket`, `BroadcastOnce`, `UnspentTrue`, `FeeEnough`; `CallsEnd` |
| `shard_spend` | two shards, three transactions, four widths of the covenant, three rows of limbs, an address with every wrong symbol, exchange and omission | `NodeAgrees`: the node accepts exactly the spends with the category as it is and at most 63 limbs; `StackContract`: the stacks between the covenant's functions are those of its comments; `ReadBack`; `PaysTheAddress` |
| `stealth_withdraw_found` | one command at a time, no fault | **violated**: `WithdrawDiscoverable`, against the spec, line 261 |

The violated run is a disagreement between the code and what the repository says
of it, quoted under `findings`.

`pool_retry` has a node that answers a transaction it knows with its id. With one
that refuses it, `WithdrawalsComplete` fails: no command refreshes a pointer, and
every retry builds the spend that was already made (`withdraw.ts:180`), where the
spec, line 275, has chain checks reconcile stale state.

`NothingLost` names two exceptions the code makes: an output at an index the scan
does not reach, and a deposit or withdrawal whose derivation uses the wallet's base
key although another key, or none, signs the anchor. `stealth_withdraw_found` shows
the second is not empty. Every other one-time coin survives any death.

`KeysKept` and `SummaryTrue` excuse two overlapping accesses of `config.json` and a
command that died with the file truncated. For `SummaryTrue` the second excuse is
needed from four starts on: a wallet is made and its command about to read it back,
another command dies truncating, the app repairs the file and a third makes a new
wallet, which the first then prints with its own mnemonic. The run has three starts;
the attempt to prove the property without the excuse showed the fourth.

Other disagreements met while modelling, which no run repeats:

* `markStealthRecordSpent` (`ops/send.ts:31`) looks under `data.pool.state` of what
  is already the pool state and marks nothing, where `ops/send.ts:3` says it does.
* `runDeposit` records stealth change under the owner `me` (`deposit.ts:49`). When that
  is a profile's first record, the next scan takes the file for another's and refuses
  (`scan.ts:683`), and so does every later one, where the spec, line 360, has scan add
  what it found. `InboxRead` excepts this file (`Foreign`) and shows that nothing else
  keeps a payment off the record for good; without the exception TLC refutes it in
  `stealth_inbox`.
* `wallet init --mnemonic` with a mnemonic of an earlier init, the way back for a user
  whose wallet was lost from `config.json`, picks the tip as the birthday: scans then
  start above the payments the wallet has. The comment at `wallet/init.ts:423` speaks of
  a brand-new wallet without history. `BirthdayCovers` is about wallets whose
  mnemonic nobody gave to init.
* A stated `--birthday-height 0` is stored, and read as no birthday: the next
  `wallet init` picks the tip.
* Two commands of one profile at once: the later save drops what the earlier one
  recorded, where `pool_state_schema.md:30` calls the lists append-only.
  `HistoryAppendOnly` and `NeverForgets` hold because their runs have one command
  per profile.
* The spec, line 271, has pointers refer to unspent outputs; after a lost answer
  they are one transaction behind (`StaleByOneStep` says that this is all).
* The spec, line 182, has `stage-from` take unspent outputs only; it does not ask.
* A first `send` to one's own paycode pays at index 0 and takes its change at index
  0 of the same anchor: both outputs have one key (the spec, line 371, wants keys
  used once). `OneTimeKeys` is therefore about different transactions.
* `change.ts:5` calls the change index monotonic; two concurrent saves put it back.
* `computePoolStateOut` folds the reversed category by default
  (`pool_hash_fold_ops.ts:74`) while the covenant takes it as it is and the commands
  ask for that: the default alone builds spends the node refuses (`NodeAgrees`).
* The covenant's bound of 64 counts the note hash: 63 limbs, where a comment beside
  it speaks of tests with up to 64.
* `splitTokenPrefix` (`tx.ts:61`) finds no prefix in front of a covenant's locking
  script. `signCovenantInput` uses it; the pool's commands do not.
* `withdraw` checks an address against the network, `send` (`commands/send.ts:102`)
  does not.
* The init, import and withdraw tabs report success without looking at the exit code
  (`PoolImport.tsx:380`, `431`, `PoolWithdraw.tsx:278`, `353`).
* `withdraw-check --broadcast` records no withdrawal (`pool-withdraw-check.ts:374`),
  so a payment made there is unknown to the pool state.
* A wallet made off-line gets its birthday from the tip at the next `wallet init`,
  which may be after its first payment; `BirthdayCovers` speaks of wallets made with
  the node's answer.
* Nothing calls `killBchctl`: a command the app has given up cannot be stopped there.

### Bounds

`MaxTx` bounds the chain by stopping commands from starting, never a command
under way; with two notes, two requests and two pools it is not reached except by
repetition. `MaxInit` allows a second pool where `--fresh` is the question.
`MaxFaults` is one or two: each fault leaves one pointer behind, and two faults
are enough for a retry of a retry. Two shards suffice for a wrong index, a fork or
a swapped record to show. The amounts are the code's own (`SHARD_VALUE` 100,000,
`DEFAULT_FEE` 2,000, dust 546 and 1,100): a shard serves one of the two requests
and not both, a small note *shrinks* its shard, and a large one enables what was
refused. Two processes give every interleaving of two copies; the proofs cover
more. In `pool_pair` processes and funding coins are interchangeable, which
`ActorSymmetry` uses; no property of that run is a liveness property. In
`StateFile` a document of one part and one of two are the least that let one
writer's leftovers show behind another's text; four inodes let both temporaries,
the file and one open reader differ.

In `StealthWallet` a payment is 2, fee, dust and deposit margin 1, and the coins
are 9 or 5: one coin covers a payment whose change covers another, and then
nothing, so change above dust, change below it and a command that cannot be funded
all occur. `MaxRole` is 2 rather than the configured value, so that the counter
outgrows it. `MaxTx` stops new commands once the chain has that many transactions,
the first one included. `Bucket` decides whether prefixes matter: not where scans
are by txid or of everything; in `stealth_inbox` a transaction is listed for the one
profile or for the other, so that each sees some and misses some.

`config`: a margin of one block and a tip of four tell a kept birthday from a new one,
before and after a payment; the height stated is 0, the one height that is not kept.
Three starts are two commands and a handler, or three commands in a row (create, use,
refresh; create, lose, create again). `gui`: with two slots every pair of
flows overlaps; one gauge stands for the four, which differ only in what they read;
clicks and time limits are counted from one rest to the next, so that histories are
unbounded. `electrum`: two rounds over two servers have a first, a middle and a last
connect; two errors let two tries of one call fail. `shard_spend`: one withdrawal or
import after init, and one after that, suffice to spend what a spend made; the
widths put a locking script at 252, 253, 65535 and 65536 bytes and the limbs a push
at 75, 76, 255 and 256, where prefixes change form. The coin that pays the fee (1,000)
is too small (999), leaves change below dust (1,200) or change (5,000).

### Fairness

`Fairness`: the node answers a connected client (its broadcast request returns
something), and a command with its answer runs on to its save. Both are weak: the
step stays possible until taken. Deaths are not excluded, only bounded.
`Retried` adds the operator: import and withdraw are re-run as long as they keep
being possible. It is strong because each attempt makes the start impossible for a
while. `StealthWallet`'s `FairSpec` is the same for a command with its state, its
answer or its save, adds that blocks are found, and that each profile scans its own
prefix again and again; that is strong fairness because its other commands keep
making the start of a scan impossible. No fairness is assumed of late arrivals, of
outside events or of the other commands. `GuiFlows` and `ElectrumCalls` have weak fairness of their own steps
(`System`, `Program`): children end because every wait of theirs is bounded, each
wait for a socket or an answer has a timer, and the event loop handles what arrives.
A node may stay silent: then the timer's step is the one taken. Users, time limits
of the app, blocks and payments are free.

## 4. Proofs

All hold for every value of the constants: every number of shards, processes, notes
and requests, every amount and byte order, every number of profiles, wallets,
servers, flows, rounds and faults. The assumptions are the typing assumptions of the
constants and, for `ShardSpend`, that what is written fits its field, that the address
meant is a 20-byte P2PKH one and what is typed is one of the slips named
(`AddressAssumption`), and that the checksum starts in another state on another network
(`NetworkAssumption`, which TLC computes for the networks of the code). Some theorems have
a hypothesis of their own:

* `Alone`, at most one process of `PoolOps` (it may run any number of commands, one
  after the other), for `HistoryAppendOnly`, `StaleByOneStep` and `ReportedArePaid`;
* `OnePerProfile`, at most one process of `StealthWallet` on each profile, for
  `NeverForgets` and `InboxKept`.

Nothing in `bchctl` enforces either; the app keeps to them (`OneWriter`) and a
second terminal need not. Without them the later save drops what the earlier one
recorded, and each of their properties is false. The other theorems hold of any number
of commands at once.

**Pool commands** (`PoolOpsProofs`)

* `TypeCorrect`, `PointersNeverFalse` (`StateFaithful`) and `HistoryNeverFalse`
  (`RecordsTruthful`). `StateFaithful` is not inductive: the node's answer makes a
  copy out of a transaction, so the invariant `IInv` also says that a transaction
  awaiting an answer was built from its process's own copy (`BuiltFrom`), for the
  shard and the category of that copy, and that each copy is true of the chain in
  all three respects (`Good`). `GoodStays` carries this over any growth of the chain;
  `RecordGood` over the patch; the rest is one lemma per action. Neither the covenant
  nor the node's checks are used: a pointer stays true because the code patches it
  with what it built.
* `NoShardForksOrIsLost` (`UniqueThread`) and `ChainIsALedger` (`ImplementsLedger`).
  Here the covenant and the node are all that is used: the commands are only asked
  whether what may reach the node was made by a builder from outputs of this chain
  (`Pending`). `LInv` adds that every shard has a tip, the last transaction that
  touches it, whose output is the shard's only unspent one (`Threads`). An accepted
  transaction either opens a pool no other has opened or spends one live output and
  makes one, of the same shard (`AcceptedIs`); the first is the ledger's step that
  creates a pool, the second its payment or its absorption of a note.
* `SatoshisAreConserved` (`ValueAccounting`), from the same invariant and what it says of
  an accepted transaction. `Balanced` is the equation, of any chain: a spend replaces one
  live output by one of the same shard (`SpendKeepsBalance`), an init adds one for each
  shard and the pool's funding (`InitKeepsBalance`). The sums are folds over sets; what
  adding one element to the set does to its sum, whichever element the fold takes first
  (`SumAdds`), is proved there.
* `ImportMeetsCovenant` (`ImportFindsMode`). `JInv` says of a command that waits
  what it has sent and what it has left to try.
* `HistoryGrows` (`HistoryAppendOnly`), with `Alone`. `HInv`: a copy awaiting the node
  is the file, and one about to be saved extends it.
* `PointersLagByOne` (`StaleByOneStep`), with `Alone`. The count of stale pointers alone
  is not kept by a fault: a transaction still on its way makes another one stale when
  it arrives. `OInv` counts both, the pointers that are stale and those that something
  on the wire may yet spend; `WInv` says that a stored pointer is live, or spent by a
  transaction whose own output is live and which nothing on the wire spends (`Current`).
* `ReportsArePaid` (`ReportedArePaid`), with `Alone`. `PInv` counts, for each payment,
  the requests reported done against the payments on the chain that the file's pointers
  have left behind; an echo is a payment they had not.
* `RequestsPaidOnce` (`PaidOncePerRequest`), for any number of commands at once.
  `RqInv` counts along each shard's line of commitments: a copy stands at one point of
  it, the payments up to there are requests already done, and a retry builds a spend of
  that point, which the node takes once.

**State file** (`StateFileProofs`)

* `FileIsWhole` (`TornOnlyByOverlap`) and `LoneFlushSucceeds` (`FailsOnlyByOverlap`).
  `SInv` adds that a process that writes owns the temporary (`FlushOwnsTmp`), has
  written exactly its first parts (`FlushOfDoc`), is alone (`OneFlush`), and that the
  file and the temporary are different inodes (`FileApart`).
* `StoreIsAtomic` (`ImplementsAtomicFile`). `RInv` adds that no reader has the temporary
  open, so that what it read when it opened the file is what it will parse: a load takes
  effect when it opens, a save when it renames.

**Stealth wallet** (`StealthProofs`)

* `RecordsAlwaysFaithful` (`RecordsFaithful`) and `MarkersAlwaysTrue` (`SpentTrue`).
  Neither speaks of a command that waits for the node, so `WInv` adds that what such
  a command will record are outputs of its transaction with contexts that derive
  their keys, that what it will mark are its transaction's inputs (`Prepared`, one
  lemma per command), and that what a scan found is on the chain (`Seen`). What is
  true of a chain stays true of a longer one (`SoundGrows`, `SeenGrows`); a patch or
  a merge keeps a copy sound (`PatchSound`, `MergeSound`).
* `KeysAreUsedOnce` (`OneTimeKeys`) and `CoinsAreNotLost` (`NothingLost`). `KInv`: every
  transaction, on the chain, on the wire or about to be sent, derives its one-time keys
  with one of its own inputs as the anchor (`Derived`, one lemma per command), of a send
  with the key that signs that input; and no two transactions on the chain spend the
  same output. The counter of change indices plays no part, which is why its loss does
  no harm.
* `RecordsAreKept` (`NeverForgets`) and `InboxIsKept` (`InboxKept`), with
  `OnePerProfile`. `EInv`: a copy that will be saved has every record, marker and index
  the file has (`Keeps`). `ShownGrows` adds that what a scan finds in a block does not
  depend on later transactions, so a step only ever shows more.

**Configuration** (`ConfigProofs`)

* `WalletsAreKept` (`KeysKept`) and `SummariesAreTrue` (`SummaryTrue`) from `CInv`: until
  two accesses overlap or one is cut, a command's copy keeps, profile by profile, every
  key of the file that `--force` did not give up (`Steady`), so a command about to print
  finds the wallet it made, or that wallet was given up (`Told`).
* `BirthdaysCover` (`BirthdayCovers`) from `Covering`, which says the same of every entry
  in any file, copy or inode, and so needs no excuse for overlaps and deaths. It has to
  follow how each key came by its birthday (`born`): once its mnemonic is given to init
  again, or a height is stated for it, nothing is claimed of that key any more.
  `ConfigTyped` is the type invariant both rest on.

**Application** (`GuiProofs`)

* `ClickPaysOnce` (`PaysOnce`), `OneWriterAtATime` (`OneWriter`), `GaugesShowActive`
  (`GaugesOwn`) and `GaugesUpToDate` (`GaugesFresh`), all from `GInv` (`FlowsKept`). Each
  is about commands that run or about rest, and what keeps it is in the programs still
  to run: a payment is the first command left, or the second after a check, and after a
  change every gauge is still to be read (`Form`); of the flows in progress at most one
  does more than list (`OneActs`); a gauge that shows another profile or is out of date
  has its read still to come (`Own`, `Fresh`).

**Electrum calls** (`ElectrumProofs`)

* `SocketsAreClosed` (`OneSocket`), `SentOnce` (`BroadcastOnce`), `UnspentIsUnspent`
  (`UnspentTrue`) and `RateIsEnough` (`FeeEnough`). The properties speak of calls that
  have ended; `EInv` adds what a call in progress has learned: which of its questions
  are left (`Asking`), that a transaction has been sent only by the question that sends
  it, which no retry repeats (`Sending`), that the scan of a history has not passed the
  spend it has yet to meet (`Looking`), and that the rate in hand and the rate kept bound
  what the nodes ask (`Rating`). One lemma per action; `EInvariant` is the induction.

**Bytes and covenant** (`WireProofs`, `ShardSpendProofs`)

For any number of shards, limbs of any number and length, any length of the covenant's
code and any amounts, as long as what is written fits its field (the assumptions say
which sums stay below 2^31, the range of the integers in the model).

* `ParseTxIs`, `UnlockingIs`, `MinimalIs`: each reader undoes its writer. `At(s, rest)`,
  a reader with `rest` still to read, carries a read through the fields one by one; the
  loops over inputs, outputs and pushes keep the items read so far and the string left.
* `SealedIsValid`: the builders hand over `Orderly` coins and outputs, what `Submit` makes
  of them is `Sealed`, that is, serialised from a transaction that fits, each input
  signed over its own digest, the shard's pointer to be saved true of the chain with this
  transaction; and such a transaction is `Valid`.
* `PoolIsSealed`: the inductive invariant `Inv`. `PoolInv` says the pool state points at
  locks of the covenant that hold what the next builder relies on, `BuiltInv` that what is
  built is sealed, `MachineInv` what the node's machine holds at each stage. The last is
  proved opcode by opcode (`On...`), then for the straight pieces of a program, the
  programs, and the stages: between two rounds of the loop the main stack has the limbs
  not taken and the other the accumulator of those taken (`AtFold`). A spend is refused in
  one of two places, by the depth check with more than 63 limbs (`PreHashStops`) or by the
  comparison of commitments with the category reversed (`AssertStops`); that the two
  commitments do differ is `ModesApart`, where hashes are free constructors, so that no
  category is its own reverse.
* `BuildersAndCovenantAgree` (`NodeAgrees`), `StacksOfTheCovenant` (`StackContract`) and
  `WireIsReadBack` (`ReadBack`) follow from `Inv` and these.
* `OnlyThePayeeIsPaid` (`PaysTheAddress`): whatever slip is typed, a withdrawal pays the
  payee meant, the wallet and the pool and no other key. `SlipsDecode` goes through the
  slips; from a hash of 20 bytes to the output on the chain nothing else is paid. The
  checksum's part is `OneSlipIsSeen`, for rows of any length and any network: a register
  of eight symbols is shifted by each symbol of the row, and what is shifted out comes back
  through five generators whose last symbols are 1, 2, 4, 8 and 16. So the symbol shifted out
  stands, as it is, in the last place of what is added (`FeedbackIs`), two registers that
  differ still differ after a round with the same symbol (`RoundKeepsApart`), and two equal
  registers part on unequal symbols (`RoundTellsApart`). Two rows that differ in one symbol therefore end
  in different registers, of which one is the valid one. For an exchange the two registers
  are compared after both symbols. A row with a symbol missing is refused for its number of
  bits (`ShortIsRefused`), one of another network for the start of its register
  (`OneNetworkOnly`), a hash of 32 bytes by the builder alone. More than one slip is not
  claimed: forty bits of checksum cannot exclude it.

`Inv` quantifies over strings without bound, so TLC cannot evaluate it; the run checks
the four properties instead. In proving it two tacit bounds of the model came to light:
a caller of pool-hash-fold must leave its shard the dust value (now a guard of
`FoldLimbs`), and counts, widths and sums must fit the fields that carry them (now
`ByteAssumption`, `LimbAssumption` and `AmountAssumption`).

**Recursion.** The library's induction theorems take an operator as a parameter and cannot
be used. The recursion of the models is in folds, and a fold is a recursive function on an
interval or on the subsets of a finite set. Two functions that start alike and step alike
agree everywhere, because the set of arguments where they do not has no least element
(`LeastNatural` with `SameTrace`, `SmallestSet`); so a lemma about a fold names the trace
of its intermediate results and checks one step.

Model-checked only:

* liveness (`CommandsEnd`, `WithdrawalsComplete`, `InboxRead`, `ControlsComeBack`,
  `CallsEnd`), which is beyond the prover;
* that checksums start in different states on the networks of the code
  (`NetworkAssumption`), which TLC computes.

## 5. Not modelled

* Power failure: `flush` does not fsync. The models have processes die, not the
  machine.
* A withdrawal without `--shard` may, when retried after a lost answer, pick
  another shard and pay again. The code does not prevent it and no document denies
  it; `PaidOncePerRequest` leaves such requests out.
* The arithmetic of elliptic curves, hashes, Schnorr and RFC 6979. Of transaction
  bytes: P2SH and data outputs, signatures of covenant inputs, fee grinding, base58
  and paycodes; the prefix of a fungible amount is defined, but no run has one.
* In `StealthWallet`: the funding of `init`, the start of a scan window and its
  chunks, token and confirmation filters of funding, `--dry-run`, the chance that
  a grind finds its prefix, and how import spends a deposit on a one-time key.
* `pool-withdraw-check` as a program: it simulates the covenant with a library
  and compares. It appears only as a command of the GUI that may broadcast and fail.
* In `ConfigStore`: the derivation of keys from a mnemonic, wallet files outside `config.json`, and what the app does at its launch with
  `--profile`, which is `setCurrentProfile`.
* In `GuiFlows`: layout, logs, the trail of past commands, and what forms validate.
* In `ElectrumCalls`: the header subscription and the shuffle of the servers, which
  only renames them.
* The migration of old state files (`legacy.ts`), which nothing calls, the demo
  scripts, the presentation in the GUI, and covenants no command uses.

## 6. Plan

1. `PoolTx`, `PoolOps`, `PoolLedger`, `StateFile`, `AtomicFile` with their proofs (done).
2. `StealthTx`, `StealthWallet`, `Inbox` with their proofs (done).
3. The covenant's code and the bytes around it (done: `Covenant`, `ShardSpend`); the
   off-chain check of `pool-withdraw-check.ts` is left.
4. The Electrum client, the GUI's flows, `config.json` (done).
5. Pure parts over bounded inputs: token prefixes, pushes, script numbers and
   addresses (done); the chunks of a scan window and the migration of old state files
   are left.
6. Proofs: the safety of `PoolOps`, `StateFile`, `StealthWallet`, `ConfigStore`,
   `GuiFlows`, `ElectrumCalls` and `ShardSpend`, the three refinements, and
   the slips the CashAddr checksum sees (done).
