# A TLA+ model of evm-tests

evm-tests runs small EVM programs ("cases") against a chain under test, over
JSON-RPC, and compares what the chain did with what each case expects. The cases
are derived from upstream test sources and kept in manifests. This directory
holds TLA+ modules that model the parts of the harness whose correctness depends
on more than one step: calls over a network that fails, transactions on a chain
that other clients use, files that several commands read and write, and programs
whose effect is predicted by other code than the code that assembles them. TLC checks the
modules on small instances, and TLAPS proves the central theorems for all values of
the constants.

All paths below are relative to the root of the repository.

## Inventory

| Component | State it keeps | Operations | Modelled by |
|---|---|---|---|
| JSON-RPC transport, `JsonRpcBackend._rpc` (`adapter/executor.py:1476-1544`) | request id, attempt, open connection | one blocking call of at most three HTTP attempts | `RpcTransport`, `RemoteCall` |
| Case execution, `JsonRpcBackend.execute_case` (`adapter/executor.py:1018-1415, 1463-1474`) | transaction hashes, last receipt, `$last_contract`, captured balances, observed error | deploy, invoke, transfer, raw submission, `rpc_call`, `wait_receipt`, observation | `JsonRpcExecution` on `ChainNode` |
| Run loop, `adapter/cli.py:314-414` | results, the decisions of the selector | select, execute each case, classify exceptions, write the report | `JsonRpcExecution` (loop), `ReportCampaign` (report) |
| Report campaigns, `Makefile:32-83`, `adapter/report.py`, `scripts/assert_report_success.py`, `scripts/summarize_rpc_reports.py` | the files of a report directory | `rpc-all`, `rpc-subset`, write report and evidence, judge, sum | `ReportCampaign` |
| Namespace registry, `adapter/bootstrap.py` | `namespaces.json` of a state directory | get or create a namespace | `NamespaceRegistry` |
| Artifact sync, `Makefile:85-93`, `scripts/sync_upstream_artifacts.py` | templates, inventories and manifests in the tree, a staging directory | generate, validate, copy, run the regression | `SyncArtifacts` |
| Mock backend, `MockBackend` of `adapter/executor.py:126-1006` | accounts by namespace, last receipt, block context | computes what a case would leave behind, in process | `MockBackend` |
| Result oracle, `adapter/oracle.py` | none | resolve placeholders, canonicalize, compare trees | `ResultOracle`, `SystemWitness` |
| Selection, `adapter/selector.py` | none | decide which cases run on a profile | `Selection` |
| Validation, `adapter/models.py`, `adapter/manifest.py` | none | reject malformed manifests before anything runs | not modelled |
| Gas floor, `adapter/executor.py:1417-1448` | none | intrinsic cost and data floor of a transaction | `GasFloor` |
| Signing, `adapter/signer.py` | none | RLP, ECDSA, addresses, authorizations | `TransactionSigning` |
| Case generators, `adapter/generator.py`, `adapter/assembler.py` and the `*_generator.py` of the families arithmetic, comparison, bitwise, stack, control flow, memory, keccak, account query, log, call context | none | derive the expected words, assemble runtime and init code, write a case | `GeneratedCase`, `Assembler`, `WordSimulation`, `SimulatedMemory`, `WordPrograms`, `ControlFlowPrograms`, `MemoryPrograms`, `DigestPrograms`, `LogPrograms`, `StoragePrograms`, on the machine `Evm` |
| Context, precompile and system generators (`adapter/block_context_generator.py`, `tx_context_generator.py`, `system_generator.py`, `system_witness.py`, `precompile_generator.py`, `log_probe.py`) | none | the same, with nested calls, creations, self-destruction | `ContextPrograms`, `PrecompilePrograms`, `SystemPrograms`, `SystemWitness` |
| Hand-written manifests (in `suites/manifests/`: `juchain_smoke`, `juchain_deploy_smoke`, `juchain_storage_smoke`, `custom_tx_admission_smoke`, `custom_eip7702_smoke`) | none | a transfer, a deployment, a stored word, a raw transaction to be rejected, an authorization | `CustomCases` |
| The other manifests not generated (`custom_storage_smoke`, `upstream_smoke`, `debug_log_*`) | none | storage and balances set directly, which only the mock backend can; experiments with generated log cases | not modelled |
| Scanners and inventories (the regular expressions of the `scan_*` functions, `adapter/inventory.py`) | none | read upstream test sources | not modelled; what the scanners admit and block is |
| Profile and environment (`adapter/profile.py`, `adapter/env.py`) | none after start | read TOML and `.env` | not modelled |
| Tests and debugging scripts | | | not modelled |

How they interact. `make rpc-all` starts one `adapter.cli run` per family. A run loads
a profile and a manifest, selects cases, and for each of them asks the namespace
registry for a namespace and then executes the case. The executor makes every
observation through `_rpc`, one call at a time; nothing in the harness is concurrent
with itself. What is concurrent is everything around it: the node handles requests
whenever it likes, also those the client gave up on; replicas of the node lag;
transactions are mined later and in batches; other clients share the admin account; and
several runs share a state directory and a report directory. When the run is over,
`write_report` writes a report, a script judges it, and at the end of the target another
script sums what it finds in the report directory.

What is hard, and where it bites, is listed under `hazards` in `PROJECT.json`: retries of
submissions, late answers, stale nonces and lagging reads, a balance captured long before
it is used, uncaught exceptions that leave yesterday's report in place, torn files, the
unlocked registry, copies interrupted halfway, byte positions, stack depths and memory sizes counted
by hand, recovery ids, gas floors, and a second backend that must agree with the first.

What makes each component correct:

* transport: a raw transaction leaves the client once per call; an answer is the answer to
  the attempt that waits for it; two failures do not fail a call that may be repeated; every
  call ends;
* execution: no step takes effect twice; a passed case is true (its receipts are on the
  chain, its storage and its block context are those of the receipt's block, its rejection is real, its calls went
  to its own contract); trouble of the network or of lagging replicas is reported as an
  error and never as a mismatch; the run ends;
* campaigns: exit code 0 rests on this run's reports only; interrupts do no lasting harm; a gap
  in the coverage shows, or a stray report hides it, one for each gap;
* registry: nothing is lost and nothing fails unless two runs write at once or one is killed
  while it writes;
* generators and oracle: what a case expects is what its program does on a correct chain that has
  the features the selector asks for, and a case gated by a feature fails without it;
* mock backend: it passes every generated case, and leaves the storage the chain leaves;
* gas floor and signing: no node refuses a transaction of an honest case, whatever the signature
  drew; an authorization takes effect;
* sync: failed generation changes nothing; one complete copy repairs whatever interrupts left.

## Modules

**`RemoteCall`** is the abstract contract of one remote call: calls are made one after
another, the node applies a raw transaction at most once per call and any other request at
most once per attempt, possibly after the call is over, and a call reports an answer only if
its request was applied.

**`RpcTransport`** is `_rpc`. `rpc` holds its locals (`phase`, `attempt`, `method`, the
outcome it returns or raises), `wire` the requests that left and are not handled yet,
`handled` the effectful ones that were. `Send` is `urlopen` up to the point where the
request is out; `ConnectFails` is `URLError`, `ReadTimeout` is `TimeoutError` or
`socket.timeout`, `BadResponse` stands for the error statuses and unusable bodies that become
`RuntimeError`, `ConnectionReset` for the exceptions no handler takes. `Handle` is the node,
which may act on abandoned requests. The retry conditions are `RetriesTimeout` (not for raw
transactions) and `RetriesConnect`. An abandoned request whose handling has no effect is
forgotten, because nothing can tell the difference. `ImplementsRemoteCall` is the refinement:
`applied` is what was handled, `verdict` is open, answered or unknown.

**`ChainNode`** is the chain, which is not part of the repository: a pool, a sequence of
executed transactions with block numbers, and reads at the height of some replica. It is the
environment the harness is written for: nonces are executed in order, a pool refuses
duplicates and stale nonces, receipts appear when a replica has the block. A transaction's
hash is the transaction. A contract counts its successful calls, so that storage shows how
often a transaction took effect.

**`JsonRpcExecution`** is `execute_case` in the loop of `cli.py`. It contains
`RpcTransport` (INSTANCE `Rpc`) and extends `ChainNode`. `frame` holds the locals of
`execute_case` and the place where the code is (`stage`); each action runs the code from one
`_rpc` call to the next. `BeginSubmit`, `GotBalanceBefore`, `GotNonce`, `GotHash` and
`GotRejection` are the steps that send transactions, including `_prepare_transaction`;
`BeginWait`, `Poll`, `NoReceipt`, `DeadlinePasses`, `GotReceipt` and `GotBlock` are
`wait_receipt` with `_wait_for_receipt` and `_load_block_context`; `Observe`, `GotBalance`,
`GotStorage` and `HeaderLags` are `_observe` and the comparison; `CallFails` and `RunAborts`
are the exception paths of the loop. Expected values are a storage word, a balance and an error.

**`ReportCampaign`** models the two targets that run manifests, at the level of the files
they leave: `absent`, `torn`, a report or a summary, with the target that wrote it.

**`NamespaceRegistry`** models several runs on one `namespaces.json`, with the truncating
open and the write as two steps. A profile is its name, its prefix and whether its namespaces are
`always_new`; that makes the key of a record (`NamespaceForSeed`), and runs of profiles that share a
prefix share records. `disturbed` records whether two runs were writing at once, or one was killed
at it: from reading a registry that lacks its record to the end of the write.

**`SyncArtifacts`** models `sync-upstream`: one or two runs of the script, each family
generated in turn, each file copied on its own, then the regression and the exit code. `interrupted`
is set when a target is interrupted while it copies, and reset when one has copied everything.

The generators. A case is data: transfers, a deployment, invocations, what to observe, what to
expect. **`Evm`** executes one on a chain that does nothing else: the next transaction is prepared
and signed as the backend does it (`Prepared`, `Authorizations`, `SendRawTransaction`), the node
decodes the bytes and takes or refuses it (`Submit`), and its code runs byte by byte: stack, memory,
storage, warm slots, gas, logs, nested calls and creations, self-destruction, delegations,
precompiled contracts, and every way to fail. It is the chain's machine and outside the repository,
like **`Words`**, the definition of the word instructions. **`GeneratedCase`** is the shape of a case
(`build_case` and its steps), **`Assembler`** the push literals, the init code and the label
builder, **`WordSimulation`** the Python arithmetic of `_simulate_math`, `_simulate_comparison` and
`_simulate_bitwise`, **`SimulatedMemory`** the memory on which `_MemoryState` replays a program.
One module per group of families has the runtimes, their expectations and probes:
**`WordPrograms`** (one instruction on literals, DUP and SWAP depths, the shift and CLZ witnesses),
**`ControlFlowPrograms`**, **`MemoryPrograms`** (access, MSIZE, MCOPY), **`DigestPrograms`** (keccak
and CODECOPY), **`LogPrograms`** (fill loops, topics, windows), **`StoragePrograms`** (storage and
call context), **`ContextPrograms`** (block and transaction context, balances, code size),
**`PrecompilePrograms`** (vectors and gas stipends), **`SystemPrograms`** with **`SystemWitness`**
(returns and reverts, creations, collisions, self-destruction, and the witness declared, observed
and compared), **`CustomCases`** (the hand-written manifests).

Between a case and a verdict: **`Selection`** is the selector's feature gates, **`GasFloor`** the
gas a transaction is sent with, **`TransactionSigning`** the signer and, external, the node's
decoder; every nonce ECDSA may draw gives one of the signatures, and all of them must come out as
the sender's. **`ResultOracle`** is `compare`: placeholders, expectations derived again from what was
observed, logs by content or digest. **`MockBackend`** is the backend without a chain, which rebuilds
the program of a probe, or takes the byte code of a return or revert apart, and writes what it
expects into storage. **`GeneratedPrograms`** puts the cases on the machine, and adds what the runner
observes (`Observed` is `_observe`, `Context` the placeholders) and the `Verdict`.

`MC*.tla` give the constants their values for TLC, and `*_proofs.tla` hold the theorems about the
module they are named after (of `JsonRpcExecution` also `JsonRpcResults_proofs`, about what is
reported, and `JsonRpcExpectations_proofs`, about what a right expectation can come to).

## Runs

| Run | What it shows | Bounds |
|---|---|---|
| `rpc_transport` | types, `RawSentOnce`, `AnswerIsGenuine`, `TwoFailuresAreSurvived`, the contract `RemoteCall`, and that every call returns | two calls of any three methods, six failures: all attempts of both can fail in every mixture, and late handling of the first call overlaps the second |
| `case_execution` | `NoDoubleExecution`, `PassedCasesRan`, `StorageIsOfReceiptBlock`, `ContextIsOfReceiptBlock`, `CallsOwnContract`, `NoFalseMismatch` | three cases (the usual shape of the manifests, which waits for two receipts with the context of each, one that invokes before it waits, one that expects only a receipt); two failures of every kind, one dropped transaction, executions that fail, replicas one block behind, two polls |
| `submissions` | `RejectionIsReal`, `MismatchOnlyFromForeignTransfer` | locally signed; two cases that expect a refusal from a node that may not refuse, two balance cases, one foreign transfer, no lag, two failures |
| `run_ends` | `RunEnds` | one case; enough failures (50) for every attempt to fail, so that nothing is owed to the network |
| `report_campaign` | `CleanExitIsFresh`, `CleanExitHasEvidence`, `CleanJobSucceeds`, `AlignedGapsAreStrays` | three targets in a row, two families and a manifest of its own: what one leaves, a second one meets after a third tore it |
| `subset_then_all` | the violation described below | two targets, nothing fails |
| `namespace_registry` | `AbortHasCause`, `RecordsKept` | three runs that may overlap and be killed anywhere, of two profiles with one prefix, one of them with namespaces of its own; three namespaces asked for, two of them equal |
| `sync_artifacts` | `FailureLeavesArtifacts`, `CompleteCopyRepairs`, `CheckOnlyChangesNothing` | two families, two revisions, three targets |
| `sync_status` | the violation described below | one target |
| `generated_programs` | `WitnessHolds`, `WitnessTellsFeature`, `NeverRefused`, `AuthorizationsTakeEffect`, `DeploysWhatItDeclares`, `EveryCasePassesInMock`, `MockAgreesWithChain` | 1849 cases on a chain with every feature and one with none; words of three bytes, so that sizes and literals that the source scales with the word (32, the 7 of `GAS % 7`) are 3 and 2; memory of 450 bytes; sizes and offsets on both sides of a word, seeds on both sides of the unrolled and the exact limit, 5 rounds of shifts and 52 of CLZ (the init code is then longer than 255 bytes); every word instruction on the corners of a word, also those the benchmark's literals miss; a code size limit of 300 bytes, a "megabyte" of 10 and a "kilobyte" of 5; a curve of 13 points |
| `dynamic_log_window` | the violation described below | the dynamic log cases with filled memory |
| `system_notes` | the two violations described below | the collision case and the large non-zero returns and reverts, on both chains |

`NoFalseMismatch` and `MismatchOnlyFromForeignTransfer` are about cases whose expectation is right
(`RightCase`): each transaction that the node is to take is waited for next; the storage expected
is the number of calls of the one deployed contract that are to succeed; the balance is that of one
transfer; the error is that of the steps that are to be refused. The code does not need it, and a
manifest may expect anything, but only then is there something to promise. All cases of these runs
are right (`MCCasesAreRight`), `HastyCase` because it expects no value.

Four runs show five disagreements between the repository's documents and comments and its code.
`subset_then_all`: `rpc-subset` leaves `<name>-summary.json` in the report directory; the next
`rpc-all` takes it for a report, and writes no summary although nothing failed.
`sync_status`: `sync-upstream` ends with 0 although generation or the regression failed,
because its commands are joined with `;`.
`dynamic_log_window`: a log case with a dynamic offset fails on a correct chain as soon as the
memory it logs is not zero. The case names no `storage_address`, so that the runner looks for the
offset in the admin account and finds 0, while the program logged another window; and an offset
other than 0 would make the oracle reject the declared log. The documents say that these cases
are admitted by observing the window.
`system_notes`, with the collision case: the second call of the collision program copies `DUP5`,
one of the five zeros it has just pushed, where the proxy's address is at `DUP6` (as in the first call). It calls address 0,
which succeeds, and the case fails on every correct chain.
`system_notes`, with the large payloads: the child of a return or revert of a megabyte of non-zero
data fills its memory by a loop, whose jump targets `_build_fill_ff_prefix` counts from the start of the loop's own code; the
wrapper inserts that code behind seven other bytes. The jump lands in front of the loop, on a byte
that is no `JUMPDEST`, so that the child fails with no return data, whatever its gas. (The generators
of logs begin with the prefix; there the targets are right.) The notes of these cases say that the
payload is filled. TLC stops at the first of the three cases of this run; with `-continue` it reports
every one of them, and each remains when the other defect is repaired.

The run that checks `WitnessHolds` therefore leaves out the collision cases, the large returns and the
dynamic logs with filled memory, and the largest children (see below).

Modelling the cases showed more that no run claims:

* the wrapper of the largest child with non-zero code carries that code, and is itself above the limit
  of the code size. Whether a chain that creates such a child has room for the wrapper is a matter of
  that chain, so that no run claims anything of it; the mock backend passes this case (and the large
  returns, the collision and the dynamic logs) because it computes what was meant;
* the raw transaction of `custom_tx_admission_smoke.json` declares 21000 gas for 2048 non-zero bytes.
  That is below the plain intrinsic cost of 53768: every node rejects it, so that the case shows
  nothing of EIP-7623 (`docs/benchmark-coverage-status.md:36` says it does). In
  `WitnessTellsFeature` it is one of the `Indifferent` cases, with a P256 vector whose output is
  empty on either chain, and PREVRANDAO, whose expectation `oracle.py:98-114` replaces by what was
  observed;
* the case of `custom_eip7702_smoke.json` delegates to a contract that stops at once and expects no
  slot: it passes whether or not the authorization took effect
  (`docs/benchmark-coverage-status.md:37` says that the account's storage was seen to change).
  `AuthorizationsTakeEffect` checks what the case does not;
* the programs with a dynamic offset compute `7 % GAS`, not `GAS % 7` as their notes say, so that the
  offset is always 7; no verdict depends on it;
* the data floor is never below the intrinsic cost, for initcode neither (`FloorCoversIntrinsic`), so
  that the middle one of the three values of `_gas_with_intrinsic_floor` never decides.

A byte code has bytes of eight bits, so the words of `Evm` cannot be smaller than the three bytes
that hold a gas value; TLC's integers allow no more. No modelled program depends on the width
being 32 bytes otherwise: the literal jump targets are computed from code without `PUSH32`. Keccak
is any function of its bytes that tells the few inputs apart. On the curve p < n, so that a recovery
id of 2 or 3 does not arise; r = 0, s = 0 and s in the upper half all do. The megabyte, the code
size limit and the loops are scaled down, but the 2048 bytes of the raw transaction are real. The
raw transaction and the authorization have steps that only the JSON-RPC backend takes, and are left out
of the two mock properties (`ForMock`).

Deadlock is checked in every run but those of `RpcTransport`, where a behaviour ends when the
bound on calls is reached. The other modules have an explicit action for being finished.

Bounds are named in the modules: `MaxCalls`, `MaxFaults`, `MaxPolls`, `MaxLag`, `MaxPerBlock`,
`MaxDrops`, `MaxOthers`, `MaxJobs`, `MaxRevisions`, `MaxTargets`, and in `Evm` `MemoryLimit`
(a program that reaches beyond runs out of gas; no case that passes does). `MaxPolls` is an upper bound
only: the deadline may also pass after any earlier poll.

## Fairness

`LiveSpec` (both modules) assumes only that the harness, a running process, takes its next step.
That is justified because every wait of the code has a timeout: `urlopen` gets
`rpc_timeout_seconds`, and `_wait_for_receipt` has a deadline; in the model a read timeout is
always possible. Nothing is assumed of the node, the miner or the replicas.
`Evm` needs no fairness: deadlock is checked, and a running program always has a step.

## Proofs

`RpcTransport_proofs` proves `TypeOK`, `RawSentOnce`, `AnswerIsGenuine` and the refinement of
`RemoteCall` for any methods, parameters, answers and bounds. The inductive invariant `IInv` says
what the three properties need: requests on the wire or handled belong to calls made so far and
are named uniquely (`SentSoFar`, `RequestsNamed`); an attempt about to be sent was not sent
before, and nothing at all was sent before it if the method is raw (`SendIsNew`); a request is
handled once (`HandledOnce`); an answer on its way belongs to the attempt that waits
(`ReplyIsCurrent`). `RawSentOnce` alone is not inductive: the retry after a refused connection
preserves it only because of `SendIsNew`. `TwoFailuresAreSurvived` needs one more fact, that every
attempt of a call but its first has a failure of its own behind it (`FailuresCounted`): a call gives up
at its third attempt, so that a third failure must have happened.

`JsonRpcExecution_proofs` proves `NoDoubleExecution` for every list of cases, either kind of key,
any node of `ChainNode` and any number of failures. The argument: a step fetches its nonce before
its first submission and every attempt carries the same transaction, so all copies anywhere (on
the wire, in the pool, on the chain) are equal (`OneTransactionPerStep`), and the chain executes
each nonce once (`ChainNonces`). To make that inductive `SubmissionInv` adds where a step may be
known at all (`KnownStepsReached`, `UnsentStepUnknown`), that only the submission in progress can
be added to it (`SubmissionIsPrepared`, `OnlySendSubmits`), and that the nonce is really fetched
(`NonceAnswers`, `NoncesGiven`). The proof does not go action by action: the interpreter's actions
are classified by what they do to the submission (`Quiet`, `StartsSend`, `Advances`, `Aborts`), one
lemma per action puts it in its class, and each class preserves the invariant.

`JsonRpcResults_proofs` builds on it and proves `PassedCasesRan`, `CallsOwnContract`,
`StorageIsOfReceiptBlock`, `ContextIsOfReceiptBlock`, `RejectionIsReal` and `TypeOK` of the same module, in layers, each of which
is inductive given the ones below it:

* `LocalInv` says what the locals and the call in progress mean: `rpc` holds the call the code made
  where it stands (`CallMatches`, `StageMatches`), an answer on its way or received was true when it
  was given and stays true while the chain grows (`AnswersTrue`), and blocks that are asked for exist
  (`BlocksExist`). That answers *stay* true is the point: a receipt and the storage of a past block do
  not change, a balance or a nonce would.
* `ChainInv` says what the locals mean for the chain: each hash of the case belongs to an earlier step,
  and one that was waited for is on the chain with the status its step expects (`HashesTrue`,
  `BlockStageConfirmed`); `$last_contract` was created by this case, successfully (`ContractCreated`),
  and so was whatever a call not yet mined calls (`CallsWaiting`). `PassedCasesRan`,
  `CallsOwnContract` and `StorageIsOfReceiptBlock` are its other conjuncts. `CallsOwnContract` alone is
  not inductive, because a call is prepared long before it is mined; `PassedCasesRan` is not, because a
  verdict sums up what a loop found.
* `RefusalInv` follows a raw transaction through its only attempt: nowhere before it is sent, then
  either still on the wire or with the node, and nowhere if the node refused it (`RawPending`); so that
  the steps that were refused as expected stay unknown (`RefusedUnknown`, `RejectedUnknown`). With a
  second attempt `RawPending` would fail: the refusal could be that of the copy.
* `ContextInv` is `ContextIsOfReceiptBlock` with what it needs while the block is on its way: the call in
  progress asks for the block of the last receipt (`BlockAsked`). A true answer is then that block or
  null, and null ends the case.
* `TypeInv` adds the counters and records of `TypeOK`.

The proof again classifies the actions of the interpreter by their effect (`Within`, `Passes`, `Sends`,
`Receives`, `Records`), proves once per action to which class it belongs, and once per class that the
layer is preserved; the node, the miner and the transport have lemmas of their own.

`JsonRpcExpectations_proofs` builds on both and proves what the results are worth to the author of a
manifest: `NoFalseMismatch`, for every list of cases, right ones among wrong ones, and
`MismatchOnlyFromForeignTransfer`, on a node without lag. Both compare a value the case expects, which
is a count of its *steps*, with a value that was observed, which is a count of *executed transactions*;
the invariants relate the two.

* `MeaningInv` says what a known transaction was made of (`KnownMeant`: its kind and whether it calls
  `$last_contract` are those of its step), that every taken step has its hash, in order
  (`HashesComplete`, `HashesSorted`), that awaited steps are executed in their order, in blocks that do
  not decrease (`StepsOrdered`, `BlocksOrdered`), and that the block of the last receipt has every
  transaction that was waited for, with the status its step expects (`ReceiptCovers`). The storage is
  read at that block (`StorageIsTrue`), so that the transactions it counts are in bijection with the
  `ContractCalls` of the case: none is missing because of `ReceiptCovers`, none is double because of
  `NothingRunsTwice`, and none is another case's because of `ContractsAreOwn` (`StorageIsRight`).
  An error that was kept is that of a step which was to be refused (`RefusalTold`).
* `BalanceInv` follows the two balances, which are read at `latest`: the one captured before the
  transfer is the number of transfers landed at some moment before the case's own (`Captured`), the one
  observed is that at some moment after it (`Seen`), and the expectation is the captured one plus one.
  If they differ, more than one transfer landed between the two moments; the case has only one,
  so that one of them is foreign (`ForeignTransfer`). With lag, neither moment is known to be on its
  side of the transfer, which is why the theorem assumes `MaxLag = 0`.

`NoFalseMismatch` is not inductive: a verdict is given in one step, from what the whole case left in
the locals. Each layer is therefore proved of the case in progress and empty at its start, and
`Judged` says of the step that gives the verdict which of the three comparisons failed.

`NamespaceRegistry_proofs` proves `AbortHasCause` and `RecordsKept` for any number of runs, profiles and
cases. As long as nothing was disturbed, at most one run is writing (`OneWriting`), the file is complete
unless that run is filling it (`FileWhole`), what the run read is still what the file holds when it
writes (`CopyFresh`), and every record that was handed out is in the file (`HandedKept`). The last one
needs the other three: each write replaces the whole file. Any other overlap is harmless, because a run
that finds its record only reads.

`SyncArtifacts_proofs` proves `FailureLeavesArtifacts`, `CompleteCopyRepairs` and
`CheckOnlyChangesNothing` for any number of families. The recipe runs the script twice and ignores the
exit code of the first run; nothing is lost by that because the sources do not change in between, so
that a failure comes again before anything is copied (`FailsAgain`), and while it copies, every file
before the current one has the new revision (`CopiedSoFar`, over the order of `apply_staged_artifacts`),
whatever it held before: that is why the end of the copy repairs what interrupts left.

`ReportCampaign_proofs` proves `CleanExitIsFresh`, `CleanExitHasEvidence`, `CleanJobSucceeds` and
`AlignedGapsAreStrays` for any families, subsets, durable manifests and histories of the directory. The
invariant speaks of the target in progress: as long as its status is 0, the reports of all manifests no
longer to do are its own, with equal durable copies and no failure (`AssertedFresh`); the one being
judged is its own unless the run aborted, which has set the status (`RanFresh`); between the two,
`WritesReport` and `SummaryKnown` follow the writes file by file. `SumsMean` carries the sums from
`Summarize` to the exit code. `AlignedGapsAreStrays` rests on a counting lemma (`AlignedSums`): the
reports of the families and their numbers are in bijection, the strays are finite, and the sums of both
kinds add up to the number of families; so there are as many families without a case that ran as strays
with one.

`GasFloor_proofs` proves, for every word size, data and declared gas, that the gas a transaction is
prepared with is at least what the case declares, its intrinsic cost and its data floor, and is one
of declared, default and floor (`PreparedGasSuffices`); the argument is that there are no more zero
bytes than bytes and no more words than bytes, so that the floor covers the initcode words too
(`FloorCoversIntrinsic`).

Every inductive invariant was first checked by TLC as an invariant of the run of its module.

Assumptions, all of which TLC evaluates on the runs: `WordsAssumption`, `GasFloorAssumption` and
`TransportConstants`; `ChainConstants` and `ExecutionConstants` (in particular `NoNonce` is no number,
and `None` neither a number nor an error of the node); `CaseConstants`, which is what loading a
manifest enforces and the only thing the proofs need of the cases (only a raw transaction may be
expected to fail, a deployment is expected to succeed); and that the lists in `RegistryConstants`,
`SyncConstants` and `CampaignConstants` are sequences, which TLC takes for granted and a prover does
not. `CampaignConstants` also says that the families of the Makefile are distinct and the subsets a
directory has seen finitely many.

Only model-checked: `RunEnds` and `EveryCallReturns`, because liveness needs fairness;
`TypeOK` of `Evm` and the properties of the generated
programs, because `Evm` runs a program for as long as it runs and the predictions are recursive over
bytes and rounds.

## Abstractions and what they leave out

* `URLError` means that the request did not reach the node: urllib raises it while it connects or
  sends, and a node does not act on a request that was not sent completely.
* Time is not modelled: a timeout may happen at any moment of a wait.
* In `JsonRpcExecution` expected and observed values are reduced to what the properties tell apart;
  placeholders and logs are compared in `GeneratedPrograms`, on a case that runs alone.
* The sizes of the upstream cases are scaled down with the word. Gas limits are those of
  `_memory_gas_hex` and its like; the sizes at which they step up (`MemorySteps`) are scaled too, and
  cases lie on both sides of each.
* A receipt is waited for by `$last`, and a call goes to `$last_contract` or to a literal address: the
  manifests use no other form, so that an explicit `tx_hash` is not modelled.
* `JsonRpcExecution` sends requests without contents; gas, signatures and authorization lists are in
  `Evm` and the modules it extends, where nothing is lost and nothing else happens on the chain.
* The mock backend's literal programs that no generator writes any more, and its `set_storage`,
  `set_balance` and `set_code` steps, which only `custom_storage_smoke.json` and `upstream_smoke.json` use, are
  left out: these manifests are for the mock backend alone and run no code.
* Error texts are one error: `_match_expected_rpc_error` decides whether it is the expected one.
* Balances and code are read at `latest`; on a replica behind the receipt a balance case can
  therefore mismatch. The run `submissions` has no lag and the theorem about its property assumes none,
  so that both are about transfers.
* A report directory is used by one target at a time, and `SUMMARY` and `REPORT` keep their
  defaults. A copy that fails is treated like an interrupt. `--staging-dir` is not modelled.

## Not modelled

`models.py` and `manifest.py` check the shape of JSON before anything runs; the loaders of templates,
the writers of manifests and `inventory.py` move data between files; `profile.py` and `env.py` read
the configuration once. They keep no state and nothing interleaves with them. The scanners match
regular expressions against upstream sources, which are not part of the repository: the model starts
from the parameters they extract, and from their reasons to block a case. Argument parsing and the
`scan-*` and `build-*` commands of `cli.py` call the functions above. The tests and the one-off
scripts were read as evidence of what is meant.

## Plan

1. Done: transport, chain, execution, with the first theorems; campaigns, registry, sync; every
   family of generated programs on an EVM machine, the hand-written cases, selection, gas floor,
   signing, the oracle, and the mock backend against the chain.
2. Done: the proofs of the execution with its results and expectations, the registry, the sync and
   the campaigns.
3. Left: lemmas about the assembler and the simulated memory. Their operators are recursive over
   bytes, as is the machine they run on, so they are model-checked.
