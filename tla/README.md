# A TLA+ model of the Vero core contract

This directory specifies, model-checks and proves properties of the Soroban
contract in `src/src/`: guardians lock tokens and cast reputation-weighted votes
on tasks; a task whose accrued weight reaches a threshold is resolved, may call
an escrow vault, may be rewarded with a stream, and is archived some time later.
An administrator manages guardians, scores, tasks and thresholds, and a circuit
breaker can pause most of the contract.

## 1. Inventory of the system

| Part | Source | State | Operations |
|---|---|---|---|
| Circuit breaker | `circuit_breaker.rs`, `lib.rs` | `Paused`, `FailureCount` | `pause`, `unpause`, `toggle_pause`, `record_failure`, `reset_circuit_breaker` |
| Guardian registry | `guardian.rs` | `Guardian(a)` (absent, true, false), `AllGuardians` | `add_guardian`, `remove_guardian`, (`resign_guardian`) |
| Reputation | `reputation.rs` | `Reputation(a)` | `set_reputation` |
| Token locking | `lib.rs` | `Initialized`, `TokenAddress`, `LockThreshold`, `LockedBalance(a)` | `initialize`, `lock_tokens`, `resign_guardian`, `unlock_tokens` |
| Task store | `task.rs`, `storage.rs` | `ActiveTask(t)`, `ArchivedTask(t)`, `AllTasks` | `register_task`, `cancel_task`, `archive_task` |
| Voting | `lib.rs` | `WeightThreshold`, `Voted(t,a)`, `AllVotes` | `vote`, `set_weight_threshold` |
| Escrow client | `vault.rs`, `lib.rs` | `VaultAddress` | `set_vault_address`, the `release_funds` call inside `vote` |
| Reward streams | `drips.rs` | `RewardStream(t)`, `AllRewardStreams` | `start_reward_stream` |
| Mutex | `reentrancy.rs` | `Lock` | `lock`, `unlock` around `vote`, `register_tasks`, `cancel_task` |
| Instance life time | `guardian.rs`, `lib.rs` | the TTL of the instance entry | `extend_ttl` inside `initialize` and `add_guardian` |
| Events | `events.rs` | the ledger's event log | `emit_...`, called by the handlers |
| Snapshot | `lib.rs` | - | `get_snapshot` (paged) over the four lists |
| Pure consensus | `consensus.rs` | `ConsensusState` | `apply_vote`, `resolution_invariant_holds`; not declared in `lib.rs`, not called by `vote` |
| Kani harnesses | `verification/src/lib.rs` | - | nine harnesses about `apply_vote` |
| Gas table | `gas.rs` | - | `get_estimated_cost` |
| Upgrade, simple getters | `lib.rs` | - | `upgrade_contract`, `get_admin`, `get_version`, ... |

All parts share one instance storage and interact through it: `vote` reads the
pause flag, the membership entry, the locked balance, the score, the threshold
and the vault address, and writes the task record, the `Voted` entry and the
vote log. Calls leave the contract to the token (`lock_tokens`, refunds), the
vault (inside `vote`) and Drips (inside `start_reward_stream`).

What is hard here is not threads. The host runs one invocation at a time and
rolls back a failed one. It is the *order* of invocations by independent callers:
membership changes between votes, thresholds and scores changed under running
tasks, votes after a resolution, cancellation, reward and archiving racing each
other, pauses anywhere, an external call failing inside a deciding vote, clocks
and counters at their limits, a storage entry that expires under the contract, a
client that reads page by page while everything moves, an indexer that sees
events only. `PROJECT.json` lists these hazards with their lines.

What makes each part correct:

- breaker: a paused contract changes nothing about tasks; a failure reported
  beyond the threshold always leaves it paused;
- registry: nobody who is or was a guardian is lost from the list;
- tokens: the contract holds exactly what was locked, an active guardian cannot
  withdraw without resigning, everybody else always can (in the code: also while
  paused, see section 3);
- tasks: an id is registered once, its record only grows, cancelling and
  archiving are final;
- voting: one guardian, one vote; the accrued weight is the sum of the weights
  cast; only a vote that reaches the threshold in force resolves;
- escrow and rewards: for resolved tasks only, at most one stream per task;
- mutex: `vote` writes back a copy of the record that it made before calling the
  vault, and still no vote is lost or counted twice, whatever the vault does;
- life time: the window asked for is the window granted, and an expiry never
  costs a holder its tokens;
- events: the log determines the records;
- snapshot: one page fits together, and pages read one after the other miss
  nothing at the offsets they have passed that was there when the reading began;
- consensus module: `vote` counts as `apply_vote` does, so that what Kani verified
  of the one is true of the other.

## 2. Modules

The modules extend one another in the order in which the code's parts depend on
one another. Each handler of `lib.rs` is one action that models the whole
invocation, including the callee in another file.

| Module | Models |
|---|---|
| `VeroStorage` | constants and their assumptions, one variable per `DataKey`, the clock, token balances and vault calls around the contract; `TypeOK`, `Init`, `Tick` |
| `CircuitBreaker` | the pause flag and the failure counter |
| `GuardianRegistry` | membership entries, the guardian list, scores |
| `TokenLock` | initialisation and custody of locked tokens |
| `TaskStore` | registration, cancellation, archiving |
| `Voting` | `vote`, the threshold, the vault call |
| `RewardStreams` | `start_reward_stream` |
| `VeroCore` | `Next`, the specifications, all properties, the refinement mapping |
| `TaskLifecycle` | the abstract specification of a task's life |
| `Consensus` | `apply_vote` and `resolution_invariant_holds` as operators |
| `ConsensusMachine` | `apply_vote` as an abstract state machine, one state per task and the threshold its caller passes |
| `VoteConsensus` | `vote` against `apply_vote`: the refinement mapping and the verdicts |
| `KaniHarnesses` | the nine harnesses, one action each: draw the inputs, call, assert |
| `Invocation` | `vote` and `start_reward_stream` cut at their external call, the mutex, the host's call stack |
| `InstanceTtl` | the contract on a storage entry that expires and is restored |
| `EventLog` | the contract with the events its committed invocations publish |
| `Snapshot` | `get_snapshot`: the page arithmetic and the maps |
| `SnapshotReader` | a client that pages through `get_snapshot` while the contract moves |
| `Gas` | the table's price for `vote`, and the work of a vote that would succeed now |
| `MCVeroCore`, `MCReader`, `MCTtl`, `MCInvocation`, `MCEvents` | the modules TLC runs, with symmetry sets and tried values |
| `VeroCoreProofs` | type correctness |
| `TaskProofs` | task records, and the lists that index storage |
| `SafetyProofs` | resolution, pause, stakes, breaker, settled tasks, escrow: what a step may never do |
| `RefinementProofs` | `VeroCore` implements `TaskLifecycle` and `ConsensusMachine`; split invocations are atomic; the mutex keeps the tallies |
| `CustodyProofs` | sums: tokens against balances, weights against ballots; the instance's life time |
| `KaniProofs` | the harnesses' assertions for every width |
| `ViewProofs` | snapshots, the paging client |
| `EventProofs` | the event log against storage |

`VeroCore` is the contract. `Invocation`, `InstanceTtl`, `EventLog` and
`SnapshotReader` each extend it with one aspect of its surroundings and compose
its actions with theirs; none of them changes an action of the contract.

- `Invocation`: a call of the vault or of Drips ends the first half of the handler
  and puts its local values on the call stack `frames`; the callee's return or
  failure starts the second half. A host that refuses re-entry (Soroban's) lets
  nothing but that return happen. The variable `reentrant`, chosen in the initial
  state, stands for a host that would let the callee call back, up to `MaxDepth`
  waiting calls deep. Such a host admits *every* entry point: those that take the
  mutex (`vote`, `register_task`, `cancel_task`) find it held while a vote waits,
  all others (`archive_task`, `start_reward_stream`, the registry, the settings,
  the tokens) run. Taking and giving back the mutex is part of each of the three
  entry points that use it; where one of them returns `Err` after locking, the
  host undoes the invocation and the `Lock` entry with it, so the explicit
  `unlock` on those paths changes nothing that could be observed. A callee that
  fails after calling back is undone with everything it did, so only one that has
  not called back needs to fail (`called_back`). `resign_guardian` and
  `unlock_tokens` also clear a balance after the call that pays it out; they stay
  single steps, since the token is taken to be one that calls nobody.
- `InstanceTtl`: all storage of the contract is one instance entry. `Live` guards
  every invocation; only the two handlers that call `extend_ttl` move
  `live_until`. The clock counts ledgers. Expiry, restoring and the life time of
  a fresh or restored entry belong to the network and are external.
- `EventLog`: every action publishes what the handler emits, in the code's order
  (`resolved` before the `wt_vote` that causes it). A failed invocation publishes
  nothing, so `rw_fail`, which is emitted only before an `Err`, never appears.
  The properties speak of the places in the log where a topic of a task stands
  (`Positions`) and of the sum of the weights published up to a place
  (`WeightUpTo`).
- `Snapshot`: start and end of a page are the code's clamped and saturating
  sums. The maps report what storage holds now for the keys of a page; an
  archived task is not found by `get_task` and left out.
- `ConsensusMachine`: the threshold is a variable of the abstract machine, mapped
  to the contract's `weight_threshold`. A vote of the contract must therefore be an
  `apply_vote` call with the threshold in force, and not just with some threshold.
- `Gas`: the work of `vote` counts the storage accesses, calls and events on its
  successful path, at the unit prices in the header of `gas.rs` (an event is
  priced per topic and value: twice 30 000, as in the entry for `vote`).

Conventions.

- A rejected call changes nothing (the host rolls it back), so it is a
  stuttering step. The operators named `...Error` walk through the handler's
  early returns in the code's order and give the first one taken; the action is
  guarded by `...Error(...) = Ok`. `Panic`, `TokenTrap` and `DripsTrap` stand
  for aborts of the invocation.
- External contracts: a token transfer aborts on a negative or uncovered amount;
  the vault and Drips answer or fail (`escrow_up`, `drips_up` are chosen freely
  per call). Tokens move only through the contract's own calls.
- The administrator argument is authenticated by the host and compared with
  nothing stored, so any caller may take an administrator action in the model.
- `resolved_at` is compared with 0 by the code; `GenesisAssumption` says ledger
  timestamps are positive.
- `u32` and `u64` are `0..U32Max` and `0..U64Max` with the code's treatment of
  overflow: `checked_add` for the weight, abort (`overflow-checks = true` in both
  profiles) for counters. `i128` amounts are integers: the token's own supply
  keeps sums below the limit.
- `Lock` is set and removed within one invocation, so it is a variable of
  `Invocation` only.
- `ballot` is the weight each `wt_vote` event published, and `released` counts
  the `release_funds` calls; both serve as references for properties.
- Definitions introduced by a comment "Mutant: ..." are plausible mistakes; each
  replaces the definition after it to confirm that a property notices.

Bounds that exist only in instances: `MaxTime` (clock), `MaxFailures` (reports
between resets), `MaxGuardianEntries` (length of the guardian list), `MaxLog`
(length of the event log) and `MaxDepth` (nested calls). They appear in guards of
`Tick`, `RecordFailure`, `AddGuardian`, `Publish` and `Push`; the theorems hold
for all their values.

## 3. Runs

| Run | Instance | Checks |
|---|---|---|
| `voting` | 2 guardians, 1 task, scores 0..2 with `U64Max = 3` (overflow happens), thresholds 1, 2, 3, a vault, 3 guardian-list entries (removal and re-admission happen) | `TypeOK`, `VotesMatchVoters`, `WeightMatchesBallots`, `VoteLogExact`, `GuardiansListed`, `EscrowOnlyIfResolved`, `SameVerdict`, `ResolutionSound` |
| `resolution` | 2 guardians, 1 task, thresholds 1 and 3, a failure that trips the breaker, clock 1..4, archiving after more than 1, weakly fair clock and archiving | `ResolvedStamp`, `RecordMonotone`, `ArchiveProgress`, `ImplementsConsensus` |
| `custody` | 2 accounts with 2 tokens, amounts -1, 1, 2, up to 3 failures, a window of 2 ledgers, a new entry that lives 1 or 3 ledgers and a restored one that lives 1, clock 1..5 | `CustodyExact`, `ExitAlwaysOpen`, `WindowHonoured`, `StakeBound`, `BreakerReTrips`, `FundsRecoverable` |
| `reader` | 1 guardian listed up to twice, 2 tasks, a contributor, pages of 1 for a client that asks for 2, `U32Max = 3` | `TasksPartition`, `StreamsOnlyForResolved`, `NothingSkipped`, `EmptyPageIsEnd` |
| `invocation` | 2 guardians, 1 task, a vault, a contributor, both kinds of host, calls nested up to 2 deep | `NoVoteLost`, `ImplementsAtomic` |
| `events` | 2 guardians, 1 task, a contributor, thresholds 1, 2, 3, logs of up to 6 events, a breaker that trips at once, pages of 3 | `SnapshotAddsUp`, `ReplayAgrees`, `LogOrdered`, `SettledFrozen`, `FrozenWhenPaused`, `ImplementsTaskLifecycle`, `RestartsAnnounced` |
| `kani` | every input of the nine harnesses for `u32` up to 2 and `u64` up to 5 | `AssertionsHold` |

All pass. Two guardians are enough for the vote that resolves and the one that
comes late, for a removed guardian besides an active one, and for a weight that
overflows; two tasks for a list that could repeat or mix ids; four clock values
for an archive period that is restarted once and still ends. In `custody` an
entry can be extended with more and with less life left than the window, expire
before and after an extension, and be restored with less than the window. In
`reader` the client's limit is above the batch size, so clamping decides, and a
list grows while it is read; a task archived before the client comes to it makes
an empty page although the list goes on there. Six events hold two votes that both
resolve (four events) and two of a stream, a trip, a cancellation and the
archiving; pages of 3 cover every list of that run. Two nested calls are enough
for a stream started, or a vote refused, while a vote waits for the vault, and
for a second stream under the first. In runs that do not look at stakes
`initialize` is called with the threshold -1, which the code accepts and which
admits every voter. Addresses are interchangeable, so
safety runs use symmetry; the runs with liveness (`resolution`, `custody`) do not.

What the less obvious ones show:

- `ImplementsConsensus`: although `vote` never calls `apply_vote`, each counted
  vote is an accepted call of it with the threshold in force, so a vote leaves a
  task done exactly if it was done or its weight reaches that threshold.
- `SameVerdict`: the two agree on every vote except at `u32::MAX` votes, where one
  saturates and the other aborts. The run does not come to that exception (nobody
  is left to vote there); the theorem `VerdictsAgree` covers it.
- `NoVoteLost`: on the host that re-enters, `archive_task` under a waiting vote
  does move the record away, and the vote then writes its copy back, so the task
  is active and archived at once. That is why `TasksPartition` and the other
  theorems about `Spec` are claimed for the host that refuses re-entry only. The
  counts, weights and the vote log are exact on both.
- `NothingSkipped` speaks of the offsets a client has passed and no more.
  `EmptyPageIsEnd` says where it stops: past all guardians, votes and streams, at
  a page whose tasks are archived. Active tasks behind that page are missed: such
  a page looks like the end of the list.
- `ExitAlwaysOpen` describes the code and not the documents: a holder can take
  locked tokens out of a paused contract (`doc_paused_exit`).
- `RestartsAnnounced`: an indexer must take the last `resolved` event of a task,
  not the first, to date it.
- `FundsRecoverable` holds across pauses that never end, membership changes and
  expiries; with the pause check the README promises it would not.

Fairness. `resolution` assumes that ledgers keep closing and that somebody keeps
calling the permissionless `archive_task`; pauses must eventually end. `Room(t)`
excludes the resolutions so late that the bounded clock stops before their
archive period does. `custody` assumes that somebody pays for restoring an
expired instance (`WF(Restore)`; anybody may, so the holder can) and that a
holder who may withdraw keeps trying, strongly fair because each expiry
interrupts it (`SF(Live /\ Withdraw(g))`). Nothing is assumed of the
administrator, who may keep the contract paused and keep changing the holder's
membership.

Five runs state what the repository's documents say and show that the code does
otherwise:

- `doc_paused_exit`: "all state-changing calls are blocked" while paused
  (`README.md:170`, also `:177` and `:182`), but locked tokens are withdrawn from a
  paused contract: `unlock_tokens` does not test the flag. Neither do
  `resign_guardian`, `lock_tokens`, `set_vault_address`, `initialize` and
  `set_weight_threshold`, which `README.md:197` lists by name among the blocked
  calls. `FrozenWhenPaused` says what a pause does freeze; `ExitAlwaysOpen` and
  `FundsRecoverable` say what follows for holders.
- `doc_threshold`: "When `total_weight_accrued >= weight_threshold` the task's
  `is_done` flips to `true`": after the threshold is lowered the task stays open
  until somebody votes again.
- `doc_release`: the vault is described as "escrow release on task resolution",
  but a vote on a resolved task calls `release_funds` again.
- `doc_invariant`: the verification report says `resolution_invariant_holds` is
  true after every accepted vote; a late vote under a raised threshold leaves a
  done task below it, in `vote` as in `apply_vote`.
- `doc_gas`: the estimates are "conservative upper bounds" (`gas.rs:97`), but at the
  table's own unit prices a vote that resolves a task costs 1 970 000 without a
  vault and 2 470 000 with one, against 1 960 000.

Further differences between text and code, met while modelling and without a run
of their own:

- `README.md:130`: the TTL is extended "on every guardian write"; `remove_guardian`
  and `resign_guardian` write without extending.
- `types.rs:89`, `gas.rs:67`: pausing by hand emits an event; `emit_pause_toggled`
  has no caller.
- `gas.rs:21`: `register_task` also reads the pause flag, the mutex, the archived
  key and the list, and writes the list: 1 350 000 against 1 000 000.
- `tests/test.rs:913`: successive pages are disjoint; a guardian removed and
  admitted again is listed twice.
- `VERIFICATION_REPORT.md:31`, `consensus.rs:8`: `vote` delegates to the consensus
  module; `lib.rs` does not declare it.
- `README.md:221`: a pause ends by `reset_circuit_breaker` or `unpause`;
  `initialize` clears the flag too.

## 4. Proofs

TLAPS checks the following for every value of the constants that satisfies the
assumptions below: any sets of addresses and tasks, any widths, thresholds,
clocks, list lengths and log lengths.

| Assumption | Module | Says |
|---|---|---|
| `ConstantsAssumption`, `InputAssumption` | `VeroStorage` | limits and inputs have the types of the code's constants and arguments |
| `GenesisAssumption` | `VeroStorage` | ledger timestamps are positive |
| `NoneAssumption` | `VeroStorage` | the marker of an absent entry is no value of an entry |
| `AddressAssumption` | `VeroStorage` | there are finitely many addresses (they are 32-byte keys); only the sums over accounts use it |
| `DepthAssumption` | `Invocation` | the bound on nested calls is a natural number |
| `TtlAssumption` | `InstanceTtl` | life times are natural numbers |
| `BatchAssumption`, `PageLimitAssumption` | `Snapshot`, `SnapshotReader` | page sizes are positive `u32` values |
| `LogAssumption` | `EventLog` | the bound on logs is a natural number |
| `WidthAssumption` | `KaniHarnesses` | a `u32` can hold 2, a `u64` can hold 1 (the harnesses cast two votes) |

| Theorem | Module | States |
|---|---|---|
| `TypeCorrect` | `VeroCoreProofs` | `Spec => []TypeOK` |
| `StampCorrect` | `TaskProofs` | `Spec => []ResolvedStamp` |
| `RecordsOnlyGrow` | `TaskProofs` | `Spec => RecordMonotone` |
| `OneGuardianOneVote` | `TaskProofs` | `Spec => []VotesMatchVoters` |
| `RegisteredOnce` | `TaskProofs` | `Spec => []TasksPartition` |
| `VoteLogCorrect` | `TaskProofs` | `Spec => []VoteLogExact` |
| `StreamsEarned` | `TaskProofs` | `Spec => []StreamsOnlyForResolved` |
| `GuardiansStayListed` | `TaskProofs` | `Spec => []GuardiansListed` |
| `ResolvedByVotesOnly` | `SafetyProofs` | `Spec => ResolutionSound` |
| `PausedIsFrozen` | `SafetyProofs` | `Spec => FrozenWhenPaused` |
| `StakeStaysBound` | `SafetyProofs` | `Spec => StakeBound` |
| `BreakerStaysArmed` | `SafetyProofs` | `Spec => BreakerReTrips` |
| `SettledIsFinal` | `SafetyProofs` | `Spec => SettledFrozen` |
| `EscrowEarned` | `SafetyProofs` | `Spec => []EscrowOnlyIfResolved` |
| `LifecycleRefined` | `RefinementProofs` | `Spec => ImplementsTaskLifecycle` |
| `VoteImplementsApplyVote` | `RefinementProofs` | `Spec => ImplementsConsensus` |
| `VerdictsAgree` | `RefinementProofs` | `Spec => []SameVerdict` |
| `SplitIsAtomic` | `RefinementProofs` | `InvocationSpec => ImplementsAtomic` |
| `NoVoteIsLost` | `RefinementProofs` | `InvocationSpec => []NoVoteLost` |
| `BooksBalance` | `CustodyProofs` | `Spec => []CustodyExact` |
| `ExitStaysOpen` | `CustodyProofs` | `Spec => []ExitAlwaysOpen` |
| `WeightIsSumOfBallots` | `CustodyProofs` | `Spec => []WeightMatchesBallots` |
| `ExpiryIsHarmless` | `CustodyProofs` | `TtlSpec => Spec` |
| `WindowIsHonoured` | `CustodyProofs` | `TtlSpec => []WindowHonoured` |
| `HarnessesPass` | `KaniProofs` | `Spec => []AssertionsHold` |
| `SnapshotsAddUp` | `ViewProofs` | `Spec => []SnapshotAddsUp` |
| `PagingSkipsNothing` | `ViewProofs` | `ReaderSpec => []NothingSkipped` |
| `EmptyPageEndsLists` | `ViewProofs` | `ReaderSpec /\ []ListsFit => []EmptyPageIsEnd` |
| `ReplayIsFaithful` | `EventProofs` | `EventSpec => []ReplayAgrees` |
| `LogStaysOrdered` | `EventProofs` | `EventSpec => []LogOrdered` |
| `RestartsAreAnnounced` | `EventProofs` | `EventSpec => RestartsAnnounced` |

(`Spec` is the contract's, except in `KaniProofs`, where it is that of
`KaniHarnesses`.)

The argument. `TypeOK` is inductive by itself. For the task theorems, the lemma
`RecordSteps` classifies what any step does to the record of one task, in
whichever key space it is: leave it unregistered, open it, keep it (archiving
included), cancel it, or count a vote. Each invariant then needs five small cases
instead of one per handler.

Records and lists:

- `ResolvedStamp` becomes inductive with `now # 0` (`StampInv`): a stamp taken
  from the clock must differ from the marker 0. This is where positive ledger
  timestamps matter.
- `VotesMatchVoters` is carried together with the finiteness of each task's
  voters (`CountInv`), without which adding a voter would not add one to their
  number.
- `RecordMonotone` needs `ResolvedStamp`: a late vote overwrites the stamp with
  the clock, which is an increase only because no stamp is in the future.
- The list theorems share `AppendListsExactly` and `RangeAppend`: what pushing an
  element does to a list. `StreamsEarned` also uses that a done task stays done.

What a step may never do:

- `ResolutionSound` follows from `RecordSteps` and `TypeOK` alone; the pause, the
  stakes and the breaker are case analyses over the handlers' guards.
- `SettledIsFinal` needs `TasksPartition`: that an archived task is not also
  active is what keeps `vote`, `cancel_task` and `start_reward_stream`, which look
  in the active key space only, away from it.
- `EscrowEarned` counts: a step that calls the vault for a task also counts a vote
  on it and leaves it done, so the calls stay below the votes and a done task
  stays done.

Refinements and the mutex:

- `LifecycleRefined` uses `TypeOK` and the disjointness of the two key spaces:
  without it a vote on an active record could be a vote on an archived task.
- `VoteImplementsApplyVote` reuses `RecordSteps`: `ViewKept` shows that what
  `apply_vote` sees of a task changes only with its voters, `ViewCounts` that a
  counted vote is accepted by `apply_vote` under `weight_threshold` with the same
  result; the tasks whose
  voters do not change need the one-voter-per-step argument of `VoteApplies`.
- `SplitIsAtomic` needs `FrameInv`: at most one invocation waits, and it would pass
  its checks again on the storage as it is now. It is inductive because a host that refuses
  re-entry changes nothing under a frame; the second half of the handler is then
  the handler (`ReturnIsVote`, `ReturnIsStream`). All theorems about `Spec` carry
  over to the split contract on such a host.
- `NoVoteIsLost` holds on both hosts and at any depth. It needs `StackInv`: of all
  waiting invocations at most one is a vote, and it holds the mutex; that vote is
  not counted yet, and its copy is one vote ahead of the record (`OneVoteAhead`),
  wherever `archive_task` may have put that record meanwhile. The entry points
  that take no mutex keep this (`WholeKeepsRecords`), those that take it cannot
  run, and when the vault returns the copy is what one more vote makes of the
  record. Together with `TypeOK` and the tallies this is inductive; the
  disjointness of the key spaces, which re-entry breaks, is not used.

Sums. `SumFunction` of the community modules folds over a set by choosing
elements. That the fold is a well-defined function on all subsets of a finite set
(`SumExists`), and what it gives, are facts that need induction. The library's
induction rules are not usable by the provers, so the induction is made
first-order: `LeastNatural` (from the library's theorem on well-founded
relations) gives a least size among the subsets that would violate the claim, and
such a smallest set is refuted (`SmallestSubset`). `SumUpdated` then says that
changing one term changes the sum by the difference, `SumRemoves` that any term
may be taken out first, `SumExtended` that a sum grows by what one more term adds.

- `BooksBalance` carries `CustodyInv`, which adds that whoever has tokens locked
  found the contract initialised. `ExitStaysOpen` follows from it: every single
  balance is covered by the total (`SumCovers`).
- `WeightIsSumOfBallots` uses `SumUpdated` for the one task voted on and
  `BallotsOfTask` for the others.

Life time and harnesses:

- `ExpiryIsHarmless` is a refinement by step simulation; with it every theorem
  about `Spec` holds of a contract whose entry expires and is restored.
- `WindowIsHonoured` needs `WindowInv`: the entry is paid for to the end of the
  window from the last extension on.
- `HarnessesPass` rests on one lemma on `apply_vote` (`ApplyVote`) and on the fact
  that what it returns is again a state it accepts (`CountedType`).

What the outside sees:

- `PageElements` says which entries of a list a page holds, through the clamped
  and saturating arithmetic. `SnapshotsAddUp` combines it with five invariants of
  the contract. `PagingSkipsNothing` needs `ReaderInv`: what the client counted
  when it began is still there, because every list of the contract only ever
  grows at its end (`ListsExtend`).
- `EmptyPageEndsLists` follows from what an empty page says about the lists when it
  is read, and from lists that grow and tasks that stay archived. It has the hypothesis `[]ListsFit`, that no list is longer
  than `U32Max`. A Soroban `Vec` counts its elements in a `u32`, so this holds of
  every state of the program, but the lists of the model are unbounded: past
  `U32Max` entries an offset could no longer reach the end. In the `reader` run no
  list is longer than `U32Max`, and TLC needs no such hypothesis.
- The three theorems on events share `EventInv`: for each task the log tells what
  storage holds, and nothing was published of an unregistered task; and the log
  is ordered. `ReplayAgrees` alone is not inductive: without the last part, a task
  could be registered with a history. One lemma per kind of publishing step shows
  what its events add to `Positions` and to `WeightUpTo`.

Only model-checked: the liveness properties `ArchiveProgress` and
`FundsRecoverable`, whose proofs need fairness and `ENABLED`, which this prover
does not reason about; and the five runs that refute a statement of the
documents, where a counterexample is the point. Every other property of a passing
run is stated by a theorem.

## 5. Not modelled

- `upgrade_contract`: what runs afterwards is another program.
- Getters that return a stored value or a constant (`get_admin`, `get_version`,
  `get_archived_task`, the wrappers of `is_guardian` and the like): they change no
  state. Those the handlers and `get_snapshot` use are operators.
- `register_tasks` with more than one id: no entry point passes a larger batch.
- Authentication: `require_auth` is the host's; the administrator's address is
  compared with nothing stored.
- Tokens that call back: the token's transfer is a change of balances.
- Direct transfers of tokens to the contract's address from outside.
- Metered costs on the network: `Gas` compares the price of `vote` with the table's
  own unit prices, not with a ledger. The other prices of the table are constants
  for handlers whose work hardly depends on the state; there is nothing in them
  for a model checker.
- The contents of `target/` and `test_snapshots/` are build and test output.

## 6. Plan

Done: the contract core, the consensus module and its harnesses, snapshots and
their reader, split invocations with the mutex, the instance's life time, events,
the price of `vote`; a theorem for every safety invariant, action property and
refinement that the runs check.

Left:

1. The safety half of the two liveness properties: that from the states they speak
   of the step that makes progress keeps its guard (`archive_task` for a stale
   task, the withdrawal of a holder who is not an active guardian), as invariants
   and action properties that leave only fairness to TLC.
2. The invariants of the contract on the split contract, through `SplitIsAtomic`,
   as theorems of their own for the ones a reader looks for there.
