# TLA+ models of oasis-core consensus applications, upgrade and bundle managers, and watch streams

This directory holds TLA+ specifications of the stateful parts of the Go
code under `src/go`, with the TLC configurations that check them. Every
model definition is translated from the Go source. `PROJECT.json` maps each
definition to the lines it models. A few definitions model code that is not
under `src/`; these are marked `spec_modelled` and are translated from
`spec.md`. Examples are the SharePool arithmetic, the escrow transactions and
the consensus engine's application of validator updates.

## The system and how its parts interact

- **Staking application.** Sources: `consensus/cometbft/apps/staking/staking.go` and `state/state.go`.
  - Keeps the ledger: general balances, the active and debonding escrow share pools, delegations, debonding delegations and their queue, the common pool, governance deposits and the total supply.
  - Transactions change it, and so do messages from governance.
  - BeginBlock slashes on evidence.
  - EndBlock runs the epoch change: it releases matured debonding delegations and pays signing rewards.
- **Scheduler application.** Source: `apps/scheduler/scheduler.go`.
  - BeginBlock elects the validator set from the registered nodes, ordered by the staking escrow of their entities.
  - It elects on an epoch change, or mid-epoch when the staking application emitted a `TakeEscrowEvent` (a slash).
  - After the validators it elects one compute-executor committee per runtime, from the committee nodes (with a VRF beacon, those past `ElectionEligibleAfter`) that `isSuitableExecutorWorker` accepts: compute role, the version of the active deployment, not suspended, matching TEE hardware with a verifying attestation.
  - It pays the election reward through staking's `AddRewards`, to the entities of validators and of committee members.
  - EndBlock sends the difference between the current and the pending set to the consensus engine.
- **Upgrade manager.** Source: `upgrade/upgrade.go`.
  - Keeps pending upgrade descriptors in memory and in a persisted store.
  - Stamps the upgrade height when the upgrade epoch arrives.
  - Stops a binary that cannot run the upgrade, and runs the startup and consensus stages.
- **Bundle manager.** Source: `runtime/bundle/manager.go`.
  - A worker goroutine downloads runtime bundles that other components `Queue`.
  - The queue is a map guarded by a mutex.
  - A one-slot channel wakes the worker, and a ticker retries.
- **Watch streams.** Sources: `roothash/api/grpc.go` and `beacon/api/grpc.go`.
  - A server-streaming gRPC method per watch. The handler (`handlerWatchBlocks`) subscribes to the backend and forwards its channel into the stream until the channel closes or the stream's context ends.
  - The client (`Client.WatchBlocks`) opens the stream under a context it derives with `pubsub.NewContextSubscription`. It starts a goroutine that receives each message into a fresh variable and passes a pointer to it on an unbuffered channel.
  - The caller gets that channel and the subscription, whose `Close` cancels the context.
- **Supplementary sanity.** Source: `apps/supplementarysanity/supplementarysanity.go`.
  - Picks one random height per interval of blocks at which it runs the consistency checkers.

## Modules

| Module | Models | State (VARIABLES) | Actions |
|---|---|---|---|
| `Staking` | staking ledger | `accounts` (general balance plus active and debonding pools), `delegations`, `debDelegations`, `debQueue`, `commonPool`, `governanceDeposits`, `totalSupply`, `epoch` | `Transfer`, `Burn`, `AddEscrow`, `ReclaimEscrow`, `SlashEscrow`, `TransferFromCommon`, `TransferToGovernanceDeposits`, `TransferFromGovernanceDeposits`, `DiscardGovernanceDeposit`, `AddRewards`, `AddRewardSingleAttenuated`, `AdvanceEpoch` (EndBlock plus onEpochChange) |
| `Scheduler` | validator and executor-committee elections with slashing | `epoch`, `stake`, `frozen`, `pending`, `current`, `engine`, `stage`, `halted`, `lastElection`, `committees` | `BeginBlock` (evidence, epoch change, `electValidators`, `electAllCommittees`, rewards), `EscrowTx`, `Unfreeze`, `EndBlock`, `Halt` |
| `UpgradeManager` | descriptor store, node restarts, failed flushes | `pending`/`mem` (in memory), `stored` (on disk), the node phase, `height`, `newBinary`, `acked` (descriptors whose `SubmitDescriptor` returned success and that were not cancelled since), `flushFailures` | `Start`, `StartupUpgrade`, `SubmitDescriptor`, `CancelUpgrade`, `ExecuteBlock` (ConsensusUpgrade), `Close`, `Crash`, `CrashInBlock` |
| `DebondingSchedule` | abstract debonding schedule of spec.md (ReclaimEscrow, epoch processing step 1) | `debonding` (set of delegator, escrow, end epoch), `epoch` | `Reclaim`, `Advance` |
| `EpochSigning` | signing counts and signing rewards of the staking application | `total`, `byEntity` (the stored `EpochSigning`), `epoch`, `halted`, `rewarded`; history: `history`, `lastHistory` (exact block and signature counts of this and the last epoch) | `Block` (BeginBlock's `updateEpochSigning`), `EpochChangeBlock` (the update, then `rewardEpochSigning` and the clear), `Done` |
| `UpgradeLifecycle` | abstract descriptor table of spec.md 4.6 | `status` per descriptor, `height` | `Next`: each descriptor moves along `Move` (submit, cancel, stamp, startup, complete), the height may advance |
| `BundleManager` | download worker and `Queue` callers | `disk`, `store` (registry), `queue`, `ch`, the worker's pc/snapshot/results, each caller's pc/runtime/filtered hashes, `unseen` (the queued hashes the worker has not yet snapshotted) | `Startup`, `WakeOnSignal`, `WakeOnTick`, `Stop`, `Snapshot`, `DownloadBundle`, `DownloadCommit`, `DownloadDone`, `QueueFilter`, `QueueUpdate`, `Restart` |
| `WatchStream` | roothash block watch, client and server | backend subscription (`published`, `bch`, `bclosed`, `bsub`), handler (`spc`, `sitem`, `sctxDone`), stream (`wire`, `broken`), the WatchBlocks call (`kpc`, `reqSent`, `cctxDone`), client goroutine (`cpc`, `iter`, `heap` of receive variables, `chClosed`, `endStatus`), caller (`cstate`, `held`, `received`) | `ClientNewStream`, `ClientSendRequest`, `ClientCloseSend`, `ClientSetupFails`, `ClientRecvItem`, `ClientRecvEnd`, `ClientSend`, `ServerRecvRequest`, `ServerWatch`, `ServerForward`, `ServerChanClosed`, `ServerCtxDone`, `ServerSend`; environment: `Publish`, `BackendClose`, `PropagateCancel`, `TransportBreak`, `CallerProcess`, `CallerSeesClose`, `CallerClose` |
| `SupplementarySanity` | check-height choice | `height`, `currentInterval`, `checkHeight`, `checked` | `EndBlock`, `Restart`, `Done` |

Each `MC*` module gives the constants model values and small functions.

### How the actions correspond to the code

Each action is a whole handler. A handler that loops over addresses or queue entries is a `FoldLeft` over a sorted sequence, applied in one step, as the code does inside one block:

- `AddRewardsResult` and `AdvanceEpoch`'s release loop;
- `ElectLoop`, which has a `full` flag for the labelled `break electLoop`.

Random choices are nondeterministic `\E` choices over every outcome:

- the beacon shuffle that breaks stake ties;
- the sanity-check offset;
- which downloads fail.

`BundleManager`'s `Startup` is `run` up to its loop: `ExplodeBundles`, then `loadManifests` (the directory's contents), `CleanupBundles` with its removals, then registration of what cleanup retained, detached manifests first (`RegisteredPrefixes`). Each of these can fail part-way, and the worker then stops with what was already written. A download can also fail after exploding the bundle, when `registerManifest` fails.

In `BundleManager` the two halves of `Queue` are separate steps, because the filter runs outside the mutex and the update inside it. The worker's snapshot, the downloads and the commit are also separate steps, because the downloads run without the lock. In `UpgradeManager`, memory and disk are separate variables. A crash can happen between any two flushes.

A flush can also fail (`FlushFails`): the atomic single-key write of `flushDescriptorLocked` leaves the store as it was, and the handler returns the error. The cfg says which handlers may see a failure (`FlushCanFail`) and how many (`MaxFlushFailures`). `CancelUpgrade` restores `u.pending` from its copy when the flush fails, and the model does the same. `SubmitDescriptor` has no such rollback (finding 4).

`Staking` refines `DebondingSchedule`. The mapping takes the keys of `debDelegations` as the schedule's set. A reclaim must add the key ending `DebondingInterval` epochs on (or merge into it), and `AdvanceEpoch` must remove exactly the keys whose end is at most the new epoch. Every other operation leaves the keys alone and is a stuttering step. This states the debonding rule in both directions, which an action property on early release alone does not.

`EpochSigning` takes one step per block. A block's BeginBlock and EndBlock commit together, so the block that changes the epoch is one action that runs both. The counters are unsigned integers of `Width` bits (`Inc`, `Mul`), so the guards of `Update` and `EligibleEntities` are reached at model bounds; an error fails the block and the model stops the chain (`halted`). The history variables count the same blocks and signatures in unbounded integers, and the properties compare the rewards and the halts with them. How many blocks an epoch has is the beacon's choice, so every length up to `BlocksPerEpoch` is explored. `updateEpochSigning` and `rewardEpochSigning` are not under `src/` and follow spec.md (per-block step 5, epoch step 2-3).

`UpgradeManager` refines `UpgradeLifecycle`. The mapping `LifecycleStatus` reads each descriptor's state from the store: a stored record is submitted, stamped or startup-done by its `UpgradeHeight` and stage fields; a descriptor that is not stored is "done" if it completed since its last submission and "none" otherwise. `LifecycleRefined` checks the abstract `Spec` as a property of the detailed one. Because the mapping reads only the store, memory-only progress (lost in a crash) is a stuttering step of the abstract spec.

In `WatchStream` each goroutine's select is one action with a disjunct per case. When several cases are ready, each may be taken, as Go picks among them at random. The stream is a sequence of messages: items, then a trailer (`eof` when the handler returned nil, `err` otherwise). `SendMsg` blocks once `Window` messages are in flight. A transport failure empties the stream, ends the server's context and fails a later `NewStream` and every `RecvMsg`. `SendMsg` and `CloseSend` of this server-streaming method return nil on a broken transport (the request is then not delivered), so `WatchBlocks` returns a subscription and the goroutine meets the failure in `RecvMsg`. The caller dereferences the pointer it received in a later step than the receive, so a receive variable shared between iterations would show. The backend, gRPC's propagation of a cancellation and the caller are environment. The caller is written the way oasis-core uses a watch: it reads `ch` until it closes, or stops and closes the subscription.

## Runs

| Run | cfg | Expect | What it shows |
|---|---|---|---|
| staking_ledger | `MCStaking.cfg` | pass | supply conservation, share accounting and debonding-queue consistency over all operations; the next epoch change's release loop never fails a `Withdraw` (`ReleaseSucceeds`), which would make the block's EndBlock return an error; the debonding delegations refine `DebondingSchedule` (`DebondingScheduleRefined`): each epoch change releases exactly the delegations that reached their end epoch, none early and none late |
| epoch_signing | `EpochSigning.cfg` | pass | the entities rewarded at an epoch change are exactly those that signed at least the threshold fraction of its blocks, through the clear of the previous epoch change (`RewardsFollowFraction`); a block fails only when the epoch's arithmetic really exceeds the counters' width (`NoSpuriousHalt`) |
| staking_zero_shares | `MCStakingZeroShares.cfg` | violation | slashing leaves a pool with shares and zero balance (finding 1) |
| upgrade_manager | `MCUpgradeManager.cfg` | pass | store matches memory, the old binary stops, stage order holds, the upgrade completes under fairness, and the store refines the abstract descriptor table (`LifecycleRefined`); with one failing flush in `CancelUpgrade`, every descriptor acknowledged to the operator is stored or has completed (`AckedIsPersisted`) |
| upgrade_submit_failure | `MCUpgradeManagerSubmitFailure.cfg` | violation | a resubmission after a failed submit is acknowledged although nothing is stored (finding 4) |
| upgrade_spec_table | `MCUpgradeManagerSpecTable.cfg` | violation | the consensus stage is done one block after the upgrade height (finding 2) |
| scheduler | `MCScheduler.cfg` | pass | the engine set equals the scheduler's, the set is within bounds, elected by stake, and frozen nodes are removed; every executor-committee member can serve its runtime in the current epoch (`CommitteesSuitable`) |
| bundle_manager | `MCBundleManager.cfg` | pass | no queued bundle is lost, one is dropped only when stored, and every queued bundle is picked up; the store names only bundles on disk (`StoreOnDisk`) through part-way start-up and download failures and restarts |
| bundle_refetch | `MCBundleManagerRefetch.cfg` | violation | Queue re-queues a bundle fetched in between (finding 3) |
| watch_stream | `MCWatchStream.cfg` | pass | the caller reads the backend's items in order with none lost, repeated or overwritten, reads all of them on a clean end, and whatever ends the watch (backend close, caller `Close`, transport failure) both goroutines return and the backend subscription is released |
| supplementary_sanity | `SupplementarySanity.cfg` | pass | every completed interval after the first is checked, across restarts |

Every property of a passing run has a mutant in `PROJECT.json`: a plausible bug in the mapped code that TLC then catches.

## Findings

1. **Zero balance with shares outstanding.**
   - `slashPool` (state.go 767-786) removes balance and leaves `totalShares` as it was.
   - spec.md states the invariant "totalShares = 0 iff balance = 0".
   - Slashing the whole escrow breaks it.
2. **Consensus stage recorded one block late.**
   - `ConsensusUpgrade` (upgrade.go 308-331) runs the consensus migration in the block at `UpgradeHeight` (318-331) but does not record the stage there.
   - The consensus stage is pushed only by a later block, whose height is past `UpgradeHeight` (309-310).
   - spec.md's stage table says the upgrade is Consensus-done at `UpgradeHeight`.
3. **Queue re-queues a bundle that was already fetched.**
   - `Queue` filters fetched bundles before taking the lock (manager.go 221-237).
   - If the worker stores a bundle in between, `Queue` writes it back into the queue and it is downloaded again.
   - The cost is a redundant download, not a lost bundle.
4. **A failed submit leaves the descriptor pending in memory only.**
   - `SubmitDescriptor` (upgrade.go 54-65) appends the descriptor to `u.pending` and then returns the error of `flushDescriptorLocked` without removing it again; `CancelUpgrade` (upgrade.go 95-121) restores its copy on the same error.
   - A retry of the submission is answered `ErrAlreadyPending`, telling the operator the upgrade is pending, yet the store does not hold the descriptor: a crash loses it. The model counts that answer as an acknowledgement (`acked`).

## Observations not checked by a run

These are disagreements met while modelling. TLC showed them, but the project keeps no run for them, because each is a single step or depends on a parameter the spec leaves open.

1. **Frozen validator stays in the set.**
   - A slash of 0 emits no `TakeEscrowEvent` (state.go 830-833), so the scheduler does not re-elect.
   - With `ClaimThreshold = 0` an entity with empty escrow keeps a validator.
   - When that validator's node is frozen it stays in the set until the next epoch.
2. **A failed `NewStream` drops the watch's context subscription.**
   - `Client.WatchBlocks` (roothash/api/grpc.go 568-573) derives its context with `NewContextSubscription` and returns `nil, nil, err` when `NewStream` fails, without `Close`.
   - gRPC has already finished the stream there, so nothing stays open. What is lost is the cancel of the derived context, which lives until the caller's parent context ends.
   - A `SendMsg` or `CloseSend` error cannot cause this for the server-streaming descriptor (grpc.go 100-105): gRPC returns nil from both on a broken transport, and the failure shows in `RecvMsg`.
   - `WatchStream` models the failed `NewStream` (`ClientSetupFails`); the leaked cancel is a context, which no property tells apart.

## Bounds and why they are enough

- **Staking.**
  - Two accounts.
  - Escrow pairs 1→1 and 2→1, so there is a self-delegation and a delegation to another account; the self-delegation exercises the aliasing in onEpochChange.
  - Amounts are 1, with slash amount 2, which exceeds a single deposit and so empties a pool.
  - Epochs 0..2 with a debonding interval of 2, so that a reclaim at epoch 0 matures inside the run and a release one epoch early is observable; the zero-shares run uses interval 1.
  - Account 1 takes a 100% commission and account 2 none, so both commission branches happen.
  - A state constraint caps shares at 3. Shares grow without bound after a slash to price zero.
- **Epoch signing.**
  - Two entities, two epochs, threshold 3/4, counters of 4 bits (15 at most).
  - Epochs of up to 17 blocks: the 16th update of an epoch wraps `Total`, a count of 3 is the largest the per-entity guard passes at denominator 4 (15 div 4), and more than 5 blocks fail the guard on `Total` at numerator 3, so both guards and both error paths are reached. An entity signing 3 of 4 blocks is exactly at the threshold.
- **Scheduler.**
  - Three nodes of two entities. Entity e1 has two nodes, so the per-entity cap matters. Node n3 expires at epoch 1.
  - MaxValidators is 2, below the number of candidates, so the `break` and the ordering by stake both matter.
  - Stake goes up to 3, and a slash of 2 drops an entity below the claim threshold.
  - A block carries evidence against at most one node, and only against an unfrozen node that is in the current validator set (CometBFT reports misbehaviour of validators; a frozen node has left the set). The evidence loop of staking.go 112-131 is the part of staking's BeginBlock modelled here.
  - Two runtimes. r1 has no TEE and moves from version 1 to version 2 at epoch 2; n3 runs only version 1 and n2 is suspended for r1 until epoch 2. r2 needs SGX from epoch 1 and only n1's attestation verifies. n3 never became election-eligible, so the VRF filter matters. r1 wants a worker and a backup, so both roles are filled.
  - The beacon's permutation (`GetPerm`) is any order of the suitable nodes. `electCommittee` is not under `src/`; the model follows spec.md 4.3: workers first, then backups, and no committee with too few nodes.
  - `CommitteesSuitable` states the eligibility rule of spec.md 4.3 on its own, so a fault in `IsSuitableExecutorWorker` shows up against it.
- **Upgrade manager.**
  - Three descriptors:
    - d1 is incompatible with the old binary and has a startup stage;
    - d2 can run in place;
    - d3 is incompatible and has no startup stage.
  - Seven heights, two blocks per epoch, and one crash.
  - `upgrade_manager` allows one failed flush in `CancelUpgrade`, `upgrade_submit_failure` one in `SubmitDescriptor`; one failure followed by a retry is the shortest path to the disagreement.
- **Bundle manager.**
  - Two callers, two runtimes with one followed, three hashes, one detached.
  - h1 is a configured bundle, so start-up explodes it; h2 (detached, not configured) and h3 (runtime not followed) start on disk, so cleanup has directories to remove and a removal can fail part-way.
  - Two callers are the minimum for a Queue/Queue race. One caller and the worker give the Queue/commit race.
- **Watch streams.**
  - Three items and a window of two. The caller can hold item 1 while the goroutine receives item 2 and item 3 is in the stream, which is what aliasing of receive variables needs. A full window makes `SendMsg` block.
  - One transport failure, at any point: before `NewStream`, between it and `SendMsg` or `CloseSend`, mid-stream or after the end. The backend may refuse the subscription.
- **Supplementary sanity.**
  - Interval 4 and 22 heights give five intervals, enough for a restart inside an interval and for every offset position.

## Fairness

- **UpgradeManager.** `FairSpec` assumes four kinds of weak fairness. Crash, cancel and submit have none.
  - `ExecuteBlock` is weakly fair, written out with `BlockEnabled`: the consensus engine keeps producing blocks.
  - `Close` is weakly fair once `shouldStop` is set: the node does shut down after `ErrStopForUpgrade`.
  - `StartupUpgrade` is weakly fair: the node finishes starting.
  - `Start(TRUE)` is weakly fair: the operator eventually starts the upgraded binary, which is the upgrade procedure the e2e scenario follows.
- **BundleManager.** The worker goroutine is weakly fair, and so is the locked half of each `Queue` call: a goroutine that holds no lock and is runnable is eventually scheduled. The ticker, `Stop` and `Restart` get no fairness, because `QueuedIsPickedUp` must hold with a lost signal and no tick. The signal alone must be enough.
- **WatchStream.** Each goroutine (the `WatchBlocks` call, the client goroutine, the handler) is weakly fair: Go schedules a runnable goroutine. `PropagateCancel` is weakly fair because gRPC sends the client's cancellation to the server. The caller's reading is weakly fair: a caller that has not closed keeps reading its channel, as the oasis-core consumers do. Publishing, the backend closing, the caller's `Close` and transport failure get no fairness, so `WatchTerminates` must hold whichever of them happens and whenever.
- **Other models.** They check only safety.

## Not modelled

- The unary handlers of `roothash/api/grpc.go` and `beacon/api/grpc.go` forward one request to a backend and hold no state. Their watch methods share one control flow, modelled once in `WatchStream` with the lines of `WatchBlocks` in the map. Beacon's `WatchEpochs` sends values rather than pointers, so `ReceivedInOrder`'s aliasing case does not arise there.
- `full/statesync.go` is light-client I/O.
- `governance/events.go` is a pure decoder.
- The roothash and governance genesis files and the roothash query are one-shot loaders and reads.
- The e2e scenarios are test drivers. Their expectations appear as properties of `Scheduler` (an equivocating validator leaves the set) and `BundleManager`.
- Inside the modelled parts:
  - anything `electCommittee` does beyond spec.md 4.3 (its source is not in the repository), and the time and height inputs of TEE verification (a fixed verdict per node);
  - account hooks and allowances;
  - an abstract supply ledger for `Staking`: with the fee account left out, its refinement would say no more than `SupplyConservation`, so the abstract specification is the debonding schedule instead;
  - a zero signing-threshold numerator, which divides by zero in `EligibleEntities`: the parameters' validation is not in this repository, and the model assumes nonzero values;
  - HTTP fetching and hash verification, abstracted as success or failure per hash.

## Plan for later work

- Model the staking `ExecuteMessage` path from governance as its own action.
- Model the re-download of detached bundles removed by `cleanupBundles` after a restart, with a liveness property.
