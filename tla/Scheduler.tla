----------------------------- MODULE Scheduler -----------------------------
(***************************************************************************)
(* Validator election of the scheduler application and the hand-off of    *)
(* the elected set to the consensus engine                                 *)
(* (go/consensus/cometbft/apps/scheduler/scheduler.go).                    *)
(*                                                                         *)
(* A block is BeginBlock, the block's transactions, then EndBlock.         *)
(* BeginBlock first runs the staking app, which slashes the entity of each *)
(* piece of misbehaviour evidence and freezes the node, then the scheduler:*)
(* when the epoch changed or a TakeEscrowEvent was emitted it elects a new *)
(* validator set into the pending slot.  EndBlock diffs the pending set    *)
(* against the current one, hands the diff to the engine and makes the     *)
(* pending set current.  The random beacon that shuffles nodes and breaks  *)
(* stake ties is a nondeterministic choice among all the orders it can     *)
(* produce.  An entity's stake is its active escrow balance; the rest of   *)
(* the staking ledger is in Staking.tla.  After the validators, the same   *)
(* BeginBlock elects a compute-executor committee per runtime from the     *)
(* committee nodes that isSuitableExecutorWorker accepts; electCommittee   *)
(* itself is not part of this source and follows spec.md 4.3.             *)
(***************************************************************************)
EXTENDS Naturals, FiniteSets, SequencesExt

CONSTANTS
    Nodes,                  \* registered nodes; a node is named by its consensus key
    Entities,
    NodeEntity,             \* node.EntityID
    ValidatorNodes,         \* nodes registered with RoleValidator
    NodeExpiration,         \* node.Expiration (an epoch)
    BaseEpoch,              \* the chain's first epoch: no elections
    MaxEpoch,               \* bound on the epoch
    MaxStake,               \* bound on an entity's escrow balance
    SlashAmount,            \* amount of the consensus-equivocation penalty
    RewardAmount,           \* escrow added by the election reward
    ClaimThreshold,         \* escrow the stake claims of an entity's nodes require
    DebugBypassStake,
    MinValidators,
    MaxValidators,
    MaxValidatorsPerEntity,
    InitStake,              \* genesis escrow balances
    InitValidators,         \* genesis validator set: consensus key -> power
    Runtimes,               \* registered runtimes
    ComputeNodes,           \* nodes registered with RoleComputeWorker
    NodeRuntimes,           \* node -> runtime -> versions in node.Runtimes
    ActiveVersion,          \* runtime -> epoch -> version of ActiveDeployment
    NoDeployment,           \* ActiveDeployment(epoch) = nil
    SuspendedUntil,         \* node -> runtime -> first epoch it is not suspended
    RuntimeTEE,             \* runtime -> TEEHardware ("none" for Invalid)
    NodeTEE,                \* node -> runtime -> [hw, verifies] of its capability
    ElectionEligibleAfter,  \* node -> registry status ElectionEligibleAfter
    EpochInvalid,
    FilterCommitteeNodes,   \* VRF beacon backend and no DebugAllowWeakAlpha
    GroupSize,              \* runtime -> executor workers wanted
    GroupBackupSize         \* runtime -> backup workers wanted

ASSUME NodeEntity \in [Nodes -> Entities]
ASSUME ValidatorNodes \subseteq Nodes
ASSUME NodeExpiration \in [Nodes -> Nat]
ASSUME InitStake \in [Entities -> 0..MaxStake]
ASSUME DebugBypassStake \in BOOLEAN
ASSUME {MinValidators, MaxValidators, MaxValidatorsPerEntity} \subseteq Nat

VARIABLES
    epoch,          \* the beacon's current epoch
    stake,          \* entity -> active escrow balance
    frozen,         \* node -> registry status IsFrozen()
    pending,        \* scheduler state PendingValidators (NoValidators for nil)
    current,        \* scheduler state CurrentValidators
    engine,         \* the validator set the consensus engine holds
    stage,          \* "begin": next is BeginBlock; "txs": transactions, then EndBlock
    halted,         \* a BeginBlock returned an error: the chain stops
    lastElection,   \* history: inputs and result of the last successful election
    committees      \* runtime -> elected executor committee, or NoCommittee

vars == <<epoch, stake, frozen, pending, current, engine, stage, halted, lastElection, committees>>

Powers == 1..MaxStake
ValidatorSets == UNION {[D -> Powers] : D \in SUBSET Nodes}
NoValidators == [n \in {} |-> 1]

Min2(a, b) == IF a < b THEN a ELSE b

\* node.IsExpired(epoch)
IsExpired(n, ep) == NodeExpiration[n] < ep

\* VotingPowerFromStake (scheduler api): one unit per token, and one free
\* unit for a zero stake so that the engine does not read it as a removal.
VotingPowerFromStake(s) == IF s = 0 THEN 1 ELSE s

\* stakeAcc.CheckStakeClaims(entAddr): the escrow covers the claims.
CheckStakeClaims(stk, e) == stk[e] >= ClaimThreshold

(***************************************************************************)
(* Staking BeginBlock: misbehaviour evidence against validator n slashes   *)
(* its entity through SlashEscrow and freezes n; a frozen node is not      *)
(* slashed again.  SlashEscrow emits TakeEscrowEvent only when it took a   *)
(* non-zero amount.                                                        *)
(***************************************************************************)
\* Mutant: the penalty is not capped at the escrow balance.
SlashTakenUncapped(stk, n) == SlashAmount

SlashTaken(stk, n) == Min2(SlashAmount, stk[NodeEntity[n]])

Slash(stk, n) == [stk EXCEPT ![NodeEntity[n]] = @ - SlashTaken(stk, n)]

\* Mutant: frozen nodes are not filtered.
FilterNodesKeepFrozen(fr, ep) == {n \in Nodes : ~IsExpired(n, ep)}

\* BeginBlock node filter: frozen and expired nodes cannot be scheduled.
FilterNodes(fr, ep) == {n \in Nodes : ~fr[n] /\ ~IsExpired(n, ep)}

\* electValidators: validator role and the entity passes CheckStakeClaims.
EligibleNodes(nodes, stk) ==
    {n \in nodes \cap ValidatorNodes :
        DebugBypassStake \/ CheckStakeClaims(stk, NodeEntity[n])}

\* Mutant: the shuffled entities are not sorted by escrow.
SortedEntitiesAnyOrder(es, stk) == SetToSeqs(es)

\* stakingAddressMapToSliceByStake: a beacon shuffle stably sorted by
\* descending escrow, i.e. any order in which the escrow never increases.
SortedEntities(es, stk) ==
    {s \in SetToSeqs(es) :
        DebugBypassStake \/ \A i \in 1..(Len(s) - 1) : stk[s[i]] >= stk[s[i + 1]]}

\* entityNodesMap[entAddr]: the entity's nodes in the shuffled order.
EntityNodes(order, e) == SelectSeq(order, LAMBDA n : NodeEntity[n] = e)

ValidatorPower(stk, e) ==
    IF DebugBypassStake THEN 1 ELSE VotingPowerFromStake(stk[e])

\* len(newValidators) >= params.MaxValidators
IsFull(vals) == Cardinality(DOMAIN vals) >= MaxValidators

\* Mutant: the loop is left only once the set exceeds MaxValidators.
PickNodeLateBreak(acc, stk, e, n) ==
    LET vals == acc.vals @@ (n :> ValidatorPower(stk, e))
    IN  [vals |-> vals, ents |-> acc.ents \cup {e}, full |-> Cardinality(DOMAIN vals) > MaxValidators]

\* One pass of the inner loop: node n of entity e joins the set.
PickNode(acc, stk, e, n) ==
    LET vals == acc.vals @@ (n :> ValidatorPower(stk, e))
    IN  [vals |-> vals, ents |-> acc.ents \cup {e}, full |-> IsFull(vals)]

\* The electLoop over the sorted entities, up to MaxValidatorsPerEntity
\* nodes each, left as soon as MaxValidators validators are chosen.
ElectLoop(stk, sorted, order) ==
    LET PickEntity(acc, e) ==
            LET nodes == EntityNodes(order, e)
                Pick(a, n) == IF a.full THEN a ELSE PickNode(a, stk, e, n)
            IN  FoldLeft(Pick, acc, SubSeq(nodes, 1, Min2(MaxValidatorsPerEntity, Len(nodes))))
    IN  FoldLeft(PickEntity, [vals |-> NoValidators, ents |-> {}, full |-> FALSE], sorted)

\* electValidators' result checks.
ElectionOk(vals) ==
    Cardinality(DOMAIN vals) # 0 /\ Cardinality(DOMAIN vals) >= MinValidators

\* AddRewards at RewardFactorEpochElectionAny to the elected entities.
ElectionRewards(stk, ents) ==
    [e \in Entities |-> IF e \in ents THEN Min2(stk[e] + RewardAmount, MaxStake) ELSE stk[e]]

(***************************************************************************)
(* Compute committees.                                                     *)
(***************************************************************************)
NoCommittee == [workers |-> {}, backups |-> {}]

IsSuspended(n, rt, ep) == ep < SuspendedUntil[n][rt]

\* Mutant: the suspension check left out.
IsSuitableExecutorWorkerNoSuspension(n, rt, ep) ==
    LET v == ActiveVersion[rt][ep]
        tee == NodeTEE[n][rt]
    IN  /\ n \in ComputeNodes
        /\ v # NoDeployment
        /\ v \in NodeRuntimes[n][rt]
        /\ IF RuntimeTEE[rt] = "none" THEN tee.hw = "none"
           ELSE tee.hw = RuntimeTEE[rt] /\ tee.verifies

\* isSuitableExecutorWorker: the compute role, an active deployment, a
\* registered runtime entry of that version, not suspended, and a TEE
\* capability that matches the runtime's hardware and verifies (none when
\* the runtime has no TEE).
IsSuitableExecutorWorker(n, rt, ep) ==
    LET v == ActiveVersion[rt][ep]
        tee == NodeTEE[n][rt]
    IN  /\ n \in ComputeNodes
        /\ v # NoDeployment
        /\ v \in NodeRuntimes[n][rt]
        /\ ~IsSuspended(n, rt, ep)
        /\ IF RuntimeTEE[rt] = "none" THEN tee.hw = "none"
           ELSE tee.hw = RuntimeTEE[rt] /\ tee.verifies

\* The committee node list of BeginBlock: the filtered nodes, and with a VRF
\* beacon only those whose ElectionEligibleAfter has passed.
CommitteeNodes(fr, ep) ==
    {n \in FilterNodes(fr, ep) :
        ~FilterCommitteeNodes
        \/ (ElectionEligibleAfter[n] # EpochInvalid /\ ep > ElectionEligibleAfter[n])}

\* electCommittee (spec.md 4.3): the suitable nodes in the order of the
\* beacon's permutation; the first GroupSize are workers, the next
\* GroupBackupSize backups.  Without enough workers there is no committee.
ElectCommittee(rt, order) ==
    IF Len(order) < GroupSize[rt] THEN NoCommittee
    ELSE [workers |-> ToSet(SubSeq(order, 1, GroupSize[rt])),
          backups |-> ToSet(SubSeq(order, GroupSize[rt] + 1,
                                   Min2(Len(order), GroupSize[rt] + GroupBackupSize[rt])))]

\* electAllCommittees: one committee per runtime, each from its own
\* permutation of the nodes suitable for it.
ElectAllCommittees(nodeList, ep, orders) ==
    [rt \in Runtimes |-> ElectCommittee(rt, orders[rt])]

SuitableNodes(nodeList, rt, ep) ==
    {n \in nodeList : IsSuitableExecutorWorker(n, rt, ep)}

Members(c) == c.workers \cup c.backups

(***************************************************************************)
(* BeginBlock: the staking app handles evidence (ev is empty or one       *)
(* validator), the epoch may change, then the scheduler runs an election  *)
(* if the epoch changed or something was slashed, outside the base epoch. *)
(* An election error is returned from BeginBlock and stops the chain.     *)
(***************************************************************************)
BeginBlock ==
    /\ stage = "begin"
    /\ ~halted
    /\ \E epochChanged \in BOOLEAN, ev \in SUBSET {n \in DOMAIN engine : ~frozen[n]} :
        /\ Cardinality(ev) <= 1
        /\ epochChanged => epoch < MaxEpoch
        /\ LET ep      == IF epochChanged THEN epoch + 1 ELSE epoch
               stk     == IF ev = {} THEN stake ELSE Slash(stake, CHOOSE n \in ev : TRUE)
               slashed == \E n \in ev : SlashTaken(stake, n) > 0
               fr      == [n \in Nodes |-> frozen[n] \/ n \in ev]
               nodeList == EligibleNodes(FilterNodes(fr, ep), stk)
               ents    == {NodeEntity[n] : n \in nodeList}
               cnodes  == CommitteeNodes(fr, ep)
           IN  /\ epoch' = ep
               /\ frozen' = fr
               /\ stage' = "txs"
               /\ UNCHANGED <<current, engine>>
               /\ IF (epochChanged \/ slashed) /\ ep # BaseEpoch
                  THEN \E sorted \in SortedEntities(ents, stk), order \in SetToSeqs(nodeList),
                           orders \in [Runtimes -> UNION {SetToSeqs(SuitableNodes(cnodes, rt, ep)) : rt \in Runtimes}] :
                         /\ \A rt \in Runtimes : ToSet(orders[rt]) = SuitableNodes(cnodes, rt, ep)
                         /\ LET res == ElectLoop(stk, sorted, order)
                                com == ElectAllCommittees(cnodes, ep, orders)
                                rewarded == res.ents \cup {NodeEntity[n] : n \in UNION {Members(com[rt]) : rt \in Runtimes}}
                            IN  IF ElectionOk(res.vals)
                                THEN /\ pending' = res.vals
                                     /\ committees' = com
                                     /\ stake' = IF epochChanged THEN ElectionRewards(stk, rewarded) ELSE stk
                                     /\ lastElection' = [stake |-> stk, eligible |-> ents,
                                                         ents |-> res.ents, vals |-> res.vals]
                                     /\ UNCHANGED halted
                                ELSE /\ halted' = TRUE
                                     /\ stake' = stk
                                     /\ UNCHANGED <<pending, lastElection, committees>>
                  ELSE /\ stake' = stk
                       /\ UNCHANGED <<pending, halted, lastElection, committees>>

(***************************************************************************)
(* Transactions of the block.  Escrow moves (AddEscrow, ReclaimEscrow; a   *)
(* reclaim must leave the stake claims covered) and the registry's        *)
(* Unfreeze change the inputs of later elections but trigger none.        *)
(***************************************************************************)
EscrowTx(e, delta) ==
    /\ stage = "txs"
    /\ stake[e] + delta \in 0..MaxStake
    /\ delta < 0 => stake[e] + delta >= ClaimThreshold
    /\ stake' = [stake EXCEPT ![e] = @ + delta]
    /\ UNCHANGED <<epoch, frozen, pending, current, engine, stage, halted, lastElection, committees>>

Unfreeze(n) ==
    /\ stage = "txs"
    /\ frozen[n]
    /\ frozen' = [frozen EXCEPT ![n] = FALSE]
    /\ UNCHANGED <<epoch, stake, pending, current, engine, stage, halted, lastElection, committees>>

\* Mutant: validators that left the set are not removed.
DiffValidatorsNoRemoval(cur, pen) ==
    {<<v, pen[v]>> : v \in {w \in DOMAIN pen : ~(w \in DOMAIN cur /\ cur[w] = pen[w])}}

\* diffValidators: removals (power 0) for keys gone from the set, upserts
\* for new keys and for keys whose power changed.
DiffValidators(cur, pen) ==
    {<<v, 0>> : v \in DOMAIN cur \ DOMAIN pen}
    \cup {<<v, pen[v]>> : v \in {w \in DOMAIN pen : ~(w \in DOMAIN cur /\ cur[w] = pen[w])}}

\* The engine applies an update list: power 0 removes, anything else upserts.
ApplyUpdates(eng, ups) ==
    LET removed == {u[1] : u \in {x \in ups : x[2] = 0}}
        upserts == {x \in ups : x[2] # 0}
        keys    == (DOMAIN eng \ removed) \cup {u[1] : u \in upserts}
    IN  [v \in keys |-> IF \E u \in upserts : u[1] = v
                        THEN (CHOOSE u \in upserts : u[1] = v)[2]
                        ELSE eng[v]]

\* EndBlock: nothing to do without pending validators; otherwise clear the
\* pending slot, return the diff and stash the new current set.
EndBlock ==
    /\ stage = "txs"
    /\ stage' = "begin"
    /\ IF pending = NoValidators
       THEN UNCHANGED <<pending, current, engine>>
       ELSE /\ engine' = ApplyUpdates(engine, DiffValidators(current, pending))
            /\ current' = pending
            /\ pending' = NoValidators
    /\ UNCHANGED <<epoch, stake, frozen, halted, lastElection, committees>>

\* A halted chain produces no more blocks.
Halt == halted /\ UNCHANGED vars

Init ==
    /\ epoch = BaseEpoch
    /\ stake = InitStake
    /\ frozen = [n \in Nodes |-> FALSE]
    /\ pending = NoValidators
    /\ current = InitValidators
    /\ engine = InitValidators
    /\ stage = "begin"
    /\ halted = FALSE
    /\ lastElection = [stake |-> InitStake, eligible |-> {}, ents |-> {}, vals |-> NoValidators]
    /\ committees = [rt \in Runtimes |-> NoCommittee]

Next ==
    \/ BeginBlock
    \/ \E e \in Entities, delta \in {-1, 1} : EscrowTx(e, delta)
    \/ \E n \in Nodes : Unfreeze(n)
    \/ EndBlock
    \/ Halt

Spec == Init /\ [][Next]_vars

-----------------------------------------------------------------------------
TypeOK ==
    /\ epoch \in BaseEpoch..MaxEpoch
    /\ stake \in [Entities -> 0..MaxStake]
    /\ frozen \in [Nodes -> BOOLEAN]
    /\ {pending, current, engine} \subseteq ValidatorSets
    /\ stage \in {"begin", "txs"}
    /\ halted \in BOOLEAN
    /\ committees \in [Runtimes -> [workers : SUBSET ComputeNodes, backups : SUBSET ComputeNodes]]

\* EndBlock's diff, applied by the engine, leaves the engine with exactly
\* the validator set the scheduler records as current, powers included.
EngineMatchesCurrent == engine = current

\* Every validator set the scheduler produces (pending, and current once an
\* election has run) has between MinValidators and MaxValidators members.
ValidatorBounds ==
    \A vs \in {pending, current} \ {NoValidators} :
        Cardinality(DOMAIN vs) \in MinValidators..MaxValidators

\* The last election passed over an eligible entity only when the set was
\* already full, and every entity it elected had at least that escrow.
ElectionFollowsStake ==
    ~DebugBypassStake =>
        \A e \in lastElection.eligible \ lastElection.ents :
            /\ IsFull(lastElection.vals)
            /\ \A f \in lastElection.ents : lastElection.stake[f] >= lastElection.stake[e]

\* Outside the base epoch, a node frozen for misbehaviour is no longer in
\* the current validator set once its block has ended: the slashing's
\* TakeEscrowEvent triggered a re-election that filters frozen nodes.
FrozenNotValidating ==
    (stage = "begin" /\ ~halted /\ epoch # BaseEpoch) =>
        \A n \in DOMAIN current : ~frozen[n]

\* The eligibility rule of spec.md 4.3, stated on its own: the node has the
\* compute role, is not frozen or suspended for the runtime, runs the
\* version of the runtime's active deployment, and has the runtime's TEE
\* hardware with a verifying attestation, or no TEE when the runtime has none.
ServesRuntime(n, rt, ep) ==
    /\ n \in ComputeNodes
    /\ ~frozen[n]
    /\ SuspendedUntil[n][rt] <= ep
    /\ ActiveVersion[rt][ep] \in NodeRuntimes[n][rt] \ {NoDeployment}
    /\ NodeTEE[n][rt].hw = RuntimeTEE[rt]
    /\ RuntimeTEE[rt] # "none" => NodeTEE[n][rt].verifies

\* Every member of every executor committee can serve its runtime in the
\* current epoch, by the rule above, and is not expired.  Committees are
\* elected in the first block of each epoch, when deployments and
\* suspensions change, and again in a block whose evidence slashed, so a
\* committee elected under one epoch's rules or before a freeze must not
\* outlive them.
CommitteesSuitable ==
    ~halted =>
        \A rt \in Runtimes : \A n \in Members(committees[rt]) :
            /\ ServesRuntime(n, rt, epoch)
            /\ ~IsExpired(n, epoch)

=============================================================================
