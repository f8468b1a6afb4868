--------------------------- MODULE UpgradeManager ---------------------------
(***************************************************************************)
(* The node upgrade manager of go/upgrade/upgrade.go together with the    *)
(* node around it: the process that starts (New with checkStatus, then    *)
(* StartupUpgrade), executes blocks (ConsensusUpgrade at every block),    *)
(* serves SubmitDescriptor and CancelUpgrade, stops for an upgrade,       *)
(* crashes, and is restarted with the old or with the new binary.         *)
(*                                                                         *)
(* Every method runs under the manager's mutex, so each is one atomic     *)
(* step on the in-memory state.  The persisted pending list (the          *)
(* "descriptors" key of the service store) survives a crash, the memory   *)
(* does not.  A crash may also hit ConsensusUpgrade between the flush     *)
(* that stamps the upgrade height and its return, and between its return  *)
(* and the block's commit.                                                *)
(***************************************************************************)
EXTENDS Naturals, FiniteSets, SequencesExt

CONSTANTS
  Descriptors,      \* upgrade descriptors (model values)
  DescEpoch,        \* [Descriptors -> Nat]: Descriptor.Epoch
  OldCompatible,    \* descriptors the old binary is compatible with and
                    \* has the migration handler of
  NeedsStartup,     \* descriptors whose handler HasStartupUpgrade
  BlocksPerEpoch,   \* heights per epoch (epoch of height h is h \div it)
  MaxHeight,        \* last height a block is executed at
  LastSubmitHeight, \* operators submit descriptors up to this height
  MaxInterruptions, \* crashes and operator shutdowns the environment injects
  FlushCanFail,     \* the API calls whose flush may fail: SUBSET {"submit", "cancel"}
  MaxFlushFailures  \* failed store writes the environment injects

ASSUME LastSubmitHeight < MaxHeight
ASSUME \A d \in Descriptors : DescEpoch[d] <= LastSubmitHeight \div BlocksPerEpoch

Startup == "startup"
Consensus == "consensus"
InvalidUpgradeHeight == 0

VARIABLES
  phase,       \* "down" | "started" (New returned) | "running" (StartupUpgrade done)
  newBinary,   \* the running binary is the upgraded one
  pending,     \* u.pending: the descriptors, in order
  mem,         \* [Descriptors -> [height, stages]]: the PendingUpgrade records
  shouldStop,  \* u.shouldStop
  stored,      \* the persisted list: a sequence of [desc, height, stages]
  height,      \* height of the next block the node executes
  interruptions, \* crashes and shutdowns other than for an upgrade so far
  migratedAt,  \* history: [Descriptors -> heights of committed blocks in
               \* which the descriptor's consensus migration ran]
  done,        \* history: descriptors dropped as completed since their
               \* last submission
  acked,       \* the operator's view: descriptors SubmitDescriptor answered
               \* with success or ErrAlreadyPending and no successful
               \* CancelUpgrade has answered since
  flushFailures \* store writes of API calls that failed so far

api == <<acked, flushFailures>>
vars == <<phase, newBinary, pending, mem, shouldStop, stored, height,
          interruptions, migratedAt, done, api>>

Heights == 1..MaxHeight
Stages == {Startup, Consensus}
Record == [height : {InvalidUpgradeHeight} \cup Heights, stages : SUBSET Stages]
Fresh == [height |-> InvalidUpgradeHeight, stages |-> {}]
EpochOf(h) == h \div BlocksPerEpoch

\* PendingUpgrade.IsCompleted: every stage recorded.
IsCompleted(r) == r.stages = Stages

\* Descriptor.EnsureCompatible and migrations.GetHandler for the running binary.
Compatible(d) == newBinary \/ d \in OldCompatible

\* The persisted form of a pending list.
Persisted(p, m) == [i \in 1..Len(p) |-> [desc |-> p[i]] @@ m[p[i]]]

(***************************************************************************)
(* flushDescriptorLocked: drop completed upgrades, then delete the key    *)
(* when nothing is left or write the whole list.  Returns the new         *)
(* pending list, the new store and the descriptors dropped.               *)
(***************************************************************************)
Flush(p, m) ==
  LET kept == SelectSeq(p, LAMBDA d : ~IsCompleted(m[d]))
  IN [pending |-> kept, stored |-> Persisted(kept, m),
      dropped |-> ToSet(p) \ ToSet(kept)]

(***************************************************************************)
(* Node lifecycle.                                                         *)
(***************************************************************************)
\* New(..., checkStatus = true) on a process start with either binary: load
\* the list, fail the start if a stamped upgrade is incompatible with the
\* binary or has no handler in it, else flush.
Start(bin) ==
  LET p == [i \in 1..Len(stored) |-> stored[i].desc]
      m == [d \in Descriptors |->
              IF \E i \in 1..Len(stored) : stored[i].desc = d
              THEN LET i == CHOOSE j \in 1..Len(stored) : stored[j].desc = d
                   IN [height |-> stored[i].height, stages |-> stored[i].stages]
              ELSE Fresh]
      ok == \A d \in ToSet(p) :
              IsCompleted(m[d]) \/ m[d].height = InvalidUpgradeHeight
              \/ bin \/ d \in OldCompatible
      f == Flush(p, m)
  IN /\ phase = "down"
     /\ newBinary' = bin
     /\ IF ok
        THEN /\ phase' = "started"
             /\ pending' = f.pending
             /\ mem' = m
             /\ stored' = f.stored
             /\ done' = done \cup f.dropped
        ELSE UNCHANGED <<phase, pending, mem, stored, done>>
     /\ shouldStop' = FALSE
     /\ UNCHANGED <<height, interruptions, migratedAt, api>>

\* StartupUpgrade that records the stages without flushing them.
StartupUpgradeNoFlush ==
  LET m == [d \in Descriptors |->
              IF d \in ToSet(pending) /\ mem[d].height # InvalidUpgradeHeight
              THEN [mem[d] EXCEPT !.stages = @ \cup {Startup}]
              ELSE mem[d]]
  IN /\ phase = "started"
     /\ phase' = "running"
     /\ mem' = m
     /\ UNCHANGED <<pending, stored, done, newBinary, shouldStop, height,
                    interruptions, migratedAt, api>>

\* StartupUpgrade: run the startup stage of every stamped upgrade that has
\* not recorded it (the handler exists: Start checked it), then flush.
StartupUpgrade ==
  LET m == [d \in Descriptors |->
              IF d \in ToSet(pending) /\ mem[d].height # InvalidUpgradeHeight
              THEN [mem[d] EXCEPT !.stages = @ \cup {Startup}]
              ELSE mem[d]]
      f == Flush(pending, m)
  IN /\ phase = "started"
     /\ phase' = "running"
     /\ mem' = m
     /\ pending' = f.pending
     /\ stored' = f.stored
     /\ done' = done \cup f.dropped
     /\ UNCHANGED <<newBinary, shouldStop, height, interruptions, migratedAt, api>>

ClearMemory ==
  /\ phase' = "down"
  /\ pending' = <<>>
  /\ mem' = [d \in Descriptors |-> Fresh]
  /\ shouldStop' = FALSE

\* Close, when the node shuts down: flush.  Exiting after StopForUpgrade is
\* the node's own doing; any other shutdown is an interruption.
Close ==
  LET f == Flush(pending, mem)
  IN /\ phase # "down"
     /\ shouldStop \/ interruptions < MaxInterruptions
     /\ interruptions' = IF shouldStop THEN interruptions ELSE interruptions + 1
     /\ stored' = f.stored
     /\ done' = done \cup f.dropped
     /\ ClearMemory
     /\ UNCHANGED <<newBinary, height, migratedAt, api>>

\* The process dies between two calls: the memory is lost.
Crash ==
  /\ phase # "down"
  /\ interruptions < MaxInterruptions
  /\ interruptions' = interruptions + 1
  /\ ClearMemory
  /\ UNCHANGED <<newBinary, stored, height, migratedAt, done, api>>

(***************************************************************************)
(* Control API.                                                           *)
(***************************************************************************)
\* flushDescriptorLocked failing: the store keeps its value (the write of
\* the single key is atomic), memory keeps the trimmed list.
FlushFails(call) ==
  /\ call \in FlushCanFail
  /\ flushFailures < MaxFlushFailures
  /\ flushFailures' = flushFailures + 1

\* SubmitDescriptor without the ErrAlreadyPending loop.
SubmitDescriptorNoDedup(d) ==
  LET f == Flush(Append(pending, d), [mem EXCEPT ![d] = Fresh])
  IN /\ phase = "running"
     /\ height <= LastSubmitHeight
     /\ pending' = f.pending
     /\ mem' = [mem EXCEPT ![d] = Fresh]
     /\ done' = (done \ {d}) \cup f.dropped
     /\ \/ stored' = f.stored /\ acked' = acked \cup {d} /\ UNCHANGED flushFailures
        \/ FlushFails("submit") /\ UNCHANGED <<stored, acked>>
     /\ UNCHANGED <<phase, newBinary, shouldStop, height, interruptions, migratedAt>>

\* SubmitDescriptor: answer ErrAlreadyPending for a descriptor equal to a
\* pending one; else append it and flush.  A failed flush is returned as
\* the error, with the descriptor left in u.pending.
SubmitDescriptor(d) ==
  LET f == Flush(Append(pending, d), [mem EXCEPT ![d] = Fresh])
  IN /\ phase = "running"
     /\ height <= LastSubmitHeight
     /\ \/ /\ d \in ToSet(pending)
           /\ acked' = acked \cup {d}
           /\ UNCHANGED <<pending, mem, stored, done, flushFailures>>
        \/ /\ d \notin ToSet(pending)
           /\ pending' = f.pending
           /\ mem' = [mem EXCEPT ![d] = Fresh]
           /\ done' = (done \ {d}) \cup f.dropped
           /\ \/ stored' = f.stored /\ acked' = acked \cup {d} /\ UNCHANGED flushFailures
              \/ FlushFails("submit") /\ UNCHANGED <<stored, acked>>
     /\ UNCHANGED <<phase, newBinary, shouldStop, height, interruptions, migratedAt>>

\* CancelUpgrade without the ErrUpgradeInProgress check.
CancelUpgradeAnyTime(d) ==
  LET f == Flush(SelectSeq(pending, LAMBDA x : x # d), mem)
  IN /\ phase = "running"
     /\ \/ /\ pending' = f.pending
           /\ stored' = f.stored
           /\ done' = done \cup f.dropped
           /\ acked' = acked \ {d}
           /\ UNCHANGED flushFailures
        \/ FlushFails("cancel") /\ UNCHANGED <<pending, stored, done, acked>>
     /\ UNCHANGED <<phase, newBinary, mem, shouldStop, height, interruptions, migratedAt>>

\* CancelUpgrade that does not restore u.pending when the flush fails.
CancelUpgradeNoRollback(d) ==
  LET inProgress == \E i \in 1..Len(pending) :
                      /\ pending[i] = d
                      /\ mem[d].height # InvalidUpgradeHeight \/ mem[d].stages # {}
      f == Flush(SelectSeq(pending, LAMBDA x : x # d), mem)
  IN /\ phase = "running"
     /\ Len(pending) > 0 => ~inProgress
     /\ pending' = f.pending
     /\ done' = done \cup f.dropped
     /\ \/ stored' = f.stored /\ acked' = acked \ {d} /\ UNCHANGED flushFailures
        \/ FlushFails("cancel") /\ UNCHANGED <<stored, acked>>
     /\ UNCHANGED <<phase, newBinary, mem, shouldStop, height, interruptions, migratedAt>>

\* CancelUpgrade: with nothing pending only flush; refuse an upgrade that
\* has a height or a stage (ErrUpgradeInProgress, no step); else drop it
\* and flush, restoring the old u.pending when the flush fails.
CancelUpgrade(d) ==
  LET inProgress == \E i \in 1..Len(pending) :
                      /\ pending[i] = d
                      /\ mem[d].height # InvalidUpgradeHeight \/ mem[d].stages # {}
      f == Flush(SelectSeq(pending, LAMBDA x : x # d), mem)
  IN /\ phase = "running"
     /\ Len(pending) > 0 => ~inProgress
     /\ \/ /\ pending' = f.pending
           /\ stored' = f.stored
           /\ done' = done \cup f.dropped
           /\ acked' = acked \ {d}
           /\ UNCHANGED flushFailures
        \/ FlushFails("cancel") /\ UNCHANGED <<pending, stored, done, acked>>
     /\ UNCHANGED <<phase, newBinary, mem, shouldStop, height, interruptions, migratedAt>>

(***************************************************************************)
(* ConsensusUpgrade, called with the epoch and height of every block the  *)
(* node executes.  The loop runs over the pending list as it was on       *)
(* entry; s is [mem, pending, stored, dropped, res, ran, flushes]: res is  *)
(* "ok", "stop" (ErrStopForUpgrade) or "panic", ran the descriptors whose *)
(* consensus migration handler ran, flushes the stores written by the     *)
(* flushes inside the loop.                                               *)
(***************************************************************************)
\* A shouldStop closure that forgets EnsureCompatible.
CanProceedInPlaceNoCompat(d) == d \notin NeedsStartup

\* The closure deciding shouldStop: proceed in place only with a compatible
\* binary that has the handler and a handler without a startup stage.
CanProceedInPlace(d) == Compatible(d) /\ d \notin NeedsStartup

\* Proceeding in place without pushing the startup stage.
StampHeightNoStartupStage(s, d) ==
  LET m1 == [s.mem EXCEPT ![d].height = height]
      f == Flush(s.pending, m1)
      stop == ~CanProceedInPlace(d)
  IN [s EXCEPT !.mem = m1, !.pending = f.pending, !.stored = f.stored,
              !.dropped = @ \cup f.dropped, !.res = IF stop THEN "stop" ELSE "ok",
              !.flushes = @ \cup {f.stored}]

\* Lines 274-306: stamp the height, flush, and either stop or record the
\* startup stage in memory and carry on.
StampHeight(s, d) ==
  LET m1 == [s.mem EXCEPT ![d].height = height]
      f == Flush(s.pending, m1)
      stop == ~CanProceedInPlace(d)
  IN [s EXCEPT !.mem = IF stop THEN m1
                       ELSE [m1 EXCEPT ![d].stages = @ \cup {Startup}],
              !.pending = f.pending,
              !.stored = f.stored,
              !.dropped = @ \cup f.dropped,
              !.res = IF stop THEN "stop" ELSE "ok",
              !.flushes = @ \cup {f.stored}]

\* The past-height test written with <=.
ApplyAtHeightAtOrPast(s, d) ==
  LET h == s.mem[d].height
  IN IF h <= height THEN [s EXCEPT !.mem[d].stages = @ \cup {Consensus}]
     ELSE [s EXCEPT !.res = "panic"]

\* Lines 308-331: record the consensus stage once past the upgrade height,
\* run the consensus migration at it.
ApplyAtHeight(s, d) ==
  LET h == s.mem[d].height
  IN IF h < height THEN [s EXCEPT !.mem[d].stages = @ \cup {Consensus}]
     ELSE IF h > height THEN [s EXCEPT !.res = "panic"]
     ELSE IF Consensus \notin s.mem[d].stages THEN [s EXCEPT !.ran = @ \cup {d}]
     ELSE s

\* An iteration that compares the epoch one too early.
UpgradeStepEarly(s, d) ==
  IF s.res # "ok" THEN s
  ELSE IF s.mem[d].height = InvalidUpgradeHeight /\ EpochOf(height) + 1 < DescEpoch[d]
  THEN s
  ELSE LET s1 == IF s.mem[d].height = InvalidUpgradeHeight
                 THEN StampHeight(s, d) ELSE s
       IN IF s1.res # "ok" THEN s1 ELSE ApplyAtHeight(s1, d)

\* One iteration: an upgrade whose epoch is not reached is skipped.
UpgradeStep(s, d) ==
  IF s.res # "ok" THEN s
  ELSE IF s.mem[d].height = InvalidUpgradeHeight /\ EpochOf(height) < DescEpoch[d]
  THEN s
  ELSE LET s1 == IF s.mem[d].height = InvalidUpgradeHeight
                 THEN StampHeight(s, d) ELSE s
       IN IF s1.res # "ok" THEN s1 ELSE ApplyAtHeight(s1, d)

\* The whole call: the loop, then the final flush when it ran through.
ConsensusUpgradeResult ==
  LET s == FoldLeft(UpgradeStep,
                    [mem |-> mem, pending |-> pending, stored |-> stored,
                     dropped |-> {}, res |-> "ok", ran |-> {}, flushes |-> {}],
                    pending)
      f == Flush(s.pending, s.mem)
  IN IF s.res # "ok" THEN s
     ELSE [s EXCEPT !.pending = f.pending, !.stored = f.stored,
                    !.dropped = @ \cup f.dropped]

\* A block: BeginBlock calls ConsensusUpgrade; the block commits when it
\* returns normally, the node stops (the block uncommitted) on
\* ErrStopForUpgrade, and a panic kills the process.  A re-entry after
\* shouldStop only returns ErrStopForUpgrade, so no block executes then.
BlockEnabled == phase = "running" /\ ~shouldStop /\ height <= MaxHeight

ExecuteBlock ==
  LET s == ConsensusUpgradeResult
  IN /\ BlockEnabled
     /\ stored' = s.stored
     /\ done' = done \cup s.dropped
     /\ CASE s.res = "ok" ->
               /\ height' = height + 1
               /\ migratedAt' = [d \in Descriptors |->
                                   IF d \in s.ran THEN migratedAt[d] \cup {height}
                                   ELSE migratedAt[d]]
               /\ mem' = s.mem /\ pending' = s.pending
               /\ UNCHANGED <<phase, shouldStop>>
          [] s.res = "stop" ->
               /\ shouldStop' = TRUE
               /\ mem' = s.mem /\ pending' = s.pending
               /\ UNCHANGED <<phase, height, migratedAt>>
          [] s.res = "panic" ->
               /\ ClearMemory
               /\ UNCHANGED <<height, migratedAt>>
     /\ UNCHANGED <<newBinary, interruptions, api>>

\* The process dies inside a block: after a flush in the loop, or after
\* ConsensusUpgrade returned and before the block committed.
CrashInBlock ==
  LET s == ConsensusUpgradeResult
  IN /\ BlockEnabled
     /\ interruptions < MaxInterruptions
     /\ interruptions' = interruptions + 1
     /\ \E st \in s.flushes \cup (IF s.res = "ok" THEN {s.stored} ELSE {}) :
          /\ stored' = st
          /\ done' = done \cup (ToSet(pending) \ {st[i].desc : i \in 1..Len(st)})
     /\ ClearMemory
     /\ UNCHANGED <<newBinary, height, migratedAt, api>>

Next ==
  \/ \E bin \in BOOLEAN : Start(bin)
  \/ StartupUpgrade
  \/ Close
  \/ Crash
  \/ \E d \in Descriptors : SubmitDescriptor(d)
  \/ \E d \in Descriptors : CancelUpgrade(d)
  \/ ExecuteBlock
  \/ CrashInBlock

Init ==
  /\ phase = "down"
  /\ newBinary = FALSE
  /\ pending = <<>>
  /\ mem = [d \in Descriptors |-> Fresh]
  /\ shouldStop = FALSE
  /\ stored = <<>>
  /\ height = 1
  /\ interruptions = 0
  /\ migratedAt = [d \in Descriptors |-> {}]
  /\ done = {}
  /\ acked = {}
  /\ flushFailures = 0

Spec == Init /\ [][Next]_vars

(***************************************************************************)
(* Properties.                                                            *)
(***************************************************************************)
TypeOK ==
  /\ phase \in {"down", "started", "running"}
  /\ newBinary \in BOOLEAN /\ shouldStop \in BOOLEAN
  /\ pending \in Seq(Descriptors) /\ IsInjective(pending)
  /\ mem \in [Descriptors -> Record]
  /\ stored \in Seq([desc : Descriptors, height : {InvalidUpgradeHeight} \cup Heights,
                      stages : SUBSET Stages])
  /\ height \in 1..(MaxHeight + 1)
  /\ interruptions \in 0..MaxInterruptions
  /\ migratedAt \in [Descriptors -> SUBSET Heights]
  /\ done \subseteq Descriptors
  /\ acked \subseteq Descriptors
  /\ flushFailures \in 0..MaxFlushFailures

InStore(d) == \E i \in 1..Len(stored) : stored[i].desc = d
Stamped(d) == \E i \in 1..Len(stored) :
                stored[i].desc = d /\ stored[i].height # InvalidUpgradeHeight

\* Every call of a running manager leaves the persisted list equal to the
\* in-memory one minus completed entries: no stage pushed in memory (the
\* in-place startup stage, the consensus stage) is lost by a later crash.
StoreMatchesMemory ==
  phase # "down" => stored = Flush(pending, mem).stored

\* The old binary never executes past an upgrade: a block is committed at
\* or after a pending descriptor's epoch only by a binary compatible with
\* it (ConsensusUpgrade stops the old one; New refuses to restart it).
OldBinaryStops ==
  [][height' = height + 1 =>
       \A d \in ToSet(pending) :
         EpochOf(height) >= DescEpoch[d] => Compatible(d)]_vars

\* An upgrade is dropped as completed only after its consensus migration
\* ran in a committed block.
CompletedOnlyAfterMigration ==
  \A d \in done : migratedAt[d] # {}

\* The consensus migration runs in a committed block only with the startup
\* stage recorded, i.e. after the new binary's startup migration (or in
\* place, where there is none).
StartupBeforeConsensus ==
  [][\A d \in Descriptors :
       migratedAt'[d] # migratedAt[d] => Startup \in mem'[d].stages]_vars

\* What the operator was told is what survives: every descriptor that
\* SubmitDescriptor accepted or answered ErrAlreadyPending for, and that no
\* CancelUpgrade has removed, is in the persisted list or has completed,
\* across failed flushes of SubmitDescriptor and CancelUpgrade, later
\* flushes by ConsensusUpgrade, and crashes.
AckedIsPersisted ==
  \A d \in acked : InStore(d) \/ d \in done

(***************************************************************************)
(* Refinement: the persisted list, read through the stage table, moves    *)
(* as UpgradeLifecycle allows.  A descriptor's abstract status is that of *)
(* its persisted record, "done" once dropped as completed, else "none".   *)
(***************************************************************************)
StoredRecord(d) == stored[CHOOSE i \in 1..Len(stored) : stored[i].desc = d]

LifecycleStatus ==
  [d \in Descriptors |->
     IF InStore(d)
     THEN IF StoredRecord(d).height = InvalidUpgradeHeight THEN "submitted"
          ELSE IF Startup \in StoredRecord(d).stages THEN "startup"
          ELSE "stamped"
     ELSE IF d \in done THEN "done" ELSE "none"]

Lifecycle == INSTANCE UpgradeLifecycle WITH status <- LifecycleStatus

\* The persisted upgrade state follows the spec's stage table whatever the
\* node does between flushes (crashes inside ConsensusUpgrade, restarts
\* with either binary, StopForUpgrade, cancellations): stamped only once
\* the epoch is reached, never cancelled once stamped, completed only
\* after the startup stage and in a block after the stamp.
LifecycleRefined == Lifecycle!Spec

\* The spec's transition table: ConsensusUpgrade at currentHeight ==
\* UpgradeHeight takes the upgrade to Consensus-done, so the block that
\* runs the consensus migration commits with that stage recorded.
ConsensusDoneAtUpgradeHeight ==
  [][\A d \in Descriptors :
       migratedAt'[d] # migratedAt[d] => Consensus \in mem'[d].stages]_vars

\* Once stamped, an upgrade completes: the node stops, is restarted with
\* the new binary, runs the migrations and drops the entry.
UpgradeCompletes ==
  \A d \in Descriptors : Stamped(d) ~> (d \in done /\ ~Stamped(d))

\* The node's own progress: it executes blocks, exits after
\* StopForUpgrade and finishes starting up; the operator eventually starts
\* the new binary.  Weak fairness of ExecuteBlock is written out with
\* BlockEnabled, which is ENABLED <<ExecuteBlock>>_vars: each of its three
\* outcomes changes the state.
Fairness ==
  /\ []<>~BlockEnabled \/ []<><<ExecuteBlock>>_vars
  /\ WF_vars(shouldStop /\ Close)
  /\ WF_vars(StartupUpgrade)
  /\ WF_vars(Start(TRUE))

FairSpec == Spec /\ Fairness

=============================================================================
