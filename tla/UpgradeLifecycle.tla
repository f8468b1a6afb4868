-------------------------- MODULE UpgradeLifecycle --------------------------
(***************************************************************************)
(* What the upgrade manager promises about the upgrades it has persisted, *)
(* stated without memory, crashes, binaries or flushes: the descriptor    *)
(* table of spec.md section 4.6.  Each descriptor is absent, Submitted,   *)
(* AtHeight (height stamped), Startup-done, or Completed and removed.     *)
(* The height is stamped only once the descriptor's epoch is reached, a   *)
(* stamped upgrade can no longer be cancelled, and an upgrade completes   *)
(* only after its startup stage and in a later block than the one that   *)
(* stamped it.  One step may move several descriptors and the height      *)
(* together, as one block of the node does.                               *)
(***************************************************************************)
EXTENDS Naturals

CONSTANTS Descriptors, DescEpoch, BlocksPerEpoch, MaxHeight

VARIABLES
  status,  \* [Descriptors -> {"none", "submitted", "stamped", "startup", "done"}]
  height   \* the next block height

States == {"none", "submitted", "stamped", "startup", "done"}

EpochReached(d) == height \div BlocksPerEpoch >= DescEpoch[d]

\* The moves one descriptor may make in a step: submission (again after
\* completion), cancellation before the stamp, the stamp once the epoch is
\* reached (with the startup stage at once when the upgrade runs in
\* place), the startup stage, and completion.
Move(d, from, to) ==
  \/ from = to
  \/ from \in {"none", "done"} /\ to = "submitted"
  \/ from = "submitted" /\ to = "none"
  \/ from = "submitted" /\ to \in {"stamped", "startup"} /\ EpochReached(d)
  \/ from = "stamped" /\ to = "startup"
  \/ from = "startup" /\ to = "done"

Init ==
  /\ status = [d \in Descriptors |-> "none"]
  /\ height = 1

\* A step of the node: descriptors move along the table, and a block may
\* commit.  Completion happens in a block after the one that stamped: a
\* descriptor cannot be stamped and completed in the same step.
Next ==
  /\ height' \in {height, height + 1}
  /\ height' <= MaxHeight + 1
  /\ status' \in [Descriptors -> States]
  /\ \A d \in Descriptors : Move(d, status[d], status'[d])
  /\ <<status, height>>' # <<status, height>>

Spec == Init /\ [][Next]_<<status, height>>

=============================================================================
