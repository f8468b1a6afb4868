------------------------- MODULE MCUpgradeManager -------------------------
(***************************************************************************)
(* Three descriptors: d1 for epoch 1, which the old binary cannot run and   *)
(* whose handler has a startup stage (the node must stop and restart),    *)
(* d2 for epoch 2, which the old binary can run in place, and d3 for an   *)
(* epoch already past, which the old binary cannot run but whose handler  *)
(* has no startup stage.  Two blocks per epoch, seven heights, one      *)
(* crash or shutdown.                                                  *)
(***************************************************************************)
EXTENDS UpgradeManager

CONSTANTS d1, d2, d3

MCDescriptors == {d1, d2, d3}
MCDescEpoch == (d1 :> 1) @@ (d2 :> 2) @@ (d3 :> 0)
MCOldCompatible == {d2}
MCNeedsStartup == {d1}
=============================================================================
