-------------------------- MODULE MCBundleManager --------------------------
(***************************************************************************)
(* Two Queue callers; runtime r1 is followed, r2 is not.  h1 and h2 are    *)
(* bundles of r1, h3 a bundle of r2.  The configuration names h1; the     *)
(* cfg decides which bundles the directory starts with (h2 and h3 in      *)
(* MCBundleManager.cfg), so start-up both keeps and removes bundles.      *)
(***************************************************************************)
EXTENDS BundleManager, TLC

CONSTANTS c1, c2, r1, r2, h1, h2, h3

MCManifestRuntime == (h1 :> r1) @@ (h2 :> r1) @@ (h3 :> r2)
=============================================================================
