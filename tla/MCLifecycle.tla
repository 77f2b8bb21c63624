----------------------------- MODULE MCLifecycle -----------------------------
(***************************************************************************)
(* Small instances of Lifecycle.  Identities do not interact: one is        *)
(* enough, and the interesting part is how many calls act on it at once.   *)
(***************************************************************************)
EXTENDS Lifecycle, TLC

\* Calls in flight and sessions are interchangeable in the safety properties.
CallSymmetry == Permutations(Procs) \union Permutations(Sessions)
=============================================================================
