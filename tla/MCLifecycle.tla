---------------------------- MODULE MCLifecycle -----------------------------
(* Instances of Lifecycle for TLC. *)
EXTENDS Lifecycle
CONSTANTS summer1, summer2
MCLaunch == <<summer1, summer2>>
=============================================================================
