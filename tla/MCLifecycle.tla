---------------------------- MODULE MCLifecycle ----------------------------
(* Instances of the lifecycle tracker for TLC.                             *)
EXTENDS LifecycleProperties

CONSTANTS b1, b2

OneBundle == {b1}
TwoBundles == {b1, b2}
=============================================================================
