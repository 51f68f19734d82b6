---------------------------- MODULE MCJitoCalls ----------------------------
(* An instance of the block engine's callers for TLC.                      *)
EXTENDS JitoCalls

CONSTANTS driver, sweeper, warmer, p1

BothSenders == {driver, sweeper}
OnePoller == {p1}
AllCallers == {driver, sweeper, warmer, p1}
=============================================================================
