------------------------------ MODULE MCFeeds ------------------------------
(* An instance of the feeds for TLC.                                        *)
EXTENDS Feeds

CONSTANTS t1, t2
TwoTxs == {t1, t2}
=============================================================================
