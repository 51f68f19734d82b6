------------------------------- MODULE MCPath -------------------------------
(* An instance of the submission path for TLC.                              *)
EXTENDS PathProperties

CONSTANTS jitoOnly, bam, plain, sometimes

(* Group by group: a Block Engine leader, one that comes and goes, one that *)
(* may run BAM, and one without Jito.                                       *)
Rotation == <<jitoOnly, sometimes, bam, plain>>
TheSchedule ==
  [s \in 0 .. MaxSlot + Lookahead |-> Rotation[1 + ((s \div LEADER_SLOTS_PER_GROUP) % 4)]]

V(identity, isJito, isBam) == [identity |-> identity, jito |-> isJito, bam |-> isBam]
TheResponses ==
  {{V(jitoOnly, TRUE, FALSE), V(bam, TRUE, TRUE), V(sometimes, FALSE, TRUE), V(plain, FALSE, FALSE)},
   {V(jitoOnly, TRUE, FALSE), V(bam, TRUE, FALSE), V(sometimes, TRUE, FALSE), V(Unparsable, TRUE, FALSE)}}
=============================================================================
