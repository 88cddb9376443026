----------------------------- MODULE MCGreenBag -----------------------------
(***************************************************************************)
(* The download engine on small files.  The instances are small, but none  *)
(* is degenerate: the file takes more than one segment, a segment takes    *)
(* several reads, and there are identifiers for recovery segments too.  A  *)
(* subsegment as long as the longest segment that is sure to exist meets   *)
(* the pipelining threshold with two bytes left, that is, before its last  *)
(* read if the next one returns one byte.                                  *)
(***************************************************************************)
EXTENDS GreenBag

Longest == IF FixedSegmentMode THEN InitSegSize ELSE Size - InitSegSize

ASSUME InstanceAssumption == /\ Size >= 2 * InitSegSize
                             /\ InitSegSize > BufferSize
                             /\ Longest \div PipelineFactor > 2
                             /\ MaxSegments > Size \div InitSegSize
=============================================================================
