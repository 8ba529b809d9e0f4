---------------------------- MODULE MCStrandedWork ----------------------------
(* Instances of StrandedWork.                                                *)
EXTENDS StrandedWork

CONSTANTS a1, c1
=============================================================================
