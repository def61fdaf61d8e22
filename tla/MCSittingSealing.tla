-------------------------- MODULE MCSittingSealing --------------------------
(***************************************************************************)
(* Instances of SittingSealing.                                            *)
(***************************************************************************)
EXTENDS SittingSealing, TLC

=============================================================================
