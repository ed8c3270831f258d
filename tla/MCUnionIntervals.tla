-------------------------- MODULE MCUnionIntervals --------------------------
(***************************************************************************)
(* Bounds for the run of UnionIntervals.                                   *)
(***************************************************************************)
EXTENDS UnionIntervals

\* Room for four intervals that do not touch, and ranges on either side.
NineBounds == -3..5
=============================================================================
