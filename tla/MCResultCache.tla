--------------------------- MODULE MCResultCache ---------------------------
(* Three builds, two of which differ in what they compute but not in the   *)
(* size of a result.                                                       *)
EXTENDS ResultCache, TLC

CONSTANTS p1, p2, b1, b2, b3, k1, k2

MCSize == b1 :> 1 @@ b2 :> 1 @@ b3 :> 2
=============================================================================
