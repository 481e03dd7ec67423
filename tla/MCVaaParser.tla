----------------------------- MODULE MCVaaParser ----------------------------
(* VAAs with none to too many signatures, cut off at and around every field  *)
(* boundary.                                                                *)
EXTENDS VaaParser

MCLengths ==
  UNION {{Start(n, k) - 1, Start(n, k), Start(n, k) + 1} :
           n \in SigCounts, k \in 2..20}
=============================================================================
