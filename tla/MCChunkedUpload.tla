--------------------------- MODULE MCChunkedUpload ---------------------------
(***************************************************************************)
(* Instances of ChunkedUpload for TLC.                                     *)
(***************************************************************************)
EXTENDS ChunkedUpload, TLC

\* The requests are interchangeable: no action and no property names one.
Symmetry == Permutations(Client)
=============================================================================
