----------------------------- MODULE MCCloudTask -----------------------------
(***************************************************************************)
(* Instances of CloudTask for TLC.                                         *)
(***************************************************************************)
EXTENDS CloudTask, TLC

\* Goroutines are interchangeable, and so are the requests to resume: no
\* action and no property names one.
Symmetry == Permutations(Worker) \cup Permutations(Resumer)
=============================================================================
