------------------------------ MODULE MCReview ------------------------------
(***************************************************************************)
(* SubmissionReview for TLC.  Requests and goroutines are interchangeable. *)
(***************************************************************************)
EXTENDS SubmissionReview, TLC

Interchangeable == Permutations(Process)
=============================================================================
