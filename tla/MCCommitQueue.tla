--------------------------- MODULE MCCommitQueue ---------------------------
(* Model-checking instances of CommitQueue: two threads that may reset at  *)
(* the same time, and a list of two.  The proof module brings the          *)
(* inductive invariant, so that TLC looks at it too.                       *)
EXTENDS CommitQueue_proofs
=============================================================================
