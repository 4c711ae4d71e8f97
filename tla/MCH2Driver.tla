----------------------------- MODULE MCH2Driver -----------------------------
(* H2Driver for TLC.                                                       *)
EXTENDS H2Driver, TLC

(* Requests that are neither the first one nor uploads are interchangeable. *)
Symmetry == Permutations(Req \ (Uploads \union {First}))
=============================================================================
