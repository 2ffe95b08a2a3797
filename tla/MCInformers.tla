----------------------------- MODULE MCInformers -----------------------------
(* A small instance of Informers for TLC. *)
EXTENDS Informers

CONSTANTS p1, p2, t1, t2, ctx1, ctx2
=============================================================================
