------------------------ MODULE MCForwardPropagation ------------------------
(***************************************************************************)
(* ForwardPropagation over every dependency graph of three assumptions and *)
(* every batch of at most two paths.                                       *)
(***************************************************************************)
EXTENDS ForwardPropagation, TLC

CONSTANTS a1, a2, a3

MCAssumptions == {a1, a2, a3}
=============================================================================
