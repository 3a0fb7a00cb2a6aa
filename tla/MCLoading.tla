------------------------------ MODULE MCLoading ------------------------------
(* A small instance of Loading for TLC, and of the prompts it is made of.     *)
EXTENDS Loading, MCAwakening
=============================================================================
