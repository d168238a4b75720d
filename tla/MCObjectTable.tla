---------------------------- MODULE MCObjectTable ----------------------------
(* Two slots with two usable generations, two types and up to two           *)
(* references.  A slot is retired up to twice, so its generations go all    *)
(* the way round.                                                           *)
EXTENDS ObjectTable
=============================================================================
