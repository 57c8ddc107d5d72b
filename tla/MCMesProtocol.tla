---------------------------- MODULE MCMesProtocol ----------------------------
(***************************************************************************)
(* TLC instance of MesProtocol: the first order takes two products, the    *)
(* others one.                                                             *)
(***************************************************************************)
EXTENDS MesProtocol, TLC

CONSTANTS c1, c2

MCQuantity == [w \in Orders |-> IF w = 1 THEN 2 ELSE 1]
MCSymmetry == Permutations(Clients)
=============================================================================
