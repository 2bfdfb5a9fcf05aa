--------------------------- MODULE MCHornMarking ---------------------------
(***************************************************************************)
(* All systems of NumClauses constraints over three points with one or two *)
(* premises each: chains, cycles, diamonds and self-loops.                 *)
(***************************************************************************)
EXTENDS HornMarking, FiniteSets, TLC

CONSTANTS a, b, c

Bodies == {B \in SUBSET {a, b, c} : Cardinality(B) \in 1 .. 2}

AllSystems == [body : [Clause -> Bodies], head : [Clause -> {a, b, c, FalseDp}]]
=============================================================================
