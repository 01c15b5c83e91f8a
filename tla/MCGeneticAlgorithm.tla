------------------------- MODULE MCGeneticAlgorithm -------------------------
(***************************************************************************)
(* One gene with three values, the one in the middle the fittest; two      *)
(* families.                                                               *)
(***************************************************************************)
EXTENDS GeneticAlgorithm

MCPoints == [{1} -> 0 .. 2]
MCChi2 == [p \in MCPoints |-> IF p[1] = 1 THEN 0 ELSE 1 + p[1] \div 2]
=============================================================================
