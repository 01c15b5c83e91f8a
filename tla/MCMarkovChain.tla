---------------------------- MODULE MCMarkovChain ----------------------------
(***************************************************************************)
(* Three points inside the bounds, one of them at an infinite chi2, and    *)
(* one outside with the best chi2 of all.                                  *)
(***************************************************************************)
EXTENDS MarkovChain

MCPoints == {"low", "high", "excluded", "outside"}
MCInBounds == MCPoints \ {"outside"}
MCChi2 == [p \in MCPoints |-> CASE p = "low" -> 0
                                [] p = "high" -> 1
                                [] p = "outside" -> 0
                                [] p = "excluded" -> Infinity]

\* The first point is drawn as any other; or every process is sent outside the
\* bounds, which are strict, from where a step of width 0 never leads back, or
\* are not.
Unmoved == [p \in MCPoints |-> p]
SentTo(q) == [p \in MCPoints |-> q]
MCSteerings ==
    {[moves |-> TRUE, strict |-> TRUE, given |-> Unmoved],
     [moves |-> FALSE, strict |-> TRUE, given |-> SentTo("outside")],
     [moves |-> FALSE, strict |-> FALSE, given |-> SentTo("outside")]}
=============================================================================
