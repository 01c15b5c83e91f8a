-------------------------- MODULE MCHigherOrderChain --------------------------
(***************************************************************************)
(* The points of the plain chain, at two parameters.                       *)
(***************************************************************************)
EXTENDS HigherOrderChain

MCPoints == {"low", "high", "excluded", "outside"}
MCInBounds == MCPoints \ {"outside"}
MCChi2 == [p \in MCPoints |-> CASE p = "low" -> 0
                                [] p = "high" -> 1
                                [] p = "outside" -> 0
                                [] p = "excluded" -> Infinity]
\* A chain that goes on where it stopped, with and without strict bounds; one
\* every process of which is sent to a point inside, or to an infinite chi2; and
\* one whose first point is drawn as any other, also from outside strict bounds.
Unmoved == [p \in MCPoints |-> p]
SentTo(q) == [p \in MCPoints |-> q]
MCSteerings ==
    {[moves |-> FALSE, strict |-> FALSE, given |-> Unmoved],
     [moves |-> FALSE, strict |-> TRUE, given |-> Unmoved],
     [moves |-> FALSE, strict |-> FALSE, given |-> SentTo("high")],
     [moves |-> FALSE, strict |-> FALSE, given |-> SentTo("excluded")],
     [moves |-> TRUE, strict |-> FALSE, given |-> Unmoved],
     [moves |-> TRUE, strict |-> TRUE, given |-> SentTo("outside")]}
MCCoordinates == [p \in MCPoints |-> CASE p = "low" -> <<1, 2>>
                                       [] p = "high" -> <<3, -1>>
                                       [] p = "outside" -> <<9, 9>>
                                       [] p = "excluded" -> <<-2, 4>>]
=============================================================================
