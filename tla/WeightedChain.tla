---------------------------- MODULE WeightedChain ----------------------------
(***************************************************************************)
(* What a Markov chain promises to whoever reads its output: one weight    *)
(* per proposed point, in the order the points were proposed.  The weight  *)
(* of an entry is the number of iterations the chain has stayed there, so  *)
(* a rejected proposal adds one to the weight of the point the chain stays *)
(* at and has itself the weight 0, at once, with nothing left pending.     *)
(* The first entry of a chain counts one, unless it repeats the end of an  *)
(* earlier chain: then it has been counted there already.                  *)
(*                                                                         *)
(* MarkovChain implements this specification: it keeps the weight and the  *)
(* number of rejected proposals in two counters and writes an entry only   *)
(* when the chain moves on.                                                *)
(***************************************************************************)
EXTENDS Naturals, Sequences

CONSTANT Points

VARIABLES
    weights,    \* the weight of every point proposed so far
    current,    \* the entry the chain is at; 0 when no chain is open
    position    \* the point the chain is at

wcVars == <<weights, current, position>>

WCTypeOK ==
    /\ weights \in Seq(Nat)
    /\ current \in Nat
    /\ position \in Points

WCInit ==
    /\ weights = <<>>
    /\ current = 0
    /\ position \in Points

\* A new chain starts at p; w is 0 when an earlier chain has counted p.
Open(p, w) ==
    /\ current = 0
    /\ weights = <<>>
    /\ weights' = <<w>>
    /\ current' = 1
    /\ position' = p

\* The proposal p becomes the current point.
Move(p) ==
    /\ current # 0
    /\ weights' = Append(weights, 1)
    /\ current' = Len(weights) + 1
    /\ position' = p

\* The proposal is rejected: the chain stays one more iteration.
Stay ==
    /\ current # 0
    /\ weights' = Append([weights EXCEPT ![current] = @ + 1], 0)
    /\ UNCHANGED <<current, position>>

\* The chain ends; its weights are final.
Close ==
    /\ current # 0
    /\ current' = 0
    /\ UNCHANGED <<weights, position>>

\* The output has been handed over, or lost with the process.
Discard ==
    /\ weights' = <<>>
    /\ current' = 0
    /\ position' \in Points

WCNext ==
    \/ \E p \in Points, w \in {0, 1} : Open(p, w)
    \/ \E p \in Points : Move(p)
    \/ Stay
    \/ Close
    \/ Discard

WCSpec == WCInit /\ [][WCNext]_wcVars
=============================================================================
