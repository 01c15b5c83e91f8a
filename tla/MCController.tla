---------------------------- MODULE MCController ----------------------------
(***************************************************************************)
(* What an input file and the options may be.                              *)
(***************************************************************************)
EXTENDS Controller

OneTool == <<"sampler">>
TwoTools == <<"optimizer", "sampler">>
MCToolLists == {OneTool, TwoTools}
AllOrSome == {Procs, {CHOOSE p \in Procs : p \notin Validating}}
All == {Procs}
=============================================================================
