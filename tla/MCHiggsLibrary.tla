---------------------------- MODULE MCHiggsLibrary ----------------------------
(***************************************************************************)
(* Every combination of three calculators that run a library.  What a      *)
(* calculator would use with the other one only is left at one value.      *)
(***************************************************************************)
EXTENDS HiggsLibrary

MCConfigurations ==
    {c \in ConfigSet :
        /\ c.runHB \/ c.runHS
        /\ ~c.runHB => c.analyses = "LandH"
        /\ ~c.runHS => c.expData = "toys" /\ ~c.useInitial}
=============================================================================
