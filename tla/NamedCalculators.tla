--------------------------- MODULE NamedCalculators ---------------------------
(***************************************************************************)
(* What is expected of the calculators of the Catalogue by name, in        *)
(* whatever models they are put into.                                      *)
(***************************************************************************)
EXTENDS FileCalculators, Catalogue

\* These look at what their programs return and remove what is old.
Trusted == {SPhenoSLHA, FeynHiggsSLHA, FeynHiggs, FeynHiggsRescaling, Minimum, LHCNeuralNet}

\* What the input files see to: FeynHiggsSLHA comes after the SPheno whose
\* spectrum it reads, and what calculates from predictions only is not the first.
WellOrdered ==
    \A c \in Chains : \A i \in Calcs :
        /\ c[i] = FeynHiggsSLHA => \E j \in 1 .. i - 1 : c[j] = SPhenoSLHA
        /\ c[i] = FeynHiggsRescaling => i > 1

\* SPhenoSLHACalculator, FeynHiggsCalculator and the calculators that only
\* calculate never let a spectrum of another point into a finite chi2.
TrustedIsCurrent ==
    entry # NoEntry /\ entry.chi2.finite =>
        \A i \in Calcs :
            (\A j \in 1 .. i : chain[j] \in Trusted) => entry.chi2.of[i] = entry.par

\* SARAHSPhenoSLHACalculator: a point that violates unitarity has no finite chi2.
UnitarityIsRequired ==
    entry # NoEntry /\ entry.chi2.finite =>
        \A i \in Calcs : chain[i] = SARAHSPhenoSLHA => entry.chi2.of[i] \notin Rejected

\* SuperIsoCalculator.cpp:49 announces that it requires a neutralino as the
\* lightest supersymmetric particle: a point with a charged one has no finite
\* chi2.
ChargedLspIsRefused ==
    entry # NoEntry /\ entry.chi2.finite =>
        \A i \in Calcs : chain[i] = SuperIso => entry.chi2.of[i] \notin Rejected

\* Every program of these calculators has a completion timeout.
Timed == {SPhenoSLHA, SARAHSPhenoSLHA, SuperIso, FeynHiggsSLHA, AstroFit, Minimum, RPV, Flavio,
          LHCNeuralNet, Micromegas}

\* With them alone, every evaluation ends although no program has to.
EvaluationsEnd ==
    (\A i \in Calcs : chain[i] \in Timed) => (next # 0 ~> next = 0)
=============================================================================
