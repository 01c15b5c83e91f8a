--------------------------- MODULE CalculatorSteps ---------------------------
(***************************************************************************)
(* The steps the CalculatePredictions methods of calculators/src are made  *)
(* of.  A calculator is the files CalculatorBase removes for it and a      *)
(* sequence of steps.  A file and a set of predictions are represented by  *)
(* the point they belong to, so of a step only matters what it makes of    *)
(* what, and what it does when something is missing.                       *)
(***************************************************************************)
EXTENDS Sequences

\* Where the numbers of a step come from, besides files: the parameters, the
\* predictions of the calculators before, the calculator's own predictions, and
\* whatever it has gathered since the process began.
Origins == {"parameters", "before", "own", "gathered"}

\* What is made of the ways a program can end: every status but 0 is looked at,
\* or some are; a completion timeout is set; any other failure of the Executor
\* becomes a CalculatorException as the timeout does; there is no Executor, the
\* shell starts the program.
Guards == {"status", "someStatus", "timeout", "anyFailure", "shell"}

\* What happens when a file cannot be opened (for writing too), or only half of it is there:
\* a CalculatorException, an exception nobody expects, the numbers of before
\* stay, every number becomes 0, the end of the file is read for ever.
Policies == {"throw", "die", "keep", "zero", "wait"}

Step(op, out, in, uses, guards, absent, torn) ==
    [op |-> op, out |-> out, in |-> in, uses |-> uses, guards |-> guards,
     absent |-> absent, torn |-> torn]

\* Files are removed or renamed.
Clear(out) == Step("clear", out, {}, {}, {}, "keep", "keep")

\* An InputFile is written from numbers the process has; it ends when it cannot.
Write(out, uses) == Step("write", out, {}, uses, {}, "die", "die")

\* Files are written through a stream, and nobody looks at whether it is open.
PrintTo(out, uses) == Step("write", out, {}, uses, {}, "keep", "keep")

\* A file is copied; without the original the copy is empty, or not touched.
Copy(out, in, absent) == Step("copy", out, in, {}, {}, absent, "keep")

\* An external program reads some files and writes others.
Run(out, in, uses, guards) == Step("run", out, in, uses, guards, "keep", "keep")

\* Files are read into the calculator's predictions.
Read(in, absent, torn) == Step("read", {}, in, {}, {}, absent, torn)

\* More files are read into the predictions that are not made yet.
ReadMore(in, absent, torn) == Step("read", {}, in, {"own"}, {}, absent, torn)

\* Numbers are calculated from numbers, and nothing can fail.
Formula(uses) == Step("read", {}, {}, uses, {}, "keep", "keep")

\* A library calculates the predictions, or it refuses to; when that is not
\* looked at ("keep"), some of the predictions are those of before.
Library(in, uses, absent, refused) == Step("library", {}, in, uses, {}, absent, refused)

\* A point is refused because of some numbers.
Test(uses) == Step("test", {}, {}, uses, {}, "keep", "keep")

\* The files CalculatorBase renames, and what CalculatePredictions does.
Program(clears, steps) == [clears |-> clears, steps |-> steps]
=============================================================================
