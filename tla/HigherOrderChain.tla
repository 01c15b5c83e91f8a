--------------------------- MODULE HigherOrderChain ---------------------------
(***************************************************************************)
(* samplers/src/HigherOrderMarkovChainSampler.cpp: a Markov chain that     *)
(* draws its proposals from the covariance of the points it accepted last. *)
(* The points are kept in a queue of bounded length, their first and       *)
(* second moments are updated as points enter and leave, and the queue is  *)
(* written into the property tree for the process that goes on.            *)
(*                                                                         *)
(* Moments are exact here: a mean is a sum and what it is divided by, and  *)
(* a division by zero leaves NaN.  What UpdateCovarianceMatrix does with   *)
(* small errors and large correlations is left out: the model keeps which  *)
(* moments the matrix was computed from.                                   *)
(***************************************************************************)
EXTENDS MarkovChain

CONSTANTS
    Coordinates,  \* of a point: a function from Points to tuples of integers
    Minimal,      \* MinimalMemorySize
    Maximal       \* MaximalMemorySize

ASSUME QueueAssumption ==
    /\ Coordinates \in [Points -> Seq(Int)]
    /\ \A p, q \in Points : Len(Coordinates[p]) = Len(Coordinates[q])
    /\ Minimal \in Nat
    /\ Maximal \in Nat

VARIABLES
    queue,       \* _memory with _expectationValues and _expectationMatrix
    treeQueue,   \* "Queue" in the property tree of this process
    savedQueue,  \* "Queue" in the input file of the next one
    covariance,  \* the moments _covarianceMatrix was computed from last
    counterEdited, \* the user has set the iteration counter back
    refused      \* the constructor has thrown

queueVars == <<queue, treeQueue, savedQueue, covariance, counterEdited, refused>>
hvars == <<vars, queueVars>>

Parameters == DOMAIN Coordinates[StartPoint]
NaN == [sum |-> 0, over |-> 0]
IsNaN(mean) == mean.over = 0

-----------------------------------------------------------------------------
Product(p, i, k) == Coordinates[p][i] * Coordinates[p][k]

\* n times the mean, plus or minus v, divided by m.
Shifted(mean, n, v, m) ==
    IF IsNaN(mean) \/ m = 0
      THEN NaN
      ELSE [sum |-> (n * mean.sum) \div mean.over + v, over |-> m]

Empty == [points |-> <<>>,
          first |-> [i \in Parameters |-> [sum |-> 0, over |-> 1]],
          second |-> [ik \in Parameters \X Parameters |-> [sum |-> 0, over |-> 1]]]

\* The queue that has p added, or taken away, as its points become new.
Changed(q, new, p, sign) ==
    LET n == Len(q.points)
        m == Len(new)
    IN  [points |-> new,
         first |-> [i \in Parameters |->
             Shifted(q.first[i], n, sign * Coordinates[p][i], m)],
         second |-> [ik \in Parameters \X Parameters |->
             Shifted(q.second[ik], n, sign * Product(p, ik[1], ik[2]), m)]]

PushNewPoint(q, p) == Changed(q, Append(q.points, p), p, 1)

\* Mutant: the moments keep the point that leaves.
PopOnlyThePoint(q) == [q EXCEPT !.points = Tail(@)]

PopOldestPoint(q) == Changed(q, Tail(q.points), Head(q.points), -1)

UpdateQueue(q, p) ==
    LET new == PushNewPoint(q, p)
    IN  IF Len(new.points) > Maximal THEN PopOldestPoint(new) ELSE new

PopulateQueue == FoldLeft(UpdateQueue, Empty, savedQueue)

-----------------------------------------------------------------------------
\* The constructor.
ConstructQueue(n) ==
    /\ ~refused
    /\ saved.iter >= Len(PopulateQueue.points)
    /\ Construct(n)
    /\ queue' = PopulateQueue
    /\ treeQueue' = savedQueue
    /\ covariance' = Empty
    /\ UNCHANGED <<savedQueue, counterEdited, refused>>

\* The constructor throws: the counter does not fit the queue.
RefuseCounter ==
    /\ pc = "off"
    /\ Len(archive) < MaxRuns
    /\ saved.iter < Len(PopulateQueue.points)
    /\ refused' = TRUE
    /\ UNCHANGED <<vars, queue, treeQueue, savedQueue, covariance, counterEdited>>

\* UpdateParameterValues, around the last accepted point with the errors of the
\* parameters or with the covariance of the queue.
UpdateParameterValues ==
    /\ covariance' = IF Len(queue.points) < Minimal THEN covariance ELSE queue
    /\ UNCHANGED <<queue, treeQueue, savedQueue, counterEdited, refused>>

DrawFirstQueue(p) == DrawFirst(p) /\ UpdateParameterValues
DrawQueue(p) == Draw(p) /\ UpdateParameterValues

\* Mutant: the first point of a resumed run is remembered a second time.
PushesFirstPointAlways == TRUE

\* Only the first point of a new chain is put into the queue.
PushesFirstPoint == iter' = 1

\* InitializeMemory.
EvaluateFirstQueue ==
    /\ EvaluateFirst
    /\ queue' = IF PushesFirstPoint THEN UpdateQueue(queue, par) ELSE queue
    /\ UNCHANGED <<treeQueue, savedQueue, covariance, counterEdited, refused>>

\* CompareChi2 calls the UpdateMemory of this class.
AcceptQueue ==
    /\ Accept
    /\ queue' = UpdateQueue(queue, par)
    /\ UNCHANGED <<treeQueue, savedQueue, covariance, counterEdited, refused>>

\* FinalizeStatus, with DepopulateQueue.
FinishQueue ==
    /\ Finish
    /\ treeQueue' = queue.points
    /\ queue' = [queue EXCEPT !.points = <<>>]
    /\ UNCHANGED <<savedQueue, covariance, counterEdited, refused>>

HandOverQueue ==
    /\ HandOver
    /\ savedQueue' = treeQueue
    /\ UNCHANGED <<queue, treeQueue, covariance, counterEdited, refused>>

\* Between two processes the user sets the counter of the iterations back.
EditCounter(n) ==
    /\ pc = "off"
    /\ ~counterEdited
    /\ n < saved.iter
    /\ saved' = [saved EXCEPT !.iter = n]
    /\ counterEdited' = TRUE
    /\ UNCHANGED <<pc, model, memory, iter, maxIter, weight, rejected, output, steering,
                   archive, crashes, queue, treeQueue, savedQueue, covariance, refused>>

Unqueued == BeginExecute \/ Evaluate \/ Reject \/ CloseFile \/ Crash

HInit ==
    /\ Init
    /\ queue = Empty
    /\ treeQueue = <<>>
    /\ savedQueue = <<>>
    /\ covariance = Empty
    /\ counterEdited = FALSE
    /\ refused = FALSE

HNext ==
    \/ \E n \in RunLengths : ConstructQueue(n)
    \/ RefuseCounter
    \/ \E p \in Points : DrawFirstQueue(p)
    \/ EvaluateFirstQueue
    \/ \E p \in Points : DrawQueue(p)
    \/ AcceptQueue
    \/ FinishQueue
    \/ HandOverQueue
    \/ Unqueued /\ UNCHANGED queueVars
    \/ \E n \in 0 .. saved.iter : EditCounter(n)
    \/ Terminated /\ UNCHANGED queueVars
    \/ refused /\ UNCHANGED hvars

HSpec == HInit /\ [][HNext]_hvars
-----------------------------------------------------------------------------
LastOf(s, n) == SubSeq(s, IF Len(s) > n THEN Len(s) - n + 1 ELSE 1, Len(s))

\* The points an output accepted, told from the weights beside its entries.  A
\* resumed run evaluates the point it starts from once more: not accepted anew.
AcceptedPoints(entries, weights, resumed) ==
    LET accepted[i \in 0 .. Len(weights)] ==
            IF i = 0 THEN <<>>
            ELSE IF weights[i] > 0 /\ (i > 1 \/ ~resumed)
                   THEN Append(accepted[i - 1], entries[i].par)
                   ELSE accepted[i - 1]
    IN  accepted[Len(weights)]

\* An output that was closed by a process that died before it handed on what
\* belongs to it is no part of the chain: the next process repeats that run.
OfFile(f) ==
    IF f.handedOn THEN AcceptedPoints(f.tree, f.pointAccepted, f.resumed) ELSE <<>>

BeforeOf(files) ==
    LET before[r \in 0 .. Len(files)] ==
            IF r = 0 THEN <<>> ELSE before[r - 1] \o OfFile(files[r])
    IN  before[Len(files)]

AcceptedBefore == BeforeOf(archive)

AcceptedNow == AcceptedPoints(tree, pointAccepted \o PendingEntries, saved.iter # 0)

\* A process begins where the one before it stopped.
Continues == ~FirstPointMoves /\ \A p \in Points : Given(p) = p

\* The queue of a running sampler is the end of the whole chain, over all its
\* processes: the points UpdateMemory pushed, those PopulateQueue took over and
\* none twice, and it is what the next process is given beside the last point of
\* that chain, which is the one it begins at and need not push.  A first point
\* that is moved is a new one of the chain, and InitializeMemory leaves it out
\* of the queue (:109).
QueueIsEndOfChain ==
    Continues =>
        /\ pc \in {"loop", "evaluate", "compare"} =>
               queue.points = LastOf(AcceptedBefore \o AcceptedNow, Maximal)
        /\ savedQueue = LastOf(AcceptedBefore, Maximal)
        /\ saved.iter # 0 => saved.par = Last(AcceptedBefore)

Mean(s, V(_)) == [sum |-> Total([k \in DOMAIN s |-> V(s[k])]), over |-> Len(s)]

\* The moments that PushNewPoint and PopOldestPoint update are those of the
\* points a proposal is drawn from, however many have entered and left, and
\* they are numbers as long as the queue may hold a point (:117, :167).
ProposalHasMomentsOfQueue ==
    (Maximal > 0 /\ Len(queue.points) >= Minimal /\ pc \in {"evaluateFirst", "evaluate"}) =>
        LET s == queue.points
        IN  s # <<>> =>
            /\ \A i \in Parameters :
                   covariance.first[i] = Mean(s, LAMBDA p : Coordinates[p][i])
            /\ \A i, k \in Parameters :
                   covariance.second[<<i, k>>] = Mean(s, LAMBDA p : Product(p, i, k))

\* The constructor accepts what an earlier process has written: it refuses a
\* counter smaller than the queue only where the user has changed it (:46).
OnlyEditedCounterIsRefused == refused => counterEdited
=============================================================================
