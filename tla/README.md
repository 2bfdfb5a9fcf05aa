# Horn-ICE: a verification project

Horn-ICE learns inductive invariants from Horn samples. A *teacher* proposes
counterexamples (positive points, negative points, implications with several
premises), a *learner* answers with a decision tree that is consistent with all
of them, and the two go round until the teacher accepts. This directory holds
TLA+ models of the parts that carry that logic, the TLC configurations that
check them on small instances, and TLAPS proofs of the results that matter most
for instances of any size.

All paths below are relative to the repository.

## 1. Inventory

| component | source | state it keeps | operations | modules |
|---|---|---|---|---|
| Horn solver | `hice-dt/src/horn_solver.cpp`, `horn_constraint.cpp` | labels of the data points, a copy of the constraints, `_satisfiable` flags, per-point lists of constraints and markings, the stack | `solve` (back-up, pre-processing, propagation, markings, roll-back), again and again on one object | `HornProblem`, `HornSpec`, `HornSolver`, `HornMarking` |
| Decision-tree learner | `hice-dt/include/learner.h`, `simple_job_manager.h`, `job.*`, `slice.h`, `bound.h`, `hice-dt/src/hice-dt.cpp` | sample, bound, labels and constraints of the attempt, slices still to be done, tree | attempts with growing bounds, initial Horn run, next job (leaf or split), the jobs | `Learner` |
| Horndini pre-phase | `hice-dt/include/horndini.h`, `hice-dt.cpp` | a conjunction per function, constraints with what is left of their premises, new positive points | derive predicates, knock off, fire, give up, build the tree, check | `Horndini` |
| CHC teacher | `chc_verifier/src/chc_verifier.cpp`, `include/learner_interface.h`, `hice-dt/include/api*.h` | lists of satisfied and unsatisfied clauses, previous conjectures, counterexamples, map from teacher to learner points, the sample | `learn2`: learn, check the clauses, add the counterexamples | `ChcTeacher` |
| Conjectures from trees | `chc_verifier/include/dt_to_z3_exp.h` | one expression per predicate | translate a tree | `DtToZ3` |
| SMT-LIB parser | `chc_verifier/include/seahorn_smtlib2_parser.h` | clauses, relations | replace 0-ary relations, split rules and queries into clauses, extract relations | `ChcParser`, `ChcSystem` |
| Learner files and rounds | `hice-dt/src/hice-dt.cpp`, `include/bound.h`, `boogie_io.cpp`, `json_visitor.cpp` | `.status`, `.bound`, `.json`, the exit code; `.attributes`, `.data`, `.horn`, `.intervals` | one process per round: pre-phase, read the bound, attempts, write tree and bound | `LearnerProcess` |
| Boogie teacher | `Boogie/Source/Houdini/MLHoudini.cs`, `HornLearning.cs` | work list of implementations, functions, indices, labels and clauses of the sample, counterexamples of the check | `LearnInv`, `HandleCounterExample`, `RecordCexForC5`, `learn`, `constructModel` | `BoogieTeacher`, `BoogieTree` |
| Debugging, printing | `debug_job_manager.h`, `pretty_print_visitor.*` | none that others read | print | no |
| Third-party code | `z3-4.7.1`, the rest of Boogie, Newtonsoft.Json, benchmarks, scripts | | | no |

How they interact. `main` of hice-dt reads the files of a round, tries Horndini
(if asked for), and otherwise makes attempts to learn a tree; each attempt calls
the Horn solver once before learning and up to twice for every slice. The solver
works in place: it writes labels into the very data points the learner keeps
using, and takes them back at the end of each call. The CHC teacher links the
learner as a library (`api.h`): it adds data points, labels and constraints to
one growing sample and calls `learn_decision_tree`; `dt_to_z3_exp` turns the
tree into conjectures; Z3 is asked clause by clause. The Boogie teacher runs
hice-dt as a process, one round at a time, and talks to it through files; the
process also leaves its bound to the process of the next round.

What is hard. Everything runs sequentially, so nothing here is about threads.
What is hard is *order and staleness*: hash sets walked in any order,
a stack that is pushed to while it is emptied, markings computed once and used
until the call ends, constraints and premises erased for good, clauses that are
not checked again because nothing they mention has changed, keys that are looked
up in one form and stored in another; *partial failure*: a conflict in the
middle of a propagation, an attempt abandoned half way; and *termination* of
loops that feed themselves. `PROJECT.json` lists these hazards with the line
where each bites and the property that would notice.

What makes each component correct:

- Horn solver: the verdict is exact; on success exactly the forced points are
  returned; nothing of a call remains for the next.
- Learner: the tree fits the sample as it was read; a solvable sample is never
  refused; every assertion on the way holds.
- Horndini: the result is the strongest conjunction that satisfies the Horn
  constraints; giving up means that no conjunction fits.
- CHC teacher: success is a solution of all clauses; breaking off means there is
  none; each round makes progress; identifiers are positions.
- Conjectures from trees: a conjecture is true of what the tree is true of.
- Parser: counterexamples of a parsed clause exclude no solution of the file,
  and exclude the conjectures they were found for.
- Rounds: the bound file is there when it is read, and bounds carry over.
- Boogie teacher: "verified" means that all conditions hold for the final
  functions; a refused program is incorrect; no round returns the functions that
  were refuted; positions in `.horn` are those of `.data`.

## 2. Modules

`HornProblem` holds what all of them share: `Point`, `FalseDp` (a constraint
without conclusion), labels, `Satisfies`, the `Models` of a constraint system
and the points they force, and the declarative `LeastMarking`.

### HornSpec, HornSolver, HornMarking

`HornSpec` says what `solve` promises: TRUE exactly if there is a total
classification that satisfies constraints, labels and the two argument sets;
then the sets hold precisely the forced points. `HornSolver` is the code:

| action | code (`horn_solver.cpp`, `horn_constraint.cpp`) |
|---|---|
| `Solve` | entry of `solve`, stack replaced, labels copied |
| `DropClause`, `ForceConclusion`, `RefuteConclusion`, `KeepClause` | the loop of `keep_backup`, one constraint per step |
| `FillWorklist` | `populate_meta_data`, `fill_worklist` |
| `Pop` | the loop of `verify_constraints_satisfiability` |
| `TrueSatisfies`, `TrueShortens`, `TrueForces` | `propagate_true_classification` |
| `FalseSatisfies`, `FalseForces`, `FalseMarks` | `propagate_false_classification` |
| `NextPoint`, `Finish` | ends of the two loops |
| `RollBack` | `roll_back_datapoints` and the clearing at the end of `solve` |

Elements of an `unordered_set` are pushed in an order the code does not fix, so
the stack is a sequence of sets and `Pop` takes any element of the topmost one.
Premise vectors keep repeated premises. `FalseMarks` may stop after any part of
the marks when it meets a true one. `ComputeCurrentMarking` is the declarative
result; `HornMarking` models the recursion of `compute_marking` (a stack of
activations, each with the constraints its loop has yet to visit) and shows that
it ends in that result.

### Learner

A slice is the set of its points with the tests that lead to it, the tree is the
set of its leaves. Which slice is next, which attribute and which cut are best is
left open, so that every node selection, entropy and conjunctive setting of the
job manager is covered; whether a cut is *allowed* (`Cuts`) is exact. The
solver is used through its promise (`Solutions`, `Assign`).

| action | code |
|---|---|
| `StartAttempt`, `SampleError` | a pass of main's loop: copies, indistinguishable points, initial Horn run |
| `Throw` | the two `catch` blocks: double the bound or fail |
| `LearnTrivial`, `FirstSplit` | `learner::learn` up to the first job, the categorical split |
| `PureLeaf`, `PositiveLeaf`, `NegativeLeaf`, `FallbackLeaf` | `is_leaf` and `leaf_creation_job` |
| `ChooseSplit`, `SplitAt`, `SplitNotPossible` | `is_leaf` false, `find_best_split`, `int_split_job` |
| `Finish` | no jobs left |

`FallbackLeaf` starts its second call of the solver from whatever negative points
the first, failed one left behind: `negative_ptrs` is not cleared in between.

### Horndini

Predicates `attribute >= c`, `<= c`, `= c` with `|c| <= Threshold`; `KnockOff`,
`StartPass`, `ShortenPremises`, `Fire`, `NoConjunction`, `EndPass` are the loop
of `horndini::learn`, in any order of points and constraints within a pass.
`Check` is main's consistency check of the tree that `conjunctions2tree` builds;
the tree's comparisons (`NodePasses`) are kept apart from the predicates
(`Entry`), and that they agree is a lemma.

### ChcTeacher

A clause is its predicates and its instances: premises and conclusion under the
valuations that satisfy its constraint. Z3 returns any violated instance or
UNKNOWN; the learner any hypothesis that is consistent with the sample, or
nothing if there is none (which `Learner` justifies). `Learn`, `LearnFails`,
`CheckUnsatisfied`, `StartSatisfied`, `CheckSatisfied`, `SolverUnknown`,
`EndChecks` and `EndRound` are the loop of `learn2`; `Take`, `Register`,
`AddPositive`, `AddNegative` and `AddConstraint` are `add_counterexample`.
`ChcSystem` gives it the clauses that `ChcParser` makes of a file.

Conjectures are a *set of readings*. The expression of a predicate that has no
data point yet is that of another predicate, with variables that nothing binds;
Z3 chooses their values anew in every check, so the same conjecture may be true
of different points in different clauses.

### DtToZ3

An expression is the set of valuations that satisfy it; `Child` and `Missing`
are the loops of `get_z3_exp_categorical` and `get_unordered_map`, `Exp` and
`Guard` the recursion below, a recursive function over the nodes. `NodesOf` names the
nodes that may occur below each predicate's child and `Height` says that trees end.
Integer and Bool arguments, sums and differences.

### ChcParser, ChcSystem

Formulas of `and`, `or`, `not`, other applications (`=>`, `ite`, ..., with a truth table
that may depend on the valuation), relations and theory atoms (sets of valuations), of
which Bool constants are those `parse` takes for uninterpreted predicates in a body or a head;
`Preprocessed` is `preprocess_expressions` (a relation `q` without arguments becomes
`q@(true)`), `Accepts` the checks and assertions of `parse`, `ExtractAll` is
`extract_relations`, which walks through any application as through a conjunction
and changes the polarity at `not` only,
`Extracted` the points `check_chc` reads off a model. The functions are recursive
over a set `Formula` that is closed under parts and preprocessing, and `Height` says that
formulas end; any number of arguments and any depth. A clause keeps its relations as
sets, as `expr_set` does, and `check_chc` walks through them in any fixed order
(`Listed`). Z3's own reader is left out.

`ChcSystem` composes the two: `ProblemOf` are the clauses of the teacher for a file,
with the instances that `Counterexamples` allows. `CounterexamplesAreSound` and
`CounterexamplesRefute` say that the clauses stand for the file; `FileIsSolved` and
`FileIsUnsolvable` say what the whole program promises of the file it was given. In the
`chc` run the first two are checked on all systems of the instance, those with
disjunctions or implications and those that `parse` refuses included. Two hypotheses
say where they hold: `Plain` (relations below `and`, `or` and `not` only) and
`Conjunctive` (moreover, none below a disjunction or a negated conjunction). Without
`Plain` a counterexample can exclude a solution: `extract_relations` does not see that the left
side of `=>` is negative.

### LearnerProcess

`main` from `Process.Start` to the exit code. `StartProcess`, `PrephaseSucceeds`,
`PrephaseGivesUp`, `ReadBound`, `AttemptSucceeds` and `AttemptThrows` with the bound
of the process, `.status`, `.bound` (which may be left over from another
verification) and `.json`. An attempt is one step, taken by what `Learner` shows
of it: a tree that is written is consistent, an attempt without bound fails only on
contradictory samples (`FailsOnlyIfContradictory`), none fails on a sample that asks
for no positive point (`NegativeSampleAtOnce`). The pre-phase succeeds with
some consistent tree or gives up. The syntax of the files is left out.

### BoogieTeacher

A program is the set of instances of each implementation's verification
condition: assumed calls, asserted call, and the first bound on integers that
allows its values. Teacher and process share the variables of `LearnerProcess`;
`LearnerStep` is a step of the process while the teacher waits.

| action | code (`MLHoudini.cs`) |
|---|---|
| `TakeImpl`, `Verified` | the work list of `LearnInv` |
| `CheckValid`, `CheckUndetermined`, `CheckTimesOut`, `ModelMissing` | the outcomes of a check, the loop over `bounds4cex` |
| `Counterexample`, `EndCheck`, `AddImplication`, `EndImplications` | `HandleCounterExample`, and the implications kept until the check is over |
| `Register`, `AddPositive`, `AddNegative`, `AddClause` | `AddCounterExample`, `RecordCexForC5` |
| `StartLearner`, `LearnerFailed`, `ReadTree` | `GenerateDataFile`, `learn`, and the implementations put back on the work list |

`ModelMissing` is an answer "time-out" or "out of memory" with the labels of a path: the
handler is called without a model (`ProverInterface.cs` 883) and fails when it reads a
point from it. Not modelled is such an answer for a path without function calls, which
counts as a real error; an answer "unknown" for other reasons is treated by the code
like a counterexample, and only genuine ones are modelled.

`asserts` says whether `Debug.Assert` is compiled in: a point with both labels ends
the program, or has its label overwritten. Assumptions: an assume or assert
command with an existential function is that call alone; the prover's models
are genuine, any violated instances in any number up to the limit; functions are
compared as expressions, so that an expression may change while what it is true of
does not (`ReadTree` takes any set of functions that includes the changed ones);
the functions are what the tree says, which `BoogieTree` shows for integers.

### BoogieTree

`constructModel` and `constructBoogieExpr` on the trees of `DtToZ3` and on those
`conjunction2tree` builds (`ConjunctionTree`; `Entry` is what a predicate says). A function without data point
becomes false. All parameters are integers to the learner; on a Bool parameter
Boogie ignores the cut, see 6.

## 3. Runs

| run | instance | what it shows |
|---|---|---|
| `solver` | all pairs of constraints over three points with up to two premises (repeated ones and self-loops too) with all labellings; four points with three constraints, the smallest shape in which a point marks another through two premises; any sequence of calls | `VerdictExact`, `ForcedExactly`, `PositiveFirst`, the refinement `KeepsPromise`, `Terminates` |
| `marking` | all systems of three constraints over three points, with cycles | `ReachesFixpoint`, `Terminates` |
| `learner` | all samples of three points with two categories or two attributes, up to two constraints, one label, values on either side of the bounds | `Consistent`, `FitsSample`, `Divided`, `FreePointsStayFree`, `SplitHasLabels`, `FailsOnlyIfContradictory`, `NegativeSampleAtOnce`, `Terminates` |
| `learner_zero` | samples with one constraint | finding, see 6 |
| `horndini` | three points of two functions, up to two constraints, one label, threshold 0 | `Strongest`, `ClosedWhenBuilt`, `RejectsOnlyIfNone`, `Terminates` |
| `chc` | systems of facts, rules and queries over `p` (two arguments, two points) and `q` (none), loops with two rules, Bool constants as body or head; for the parser also disjunctions, implications and systems it refuses | `SuccessIsSolution`, `BreaksOffOnlyIfUnsolvable`, `RoundMakesProgress`, `IdentifiersArePositions`, `CounterexamplesAreSound`, `CounterexamplesRefute`, `Terminates` |
| `dt_int` | trees with up to two splits on a path over integers, sums, differences; conjunctions of up to two predicates | `ConjecturesAreTree`, `FunctionsAreTree` (one parameter a Bool of Boogie) |
| `dt_bool` | the learner's trees with a Bool argument | finding, see 6 |
| `dt_cut` | the trees the pre-phase builds with threshold 1, the one of `main`, for a function with a Bool parameter | finding, see 6 |
| `boogie` | two implementations over two functions with three points; facts, steps, queries, real errors; with and without bounds on counterexamples, learner bounds, pre-phase, assertions | `VerifiedIsInductive`, `LearnChangesFunctions`, `RefusesOnlyIncorrect`, `FilesAreFaithful`, `BoundFileIsThere`, `BoundNeverFalls`, `Terminates` |
| `boogie_verdict` | the same | finding, see 6 |
| `boogie_release` | the same | finding, see 6 |

Bounds and why they are enough. Two constraints and three points are the least
with which one constraint feeds the other, two premises of one constraint are
refuted at different times, and a conflict arises after a derived label; four
points and three constraints add a chain of markings. In `learner` the bounds
go 1, 2, none (`MaxBound` is 2), with the values -3, 1 and 2: one is cut only
without a bound, one not by the first bound. Three data points are enough for
two splits on a path and for a leaf that forces a label in a slice still waiting.
In `chc` the predicate `p` has derived attributes and `q` has not, so both kinds of
key occur, and `q` may have no data point for several rounds. In `boogie` the
values of one point are beyond the first bound on integers and those of another
may be beyond the last; two counterexamples per check are enough for a positive
one next to an implication; the learner's bounds go 1, 2, none. `horndini` has
threshold 0 (three predicates per attribute), `main` uses 1: the proofs hold for every
threshold. Symmetry sets are
not used; `MCHornSolver` names points in the order in which they occur, because
no definition tells them apart. Deadlock is not checked where the program ends (`Learner`,
`Horndini`, `ChcTeacher`, `BoogieTeacher`, `HornMarking`).

Fairness. Each program is sequential, never waits for anything but a call that
returns, and has no step it can refuse: weak fairness of the whole next-state
relation (of the steps within a call, for the solver, because nobody has
to call it) says only that the program keeps running. For `ChcTeacher` this includes that Z3
answers each query, if only with UNKNOWN, and that the learner returns
(`Terminates` of `Learner`). `ChcTeacher` terminates only because the instance
has finitely many data points; over the integers the loop need not end. The same
holds for `BoogieTeacher`, where fairness of the next-state relation says that
teacher and process keep running and the prover returns. Its `Terminates` excludes
one case that does not end: without assertions, a point with a positive and a
negative counterexample; that is the finding of `boogie_release`.

What the properties leave out. Some name a hazard that they cover only in part, and
`PROJECT.json` says so at the hazard: `BoundNeverFalls` is about rounds without
pre-phase, which writes the initial bound over the file (`hice-dt.cpp` 261);
`VerifiedIsInductive` is about values up to the last bound, 1000000;
`FilesAreFaithful` takes the `Dictionary` of the data points to be enumerated in the order of
insertion; `FunctionsAreTree` takes Bool cuts to be at 0; and `CounterexamplesAreSound` and
`CounterexamplesRefute` exclude relations below `=>` or `ite`.

## 4. Proofs

Assumptions are those of the `ASSUME`s of the modules: `FalseDp` is no point,
samples and clauses have the shapes the code gives them, bounds are natural
numbers. Nothing assumes that points, constraints or attributes are few or
finite.

**HornSolver_proofs**: `Inductive` (`IInv`), `TypeCorrect`, `VerdictCorrect` (`VerdictExact`). The
verdict alone is not inductive: it says nothing before the end. `IInv` says
what is known on the way: labels only grow and agree with the arguments
(`LabelsInv`); every label and every mark holds in every solution (`SoundInv`),
so a conflict means that there is none; what was dropped or flagged is satisfied,
what was erased from a constraint is true (`ClausesInv`); no true premise is
forgotten, it waits on the stack or is being propagated (`WorklistInv`). When
the stack is empty the true points therefore form a solution, the lemma
`TruePointsSolve`. Markings need only be sound for this, `MarkingSound`.

The second half of the module is about what `solve` returns: `CompleteInductive`
(`CompleteInv`), `ForcedCorrect` (`ForcedExactly`), `PositiveBeforeNegative`
(`PositiveFirst`) and `SolverRefines`, the refinement `KeepsPromise`. That *all* forced points are returned needs the other
direction, which `IInv` does not have: a point without label can still be true. Take
such a point `x` when the stack is empty; the true points together with the points that
`x` marks and that are not false are a solution (`FreePointMayBeTrue`), because a false
conclusion has passed its label on to everything that marks it, and would have
made `x` false. So `CompleteInv` adds that no false conclusion is
forgotten and that markings, once computed, miss nothing (`MarkingInv`). The markings
are computed when the first false point is taken from the stack and never again; this is
right only because true points lie above false ones (`StackInv`) and a false
point never pushes a true one. `ArgumentsInv` relates labels, arguments and the
back-up. For the refinement, `Solve` and `RollBack` map to the call and the return
of `HornSpec`, every other step to a stutter; at the return `VerdictExact` and
`ForcedExactly` give the promised answer, and the restored labels show that nothing of
the call remains.

**HornMarking_proofs**: `Invariance` (`IInv`), `TypeCorrect`, `MarkingCorrect`
(`ReachesFixpoint`). Marks never exceed the least fixpoint (`MarksInv`). A constraint
whose conclusion lacks a mark common to its premises is still to be visited, by the outer
loop or by an active recursion (`VisitsInv`): a change of marks starts a loop over
just the constraints it may affect. At the end no constraint is left to visit, so
the marks are closed and include the least fixpoint.

**Learner_proofs**: `Invariant`, `TypeCorrect`, `TreeConsistent`, `TreeFitsSample`,
`SlicesDivide`, `PointsStayFree`, `SplitsHaveLabels`, `LearnerComplete`. The core
of `IInv` is `LeastSolution`: the points labelled true are a solution of the
constraints, and each point without label is true in some solution. It survives
each leaf because the solver returns *all* forced points, and it is why the
final tree, whose true leaves hold exactly the true points (`LeavesFit`,
`Divided`), satisfies all constraints. It also covers the leftovers of
`FallbackLeaf`: whatever the leftover is, the labels assigned are those of a
system that has a solution. `LearnerComplete` uses that without a bound points
of a slice that must be split differ in some attribute. `NegativeSamplesLearned`
(`NegativeSampleAtOnce`): if no constraint and no label asks for a positive point, "no
point is positive" is a solution and stays one, so every slice becomes a negative leaf.
`NegativeInv` carries this along: each slice left is a whole category without
positive point, hence no split and no failure in the first attempt.

**Horndini_proofs**: `Invariant`, `TypeCorrect`, `StrongestConjunction`, `ClosedResult`,
`Complete`. `IInv` adds that new positive points are forced in every fitting
hypothesis (`PositiveForced`), that erased premises still satisfy the weaker
conjunctions (`PremisesErased`), that fired constraints have a conclusion that
is positive or already accepted (`Fired`), and that constraints visited in this
pass are blocked (`Blocked`).

**ChcTeacher_proofs**: `Invariant`, `TypeCorrect`, `Soundness`, `GivesUpRightly`,
`Progress`, `PositionsRight`. A clause counted as satisfied holds, or is about to
be checked again because a conjecture has changed (`SatisfiedHold`). For each
unsatisfied clause a violated instance is in the sample or on its way there
(`CounterexamplesKept`): consistent new conjectures satisfy that instance, hence
differ on some predicate of the clause, which is why skipping unchanged
clauses is harmless. The sample says nothing that the clauses do not imply
(`SampleImplied`), so a contradiction in it refutes the clauses. Keys in
the map are in stored form and point at their position (`KeysStored`).

**ChcSystem_proofs**: `SoundCounterexamples` (`CounterexamplesAreSound`),
`RefutingCounterexamples` (`CounterexamplesRefute`), and from the file to the conjectures
`FileSolved` (`FileIsSolved`) and `FileUnsolvable` (`FileIsUnsolvable`), for any rules and
queries over formulas of any depth with any number of arguments. As for trees (below),
induction over formulas (`FormulaInduction`) and the equations of the recursive
functions (`RecursionExists`, `PreprocessedDef`, `TruthDef` and others) are proved from the
well-foundedness of `<` on `Nat`. The argument:

- `TruePreprocessed`: replacing 0-ary relations does not change what a formula says, if
  the old relation is true exactly when `q@(true)` is (`Original`). Hence a solution of the
  file satisfies the clauses and the other way round (`SolvesClauses`); the
  skipped facts about `verifier.error` do not matter because `AssertedNames` shows that no
  accepted clause mentions it.
- `Monotone`: below `and`, `or` and `not` the assertions of `extract_relations` leave only
  relations in positive positions, so a body that is true of some points stays true if all relations it
  contains are. A counterexample has *all* relations of the body as premises, so what
  the learner is told follows from the rule even below a disjunction
  (`CounterexampleSound`).
- `ConjunctivePoints`: without disjunctions of relations, a body that is true has all its
  relations true, so the premises of a counterexample hold and its conclusion does not
  (`CounterexampleRefutes`). A head that is a Bool constant is false whatever is learned
  (`HeadTrue`), so that the clause is like a query with these premises. With them this fails, which is why `CounterexamplesRefute` and
  `FileIsSolved` have the hypothesis `Conjunctive`.
- `TrueLocal`, `InstanceHolds`: a clause is about its own points only, and the teacher's
  instances say what the counterexamples say. With `Soundness` and `GivesUpRightly` of
  `ChcTeacher_proofs` this gives the two results about the file.

Assumed: `Formula` contains the parts of its formulas and their preprocessed forms, new names
are not `verifier.error`, and the teacher's points include those of the file.

**DtToZ3_proofs**: `Invariant` (`IInv`), `TypeCorrect`, `ConjecturesRight`
(`ConjecturesAreTree`) and, about `BoogieTree`, `FunctionsRight` (`FunctionsAreTree`) and
`ConjunctionTreeRight`, for trees of any depth and conjunctions of any length. These need induction over trees and the equations of recursive
functions, neither of which the provers supply. Induction is proved from the
library's theorem that `<` is well founded on `Nat` (`LeastNat`, then `NodeInduction`
on `Height`); `RecursionExists` constructs the functions that compute a value of a node
from the values of its children, and gives the equations of `Output`, `Exp`,
`PathFormulas` and `BoolCutsAreZero`. `ExpIsOutput` then says that a node's expression is
true of what its output is true of, `OutputLocal` that the variables of other
predicates do not matter, and `PathsAreOutput` that the path formulas below a node
are the path so far and the node's output. `ConjecturesRight` has the hypothesis
that there are no Bool arguments: with them it is false, finding 2.
`ConjunctionTreeRight` is the pre-phase's counterpart of `ExpIsOutput`: the tree
`conjunction2tree` builds, and the function Boogie reads from it, are true of exactly the points
that satisfy all predicates of the conjunction. Each predicate's one or two nodes pass on the
points it is true of (`PredicateNodeRight`); the recursion along the list is unrolled from
its end (`ConjunctionTreeDef`).

**BoogieTeacher_proofs**: `Invariant`, `TypeCorrect`, `VerdictRight`,
`EveryRoundChanges`, `RefusesRightly`, `FilesRight`, `BoundFileThere`,
`BoundsCarryOver`, for any programs, points, bounds and options. The parts of `IInv`:
points are in the order of their indices (`IndexInv`), so a position read from the
Horn file is the point that was meant; labels and clauses come from instances of
the program (`SampleInv`), so a contradictory sample refutes the program;
counterexamples of the current check are violated by the functions and recorded
or still to be (`CheckInv`), so when the learner starts the sample holds one that
refutes them, whatever was dropped; a process that exits answers to the sample it was
started with (`ProcessInv`); implementations off the work list are proved, unless
a check went unanswered (`VerdictInv`): a changed function brings its dependents
back, and an unchanged one cannot falsify a condition. `BoundInv` is why the bound
file exists: the first functions are "true", no positive counterexample refutes
them, so the sample of the first round asks for no positive point, and the first
process succeeds within its first bound and writes the file. `BoundNeverFalls` is an
action property: a process without pre-phase starts from the bound in the file and
only doubles it.

## 5. Only model-checked

- Liveness (`Terminates` of six modules): fairness is out of the prover's reach.
- The other way round, `FileSolved`, `FileUnsolvable` and `ConjunctionTreeRight` are proved
  and are no properties of a run: they follow from properties that are, or are
  about an operator alone.
- Values are unbounded integers; that cuts and sums stay within `int` is not
  shown.

## 6. Findings

1. `learner_zero`: `is_distinguishable` counts points on both sides of 0 as
   separable by a cut at 0, but `find_best_split` cuts only at values of data points
   within the bound. The attempt fails and the next bound repairs it.
2. `dt_bool`: a split on a Bool argument is translated as `attribute && false` on
   the left, so the FALSE side of the tree is lost and the conjecture is not
   consistent with the sample. `ChcTeacher` is therefore about integer arguments.
3. `dt_cut`: `constructBoogieExpr` asserts that a split on a Bool parameter is at 0
   (`HornLearning.cs` 110) and otherwise ignores the cut. The pre-phase derives predicates
   from Bool parameters, too; with threshold 1 no point knocks off `b >= -1`, `b >= 0` and
   `b <= 1`, which become splits at -2, -1 and 1, and a release build reads them as `b`
   and `not b`: the function is false whatever was learned. `FunctionsAreTree` is therefore
   stated for trees that meet the assertion, and `BoogieTeacher` with a pre-phase is about
   integer parameters.
4. `boogie_verdict`: a check the prover does not answer (`Outcome.Undetermined`, for
   instance because its process has died) counts as valid, and the program can end
   as "verified" (`MLHoudini.cs` 1080). With answers to all checks the verdict is
   right, `VerdictRight`. It is right within the last bound on integers: the
   last pass still restricts them to 1000000.
5. `boogie_release`: a known point gets its new label without a test but
   `Debug.Assert` (`MLHoudini.cs` 1372). In a release build a point with a positive and a
   negative counterexample has either label in turn, the learner never sees both, and the
   loop does not end, although no functions make the program correct.

Not a run of its own, but seen while modelling: `solve` leaves the caller's points and what
it had derived in the argument sets when it fails, while the comments in `horn_solver.h`
(164, 170) promise old values, and empty sets. The job manager relies on neither:
`FreePointsStayFree` and `Consistent` hold with the leftovers.

## 7. Not modelled, and the plan

Left out for good: log files, timers, printing, the job manager for debugging,
`learn1` and `check` of the CHC teacher (main calls neither), the ICE learner of
MLHoudini that the Horn learner has replaced. Most of the repository's lines are
vendored: Z3 4.7.1 and all of Boogie but the Horn-ICE files of its Houdini
directory. They are used through their interface (any answer Z3 may give, any
verification condition Boogie may generate) and are no part of this project, so
the share of all lines that a definition here stands for is small, while each file of
the learner and the two teachers is covered as the inventory says.

Also left out: the text of the files (`Datapoint2String`, `read_intervals_file`,
`attributes_metadata`), the choice of cuts by entropy, and `int` overflow.

Order of the work that is left:

1. `horn_assignments` of `simple_job_manager.h` (1035-1165): the assertion that each
   free point can be given either label, on the code that makes it.
2. The layout of `.attributes`, `.intervals` and `.data`, which three loops of
   `MLHoudini.cs` compute independently, functions without parameters included.
3. Composition: `ChcTeacher` and `LearnerProcess` with a learner that is an instance
   of `Learner`, and Bool arguments in both.
