------------------------------- MODULE Learner -------------------------------
(***************************************************************************)
(* Learning a decision tree from a Horn sample: the loop over increasing   *)
(* bounds of main, the learning loop of learner::learn, the job manager's  *)
(* decision between a leaf and a split, and the jobs.                      *)
(*                                                                         *)
(* A slice of the vector of data points is the set of its points, so that  *)
(* the sorting that jobs and heuristics do is invisible.  A place in the   *)
(* tree is the set of tests on the way to it, and the tree the set of its  *)
(* leaves.  Which slice comes next and which of the allowed cuts is best   *)
(* is left open: that covers every node selection and entropy criterion.   *)
(* The Horn solver is taken by its promise, module HornSpec.               *)
(***************************************************************************)
EXTENDS HornProblem, Integers

CONSTANTS
  Attribute,   \* the integer attributes
  MaxBound,    \* bound<MAX_BOUND>
  Samples      \* the samples a behaviour may be about

(* A sample: the data points with their category, values and labels, the   *)
(* constraints over them, and the bound main starts with.  The teachers    *)
(* never write a data point twice.                                         *)
IsSample(s) ==
  /\ s.points \subseteq Point
  /\ s.horn \subseteq [body : SUBSET s.points, head : s.points \cup {FalseDp}]
  /\ DOMAIN s.cat = Point
  /\ s.val \in [Point -> [Attribute -> Int]]
  /\ s.label \in [Point -> Label]
  /\ \A x \in Point \ s.points : s.label[x] = "none"
  /\ s.bound \in Nat \ {0}
  /\ s.useBound \in BOOLEAN
  /\ \A x, y \in s.points :
       s.cat[x] = s.cat[y] /\ (\A i \in Attribute : s.val[x][i] = s.val[y][i]) => x = y
ASSUME SamplesAssumption == \A s \in Samples : IsSample(s)
ASSUME MaxBoundAssumption == MaxBound \in Nat

VARIABLES
  sample,   \* the input files
  bound,    \* cur_bound._bound
  pc,       \* where the program is
  horn,     \* horn_constraints of the attempt
  label,    \* labels of datapoints_copy
  slices,   \* job manager: the slices that are left, [path, points]
  leaves,   \* the tree: its leaves, [path, label]
  cur       \* the slice find_best_split works on

attempt == <<horn, label, slices, leaves>>
vars == <<sample, bound, pc, attempt, cur>>

-----------------------------------------------------------------------------
(* Tests on the way from the root to a node. *)
CatIs(k)         == [kind |-> "cat", category |-> k]
AtMost(a, v)     == [kind |-> "le", attribute |-> a, cut |-> v]
MoreThan(a, v)   == [kind |-> "gt", attribute |-> a, cut |-> v]

Passes(x, t) ==
  \/ t.kind = "cat" /\ sample.cat[x] = t.category
  \/ t.kind = "le"  /\ sample.val[x][t.attribute] <= t.cut
  \/ t.kind = "gt"  /\ sample.val[x][t.attribute] > t.cut

Reaches(x, path) == \A t \in path : Passes(x, t)

Slice(path, points) == [path |-> path, points |-> points]
NoSlice == Slice({}, {})

-----------------------------------------------------------------------------
(* bound *)
UseBound == sample.useBound /\ bound <= MaxBound

(* Mutants: give up at the first exception; try again with the same bound; *)
(* halve the bound.                                                        *)
GiveUp == pc' = "failed" /\ bound' = bound

TrySameBound ==
  IF UseBound THEN pc' = "attempt" /\ bound' = bound
              ELSE pc' = "failed" /\ bound' = bound

HalveBound ==
  IF UseBound THEN pc' = "attempt" /\ bound' = bound \div 2
              ELSE pc' = "failed" /\ bound' = bound

(* sample_error and split_not_possible_error: increase the bound, or give  *)
(* up when none is used.                                                   *)
Throw ==
  IF UseBound THEN pc' = "attempt" /\ bound' = 2 * bound
              ELSE pc' = "failed" /\ bound' = bound

(* datapoint::is_distinguishable *)
IsDistinguishable(x, y) ==
  \/ sample.cat[x] # sample.cat[y]
  \/ \E a \in Attribute :
       LET v  == sample.val[x][a]
           w  == sample.val[y][a]
           lo == IF v < w THEN v ELSE w
           hi == IF v < w THEN w ELSE v
       IN  /\ v # w
           /\ \/ lo <= 0 /\ hi > 0
              \/ hi <= 0 /\ 1 - hi <= bound
              \/ lo > 0 /\ lo <= bound

(* boogie_io::get_indistinguishable_datapoints *)
Indistinguishable ==
  {[body |-> {p[1]}, head |-> p[2]] :
     p \in {q \in sample.points \X sample.points :
              q[1] # q[2] /\ ~ IsDistinguishable(q[1], q[2])}}

-----------------------------------------------------------------------------
(* The Horn solver: the solutions of constraints H with the labels l when  *)
(* the points of P are tried as positive and those of N as negative.       *)
Solutions(H, l, P, N) ==
  Models([c \in H |-> [x \in c.body |-> x]], [c \in H |-> c.head],
         Labelled(l, "true") \cup P, Labelled(l, "false") \cup N)

(* Mutants: the derived labels are not assigned, or only the positive ones. *)
AssignNothing(l, MM) == l

AssignPositive(l, MM) ==
  [x \in Point |-> IF x \in ForcedTrue(MM) /\ l[x] = "none" THEN "true" ELSE l[x]]

(* The labels after the points the solver returned were assigned: the      *)
(* positive ones first, then the negative ones.                            *)
Assign(l, MM) ==
  [x \in Point |-> IF x \in ForcedFalse(MM) /\ l[x] = "none" THEN "false"
                   ELSE IF x \in ForcedTrue(MM) /\ l[x] = "none" THEN "true"
                   ELSE l[x]]

Unlabelled == Labelled(label, "none") \cap sample.points

-----------------------------------------------------------------------------
Init ==
  /\ sample \in Samples
  /\ bound = sample.bound
  /\ pc = "attempt"
  /\ horn = {}
  /\ label = sample.label
  /\ slices = {}
  /\ leaves = {}
  /\ cur = NoSlice

(* Mutant: the bound's constraints replace the ones of the sample. *)
BoundConstraintsOnly == IF UseBound THEN Indistinguishable ELSE sample.horn

(* The constraints of an attempt. *)
AttemptConstraints == sample.horn \cup IF UseBound THEN Indistinguishable ELSE {}

(* A pass of main's loop up to the call of learn: fresh copies of the      *)
(* points, the constraints, and the initial run of the solver.             *)
StartAttempt ==
  /\ pc = "attempt"
  /\ horn' = AttemptConstraints
  /\ LET MM == Solutions(horn', sample.label, {}, {})
     IN  /\ MM # {}
         /\ label' = Assign(sample.label, MM)
  /\ leaves' = {}
  /\ slices' = {}
  /\ pc' = "learn"
  /\ UNCHANGED <<sample, bound, cur>>

(* "No consistent decision tree exists (Horn clauses are contradictory)" *)
SampleError ==
  /\ pc = "attempt"
  /\ Solutions(AttemptConstraints, sample.label, {}, {}) = {}
  /\ Throw
  /\ UNCHANGED <<sample, attempt, cur>>

(* learner::learn without data points: any tree will do. *)
LearnTrivial ==
  /\ pc = "learn"
  /\ sample.points = {}
  /\ leaves' = {[path |-> {}, label |-> "true"]}
  /\ pc' = "done"
  /\ UNCHANGED <<sample, bound, horn, label, slices, cur>>

(* The root slice, which the manager always splits on the categorical      *)
(* attribute: one child per category that occurs.                          *)
FirstSplit ==
  /\ pc = "learn"
  /\ sample.points # {}
  /\ slices' = {Slice({CatIs(sample.cat[x])},
                      {y \in sample.points : sample.cat[y] = sample.cat[x]}) :
                  x \in sample.points}
  /\ pc' = "next"
  /\ UNCHANGED <<sample, bound, horn, label, leaves, cur>>

-----------------------------------------------------------------------------
(* is_leaf: what occurs in the slice. *)
Has(s, v) == \E x \in s.points : label[x] = v
Open(s)   == s.points \cap Unlabelled

(* leaf_creation_job *)
CreateLeaf(s, v, newLabel) ==
  /\ leaves' = leaves \cup {[path |-> s.path, label |-> v]}
  /\ label' = newLabel
  /\ slices' = slices \ {s}
  /\ UNCHANGED <<sample, bound, pc, horn, cur>>

NextSlice(s) == pc = "next" /\ s \in slices

(* All points carry the same label. *)
PureLeaf(s, v) ==
  /\ NextSlice(s)
  /\ \A x \in s.points : label[x] = v
  /\ CreateLeaf(s, v, label)

AllPositive(s) == Solutions(horn, label, Open(s), {})
AllNegative(s, leftover) == Solutions(horn, label, {}, Open(s) \cup leftover)

(* No negative point, and the unlabelled ones can be made positive. *)
PositiveLeaf(s) ==
  /\ NextSlice(s)
  /\ Has(s, "none") /\ ~ Has(s, "false")
  /\ AllPositive(s) # {}
  /\ CreateLeaf(s, "true", Assign(label, AllPositive(s)))

(* Negative points, and the unlabelled ones can be made negative. *)
NegativeLeaf(s) ==
  /\ NextSlice(s)
  /\ Has(s, "none") /\ Has(s, "false") /\ ~ Has(s, "true")
  /\ AllNegative(s, {}) # {}
  /\ CreateLeaf(s, "false", Assign(label, AllNegative(s, {})))

(* No point of the slice is labelled and they cannot all be positive.  The *)
(* second attempt starts from the negative points the first one left       *)
(* behind: negative_ptrs is not cleared.                                   *)
FallbackLeaf(s) ==
  /\ NextSlice(s)
  /\ s.points \subseteq Unlabelled
  /\ AllPositive(s) = {}
  /\ \E leftover \in SUBSET Unlabelled :
       /\ AllNegative(s, leftover) # {}
       /\ CreateLeaf(s, "false", Assign(label, AllNegative(s, leftover)))

(* Mutant: no second attempt on a slice without labels. *)
MustSplitAtOnce(s) ==
  \/ Has(s, "true") /\ Has(s, "false")
  \/ Has(s, "true") /\ Has(s, "none") /\ AllPositive(s) = {}
  \/ Has(s, "false") /\ Has(s, "none") /\ AllNegative(s, {}) = {}
  \/ s.points \subseteq Unlabelled /\ AllPositive(s) = {}

(* is_leaf returned false. *)
MustSplit(s) ==
  \/ Has(s, "true") /\ Has(s, "false")
  \/ Has(s, "true") /\ Has(s, "none") /\ AllPositive(s) = {}
  \/ Has(s, "false") /\ Has(s, "none") /\ AllNegative(s, {}) = {}
  \/ /\ s.points \subseteq Unlabelled
     /\ AllPositive(s) = {}
     /\ \E leftover \in SUBSET Unlabelled : AllNegative(s, leftover) = {}

ChooseSplit(s) ==
  /\ NextSlice(s)
  /\ MustSplit(s)
  /\ cur' = s
  /\ slices' = slices \ {s}
  /\ pc' = "split"
  /\ UNCHANGED <<sample, bound, horn, label, leaves>>

-----------------------------------------------------------------------------
(* find_best_split: a cut is the value of a point, with a larger value to  *)
(* its right, and small enough when cuts are thresholded.                  *)
Cuts(s, a) ==
  {v \in {sample.val[x][a] : x \in s.points} :
     /\ \E y \in s.points : sample.val[y][a] > v
     /\ UseBound => - bound <= v /\ v <= bound}

(* Mutant: the index to split at is one value too far to the left. *)
StrictlyBelow(s, a, v) == {x \in s.points : sample.val[x][a] < v}

(* int_split_job: the points left of the split index, and right of it. *)
Below(s, a, v) == {x \in s.points : sample.val[x][a] <= v}
Above(s, a, v) == {x \in s.points : sample.val[x][a] > v}

SplitAt(a, v) ==
  /\ pc = "split"
  /\ v \in Cuts(cur, a)
  /\ slices' = slices \cup
       {Slice(cur.path \cup {AtMost(a, v)}, Below(cur, a, v)),
        Slice(cur.path \cup {MoreThan(a, v)}, Above(cur, a, v))}
  /\ cur' = NoSlice
  /\ pc' = "next"
  /\ UNCHANGED <<sample, bound, horn, label, leaves>>

(* "No split possible!" *)
SplitNotPossible ==
  /\ pc = "split"
  /\ \A a \in Attribute : Cuts(cur, a) = {}
  /\ Throw
  /\ cur' = NoSlice
  /\ UNCHANGED <<sample, attempt>>

(* has_jobs() is false: learn returns, main writes the tree and stops. *)
Finish ==
  /\ pc = "next"
  /\ slices = {}
  /\ pc' = "done"
  /\ UNCHANGED <<sample, bound, attempt, cur>>

-----------------------------------------------------------------------------
Job == \E s \in slices : \/ \E v \in {"true", "false"} : PureLeaf(s, v)
                         \/ PositiveLeaf(s)
                         \/ NegativeLeaf(s)
                         \/ FallbackLeaf(s)
                         \/ ChooseSplit(s)

Split == \/ \E a \in Attribute : \E v \in Cuts(cur, a) : SplitAt(a, v)
         \/ SplitNotPossible

Next == StartAttempt \/ SampleError \/ LearnTrivial \/ FirstSplit \/ Job \/ Split
          \/ Finish

(* The program is sequential and never waits: it keeps taking steps. *)
Spec == Init /\ [][Next]_vars /\ WF_vars(Next)

-----------------------------------------------------------------------------
Test == [kind : {"cat"}, category : {sample.cat[x] : x \in Point}]
          \cup [kind : {"le", "gt"}, attribute : Attribute, cut : Int]

TypeOK ==
  /\ IsSample(sample)
  /\ bound \in Nat \ {0}
  /\ pc \in {"attempt", "learn", "next", "split", "done", "failed"}
  /\ horn \subseteq [body : SUBSET sample.points, head : sample.points \cup {FalseDp}]
  /\ label \in [Point -> Label]
  /\ \A s \in slices \cup {cur} : /\ s.points \in SUBSET sample.points
                                  /\ \A t \in s.path : t \in Test
  /\ \A l \in leaves : /\ l.label \in {"true", "false"}
                       /\ \A t \in l.path : t \in Test

(* The tree's answer for x (output_visitor). *)
Leaf(x)   == {l \in leaves : Reaches(x, l.path)}
Output(x) == \E l \in Leaf(x) : l.label = "true"

Agrees(l) == \A x \in sample.points : l[x] # "none" => (Output(x) <=> l[x] = "true")
Meets(H)  == \A c \in H : (\A x \in c.body : Output(x))
                           => c.head # FalseDp /\ Output(c.head)

(* learner::is_consistent, which main asserts of every tree it is about to *)
(* write: the tree agrees with all labels and satisfies all constraints of *)
(* the attempt.  Every data point ends in exactly one leaf.                *)
Consistent ==
  pc = "done" => /\ \A x \in sample.points : \E l \in leaves : Leaf(x) = {l}
                 /\ Agrees(label)
                 /\ Meets(horn)

(* The tree is consistent with the sample as it was read, although labels  *)
(* and constraints were added on the way, attempt after attempt.           *)
FitsSample == pc = "done" => Agrees(sample.label) /\ Meets(sample.horn)

OpenSlices == slices \cup {s \in {cur} : pc = "split"}

(* Slices and leaves divide the points up: the slices that are left are    *)
(* not empty (slice.h: "_left_index <= _right_index should be maintained") *)
(* and hold exactly the points that reach their place in the tree.         *)
Divided ==
  pc \in {"next", "split"} =>
    /\ \A s \in OpenSlices : /\ s.points # {}
                             /\ s.points = {x \in sample.points : Reaches(x, s.path)}
    /\ \A x \in sample.points :
         \/ \E l \in leaves : Leaf(x) = {l} /\ \A s \in OpenSlices : x \notin s.points
         \/ \E s \in OpenSlices : /\ Leaf(x) = {}
                                  /\ \A r \in OpenSlices : x \in r.points <=> r = s

(* Between two jobs every unlabelled point is free: it can be given either *)
(* label.  The solver therefore never fails on a single point (the         *)
(* assertion of update_datapoint_ptrs_to_frac_with_complete_horn_...).     *)
FreePointsStayFree ==
  pc \in {"next", "split"} =>
    \A x \in Unlabelled :
      Solutions(horn, label, {x}, {}) # {} /\ Solutions(horn, label, {}, {x}) # {}

(* find_best_split divides by the number of classified points and asserts  *)
(* that there are some: a slice that must be split holds a label.          *)
SplitHasLabels == pc = "split" => \E x \in cur.points : label[x] # "none"

(* The learner gives up only on contradictory samples: whatever the bounds *)
(* and heuristics, a sample with a solution gets a tree.                   *)
FailsOnlyIfContradictory ==
  pc = "failed" => Solutions(sample.horn, sample.label, {}, {}) = {}

(* A sample that asks for no positive point. *)
NegativeSample == /\ Labelled(sample.label, "true") = {}
                  /\ \A c \in sample.horn : c.body # {} /\ c.head = FalseDp

(* A sample that asks for no positive point is learned with the bound main *)
(* starts with, whatever is undistinguishable: neither the solver nor a    *)
(* split ever fails.  The teacher's first sample is of that kind, and the  *)
(* later rounds rely on the ".bound" file it leaves (LearnerProcess).      *)
NegativeSampleAtOnce == NegativeSample => bound = sample.bound /\ pc # "failed"

(* What the proofs rest on.  While a tree is learned:                      *)
(* - the constraints are those of the attempt, and labels were only added; *)
(* - the positive points are a solution, the least one, and each point     *)
(*   without label is positive in some solution;                           *)
(* - a leaf carries the label of all points that reach it;                 *)
(* - the points of a slice agree on the category.                          *)
LabelsAdded ==
  pc \in {"learn", "next", "split", "done"} =>
    /\ horn = AttemptConstraints
    /\ \A x \in Point : sample.label[x] # "none" => label[x] = sample.label[x]

LeastSolution ==
  pc \in {"learn", "next", "split", "done"} =>
    /\ Labelled(label, "true") \in Solutions(horn, label, {}, {})
    /\ \A x \in Labelled(label, "none") : Solutions(horn, label, {x}, {}) # {}

LeavesFit ==
  pc \in {"next", "split", "done"} =>
    \A l \in leaves : \A x \in sample.points :
      Reaches(x, l.path) => label[x] = l.label

OneCategory ==
  pc \in {"next", "split"} =>
    \A s \in OpenSlices : \A x, y \in s.points : sample.cat[x] = sample.cat[y]

AllInLeaves ==
  pc = "done" => \A x \in sample.points : \E l \in leaves : Leaf(x) = {l}

NotYetLearning == pc = "learn" => slices = {} /\ leaves = {}

SplitIsNeeded == pc = "split" => cur \notin slices /\ MustSplit(cur)

IInv ==
  /\ TypeOK
  /\ LabelsAdded
  /\ LeastSolution
  /\ LeavesFit
  /\ Divided
  /\ OneCategory
  /\ AllInLeaves
  /\ NotYetLearning
  /\ SplitIsNeeded
  /\ FailsOnlyIfContradictory

(* What NegativeSampleAtOnce needs on top of it: no slice is ever split,   *)
(* so each one left is a whole category, and it holds no positive point.   *)
NegativeInv ==
  NegativeSample =>
    /\ bound = sample.bound
    /\ pc \in {"attempt", "learn", "next", "done"}
    /\ pc = "learn" => Labelled(label, "true") = {}
    /\ pc = "next" =>
         \A s \in slices : \A x \in s.points :
           /\ label[x] # "true"
           /\ \A y \in sample.points : sample.cat[y] = sample.cat[x] => y \in s.points

(* A run of main ends with a tree or an error. *)
Terminates == <>(pc \in {"done", "failed"})

(* What is_distinguishable claims of two points it tells apart by a cut at *)
(* 0: "Data points can be distinguished using a numerical split with cut   *)
(* value = 0", so that a split is possible.                                *)
CutAtZero ==
  pc = "split" =>
    \A a \in Attribute :
      (\E x, y \in cur.points : sample.val[x][a] <= 0 /\ sample.val[y][a] > 0)
        => Cuts(cur, a) # {}
==============================================================================
