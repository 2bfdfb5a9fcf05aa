--------------------------- MODULE Learner_proofs ---------------------------
(***************************************************************************)
(* Proofs about Learner for any number of points, attributes, categories   *)
(* and constraints, any values and bounds, and every choice of slices and  *)
(* cuts.                                                                   *)
(***************************************************************************)
EXTENDS Learner, TLAPS

USE FalseDpAssumption, MaxBoundAssumption

-----------------------------------------------------------------------------

(* What it takes to be a solution. *)
LEMMA SolutionProp ==
  ASSUME NEW H, NEW l, NEW P, NEW N, NEW M
  PROVE  M \in Solutions(H, l, P, N) <=>
           /\ M \subseteq Point
           /\ Labelled(l, "true") \subseteq M /\ P \subseteq M
           /\ Labelled(l, "false") \cap M = {} /\ N \cap M = {}
           /\ \A c \in H : c.body \subseteq M => c.head \in M
<1> DEFINE pre == [c \in H |-> [x \in c.body |-> x]]
           con == [c \in H |-> c.head]
<1>1. M \in Solutions(H, l, P, N) <=>
        /\ M \subseteq Point
        /\ Labelled(l, "true") \cup P \subseteq M
        /\ (Labelled(l, "false") \cup N) \cap M = {}
        /\ \A c \in DOMAIN pre : Satisfies(M, pre[c], con[c])
  BY DEF Solutions, Models
<1>2. ASSUME NEW c \in H
      PROVE  Satisfies(M, pre[c], con[c]) <=> (c.body \subseteq M => c.head \in M)
  <2>1. pre[c] = [x \in c.body |-> x] /\ con[c] = c.head
    OBVIOUS
  <2>2. DOMAIN pre[c] = c.body /\ \A x \in c.body : pre[c][x] = x
    BY <2>1
  <2>3. QED
    BY <2>1, <2>2 DEF Satisfies
<1>3. DOMAIN pre = H
  OBVIOUS
<1>4. QED
  BY <1>1, <1>2, <1>3

(* Horn constraints: the points that are true in all solutions are a       *)

(* solution.                                                               *)
LEMMA LeastSolutionExists ==
  ASSUME NEW H, NEW l, NEW P \in SUBSET Point, NEW N, Solutions(H, l, P, N) # {}
  PROVE  ForcedTrue(Solutions(H, l, P, N)) \in Solutions(H, l, P, N)
<1> DEFINE MM == Solutions(H, l, P, N)
           L  == ForcedTrue(MM)
<1>1. PICK M0 : M0 \in MM
  OBVIOUS
<1>2. \A M \in MM : L \subseteq M
  BY DEF ForcedTrue
<1>3. L \subseteq Point
  BY DEF ForcedTrue
<1>4. \A M \in MM : Labelled(l, "true") \subseteq M /\ P \subseteq M
  BY SolutionProp
<1>5. Labelled(l, "true") \subseteq L /\ P \subseteq L
  <2>1. Labelled(l, "true") \subseteq Point
    BY DEF Labelled
  <2>2. QED
    BY <1>4, <2>1 DEF ForcedTrue
<1>6. Labelled(l, "false") \cap M0 = {} /\ N \cap M0 = {}
  BY <1>1, SolutionProp
<1>7. Labelled(l, "false") \cap L = {} /\ N \cap L = {}
  BY <1>1, <1>2, <1>6
<1>8. ASSUME NEW c \in H, c.body \subseteq L
      PROVE  c.head \in L
  <2>1. ASSUME NEW M \in MM PROVE c.head \in M /\ M \subseteq Point
    <3>1. c.body \subseteq M
      BY <1>2, <1>8
    <3>2. QED
      BY <3>1, SolutionProp
  <2>2. QED
    BY <1>1, <2>1 DEF ForcedTrue
<1>9. QED
  BY <1>3, <1>5, <1>7, <1>8, SolutionProp

(* What assigning the solver's answer does to the labels. *)
LEMMA AssignProp ==
  ASSUME NEW H, NEW l \in [Point -> Label], NEW P \in SUBSET Point, NEW N,
         Solutions(H, l, P, N) # {},
         NEW m, m = Assign(l, Solutions(H, l, P, N))
  PROVE  /\ m \in [Point -> Label]
         /\ \A x \in Point : l[x] # "none" => m[x] = l[x]
         /\ Labelled(m, "true") \in Solutions(H, m, {}, {})
         /\ \A x \in Point : m[x] = "none" => Solutions(H, m, {x}, {}) # {}
         /\ \A x \in Point : x \in P => m[x] = "true"
         /\ \A x \in Point : x \in N => m[x] = "false"
<1> DEFINE MM == Solutions(H, l, P, N)
<1>0. PICK M0 : M0 \in MM
  OBVIOUS
<1>1. m \in [Point -> Label]
  BY DEF Assign, Label
<1>2. \A x \in Point : m[x] = IF x \in ForcedFalse(MM) /\ l[x] = "none" THEN "false"
                              ELSE IF x \in ForcedTrue(MM) /\ l[x] = "none" THEN "true"
                              ELSE l[x]
  BY DEF Assign
<1>3. \A x \in Point : l[x] \in {"true", "false", "none"}
  BY DEF Label
<1>4. ASSUME NEW x \in Point
      PROVE  /\ l[x] = "true" => x \in ForcedTrue(MM)
             /\ l[x] = "false" => x \in ForcedFalse(MM)
             /\ ~ (x \in ForcedTrue(MM) /\ x \in ForcedFalse(MM))
  <2>1. \A M \in MM : Labelled(l, "true") \subseteq M /\ Labelled(l, "false") \cap M = {}
    BY SolutionProp
  <2>2. QED
    BY <1>0, <2>1 DEF Labelled, ForcedTrue, ForcedFalse
<1>5. ASSUME NEW x \in Point
      PROVE  /\ m[x] = "true" <=> x \in ForcedTrue(MM)
             /\ m[x] = "false" <=> x \in ForcedFalse(MM)
  BY <1>2, <1>3, <1>4
<1>6. Labelled(m, "true") = ForcedTrue(MM) /\ Labelled(m, "false") = ForcedFalse(MM)
  BY <1>5 DEF Labelled, ForcedTrue, ForcedFalse
<1>7. \A M \in MM : M \in Solutions(H, m, {}, {})
  <2>1. SUFFICES ASSUME NEW M \in MM PROVE M \in Solutions(H, m, {}, {})
    OBVIOUS
  <2>2. M \subseteq Point /\ \A c \in H : c.body \subseteq M => c.head \in M
    BY SolutionProp
  <2>3. ForcedTrue(MM) \subseteq M /\ ForcedFalse(MM) \cap M = {}
    BY DEF ForcedTrue, ForcedFalse
  <2>4. QED
    BY <1>6, <2>2, <2>3, SolutionProp
<1>8. Labelled(m, "true") \in Solutions(H, m, {}, {})
  BY <1>6, <1>7, LeastSolutionExists
<1>9. ASSUME NEW x \in Point, m[x] = "none"
      PROVE  Solutions(H, m, {x}, {}) # {}
  <2>1. PICK M \in MM : x \in M
    BY <1>5, <1>9 DEF ForcedFalse
  <2>2. M \in Solutions(H, m, {x}, {})
    BY <1>7, <2>1, SolutionProp
  <2>3. QED
    BY <2>2
<1>10. ASSUME NEW x \in Point, x \in P PROVE m[x] = "true"
  <2>1. \A M \in MM : P \subseteq M
    BY SolutionProp
  <2>2. QED
    BY <1>5, <1>10, <2>1 DEF ForcedTrue
<1>11. ASSUME NEW x \in Point, x \in N PROVE m[x] = "false"
  <2>1. \A M \in MM : N \cap M = {}
    BY SolutionProp
  <2>2. QED
    BY <1>5, <1>11, <2>1 DEF ForcedFalse
<1>12. \A x \in Point : l[x] # "none" => m[x] = l[x]
  BY <1>2
<1>13. QED
  BY <1>1, <1>8, <1>9, <1>10, <1>11, <1>12

-----------------------------------------------------------------------------

(* Tests depend on the sample alone, which no step changes. *)
LEMMA SampleKept ==
  ASSUME sample' = sample
  PROVE  /\ IsSample(sample)' <=> IsSample(sample)
         /\ Test' = Test
         /\ \A x, path : Reaches(x, path)' <=> Reaches(x, path)
<1>1. IsSample(sample)' <=> IsSample(sample)
  BY DEF IsSample
<1>2. Test' = Test
  BY DEF Test
<1>3. \A x, t : Passes(x, t)' <=> Passes(x, t)
  BY DEF Passes
<1>4. \A x, path : Reaches(x, path)' <=> Reaches(x, path)
  BY <1>3, Zenon DEF Reaches
<1>5. QED
  BY <1>1, <1>2, <1>4

(* The constraints depend on the sample and the bound. *)
LEMMA BoundKept ==
  ASSUME sample' = sample, bound' = bound
  PROVE  AttemptConstraints' = AttemptConstraints
<1>1. \A x, y : IsDistinguishable(x, y)' <=> IsDistinguishable(x, y)
  BY DEF IsDistinguishable
<1>2. Indistinguishable' = Indistinguishable
  BY <1>1 DEF Indistinguishable
<1>3. QED
  BY <1>2 DEF AttemptConstraints, UseBound

(* The constraints of an attempt are constraints over the data points. *)
LEMMA ConstraintsType ==
  ASSUME IsSample(sample)
  PROVE  AttemptConstraints \subseteq [body : SUBSET sample.points,
                                       head : sample.points \cup {FalseDp}]
<1>1. Indistinguishable \subseteq [body : SUBSET sample.points,
                                   head : sample.points \cup {FalseDp}]
  BY DEF Indistinguishable
<1>2. QED
  BY <1>1 DEF AttemptConstraints, IsSample

-----------------------------------------------------------------------------

(* The inductive invariant holds before the first attempt. *)
LEMMA InitIInv == Init => IInv
<1> SUFFICES ASSUME Init PROVE IInv
  OBVIOUS
<1> USE DEF Init
<1>1. IsSample(sample)
  BY SamplesAssumption
<1>2. TypeOK
  BY <1>1 DEF TypeOK, IsSample, NoSlice, Slice
<1>3. LabelsAdded /\ LeastSolution /\ LeavesFit /\ Divided /\ OneCategory /\ AllInLeaves
  BY DEF LabelsAdded, LeastSolution, LeavesFit, Divided, OneCategory, AllInLeaves
<1>4. NotYetLearning /\ SplitIsNeeded /\ FailsOnlyIfContradictory
  BY DEF NotYetLearning, SplitIsNeeded, FailsOnlyIfContradictory
<1>5. QED
  BY <1>2, <1>3, <1>4 DEF IInv

(* A new attempt starts from the labels of the sample. *)
LEMMA StartAttemptIInv ==
  ASSUME IInv, StartAttempt
  PROVE  IInv'
<1> USE DEF StartAttempt
<1> DEFINE MM == Solutions(horn', sample.label, {}, {})
<1>1. sample' = sample /\ bound' = bound /\ cur' = cur /\ pc' = "learn"
      /\ horn' = AttemptConstraints /\ slices' = {} /\ leaves' = {}
      /\ MM # {} /\ label' = Assign(sample.label, MM)
  OBVIOUS
<1>2. IsSample(sample) /\ sample.label \in [Point -> Label]
  BY DEF IInv, TypeOK, IsSample
<1>3. /\ label' \in [Point -> Label]
      /\ \A x \in Point : sample.label[x] # "none" => label'[x] = sample.label[x]
      /\ Labelled(label', "true") \in Solutions(horn', label', {}, {})
      /\ \A x \in Point : label'[x] = "none" => Solutions(horn', label', {x}, {}) # {}
  BY <1>1, <1>2, AssignProp
<1>4. TypeOK'
  BY <1>1, <1>2, <1>3, SampleKept, ConstraintsType DEF IInv, TypeOK
<1>5. LabelsAdded'
  BY <1>1, <1>3, BoundKept DEF LabelsAdded
<1>6. LeastSolution'
  BY <1>3 DEF LeastSolution, Labelled
<1>7. LeavesFit' /\ Divided' /\ OneCategory' /\ AllInLeaves'
  BY <1>1 DEF LeavesFit, Divided, OneCategory, AllInLeaves
<1>8. NotYetLearning' /\ SplitIsNeeded' /\ FailsOnlyIfContradictory'
  BY <1>1 DEF NotYetLearning, SplitIsNeeded, FailsOnlyIfContradictory
<1>9. QED
  BY <1>4, <1>5, <1>6, <1>7, <1>8 DEF IInv

(* An exception either starts over or, without a bound, ends the program. *)
LEMMA ThrowIInv ==
  ASSUME IInv, Throw, UNCHANGED <<sample, attempt>>, cur' \in {cur, NoSlice},
         ~ UseBound => Solutions(sample.horn, sample.label, {}, {}) = {}
  PROVE  IInv'
<1>1. sample' = sample /\ horn' = horn /\ label' = label /\ slices' = slices
      /\ leaves' = leaves
  BY DEF attempt
<1>2. /\ bound' \in {bound, 2 * bound}
      /\ pc' = "attempt" \/ (pc' = "failed" /\ ~ UseBound)
  BY DEF Throw
<1>3. TypeOK'
  <2>1. bound' \in Nat \ {0}
    BY <1>2 DEF IInv, TypeOK
  <2>2. cur'.points \in SUBSET sample.points /\ \A t \in cur'.path : t \in Test
    BY DEF IInv, TypeOK, NoSlice, Slice
  <2>3. QED
    BY <1>1, <1>2, <2>1, <2>2, SampleKept DEF IInv, TypeOK
<1>4. LabelsAdded' /\ LeastSolution' /\ LeavesFit' /\ Divided' /\ OneCategory'
      /\ AllInLeaves' /\ NotYetLearning' /\ SplitIsNeeded'
  BY <1>2 DEF LabelsAdded, LeastSolution, LeavesFit, Divided, OneCategory,
              AllInLeaves, NotYetLearning, SplitIsNeeded
<1>5. FailsOnlyIfContradictory'
  BY <1>1, <1>2, Zenon DEF FailsOnlyIfContradictory
<1>6. QED
  BY <1>3, <1>4, <1>5 DEF IInv

(* SampleError preserves it: without bound the sample itself has no solution. *)
LEMMA SampleErrorIInv ==
  ASSUME IInv, SampleError
  PROVE  IInv'
<1> USE DEF SampleError
<1>1. ~ UseBound => AttemptConstraints = sample.horn
  BY DEF AttemptConstraints
<1>2. ~ UseBound => Solutions(sample.horn, sample.label, {}, {}) = {}
  BY <1>1
<1>3. QED
  BY <1>2, ThrowIInv

(* LearnTrivial preserves it: there are no data points to fit. *)
LEMMA LearnTrivialIInv ==
  ASSUME IInv, LearnTrivial
  PROVE  IInv'
<1> USE DEF LearnTrivial
<1>1. sample' = sample /\ bound' = bound /\ horn' = horn /\ label' = label
      /\ slices' = slices /\ cur' = cur /\ pc = "learn" /\ pc' = "done"
      /\ sample.points = {} /\ leaves' = {[path |-> {}, label |-> "true"]}
  OBVIOUS
<1>2. TypeOK'
  BY <1>1, SampleKept DEF IInv, TypeOK
<1>3. LabelsAdded'
  BY <1>1, BoundKept DEF IInv, LabelsAdded
<1>4. LeastSolution'
  BY <1>1 DEF IInv, LeastSolution
<1>5. LeavesFit' /\ Divided' /\ OneCategory' /\ AllInLeaves'
  BY <1>1 DEF LeavesFit, Divided, OneCategory, AllInLeaves
<1>6. NotYetLearning' /\ SplitIsNeeded' /\ FailsOnlyIfContradictory'
  BY <1>1 DEF NotYetLearning, SplitIsNeeded, FailsOnlyIfContradictory
<1>7. QED
  BY <1>2, <1>3, <1>4, <1>5, <1>6 DEF IInv

(* The categories divide the points up. *)
LEMMA FirstSplitIInv ==
  ASSUME IInv, FirstSplit
  PROVE  IInv'
<1> USE DEF FirstSplit
<1> DEFINE Cat(x) == {y \in sample.points : sample.cat[y] = sample.cat[x]}
           Sl(x)  == Slice({CatIs(sample.cat[x])}, Cat(x))
<1>1. sample' = sample /\ bound' = bound /\ horn' = horn /\ label' = label
      /\ leaves' = leaves /\ cur' = cur /\ pc = "learn" /\ pc' = "next"
  OBVIOUS
<1>21. \A s \in slices' : \E x \in sample.points : s = Sl(x)
  OBVIOUS
<1>22. \A x \in sample.points : Sl(x) \in slices'
  OBVIOUS
<1>2. leaves = {} /\ IsSample(sample)
  BY <1>1 DEF IInv, NotYetLearning, TypeOK
<1>3. \A x : Sl(x).path = {CatIs(sample.cat[x])} /\ Sl(x).points = Cat(x)
  BY DEF Slice
<1>23. \A x, y : sample.cat[x] = sample.cat[y] => Sl(x) = Sl(y)
  OBVIOUS
<1>24. \A x : \A y \in Cat(x) : y \in sample.points /\ sample.cat[y] = sample.cat[x]
  OBVIOUS
<1>25. \A x \in sample.points : x \in Cat(x)
  OBVIOUS
<1>26. \A x : Cat(x) = {y \in sample.points : sample.cat[y] = sample.cat[x]}
  OBVIOUS
<1> HIDE DEF Cat, Sl
<1>4. OpenSlices' = slices'
  BY <1>1 DEF OpenSlices
<1>5. TypeOK'
  <2>1. ASSUME NEW x \in sample.points
        PROVE  CatIs(sample.cat[x]) \in Test
    BY <1>2, <2>1 DEF CatIs, Test, IsSample
  <2>2. ASSUME NEW s \in slices'
        PROVE  s.points \in SUBSET sample.points /\ \A t \in s.path : t \in Test
    <3>1. PICK x \in sample.points : s = Sl(x)
      BY <1>21
    <3>2. s.path = {CatIs(sample.cat[x])} /\ s.points = Cat(x)
      BY <1>3, <3>1
    <3>3. QED
      BY <1>24, <2>1, <3>2
  <2>3. QED
    BY <1>1, <2>2, SampleKept DEF IInv, TypeOK
<1>6. LabelsAdded'
  BY <1>1, BoundKept DEF IInv, LabelsAdded
<1>7. LeastSolution'
  BY <1>1 DEF IInv, LeastSolution
<1>8. Divided'
  <2>1. \A y, x : Reaches(y, {CatIs(sample.cat[x])}) <=> sample.cat[y] = sample.cat[x]
    BY DEF Reaches, Passes, CatIs
  <2>2. ASSUME NEW s \in slices'
        PROVE  /\ s.points # {}
               /\ s.points = {x \in sample.points : Reaches(x, s.path)}
    <3>1. PICK x \in sample.points : s = Sl(x)
      BY <1>21
    <3>2. s.path = {CatIs(sample.cat[x])} /\ s.points = Cat(x)
      BY <1>3, <3>1
    <3>3. Cat(x) = {y \in sample.points : sample.cat[y] = sample.cat[x]}
      BY <1>26
    <3>4. ASSUME NEW y PROVE Reaches(y, s.path) <=> sample.cat[y] = sample.cat[x]
      <4>1. Reaches(y, s.path) <=> Reaches(y, {CatIs(sample.cat[x])})
        BY <3>2
      <4>2. QED
        BY <2>1, <4>1
    <3>5. s.points = {y \in sample.points : Reaches(y, s.path)}
      BY <3>2, <3>3, <3>4
    <3>6. QED
      BY <1>25, <3>2, <3>5
  <2>3. ASSUME NEW x \in sample.points
        PROVE  /\ Sl(x) \in slices'
               /\ \A r \in slices' : x \in r.points <=> r = Sl(x)
    <3>1. Sl(x) \in slices' /\ x \in Sl(x).points
      <4>1. x \in Cat(x) /\ Sl(x).points = Cat(x)
        BY <1>25, <1>3
      <4>2. QED
        BY <1>22, <4>1
    <3>2. ASSUME NEW r \in slices', x \in r.points
          PROVE  r = Sl(x)
      <4>1. PICK y \in sample.points : r = Sl(y)
        BY <1>21
      <4>2. x \in Cat(y)
        BY <1>3, <3>2, <4>1
      <4>3. QED
        BY <1>23, <1>24, <4>1, <4>2
    <3>3. QED
      BY <3>1, <3>2
  <2>4. \A x : Leaf(x)' = {}
    BY <1>1, <1>2 DEF Leaf
  <2>5. \A s \in slices' : s.points = {x \in sample'.points : Reaches(x, s.path)'}
    BY <1>1, <2>2, SampleKept
  <2>6. \A x \in sample'.points :
          \E s \in slices' : Leaf(x)' = {} /\ \A r \in slices' : x \in r.points <=> r = s
    BY <1>1, <2>3, <2>4
  <2>7. QED
    BY <1>4, <2>2, <2>5, <2>6, Zenon DEF Divided
<1>9. LeavesFit'
  BY <1>1, <1>2 DEF LeavesFit
<1>10. OneCategory'
  <2>1. ASSUME NEW s \in slices', NEW x \in s.points, NEW y \in s.points
        PROVE  sample.cat[x] = sample.cat[y]
    <3>1. PICK z \in sample.points : s = Sl(z)
      BY <1>21
    <3>2. x \in Cat(z) /\ y \in Cat(z)
      BY <1>3, <3>1
    <3>3. QED
      BY <1>24, <3>2
  <2>2. \A s \in slices' : \A x, y \in s.points : sample'.cat[x] = sample'.cat[y]
    BY <1>1, <2>1
  <2>3. QED
    BY <1>4, <2>2 DEF OneCategory
<1>11. AllInLeaves' /\ NotYetLearning' /\ SplitIsNeeded' /\ FailsOnlyIfContradictory'
  BY <1>1 DEF AllInLeaves, NotYetLearning, SplitIsNeeded, FailsOnlyIfContradictory
<1>12. QED
  BY <1>5, <1>6, <1>7, <1>8, <1>9, <1>10, <1>11 DEF IInv

-----------------------------------------------------------------------------
(* A leaf takes the place of its slice, with labels that agree with it and *)

(* that only add to the old ones.                                          *)
LEMMA CreateLeafIInv ==
  ASSUME IInv, NEW s \in slices, pc = "next", NEW v \in {"true", "false"},
         NEW m \in [Point -> Label], CreateLeaf(s, v, m),
         \A x \in Point : label[x] # "none" => m[x] = label[x],
         Labelled(m, "true") \in Solutions(horn, m, {}, {}),
         \A x \in Point : m[x] = "none" => Solutions(horn, m, {x}, {}) # {},
         \A x \in s.points : m[x] = v
  PROVE  IInv'
<1> DEFINE n == [path |-> s.path, label |-> v]
<1>1. sample' = sample /\ bound' = bound /\ horn' = horn /\ pc' = "next" /\ cur' = cur
      /\ leaves' = leaves \cup {n} /\ label' = m /\ slices' = slices \ {s}
  BY DEF CreateLeaf
<1>2. n.path = s.path /\ n.label = v
  OBVIOUS
<1> HIDE DEF n
<1>3. IsSample(sample) /\ sample.points \subseteq Point
  BY DEF IInv, TypeOK, IsSample
<1>4. OpenSlices = slices /\ OpenSlices' = slices \ {s}
  BY <1>1 DEF OpenSlices
<1>5. TypeOK'
  <2>1. \A t \in n.path : t \in Test
    BY <1>2 DEF IInv, TypeOK
  <2>2. QED
    BY <1>1, <1>2, <2>1, SampleKept DEF IInv, TypeOK
<1>6. LabelsAdded'
  <2>1. /\ horn = AttemptConstraints
        /\ \A x \in Point : sample.label[x] # "none" => label[x] = sample.label[x]
    BY DEF IInv, LabelsAdded
  <2>2. \A x \in Point : sample.label[x] # "none" => m[x] = sample.label[x]
    BY <2>1
  <2>3. QED
    BY <1>1, <2>1, <2>2, BoundKept DEF LabelsAdded
<1>7. LeastSolution'
  BY <1>1 DEF LeastSolution, Labelled
<1>8. \A x \in sample.points : Reaches(x, s.path) <=> x \in s.points
  BY <1>4 DEF IInv, Divided
<1>9. LeavesFit'
  <2>1. ASSUME NEW l \in leaves', NEW x \in sample.points, Reaches(x, l.path)
        PROVE  m[x] = l.label
    <3>1. CASE l = n
      BY <1>2, <1>8, <2>1, <3>1
    <3>2. CASE l \in leaves
      <4>1. label[x] = l.label /\ l.label \in {"true", "false"}
        BY <2>1, <3>2 DEF IInv, LeavesFit, TypeOK
      <4>2. QED
        BY <1>3, <4>1
    <3>3. QED
      BY <1>1, <2>1, <3>1, <3>2
  <2>2. QED
    BY <1>1, <2>1, SampleKept, Zenon DEF LeavesFit
<1>10. Divided'
  <2>1. \A x : Leaf(x)' = {l \in leaves \cup {n} : Reaches(x, l.path)}
    BY <1>1, SampleKept DEF Leaf
  <2>2. \A x \in sample.points : x \notin s.points => Leaf(x)' = Leaf(x)
    BY <1>2, <1>8, <2>1 DEF Leaf
  <2>3. \A x \in sample.points : x \in s.points /\ Leaf(x) = {} => Leaf(x)' = {n}
    BY <1>2, <1>8, <2>1 DEF Leaf
  <2>4. ASSUME NEW x \in sample.points
        PROVE  \/ \E l \in leaves' : Leaf(x)' = {l} /\ \A r \in slices' : x \notin r.points
               \/ \E r \in slices' : /\ Leaf(x)' = {}
                                     /\ \A q \in slices' : x \in q.points <=> q = r
    <3>1. CASE \E l \in leaves : Leaf(x) = {l} /\ \A r \in slices : x \notin r.points
      BY <1>1, <2>2, <3>1
    <3>2. CASE Leaf(x) = {} /\ \A q \in slices : x \in q.points <=> q = s
      BY <1>1, <2>3, <3>2
    <3>3. ASSUME NEW r \in slices, r # s, Leaf(x) = {},
                 \A q \in slices : x \in q.points <=> q = r
          PROVE  \E u \in slices' : /\ Leaf(x)' = {}
                                    /\ \A q \in slices' : x \in q.points <=> q = u
      <4>1. x \notin s.points
        BY <3>3
      <4>2. Leaf(x)' = {} /\ r \in slices'
        BY <1>1, <2>2, <3>3, <4>1
      <4>3. \A q \in slices' : x \in q.points <=> q = r
        BY <1>1, <3>3
      <4>4. QED
        BY <4>2, <4>3
    <3>4. \/ \E l \in leaves : Leaf(x) = {l} /\ \A r \in slices : x \notin r.points
          \/ \E r \in slices : /\ Leaf(x) = {}
                               /\ \A q \in slices : x \in q.points <=> q = r
      BY <1>4 DEF IInv, Divided
    <3>5. QED
      BY <3>1, <3>2, <3>3, <3>4
  <2>5. \A r \in slices' : /\ r.points # {}
                           /\ r.points = {x \in sample'.points : Reaches(x, r.path)'}
    <3>1. \A r \in slices : /\ r.points # {}
                            /\ r.points = {x \in sample.points : Reaches(x, r.path)}
      BY <1>4 DEF IInv, Divided
    <3>2. QED
      BY <1>1, <3>1, SampleKept
  <2>6. OpenSlices' = slices' /\ sample' = sample
    BY <1>1, <1>4
  <2>7. QED
    BY <2>4, <2>5, <2>6 DEF Divided
<1>11. OneCategory'
  BY <1>1, <1>4 DEF IInv, OneCategory
<1>12. AllInLeaves' /\ NotYetLearning' /\ SplitIsNeeded' /\ FailsOnlyIfContradictory'
  BY <1>1 DEF AllInLeaves, NotYetLearning, SplitIsNeeded, FailsOnlyIfContradictory
<1>13. QED
  BY <1>5, <1>6, <1>7, <1>9, <1>10, <1>11, <1>12 DEF IInv

(* PureLeaf preserves it: the leaf carries the label of all points of its slice. *)
LEMMA PureLeafIInv ==
  ASSUME IInv, NEW s \in slices, NEW v \in {"true", "false"}, PureLeaf(s, v)
  PROVE  IInv'
<1> USE DEF PureLeaf, NextSlice
<1>1. label \in [Point -> Label]
  BY DEF IInv, TypeOK
<1>2. Labelled(label, "true") \in Solutions(horn, label, {}, {})
  BY DEF IInv, LeastSolution
<1>3. \A x \in Point : label[x] = "none" => Solutions(horn, label, {x}, {}) # {}
  BY DEF IInv, LeastSolution, Labelled
<1>4. QED
  BY <1>1, <1>2, <1>3, CreateLeafIInv

(* The leaves that need the solver: the points of the slice that were open *)

(* all get the label that was tried.                                       *)
LEMMA PositiveLeafIInv ==
  ASSUME IInv, NEW s \in slices, PositiveLeaf(s)
  PROVE  IInv'
<1> USE DEF PositiveLeaf, NextSlice, AllPositive
<1> DEFINE P == Open(s)
           m == Assign(label, AllPositive(s))
<1>1. label \in [Point -> Label] /\ Open(s) \in SUBSET Point /\ s.points \subseteq Point
  BY DEF IInv, TypeOK, IsSample, Open, Unlabelled, Labelled
<1>2. /\ m \in [Point -> Label]
      /\ \A x \in Point : label[x] # "none" => m[x] = label[x]
      /\ Labelled(m, "true") \in Solutions(horn, m, {}, {})
      /\ \A x \in Point : m[x] = "none" => Solutions(horn, m, {x}, {}) # {}
      /\ \A x \in Point : x \in Open(s) => m[x] = "true"
  <2>1. P \in SUBSET Point /\ Solutions(horn, label, P, {}) # {}
        /\ m = Assign(label, Solutions(horn, label, P, {}))
    BY <1>1
  <2> HIDE DEF P, m
  <2>2. /\ m \in [Point -> Label]
        /\ \A x \in Point : label[x] # "none" => m[x] = label[x]
        /\ Labelled(m, "true") \in Solutions(horn, m, {}, {})
        /\ \A x \in Point : m[x] = "none" => Solutions(horn, m, {x}, {}) # {}
        /\ \A x \in Point : x \in P => m[x] = "true"
    BY <1>1, <2>1, AssignProp
  <2>3. QED
    BY <2>2 DEF P
<1> HIDE DEF P, m
<1>3. ASSUME NEW x \in s.points PROVE m[x] = "true"
  <2>1. label[x] \in {"true", "none"}
    BY <1>1, <1>3 DEF Has, Label
  <2>2. label[x] = "none" => x \in Open(s)
    BY <1>1 DEF Open, Unlabelled, Labelled, IInv, TypeOK
  <2>3. QED
    BY <1>1, <1>2, <2>1, <2>2
<1>4. CreateLeaf(s, "true", m)
  BY DEF m
<1>5. QED
  BY <1>2, <1>3, <1>4, CreateLeafIInv

(* NegativeLeaf preserves it: all points of the slice become negative. *)
LEMMA NegativeLeafIInv ==
  ASSUME IInv, NEW s \in slices, NEW leftover \in SUBSET Unlabelled,
         pc = "next", ~ Has(s, "true"), AllNegative(s, leftover) # {},
         CreateLeaf(s, "false", Assign(label, AllNegative(s, leftover)))
  PROVE  IInv'
<1> USE DEF AllNegative
<1> DEFINE N == Open(s) \cup leftover
           m == Assign(label, AllNegative(s, leftover))
<1>1. label \in [Point -> Label] /\ s.points \subseteq Point
  BY DEF IInv, TypeOK, IsSample
<1>2. /\ m \in [Point -> Label]
      /\ \A x \in Point : label[x] # "none" => m[x] = label[x]
      /\ Labelled(m, "true") \in Solutions(horn, m, {}, {})
      /\ \A x \in Point : m[x] = "none" => Solutions(horn, m, {x}, {}) # {}
      /\ \A x \in Point : x \in Open(s) \cup leftover => m[x] = "false"
  <2>1. Solutions(horn, label, {}, N) # {}
        /\ m = Assign(label, Solutions(horn, label, {}, N))
    OBVIOUS
  <2> HIDE DEF N, m
  <2>2. /\ m \in [Point -> Label]
        /\ \A x \in Point : label[x] # "none" => m[x] = label[x]
        /\ Labelled(m, "true") \in Solutions(horn, m, {}, {})
        /\ \A x \in Point : m[x] = "none" => Solutions(horn, m, {x}, {}) # {}
        /\ \A x \in Point : x \in N => m[x] = "false"
    BY <1>1, <2>1, AssignProp
  <2>3. QED
    BY <2>2 DEF N
<1> HIDE DEF N, m
<1>3. ASSUME NEW x \in s.points PROVE m[x] = "false"
  <2>1. label[x] \in {"false", "none"}
    BY <1>1, <1>3 DEF Has, Label
  <2>2. label[x] = "none" => x \in Open(s)
    BY <1>1 DEF Open, Unlabelled, Labelled, IInv, TypeOK
  <2>3. QED
    BY <1>1, <1>2, <2>1, <2>2
<1>4. CreateLeaf(s, "false", m)
  BY DEF m
<1>5. QED
  BY <1>2, <1>3, <1>4, CreateLeafIInv

(* Unlabelled points can all be negative together: a slice that must be    *)

(* split has labels, and at least two points.                              *)
LEMMA AllNegativePossible ==
  ASSUME IInv, pc \in {"next", "split"}, NEW s, NEW leftover \in SUBSET Unlabelled
  PROVE  AllNegative(s, leftover) # {}
<1> DEFINE M == Labelled(label, "true")
<1>1. M \in Solutions(horn, label, {}, {})
  BY DEF IInv, LeastSolution
<1>2. (Open(s) \cup leftover) \cap M = {}
  BY DEF Open, Unlabelled, Labelled
<1>3. M \in AllNegative(s, leftover)
  BY <1>1, <1>2, SolutionProp DEF AllNegative
<1>4. QED
  BY <1>3

(* A slice that must be split has two points. *)
LEMMA SplitHasTwoPoints ==
  ASSUME IInv, pc \in {"next", "split"}, NEW s, MustSplit(s)
  PROVE  \E x, y \in s.points : label[x] # "none" /\ label[y] # label[x]
<1>1. \A leftover \in SUBSET Unlabelled : AllNegative(s, leftover) # {}
  BY AllNegativePossible
<1>2. \/ Has(s, "true") /\ Has(s, "false")
      \/ Has(s, "true") /\ Has(s, "none")
      \/ Has(s, "false") /\ Has(s, "none")
  BY <1>1 DEF MustSplit
<1>3. QED
  BY <1>2 DEF Has

(* ChooseSplit preserves it: the slice moves from slices to cur. *)
LEMMA ChooseSplitIInv ==
  ASSUME IInv, NEW s \in slices, ChooseSplit(s)
  PROVE  IInv'
<1> USE DEF ChooseSplit, NextSlice
<1>1. sample' = sample /\ bound' = bound /\ horn' = horn /\ label' = label
      /\ leaves' = leaves /\ cur' = s /\ slices' = slices \ {s}
      /\ pc = "next" /\ pc' = "split"
  OBVIOUS
<1>2. OpenSlices = slices /\ OpenSlices' = slices
  BY <1>1 DEF OpenSlices
<1>3. TypeOK'
  BY <1>1, SampleKept DEF IInv, TypeOK
<1>4. LabelsAdded'
  BY <1>1, BoundKept DEF IInv, LabelsAdded
<1>5. LeastSolution'
  BY <1>1 DEF IInv, LeastSolution
<1>6. LeavesFit'
  BY <1>1, SampleKept DEF IInv, LeavesFit
<1>7. Divided'
  <2>1. \A x : Leaf(x)' = Leaf(x)
    BY <1>1, SampleKept DEF Leaf
  <2>2. \A r \in slices : r.points # {}
                          /\ r.points = {x \in sample'.points : Reaches(x, r.path)'}
    <3>1. \A r \in slices : r.points # {}
                            /\ r.points = {x \in sample.points : Reaches(x, r.path)}
      BY <1>1, <1>2 DEF IInv, Divided
    <3>2. QED
      BY <1>1, <3>1, SampleKept
  <2>3. \A x \in sample.points :
          \/ \E l \in leaves : Leaf(x) = {l} /\ \A r \in slices : x \notin r.points
          \/ \E r \in slices : /\ Leaf(x) = {}
                               /\ \A q \in slices : x \in q.points <=> q = r
    BY <1>1, <1>2 DEF IInv, Divided
  <2>4. QED
    BY <1>1, <1>2, <2>1, <2>2, <2>3 DEF Divided
<1>8. OneCategory'
  BY <1>1, <1>2 DEF IInv, OneCategory
<1>9. SplitIsNeeded'
  <2>1. MustSplit(s)'
    <3>1. Unlabelled' = Unlabelled
      BY <1>1 DEF Unlabelled
    <3>2. AllPositive(s)' = AllPositive(s)
      BY <1>1, <3>1 DEF AllPositive, Open
    <3>3. \A leftover : AllNegative(s, leftover)' = AllNegative(s, leftover)
      BY <1>1, <3>1 DEF AllNegative, Open
    <3>4. \A v : Has(s, v)' <=> Has(s, v)
      BY <1>1 DEF Has
    <3>5. QED
      BY <3>1, <3>2, <3>3, <3>4, Zenon DEF MustSplit
  <2>2. QED
    BY <1>1, <2>1 DEF SplitIsNeeded, MustSplit
<1>10. AllInLeaves' /\ NotYetLearning' /\ FailsOnlyIfContradictory'
  BY <1>1 DEF AllInLeaves, NotYetLearning, FailsOnlyIfContradictory
<1>11. QED
  BY <1>3, <1>4, <1>5, <1>6, <1>7, <1>8, <1>9, <1>10 DEF IInv

(* A cut puts two slices in the place of one. *)
LEMMA SplitAtIInv ==
  ASSUME IInv, NEW a \in Attribute, NEW v, SplitAt(a, v)
  PROVE  IInv'
<1> USE DEF SplitAt
<1> DEFINE le == AtMost(a, v)
           gt == MoreThan(a, v)
           B  == Slice(cur.path \cup {le}, Below(cur, a, v))
           A  == Slice(cur.path \cup {gt}, Above(cur, a, v))
<1>1. sample' = sample /\ bound' = bound /\ horn' = horn /\ label' = label
      /\ leaves' = leaves /\ cur' = NoSlice /\ pc = "split" /\ pc' = "next"
      /\ slices' = slices \cup {B, A} /\ v \in Cuts(cur, a)
  OBVIOUS
<1>2. IsSample(sample) /\ cur.points \subseteq sample.points /\ cur \notin slices
  BY <1>1 DEF IInv, TypeOK, SplitIsNeeded
<1>3. \A x \in cur.points : sample.val[x][a] \in Int
  BY <1>2 DEF IsSample
<1>4. v \in Int
  BY <1>1, <1>3 DEF Cuts
<1>5. /\ B.path = cur.path \cup {le} /\ B.points = Below(cur, a, v)
      /\ A.path = cur.path \cup {gt} /\ A.points = Above(cur, a, v)
  BY DEF Slice
<1>6. le \in Test /\ gt \in Test
  BY <1>4 DEF AtMost, MoreThan, Test
<1>7. \A x : /\ Passes(x, le) <=> sample.val[x][a] <= v
             /\ Passes(x, gt) <=> sample.val[x][a] > v
  BY DEF Passes, AtMost, MoreThan
<1> HIDE DEF le, gt, A, B
<1>8. \A x : /\ Reaches(x, B.path) <=> Reaches(x, cur.path) /\ sample.val[x][a] <= v
             /\ Reaches(x, A.path) <=> Reaches(x, cur.path) /\ sample.val[x][a] > v
  BY <1>5, <1>7 DEF Reaches
<1>9. OpenSlices = slices \cup {cur} /\ OpenSlices' = slices'
  BY <1>1 DEF OpenSlices
<1>10. \A x \in cur.points : x \in B.points <=> x \notin A.points
  BY <1>3, <1>4, <1>5 DEF Below, Above
<1>11. B.points \subseteq cur.points /\ A.points \subseteq cur.points
  BY <1>5 DEF Below, Above
<1>12. TypeOK'
  <2>1. ASSUME NEW s \in {A, B, NoSlice}
        PROVE  s.points \in SUBSET sample.points /\ \A t \in s.path : t \in Test
    <3>1. \A t \in cur.path : t \in Test
      BY DEF IInv, TypeOK
    <3>2. CASE s \in {A, B}
      BY <1>2, <1>5, <1>6, <1>11, <3>1, <3>2
    <3>3. CASE s = NoSlice
      BY <3>3 DEF NoSlice, Slice
    <3>4. QED
      BY <2>1, <3>2, <3>3
  <2>2. QED
    BY <1>1, <2>1, SampleKept DEF IInv, TypeOK
<1>13. LabelsAdded'
  BY <1>1, BoundKept DEF IInv, LabelsAdded
<1>14. LeastSolution'
  BY <1>1 DEF IInv, LeastSolution
<1>15. LeavesFit'
  BY <1>1, SampleKept DEF IInv, LeavesFit
<1>16. Divided'
  <2>1. \A s \in slices \cup {cur} :
          s.points # {} /\ s.points = {x \in sample.points : Reaches(x, s.path)}
    BY <1>1, <1>9 DEF IInv, Divided
  <2>2. A.points # {} /\ B.points # {}
    <3>1. \E x \in cur.points : sample.val[x][a] = v
      BY <1>1 DEF Cuts
    <3>2. \E y \in cur.points : sample.val[y][a] > v
      BY <1>1 DEF Cuts
    <3>3. QED
      BY <1>3, <1>4, <1>5, <3>1, <3>2 DEF Below, Above
  <2>3. /\ B.points = {x \in sample.points : Reaches(x, B.path)}
        /\ A.points = {x \in sample.points : Reaches(x, A.path)}
    <3>1. \A x \in sample.points : x \in cur.points <=> Reaches(x, cur.path)
      BY <2>1
    <3>2. \A x \in sample.points : x \in B.points <=> Reaches(x, B.path)
      BY <1>2, <1>5, <1>8, <3>1 DEF Below
    <3>3. \A x \in sample.points : x \in A.points <=> Reaches(x, A.path)
      BY <1>2, <1>5, <1>8, <3>1 DEF Above
    <3>4. QED
      BY <1>2, <1>11, <3>2, <3>3
  <2>4. \A s \in slices' : s.points # {}
                           /\ s.points = {x \in sample'.points : Reaches(x, s.path)'}
    BY <1>1, <2>1, <2>2, <2>3, SampleKept
  <2>5. \A x : Leaf(x)' = Leaf(x)
    BY <1>1, SampleKept DEF Leaf
  <2>6. ASSUME NEW x \in sample.points
        PROVE  \/ \E l \in leaves : Leaf(x) = {l} /\ \A r \in slices' : x \notin r.points
               \/ \E r \in slices' : /\ Leaf(x) = {}
                                     /\ \A q \in slices' : x \in q.points <=> q = r
    <3>1. CASE \E l \in leaves : Leaf(x) = {l}
                                 /\ \A r \in slices \cup {cur} : x \notin r.points
      BY <1>1, <1>11, <3>1
    <3>2. ASSUME NEW r \in slices, Leaf(x) = {},
                 \A q \in slices \cup {cur} : x \in q.points <=> q = r
          PROVE  \A q \in slices' : x \in q.points <=> q = r
      <4>1. x \notin cur.points
        BY <1>2, <3>2
      <4>2. x \notin A.points /\ x \notin B.points /\ x \in r.points
        BY <1>11, <3>2, <4>1
      <4>3. QED
        BY <1>1, <3>2, <4>2
    <3>3. ASSUME Leaf(x) = {}, \A q \in slices \cup {cur} : x \in q.points <=> q = cur
          PROVE  \E r \in {A, B} : \A q \in slices' : x \in q.points <=> q = r
      <4>1. x \in cur.points /\ \A q \in slices : x \notin q.points
        BY <1>2, <3>3
      <4>2. PICK r \in {A, B} : x \in r.points /\ \A q \in {A, B} : x \in q.points => q = r
        BY <1>10, <4>1
      <4>3. QED
        BY <1>1, <4>1, <4>2
    <3>4. \/ \E l \in leaves : Leaf(x) = {l}
                               /\ \A r \in slices \cup {cur} : x \notin r.points
          \/ \E r \in slices \cup {cur} :
               Leaf(x) = {} /\ \A q \in slices \cup {cur} : x \in q.points <=> q = r
      BY <1>1, <1>9 DEF IInv, Divided
    <3>5. QED
      BY <1>1, <3>1, <3>2, <3>3, <3>4
  <2>7. QED
    BY <1>1, <1>9, <2>4, <2>5, <2>6 DEF Divided
<1>17. OneCategory'
  <2>1. \A s \in slices \cup {cur} : \A x, y \in s.points : sample.cat[x] = sample.cat[y]
    BY <1>1, <1>9 DEF IInv, OneCategory
  <2>2. \A s \in slices' : \A x, y \in s.points : sample.cat[x] = sample.cat[y]
    BY <1>1, <1>11, <2>1
  <2>3. QED
    BY <1>1, <1>9, <2>2 DEF OneCategory
<1>18. AllInLeaves' /\ NotYetLearning' /\ SplitIsNeeded' /\ FailsOnlyIfContradictory'
  BY <1>1 DEF AllInLeaves, NotYetLearning, SplitIsNeeded, FailsOnlyIfContradictory
<1>19. QED
  BY <1>12, <1>13, <1>14, <1>15, <1>16, <1>17, <1>18 DEF IInv

(* Without a bound a split is always possible: the slice holds two points  *)

(* with the same category, so that they differ in an attribute.            *)
LEMMA SplitNotPossibleIInv ==
  ASSUME IInv, SplitNotPossible
  PROVE  IInv'
<1> USE DEF SplitNotPossible
<1>1. UseBound
  <2>1. SUFFICES ASSUME ~ UseBound PROVE FALSE
    OBVIOUS
  <2>2. IsSample(sample) /\ cur.points \subseteq sample.points /\ MustSplit(cur)
    BY DEF IInv, TypeOK, SplitIsNeeded
  <2>3. PICK x, y \in cur.points : label[y] # label[x]
    BY <2>2, SplitHasTwoPoints
  <2>4. sample.cat[x] = sample.cat[y]
    BY DEF IInv, OneCategory, OpenSlices
  <2>5. PICK a \in Attribute : sample.val[x][a] # sample.val[y][a]
    BY <2>2, <2>3, <2>4 DEF IsSample
  <2>6. sample.val[x][a] \in Int /\ sample.val[y][a] \in Int
    BY <2>2 DEF IsSample
  <2>7. sample.val[x][a] \in Cuts(cur, a) \/ sample.val[y][a] \in Cuts(cur, a)
    BY <2>1, <2>5, <2>6 DEF Cuts
  <2>8. QED
    BY <2>7
<1>2. QED
  BY <1>1, ThrowIInv

(* Finish preserves it: with no slice left all points are in leaves. *)
LEMMA FinishIInv ==
  ASSUME IInv, Finish
  PROVE  IInv'
<1> USE DEF Finish, attempt
<1>1. sample' = sample /\ bound' = bound /\ horn' = horn /\ label' = label
      /\ slices' = slices /\ leaves' = leaves /\ cur' = cur
      /\ pc = "next" /\ pc' = "done" /\ slices = {}
  OBVIOUS
<1>2. TypeOK'
  BY <1>1, SampleKept DEF IInv, TypeOK
<1>3. LabelsAdded'
  BY <1>1, BoundKept DEF IInv, LabelsAdded
<1>4. LeastSolution'
  BY <1>1 DEF IInv, LeastSolution
<1>5. LeavesFit'
  BY <1>1, SampleKept DEF IInv, LeavesFit
<1>6. AllInLeaves'
  <2>1. OpenSlices = {}
    BY <1>1 DEF OpenSlices
  <2>2. \A x \in sample.points : \E l \in leaves : Leaf(x) = {l}
    BY <1>1, <2>1 DEF IInv, Divided
  <2>3. \A x : Leaf(x)' = Leaf(x)
    BY <1>1, SampleKept DEF Leaf
  <2>4. QED
    BY <1>1, <2>2, <2>3 DEF AllInLeaves
<1>7. Divided' /\ OneCategory' /\ NotYetLearning' /\ SplitIsNeeded'
      /\ FailsOnlyIfContradictory'
  BY <1>1 DEF Divided, OneCategory, NotYetLearning, SplitIsNeeded, FailsOnlyIfContradictory
<1>8. QED
  BY <1>2, <1>3, <1>4, <1>5, <1>6, <1>7 DEF IInv

(* Steps that change no variable preserve it. *)
LEMMA StutterIInv ==
  ASSUME IInv, UNCHANGED vars
  PROVE  IInv'
<1>1. sample' = sample /\ bound' = bound /\ horn' = horn /\ label' = label
      /\ slices' = slices /\ leaves' = leaves /\ cur' = cur /\ pc' = pc
  BY DEF vars, attempt
<1>2. TypeOK'
  BY <1>1, SampleKept DEF IInv, TypeOK
<1>3. LabelsAdded'
  BY <1>1, BoundKept DEF IInv, LabelsAdded
<1>4. LeastSolution'
  BY <1>1 DEF IInv, LeastSolution
<1>5. LeavesFit'
  BY <1>1, SampleKept DEF IInv, LeavesFit
<1>6. OpenSlices' = OpenSlices /\ \A x : Leaf(x)' = Leaf(x)
  BY <1>1, SampleKept DEF OpenSlices, Leaf
<1>7. Divided'
  <2>1. \A s : {x \in sample'.points : Reaches(x, s.path)'}
               = {x \in sample.points : Reaches(x, s.path)}
    BY <1>1, SampleKept
  <2>2. CASE pc \in {"next", "split"}
    <3>1. /\ \A s \in OpenSlices :
               s.points # {} /\ s.points = {x \in sample.points : Reaches(x, s.path)}
          /\ \A x \in sample.points :
               \/ \E l \in leaves : Leaf(x) = {l} /\ \A s \in OpenSlices : x \notin s.points
               \/ \E s \in OpenSlices :
                    Leaf(x) = {} /\ \A r \in OpenSlices : x \in r.points <=> r = s
      BY <2>2 DEF IInv, Divided
    <3>2. QED
      BY <1>1, <1>6, <2>1, <3>1 DEF Divided
  <2>3. QED
    BY <1>1, <2>2 DEF Divided
<1>8. OneCategory' /\ AllInLeaves' /\ NotYetLearning'
  BY <1>1, <1>6 DEF IInv, OneCategory, AllInLeaves, NotYetLearning
<1>9. SplitIsNeeded'
  BY <1>1 DEF IInv, SplitIsNeeded, MustSplit, Has, AllPositive, AllNegative, Open, Unlabelled
<1>10. FailsOnlyIfContradictory'
  BY <1>1 DEF IInv, FailsOnlyIfContradictory
<1>11. QED
  BY <1>2, <1>3, <1>4, <1>5, <1>7, <1>8, <1>9, <1>10 DEF IInv

-----------------------------------------------------------------------------

(* The invariant is inductive. *)
LEMMA Inductive == IInv /\ [Next]_vars => IInv'
<1> SUFFICES ASSUME IInv, [Next]_vars PROVE IInv'
  OBVIOUS
<1>1. CASE StartAttempt
  BY <1>1, StartAttemptIInv
<1>2. CASE SampleError
  BY <1>2, SampleErrorIInv
<1>3. CASE LearnTrivial
  BY <1>3, LearnTrivialIInv
<1>4. CASE FirstSplit
  BY <1>4, FirstSplitIInv
<1>5. CASE Job
  <2>1. PICK s \in slices : \/ \E v \in {"true", "false"} : PureLeaf(s, v)
                            \/ PositiveLeaf(s)
                            \/ NegativeLeaf(s)
                            \/ FallbackLeaf(s)
                            \/ ChooseSplit(s)
    BY <1>5 DEF Job
  <2>2. CASE \E v \in {"true", "false"} : PureLeaf(s, v)
    BY <2>2, PureLeafIInv
  <2>3. CASE PositiveLeaf(s)
    BY <2>3, PositiveLeafIInv
  <2>4. CASE NegativeLeaf(s)
    <3>1. {} \in SUBSET Unlabelled
      OBVIOUS
    <3>2. QED
      BY <2>4, <3>1, NegativeLeafIInv DEF NegativeLeaf, NextSlice
  <2>5. CASE FallbackLeaf(s)
    <3>1. ~ Has(s, "true")
      BY <2>5 DEF FallbackLeaf, Has, Unlabelled, Labelled
    <3>2. PICK leftover \in SUBSET Unlabelled :
            /\ AllNegative(s, leftover) # {}
            /\ CreateLeaf(s, "false", Assign(label, AllNegative(s, leftover)))
      BY <2>5 DEF FallbackLeaf
    <3>3. QED
      BY <2>5, <3>1, <3>2, NegativeLeafIInv DEF FallbackLeaf, NextSlice
  <2>6. CASE ChooseSplit(s)
    BY <2>6, ChooseSplitIInv
  <2>7. QED
    BY <2>1, <2>2, <2>3, <2>4, <2>5, <2>6
<1>6. CASE Split
  <2>1. ASSUME NEW a \in Attribute, NEW v \in Cuts(cur, a), SplitAt(a, v) PROVE IInv'
    BY <2>1, SplitAtIInv
  <2>2. CASE SplitNotPossible
    BY <2>2, SplitNotPossibleIInv
  <2>3. QED
    BY <1>6, <2>1, <2>2 DEF Split
<1>7. CASE Finish
  BY <1>7, FinishIInv
<1>8. CASE UNCHANGED vars
  BY <1>8, StutterIInv
<1>9. QED
  BY <1>1, <1>2, <1>3, <1>4, <1>5, <1>6, <1>7, <1>8 DEF Next

(* The inductive invariant holds in every reachable state of main's loop   *)
(* of attempts and the jobs of each attempt.                               *)
THEOREM Invariant == Spec => []IInv
<1>1. QED
  BY InitIInv, Inductive, PTL DEF Spec

(* When learning ends, the tree answers what the labels say. *)
LEMMA OutputIsLabel ==
  ASSUME IInv, pc = "done", NEW x \in sample.points
  PROVE  /\ label[x] \in {"true", "false"}
         /\ Output(x) <=> label[x] = "true"
<1>1. PICK l \in leaves : Leaf(x) = {l}
  BY DEF IInv, AllInLeaves
<1>2. Reaches(x, l.path)
  BY <1>1 DEF Leaf
<1>3. label[x] = l.label /\ l.label \in {"true", "false"}
  BY <1>2 DEF IInv, LeavesFit, TypeOK
<1>4. QED
  BY <1>1, <1>3 DEF Output

(* A finished tree agrees with the labels of the attempt and meets its constraints. *)
LEMMA DoneIsConsistent ==
  ASSUME IInv, pc = "done"
  PROVE  Agrees(label) /\ Meets(horn)
<1>1. sample.points \subseteq Point
  BY DEF IInv, TypeOK, IsSample
<1>2. Agrees(label)
  BY OutputIsLabel DEF Agrees
<1>3. Meets(horn)
  <2>1. SUFFICES ASSUME NEW c \in horn, \A x \in c.body : Output(x)
                 PROVE  c.head # FalseDp /\ Output(c.head)
    BY DEF Meets
  <2>2. c.body \subseteq sample.points /\ c.head \in sample.points \cup {FalseDp}
    BY DEF IInv, TypeOK
  <2>3. c.body \subseteq Labelled(label, "true")
    BY <1>1, <2>1, <2>2, OutputIsLabel DEF Labelled
  <2>4. c.head \in Labelled(label, "true")
    BY <2>3, SolutionProp DEF IInv, LeastSolution
  <2>5. c.head \in sample.points /\ label[c.head] = "true"
    BY <2>2, <2>4 DEF Labelled
  <2>6. QED
    BY <1>1, <2>5, OutputIsLabel
<1>4. QED
  BY <1>2, <1>3

-----------------------------------------------------------------------------
(* The variables keep their types for every sample. *)
THEOREM TypeCorrect == Spec => []TypeOK
<1>1. IInv => TypeOK
  BY DEF IInv
<1>2. QED
  BY Invariant, <1>1, PTL

(* main's assertion l.is_consistent(...) never fails. *)
THEOREM TreeConsistent == Spec => []Consistent
<1>1. IInv => Consistent
  BY DoneIsConsistent DEF IInv, AllInLeaves, Consistent
<1>2. QED
  BY Invariant, <1>1, PTL

(* Every tree that is written is consistent with the sample that was read. *)
THEOREM TreeFitsSample == Spec => []FitsSample
<1>1. IInv => FitsSample
  <2>1. SUFFICES ASSUME IInv, pc = "done"
                 PROVE  Agrees(sample.label) /\ Meets(sample.horn)
    BY DEF FitsSample
  <2>2. Agrees(label) /\ Meets(horn)
    BY <2>1, DoneIsConsistent
  <2>3. sample.horn \subseteq horn /\ sample.points \subseteq Point
        /\ \A x \in Point : sample.label[x] # "none" => label[x] = sample.label[x]
    BY <2>1 DEF IInv, LabelsAdded, AttemptConstraints, TypeOK, IsSample
  <2>4. QED
    BY <2>2, <2>3 DEF Agrees, Meets
<1>2. QED
  BY Invariant, <1>1, PTL

(* Slices and leaves always divide the points up. *)
THEOREM SlicesDivide == Spec => []Divided
<1>1. IInv => Divided
  BY DEF IInv
<1>2. QED
  BY Invariant, <1>1, PTL

(* The solver never fails on a single unlabelled point. *)
THEOREM PointsStayFree == Spec => []FreePointsStayFree
<1>1. IInv => FreePointsStayFree
  <2>1. SUFFICES ASSUME IInv, pc \in {"next", "split"}, NEW x \in Unlabelled
                 PROVE  Solutions(horn, label, {x}, {}) # {}
                        /\ Solutions(horn, label, {}, {x}) # {}
    BY DEF FreePointsStayFree
  <2>2. Solutions(horn, label, {x}, {}) # {}
    BY <2>1 DEF IInv, LeastSolution, Unlabelled
  <2>3. Labelled(label, "true") \in Solutions(horn, label, {}, {})
    BY <2>1 DEF IInv, LeastSolution
  <2>4. {x} \cap Labelled(label, "true") = {}
    BY <2>1 DEF Unlabelled, Labelled
  <2>5. Labelled(label, "true") \in Solutions(horn, label, {}, {x})
    BY <2>3, <2>4, SolutionProp
  <2>6. QED
    BY <2>2, <2>5
<1>2. QED
  BY Invariant, <1>1, PTL

(* find_best_split never divides by zero classified points. *)
THEOREM SplitsHaveLabels == Spec => []SplitHasLabels
<1>1. IInv => SplitHasLabels
  BY SplitHasTwoPoints DEF IInv, SplitIsNeeded, SplitHasLabels
<1>2. QED
  BY Invariant, <1>1, PTL

(* The learner refuses only contradictory samples. *)
THEOREM LearnerComplete == Spec => []FailsOnlyIfContradictory
<1>1. IInv => FailsOnlyIfContradictory
  BY DEF IInv
<1>2. QED
  BY Invariant, <1>1, PTL
-----------------------------------------------------------------------------
(* Samples that ask for no positive point. *)

(* The constraints a bound adds relate points of the same category. *)
LEMMA BoundConstraint ==
  ASSUME NEW c \in AttemptConstraints
  PROVE  \/ c \in sample.horn
         \/ \E x, y \in sample.points : /\ c.body = {x} /\ c.head = y
                                        /\ sample.cat[x] = sample.cat[y]
<1>1. CASE c \in Indistinguishable
  <2>1. PICK q \in sample.points \X sample.points :
           ~ IsDistinguishable(q[1], q[2]) /\ c = [body |-> {q[1]}, head |-> q[2]]
    BY <1>1 DEF Indistinguishable
  <2>2. sample.cat[q[1]] = sample.cat[q[2]]
    BY <2>1 DEF IsDistinguishable
  <2>3. QED
    BY <2>1, <2>2
<1>2. QED
  BY <1>1 DEF AttemptConstraints

(* Making no point positive is a solution, so no attempt starts with a     *)
(* sample error and none begins with a positive point.                     *)
LEMMA NothingPositive ==
  ASSUME IInv, NegativeSample
  PROVE  {} \in Solutions(AttemptConstraints, sample.label, {}, {})
<1>1. ASSUME NEW c \in AttemptConstraints
      PROVE  c.body # {}
  BY BoundConstraint DEF NegativeSample
<1>2. QED
  BY <1>1, SolutionProp DEF NegativeSample

(* Making a slice positive that is a whole category, without a negative    *)
(* point, makes no other point positive.                                   *)
LEMMA PositiveStaysInside ==
  ASSUME IInv, NegativeSample, pc = "next", NEW s \in slices,
         \A x \in s.points : \A y \in sample.points :
           sample.cat[y] = sample.cat[x] => y \in s.points,
         ~ Has(s, "false"), AllPositive(s) # {}
  PROVE  Labelled(label, "true") \cup Open(s) \in AllPositive(s)
<1> DEFINE T == Labelled(label, "true")
           M == T \cup Open(s)
<1>1. PICK M0 : M0 \in AllPositive(s)
  OBVIOUS
<1>2. /\ M0 \subseteq Point /\ M \subseteq M0 /\ Labelled(label, "false") \cap M0 = {}
      /\ \A c \in horn : c.body \subseteq M0 => c.head \in M0
  BY <1>1, SolutionProp DEF AllPositive
<1>3. T \in Solutions(horn, label, {}, {}) /\ horn = AttemptConstraints
  BY DEF IInv, LeastSolution, LabelsAdded
<1>4. \A c \in horn : c.body \subseteq T => c.head \in T
  BY <1>3, SolutionProp
<1>5. ASSUME NEW c \in horn, c.body \subseteq M
      PROVE  c.head \in M
  <2>1. CASE c \in sample.horn
    BY <1>2, <1>5, <2>1 DEF NegativeSample
  <2>2. CASE c \notin sample.horn
    <3>1. PICK x, y \in sample.points : /\ c.body = {x} /\ c.head = y
                                        /\ sample.cat[x] = sample.cat[y]
      BY <1>3, <2>2, BoundConstraint
    <3>2. CASE x \in T
      BY <1>4, <3>1, <3>2
    <3>3. CASE x \in Open(s)
      <4>1. y \in s.points /\ y \in Point
        BY <3>1, <3>3 DEF Open, IInv, TypeOK, IsSample
      <4>2. label[y] \in {"true", "none"}
        BY <4>1 DEF Has, Label, IInv, TypeOK
      <4>3. QED
        BY <3>1, <4>1, <4>2 DEF Open, Unlabelled, Labelled
    <3>4. QED
      BY <1>5, <3>1, <3>2, <3>3
  <2>3. QED
    BY <2>1, <2>2
<1>6. T \subseteq M /\ Open(s) \subseteq M
  OBVIOUS
<1>7. M \subseteq Point /\ Labelled(label, "false") \cap M = {}
  BY <1>2
<1> HIDE DEF M
<1>8. M \in AllPositive(s)
  BY <1>5, <1>6, <1>7, SolutionProp DEF AllPositive
<1>9. QED
  BY <1>8 DEF M

(* Assigning an answer that some solution M belongs to makes only points   *)
(* of M positive.                                                          *)
LEMMA AssignWithin ==
  ASSUME NEW l, NEW MM, NEW M \in MM, NEW x \in Point, Assign(l, MM)[x] = "true"
  PROVE  l[x] = "true" \/ x \in M
BY DEF Assign, ForcedTrue

(* Creating a leaf keeps the slices that are left whole and without a      *)
(* positive point, when the new positive points are in the leaf.           *)
LEMMA LeafNegative ==
  ASSUME IInv, NegativeSample, NegativeInv, pc = "next", NEW s \in slices, NEW v, NEW m,
         CreateLeaf(s, v, m),
         \A x \in Point : m[x] = "true" => label[x] = "true" \/ x \in s.points
  PROVE  NegativeInv'
<1>1. /\ UNCHANGED <<sample, bound, pc>> /\ label' = m /\ slices' = slices \ {s}
  BY DEF CreateLeaf
<1>2. ASSUME NEW r \in slices', NEW x \in r.points
      PROVE  /\ m[x] # "true"
             /\ \A y \in sample.points : sample.cat[y] = sample.cat[x] => y \in r.points
  <2>1. r \in slices /\ r # s /\ s \in OpenSlices /\ r \in OpenSlices
    BY <1>1 DEF OpenSlices
  <2>2. x \in sample.points /\ x \in Point
    BY <2>1 DEF IInv, TypeOK, IsSample
  <2>3. x \notin s.points
    BY <2>1, <2>2 DEF IInv, Divided
  <2>4. label[x] # "true"
    BY <2>1 DEF NegativeInv
  <2>5. QED
    BY <2>1, <2>2, <2>3, <2>4 DEF NegativeInv
<1>3. QED
  BY <1>1, <1>2 DEF NegativeInv, NegativeSample

(* Every step preserves the invariant about negative samples. *)
LEMMA NextNegative == IInv /\ NegativeInv /\ [Next]_vars => NegativeInv'
<1> SUFFICES ASSUME IInv, NegativeInv, [Next]_vars, NegativeSample' PROVE NegativeInv'
  BY DEF NegativeInv
<1>s. sample' = sample
  BY DEF Next, StartAttempt, SampleError, LearnTrivial, FirstSplit, Job, Split, Finish,
         PureLeaf, PositiveLeaf, NegativeLeaf, FallbackLeaf, ChooseSplit, CreateLeaf,
         SplitAt, SplitNotPossible, vars
<1>0. NegativeSample
  BY <1>s DEF NegativeSample
<1>n. /\ bound = sample.bound /\ pc \in {"attempt", "learn", "next", "done"}
      /\ pc = "learn" => Labelled(label, "true") = {}
      /\ pc = "next" =>
           \A s \in slices : \A x \in s.points :
             /\ label[x] # "true"
             /\ \A y \in sample.points : sample.cat[y] = sample.cat[x] => y \in s.points
  BY <1>0 DEF NegativeInv
<1>1. CASE StartAttempt
  <2> DEFINE MM == Solutions(AttemptConstraints, sample.label, {}, {})
  <2>1. horn' = AttemptConstraints /\ pc' = "learn" /\ bound' = bound
        /\ label' = Assign(sample.label, Solutions(horn', sample.label, {}, {}))
    BY <1>1 DEF StartAttempt
  <2>2. label' = Assign(sample.label, MM)
    BY <2>1
  <2>3. {} \in MM
    BY <1>0, NothingPositive
  <2> HIDE DEF MM
  <2>4. \A x \in Point : label'[x] # "true"
    BY <1>0, <2>2, <2>3, AssignWithin DEF NegativeSample, Labelled
  <2>5. QED
    BY <1>n, <1>s, <2>1, <2>4 DEF NegativeInv, Labelled
<1>2. CASE SampleError
  BY <1>0, <1>2, NothingPositive DEF SampleError
<1>3. CASE LearnTrivial
  BY <1>n, <1>s, <1>3 DEF LearnTrivial, NegativeInv
<1>4. CASE FirstSplit
  <2>1. /\ pc = "learn" /\ pc' = "next" /\ bound' = bound /\ label' = label
        /\ slices' = {Slice({CatIs(sample.cat[x])},
                            {y \in sample.points : sample.cat[y] = sample.cat[x]}) :
                        x \in sample.points}
    BY <1>4 DEF FirstSplit
  <2>2. ASSUME NEW s \in slices', NEW x \in s.points
        PROVE  /\ label[x] # "true"
               /\ \A y \in sample.points : sample.cat[y] = sample.cat[x] => y \in s.points
    <3>1. PICK z \in sample.points :
            s.points = {y \in sample.points : sample.cat[y] = sample.cat[z]}
      BY <2>1 DEF Slice
    <3>2. x \in Point
      BY <3>1 DEF IInv, TypeOK, IsSample
    <3>3. QED
      BY <1>n, <2>1, <3>1, <3>2 DEF Labelled
  <2>3. QED
    BY <1>n, <1>s, <2>1, <2>2 DEF NegativeInv
<1>5. CASE Job
  <2>1. PICK s \in slices : \/ \E v \in {"true", "false"} : PureLeaf(s, v)
                            \/ PositiveLeaf(s)
                            \/ NegativeLeaf(s)
                            \/ FallbackLeaf(s)
                            \/ ChooseSplit(s)
    BY <1>5 DEF Job
  <2>2. pc = "next" /\ ~ Has(s, "true")
    BY <1>n, <2>1 DEF PureLeaf, PositiveLeaf, NegativeLeaf, FallbackLeaf, ChooseSplit,
                      NextSlice, Has
  <2>t. label \in [Point -> Label] /\ s.points \subseteq Point
    BY DEF IInv, TypeOK, IsSample
  <2>3. CASE \E v \in {"true", "false"} : PureLeaf(s, v)
    <3>1. PICK v \in {"true", "false"} : CreateLeaf(s, v, label)
      BY <2>3 DEF PureLeaf
    <3>2. QED
      BY <1>0, <2>2, <3>1, LeafNegative
  <2>4. CASE PositiveLeaf(s)
    <3>1. CreateLeaf(s, "true", Assign(label, AllPositive(s)))
      BY <2>4 DEF PositiveLeaf
    <3>2. Labelled(label, "true") \cup Open(s) \in AllPositive(s)
      BY <1>0, <1>n, <2>2, <2>4, PositiveStaysInside DEF PositiveLeaf
    <3>3. \A x \in Point : Assign(label, AllPositive(s))[x] = "true" =>
             label[x] = "true" \/ x \in s.points
      BY <3>2, AssignWithin DEF Labelled, Open
    <3>4. QED
      BY <1>0, <2>2, <3>1, <3>3, LeafNegative
  <2>5. ASSUME NEW leftover \in SUBSET Unlabelled,
               CreateLeaf(s, "false", Assign(label, AllNegative(s, leftover)))
        PROVE  NegativeInv'
    <3>1. Labelled(label, "true") \in AllNegative(s, leftover)
      <4>1. Labelled(label, "true") \in Solutions(horn, label, {}, {})
        BY <2>2 DEF IInv, LeastSolution
      <4>2. (Open(s) \cup leftover) \cap Labelled(label, "true") = {}
        BY DEF Open, Unlabelled, Labelled
      <4>3. QED
        BY <4>1, <4>2, SolutionProp DEF AllNegative
    <3>2. \A x \in Point : Assign(label, AllNegative(s, leftover))[x] = "true" =>
             label[x] = "true" \/ x \in s.points
      BY <3>1, AssignWithin DEF Labelled
    <3>3. QED
      BY <1>0, <2>2, <2>5, <3>2, LeafNegative
  <2>6. CASE NegativeLeaf(s)
    <3>1. {} \in SUBSET Unlabelled
      OBVIOUS
    <3>2. QED
      BY <2>5, <2>6, <3>1 DEF NegativeLeaf
  <2>7. CASE FallbackLeaf(s)
    BY <2>5, <2>7 DEF FallbackLeaf
  <2>8. CASE ChooseSplit(s)
    <3>1. \A leftover \in SUBSET Unlabelled : AllNegative(s, leftover) # {}
      BY <2>2, AllNegativePossible
    <3>2. ~ MustSplit(s)
      BY <2>2, <3>1 DEF MustSplit
    <3>3. QED
      BY <2>8, <3>2 DEF ChooseSplit
  <2>9. QED
    BY <2>1, <2>3, <2>4, <2>6, <2>7, <2>8
<1>6. CASE Split
  BY <1>n, <1>6 DEF Split, SplitAt, SplitNotPossible
<1>7. CASE Finish
  BY <1>n, <1>s, <1>7 DEF Finish, NegativeInv
<1>8. CASE UNCHANGED vars
  BY <1>n, <1>8 DEF vars, attempt, NegativeInv
<1>9. QED
  BY <1>1, <1>2, <1>3, <1>4, <1>5, <1>6, <1>7, <1>8 DEF Next

(* For every sample that asks for no positive point, the first bound is    *)
(* enough and the learner never gives up, which LearnerProcess and the     *)
(* teacher's second round rely on.                                         *)
THEOREM NegativeSamplesLearned == Spec => []NegativeSampleAtOnce
<1>1. Init => NegativeInv
  BY DEF Init, NegativeInv
<1>2. NegativeInv => NegativeSampleAtOnce
  BY DEF NegativeInv, NegativeSampleAtOnce
<1>3. QED
  BY <1>1, <1>2, NextNegative, Invariant, PTL DEF Spec
=============================================================================
