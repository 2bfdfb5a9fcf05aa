------------------------- MODULE ChcTeacher_proofs -------------------------
(***************************************************************************)
(* Proofs about ChcTeacher for any clauses, over any set of data points.   *)
(***************************************************************************)
EXTENDS ChcTeacher, TLAPS

USE FalseDpAssumption, RelationAssumption, WideAssumption

-----------------------------------------------------------------------------
(* The points of an instance are data points of the clause's predicates. *)
LEMMA InstancePoints ==
  ASSUME NEW c, IsClause(c), NEW i \in c.instances
  PROVE  /\ PremisesOf(i) \subseteq Point
         /\ PointsOf(i) \subseteq Point
         /\ \A x \in PointsOf(i) : RelationOf[x] \in c.preds
         /\ i.rhs \in Node
<1>1. i.lhs \in Seq(Point) /\ i.rhs \in Node
  BY DEF IsClause
<1>2. PremisesOf(i) \subseteq Point
  BY <1>1 DEF PremisesOf
<1>3. \A x \in PremisesOf(i) : RelationOf[x] \in c.preds
  BY DEF PremisesOf, IsClause
<1>4. i.rhs # FalseDp => RelationOf[i.rhs] \in c.preds
  BY DEF IsClause
<1>5. QED
  BY <1>1, <1>2, <1>3, <1>4 DEF PointsOf, Node

(* Whether an instance holds depends on the predicates of the clause.      *)
LEMMA UnaffectedSame ==
  ASSUME NEW c, IsClause(c), NEW i \in c.instances, NEW R, c.preds \subseteq R,
         NEW S \in SUBSET Point, NEW T \in SUBSET Point, On(R, S) = On(R, T)
  PROVE  Holds(i, S) <=> Holds(i, T)
<1>1. \A x \in PointsOf(i) : x \in S <=> x \in T
  <2> SUFFICES ASSUME NEW x \in PointsOf(i)
               PROVE  x \in S <=> x \in T
    OBVIOUS
  <2>1. RelationOf[x] \in R
    BY InstancePoints
  <2>2. QED
    BY <2>1 DEF On
<1>2. FalseDp \notin S /\ FalseDp \notin T
  OBVIOUS
<1>3. i.rhs \in S <=> i.rhs \in T
  BY <1>1, <1>2 DEF PointsOf
<1>4. QED
  BY <1>1, <1>3 DEF Holds, PointsOf

(* Every solution of the clauses is a hypothesis. *)
LEMMA SolutionsAreHypotheses ==
  ASSUME TypeOK, SampleImplied, NEW T \in SUBSET Point, Solves(T)
  PROVE  T \in Hypotheses
<1>1. \A c \in problem : \A i \in c.instances : Holds(i, T)
  BY DEF Solves
<1>2. Labelled(label, "true") \subseteq T
  <2> SUFFICES ASSUME NEW x \in Point, label[x] = "true"
               PROVE  x \in T
    BY DEF Labelled
  <2>1. PICK c \in problem : \E i \in c.instances : i.lhs = <<>> /\ i.rhs = x
    BY DEF SampleImplied
  <2>2. PICK i \in c.instances : i.lhs = <<>> /\ i.rhs = x
    BY <2>1
  <2>3. PremisesOf(i) = {}
    BY <2>2 DEF PremisesOf
  <2>4. QED
    BY <1>1, <2>2, <2>3 DEF Holds
<1>3. Labelled(label, "false") \cap T = {}
  <2> SUFFICES ASSUME NEW x \in Point, label[x] = "false", x \in T
               PROVE  FALSE
    BY DEF Labelled
  <2>1. PICK c \in problem : \E i \in c.instances : i.lhs = <<x>> /\ i.rhs = FalseDp
    BY DEF SampleImplied
  <2>2. PICK i \in c.instances : i.lhs = <<x>> /\ i.rhs = FalseDp
    BY <2>1
  <2>3. PremisesOf(i) \subseteq {x}
    BY <2>2 DEF PremisesOf
  <2>4. QED
    BY <1>1, <2>2, <2>3 DEF Holds
<1>4. ASSUME NEW h \in horn, \A k \in h.body : At(k) \in T
      PROVE  h.head # {} /\ \A k \in h.head : At(k) \in T
  <2>1. PICK c \in problem : \E i \in c.instances :
          /\ \A x \in PremisesOf(i) : \E k \in h.body : At(k) = x
          /\ i.rhs # FalseDp => h.head # {} /\ \A k \in h.head : At(k) = i.rhs
    BY DEF SampleImplied
  <2>2. PICK i \in c.instances :
          /\ \A x \in PremisesOf(i) : \E k \in h.body : At(k) = x
          /\ i.rhs # FalseDp => h.head # {} /\ \A k \in h.head : At(k) = i.rhs
    BY <2>1
  <2>3. PremisesOf(i) \subseteq T
    BY <1>4, <2>2
  <2>4. i.rhs \in T
    BY <1>1, <2>3 DEF Holds
  <2>5. QED
    BY <2>2, <2>4
<1>5. QED
  BY <1>2, <1>3, <1>4 DEF Hypotheses

-----------------------------------------------------------------------------
(* The inductive invariant holds before the first round. *)
LEMMA InitIInv == Init => IInv
<1> SUFFICES ASSUME Init
             PROVE  IInv
  OBVIOUS
<1>1. TypeOK
  <2>1. label \in [Point -> Label]
    BY DEF Init, Label
  <2>2. problem # {} /\ \A c \in problem : IsClause(c)
    BY ProblemsAssumption DEF Init
  <2>3. DOMAIN ids = {} /\ ids \in [DOMAIN ids -> Nat] /\ ptrs \in Seq(Key)
    BY DEF Init
  <2>4. QED
    BY <2>1, <2>2, <2>3 DEF Init, TypeOK
<1>2. ListsCover
  BY DEF Init, ListsCover
<1>3. SatisfiedHold
  BY DEF Init, SatisfiedHold
<1>4. CounterexamplesKept
  BY DEF Init, CounterexamplesKept
<1>5. RoundMakesProgress
  BY DEF Init, RoundMakesProgress
<1>6. SampleImplied
  BY DEF Init, SampleImplied
<1>7. IdentifiersArePositions
  BY DEF Init, IdentifiersArePositions
<1>8. KeysStored
  BY DEF Init, KeysStored
<1>9. BreaksOffOnlyIfUnsolvable
  BY DEF Init, BreaksOffOnlyIfUnsolvable
<1>10. QED
  BY <1>1, <1>2, <1>3, <1>4, <1>5, <1>6, <1>7, <1>8, <1>9 DEF IInv

(* While data points stay where they are, constraints are about the same   *)
(* data points.                                                            *)
LEMMA HornImpliedStill ==
  ASSUME IInv, UNCHANGED ptrs
  PROVE  \A h \in horn : \E c \in problem : \E i \in c.instances :
           /\ \A x \in PremisesOf(i) : \E k \in h.body : At(k)' = x
           /\ i.rhs # FalseDp => h.head # {} /\ \A k \in h.head : At(k)' = i.rhs
<1>2. \A k : At(k)' = At(k)
  BY DEF At
<1>3. ASSUME NEW h \in horn
      PROVE  \E c \in problem : \E i \in c.instances :
               /\ \A x \in PremisesOf(i) : \E k \in h.body : At(k)' = x
               /\ i.rhs # FalseDp => h.head # {} /\ \A k \in h.head : At(k)' = i.rhs
  <2>1. PICK c \in problem : \E i \in c.instances :
          /\ \A x \in PremisesOf(i) : \E k \in h.body : At(k) = x
          /\ i.rhs # FalseDp => h.head # {} /\ \A k \in h.head : At(k) = i.rhs
    BY DEF IInv, SampleImplied
  <2>2. PICK i \in c.instances :
          /\ \A x \in PremisesOf(i) : \E k \in h.body : At(k) = x
          /\ i.rhs # FalseDp => h.head # {} /\ \A k \in h.head : At(k) = i.rhs
    BY <2>1
  <2>3. \A x \in PremisesOf(i) : \E k \in h.body : At(k)' = x
    BY <1>2, <2>2
  <2>4. i.rhs # FalseDp => h.head # {} /\ \A k \in h.head : At(k)' = i.rhs
    BY <1>2, <2>2
  <2>5. QED
    BY <2>3, <2>4
<1>4. QED
  BY <1>3

(* Steps that leave the sample and the clauses alone keep what is said of  *)
(* them.                                                                   *)
LEMMA SampleUntouched ==
  ASSUME IInv, UNCHANGED <<problem, sample>>
  PROVE  /\ SampleImplied'
         /\ IdentifiersArePositions'
         /\ pc' # "register" => KeysStored'
         /\ Hypotheses' = Hypotheses
         /\ \A i : Recorded(i)' <=> Recorded(i)
<1>1. UNCHANGED <<problem, ids, ptrs, label, horn>>
  BY DEF sample
<1>3. \A h \in horn : \E c \in problem : \E i \in c.instances :
        /\ \A x \in PremisesOf(i) : \E k \in h.body : At(k)' = x
        /\ i.rhs # FalseDp => h.head # {} /\ \A k \in h.head : At(k)' = i.rhs
  BY <1>1, HornImpliedStill
<1>4. \A x \in Point : label[x] = "true" =>
        \E c \in problem : \E i \in c.instances : i.lhs = <<>> /\ i.rhs = x
  BY DEF IInv, SampleImplied
<1>5. \A x \in Point : label[x] = "false" =>
        \E c \in problem : \E i \in c.instances : i.lhs = <<x>> /\ i.rhs = FalseDp
  BY DEF IInv, SampleImplied
<1>6. SampleImplied'
  BY <1>1, <1>3, <1>4, <1>5, Zenon DEF SampleImplied
<1>7. IdentifiersArePositions'
  BY <1>1 DEF IInv, IdentifiersArePositions
<1>8. pc' # "register" => KeysStored'
  BY <1>1 DEF IInv, KeysStored, StoredKey
<1>9. Hypotheses' = Hypotheses
  BY <1>1 DEF Hypotheses, At, Labelled
<1>10. \A i : Recorded(i)' <=> Recorded(i)
  BY <1>9 DEF Recorded
<1>11. QED
  BY <1>6, <1>7, <1>8, <1>9, <1>10

(* A learner round: only clauses that contain a changed conjecture can     *)
(* have become false, or be satisfied at last.                             *)
LEMMA LearnIInv ==
  ASSUME IInv, Learn
  PROVE  IInv'
<1> USE DEF Learn
<1>1. conjs' \subseteq Hypotheses /\ conjs' \subseteq SUBSET Point
  BY DEF Readings, Hypotheses
<1>2. SampleImplied' /\ IdentifiersArePositions' /\ KeysStored'
  BY SampleUntouched
<1>3. UNCHANGED <<problem, unsat, sat, nowSat, cexs, cur, left, ids, ptrs, label, horn>>
  BY DEF clauses, sample
<1>4. TypeOK'
  BY <1>1, <1>3 DEF IInv, TypeOK, Instance
<1>5. ListsCover'
  BY <1>3 DEF IInv, ListsCover
<1>6. ASSUME NEW c \in problem, begun, ~ Affected(c)', NEW i \in c.instances
      PROVE  (\E T \in conjs : ~ Holds(i, T)) <=> (\E T \in conjs' : ~ Holds(i, T))
  <2> DEFINE R == Relation \ changed'
  <2>1. IsClause(c) /\ conjs \subseteq SUBSET Point
    BY DEF IInv, TypeOK
  <2>2. c.preds \subseteq R
    BY <1>6, <2>1 DEF Affected, IsClause
  <2>3. {On(R, T) : T \in conjs} = {On(R, T) : T \in conjs'}
    BY <1>6 DEF Unchanged
  <2>4. ASSUME NEW S \in conjs, NEW T \in conjs', On(R, S) = On(R, T)
        PROVE  Holds(i, S) <=> Holds(i, T)
    BY <1>1, <2>1, <2>2, <2>4, UnaffectedSame
  <2>5. \A S \in conjs : \E T \in conjs' : On(R, S) = On(R, T)
    BY <2>3
  <2>6. \A T \in conjs' : \E S \in conjs : On(R, S) = On(R, T)
    BY <2>3
  <2>7. QED
    BY <2>4, <2>5, <2>6
<1>7. \A c \in sat : Held(c)' \/ Affected(c)'
  <2> SUFFICES ASSUME NEW c \in sat, ~ Affected(c)', ~ Held(c)'
               PROVE  FALSE
    OBVIOUS
  <2>1. begun /\ Held(c) /\ c \in problem
    BY DEF IInv, SatisfiedHold, TypeOK
  <2>2. PICK i \in c.instances : \E T \in conjs' : ~ Holds(i, T)
    BY DEF Held, Violations
  <2>3. \E T \in conjs : ~ Holds(i, T)
    BY <1>6, <2>1, <2>2
  <2>4. QED
    BY <2>1, <2>3 DEF Held, Violations
<1>8. SatisfiedHold'
  <2>1. nowSat = {}
    BY DEF IInv, SatisfiedHold
  <2>2. QED
    BY <1>3, <1>7, <2>1 DEF SatisfiedHold
<1>9. CounterexamplesKept'
  BY <1>3 DEF CounterexamplesKept
<1>10. RoundMakesProgress'
  <2> SUFFICES ASSUME NEW c \in unsat, ~ Affected(c)'
               PROVE  FALSE
    BY DEF RoundMakesProgress
  <2>1. c \in problem /\ IsClause(c)
    BY DEF IInv, TypeOK
  <2>2. begun
    BY <2>1 DEF Affected, IsClause
  <2>3. PICK i \in Violations(c, conjs) : OnItsWay(i)
    BY <2>2 DEF IInv, CounterexamplesKept
  <2>4. Recorded(i)
    BY <2>3 DEF IInv, CounterexamplesKept, OnItsWay
  <2>5. i \in c.instances /\ \E T \in conjs : ~ Holds(i, T)
    BY <2>3 DEF Violations
  <2>6. \E T \in conjs' : ~ Holds(i, T)
    BY <1>6, <2>1, <2>2, <2>5
  <2>7. QED
    BY <1>1, <2>4, <2>6 DEF Recorded
<1>11. BreaksOffOnlyIfUnsolvable'
  BY DEF BreaksOffOnlyIfUnsolvable
<1>12. QED
  BY <1>2, <1>4, <1>5, <1>8, <1>9, <1>10, <1>11 DEF IInv

(* The learner has no hypothesis: the clauses have no solution. *)
LEMMA LearnFailsIInv ==
  ASSUME IInv, LearnFails
  PROVE  IInv'
<1> USE DEF LearnFails
<1>1. SampleImplied' /\ IdentifiersArePositions' /\ KeysStored'
  BY SampleUntouched
<1>2. UNCHANGED <<problem, unsat, sat, nowSat, begun, conjs, changed, todo, cexs,
                  cur, left, ids, ptrs, label, horn>>
  BY DEF clauses, sample
<1>3. TypeOK'
  BY <1>2 DEF IInv, TypeOK, Instance
<1>4. ListsCover'
  BY <1>2 DEF IInv, ListsCover
<1>5. \A c : Held(c)' <=> Held(c)
  BY <1>2 DEF Held
<1>6. SatisfiedHold'
  BY <1>2, <1>5 DEF IInv, SatisfiedHold
<1>7. CounterexamplesKept' /\ RoundMakesProgress'
  BY DEF CounterexamplesKept, RoundMakesProgress
<1>8. BreaksOffOnlyIfUnsolvable'
  <2>1. \A T \in SUBSET Point : ~ Solves(T)
    BY SolutionsAreHypotheses DEF IInv
  <2>2. \A T : Solves(T)' <=> Solves(T)
    BY <1>2 DEF Solves
  <2>3. QED
    BY <2>1, <2>2 DEF BreaksOffOnlyIfUnsolvable
<1>9. QED
  BY <1>1, <1>3, <1>4, <1>6, <1>7, <1>8 DEF IInv

(* A visit keeps a counterexample of the clause, or finds it satisfied. *)
LEMMA CheckUnsatisfiedIInv ==
  ASSUME IInv, NEW c \in todo, CheckUnsatisfied(c)
  PROVE  IInv'
<1> USE DEF CheckUnsatisfied
<1>1. SampleImplied' /\ IdentifiersArePositions' /\ KeysStored'
      /\ \A i : Recorded(i)' <=> Recorded(i)
  BY SampleUntouched DEF IInv
<1>2. UNCHANGED <<problem, sat, begun, conjs, changed, cur, left, ids, ptrs, label, horn, pc>>
  BY DEF sample
<1>3. c \in problem /\ Affected(c) /\ pc = "unsat" /\ begun
  BY DEF IInv, TypeOK, RoundMakesProgress, SatisfiedHold
<1>4. \/ /\ Held(c)
         /\ nowSat' = nowSat \cup {c} /\ unsat' = unsat \ {c} /\ cexs' = cexs
      \/ /\ \E i \in Violations(c, conjs) : cexs' = cexs \cup {i}
         /\ nowSat' = nowSat /\ unsat' = unsat
  BY <1>3 DEF Held
<1>5. \A d : (Held(d)' <=> Held(d)) /\ (Affected(d)' <=> Affected(d))
  BY <1>2 DEF Held, Affected
<1>6. ASSUME NEW i \in Violations(c, conjs)
      PROVE  Instance(i)
  BY <1>3 DEF Violations, Instance
<1>7. TypeOK'
  <2>1. \A i \in cexs' : Instance(i)
    BY <1>4, <1>6 DEF IInv, TypeOK
  <2>2. \A i : Instance(i)' <=> Instance(i)
    BY <1>2 DEF Instance
  <2>3. nowSat' \subseteq problem /\ unsat' \subseteq problem /\ todo' \subseteq problem
    BY <1>3, <1>4 DEF IInv, TypeOK
  <2>4. QED
    BY <1>2, <2>1, <2>2, <2>3 DEF IInv, TypeOK
<1>8. ListsCover'
  BY <1>2, <1>3, <1>4 DEF IInv, ListsCover
<1>9. SatisfiedHold'
  <2>1. \A d \in nowSat' : Held(d)
    BY <1>4 DEF IInv, SatisfiedHold
  <2>2. QED
    BY <1>2, <1>3, <1>5, <2>1 DEF IInv, SatisfiedHold
<1>10. CounterexamplesKept'
  <2> SUFFICES ASSUME NEW d \in unsat', d \notin todo'
               PROVE  \E i \in Violations(d, conjs) : OnItsWay(i)'
    BY <1>2, <1>3 DEF CounterexamplesKept
  <2>1. d \in unsat
    BY <1>4
  <2>2. \A i : OnItsWay(i) => OnItsWay(i)'
    BY <1>1, <1>2, <1>4 DEF OnItsWay
  <2>3. CASE d = c
    <3>1. d \in unsat' /\ c \notin unsat \ {c}
      BY <2>3
    <3>2. PICK i \in Violations(c, conjs) : cexs' = cexs \cup {i}
      BY <1>4, <2>3, <3>1
    <3>3. OnItsWay(i)'
      BY <3>2 DEF OnItsWay
    <3>4. QED
      BY <2>3, <3>2, <3>3
  <2>4. CASE d # c
    <3>1. d \notin todo
      BY <2>4
    <3>2. PICK i \in Violations(d, conjs) : OnItsWay(i)
      BY <1>3, <2>1, <3>1 DEF IInv, CounterexamplesKept
    <3>3. QED
      BY <2>2, <3>2
  <2>5. QED
    BY <2>3, <2>4
<1>11. RoundMakesProgress'
  BY <1>2, <1>5 DEF IInv, RoundMakesProgress
<1>12. BreaksOffOnlyIfUnsolvable'
  BY <1>2, <1>3 DEF BreaksOffOnlyIfUnsolvable
<1>13. QED
  BY <1>1, <1>7, <1>8, <1>9, <1>10, <1>11, <1>12 DEF IInv

(* Every clause that was not satisfied has been visited. *)
LEMMA StartSatisfiedIInv ==
  ASSUME IInv, StartSatisfied
  PROVE  IInv'
<1> USE DEF StartSatisfied
<1>1. SampleImplied' /\ IdentifiersArePositions' /\ KeysStored'
      /\ \A i : Recorded(i)' <=> Recorded(i)
  BY SampleUntouched DEF IInv
<1>2. UNCHANGED <<problem, unsat, sat, nowSat, begun, conjs, changed, cexs,
                  cur, left, ids, ptrs, label, horn>>
  BY DEF clauses, sample
<1>3. \A d : (Held(d)' <=> Held(d)) /\ (Affected(d)' <=> Affected(d))
  BY <1>2 DEF Held, Affected
<1>4. TypeOK'
  BY <1>2 DEF IInv, TypeOK, Instance
<1>5. ListsCover'
  BY <1>2 DEF IInv, ListsCover
<1>6. SatisfiedHold'
  BY <1>2, <1>3 DEF IInv, SatisfiedHold
<1>7. CounterexamplesKept'
  <2>1. \A i : OnItsWay(i) => OnItsWay(i)'
    BY <1>1, <1>2 DEF OnItsWay
  <2>2. begun => \A d \in unsat : \E i \in Violations(d, conjs) : OnItsWay(i)
    BY DEF IInv, CounterexamplesKept
  <2>3. QED
    BY <1>2, <2>1, <2>2 DEF CounterexamplesKept
<1>8. RoundMakesProgress' /\ BreaksOffOnlyIfUnsolvable'
  BY DEF RoundMakesProgress, BreaksOffOnlyIfUnsolvable
<1>9. QED
  BY <1>1, <1>4, <1>5, <1>6, <1>7, <1>8 DEF IInv

(* A satisfied clause is counted as such no longer, or still holds. *)
LEMMA CheckSatisfiedIInv ==
  ASSUME IInv, NEW c \in todo, CheckSatisfied(c)
  PROVE  IInv'
<1> USE DEF CheckSatisfied
<1>1. SampleImplied' /\ IdentifiersArePositions' /\ KeysStored'
      /\ \A i : Recorded(i)' <=> Recorded(i)
  BY SampleUntouched DEF IInv
<1>2. UNCHANGED <<problem, nowSat, begun, conjs, changed, cur, left, ids, ptrs, label, horn, pc>>
  BY DEF sample
<1>3. c \in problem /\ pc = "sat" /\ begun
  BY DEF IInv, TypeOK, SatisfiedHold
<1>4. \/ /\ \E i \in Violations(c, conjs) : cexs' = cexs \cup {i}
         /\ unsat' = unsat \cup {c} /\ sat' = sat \ {c}
      \/ /\ ~ Affected(c) \/ Held(c)
         /\ cexs' = cexs /\ unsat' = unsat /\ sat' = sat
  BY DEF Held
<1>5. \A d : (Held(d)' <=> Held(d)) /\ (Affected(d)' <=> Affected(d))
  BY <1>2 DEF Held, Affected
<1>6. ASSUME NEW i \in Violations(c, conjs)
      PROVE  Instance(i)
  BY <1>3 DEF Violations, Instance
<1>7. TypeOK'
  <2>1. \A i \in cexs' : Instance(i)
    BY <1>4, <1>6 DEF IInv, TypeOK
  <2>2. \A i : Instance(i)' <=> Instance(i)
    BY <1>2 DEF Instance
  <2>3. sat' \subseteq problem /\ unsat' \subseteq problem /\ todo' \subseteq problem
    BY <1>3, <1>4 DEF IInv, TypeOK
  <2>4. QED
    BY <1>2, <2>1, <2>2, <2>3 DEF IInv, TypeOK
<1>8. ListsCover'
  BY <1>2, <1>3, <1>4 DEF IInv, ListsCover
<1>9. SatisfiedHold'
  <2>1. \A d \in sat' : Held(d) \/ (d \in todo' /\ Affected(d))
    BY <1>3, <1>4 DEF IInv, SatisfiedHold
  <2>2. QED
    BY <1>2, <1>3, <1>5, <2>1 DEF IInv, SatisfiedHold
<1>10. CounterexamplesKept'
  <2> SUFFICES ASSUME NEW d \in unsat'
               PROVE  \E i \in Violations(d, conjs) : OnItsWay(i)'
    BY <1>2, <1>3 DEF CounterexamplesKept
  <2>1. \A i : OnItsWay(i) => OnItsWay(i)'
    BY <1>1, <1>2, <1>4 DEF OnItsWay
  <2>2. CASE d \in unsat
    <3>1. PICK i \in Violations(d, conjs) : OnItsWay(i)
      BY <1>3, <2>2 DEF IInv, CounterexamplesKept
    <3>2. QED
      BY <2>1, <3>1
  <2>3. CASE d \notin unsat
    <3>1. PICK i \in Violations(c, conjs) : cexs' = cexs \cup {i} /\ d = c
      BY <1>4, <2>3
    <3>2. OnItsWay(i)'
      BY <3>1 DEF OnItsWay
    <3>3. QED
      BY <3>1, <3>2
  <2>4. QED
    BY <2>2, <2>3
<1>11. RoundMakesProgress' /\ BreaksOffOnlyIfUnsolvable'
  BY <1>2, <1>3 DEF RoundMakesProgress, BreaksOffOnlyIfUnsolvable
<1>12. QED
  BY <1>1, <1>7, <1>8, <1>9, <1>10, <1>11 DEF IInv

(* The solver does not know. *)
LEMMA SolverUnknownIInv ==
  ASSUME IInv, NEW c \in todo, SolverUnknown(c)
  PROVE  IInv'
<1> USE DEF SolverUnknown
<1>1. SampleImplied' /\ IdentifiersArePositions' /\ KeysStored'
  BY SampleUntouched
<1>2. UNCHANGED <<problem, unsat, sat, nowSat, begun, conjs, changed, todo, cexs,
                  cur, left, ids, ptrs, label, horn>>
  BY DEF clauses, sample
<1>3. TypeOK'
  BY <1>2 DEF IInv, TypeOK, Instance
<1>4. ListsCover'
  BY <1>2 DEF IInv, ListsCover
<1>5. \A d : Held(d)' <=> Held(d)
  BY <1>2 DEF Held
<1>6. SatisfiedHold'
  BY <1>2, <1>5 DEF IInv, SatisfiedHold
<1>7. CounterexamplesKept' /\ RoundMakesProgress' /\ BreaksOffOnlyIfUnsolvable'
  BY DEF CounterexamplesKept, RoundMakesProgress, BreaksOffOnlyIfUnsolvable
<1>8. QED
  BY <1>1, <1>3, <1>4, <1>6, <1>7 DEF IInv

(* Every clause has been visited: the satisfied ones hold. *)
LEMMA EndChecksIInv ==
  ASSUME IInv, EndChecks
  PROVE  IInv'
<1> USE DEF EndChecks
<1>1. SampleImplied' /\ IdentifiersArePositions' /\ KeysStored'
      /\ \A i : Recorded(i)' <=> Recorded(i)
  BY SampleUntouched DEF IInv
<1>2. UNCHANGED <<problem, unsat, begun, conjs, changed, todo, cexs,
                  cur, left, ids, ptrs, label, horn>>
  BY DEF sample
<1>3. \A d : Held(d)' <=> Held(d)
  BY <1>2 DEF Held
<1>4. TypeOK'
  <2>1. sat' \subseteq problem /\ nowSat' \subseteq problem
    BY DEF IInv, TypeOK
  <2>2. QED
    BY <1>2, <2>1 DEF IInv, TypeOK, Instance
<1>5. ListsCover'
  BY <1>2 DEF IInv, ListsCover
<1>6. SatisfiedHold'
  <2>1. \A d \in sat' : Held(d)
    BY DEF IInv, SatisfiedHold
  <2>2. QED
    BY <1>2, <1>3, <2>1 DEF IInv, SatisfiedHold
<1>7. CounterexamplesKept'
  <2>1. \A i : OnItsWay(i) => OnItsWay(i)'
    BY <1>1, <1>2 DEF OnItsWay
  <2>2. begun => \A d \in unsat : \E i \in Violations(d, conjs) : OnItsWay(i)
    BY DEF IInv, CounterexamplesKept
  <2>3. QED
    BY <1>2, <2>1, <2>2 DEF CounterexamplesKept
<1>8. RoundMakesProgress' /\ BreaksOffOnlyIfUnsolvable'
  BY DEF RoundMakesProgress, BreaksOffOnlyIfUnsolvable
<1>9. QED
  BY <1>1, <1>4, <1>5, <1>6, <1>7, <1>8 DEF IInv

-----------------------------------------------------------------------------
(* A counterexample is taken: it is on its way still. *)
LEMMA TakeIInv ==
  ASSUME IInv, NEW i \in cexs, Take(i)
  PROVE  IInv'
<1> USE DEF Take
<1>1. SampleImplied' /\ IdentifiersArePositions'
      /\ \A j : Recorded(j)' <=> Recorded(j)
  BY SampleUntouched DEF IInv
<1>2. UNCHANGED <<problem, unsat, sat, nowSat, begun, conjs, changed, todo,
                  ids, ptrs, label, horn>>
  BY DEF clauses, sample
<1>3. \A d : Held(d)' <=> Held(d)
  BY <1>2 DEF Held
<1>4. Instance(i) /\ left' \subseteq Point
  BY InstancePoints DEF IInv, TypeOK, Instance
<1>5. TypeOK'
  <2>1. \A j : Instance(j)' <=> Instance(j)
    BY <1>2 DEF Instance
  <2>2. QED
    BY <1>2, <1>4, <2>1 DEF IInv, TypeOK
<1>6. ListsCover'
  BY <1>2 DEF IInv, ListsCover
<1>7. SatisfiedHold'
  BY <1>2, <1>3 DEF IInv, SatisfiedHold
<1>8. CounterexamplesKept'
  <2>1. \A j : OnItsWay(j) => OnItsWay(j)'
    BY <1>1, <1>2 DEF OnItsWay
  <2>2. begun => \A d \in unsat : \E j \in Violations(d, conjs) : OnItsWay(j)
    BY DEF IInv, CounterexamplesKept
  <2>3. QED
    BY <1>2, <2>1, <2>2 DEF CounterexamplesKept
<1>9. KeysStored'
  BY <1>2 DEF IInv, KeysStored, StoredKey
<1>10. RoundMakesProgress' /\ BreaksOffOnlyIfUnsolvable'
  BY DEF RoundMakesProgress, BreaksOffOnlyIfUnsolvable
<1>11. QED
  BY <1>1, <1>5, <1>6, <1>7, <1>8, <1>9, <1>10 DEF IInv

(* The next identifier is the next position. *)
LEMMA NextIdIsLength ==
  ASSUME IInv
  PROVE  NextId = Len(ptrs)
<1>1. ptrs \in Seq(Key) /\ Len(ptrs) \in Nat
  BY DEF IInv, TypeOK
<1>2. CASE ptrs = <<>>
  BY <1>2 DEF NextId
<1>3. CASE ptrs # <<>>
  <2>1. Len(ptrs) \in 1 .. Len(ptrs)
    BY <1>1, <1>3
  <2>2. ids[ptrs[Len(ptrs)]] = Len(ptrs) - 1
    BY <2>1 DEF IInv, IdentifiersArePositions
  <2>3. QED
    BY <1>1, <1>3, <2>2 DEF NextId
<1>4. QED
  BY <1>2, <1>3

(* A data point is registered under its stored key, once. *)
LEMMA RegisterOnce ==
  ASSUME IInv, NEW x \in left, Register(x)
  PROVE  LET k == StoredKey(x)
         IN  \/ k \in DOMAIN ids /\ UNCHANGED <<ids, ptrs>>
             \/ /\ k \notin DOMAIN ids
                /\ ids' = [j \in DOMAIN ids \cup {k} |->
                             IF j = k THEN Len(ptrs) ELSE ids[j]]
                /\ ptrs' = Append(ptrs, k)
<1> DEFINE k == StoredKey(x)
<1>1. NextId = Len(ptrs) /\ Len(ptrs) \in Nat
  BY NextIdIsLength DEF IInv, TypeOK
<1>2. CASE LookupKey(x) \in DOMAIN ids
  <2>1. LookupKey(x) = StoredKey(x)
    BY <1>2 DEF IInv, KeysStored, LookupKey, StoredKey
  <2>2. QED
    BY <1>2, <2>1 DEF Register
<1>3. CASE LookupKey(x) \notin DOMAIN ids /\ k \in DOMAIN ids
  <2>1. ids[k] # NextId
    BY <1>1, <1>3 DEF IInv, TypeOK, KeysStored
  <2>2. ~ IsNew(ids, x)
    BY <2>1 DEF IsNew
  <2>3. QED
    BY <1>3, <2>2 DEF Register
<1>4. CASE LookupKey(x) \notin DOMAIN ids /\ k \notin DOMAIN ids
  <2> DEFINE m == [j \in DOMAIN ids \cup {k} |-> IF j = k THEN NextId ELSE ids[j]]
  <2>1. m[k] = NextId
    OBVIOUS
  <2>2. IsNew(m, x)
    BY <2>1 DEF IsNew
  <2>3. QED
    BY <1>1, <1>4, <2>2 DEF Register
<1>5. QED
  BY <1>2, <1>3, <1>4

(* The key of a data point is a key. *)
LEMMA StoredKeyIsKey ==
  ASSUME NEW x \in Point
  PROVE  StoredKey(x) \in Key /\ StoredKey(x)[1] = x
<1>1. (x \in Wide) \in BOOLEAN
  OBVIOUS
<1>2. <<x, x \in Wide>> \in Point \X BOOLEAN
  BY <1>1, Zenon
<1>3. QED
  BY <1>2 DEF StoredKey, Key

(* Registering moves no data point. *)
LEMMA RegisterKeepsPositions ==
  ASSUME IInv, NEW x \in left, Register(x)
  PROVE  /\ ptrs' \in Seq(Key) /\ Len(ptrs) \in Nat /\ Len(ptrs') \in Nat
         /\ Len(ptrs) <= Len(ptrs')
         /\ \A n \in 1 .. Len(ptrs) : ptrs'[n] = ptrs[n]
         /\ \A k \in 0 .. Len(ptrs) - 1 : At(k)' = At(k)
<1>1. ptrs \in Seq(Key) /\ StoredKey(x) \in Key
  BY StoredKeyIsKey DEF IInv, TypeOK
<1>2. ptrs' = ptrs \/ ptrs' = Append(ptrs, StoredKey(x))
  BY RegisterOnce
<1>3. /\ ptrs' \in Seq(Key) /\ Len(ptrs) \in Nat /\ Len(ptrs') \in Nat
      /\ Len(ptrs) <= Len(ptrs')
      /\ \A n \in 1 .. Len(ptrs) : ptrs'[n] = ptrs[n]
  BY <1>1, <1>2
<1>4. \A k \in 0 .. Len(ptrs) - 1 : At(k)' = At(k)
  BY <1>3 DEF At
<1>5. QED
  BY <1>3, <1>4

(* Registering leaves the meaning of the sample alone. *)
LEMMA RegisterKeepsSample ==
  ASSUME IInv, NEW x \in left, Register(x)
  PROVE  /\ SampleImplied'
         /\ \A i : Recorded(i) => Recorded(i)'
<1>1. UNCHANGED <<problem, label, horn>>
  BY DEF Register
<1>2. ASSUME NEW h \in horn, NEW k \in h.body \cup h.head
      PROVE  At(k)' = At(k)
  <2>1. k \in 0 .. Len(ptrs) - 1
    BY DEF IInv, TypeOK
  <2>2. QED
    BY <2>1, RegisterKeepsPositions
<1>3. ASSUME NEW h \in horn
      PROVE  \E c \in problem : \E i \in c.instances :
               /\ \A y \in PremisesOf(i) : \E k \in h.body : At(k)' = y
               /\ i.rhs # FalseDp => h.head # {} /\ \A k \in h.head : At(k)' = i.rhs
  <2>1. PICK c \in problem : \E i \in c.instances :
          /\ \A y \in PremisesOf(i) : \E k \in h.body : At(k) = y
          /\ i.rhs # FalseDp => h.head # {} /\ \A k \in h.head : At(k) = i.rhs
    BY DEF IInv, SampleImplied
  <2>2. PICK i \in c.instances :
          /\ \A y \in PremisesOf(i) : \E k \in h.body : At(k) = y
          /\ i.rhs # FalseDp => h.head # {} /\ \A k \in h.head : At(k) = i.rhs
    BY <2>1
  <2>3. \A y \in PremisesOf(i) : \E k \in h.body : At(k)' = y
    BY <1>2, <2>2
  <2>4. i.rhs # FalseDp => h.head # {} /\ \A k \in h.head : At(k)' = i.rhs
    BY <1>2, <2>2
  <2>5. QED
    BY <2>3, <2>4
<1>4. \A y \in Point : label[y] = "true" =>
        \E c \in problem : \E i \in c.instances : i.lhs = <<>> /\ i.rhs = y
  BY DEF IInv, SampleImplied
<1>5. \A y \in Point : label[y] = "false" =>
        \E c \in problem : \E i \in c.instances : i.lhs = <<y>> /\ i.rhs = FalseDp
  BY DEF IInv, SampleImplied
<1>6. SampleImplied'
  BY <1>1, <1>3, <1>4, <1>5, Zenon DEF SampleImplied
<1>7. ASSUME NEW T \in Hypotheses'
      PROVE  T \in Hypotheses
  <2>1. /\ T \in SUBSET Point
        /\ Labelled(label, "true") \subseteq T
        /\ Labelled(label, "false") \cap T = {}
    BY <1>1 DEF Hypotheses, Labelled
  <2>2. ASSUME NEW h \in horn, \A k \in h.body : At(k) \in T
        PROVE  h.head # {} /\ \A k \in h.head : At(k) \in T
    <3>1. \A k \in h.body : At(k)' \in T
      BY <1>2, <2>2
    <3>2. h.head # {} /\ \A k \in h.head : At(k)' \in T
      BY <1>1, <3>1 DEF Hypotheses
    <3>3. QED
      BY <1>2, <3>2
  <2>3. QED
    BY <2>1, <2>2 DEF Hypotheses
<1>8. QED
  BY <1>6, <1>7 DEF Recorded

(* A data point is registered. *)
LEMMA RegisterIInv ==
  ASSUME IInv, NEW x \in left, Register(x)
  PROVE  IInv'
<1>1. UNCHANGED <<problem, unsat, sat, nowSat, begun, conjs, changed, todo, cexs,
                  cur, label, horn, pc>>
      /\ pc = "register" /\ left' = left \ {x}
  BY DEF Register, clauses
<1>2. SampleImplied' /\ \A i : Recorded(i) => Recorded(i)'
  BY RegisterKeepsSample
<1>3. \A d : Held(d)' <=> Held(d)
  BY <1>1 DEF Held
<1> DEFINE k == StoredKey(x)
<1>4. k \in Key /\ k[1] = x /\ k = StoredKey(k[1])
  BY StoredKeyIsKey DEF IInv, TypeOK
<1>5. ptrs \in Seq(Key) /\ Len(ptrs) \in Nat
      /\ DOMAIN ids \subseteq Key /\ ids \in [DOMAIN ids -> Nat]
  BY DEF IInv, TypeOK
<1>6. \/ k \in DOMAIN ids /\ UNCHANGED <<ids, ptrs>>
      \/ /\ k \notin DOMAIN ids
         /\ ids' = [j \in DOMAIN ids \cup {k} |-> IF j = k THEN Len(ptrs) ELSE ids[j]]
         /\ ptrs' = Append(ptrs, k)
  BY RegisterOnce
<1> HIDE DEF k
<1>7. TypeOK'
  <2>1. DOMAIN ids' \subseteq Key /\ ids' \in [DOMAIN ids' -> Nat]
    BY <1>4, <1>5, <1>6
  <2>2. ptrs' \in Seq(Key) /\ Len(ptrs) <= Len(ptrs') /\ Len(ptrs') \in Nat
    BY RegisterKeepsPositions
  <2>3. horn' \subseteq [body : SUBSET (0 .. Len(ptrs') - 1),
                         head : SUBSET (0 .. Len(ptrs') - 1)]
    <3>1. 0 .. Len(ptrs) - 1 \subseteq 0 .. Len(ptrs') - 1
      BY <1>5, <2>2
    <3>2. horn \subseteq [body : SUBSET (0 .. Len(ptrs) - 1),
                          head : SUBSET (0 .. Len(ptrs) - 1)]
      BY DEF IInv, TypeOK
    <3>3. QED
      BY <1>1, <3>1, <3>2
  <2>4. left' \subseteq Point
    BY <1>1 DEF IInv, TypeOK
  <2>5. \A i : Instance(i)' <=> Instance(i)
    BY <1>1 DEF Instance
  <2>6. QED
    BY <1>1, <2>1, <2>2, <2>3, <2>4, <2>5 DEF IInv, TypeOK
<1>8. ListsCover'
  BY <1>1 DEF IInv, ListsCover
<1>9. SatisfiedHold'
  BY <1>1, <1>3 DEF IInv, SatisfiedHold
<1>10. CounterexamplesKept'
  <2>1. \A i : OnItsWay(i) => OnItsWay(i)'
    BY <1>1, <1>2 DEF OnItsWay
  <2>2. begun => \A d \in unsat : \E i \in Violations(d, conjs) : OnItsWay(i)
    BY <1>1 DEF IInv, CounterexamplesKept
  <2>3. QED
    BY <1>1, <2>1, <2>2 DEF CounterexamplesKept
<1>11. KeysStored'
  <2>1. \A j \in DOMAIN ids : /\ j = StoredKey(j[1])
                               /\ ids[j] + 1 \in 1 .. Len(ptrs)
                               /\ ptrs[ids[j] + 1] = j
    BY DEF IInv, KeysStored
  <2>2. ASSUME NEW j \in DOMAIN ids'
        PROVE  /\ j = StoredKey(j[1])
               /\ ids'[j] + 1 \in 1 .. Len(ptrs')
               /\ ptrs'[ids'[j] + 1] = j
    <3>1. CASE k \in DOMAIN ids /\ UNCHANGED <<ids, ptrs>>
      BY <2>1, <3>1
    <3>2. CASE /\ k \notin DOMAIN ids
               /\ ids' = [n \in DOMAIN ids \cup {k} |-> IF n = k THEN Len(ptrs) ELSE ids[n]]
               /\ ptrs' = Append(ptrs, k)
      <4>1. Len(ptrs') = Len(ptrs) + 1 /\ ptrs'[Len(ptrs) + 1] = k
            /\ \A n \in 1 .. Len(ptrs) : ptrs'[n] = ptrs[n]
        BY <1>4, <1>5, <3>2
      <4>2. CASE j = k
        <5>1. ids'[j] = Len(ptrs)
          BY <3>2, <4>2
        <5>2. QED
          BY <1>4, <1>5, <4>1, <4>2, <5>1
      <4>3. CASE j # k
        <5>1. j \in DOMAIN ids /\ ids'[j] = ids[j]
          BY <3>2, <4>3
        <5>2. QED
          BY <1>5, <2>1, <4>1, <5>1
      <4>4. QED
        BY <4>2, <4>3
    <3>3. QED
      BY <1>6, <3>1, <3>2
  <2>3. k \in DOMAIN ids' /\ DOMAIN ids \subseteq DOMAIN ids'
    BY <1>6
  <2>4. \A y \in PointsOf(cur) \ left' : StoredKey(y) \in DOMAIN ids'
    BY <1>1, <2>3 DEF IInv, KeysStored, k
  <2>5. QED
    BY <1>1, <2>2, <2>4 DEF KeysStored, StoredKey
<1>12. IdentifiersArePositions'
  <2>1. \A n \in 1 .. Len(ptrs) : ptrs[n] \in DOMAIN ids /\ ids[ptrs[n]] = n - 1
    BY DEF IInv, IdentifiersArePositions
  <2>2. \A j, n \in 1 .. Len(ptrs) : ptrs[j][1] = ptrs[n][1] => j = n
    BY DEF IInv, IdentifiersArePositions
  <2>3. CASE k \in DOMAIN ids /\ UNCHANGED <<ids, ptrs>>
    BY <2>1, <2>2, <2>3 DEF IdentifiersArePositions
  <2>4. CASE /\ k \notin DOMAIN ids
             /\ ids' = [n \in DOMAIN ids \cup {k} |-> IF n = k THEN Len(ptrs) ELSE ids[n]]
             /\ ptrs' = Append(ptrs, k)
    <3>1. Len(ptrs') = Len(ptrs) + 1 /\ ptrs'[Len(ptrs) + 1] = k
          /\ \A n \in 1 .. Len(ptrs) : ptrs'[n] = ptrs[n]
      BY <1>4, <1>5, <2>4
    <3>2. ids'[k] = Len(ptrs) /\ k \in DOMAIN ids'
          /\ \A j \in DOMAIN ids : j \in DOMAIN ids' /\ ids'[j] = ids[j]
      BY <2>4
    <3>3. ASSUME NEW n \in 1 .. Len(ptrs')
          PROVE  ptrs'[n] \in DOMAIN ids' /\ ids'[ptrs'[n]] = n - 1
      <4>1. n \in 1 .. Len(ptrs) \/ n = Len(ptrs) + 1
        BY <1>5, <3>1
      <4>2. QED
        BY <1>5, <2>1, <3>1, <3>2, <4>1
    <3>4. ASSUME NEW n \in 1 .. Len(ptrs)
          PROVE  ptrs[n][1] # x
      <4>1. ptrs[n] \in DOMAIN ids /\ ptrs[n] = StoredKey(ptrs[n][1])
        BY <2>1 DEF IInv, KeysStored
      <4>2. QED
        BY <2>4, <4>1 DEF k
    <3>5. ASSUME NEW j \in 1 .. Len(ptrs'), NEW n \in 1 .. Len(ptrs'),
                 ptrs'[j][1] = ptrs'[n][1]
          PROVE  j = n
      <4>1. j \in 1 .. Len(ptrs) \/ j = Len(ptrs) + 1
        BY <1>5, <3>1
      <4>2. n \in 1 .. Len(ptrs) \/ n = Len(ptrs) + 1
        BY <1>5, <3>1
      <4>3. QED
        BY <1>4, <2>2, <3>1, <3>4, <3>5, <4>1, <4>2
    <3>6. QED
      BY <3>3, <3>5 DEF IdentifiersArePositions
  <2>5. QED
    BY <1>6, <2>3, <2>4
<1>13. RoundMakesProgress' /\ BreaksOffOnlyIfUnsolvable'
  BY <1>1 DEF RoundMakesProgress, BreaksOffOnlyIfUnsolvable
<1>14. QED
  BY <1>2, <1>7, <1>8, <1>9, <1>10, <1>11, <1>12, <1>13 DEF IInv

-----------------------------------------------------------------------------
(* A fact becomes a positive data point, unless that point is negative.    *)
LEMMA AddPositiveIInv ==
  ASSUME IInv, AddPositive
  PROVE  IInv'
<1>1. UNCHANGED <<problem, unsat, sat, nowSat, begun, conjs, changed, todo, cexs,
                  cur, left, ids, ptrs, horn>>
      /\ pc = "register" /\ cur.lhs = <<>> /\ cur.rhs # FalseDp
  BY DEF AddPositive, IsPositive, clauses
<1> DEFINE x == cur.rhs
<1>2. PICK c \in problem : cur \in c.instances
  BY <1>1 DEF IInv, TypeOK, Instance
<1>3. x \in Point
  BY <1>1, <1>2, InstancePoints DEF IInv, TypeOK, Node
<1>4. label \in [Point -> Label]
  BY DEF IInv, TypeOK
<1>5. \/ label[x] \in {"none", "true"} /\ label' = [label EXCEPT ![x] = "true"] /\ pc' = "add"
      \/ label[x] \notin {"none", "true"} /\ label' = label /\ pc' = "contradiction"
  BY DEF AddPositive, SetLabel
<1>6. label' \in [Point -> Label]
  BY <1>3, <1>4, <1>5 DEF Label
<1>7. TypeOK'
  <2>1. \A i : Instance(i)' <=> Instance(i)
    BY <1>1 DEF Instance
  <2>2. QED
    BY <1>1, <1>5, <1>6, <2>1 DEF IInv, TypeOK
<1>8. ListsCover'
  BY <1>1 DEF IInv, ListsCover
<1>9. SatisfiedHold'
  <2>1. \A d : Held(d)' <=> Held(d)
    BY <1>1 DEF Held
  <2>2. QED
    BY <1>1, <1>5, <2>1 DEF IInv, SatisfiedHold
<1>10. ASSUME pc' = "add", NEW T \in Hypotheses'
       PROVE  T \in Hypotheses /\ x \in T
  <2>1. /\ label[x] \in {"none", "true"}
        /\ \A y \in Point : label'[y] = IF y = x THEN "true" ELSE label[y]
    BY <1>3, <1>4, <1>5, <1>10
  <2>2. /\ \A y \in Point : label'[y] = "true" => y \in T
        /\ \A y \in Point : label'[y] = "false" => y \notin T
    BY DEF Hypotheses, Labelled
  <2>3. Labelled(label, "true") \subseteq T /\ Labelled(label, "false") \cap T = {}
    BY <2>1, <2>2 DEF Labelled
  <2>4. T \in Hypotheses
    BY <1>1, <2>3 DEF Hypotheses, At
  <2>5. QED
    BY <1>3, <2>1, <2>2, <2>4
<1>11. CounterexamplesKept'
  <2> SUFFICES ASSUME pc' = "add", begun, NEW d \in unsat
               PROVE  \E i \in Violations(d, conjs) : OnItsWay(i)'
    BY <1>1, <1>5 DEF CounterexamplesKept
  <2>1. PICK i \in Violations(d, conjs) : OnItsWay(i)
    BY <1>1 DEF IInv, CounterexamplesKept
  <2>2. OnItsWay(i)'
    BY <1>1, <1>10, <2>1 DEF OnItsWay, Recorded, Holds
  <2>3. QED
    BY <2>1, <2>2
<1>12. SampleImplied'
  <2>1. \A y \in Point : label'[y] = "true" =>
          \E d \in problem : \E i \in d.instances : i.lhs = <<>> /\ i.rhs = y
    <3> SUFFICES ASSUME NEW y \in Point, label'[y] = "true"
                 PROVE  \E d \in problem : \E i \in d.instances : i.lhs = <<>> /\ i.rhs = y
      OBVIOUS
    <3>1. CASE y = x
      BY <1>1, <1>2, <3>1
    <3>2. CASE y # x
      BY <1>4, <1>5, <3>2 DEF IInv, SampleImplied
    <3>3. QED
      BY <3>1, <3>2
  <2>2. \A y \in Point : label'[y] = "false" =>
          \E d \in problem : \E i \in d.instances : i.lhs = <<y>> /\ i.rhs = FalseDp
    <3>1. \A y \in Point : label'[y] = "false" => label[y] = "false"
      BY <1>3, <1>4, <1>5
    <3>2. QED
      BY <3>1 DEF IInv, SampleImplied
  <2>3. \A h \in horn : \E d \in problem : \E i \in d.instances :
          /\ \A y \in PremisesOf(i) : \E k \in h.body : At(k)' = y
          /\ i.rhs # FalseDp => h.head # {} /\ \A k \in h.head : At(k)' = i.rhs
    BY <1>1, HornImpliedStill
  <2>4. QED
    BY <1>1, <2>1, <2>2, <2>3, Zenon DEF SampleImplied
<1>13. IdentifiersArePositions'
  BY <1>1 DEF IInv, IdentifiersArePositions
<1>14. KeysStored'
  BY <1>1, <1>5 DEF IInv, KeysStored, StoredKey
<1>15. RoundMakesProgress'
  BY <1>5 DEF RoundMakesProgress
<1>16. BreaksOffOnlyIfUnsolvable'
  <2> SUFFICES ASSUME pc' = "contradiction", NEW T \in SUBSET Point, Solves(T)
               PROVE  FALSE
    BY <1>1, <1>5 DEF BreaksOffOnlyIfUnsolvable, Solves
  <2>1. label[x] = "false"
    BY <1>3, <1>4, <1>5 DEF Label
  <2>2. T \in Hypotheses
    BY SolutionsAreHypotheses DEF IInv
  <2>3. x \notin T
    BY <1>3, <2>1, <2>2 DEF Hypotheses, Labelled
  <2>4. Holds(cur, T)
    BY <1>2 DEF Solves
  <2>5. PremisesOf(cur) = {}
    BY <1>1 DEF PremisesOf
  <2>6. QED
    BY <2>3, <2>4, <2>5 DEF Holds
<1>17. QED
  BY <1>7, <1>8, <1>9, <1>11, <1>12, <1>13, <1>14, <1>15, <1>16 DEF IInv
(* A query makes its data point negative, unless that point is positive.   *)
LEMMA AddNegativeIInv ==
  ASSUME IInv, AddNegative
  PROVE  IInv'
<1>1. UNCHANGED <<problem, unsat, sat, nowSat, begun, conjs, changed, todo, cexs,
                  cur, left, ids, ptrs, horn>>
      /\ pc = "register" /\ Len(cur.lhs) = 1 /\ cur.rhs = FalseDp
  BY DEF AddNegative, IsNegative, clauses
<1> DEFINE x == cur.lhs[1]
<1>2. PICK c \in problem : cur \in c.instances
  BY <1>1 DEF IInv, TypeOK, Instance
<1>3. x \in Point /\ cur.lhs = <<x>> /\ PremisesOf(cur) = {x}
  <2>1. cur.lhs \in Seq(Point)
    BY <1>2 DEF IInv, TypeOK, IsClause
  <2>2. x \in Point /\ cur.lhs = <<x>>
    BY <1>1, <2>1
  <2>3. QED
    BY <2>2 DEF PremisesOf
<1>4. label \in [Point -> Label]
  BY DEF IInv, TypeOK
<1>5. \/ label[x] \in {"none", "false"} /\ label' = [label EXCEPT ![x] = "false"] /\ pc' = "add"
      \/ label[x] \notin {"none", "false"} /\ label' = label /\ pc' = "contradiction"
  BY DEF AddNegative, SetLabel
<1>6. label' \in [Point -> Label]
  BY <1>3, <1>4, <1>5 DEF Label
<1>7. TypeOK'
  <2>1. \A i : Instance(i)' <=> Instance(i)
    BY <1>1 DEF Instance
  <2>2. QED
    BY <1>1, <1>5, <1>6, <2>1 DEF IInv, TypeOK
<1>8. ListsCover'
  BY <1>1 DEF IInv, ListsCover
<1>9. SatisfiedHold'
  <2>1. \A d : Held(d)' <=> Held(d)
    BY <1>1 DEF Held
  <2>2. QED
    BY <1>1, <1>5, <2>1 DEF IInv, SatisfiedHold
<1>10. ASSUME pc' = "add", NEW T \in Hypotheses'
       PROVE  T \in Hypotheses /\ x \notin T
  <2>1. /\ label[x] \in {"none", "false"}
        /\ \A y \in Point : label'[y] = IF y = x THEN "false" ELSE label[y]
    BY <1>3, <1>4, <1>5, <1>10
  <2>2. /\ \A y \in Point : label'[y] = "true" => y \in T
        /\ \A y \in Point : label'[y] = "false" => y \notin T
    BY DEF Hypotheses, Labelled
  <2>3. Labelled(label, "true") \subseteq T /\ Labelled(label, "false") \cap T = {}
    BY <2>1, <2>2 DEF Labelled
  <2>4. T \in Hypotheses
    BY <1>1, <2>3 DEF Hypotheses, At
  <2>5. QED
    BY <1>3, <2>1, <2>2, <2>4
<1>11. CounterexamplesKept'
  <2> SUFFICES ASSUME pc' = "add", begun, NEW d \in unsat
               PROVE  \E i \in Violations(d, conjs) : OnItsWay(i)'
    BY <1>1, <1>5 DEF CounterexamplesKept
  <2>1. PICK i \in Violations(d, conjs) : OnItsWay(i)
    BY <1>1 DEF IInv, CounterexamplesKept
  <2>2. OnItsWay(i)'
    BY <1>1, <1>3, <1>10, <2>1 DEF OnItsWay, Recorded, Holds
  <2>3. QED
    BY <2>1, <2>2
<1>12. SampleImplied'
  <2>1. \A y \in Point : label'[y] = "true" =>
          \E d \in problem : \E i \in d.instances : i.lhs = <<>> /\ i.rhs = y
    <3>1. \A y \in Point : label'[y] = "true" => label[y] = "true"
      BY <1>3, <1>4, <1>5
    <3>2. QED
      BY <3>1 DEF IInv, SampleImplied
  <2>2. \A y \in Point : label'[y] = "false" =>
          \E d \in problem : \E i \in d.instances : i.lhs = <<y>> /\ i.rhs = FalseDp
    <3> SUFFICES ASSUME NEW y \in Point, label'[y] = "false"
                 PROVE  \E d \in problem : \E i \in d.instances :
                          i.lhs = <<y>> /\ i.rhs = FalseDp
      OBVIOUS
    <3>1. CASE y = x
      BY <1>1, <1>2, <1>3, <3>1
    <3>2. CASE y # x
      <4>1. label[y] = "false"
        BY <1>3, <1>4, <1>5, <3>2
      <4>2. QED
        BY <4>1 DEF IInv, SampleImplied
    <3>3. QED
      BY <3>1, <3>2
  <2>3. \A h \in horn : \E d \in problem : \E i \in d.instances :
          /\ \A y \in PremisesOf(i) : \E k \in h.body : At(k)' = y
          /\ i.rhs # FalseDp => h.head # {} /\ \A k \in h.head : At(k)' = i.rhs
    BY <1>1, HornImpliedStill
  <2>4. QED
    BY <1>1, <2>1, <2>2, <2>3, Zenon DEF SampleImplied
<1>13. IdentifiersArePositions'
  BY <1>1 DEF IInv, IdentifiersArePositions
<1>14. KeysStored'
  BY <1>1, <1>5 DEF IInv, KeysStored, StoredKey
<1>15. RoundMakesProgress'
  BY <1>5 DEF RoundMakesProgress
<1>16. BreaksOffOnlyIfUnsolvable'
  <2> SUFFICES ASSUME pc' = "contradiction", NEW T \in SUBSET Point, Solves(T)
               PROVE  FALSE
    BY <1>1, <1>5 DEF BreaksOffOnlyIfUnsolvable, Solves
  <2>1. label[x] = "true"
    BY <1>3, <1>4, <1>5 DEF Label
  <2>2. T \in Hypotheses
    BY SolutionsAreHypotheses DEF IInv
  <2>3. x \in T
    BY <1>3, <2>1, <2>2 DEF Hypotheses, Labelled
  <2>4. Holds(cur, T)
    BY <1>2 DEF Solves
  <2>5. QED
    BY <1>1, <1>3, <2>3, <2>4 DEF Holds
<1>17. QED
  BY <1>7, <1>8, <1>9, <1>11, <1>12, <1>13, <1>14, <1>15, <1>16 DEF IInv

(* A data point of the counterexample is at the position of its identifier. *)
LEMMA IdentifierOfPoint ==
  ASSUME IInv, pc = "register", left = {}, NEW x \in PointsOf(cur)
  PROVE  IdOf(x) \in 0 .. Len(ptrs) - 1 /\ At(IdOf(x)) = x
<1>1. x \in Point
  BY InstancePoints DEF IInv, TypeOK, Instance
<1> DEFINE k == StoredKey(x)
<1>2. k \in DOMAIN ids /\ k[1] = x
  BY <1>1, StoredKeyIsKey DEF IInv, KeysStored
<1>3. ids[k] \in Nat /\ ids[k] + 1 \in 1 .. Len(ptrs) /\ ptrs[ids[k] + 1] = k
  BY <1>2 DEF IInv, TypeOK, KeysStored
<1>4. Len(ptrs) \in Nat
  BY DEF IInv, TypeOK
<1>5. QED
  BY <1>2, <1>3, <1>4 DEF IdOf, At

(* Any other counterexample becomes a Horn constraint of the sample. *)
LEMMA AddConstraintIInv ==
  ASSUME IInv, AddConstraint
  PROVE  IInv'
<1>1. UNCHANGED <<problem, unsat, sat, nowSat, begun, conjs, changed, todo, cexs,
                  cur, left, ids, ptrs, label>>
      /\ pc = "register" /\ left = {} /\ pc' = "add"
  BY DEF AddConstraint, clauses
<1> DEFINE g == HornIndexes
<1>2. horn' = horn \cup {g}
  BY DEF AddConstraint
<1>3. PICK c \in problem : cur \in c.instances
  BY <1>1 DEF IInv, TypeOK, Instance
<1>4. /\ \A x \in PremisesOf(cur) : x \in PointsOf(cur)
      /\ cur.rhs # FalseDp => cur.rhs \in PointsOf(cur)
  BY DEF PointsOf
<1>5. /\ g.body = {IdOf(x) : x \in PremisesOf(cur)}
      /\ g.head = {IdOf(x) : x \in {cur.rhs} \ {FalseDp}}
      /\ g = [body |-> g.body, head |-> g.head]
  BY DEF HornIndexes
<1> HIDE DEF g
<1>6. g \in [body : SUBSET (0 .. Len(ptrs) - 1), head : SUBSET (0 .. Len(ptrs) - 1)]
  <2>1. g.body \subseteq 0 .. Len(ptrs) - 1 /\ g.head \subseteq 0 .. Len(ptrs) - 1
    BY <1>1, <1>4, <1>5, IdentifierOfPoint
  <2>2. QED
    BY <1>5, <2>1
<1>7. /\ \A x \in PremisesOf(cur) : IdOf(x) \in g.body /\ At(IdOf(x)) = x
      /\ \A k \in g.body : At(k) \in PremisesOf(cur)
  BY <1>1, <1>4, <1>5, IdentifierOfPoint
<1>8. cur.rhs # FalseDp => g.head # {} /\ \A k \in g.head : At(k) = cur.rhs
  BY <1>1, <1>4, <1>5, IdentifierOfPoint
<1>9. cur.rhs = FalseDp => g.head = {}
  BY <1>5
<1>10. \A k : At(k)' = At(k)
  BY <1>1 DEF At
<1>11. TypeOK'
  <2>1. \A i : Instance(i)' <=> Instance(i)
    BY <1>1 DEF Instance
  <2>2. horn' \subseteq [body : SUBSET (0 .. Len(ptrs) - 1), head : SUBSET (0 .. Len(ptrs) - 1)]
    BY <1>2, <1>6 DEF IInv, TypeOK
  <2>3. QED
    BY <1>1, <2>1, <2>2 DEF IInv, TypeOK
<1>12. ListsCover'
  BY <1>1 DEF IInv, ListsCover
<1>13. SatisfiedHold'
  <2>1. \A d : Held(d)' <=> Held(d)
    BY <1>1 DEF Held
  <2>2. QED
    BY <1>1, <2>1 DEF IInv, SatisfiedHold
<1>14. ASSUME NEW T \in Hypotheses'
       PROVE  T \in Hypotheses /\ Holds(cur, T)
  <2>1. /\ T \in SUBSET Point
        /\ Labelled(label, "true") \subseteq T
        /\ Labelled(label, "false") \cap T = {}
    BY <1>1 DEF Hypotheses, Labelled
  <2>2. ASSUME NEW h \in horn', \A k \in h.body : At(k) \in T
        PROVE  h.head # {} /\ \A k \in h.head : At(k) \in T
    <3>1. \A k \in h.body : At(k)' \in T
      BY <1>10, <2>2
    <3>2. h.head # {} /\ \A k \in h.head : At(k)' \in T
      BY <3>1 DEF Hypotheses
    <3>3. QED
      BY <1>10, <3>2
  <2>3. T \in Hypotheses
    BY <1>2, <2>1, <2>2 DEF Hypotheses
  <2>4. PremisesOf(cur) \subseteq T => g.head # {} /\ \A k \in g.head : At(k) \in T
    BY <1>2, <1>7, <2>2
  <2>5. Holds(cur, T)
    BY <1>8, <1>9, <2>4 DEF Holds
  <2>6. QED
    BY <2>3, <2>5
<1>15. CounterexamplesKept'
  <2> SUFFICES ASSUME begun, NEW d \in unsat
               PROVE  \E i \in Violations(d, conjs) : OnItsWay(i)'
    BY <1>1 DEF CounterexamplesKept
  <2>1. PICK i \in Violations(d, conjs) : OnItsWay(i)
    BY <1>1 DEF IInv, CounterexamplesKept
  <2>2. OnItsWay(i)'
    BY <1>1, <1>14, <2>1 DEF OnItsWay, Recorded
  <2>3. QED
    BY <2>1, <2>2
<1>16. SampleImplied'
  <2>1. \A y \in Point : label[y] = "true" =>
          \E d \in problem : \E i \in d.instances : i.lhs = <<>> /\ i.rhs = y
    BY DEF IInv, SampleImplied
  <2>2. \A y \in Point : label[y] = "false" =>
          \E d \in problem : \E i \in d.instances : i.lhs = <<y>> /\ i.rhs = FalseDp
    BY DEF IInv, SampleImplied
  <2>3. ASSUME NEW h \in horn'
        PROVE  \E d \in problem : \E i \in d.instances :
                 /\ \A y \in PremisesOf(i) : \E k \in h.body : At(k)' = y
                 /\ i.rhs # FalseDp => h.head # {} /\ \A k \in h.head : At(k)' = i.rhs
    <3>1. CASE h \in horn
      BY <1>1, <3>1, HornImpliedStill
    <3>2. CASE h = g
      <4>1. \A y \in PremisesOf(cur) : \E k \in h.body : At(k)' = y
        BY <1>7, <1>10, <3>2
      <4>2. cur.rhs # FalseDp => h.head # {} /\ \A k \in h.head : At(k)' = cur.rhs
        BY <1>8, <1>10, <3>2
      <4>3. QED
        BY <1>3, <4>1, <4>2
    <3>3. QED
      BY <1>2, <3>1, <3>2
  <2>4. QED
    BY <1>1, <2>1, <2>2, <2>3, Zenon DEF SampleImplied
<1>17. IdentifiersArePositions'
  BY <1>1 DEF IInv, IdentifiersArePositions
<1>18. KeysStored'
  BY <1>1 DEF IInv, KeysStored, StoredKey
<1>19. RoundMakesProgress' /\ BreaksOffOnlyIfUnsolvable'
  BY <1>1 DEF RoundMakesProgress, BreaksOffOnlyIfUnsolvable
<1>20. QED
  BY <1>11, <1>12, <1>13, <1>15, <1>16, <1>17, <1>18, <1>19 DEF IInv

(* The round ends: nothing is left to record. *)
LEMMA EndRoundIInv ==
  ASSUME IInv, EndRound
  PROVE  IInv'
<1> USE DEF EndRound
<1>1. SampleImplied' /\ IdentifiersArePositions' /\ KeysStored'
      /\ \A i : Recorded(i)' <=> Recorded(i)
  BY SampleUntouched
<1>2. UNCHANGED <<problem, unsat, sat, nowSat, begun, conjs, changed, todo, cexs,
                  cur, left, ids, ptrs, label, horn>>
  BY DEF clauses, sample
<1>3. pc' = "learn" \/ (pc' = "done" /\ unsat = {})
  OBVIOUS
<1>4. TypeOK'
  BY <1>2, <1>3 DEF IInv, TypeOK, Instance
<1>5. ListsCover'
  BY <1>2 DEF IInv, ListsCover
<1>6. SatisfiedHold'
  <2>1. \A d : Held(d)' <=> Held(d)
    BY <1>2 DEF Held
  <2>2. QED
    BY <1>2, <1>3, <2>1 DEF IInv, SatisfiedHold
<1>7. CounterexamplesKept'
  <2>1. \A i : OnItsWay(i) => OnItsWay(i)'
    BY <1>1, <1>2 DEF OnItsWay
  <2>2. begun => \A d \in unsat : \E i \in Violations(d, conjs) : OnItsWay(i)
    BY DEF IInv, CounterexamplesKept
  <2>3. QED
    BY <1>2, <1>3, <2>1, <2>2 DEF CounterexamplesKept
<1>8. RoundMakesProgress' /\ BreaksOffOnlyIfUnsolvable'
  BY <1>3 DEF RoundMakesProgress, BreaksOffOnlyIfUnsolvable
<1>9. QED
  BY <1>1, <1>4, <1>5, <1>6, <1>7, <1>8 DEF IInv

(* A stuttering step changes nothing. *)
LEMMA StutterIInv ==
  ASSUME IInv, UNCHANGED vars
  PROVE  IInv'
<1>1. UNCHANGED <<problem, unsat, sat, nowSat, begun, conjs, changed, todo, cexs,
                  cur, left, ids, ptrs, label, horn, pc>>
  BY DEF vars, clauses, sample
<1>2. SampleImplied' /\ IdentifiersArePositions' /\ \A i : Recorded(i)' <=> Recorded(i)
  BY SampleUntouched DEF vars
<1>3. KeysStored'
  BY <1>1 DEF IInv, KeysStored, StoredKey
<1>4. TypeOK'
  BY <1>1 DEF IInv, TypeOK, Instance
<1>5. ListsCover'
  BY <1>1 DEF IInv, ListsCover
<1>6. \A d : (Held(d)' <=> Held(d)) /\ (Affected(d)' <=> Affected(d))
  BY <1>1 DEF Held, Affected
<1>7. SatisfiedHold'
  BY <1>1, <1>6 DEF IInv, SatisfiedHold
<1>8. CounterexamplesKept'
  <2>1. \A i : OnItsWay(i)' <=> OnItsWay(i)
    BY <1>1, <1>2 DEF OnItsWay
  <2>2. QED
    BY <1>1, <2>1 DEF IInv, CounterexamplesKept
<1>9. RoundMakesProgress'
  BY <1>1, <1>6 DEF IInv, RoundMakesProgress
<1>10. BreaksOffOnlyIfUnsolvable'
  BY <1>1 DEF IInv, BreaksOffOnlyIfUnsolvable, Solves
<1>11. QED
  BY <1>2, <1>3, <1>4, <1>5, <1>7, <1>8, <1>9, <1>10 DEF IInv

-----------------------------------------------------------------------------
(* Every step keeps the inductive invariant. *)
LEMMA NextIInv == IInv /\ [Next]_vars => IInv'
<1> SUFFICES ASSUME IInv, [Next]_vars
             PROVE  IInv'
  OBVIOUS
<1>1. CASE Learn
  BY <1>1, LearnIInv
<1>2. CASE LearnFails
  BY <1>2, LearnFailsIInv
<1>3. ASSUME NEW c \in todo, CheckUnsatisfied(c)
      PROVE  IInv'
  BY <1>3, CheckUnsatisfiedIInv
<1>4. ASSUME NEW c \in todo, CheckSatisfied(c)
      PROVE  IInv'
  BY <1>4, CheckSatisfiedIInv
<1>5. ASSUME NEW c \in todo, SolverUnknown(c)
      PROVE  IInv'
  BY <1>5, SolverUnknownIInv
<1>6. CASE StartSatisfied
  BY <1>6, StartSatisfiedIInv
<1>7. CASE EndChecks
  BY <1>7, EndChecksIInv
<1>8. ASSUME NEW i \in cexs, Take(i)
      PROVE  IInv'
  BY <1>8, TakeIInv
<1>9. ASSUME NEW x \in left, Register(x)
      PROVE  IInv'
  BY <1>9, RegisterIInv
<1>10. CASE AddPositive
  BY <1>10, AddPositiveIInv
<1>11. CASE AddNegative
  BY <1>11, AddNegativeIInv
<1>12. CASE AddConstraint
  BY <1>12, AddConstraintIInv
<1>13. CASE EndRound
  BY <1>13, EndRoundIInv
<1>14. CASE UNCHANGED vars
  BY <1>14, StutterIInv
<1>15. QED
  BY <1>1, <1>2, <1>3, <1>4, <1>5, <1>6, <1>7, <1>8, <1>9, <1>10, <1>11, <1>12,
     <1>13, <1>14 DEF Next

(* The inductive invariant holds throughout the teacher's loop (learn2). *)
THEOREM Invariant == Spec => []IInv
<1>1. Init => IInv
  BY InitIInv
<1>2. IInv /\ [Next]_vars => IInv'
  BY NextIInv
<1>3. QED
  BY <1>1, <1>2, PTL DEF Spec

(* The teacher's state is well typed. *)
THEOREM TypeCorrect == Spec => []TypeOK
<1>1. IInv => TypeOK
  BY DEF IInv
<1>2. QED
  BY <1>1, Invariant, PTL

(* When learn2 returns, its conjectures satisfy every clause, whatever the *)
(* number of clauses it has skipped.                                       *)
THEOREM Soundness == Spec => []SuccessIsSolution
<1>1. IInv => SuccessIsSolution
  <2> SUFFICES ASSUME IInv, pc = "done", NEW c \in problem
               PROVE  Violations(c, conjs) = {}
    BY DEF SuccessIsSolution, Solves, Violations
  <2>1. unsat = {} /\ nowSat = {} /\ \A d \in sat : Held(d)
    BY DEF IInv, SatisfiedHold
  <2>2. c \in sat
    BY <2>1 DEF IInv, ListsCover
  <2>3. QED
    BY <2>1, <2>2 DEF Held
<1>2. QED
  BY <1>1, Invariant, PTL

(* The program gives up on a contradiction, of the learner or of two       *)
(* counterexamples, only if no interpretation satisfies the clauses.       *)
THEOREM GivesUpRightly == Spec => []BreaksOffOnlyIfUnsolvable
<1>1. IInv => BreaksOffOnlyIfUnsolvable
  BY DEF IInv
<1>2. QED
  BY <1>1, Invariant, PTL

(* Every clause that was not satisfied in the last round is checked anew:  *)
(* the learner can not repeat the conjectures of that round.               *)
THEOREM Progress == Spec => []RoundMakesProgress
<1>1. IInv => RoundMakesProgress
  BY DEF IInv
<1>2. QED
  BY <1>1, Invariant, PTL

(* The identifiers api.h puts into Horn constraints are positions in the   *)
(* vector of data points, which holds no point twice.                      *)
THEOREM PositionsRight == Spec => []IdentifiersArePositions
<1>1. IInv => IdentifiersArePositions
  BY DEF IInv
<1>2. QED
  BY <1>1, Invariant, PTL
=============================================================================
