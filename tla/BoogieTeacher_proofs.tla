------------------------ MODULE BoogieTeacher_proofs ------------------------
(***************************************************************************)
(* Proofs about BoogieTeacher for any program, over any set of data        *)
(* points, and any bounds.                                                 *)
(***************************************************************************)
EXTENDS BoogieTeacher, TLAPS

USE FalseDpAssumption, FuncAssumption, NumBoundsAssumption, MaxBoundIsPositive

-----------------------------------------------------------------------------
(* The instances of a program. *)

(* What an instance consists of. *)
LEMMA InstanceType ==
  ASSUME IsProgram(program), NEW m \in Impl, NEW i \in program.vc[m]
  PROVE  /\ i \in Instances
         /\ i.lhs \in Seq(Point) /\ i.rhs \in Node /\ i.level \in Nat
         /\ PremisesOf(i) \subseteq Point /\ PointsOf(i) \subseteq Point
<1>1. i \in Instances
  BY DEF IsProgram
<1>2. i.lhs \in Seq(Point) /\ i.rhs \in Node /\ i.level \in Nat
  BY <1>1 DEF Instances
<1>3. PremisesOf(i) \subseteq Point
  BY <1>2 DEF PremisesOf
<1>4. QED
  BY <1>1, <1>2, <1>3 DEF PointsOf, Node

(* A positive counterexample has no premise, a negative one exactly one. *)
LEMMA SidesOf ==
  ASSUME IsProgram(program), NEW m \in Impl, NEW i \in program.vc[m]
  PROVE  /\ i.lhs = <<>> => PremisesOf(i) = {}
         /\ IsNegative(i) => i.lhs = <<i.lhs[1]>> /\ PremisesOf(i) = {i.lhs[1]}
                             /\ i.lhs[1] \in Point
         /\ IsPositive(i) => i.rhs \in Point
<1>1. i.lhs \in Seq(Point) /\ i.rhs \in Node
  BY InstanceType
<1>2. i.lhs = <<>> => PremisesOf(i) = {}
  BY DEF PremisesOf
<1>3. ASSUME IsNegative(i)
      PROVE  i.lhs = <<i.lhs[1]>> /\ PremisesOf(i) = {i.lhs[1]} /\ i.lhs[1] \in Point
  <2>1. Len(i.lhs) = 1 /\ DOMAIN i.lhs = {1}
    BY <1>1, <1>3 DEF IsNegative
  <2>2. i.lhs[1] \in Point /\ i.lhs = <<i.lhs[1]>>
    BY <1>1, <2>1
  <2>3. QED
    BY <2>1, <2>2 DEF PremisesOf
<1>4. IsPositive(i) => i.rhs \in Point
  BY <1>1 DEF IsPositive, Node
<1>5. QED
  BY <1>2, <1>3, <1>4

(* Whether an instance holds depends on the points it mentions. *)
LEMMA HoldsOnPoints ==
  ASSUME NEW i, NEW S \in SUBSET Point, NEW T \in SUBSET Point,
         \A x \in PointsOf(i) : x \in S <=> x \in T
  PROVE  Holds(i, S) <=> Holds(i, T)
<1>1. i.rhs \in S <=> i.rhs \in T
  BY DEF PointsOf
<1>2. QED
  BY <1>1 DEF Holds, PointsOf

(* The data file has the point with index k at position k. *)
LEMMA AtIndex ==
  ASSUME Types, IndexInv, NEW x \in Known
  PROVE  index[x] \in 0 .. nextIndex - 1 /\ At(index[x]) = x
<1>1. PICK k \in 1 .. Len(points) : x = points[k]
  BY DEF Known
<1>2. index[x] = k - 1
  BY <1>1 DEF IndexInv, InOrder
<1>3. Len(points) \in Nat
  BY DEF Types
<1>4. index[x] + 1 = k
  BY <1>2, <1>3
<1>5. QED
  BY <1>1, <1>2, <1>3, <1>4 DEF At, IndexInv

(* The points of a clause are those of the instance it was made of. *)
LEMMA ClausePoints ==
  ASSUME Types, IndexInv, NEW i, PointsOf(i) \subseteq Known
  PROVE  /\ {At(k) : k \in HornClause(i).body} = PremisesOf(i)
         /\ {At(k) : k \in HornClause(i).head} = {i.rhs} \ {FalseDp}
         /\ HornClause(i) \in [body : SUBSET (0 .. nextIndex - 1),
                               head : SUBSET (0 .. nextIndex - 1)]
<1>1. \A x \in PointsOf(i) : index[x] \in 0 .. nextIndex - 1 /\ At(index[x]) = x
  BY AtIndex
<1>2. PremisesOf(i) \subseteq PointsOf(i) /\ {i.rhs} \ {FalseDp} \subseteq PointsOf(i)
  BY DEF PointsOf
<1>3. {At(k) : k \in {index[x] : x \in PremisesOf(i)}} = PremisesOf(i)
  BY <1>1, <1>2
<1>4. {At(k) : k \in {index[x] : x \in {i.rhs} \ {FalseDp}}} = {i.rhs} \ {FalseDp}
  BY <1>1, <1>2
<1>5. {index[x] : x \in PremisesOf(i)} \in SUBSET (0 .. nextIndex - 1)
      /\ {index[x] : x \in {i.rhs} \ {FalseDp}} \in SUBSET (0 .. nextIndex - 1)
  BY <1>1, <1>2
<1>6. QED
  BY <1>3, <1>4, <1>5 DEF HornClause

(* Trees that are consistent with the files satisfy the counterexamples    *)
(* that were recorded.                                                     *)
LEMMA RecordedHold ==
  ASSUME Types, IndexInv, NEW m \in Impl, NEW i \in program.vc[m], Recorded(i),
         NEW T \in Hypotheses
  PROVE  Holds(i, T)
<1> USE DEF Types
<1>1. /\ Labelled(label, "true") \subseteq T
      /\ Labelled(label, "false") \cap T = {}
      /\ \A h \in horn : (\A k \in h.body : At(k) \in T)
                           => h.head # {} /\ \A k \in h.head : At(k) \in T
  BY DEF Hypotheses
<1>2. CASE IsPositive(i)
  BY <1>1, <1>2, SidesOf DEF Recorded, Labelled, Holds
<1>3. CASE IsNegative(i)
  <2>1. ~ IsPositive(i)
    BY <1>3 DEF IsPositive, IsNegative
  <2>2. i.lhs[1] \in PremisesOf(i) /\ i.lhs[1] \in Labelled(label, "false")
    BY <1>3, <2>1, SidesOf DEF Recorded, Labelled
  <2>3. QED
    BY <1>1, <2>2 DEF Holds
<1>4. CASE ~ IsPositive(i) /\ ~ IsNegative(i)
  <2>1. PointsOf(i) \subseteq Known /\ HornClause(i) \in horn
    BY <1>4 DEF Recorded
  <2> SUFFICES ASSUME PremisesOf(i) \subseteq T
               PROVE  i.rhs \in T
    BY DEF Holds
  <2>2. \A k \in HornClause(i).body : At(k) \in T
    BY <2>1, ClausePoints
  <2>3. HornClause(i).head # {} /\ \A k \in HornClause(i).head : At(k) \in T
    BY <1>1, <2>1, <2>2
  <2>4. PICK k \in HornClause(i).head : At(k) \in T
    BY <2>3
  <2>5. At(k) \in {i.rhs} \ {FalseDp}
    <3>1. {At(j) : j \in HornClause(i).head} = {i.rhs} \ {FalseDp}
      BY <2>1, ClausePoints
    <3>2. QED
      BY <2>4, <3>1
  <2>6. QED
    BY <2>4, <2>5
<1>5. QED
  BY <1>2, <1>3, <1>4

(* The sample excludes no functions that make the program correct: what    *)
(* they are true of, for the functions with a data point, is a hypothesis. *)
LEMMA CorrectIsHypothesis ==
  ASSUME Types, IndexInv, SampleInv, NEW T \in SUBSET Point, Correct(T)
  PROVE  On(Sampled, T) \in Hypotheses
<1> USE DEF Types
<1>1. \A m \in Impl : \A i \in program.vc[m] : Holds(i, T)
  BY DEF Correct
<1>2. \A x \in Known : FuncOf[x] \in Sampled
  BY DEF Sampled
<1>3. Labelled(label, "true") \subseteq On(Sampled, T)
  <2> SUFFICES ASSUME NEW x \in Point, label[x] = "true"
               PROVE  x \in On(Sampled, T)
    BY DEF Labelled
  <2>1. x \in Known
    BY DEF SampleInv
  <2>2. PICK m \in Impl : \E i \in program.vc[m] : i.lhs = <<>> /\ i.rhs = x
    BY DEF SampleInv
  <2>3. PICK i \in program.vc[m] : i.lhs = <<>> /\ i.rhs = x
    BY <2>2
  <2>4. x \in T
    BY <1>1, <2>3, SidesOf DEF Holds
  <2>5. QED
    BY <1>2, <2>1, <2>4 DEF On
<1>4. Labelled(label, "false") \cap On(Sampled, T) = {}
  <2> SUFFICES ASSUME NEW x \in Point, label[x] = "false", x \in T
               PROVE  FALSE
    BY DEF Labelled, On
  <2>1. PICK m \in Impl : \E i \in program.vc[m] : i.lhs = <<x>> /\ i.rhs = FalseDp
    BY DEF SampleInv
  <2>2. PICK i \in program.vc[m] : i.lhs = <<x>> /\ i.rhs = FalseDp
    BY <2>1
  <2>3. PremisesOf(i) \subseteq {x}
    BY <2>2 DEF PremisesOf
  <2>4. QED
    BY <1>1, <2>2, <2>3 DEF Holds
<1>5. ASSUME NEW h \in horn, \A k \in h.body : At(k) \in On(Sampled, T)
      PROVE  h.head # {} /\ \A k \in h.head : At(k) \in On(Sampled, T)
  <2>1. PICK m \in Impl : \E i \in program.vc[m] :
          PointsOf(i) \subseteq Known /\ h = HornClause(i)
    BY DEF SampleInv
  <2>2. PICK i \in program.vc[m] : PointsOf(i) \subseteq Known /\ h = HornClause(i)
    BY <2>1
  <2>3. /\ {At(k) : k \in h.body} = PremisesOf(i)
        /\ {At(k) : k \in h.head} = {i.rhs} \ {FalseDp}
    BY <2>2, ClausePoints
  <2>4. PremisesOf(i) \subseteq T
    BY <1>5, <2>3 DEF On
  <2>5. i.rhs \in T
    BY <1>1, <2>4 DEF Holds
  <2>6. i.rhs \in PointsOf(i)
    BY <2>5 DEF PointsOf
  <2>7. i.rhs \in On(Sampled, T)
    BY <1>2, <2>2, <2>5, <2>6 DEF On
  <2>8. h.head # {}
    BY <2>3, <2>5
  <2>9. \A k \in h.head : At(k) = i.rhs
    BY <2>3
  <2>10. QED
    BY <2>7, <2>8, <2>9
<1>6. On(Sampled, T) \subseteq On(Sampled, Point)
  BY DEF On
<1>7. QED
  BY <1>3, <1>4, <1>5, <1>6 DEF Hypotheses

-----------------------------------------------------------------------------
(* What stays true while parts of the state stay as they are. *)
LEMMA SampleStays ==
  ASSUME UNCHANGED <<program, sample>>
  PROVE  /\ UNCHANGED <<points, index, nextIndex, label, horn>>
         /\ IndexInv' <=> IndexInv
         /\ SampleInv' <=> SampleInv
         /\ Hypotheses' = Hypotheses
         /\ AsksForPositive' <=> AsksForPositive
         /\ \A i : Recorded(i)' <=> Recorded(i)
<1>1. UNCHANGED <<points, index, nextIndex, label, horn>>
  BY DEF sample
<1>2. Known' = Known
  BY <1>1 DEF Known
<1>3. \A i : HornClause(i)' = HornClause(i)
  BY <1>1 DEF HornClause
<1>4. IndexInv' <=> IndexInv
  BY <1>1, <1>2 DEF IndexInv, InOrder
<1>5. SampleInv' <=> SampleInv
  BY <1>1, <1>2, <1>3, Zenon DEF SampleInv
<1>6. Hypotheses' = Hypotheses
  BY <1>1, <1>2 DEF Hypotheses, At, Labelled, Sampled
<1>7. AsksForPositive' <=> AsksForPositive
  BY <1>1 DEF AsksForPositive, Labelled
<1>8. \A i : Recorded(i)' <=> Recorded(i)
  BY <1>1, <1>2, <1>3 DEF Recorded
<1>9. QED
  BY <1>1, <1>4, <1>5, <1>6, <1>7, <1>8

(* The conditions proved depend on the program, the bounds and the functions. *)
LEMMA ProvedStays ==
  ASSUME UNCHANGED <<program, useBounds, value>>
  PROVE  \A m : Proved(m)' <=> Proved(m)
BY DEF Proved, Allowed

(* Refuted depends on the program, the sample and the functions. *)
LEMMA RefutedStays ==
  ASSUME UNCHANGED <<program, sample, impl, value>>
  PROVE  Refuted' <=> Refuted
BY SampleStays DEF Refuted

(* Steps of the teacher that leave the learner's process, the functions    *)
(* and the labels alone.                                                   *)
LEMMA ProcessStays ==
  ASSUME IInv, pc \notin {"wait", "learnererror"}, pc' \notin {"wait", "learnererror"},
         UNCHANGED <<program, value, sample, procVars>>
  PROVE  ProcessInv' /\ BoundInv' /\ ProcessTypeOK(SUBSET Point)'
<1>1. UNCHANGED <<options, status, boundFile, json, bound, proc>>
  BY DEF procVars, files
<1>2. Hypotheses' = Hypotheses /\ (AsksForPositive' <=> AsksForPositive)
  BY SampleStays
<1>3. ProcessInv'
  BY <1>1, <1>2 DEF IInv, ProcessInv
<1>4. BoundInv'
  BY <1>1, <1>2 DEF IInv, BoundInv, FirstRound
<1>5. ProcessTypeOK(SUBSET Point)'
  BY <1>1 DEF IInv, Types, ProcessTypeOK
<1>6. QED
  BY <1>3, <1>4, <1>5

(* The first state of LearnInv satisfies the invariant. *)
LEMMA InitIInv == Init => IInv
<1> SUFFICES ASSUME Init
             PROVE  IInv
  OBVIOUS
<1> USE DEF Init, ProcessInit
<1>1. Types
  <2>1. IsProgram(program)
    BY ProgramsAssumption
  <2>2. impl \in Impl
    BY ImplAssumption
  <2>3. label \in [Point -> Label]
    BY DEF Label
  <2>4. index \in [DOMAIN index -> Nat] /\ DOMAIN index \subseteq Point
    OBVIOUS
  <2>5. ProcessTypeOK(SUBSET Point)
    BY OptionsAssumption DEF ProcessTypeOK, Bounds, NoFile
  <2>6. seen \subseteq program.vc[impl] /\ left \in Seq(Point) /\ points \in Seq(Point)
    OBVIOUS
  <2>7. /\ value \subseteq Point /\ worklist \subseteq Impl
        /\ check \in 0 .. NumBounds /\ nextIndex \in Nat
    OBVIOUS
  <2>8. useBounds \in BOOLEAN /\ asserts \in BOOLEAN /\ unanswered \in BOOLEAN
    BY Zenon
  <2>9. pc \in {"next", "check", "implications", "record", "learn", "wait"} \cup Ended
        /\ pc # "record"
    OBVIOUS
  <2>10. QED
    BY <2>1, <2>2, <2>3, <2>4, <2>5, <2>6, <2>7, <2>8, <2>9, Zenon DEF Types
<1>2. IndexInv
  BY DEF IndexInv, InOrder, Known
<1>3. SampleInv
  BY DEF SampleInv
<1>4. CheckInv /\ EndInv
  BY DEF CheckInv, EndInv
<1>5. ProcessInv
  BY DEF ProcessInv
<1>6. BoundInv
  BY DEF BoundInv, AsksForPositive, Labelled
<1>7. VerdictInv
  BY DEF VerdictInv
<1>8. QED
  BY <1>1, <1>2, <1>3, <1>4, <1>5, <1>6, <1>7 DEF IInv

-----------------------------------------------------------------------------
(* The work list and the checks. *)
LEMMA TakeImplIInv ==
  ASSUME IInv, NEW m \in worklist, TakeImpl(m)
  PROVE  IInv'
<1> USE DEF TakeImpl
<1>1. UNCHANGED <<program, useBounds, asserts>>
  BY DEF input
<1>2. IndexInv' /\ SampleInv'
  BY <1>1, SampleStays DEF IInv
<1>3. ProcessInv' /\ BoundInv' /\ ProcessTypeOK(SUBSET Point)'
  BY <1>1, ProcessStays
<1>4. seen = {} /\ m \in Impl
  BY DEF IInv, CheckInv, Types
<1>5. Types'
  BY <1>1, <1>3, <1>4, SampleStays DEF IInv, Types
<1>6. CheckInv'
  BY <1>4 DEF CheckInv
<1>7. EndInv'
  BY DEF EndInv
<1>8. VerdictInv'
  BY <1>1, ProvedStays DEF IInv, VerdictInv
<1>9. QED
  BY <1>2, <1>3, <1>5, <1>6, <1>7, <1>8 DEF IInv

(* LearnInv ends: the work list is empty. *)
LEMMA VerifiedIInv ==
  ASSUME IInv, Verified
  PROVE  IInv'
<1> USE DEF Verified
<1>1. UNCHANGED <<program, useBounds, asserts>>
  BY DEF input
<1>2. IndexInv' /\ SampleInv'
  BY <1>1, SampleStays DEF IInv
<1>3. ProcessInv' /\ BoundInv' /\ ProcessTypeOK(SUBSET Point)'
  BY <1>1, ProcessStays
<1>4. Types'
  BY <1>1, <1>3, SampleStays DEF IInv, Types, Ended
<1>5. CheckInv'
  BY DEF CheckInv
<1>6. EndInv'
  BY DEF EndInv
<1>7. VerdictInv'
  BY <1>1, ProvedStays DEF IInv, VerdictInv
<1>8. QED
  BY <1>2, <1>3, <1>4, <1>5, <1>6, <1>7 DEF IInv

(* A check that is over, with or without an answer. *)
LEMMA NextCheckIInv ==
  ASSUME IInv, pc = "check", seen = {}, NextCheck,
         UNCHANGED <<input, value, worklist, impl, seen, cur, left, sample, procVars>>,
         unanswered' \in BOOLEAN, ~ unanswered' => ~ unanswered /\ Violated = {}
  PROVE  IInv'
<1>1. UNCHANGED <<program, useBounds, asserts>>
  BY DEF input
<1>2. IndexInv' /\ SampleInv'
  BY <1>1, SampleStays DEF IInv
<1>3. pc' \in {"check", "next"} /\ (pc' = "next" => check >= LastCheck)
      /\ check' \in 0 .. NumBounds
  BY DEF NextCheck, LastCheck, IInv, Types
<1>4. ProcessInv' /\ BoundInv' /\ ProcessTypeOK(SUBSET Point)'
  BY <1>1, <1>3, ProcessStays
<1>5. Types'
  BY <1>1, <1>3, <1>4, SampleStays DEF IInv, Types
<1>6. CheckInv' /\ EndInv'
  BY <1>3 DEF CheckInv, EndInv
<1>7. ASSUME ~ unanswered', pc' = "next"
      PROVE  Proved(impl)
  <2>1. check >= LastCheck /\ Violated = {} /\ impl \in Impl /\ check \in Nat
        /\ IsProgram(program)
    BY <1>3, <1>7 DEF IInv, Types
  <2>2. LastCheck \in Nat
    BY DEF LastCheck
  <2> SUFFICES ASSUME NEW i \in Allowed(impl, LastCheck)
               PROVE  Holds(i, value)
    BY DEF Proved, LastCheck
  <2>3. i.level \in Nat /\ i \in program.vc[impl]
    BY <2>1, InstanceType DEF Allowed
  <2>4. i \in Allowed(impl, check)
    BY <2>1, <2>2, <2>3 DEF Allowed
  <2>5. QED
    BY <2>1, <2>4 DEF Violated
<1>8. VerdictInv'
  BY <1>1, <1>3, <1>7, ProvedStays DEF IInv, VerdictInv
<1>9. QED
  BY <1>2, <1>4, <1>5, <1>6, <1>8 DEF IInv

(* A check that times out. *)
LEMMA CheckTimesOutIInv ==
  ASSUME IInv, CheckTimesOut
  PROVE  IInv'
<1> USE DEF CheckTimesOut
<1>1. UNCHANGED <<program, useBounds, asserts>>
  BY DEF input
<1>2. IndexInv' /\ SampleInv'
  BY <1>1, SampleStays DEF IInv
<1>3. ProcessInv' /\ BoundInv' /\ ProcessTypeOK(SUBSET Point)'
  BY <1>1, ProcessStays
<1>4. Types'
  BY <1>1, <1>3, SampleStays DEF IInv, Types, Ended
<1>5. CheckInv'
  BY DEF CheckInv
<1>6. EndInv'
  BY DEF EndInv
<1>7. VerdictInv'
  BY <1>1, ProvedStays DEF IInv, VerdictInv
<1>8. QED
  BY <1>2, <1>3, <1>4, <1>5, <1>6, <1>7 DEF IInv

(* A check whose handler gets no model. *)
LEMMA ModelMissingIInv ==
  ASSUME IInv, ModelMissing
  PROVE  IInv'
<1> USE DEF ModelMissing
<1>1. UNCHANGED <<program, useBounds, asserts>>
  BY DEF input
<1>2. IndexInv' /\ SampleInv'
  BY <1>1, SampleStays DEF IInv
<1>3. ProcessInv' /\ BoundInv' /\ ProcessTypeOK(SUBSET Point)'
  BY <1>1, ProcessStays
<1>4. Types'
  BY <1>1, <1>3, SampleStays DEF IInv, Types, Ended
<1>5. CheckInv'
  BY DEF CheckInv
<1>6. EndInv'
  BY DEF EndInv
<1>7. VerdictInv'
  BY <1>1, ProvedStays DEF IInv, VerdictInv
<1>8. QED
  BY <1>2, <1>3, <1>4, <1>5, <1>6, <1>7 DEF IInv

(* RecordCexForC5 is entered with a violated instance. *)
LEMMA RecordEnters ==
  ASSUME IInv, NEW i \in program.vc[impl], Record(i), UNCHANGED <<program, sample>>
  PROVE  /\ left' \in Seq(Point)
         /\ cur' = i /\ pc' = "record"
         /\ PointsOf(i) \subseteq (Known \cup InLeft)'
<1>1. i.lhs \in Seq(Point) /\ i.rhs \in Node
  BY InstanceType DEF IInv, Types
<1>2. CASE i.rhs = FalseDp
  <2>1. left' = i.lhs /\ PointsOf(i) = PremisesOf(i)
    BY <1>2 DEF Record, PointsOf
  <2>2. InLeft' = PremisesOf(i)
    BY <1>1, <2>1 DEF InLeft, PremisesOf
  <2>3. QED
    BY <1>1, <2>1, <2>2 DEF Record
<1>3. CASE i.rhs # FalseDp
  <2>1. left' = Append(i.lhs, i.rhs) /\ i.rhs \in Point /\ left' \in Seq(Point)
    BY <1>1, <1>3 DEF Record, Node
  <2>2. Len(left') = Len(i.lhs) + 1 /\ left'[Len(i.lhs) + 1] = i.rhs
        /\ (\A k \in 1 .. Len(i.lhs) : left'[k] = i.lhs[k])
        /\ DOMAIN i.lhs = 1 .. Len(i.lhs) /\ Len(i.lhs) \in Nat
    BY <1>1, <2>1
  <2>3. i.rhs \in InLeft'
    BY <2>2 DEF InLeft
  <2>4. PremisesOf(i) \subseteq InLeft'
    BY <2>2 DEF InLeft, PremisesOf
  <2>5. QED
    BY <2>1, <2>3, <2>4 DEF Record, PointsOf
<1>4. QED
  BY <1>2, <1>3

(* HandleCounterExample of one violated instance. *)
LEMMA CounterexampleIInv ==
  ASSUME IInv, NEW i \in Violated, Counterexample(i)
  PROVE  IInv'
<1> USE DEF Counterexample
<1>1. UNCHANGED <<program, useBounds, asserts>>
  BY DEF input
<1>2. IndexInv' /\ SampleInv' /\ \A j : Recorded(j)' <=> Recorded(j)
  BY <1>1, SampleStays DEF IInv
<1>3. i \in program.vc[impl] /\ ~ Holds(i, value)
  BY DEF Violated, Allowed
<1>4. \/ /\ OneSided(i) /\ ~ IsReal(i)
         /\ cur' = i /\ pc' = "record" /\ left' \in Seq(Point)
         /\ PointsOf(i) \subseteq (Known \cup InLeft)'
      \/ /\ ~ (OneSided(i) /\ ~ IsReal(i))
         /\ pc' = "check" /\ UNCHANGED <<cur, left>>
  BY <1>1, <1>3, RecordEnters
<1>5. ProcessInv' /\ BoundInv' /\ ProcessTypeOK(SUBSET Point)'
  BY <1>1, <1>4, ProcessStays
<1>6. Types'
  BY <1>1, <1>3, <1>4, <1>5, SampleStays DEF IInv, Types
<1>7. CheckInv'
  <2>1. /\ \A j \in seen : ~ Holds(j, value)
        /\ \A j \in seen : OneSided(j) /\ ~ IsReal(j) => Recorded(j)
    BY DEF IInv, CheckInv
  <2>2. CASE pc' = "record"
    BY <1>2, <1>3, <1>4, <2>1, <2>2 DEF CheckInv
  <2>3. CASE pc' = "check"
    BY <1>2, <1>3, <1>4, <2>1, <2>3 DEF CheckInv
  <2>4. QED
    BY <1>4, <2>2, <2>3
<1>8. EndInv'
  BY <1>4 DEF EndInv
<1>9. VerdictInv'
  BY <1>1, <1>4, ProvedStays DEF IInv, VerdictInv
<1>10. QED
  BY <1>2, <1>5, <1>6, <1>7, <1>8, <1>9 DEF IInv

(* The check has returned all its counterexamples. *)
LEMMA EndCheckIInv ==
  ASSUME IInv, EndCheck
  PROVE  IInv'
<1> USE DEF EndCheck
<1>1. UNCHANGED <<program, useBounds, asserts>>
  BY DEF input
<1>2. IndexInv' /\ SampleInv' /\ \A j : Recorded(j)' <=> Recorded(j)
  BY <1>1, SampleStays DEF IInv
<1>3. pc' \in {"invalid", "learn", "implications"} /\ seen' \subseteq seen
  OBVIOUS
<1>4. ProcessInv' /\ BoundInv' /\ ProcessTypeOK(SUBSET Point)'
  BY <1>1, <1>3, ProcessStays
<1>5. Types'
  BY <1>1, <1>3, <1>4, SampleStays DEF IInv, Types, Ended
<1>6. /\ seen \subseteq program.vc[impl]
      /\ \A j \in seen : ~ Holds(j, value)
      /\ \A j \in seen : OneSided(j) /\ ~ IsReal(j) => Recorded(j)
  BY DEF IInv, CheckInv, Types
<1>7. CheckInv'
  <2>1. CASE \E j \in seen : IsReal(j)
    BY <2>1 DEF CheckInv
  <2>2. CASE (\A j \in seen : ~ IsReal(j)) /\ \E j \in seen : OneSided(j)
    <3>1. pc' = "learn" /\ seen' = {}
      BY <2>2
    <3>2. Refuted
      BY <1>6, <2>2 DEF Refuted
    <3>3. QED
      BY <1>1, <3>1, <3>2, RefutedStays DEF CheckInv
  <2>3. CASE \A j \in seen : ~ IsReal(j) /\ ~ OneSided(j)
    BY <1>6, <2>3 DEF CheckInv
  <2>4. QED
    BY <2>1, <2>2, <2>3
<1>8. EndInv'
  BY <1>1, <1>3, <1>6 DEF EndInv
<1>9. VerdictInv'
  BY <1>1, <1>3, ProvedStays DEF IInv, VerdictInv
<1>10. QED
  BY <1>2, <1>4, <1>5, <1>7, <1>8, <1>9 DEF IInv

(* An implication kept until the check was over is recorded. *)
LEMMA AddImplicationIInv ==
  ASSUME IInv, NEW i \in seen, AddImplication(i)
  PROVE  IInv'
<1> USE DEF AddImplication
<1>1. UNCHANGED <<program, useBounds, asserts>>
  BY DEF input
<1>2. IndexInv' /\ SampleInv'
  BY <1>1, SampleStays DEF IInv
<1>3. i \in program.vc[impl] /\ ~ Holds(i, value) /\ \A j \in seen : ~ OneSided(j)
  BY DEF IInv, Types, CheckInv
<1>4. /\ cur' = i /\ pc' = "record" /\ left' \in Seq(Point)
      /\ PointsOf(i) \subseteq (Known \cup InLeft)'
  BY <1>1, <1>3, RecordEnters
<1>5. ProcessInv' /\ BoundInv' /\ ProcessTypeOK(SUBSET Point)'
  BY <1>1, <1>4, ProcessStays
<1>6. Types'
  BY <1>1, <1>3, <1>4, <1>5, SampleStays DEF IInv, Types
<1>7. CheckInv'
  <2>1. ~ IsReal(i) /\ ~ OneSided(i)
    BY <1>3 DEF IsReal, OneSided
  <2>2. \A j \in seen : ~ Holds(j, value)
    BY DEF IInv, CheckInv
  <2>3. QED
    BY <1>3, <1>4, <2>1, <2>2 DEF CheckInv
<1>8. EndInv'
  BY <1>4 DEF EndInv
<1>9. VerdictInv'
  BY <1>1, <1>4, ProvedStays DEF IInv, VerdictInv
<1>10. QED
  BY <1>2, <1>5, <1>6, <1>7, <1>8, <1>9 DEF IInv

(* All kept implications are recorded. *)
LEMMA EndImplicationsIInv ==
  ASSUME IInv, EndImplications
  PROVE  IInv'
<1> USE DEF EndImplications
<1>1. UNCHANGED <<program, useBounds, asserts>>
  BY DEF input
<1>2. IndexInv' /\ SampleInv'
  BY <1>1, SampleStays DEF IInv
<1>3. ProcessInv' /\ BoundInv' /\ ProcessTypeOK(SUBSET Point)'
  BY <1>1, ProcessStays
<1>4. Types'
  BY <1>1, <1>3, SampleStays DEF IInv, Types
<1>5. CheckInv'
  <2>1. Refuted
    BY DEF IInv, CheckInv
  <2>2. QED
    BY <1>1, <2>1, RefutedStays DEF CheckInv
<1>6. EndInv'
  BY DEF EndInv
<1>7. VerdictInv'
  BY <1>1, ProvedStays DEF IInv, VerdictInv
<1>8. QED
  BY <1>2, <1>3, <1>4, <1>5, <1>6, <1>7 DEF IInv

-----------------------------------------------------------------------------
(* The sample. *)

(* A clause keeps its indices while points are added. *)
LEMMA ClauseStays ==
  ASSUME NEW i, PointsOf(i) \subseteq DOMAIN index,
         \A x \in DOMAIN index : index'[x] = index[x]
  PROVE  HornClause(i)' = HornClause(i)
<1>1. \A x \in PremisesOf(i) : index'[x] = index[x]
  BY DEF PointsOf
<1>2. \A x \in {i.rhs} \ {FalseDp} : index'[x] = index[x]
  BY DEF PointsOf
<1>3. {index'[x] : x \in PremisesOf(i)} = {index[x] : x \in PremisesOf(i)}
  BY <1>1
<1>4. {index'[x] : x \in {i.rhs} \ {FalseDp}} = {index[x] : x \in {i.rhs} \ {FalseDp}}
  BY <1>2
<1>5. QED
  BY <1>3, <1>4 DEF HornClause

(* AddCounterExample gives a point its index. *)
LEMMA RegisterIInv ==
  ASSUME IInv, Register
  PROVE  IInv'
<1> DEFINE x == Head(left)
<1> USE DEF Register
<1>1. UNCHANGED <<program, useBounds, asserts>>
      /\ UNCHANGED <<options, status, boundFile, json, bound, proc>>
  BY DEF input, procVars, files
<1>2. /\ left \in Seq(Point) /\ left # <<>> /\ x \in Point /\ left' = Tail(left)
      /\ left' \in Seq(Point) /\ points \in Seq(Point) /\ DOMAIN index = Known
      /\ nextIndex = Len(points) /\ nextIndex \in Nat
      /\ index \in [Known -> Nat] /\ Known \subseteq Point
  BY DEF IInv, Types, IndexInv
<1>3. InLeft \subseteq {x} \cup InLeft'
  <2>1. left[1] = x
    BY <1>2
  <2>2. ASSUME NEW k \in 1 .. Len(left), k # 1
        PROVE  left[k] \in InLeft'
    <3>1. k - 1 \in 1 .. Len(left') /\ left'[k - 1] = left[k]
      BY <1>2, <2>2
    <3>2. QED
      BY <3>1 DEF InLeft
  <2>3. QED
    BY <2>1, <2>2 DEF InLeft
<1>4. /\ points' \in Seq(Point) /\ nextIndex' = Len(points')
      /\ Known' = Known \cup {x} /\ DOMAIN index' = Known'
      /\ index' \in [DOMAIN index' -> Nat]
      /\ \A y \in Known : index'[y] = index[y]
      /\ InOrder'
  <2>1. CASE x \in DOMAIN index
    BY <1>2, <2>1 DEF IInv, IndexInv, InOrder, Known
  <2>2. CASE x \notin DOMAIN index
    <3>1. /\ points' = Append(points, x) /\ nextIndex' = nextIndex + 1
          /\ index' = [y \in DOMAIN index \cup {x} |-> IF y = x THEN nextIndex ELSE index[y]]
      BY <2>2
    <3>2. /\ points' \in Seq(Point) /\ Len(points') = Len(points) + 1
          /\ Len(points) \in Nat
          /\ \A k \in 1 .. Len(points) : points'[k] = points[k]
          /\ points'[Len(points) + 1] = x
      BY <1>2, <3>1
    <3>3. 1 .. Len(points') = 1 .. Len(points) \cup {Len(points) + 1}
      BY <3>2
    <3>4. Known' = Known \cup {x}
      <4>1. Known' = {points'[k] : k \in 1 .. Len(points) \cup {Len(points) + 1}}
        BY <3>3 DEF Known
      <4>2. {points'[k] : k \in 1 .. Len(points) \cup {Len(points) + 1}}
              = {points'[k] : k \in 1 .. Len(points)} \cup {points'[Len(points) + 1]}
        OBVIOUS
      <4>3. {points'[k] : k \in 1 .. Len(points)} = Known
        <5>1. \A k \in 1 .. Len(points) : points'[k] = points[k]
          BY <3>2
        <5>2. QED
          BY <5>1, Zenon DEF Known
      <4>4. QED
        BY <3>2, <4>1, <4>2, <4>3
    <3>5. DOMAIN index' = Known' /\ \A y \in Known : index'[y] = index[y]
      BY <1>2, <2>2, <3>1, <3>4
    <3>6. index' \in [DOMAIN index' -> Nat] /\ index'[x] = nextIndex
      BY <1>2, <3>1
    <3>7. InOrder'
      <4> SUFFICES ASSUME NEW k \in 1 .. Len(points')
                   PROVE  index'[points'[k]] = k - 1
        BY DEF InOrder
      <4>1. CASE k \in 1 .. Len(points)
        <5>1. points[k] \in Known
          BY <4>1 DEF Known
        <5>2. QED
          BY <3>2, <3>5, <4>1, <5>1 DEF IInv, IndexInv, InOrder
      <4>2. CASE k = Len(points) + 1
        BY <1>2, <3>2, <3>6, <4>2
      <4>3. QED
        BY <3>3, <4>1, <4>2
    <3>8. QED
      BY <1>2, <3>1, <3>2, <3>4, <3>5, <3>6, <3>7
  <2>3. QED
    BY <2>1, <2>2
<1>5. IndexInv'
  BY <1>4 DEF IndexInv
<1>6. \A i : PointsOf(i) \subseteq Known => HornClause(i)' = HornClause(i)
  BY <1>2, <1>4, ClauseStays
<1>7. SampleInv'
  <2>1. \A h \in horn : \E m \in Impl : \E i \in program.vc[m] :
          PointsOf(i) \subseteq Known' /\ h = HornClause(i)'
    <3> SUFFICES ASSUME NEW h \in horn
                 PROVE  \E m \in Impl : \E i \in program.vc[m] :
                          PointsOf(i) \subseteq Known' /\ h = HornClause(i)'
      OBVIOUS
    <3>1. PICK m \in Impl : \E i \in program.vc[m] :
            PointsOf(i) \subseteq Known /\ h = HornClause(i)
      BY DEF IInv, SampleInv
    <3>2. PICK i \in program.vc[m] : PointsOf(i) \subseteq Known /\ h = HornClause(i)
      BY <3>1
    <3>3. PointsOf(i) \subseteq Known' /\ h = HornClause(i)'
      BY <1>4, <1>6, <3>2
    <3>4. QED
      BY <3>3
  <2>2. \A y \in Point : label[y] = "true" =>
          y \in Known' /\ \E m \in Impl : \E i \in program.vc[m] : i.lhs = <<>> /\ i.rhs = y
    BY <1>4 DEF IInv, SampleInv
  <2>3. \A y \in Point : label[y] = "false" =>
          y \in Known' /\ \E m \in Impl : \E i \in program.vc[m] : i.lhs = <<y>> /\ i.rhs = FalseDp
    BY <1>4 DEF IInv, SampleInv
  <2>4. QED
    BY <1>1, <2>1, <2>2, <2>3, Zenon DEF SampleInv
<1>8. \A i : Recorded(i) => Recorded(i)'
  BY <1>4, <1>6 DEF Recorded
<1>9. CheckInv'
  <2>1. PointsOf(cur) \subseteq Known' \cup InLeft'
    BY <1>3, <1>4 DEF IInv, CheckInv
  <2>2. QED
    BY <1>8, <2>1 DEF IInv, CheckInv
<1>10. EndInv'
  BY DEF EndInv
<1>11. ProcessInv' /\ BoundInv'
  <2>1. proc = "idle"
    BY DEF IInv, ProcessInv
  <2>2. AsksForPositive' <=> AsksForPositive
    BY DEF AsksForPositive, Labelled
  <2>3. QED
    BY <1>1, <2>1, <2>2 DEF IInv, ProcessInv, BoundInv, FirstRound
<1>12. Types'
  <2>1. ProcessTypeOK(SUBSET Point)'
    BY <1>1 DEF IInv, Types, ProcessTypeOK
  <2>2. DOMAIN index' \subseteq Point /\ nextIndex' \in Nat
    BY <1>2, <1>4
  <2>3. QED
    BY <1>1, <1>2, <1>4, <2>1, <2>2 DEF IInv, Types
<1>13. VerdictInv'
  BY <1>1, ProvedStays DEF IInv, VerdictInv
<1>14. QED
  BY <1>5, <1>7, <1>9, <1>10, <1>11, <1>12, <1>13 DEF IInv

(* A label is added to the point of the counterexample, or the program     *)
(* ends because the point has the other one.                               *)
LEMMA LabelIInv ==
  ASSUME IInv, pc = "record", left = <<>>,
         NEW x, NEW v,
         \/ IsPositive(cur) /\ x = cur.rhs /\ v = "true"
         \/ IsNegative(cur) /\ x = cur.lhs[1] /\ v = "false",
         SetLabel(x, v),
         UNCHANGED <<input, value, worklist, impl, check, seen, cur, left, points, index,
                     nextIndex, horn, unanswered, procVars>>
  PROVE  IInv'
<1>1. UNCHANGED <<program, useBounds, asserts>>
      /\ UNCHANGED <<options, status, boundFile, json, bound, proc>>
  BY DEF input, procVars, files
<1>2. /\ cur \in program.vc[impl] /\ impl \in Impl /\ IsProgram(program)
      /\ ~ Holds(cur, value) /\ label \in [Point -> Label] /\ value \subseteq Point
      /\ InLeft = {} /\ PointsOf(cur) \subseteq Known
  BY DEF IInv, Types, CheckInv, InLeft
<1>3. /\ IsPositive(cur) => PremisesOf(cur) = {} /\ cur.rhs \in Point /\ cur.lhs = <<>>
      /\ IsNegative(cur) => /\ PremisesOf(cur) = {cur.lhs[1]} /\ cur.lhs[1] \in Point
                            /\ cur.lhs = <<cur.lhs[1]>> /\ cur.rhs = FalseDp
  BY <1>2, SidesOf DEF IsPositive, IsNegative
<1>4. x \in Point /\ x \in PointsOf(cur) /\ v \in Label /\ v # "none"
  BY <1>3 DEF PointsOf, Label
<1>5. \/ label' = [label EXCEPT ![x] = v] /\ pc' = "check"
      \/ asserts /\ label[x] \notin {"none", v} /\ label' = label /\ pc' = "aborted"
  BY DEF SetLabel
<1>6. label' \in [Point -> Label] /\ \A y \in Point : y # x => label'[y] = label[y]
  BY <1>2, <1>4, <1>5
<1>7. Types'
  <2>1. ProcessTypeOK(SUBSET Point)'
    BY <1>1 DEF IInv, Types, ProcessTypeOK
  <2>2. pc' \in {"check"} \cup Ended /\ pc' # "record"
    BY <1>5 DEF Ended
  <2>3. QED
    BY <1>1, <1>6, <2>1, <2>2 DEF IInv, Types
<1>8. IndexInv' /\ Known' = Known /\ \A i : HornClause(i)' = HornClause(i)
  BY DEF IInv, IndexInv, InOrder, Known, HornClause
<1>9. ASSUME NEW y \in Point, label'[y] # label[y]
      PROVE  y = x /\ y \in Known /\ label'[y] = v
             /\ (v = "true" => cur.lhs = <<>> /\ cur.rhs = y)
             /\ (v = "false" => cur.lhs = <<y>> /\ cur.rhs = FalseDp)
  BY <1>2, <1>3, <1>4, <1>5, <1>9
<1>10. SampleInv'
  <2>1. ASSUME NEW y \in Point, label'[y] = "true"
        PROVE  y \in Known /\ \E m \in Impl : \E i \in program.vc[m] :
                                i.lhs = <<>> /\ i.rhs = y
    <3>1. CASE label'[y] = label[y]
      BY <2>1, <3>1 DEF IInv, SampleInv
    <3>2. CASE label'[y] # label[y]
      BY <1>2, <1>9, <2>1, <3>2
    <3>3. QED
      BY <3>1, <3>2
  <2>2. ASSUME NEW y \in Point, label'[y] = "false"
        PROVE  y \in Known /\ \E m \in Impl : \E i \in program.vc[m] :
                                i.lhs = <<y>> /\ i.rhs = FalseDp
    <3>1. CASE label'[y] = label[y]
      BY <2>2, <3>1 DEF IInv, SampleInv
    <3>2. CASE label'[y] # label[y]
      BY <1>2, <1>9, <2>2, <3>2
    <3>3. QED
      BY <3>1, <3>2
  <2>3. \A h \in horn : \E m \in Impl : \E i \in program.vc[m] :
          PointsOf(i) \subseteq Known /\ h = HornClause(i)
    BY DEF IInv, SampleInv
  <2>4. QED
    BY <1>1, <1>8, <2>1, <2>2, <2>3, Zenon DEF SampleInv
<1>11. ASSUME pc' = "check", NEW i \in program.vc[impl], ~ Holds(i, value),
              i = cur \/ Recorded(i)
       PROVE  Recorded(i)'
  <2>1. label' = [label EXCEPT ![x] = v]
    BY <1>5, <1>11
  <2>2. label'[x] = v
    BY <1>2, <1>4, <2>1
  <2>3. CASE i = cur
    <3>1. IsPositive(cur) => x = cur.rhs /\ v = "true"
      BY DEF IsPositive, IsNegative
    <3>2. QED
      BY <2>2, <2>3, <3>1 DEF Recorded
  <2>4. CASE i # cur /\ IsPositive(i)
    <3>1. label[i.rhs] = "true" /\ i.rhs \in Point /\ i.rhs \notin value
      BY <1>2, <1>11, <2>4, SidesOf DEF Recorded, Holds
    <3>2. i.rhs = x => v = "true"
      BY <1>2, <1>3, <3>1 DEF Holds
    <3>3. label'[i.rhs] = "true"
      BY <1>6, <2>2, <3>1, <3>2
    <3>4. QED
      BY <2>4, <3>3 DEF Recorded
  <2>5. CASE i # cur /\ ~ IsPositive(i) /\ IsNegative(i)
    <3>1. label[i.lhs[1]] = "false" /\ i.lhs[1] \in Point /\ i.lhs[1] \in value
      BY <1>2, <1>11, <2>5, SidesOf DEF Recorded, Holds
    <3>2. i.lhs[1] = x => v = "false"
      BY <1>2, <1>3, <3>1 DEF Holds
    <3>3. label'[i.lhs[1]] = "false"
      BY <1>6, <2>2, <3>1, <3>2
    <3>4. QED
      BY <2>5, <3>3 DEF Recorded
  <2>6. CASE i # cur /\ ~ IsPositive(i) /\ ~ IsNegative(i)
    BY <1>8, <1>11, <2>6 DEF Recorded
  <2>7. QED
    BY <2>3, <2>4, <2>5, <2>6
<1>12. CheckInv'
  <2>1. CASE pc' = "check"
    <3>1. OneSided(cur)
      BY <1>3 DEF OneSided
    <3>2. \A i \in seen : ~ Holds(i, value) /\ i \in program.vc[impl]
      BY DEF IInv, CheckInv, Types
    <3>3. \A i \in seen \ {cur} : OneSided(i) /\ ~ IsReal(i) => Recorded(i)
      BY <3>1 DEF IInv, CheckInv
    <3>4. \A i \in seen : OneSided(i) /\ ~ IsReal(i) => Recorded(i)'
      BY <1>11, <2>1, <3>2, <3>3
    <3>5. QED
      BY <2>1, <3>2, <3>4 DEF CheckInv
  <2>2. CASE pc' = "aborted"
    BY <2>2 DEF CheckInv
  <2>3. QED
    BY <1>5, <2>1, <2>2
<1>13. EndInv'
  <2>1. ASSUME pc' = "aborted"
        PROVE  Clash
    <3>1. label[x] \notin {"none", v} /\ label[x] \in Label
      BY <1>2, <1>4, <1>5, <2>1
    <3>2. CASE v = "true"
      <4>1. label[x] = "false" /\ cur.lhs = <<>> /\ cur.rhs = x
        BY <1>3, <3>1, <3>2 DEF Label
      <4>2. PICK m \in Impl : \E i \in program.vc[m] : i.lhs = <<x>> /\ i.rhs = FalseDp
        BY <1>4, <4>1 DEF IInv, SampleInv
      <4>3. QED
        BY <1>2, <1>4, <4>1, <4>2 DEF Clash
    <3>3. CASE v = "false"
      <4>1. label[x] = "true" /\ cur.lhs = <<x>> /\ cur.rhs = FalseDp
        BY <1>3, <3>1, <3>3 DEF Label
      <4>2. PICK m \in Impl : \E i \in program.vc[m] : i.lhs = <<>> /\ i.rhs = x
        BY <1>4, <4>1 DEF IInv, SampleInv
      <4>3. QED
        BY <1>2, <1>4, <4>1, <4>2 DEF Clash
    <3>4. QED
      BY <3>2, <3>3
  <2>2. Clash' <=> Clash
    BY <1>1 DEF Clash
  <2>3. QED
    BY <1>5, <2>1, <2>2 DEF EndInv
<1>14. ProcessInv' /\ BoundInv'
  <2>1. proc = "idle"
    BY DEF IInv, ProcessInv
  <2>2. ASSUME status = 0
        PROVE  ~ AsksForPositive'
    <3>1. value = Point /\ ~ AsksForPositive
      BY <2>2 DEF IInv, BoundInv, FirstRound
    <3>2. v = "false"
      BY <1>2, <1>3, <3>1 DEF Holds
    <3>3. Labelled(label, "true")' \subseteq Labelled(label, "true")
      BY <1>9, <3>2 DEF Labelled
    <3>4. QED
      BY <3>1, <3>3 DEF AsksForPositive
  <2>3. pc' \notin {"wait", "learnererror"}
    BY <1>5
  <2>4. QED
    BY <1>1, <2>1, <2>2, <2>3 DEF IInv, ProcessInv, BoundInv, FirstRound
<1>15. VerdictInv'
  BY <1>1, <1>5, ProvedStays DEF IInv, VerdictInv
<1>16. QED
  BY <1>7, <1>8, <1>10, <1>12, <1>13, <1>14, <1>15 DEF IInv

(* RecordCexForC5 records an implication. *)
LEMMA AddClauseIInv ==
  ASSUME IInv, AddClause
  PROVE  IInv'
<1> USE DEF AddClause
<1>1. UNCHANGED <<program, useBounds, asserts>>
      /\ UNCHANGED <<options, status, boundFile, json, bound, proc>>
  BY DEF input, procVars, files
<1>2. /\ cur \in program.vc[impl] /\ impl \in Impl /\ ~ Holds(cur, value)
      /\ ~ IsReal(cur) /\ InLeft = {} /\ PointsOf(cur) \subseteq Known
      /\ IsProgram(program)
  BY DEF IInv, Types, CheckInv, InLeft
<1>3. pc' \in {"check", "implications"}
      /\ (pc' = "check" <=> OneSided(cur))
  OBVIOUS
<1>4. Types'
  <2>1. ProcessTypeOK(SUBSET Point)'
    BY <1>1 DEF IInv, Types, ProcessTypeOK
  <2>2. QED
    BY <1>1, <1>3, <2>1 DEF IInv, Types
<1>5. IndexInv' /\ Known' = Known /\ \A i : HornClause(i)' = HornClause(i)
  BY DEF IInv, IndexInv, InOrder, Known, HornClause
<1>6. SampleInv'
  <2>1. \A h \in horn' : \E m \in Impl : \E i \in program.vc[m] :
          PointsOf(i) \subseteq Known /\ h = HornClause(i)
    BY <1>2 DEF IInv, SampleInv
  <2>2. \A y \in Point : label[y] = "true" =>
          y \in Known /\ \E m \in Impl : \E i \in program.vc[m] : i.lhs = <<>> /\ i.rhs = y
    BY DEF IInv, SampleInv
  <2>3. \A y \in Point : label[y] = "false" =>
          y \in Known /\ \E m \in Impl : \E i \in program.vc[m] : i.lhs = <<y>> /\ i.rhs = FalseDp
    BY DEF IInv, SampleInv
  <2>4. QED
    BY <1>1, <1>5, <2>1, <2>2, <2>3, Zenon DEF SampleInv
<1>7. Recorded(cur)' /\ \A i : Recorded(i) => Recorded(i)'
  BY <1>2, <1>5 DEF Recorded
<1>8. CheckInv'
  <2>1. \A i \in seen : ~ Holds(i, value)
    BY DEF IInv, CheckInv
  <2>2. CASE OneSided(cur)
    <3>1. \A i \in seen \ {cur} : OneSided(i) /\ ~ IsReal(i) => Recorded(i)
      BY <2>2 DEF IInv, CheckInv
    <3>2. QED
      BY <1>3, <1>7, <2>1, <2>2, <3>1 DEF CheckInv
  <2>3. CASE ~ OneSided(cur)
    <3>1. \A i \in seen : ~ OneSided(i)
      BY <2>3 DEF IInv, CheckInv
    <3>2. Refuted'
      BY <1>1, <1>2, <1>7 DEF Refuted
    <3>3. QED
      BY <1>3, <2>1, <2>3, <3>1, <3>2 DEF CheckInv
  <2>4. QED
    BY <2>2, <2>3
<1>9. EndInv'
  BY <1>3 DEF EndInv
<1>10. ProcessInv' /\ BoundInv'
  <2>1. proc = "idle"
    BY DEF IInv, ProcessInv
  <2>2. ASSUME status = 0
        PROVE  ~ AsksForPositive'
    <3>1. value = Point /\ ~ AsksForPositive
      BY <2>2 DEF IInv, BoundInv, FirstRound
    <3>2. cur.rhs \in Node
      BY <1>2, InstanceType
    <3>3. cur.rhs = FalseDp
      BY <1>2, <3>1, <3>2 DEF Holds, Node
    <3>4. HornClause(cur).head = {}
      BY <3>3 DEF HornClause
    <3>5. Labelled(label, "true")' = Labelled(label, "true")
      BY DEF Labelled
    <3>6. QED
      BY <3>1, <3>4, <3>5 DEF AsksForPositive
  <2>3. QED
    BY <1>1, <1>3, <2>1, <2>2 DEF IInv, ProcessInv, BoundInv, FirstRound
<1>11. VerdictInv'
  BY <1>1, <1>3, ProvedStays DEF IInv, VerdictInv
<1>12. QED
  BY <1>4, <1>5, <1>6, <1>8, <1>9, <1>10, <1>11 DEF IInv

-----------------------------------------------------------------------------
(* The learner's process. *)
LEMMA StartLearnerIInv ==
  ASSUME IInv, StartLearner
  PROVE  IInv'
<1> USE DEF StartLearner
<1>1. UNCHANGED <<program, useBounds, asserts>>
  BY DEF input
<1>2. IndexInv' /\ SampleInv' /\ Hypotheses' = Hypotheses
      /\ (AsksForPositive' <=> AsksForPositive)
  BY <1>1, SampleStays DEF IInv
<1>3. InOrder /\ proc = "idle"
  BY DEF IInv, IndexInv, ProcessInv
<1>4. /\ pc' = "wait" /\ status' = IF status = 0 THEN 1 ELSE 2
      /\ bound' = 1 /\ proc' = IF options.prephase THEN "prephase" ELSE "read"
      /\ UNCHANGED <<options, boundFile, json>>
  BY <1>3 DEF StartProcess
<1>5. Types'
  <2>1. ProcessTypeOK(SUBSET Point)'
    BY <1>4 DEF IInv, Types, ProcessTypeOK
  <2>2. QED
    BY <1>1, <1>4, <2>1, SampleStays DEF IInv, Types
<1>6. CheckInv'
  <2>1. Refuted /\ seen = {}
    BY DEF IInv, CheckInv
  <2>2. QED
    BY <1>1, <1>4, <2>1, RefutedStays DEF CheckInv
<1>7. EndInv'
  BY <1>4 DEF EndInv
<1>8. ProcessInv'
  BY <1>4 DEF ProcessInv
<1>9. BoundInv'
  <2>1. status \in 0 .. 2
    BY DEF IInv, Types, ProcessTypeOK
  <2>2. FirstRound' => ~ AsksForPositive'
    BY <1>2, <1>4, <2>1 DEF IInv, BoundInv, FirstRound
  <2>3. options.bounds /\ status # 0 => boundFile # NoFile
    BY <1>3, <2>1 DEF IInv, BoundInv
  <2>4. QED
    BY <1>4, <2>1, <2>2, <2>3 DEF BoundInv
<1>10. VerdictInv'
  BY <1>1, <1>4, ProvedStays DEF IInv, VerdictInv
<1>11. QED
  BY <1>2, <1>5, <1>6, <1>7, <1>8, <1>9, <1>10 DEF IInv

(* The bound of a process that writes it is a bound. *)
LEMMA WrittenBound ==
  ASSUME Types, WriteBound
  PROVE  /\ boundFile' \in Bounds \cup {NoFile}
         /\ boundFile # NoFile => boundFile' # NoFile
         /\ options.bounds /\ bound = 1 => boundFile' # NoFile
BY DEF Types, ProcessTypeOK, WriteBound, UseBound, Bounds, NoFile

(* A step of the learner's process. *)
LEMMA LearnerStepIInv ==
  ASSUME IInv, LearnerStep
  PROVE  IInv'
<1> USE DEF LearnerStep
<1>1. UNCHANGED <<program, useBounds, asserts>>
  BY DEF input
<1>2. IndexInv' /\ SampleInv' /\ Hypotheses' = Hypotheses
      /\ (AsksForPositive' <=> AsksForPositive)
  BY <1>1, SampleStays DEF IInv
<1>3. /\ ProcessTypeOK(SUBSET Point) /\ BoundInv /\ ProcessInv /\ Types
      /\ status \in {1, 2} /\ Hypotheses \subseteq SUBSET Point
      /\ (status = 1 => ~ AsksForPositive)
  BY DEF IInv, Types, ProcessTypeOK, BoundInv, Hypotheses, On, FirstRound
<1>4. ProcessTypeOK(SUBSET Point)' /\ ProcessInv' /\ BoundInv'
  <2> USE DEF ProcessTypeOK
  <2>1. CASE PrephaseSucceeds(Hypotheses) \/ AttemptSucceeds(Hypotheses)
    <3>1. /\ proc \in {"prephase", "learn"} /\ proc' = "exit" /\ json' \in Hypotheses
          /\ UNCHANGED <<options, status, bound>> /\ WriteBound
      BY <2>1 DEF PrephaseSucceeds, AttemptSucceeds
    <3>2. /\ boundFile' \in Bounds \cup {NoFile}
          /\ boundFile # NoFile => boundFile' # NoFile
          /\ options.bounds /\ bound = 1 => boundFile' # NoFile
      BY <1>3, <3>1, WrittenBound
    <3>3. ProcessTypeOK(SUBSET Point)' /\ ProcessInv'
      BY <1>2, <1>3, <3>1, <3>2 DEF ProcessInv
    <3>4. BoundInv'
      BY <1>2, <1>3, <3>1, <3>2 DEF BoundInv, FirstRound
    <3>5. QED
      BY <3>3, <3>4
  <2>2. CASE PrephaseGivesUp
    <3>1. proc = "prephase" /\ proc' = "read"
          /\ UNCHANGED <<options, status, boundFile, json, bound>>
      BY <2>2 DEF PrephaseGivesUp, files
    <3>2. QED
      BY <1>2, <1>3, <3>1 DEF BoundInv, ProcessInv, FirstRound
  <2>3. CASE ReadBound
    <3>1. proc = "read" /\ bound = 1 /\ UNCHANGED <<options, status, boundFile, json>>
      BY <1>3, <2>3 DEF ReadBound, BoundInv, files
    <3>2. UseBound <=> options.bounds
      BY <3>1 DEF UseBound
    <3>3. \/ (~ options.bounds \/ status = 1) /\ bound' = bound /\ proc' = "learn"
          \/ options.bounds /\ status = 2 /\ boundFile # NoFile /\ bound' = boundFile
             /\ proc' = "learn"
      BY <1>3, <2>3, <3>2 DEF ReadBound, BoundInv
    <3>4. ProcessTypeOK(SUBSET Point)' /\ ProcessInv'
      BY <1>2, <1>3, <3>1, <3>3 DEF ProcessInv, Bounds
    <3>5. BoundInv'
      BY <1>2, <1>3, <3>1, <3>3 DEF BoundInv, FirstRound, Bounds
    <3>6. QED
      BY <3>4, <3>5
  <2>4. CASE AttemptThrows(Hypotheses, AsksForPositive)
    <3>1. /\ proc = "learn" /\ status = 2 /\ UNCHANGED <<options, status, boundFile, json>>
          /\ \/ UseBound /\ bound' = 2 * bound /\ proc' = proc
             \/ Hypotheses = {} /\ bound' = bound /\ proc' = "failed"
      BY <1>3, <2>4 DEF AttemptThrows, Increased, files
    <3>2. ProcessTypeOK(SUBSET Point)' /\ ProcessInv'
      BY <1>2, <1>3, <3>1 DEF ProcessInv, UseBound
    <3>3. BoundInv'
      BY <1>2, <1>3, <3>1 DEF BoundInv, FirstRound, Bounds, NoFile
    <3>4. QED
      BY <3>2, <3>3
  <2>5. QED
    BY <2>1, <2>2, <2>3, <2>4 DEF ProcessStep
<1>5. Types'
  BY <1>1, <1>4, SampleStays DEF IInv, Types
<1>6. CheckInv' /\ EndInv'
  <2>1. Refuted /\ seen = {}
    BY DEF IInv, CheckInv
  <2>2. QED
    BY <1>1, <2>1, RefutedStays DEF CheckInv, EndInv
<1>7. VerdictInv'
  BY <1>1, ProvedStays DEF IInv, VerdictInv
<1>8. QED
  BY <1>2, <1>4, <1>5, <1>6, <1>7 DEF IInv

(* The learner's process has failed. *)
LEMMA LearnerFailedIInv ==
  ASSUME IInv, LearnerFailed
  PROVE  IInv'
<1> USE DEF LearnerFailed
<1>1. UNCHANGED <<program, useBounds, asserts>>
      /\ UNCHANGED <<options, status, boundFile, json, bound, proc>>
  BY DEF input, procVars, files
<1>2. IndexInv' /\ SampleInv' /\ Hypotheses' = Hypotheses
      /\ (AsksForPositive' <=> AsksForPositive)
  BY <1>1, SampleStays DEF IInv
<1>3. Types'
  <2>1. ProcessTypeOK(SUBSET Point)'
    BY <1>1 DEF IInv, Types, ProcessTypeOK
  <2>2. QED
    BY <1>1, <2>1, SampleStays DEF IInv, Types, Ended
<1>4. CheckInv'
  BY DEF CheckInv
<1>5. EndInv' /\ ProcessInv'
  BY <1>1, <1>2 DEF IInv, EndInv, ProcessInv
<1>6. BoundInv'
  BY <1>1, <1>2 DEF IInv, BoundInv, FirstRound
<1>7. VerdictInv'
  BY <1>1, ProvedStays DEF IInv, VerdictInv
<1>8. QED
  BY <1>2, <1>3, <1>4, <1>5, <1>6, <1>7 DEF IInv

(* The new functions: they are not the old ones, because these violate a   *)
(* recorded counterexample, and implementations that mention none of the   *)
(* changed ones are as they were.                                          *)
LEMMA ReadTreeIInv ==
  ASSUME IInv, NEW F \in SUBSET Func, ReadTree(F)
  PROVE  IInv'
<1> USE DEF ReadTree
<1>1. UNCHANGED <<program, useBounds, asserts>>
      /\ UNCHANGED <<options, status, boundFile, json, bound>>
  BY DEF input, files
<1>2. IndexInv' /\ SampleInv' /\ Hypotheses' = Hypotheses
      /\ (AsksForPositive' <=> AsksForPositive)
  BY <1>1, SampleStays DEF IInv
<1>3. json \in Hypotheses /\ json \subseteq Point /\ value \subseteq Point
      /\ Types /\ IndexInv /\ impl \in Impl /\ IsProgram(program) /\ seen = {}
  BY DEF IInv, ProcessInv, Types, ProcessTypeOK, CheckInv
<1>4. F # {}
  <2> SUFFICES ASSUME F = {}
               PROVE  FALSE
    OBVIOUS
  <2>1. On(Func, value) = value /\ On(Func, json) = json
    BY <1>3 DEF On
  <2>2. value = json
    BY <2>1
  <2>3. PICK i \in program.vc[impl] : ~ Holds(i, value) /\ Recorded(i)
    BY DEF IInv, CheckInv, Refuted
  <2>4. QED
    BY <1>3, <2>2, <2>3, RecordedHold
<1>5. pc' = "next" /\ worklist' = worklist \cup Dependents(F)
  BY <1>4
<1>6. Types'
  <2>1. ProcessTypeOK(SUBSET Point)'
    BY <1>1 DEF IInv, Types, ProcessTypeOK
  <2>2. worklist' \subseteq Impl
    BY <1>5, <1>3 DEF IInv, Types, Dependents
  <2>3. QED
    BY <1>1, <1>3, <1>5, <2>1, <2>2, SampleStays DEF IInv, Types
<1>7. CheckInv' /\ EndInv'
  BY <1>3, <1>5 DEF CheckInv, EndInv
<1>8. ProcessInv'
  BY <1>5 DEF ProcessInv
<1>9. BoundInv'
  BY <1>1, <1>2, <1>5 DEF IInv, BoundInv, FirstRound
<1>10. ASSUME ~ unanswered, NEW m \in Impl, m \notin worklist'
       PROVE  Proved(m)'
  <2>1. m \notin worklist /\ m # impl /\ \A f \in F : ~ Assumes(m, f) /\ ~ Asserts(m, f)
    BY <1>5, <1>10 DEF Dependents
  <2>2. Proved(m)
    BY <1>10, <2>1 DEF IInv, VerdictInv
  <2>3. ASSUME NEW i \in program.vc[m], Holds(i, value)
        PROVE  Holds(i, json)
    <3>1. \A x \in PointsOf(i) : FuncOf[x] \notin F
      BY <2>1 DEF Assumes, Asserts, PointsOf
    <3>2. PointsOf(i) \subseteq Point
      BY <1>3, InstanceType
    <3>3. \A x \in PointsOf(i) : FuncOf[x] \in Func \ F
      BY <3>1, <3>2
    <3>4. \A x \in PointsOf(i) : x \in value <=> x \in json
      BY <3>3 DEF On
    <3>5. QED
      BY <1>3, <2>3, <3>4, HoldsOnPoints
  <2>4. QED
    BY <1>1, <2>2, <2>3 DEF Proved, Allowed
<1>11. VerdictInv'
  BY <1>1, <1>10 DEF VerdictInv
<1>12. QED
  BY <1>2, <1>6, <1>7, <1>8, <1>9, <1>11 DEF IInv

(* A step that changes nothing. *)
LEMMA StutterIInv ==
  ASSUME IInv, UNCHANGED vars
  PROVE  IInv'
<1> USE DEF vars
<1>1. UNCHANGED <<program, useBounds, asserts>>
      /\ UNCHANGED <<options, status, boundFile, json, bound, proc>>
  BY DEF input, procVars, files
<1>2. IndexInv' /\ SampleInv' /\ Hypotheses' = Hypotheses
      /\ (AsksForPositive' <=> AsksForPositive) /\ \A i : Recorded(i)' <=> Recorded(i)
  BY <1>1, SampleStays DEF IInv
<1>3. Types'
  <2>1. ProcessTypeOK(SUBSET Point)'
    BY <1>1 DEF IInv, Types, ProcessTypeOK
  <2>2. QED
    BY <1>1, <2>1, SampleStays DEF IInv, Types
<1>4. CheckInv'
  <2>1. (Refuted' <=> Refuted) /\ Known' = Known /\ InLeft' = InLeft
    BY <1>1, RefutedStays, SampleStays DEF Known, InLeft
  <2>2. QED
    BY <1>1, <1>2, <2>1 DEF IInv, CheckInv
<1>5. EndInv' /\ ProcessInv'
  <2>1. Clash' <=> Clash
    BY <1>1 DEF Clash
  <2>2. QED
    BY <1>1, <1>2, <2>1 DEF IInv, EndInv, ProcessInv
<1>6. BoundInv'
  BY <1>1, <1>2 DEF IInv, BoundInv, FirstRound
<1>7. VerdictInv'
  BY <1>1, ProvedStays DEF IInv, VerdictInv
<1>8. QED
  BY <1>2, <1>3, <1>4, <1>5, <1>6, <1>7 DEF IInv

-----------------------------------------------------------------------------
(* Every step preserves the invariant. *)
LEMMA Inductive == IInv /\ [Next]_vars => IInv'
<1> SUFFICES ASSUME IInv, [Next]_vars
             PROVE  IInv'
  OBVIOUS
<1>1. CASE \E m \in worklist : TakeImpl(m)
  BY <1>1, TakeImplIInv
<1>2. CASE Verified
  BY <1>2, VerifiedIInv
<1>3. CASE CheckValid
  <2>1. unanswered' \in BOOLEAN /\ (unanswered' <=> unanswered)
    BY <1>3, Zenon DEF CheckValid, IInv, Types
  <2>2. QED
    BY <1>3, <2>1, NextCheckIInv DEF CheckValid
<1>4. CASE CheckUndetermined
  <2>1. unanswered' \in BOOLEAN /\ unanswered'
    BY <1>4, Zenon DEF CheckUndetermined
  <2>2. QED
    BY <1>4, <2>1, NextCheckIInv DEF CheckUndetermined
<1>5. CASE CheckTimesOut
  BY <1>5, CheckTimesOutIInv
<1>6. CASE \E i \in Violated : Counterexample(i)
  BY <1>6, CounterexampleIInv
<1>7. CASE EndCheck
  BY <1>7, EndCheckIInv
<1>8. CASE \E i \in seen : AddImplication(i)
  BY <1>8, AddImplicationIInv
<1>9. CASE EndImplications
  BY <1>9, EndImplicationsIInv
<1>10. CASE Register
  BY <1>10, RegisterIInv
<1>11. CASE AddPositive
  BY <1>11, LabelIInv DEF AddPositive
<1>12. CASE AddNegative
  BY <1>12, LabelIInv DEF AddNegative
<1>13. CASE AddClause
  BY <1>13, AddClauseIInv
<1>14. CASE StartLearner
  BY <1>14, StartLearnerIInv
<1>15. CASE LearnerStep
  BY <1>15, LearnerStepIInv
<1>16. CASE LearnerFailed
  BY <1>16, LearnerFailedIInv
<1>17. CASE \E F \in SUBSET Func : ReadTree(F)
  BY <1>17, ReadTreeIInv
<1>18. CASE UNCHANGED vars
  BY <1>18, StutterIInv
<1>19. CASE ModelMissing
  BY <1>19, ModelMissingIInv
<1>20. QED
  BY <1>1, <1>2, <1>3, <1>4, <1>5, <1>6, <1>7, <1>8, <1>9, <1>10, <1>11, <1>12, <1>13,
     <1>14, <1>15, <1>16, <1>17, <1>18, <1>19 DEF Next

(* The inductive invariant holds throughout LearnInv and the processes it  *)
(* starts.                                                                 *)
THEOREM Invariant == Spec => []IInv
<1>1. QED
  BY InitIInv, Inductive, PTL DEF Spec

(* The variables keep their types, and the Horn file of MLHoudini only has *)
(* indices of the data file.                                               *)
THEOREM TypeCorrect == Spec => []TypeOK
<1>1. ASSUME IInv
      PROVE  TypeOK
  <2>1. Types /\ IndexInv /\ SampleInv
    BY <1>1 DEF IInv
  <2>2. ASSUME NEW h \in horn
        PROVE  h \in [body : SUBSET (0 .. nextIndex - 1), head : SUBSET (0 .. nextIndex - 1)]
    <3>1. \E m \in Impl : \E i \in program.vc[m] :
            PointsOf(i) \subseteq Known /\ h = HornClause(i)
      BY <2>1 DEF SampleInv
    <3>2. QED
      BY <2>1, <3>1, ClausePoints
  <2>3. QED
    BY <2>1, <2>2 DEF TypeOK
<1>2. QED
  BY Invariant, <1>1, PTL

(* "The program was verified" is only reported if the conditions of all    *)
(* implementations hold for the final functions, if the prover has         *)
(* answered all checks: no implementation is missed in LearnInv's list.    *)
THEOREM VerdictRight == Spec => []VerifiedIsInductive
<1>1. IInv => VerifiedIsInductive
  BY DEF IInv, EndInv, VerdictInv, VerifiedIsInductive
<1>2. QED
  BY Invariant, <1>1, PTL

(* learn always returns with a changed function. *)
THEOREM EveryRoundChanges == Spec => []LearnChangesFunctions
<1>1. IInv => LearnChangesFunctions
  BY DEF IInv, EndInv, LearnChangesFunctions
<1>2. QED
  BY Invariant, <1>1, PTL

(* An error, a failed assertion and a failed learner all mean that the     *)
(* program cannot be made correct.                                         *)
THEOREM RefusesRightly == Spec => []RefusesOnlyIncorrect
<1>1. ASSUME IInv, NEW T \in SUBSET Point, Correct(T)
      PROVE  pc \notin {"invalid", "aborted", "learnererror"}
  <2>1. \A m \in Impl : \A i \in program.vc[m] : Holds(i, T)
    BY <1>1 DEF Correct
  <2>2. Types /\ IndexInv /\ SampleInv /\ EndInv /\ impl \in Impl /\ IsProgram(program)
    BY <1>1 DEF IInv, Types
  <2>3. ASSUME pc = "invalid"
        PROVE  FALSE
    <3>1. PICK i \in program.vc[impl] : IsReal(i)
      BY <2>2, <2>3 DEF EndInv
    <3>2. PremisesOf(i) = {} /\ i.rhs \notin T
      BY <3>1 DEF IsReal, PremisesOf
    <3>3. QED
      BY <2>1, <2>2, <3>2 DEF Holds
  <2>4. ASSUME pc = "aborted"
        PROVE  FALSE
    <3>1. PICK m \in Impl, n \in Impl : \E i \in program.vc[m], j \in program.vc[n] :
            i.lhs = <<>> /\ i.rhs # FalseDp /\ j.lhs = <<i.rhs>> /\ j.rhs = FalseDp
      BY <2>2, <2>4 DEF EndInv, Clash
    <3>2. PICK i \in program.vc[m], j \in program.vc[n] :
            i.lhs = <<>> /\ i.rhs # FalseDp /\ j.lhs = <<i.rhs>> /\ j.rhs = FalseDp
      BY <3>1
    <3>3. i.rhs \in T
      BY <2>1, <3>2 DEF Holds, PremisesOf
    <3>4. PremisesOf(j) \subseteq {i.rhs}
      BY <3>2 DEF PremisesOf
    <3>5. QED
      BY <2>1, <3>2, <3>3, <3>4 DEF Holds
  <2>5. ASSUME pc = "learnererror"
        PROVE  FALSE
    BY <1>1, <2>2, <2>5, CorrectIsHypothesis DEF EndInv
  <2>6. QED
    BY <2>3, <2>4, <2>5
<1>2. IInv => RefusesOnlyIncorrect
  BY <1>1 DEF RefusesOnlyIncorrect
<1>3. QED
  BY Invariant, <1>2, PTL

(* The data file is in the order of the indices, and a clause of the Horn  *)
(* file is a counterexample of the program.                                *)
THEOREM FilesRight == Spec => []FilesAreFaithful
<1>1. ASSUME IInv, NEW h \in horn
      PROVE  \E m \in Impl : \E i \in program.vc[m] :
               /\ {At(k) : k \in h.body} = PremisesOf(i)
               /\ {At(k) : k \in h.head} = {i.rhs} \ {FalseDp}
  <2>1. PICK m \in Impl : \E i \in program.vc[m] :
          PointsOf(i) \subseteq Known /\ h = HornClause(i)
    BY <1>1 DEF IInv, SampleInv
  <2>2. PICK i \in program.vc[m] : PointsOf(i) \subseteq Known /\ h = HornClause(i)
    BY <2>1
  <2>3. /\ {At(k) : k \in h.body} = PremisesOf(i)
        /\ {At(k) : k \in h.head} = {i.rhs} \ {FalseDp}
    BY <1>1, <2>2, ClausePoints DEF IInv
  <2>4. QED
    BY <2>3
<1>2. IInv => FilesAreFaithful
  <2>1. IInv => pc # "disorder"
    BY DEF IInv, EndInv
  <2>2. QED
    BY <1>1, <2>1, Zenon DEF FilesAreFaithful
<1>3. QED
  BY Invariant, <1>2, PTL

(* No process of a later round reads a ".bound" file that is not there:    *)
(* the first round of every program leaves one.                            *)
THEOREM BoundFileThere == Spec => []BoundFileIsThere
<1>1. IInv => BoundFileIsThere
  BY DEF IInv, BoundInv, BoundFileIsThere, UseBound
<1>2. QED
  BY Invariant, <1>1, PTL

(* Without pre-phase, bounds carry over from round to round. *)
THEOREM BoundsCarryOver == Spec => BoundNeverFalls
<1>1. ASSUME IInv, [Next]_vars, ~ options.prephase, status > 1
      PROVE  boundFile' >= boundFile
  <2>1. boundFile \in Nat /\ bound \in Nat
    BY <1>1 DEF IInv, Types, ProcessTypeOK, Bounds, NoFile
  <2>2. CASE UNCHANGED boundFile
    BY <2>1, <2>2
  <2>3. CASE AttemptSucceeds(Hypotheses) \/ PrephaseSucceeds(Hypotheses)
    <3>1. proc = "learn"
      BY <1>1, <2>3 DEF IInv, BoundInv, AttemptSucceeds, PrephaseSucceeds
    <3>2. options.bounds => bound >= boundFile
      BY <1>1, <3>1 DEF IInv, BoundInv
    <3>3. boundFile' = IF UseBound THEN bound ELSE boundFile
      BY <2>3 DEF AttemptSucceeds, PrephaseSucceeds, WriteBound
    <3>4. QED
      BY <2>1, <3>2, <3>3 DEF UseBound
  <2>4. UNCHANGED boundFile
          \/ AttemptSucceeds(Hypotheses) \/ PrephaseSucceeds(Hypotheses)
    <3>1. CASE UNCHANGED procVars
      BY <3>1 DEF procVars, files
    <3>2. CASE StartLearner
      BY <3>2 DEF StartLearner, StartProcess, procVars, files
    <3>3. CASE LearnerStep
      BY <3>3 DEF LearnerStep, ProcessStep, PrephaseGivesUp, ReadBound, AttemptThrows, files
    <3>4. CASE \E F \in SUBSET Func : ReadTree(F)
      BY <3>4 DEF ReadTree, files
    <3>5. QED
      BY <1>1, <3>1, <3>2, <3>3, <3>4
      DEF Next, vars, TakeImpl, Verified, CheckValid, CheckUndetermined, CheckTimesOut,
          ModelMissing, Counterexample, EndCheck, AddImplication, EndImplications, Register, AddPositive,
          AddNegative, AddClause, LearnerFailed
  <2>5. QED
    BY <2>2, <2>3, <2>4
<1>2. IInv /\ [Next]_vars => (~ options.prephase /\ status > 1 => boundFile' >= boundFile)
  BY <1>1
<1>3. QED
  BY Invariant, <1>2, PTL DEF Spec, BoundNeverFalls
=============================================================================
