---------------------------- MODULE BoogieTeacher ----------------------------
(***************************************************************************)
(* The teacher for Boogie programs (MLHoudini): the worklist of LearnInv,  *)
(* the checks of a verification condition with growing bounds on integers, *)
(* the counterexamples a check returns and the sample they are recorded    *)
(* in, and the learner's process, which runs between two of its steps.     *)
(*                                                                         *)
(* A data point is an existential function applied to values.  The         *)
(* verification condition of an implementation is given by its instances:  *)
(* along a path and for values of the variables, the calls that are        *)
(* assumed and the call that is asserted.  An assume or assert command     *)
(* with an existential function consists of the call.  The functions       *)
(* together are true of a set of points; they are compared as expressions. *)
(***************************************************************************)
EXTENDS HornProblem, LearnerProcess, Sequences, FiniteSets

CONSTANTS
  Impl,       \* the implementations (at least one)
  Func,       \* the existential functions
  FuncOf,     \* the function of each data point
  NumBounds,  \* the length of bounds4cex if counterexamples are bounded
  CCLimit,    \* ProverCCLimit: counterexamples per check
  Programs    \* the programs a behaviour may be about

Instances ==
  [lhs : Seq(Point), rhs : Node, level : 0 .. NumBounds + 1]

(* A program: the instances of each implementation, those with integers    *)
(* among the arguments of the functions, and the priorities.  The level of *)
(* an instance is the first check whose bound allows its values; values    *)
(* beyond the last bound, 1000000, have level NumBounds + 1.               *)
IsProgram(p) ==
  /\ p.vc \in [Impl -> SUBSET Instances]
  /\ p.ints \subseteq Impl
  /\ p.priority \in [Impl -> Nat]
  /\ \A m, n \in Impl : p.priority[m] = p.priority[n] => m = n
  /\ \A m \in Impl \ p.ints : \A i \in p.vc[m] : i.level = 0

ASSUME ImplAssumption == Impl # {}
ASSUME FuncAssumption == FuncOf \in [Point -> Func]
ASSUME NumBoundsAssumption == NumBounds \in Nat
ASSUME CCLimitAssumption == CCLimit \in Nat \ {0}
ASSUME ProgramsAssumption == \A p \in Programs : IsProgram(p)

VARIABLES
  program,    \* impl2VC, impl2FuncCalls, impl2Priority
  useBounds,  \* useBounds
  asserts,    \* Debug.Assert ends the program
  value,      \* function2Value
  worklist,   \* worklist
  impl,       \* impl
  check,      \* i, the check of the loop over bounds4cex
  seen,       \* the counterexamples of the check, or those that are left to record
  cur,        \* the counterexample RecordCexForC5 works on
  left,       \* its points that have not been looked up
  points,     \* the keys of c5samplePointToClassAttr, as they are enumerated
  index,      \* c5samplePointToIndex
  nextIndex,  \* c5DataPointsIndex
  label,      \* c5samplePointToClassAttr
  horn,       \* hornClauses
  unanswered, \* the prover has answered a check neither "sat" nor "unsat"
  pc          \* where the teacher is

input  == <<program, useBounds, asserts>>
sample == <<points, index, nextIndex, label, horn>>
vars == <<input, value, worklist, impl, check, seen, cur, left, sample, unanswered, pc,
          procVars>>

-----------------------------------------------------------------------------
PremisesOf(i) == {i.lhs[k] : k \in DOMAIN i.lhs}

PointsOf(i)   == PremisesOf(i) \cup ({i.rhs} \ {FalseDp})

Holds(i, T) == PremisesOf(i) \subseteq T => i.rhs \in T

IsReal(i)   == i.lhs = <<>> /\ i.rhs = FalseDp
OneSided(i) == i.lhs = <<>> \/ i.rhs = FalseDp

LastCheck == IF useBounds /\ impl \in program.ints THEN NumBounds ELSE 0

(* The instances that check k allows: with bounds on the integers, or all. *)
Allowed(m, k) == {i \in program.vc[m] : useBounds => i.level <= k}

Violated == {i \in Allowed(impl, check) : ~ Holds(i, value)}

(* function2implAssumed and function2implAsserted. *)
Assumes(m, f) == \E i \in program.vc[m] : \E x \in PremisesOf(i) : FuncOf[x] = f
Asserts(m, f) == \E i \in program.vc[m] : i.rhs # FalseDp /\ FuncOf[i.rhs] = f

On(F, T) == {x \in T : FuncOf[x] \in F}

(* indexes2horn_constraints: an index is a position in the data file. *)
At(k) == points[k + 1]

Known == {points[k] : k \in 1 .. Len(points)}

Sampled == {FuncOf[x] : x \in Known}

(* What the trees that are consistent with the files are true of.  A       *)
(* function without data point has no subtree, which is read as "false".   *)
Hypotheses ==
  {T \in SUBSET On(Sampled, Point) :
     /\ Labelled(label, "true") \subseteq T
     /\ Labelled(label, "false") \cap T = {}
     /\ \A h \in horn : (\A k \in h.body : At(k) \in T)
                          => h.head # {} /\ \A k \in h.head : At(k) \in T}

AsksForPositive ==
  Labelled(label, "true") # {} \/ \E h \in horn : h.head # {}

Init ==
  /\ program \in Programs
  /\ useBounds \in BOOLEAN
  /\ asserts \in BOOLEAN
  /\ value = Point
  /\ worklist = Impl
  /\ impl = (CHOOSE m \in Impl : TRUE) /\ check = 0 /\ seen = {}
  /\ cur = [lhs |-> <<>>, rhs |-> FalseDp, level |-> 0] /\ left = <<>>
  /\ points = <<>> /\ index = <<>> /\ nextIndex = 0
  /\ label = [x \in Point |-> "none"]
  /\ horn = {}
  /\ unanswered = FALSE
  /\ pc = "next"
  /\ ProcessInit

-----------------------------------------------------------------------------
(* The implementation of the least priority. *)
TakeImpl(m) ==
  /\ pc = "next"
  /\ m \in worklist
  /\ \A n \in worklist : program.priority[m] <= program.priority[n]
  /\ worklist' = worklist \ {m}
  /\ impl' = m
  /\ check' = 0
  /\ pc' = "check"
  /\ UNCHANGED <<input, value, seen, cur, left, sample, unanswered, procVars>>

(* "The program was verified" *)
Verified ==
  /\ pc = "next"
  /\ worklist = {}
  /\ pc' = "verified"
  /\ UNCHANGED <<input, value, worklist, impl, check, seen, cur, left, sample,
                 unanswered, procVars>>

(* VCisValid: on to the next bound, or to the next implementation. *)
NextCheck ==
  IF check < LastCheck
  THEN check' = check + 1 /\ pc' = "check"
  ELSE check' = check /\ pc' = "next"

CheckValid ==
  /\ pc = "check"
  /\ seen = {} /\ Violated = {}
  /\ NextCheck
  /\ UNCHANGED <<input, value, worklist, impl, seen, cur, left, sample, unanswered, procVars>>

(* Outcome.Undetermined, after an error of the prover: no counterexample   *)
(* has been handled, and the condition counts as valid.                    *)
CheckUndetermined ==
  /\ pc = "check"
  /\ seen = {}
  /\ unanswered' = TRUE
  /\ NextCheck
  /\ UNCHANGED <<input, value, worklist, impl, seen, cur, left, sample, procVars>>

(* Outcome.TimeOut or Outcome.OutOfMemory as the first answer.  After a    *)
(* counterexample the first outcome stays, and the check ends with what it *)
(* has (EndCheck).                                                         *)
CheckTimesOut ==
  /\ pc = "check"
  /\ seen = {}
  /\ pc' = "timeout"
  /\ UNCHANGED <<input, value, worklist, impl, check, seen, cur, left, sample,
                 unanswered, procVars>>

(* The same as any answer, but with the labels of a path: the handler gets *)
(* no model, and the points of the path cannot be read from it.            *)
ModelMissing ==
  /\ pc = "check"
  /\ Cardinality(seen) < CCLimit
  /\ pc' = "crashed"
  /\ UNCHANGED <<input, value, worklist, impl, check, seen, cur, left, sample,
                 unanswered, procVars>>

Record(i) ==
  /\ cur' = i
  /\ left' = IF i.rhs = FalseDp THEN i.lhs ELSE Append(i.lhs, i.rhs)
  /\ pc' = "record"

(* HandleCounterExample.  One with an empty side is recorded at once, the  *)
(* others are kept for the end of the check.                               *)
Counterexample(i) ==
  /\ pc = "check"
  /\ i \in Violated \ seen
  /\ Cardinality(seen) < CCLimit
  /\ seen' = seen \cup {i}
  /\ IF OneSided(i) /\ ~ IsReal(i)
     THEN Record(i)
     ELSE UNCHANGED <<cur, left, pc>>
  /\ UNCHANGED <<input, value, worklist, impl, check, sample, unanswered, procVars>>

(* Mutant: implications are dropped whenever there is a positive or        *)
(* negative counterexample, and otherwise, too.                            *)
DropImplications ==
  /\ pc = "check"
  /\ seen # {}
  /\ pc' = IF \E i \in seen : IsReal(i) THEN "invalid" ELSE "learn"
  /\ seen' = {}
  /\ UNCHANGED <<input, value, worklist, impl, check, cur, left, sample, unanswered, procVars>>

(* The check has returned its counterexamples: as many as it may, or all   *)
(* the prover finds.  Implications are recorded if there is nothing else.  *)
EndCheck ==
  /\ pc = "check"
  /\ seen # {}
  /\ IF \E i \in seen : IsReal(i)
     THEN pc' = "invalid" /\ seen' = seen
     ELSE IF \E i \in seen : OneSided(i)
          THEN pc' = "learn" /\ seen' = {}
          ELSE pc' = "implications" /\ seen' = seen
  /\ UNCHANGED <<input, value, worklist, impl, check, cur, left, sample, unanswered, procVars>>

AddImplication(i) ==
  /\ pc = "implications"
  /\ i \in seen
  /\ seen' = seen \ {i}
  /\ Record(i)
  /\ UNCHANGED <<input, value, worklist, impl, check, sample, unanswered, procVars>>

EndImplications ==
  /\ pc = "implications"
  /\ seen = {}
  /\ pc' = "learn"
  /\ UNCHANGED <<input, value, worklist, impl, check, seen, cur, left, sample,
                 unanswered, procVars>>

-----------------------------------------------------------------------------
(* RecordCexForC5 *)

(* Mutant: a point is added without looking it up. *)
RegisterAlways ==
  /\ pc = "record" /\ left # <<>>
  /\ LET x == Head(left)
     IN  /\ points' = Append(points, x)
         /\ index' = [y \in DOMAIN index \cup {x} |-> IF y = x THEN nextIndex ELSE index[y]]
         /\ nextIndex' = nextIndex + 1
  /\ left' = Tail(left)
  /\ UNCHANGED <<input, value, worklist, impl, check, seen, cur, label, horn, unanswered,
                 pc, procVars>>

(* A point that is not known gets the next index. *)
Register ==
  /\ pc = "record" /\ left # <<>>
  /\ LET x == Head(left)
     IN  IF x \in DOMAIN index
         THEN UNCHANGED <<points, index, nextIndex>>
         ELSE /\ points' = Append(points, x)
              /\ index' = [y \in DOMAIN index \cup {x} |-> IF y = x THEN nextIndex ELSE index[y]]
              /\ nextIndex' = nextIndex + 1
  /\ left' = Tail(left)
  /\ UNCHANGED <<input, value, worklist, impl, check, seen, cur, label, horn, unanswered,
                 pc, procVars>>

IsPositive(i) == i.lhs = <<>> /\ i.rhs # FalseDp
IsNegative(i) == Len(i.lhs) = 1 /\ i.rhs = FalseDp

(* A point with the other label fails an assertion; where assertions do    *)
(* nothing the label is overwritten.                                       *)
SetLabel(x, v) ==
  IF asserts /\ label[x] \notin {"none", v}
  THEN label' = label /\ pc' = "aborted"
  ELSE label' = [label EXCEPT ![x] = v] /\ pc' = "check"

AddPositive ==
  /\ pc = "record" /\ left = <<>>
  /\ IsPositive(cur)
  /\ SetLabel(cur.rhs, "true")
  /\ UNCHANGED <<input, value, worklist, impl, check, seen, cur, left, points, index,
                 nextIndex, horn, unanswered, procVars>>

AddNegative ==
  /\ pc = "record" /\ left = <<>>
  /\ IsNegative(cur)
  /\ SetLabel(cur.lhs[1], "false")
  /\ UNCHANGED <<input, value, worklist, impl, check, seen, cur, left, points, index,
                 nextIndex, horn, unanswered, procVars>>

(* Mutant: the conclusion is lost. *)
PremisesOnly(i) == [body |-> {index[x] : x \in PremisesOf(i)}, head |-> {}]

HornClause(i) ==
  [body |-> {index[x] : x \in PremisesOf(i)},
   head |-> {index[x] : x \in {i.rhs} \ {FalseDp}}]

(* Back to the check, or to the implications that are left. *)
AddClause ==
  /\ pc = "record" /\ left = <<>>
  /\ ~ IsPositive(cur) /\ ~ IsNegative(cur)
  /\ horn' = horn \cup {HornClause(cur)}
  /\ pc' = IF OneSided(cur) THEN "check" ELSE "implications"
  /\ UNCHANGED <<input, value, worklist, impl, check, seen, cur, left, points, index,
                 nextIndex, label, unanswered, procVars>>

-----------------------------------------------------------------------------
(* GenerateDataFile compares the order of the points with their indices. *)
InOrder == \A k \in 1 .. Len(points) : index[points[k]] = k - 1

(* learn, up to Process.Start. *)
StartLearner ==
  /\ pc = "learn"
  /\ IF InOrder
     THEN pc' = "wait" /\ StartProcess
     ELSE pc' = "disorder" /\ UNCHANGED procVars
  /\ UNCHANGED <<input, value, worklist, impl, check, seen, cur, left, sample, unanswered>>

LearnerStep ==
  /\ pc = "wait"
  /\ ProcessStep(Hypotheses, AsksForPositive)
  /\ UNCHANGED <<input, value, worklist, impl, check, seen, cur, left, sample, unanswered, pc>>

(* "The learner seems to have run into an error!" *)
LearnerFailed ==
  /\ pc = "wait"
  /\ proc = "failed"
  /\ pc' = "learnererror"
  /\ UNCHANGED <<input, value, worklist, impl, check, seen, cur, left, sample, unanswered,
                 procVars>>

(* Mutant: only implementations that assume a changed function are checked *)
(* again.                                                                  *)
DependentsByAssume(F) == {impl} \cup {m \in Impl : \E f \in F : Assumes(m, f)}

Dependents(F) == {impl} \cup {m \in Impl : \E f \in F : Assumes(m, f) \/ Asserts(m, f)}

(* The rest of learn, and what LearnInv does with its result: the          *)
(* functions whose expression has changed.                                 *)
ReadTree(F) ==
  /\ pc = "wait"
  /\ proc = "exit"
  /\ On(Func \ F, value) = On(Func \ F, json)
  /\ value' = json
  /\ worklist' = IF F = {} THEN worklist ELSE worklist \cup Dependents(F)
  /\ pc' = IF F = {} THEN "nochange" ELSE "next"
  /\ proc' = "idle"
  /\ UNCHANGED <<input, impl, check, seen, cur, left, sample, unanswered,
                 options, files, bound>>

-----------------------------------------------------------------------------
Next ==
  \/ \E m \in worklist : TakeImpl(m)
  \/ Verified
  \/ CheckValid
  \/ CheckUndetermined
  \/ CheckTimesOut
  \/ ModelMissing
  \/ \E i \in Violated : Counterexample(i)
  \/ EndCheck
  \/ \E i \in seen : AddImplication(i)
  \/ EndImplications
  \/ Register
  \/ AddPositive
  \/ AddNegative
  \/ AddClause
  \/ StartLearner
  \/ LearnerStep
  \/ LearnerFailed
  \/ \E F \in SUBSET Func : ReadTree(F)

(* Teacher and learner are sequential programs that wait for each other,   *)
(* and the prover returns.                                                 *)
Spec == Init /\ [][Next]_vars /\ WF_vars(Next)

-----------------------------------------------------------------------------
Ended == {"verified", "invalid", "timeout", "crashed", "aborted", "disorder", "learnererror",
          "nochange"}

Types ==
  /\ IsProgram(program)
  /\ useBounds \in BOOLEAN /\ asserts \in BOOLEAN
  /\ value \subseteq Point
  /\ worklist \subseteq Impl /\ impl \in Impl
  /\ check \in 0 .. NumBounds
  /\ seen \subseteq program.vc[impl]
  /\ pc = "record" => cur \in program.vc[impl]
  /\ left \in Seq(Point)
  /\ points \in Seq(Point)
  /\ index \in [DOMAIN index -> Nat] /\ DOMAIN index \subseteq Point
  /\ nextIndex \in Nat
  /\ label \in [Point -> Label]
  /\ unanswered \in BOOLEAN
  /\ pc \in {"next", "check", "implications", "record", "learn", "wait"} \cup Ended
  /\ ProcessTypeOK(SUBSET Point)

(* Types, and: the indices of the clauses are those of the data file. *)
TypeOK ==
  /\ Types
  /\ horn \subseteq [body : SUBSET (0 .. nextIndex - 1), head : SUBSET (0 .. nextIndex - 1)]

(* What the last check of an implementation allows holds of its functions. *)
Proved(m) ==
  \A i \in Allowed(m, IF useBounds /\ m \in program.ints THEN NumBounds ELSE 0) :
    Holds(i, value)

(* "The program was verified": every verification condition holds for the  *)
(* functions at the end, for all values within the last bound, although an *)
(* implementation is only checked again when a function it mentions has    *)
(* changed - provided that the prover has answered every check.            *)
VerifiedIsInductive ==
  pc = "verified" /\ ~ unanswered => \A m \in Impl : Proved(m)

(* "The program was verified", whatever the prover has answered. *)
VerifiedAlways == pc = "verified" => \A m \in Impl : Proved(m)

(* learn never reports that no function has changed: the counterexamples   *)
(* of the check are in the sample, so that the functions they refute       *)
(* cannot come back.                                                       *)
LearnChangesFunctions == pc # "nochange"

Correct(T) == \A m \in Impl : \A i \in program.vc[m] : Holds(i, T)

(* The teacher reports an error, fails an assertion or loses the learner   *)
(* only if no functions make the program correct.                          *)
RefusesOnlyIncorrect ==
  pc \in {"invalid", "aborted", "learnererror"} => \A T \in SUBSET Point : ~ Correct(T)

(* "Detected incorrect order of data points in data file" never happens,   *)
(* and the indices in the Horn file lead the learner to the points of a    *)
(* counterexample that the program has.                                    *)
FilesAreFaithful ==
  /\ pc # "disorder"
  /\ \A h \in horn : \E m \in Impl : \E i \in program.vc[m] :
       /\ {At(k) : k \in h.body} = PremisesOf(i)
       /\ {At(k) : k \in h.head} = {i.rhs} \ {FalseDp}

(* The file ".bound" is there whenever a process reads it.  A process      *)
(* writes it only if it succeeds within the bounds; the first one does,    *)
(* because functions that are "true" have no positive counterexample.      *)
BoundFileIsThere ==
  proc = "read" /\ UseBound /\ status > 1 => boundFile # NoFile

(* Without pre-phase the bound of a program never falls: no round begins   *)
(* with a bound below that of the round before.                            *)
BoundNeverFalls ==
  [][~ options.prephase /\ status > 1 => boundFile' >= boundFile]_vars

Clash ==
  \E m, n \in Impl : \E i \in program.vc[m], j \in program.vc[n] :
    i.lhs = <<>> /\ i.rhs # FalseDp /\ j.lhs = <<i.rhs>> /\ j.rhs = FalseDp

(* The teacher ends if there are finitely many data points: each round     *)
(* adds to the sample.  The exception is a point with a positive and a     *)
(* negative counterexample where assertions do nothing: its label is       *)
(* overwritten for ever.                                                   *)
Terminates == (asserts \/ ~ Clash) => <>(pc \in Ended)

(* "if there is no consistent conjecture", learn fails and the teacher     *)
(* ends: a program that no functions make correct is not worked on for     *)
(* ever, in a release build either.                                        *)
EndsIfInconsistent == (\A T \in SUBSET Point : ~ Correct(T)) => <>(pc \in Ended)

-----------------------------------------------------------------------------
(* What the proofs rest on. *)

(* The points are in the order of their indices. *)
IndexInv ==
  /\ nextIndex = Len(points)
  /\ DOMAIN index = Known
  /\ InOrder

(* Labels and clauses come from the program. *)
SampleInv ==
  /\ \A x \in Point : label[x] = "true" =>
       x \in Known /\ \E m \in Impl : \E i \in program.vc[m] : i.lhs = <<>> /\ i.rhs = x
  /\ \A x \in Point : label[x] = "false" =>
       x \in Known /\ \E m \in Impl : \E i \in program.vc[m] : i.lhs = <<x>> /\ i.rhs = FalseDp
  /\ \A h \in horn : \E m \in Impl : \E i \in program.vc[m] :
       PointsOf(i) \subseteq Known /\ h = HornClause(i)

(* A counterexample is in the sample. *)
Recorded(i) ==
  IF IsPositive(i) THEN label[i.rhs] = "true"
  ELSE IF IsNegative(i) THEN label[i.lhs[1]] = "false"
  ELSE ~ IsReal(i) /\ PointsOf(i) \subseteq Known /\ HornClause(i) \in horn

(* An instance that the functions violate and that is in the sample. *)
Refuted == \E i \in program.vc[impl] : ~ Holds(i, value) /\ Recorded(i)

InLeft == {left[k] : k \in 1 .. Len(left)}

(* What has become of the counterexamples of the check. *)
CheckInv ==
  /\ pc \in {"next", "learn", "wait"} => seen = {}
  /\ pc \in {"check", "record", "implications"} => \A i \in seen : ~ Holds(i, value)
  /\ pc = "check" => \A i \in seen : OneSided(i) /\ ~ IsReal(i) => Recorded(i)
  /\ pc = "record" =>
       /\ ~ Holds(cur, value) /\ ~ IsReal(cur)
       /\ PointsOf(cur) \subseteq Known \cup InLeft
       /\ OneSided(cur) =>
            cur \in seen /\ \A i \in seen \ {cur} : OneSided(i) /\ ~ IsReal(i) => Recorded(i)
       /\ ~ OneSided(cur) => \A i \in seen : ~ OneSided(i)
  /\ pc = "implications" => (\A i \in seen : ~ OneSided(i)) /\ (seen # {} \/ Refuted)
  /\ pc \in {"learn", "wait"} => Refuted

(* How the teacher may have ended. *)
EndInv ==
  /\ pc = "invalid" => \E i \in program.vc[impl] : IsReal(i)
  /\ pc = "aborted" => Clash
  /\ pc = "learnererror" => Hypotheses = {}
  /\ pc = "verified" => worklist = {}
  /\ pc \notin {"disorder", "nochange"}

(* The learner's process answers to the files it was started with. *)
ProcessInv ==
  /\ proc = "idle" <=> pc \notin {"wait", "learnererror"}
  /\ proc = "exit" => json \in Hypotheses
  /\ proc = "failed" => Hypotheses = {}

(* The first process has no positive point to find, so that it succeeds    *)
(* with the first bound; a later one goes on from the bound in the file.   *)
FirstRound == status = 0 \/ (status = 1 /\ pc = "wait")

BoundInv ==
  /\ FirstRound => ~ AsksForPositive
  /\ status = 0 => value = Point /\ pc # "wait"
  /\ status = 1 /\ proc \in {"prephase", "read", "learn"} => bound = 1
  /\ options.bounds /\ (status > 1 \/ (status = 1 /\ proc \in {"idle", "exit"}))
       => boundFile # NoFile
  /\ proc = "prephase" => options.prephase
  /\ proc \in {"prephase", "read"} => bound = 1
  /\ options.bounds /\ status > 1 /\ proc = "learn" => bound >= boundFile

(* Implementations that are not to be checked again are proved. *)
VerdictInv ==
  ~ unanswered => \A m \in Impl \ worklist :
                    m # impl \/ pc \in {"next", "verified"} => Proved(m)

(* The inductive invariant. *)
IInv ==
  /\ Types /\ IndexInv /\ SampleInv /\ CheckInv /\ EndInv /\ ProcessInv /\ BoundInv /\ VerdictInv
=============================================================================
