----------------------------- MODULE HornSolver -----------------------------
(***************************************************************************)
(* horn_solver::solve of hice-dt: unit propagation over a stack of newly   *)
(* classified data points, with "markings" to find the points whose truth  *)
(* would make a point that must be false true.                             *)
(*                                                                         *)
(* One solver object serves a sequence of calls (the job manager keeps it  *)
(* as _horn_solver), on one sample and one set of constraints.             *)
(***************************************************************************)
EXTENDS HornProblem, Naturals, Sequences

CONSTANTS
  NumClauses,   \* number of Horn constraints of the sample
  Problems      \* the constraint systems a behaviour may be about, each with
                \* the labels of the points before the first call

Clause == 1 .. NumClauses

ASSUME NumClausesAssumption == NumClauses \in Nat
ASSUME ProblemsAssumption ==
  \A p \in Problems : /\ DOMAIN p.premises = Clause
                      /\ \A c \in Clause :
                           /\ DOMAIN p.premises[c] \subseteq Nat
                           /\ \A i \in DOMAIN p.premises[c] : p.premises[c][i] \in Point
                      /\ p.conclusion \in [Clause -> Node]
                      /\ p.label \in [Point -> Label]

VARIABLES
  premises,     \* [Clause -> vector of points], never modified by a call
  conclusion,   \* [Clause -> Node]
  label,        \* _is_classified/_classification of every point and of FalseDp
  positive,     \* the in/out argument positive
  negative,     \* the in/out argument negative
  ok,           \* horn_constraints_satisfiability
  pc,           \* where solve is
  backup,       \* _copy_of_datapoints: the labels before the call
  next,         \* loop index of keep_backup
  copies,       \* constraints kept in _copy_of_horn_constraints
  left,         \* per constraint, the positions of _premises still there
  satisfied,    \* copies whose _satisfiable flag is set
  list,         \* _list_of_horn_constraints per node
  worklist,     \* the stack: a sequence of non-empty sets, see Push
  stale,        \* _compute_current_marking
  marking,      \* _list_of_marking per node
  cur,          \* current_variable_addr
  pending,      \* constraints of cur the loop has not visited yet
  args          \* history: the two sets as the caller passed them

problem == <<premises, conclusion>>
inout   == <<positive, negative>>
scratch == <<copies, left, satisfied, list, stale, marking>>
vars == <<problem, label, inout, ok, pc, backup, next, scratch, worklist,
          cur, pending, args>>

-----------------------------------------------------------------------------
(* Mutant: a queue instead of a stack. *)
PushAtBottom(w, S) == IF S = {} THEN w ELSE <<S>> \o w

(* Filling an unordered_set's elements into the stack pushes them in an    *)
(* order the code does not fix, so a batch is kept as a set and Pop takes  *)
(* any element of the topmost one.                                         *)
Push(w, S) == IF S = {} THEN w ELSE Append(w, S)

(* Mutant: the element is read but not removed. *)
PeekOnly(w, x) == w

PopFrom(w, x) ==
  LET top == Len(w)
  IN  IF w[top] = {x} THEN SubSeq(w, 1, top - 1)
                      ELSE [w EXCEPT ![top] = @ \ {x}]

Holds(w, x) == \E i \in 1 .. Len(w) : x \in w[i]
OnStack(x) == Holds(worklist, x)

(* The points at the positions S of the premises of c. *)
PointsAt(c, S) == {premises[c][i] : i \in S}

(* datapoint::set_classification(v) on every point of S: a point that is   *)
(* classified already keeps its label.                                     *)
SetClassification(l, S, v) ==
  [x \in Node |-> IF x \in S /\ l[x] = "none" THEN v ELSE l[x]]

-----------------------------------------------------------------------------
(* populate_meta_data: every data point marks itself. *)
InitialMarking == [x \in Node |-> {x} \ {FalseDp}]

(* compute_current_marking: horn_constraint::compute_marking has run to    *)
(* its fixpoint over the constraints not yet satisfied.  Module            *)
(* HornMarking models the recursion that gets there.                       *)
ComputeCurrentMarking ==
  LeastMarking([c \in copies \ satisfied |-> PointsAt(c, left[c])], conclusion)

NoMarking == [x \in Node |-> {}]
NoLists   == [x \in Node |-> {}]
NothingLeft == [c \in Clause |-> {}]

-----------------------------------------------------------------------------
Init ==
  /\ \E p \in Problems :
       /\ premises = p.premises
       /\ conclusion = p.conclusion
       /\ label = [x \in Node |-> IF x \in Point THEN p.label[x] ELSE "none"]
  /\ positive = {}
  /\ negative = {}
  /\ ok = TRUE
  /\ pc = "idle"
  /\ backup = [x \in Point |-> label[x]]
  /\ next = 1
  /\ copies = {}
  /\ left = NothingLeft
  /\ satisfied = {}
  /\ list = NoLists
  /\ worklist = <<>>
  /\ stale = TRUE
  /\ marking = NoMarking
  /\ cur = FalseDp
  /\ pending = {}
  /\ args = [pos |-> {}, neg |-> {}]

(* keep_backup: the labels at the start of the call. *)
SavedLabels == [x \in Point |-> label[x]]

(* A caller tries the points of P as positive and those of N as negative;  *)
(* both are taken from the unclassified points (simple_job_manager.h,      *)
(* is_leaf).  The stack is replaced by an empty one and the labels are     *)
(* copied.                                                                 *)
Solve(P, N) ==
  /\ pc = "idle"
  /\ pc' = "backup"
  /\ positive' = P
  /\ negative' = N
  /\ args' = [pos |-> P, neg |-> N]
  /\ ok' = TRUE
  /\ worklist' = <<>>
  /\ backup' = SavedLabels
  /\ label' = [label EXCEPT ![FalseDp] = "false"]
  /\ next' = 1
  /\ UNCHANGED <<problem, scratch, cur, pending>>

-----------------------------------------------------------------------------
(* keep_backup: constraint by constraint, drop what the labels satisfy and *)
(* the premises they make true.                                            *)
AtClause(c) == pc = "backup" /\ next = c

(* Mutant: any classified conclusion counts as true. *)
TrivialByClassified(c) ==
  \/ label[conclusion[c]] # "none"
  \/ \E i \in DOMAIN premises[c] : label[premises[c][i]] = "false"

(* The labels make constraint c true. *)
TrivialBy(c) ==
  \/ label[conclusion[c]] = "true"
  \/ \E i \in DOMAIN premises[c] : label[premises[c][i]] = "false"

Unproved(c) == {i \in DOMAIN premises[c] : label[premises[c][i]] # "true"}

DropClause(c) ==
  /\ AtClause(c)
  /\ TrivialBy(c)
  /\ next' = next + 1
  /\ UNCHANGED <<problem, label, inout, ok, pc, backup, scratch, worklist,
                 cur, pending, args>>

(* All premises are true: the conclusion has to be true as well. *)
ForceConclusion(c) ==
  /\ AtClause(c)
  /\ ~ TrivialBy(c)
  /\ Unproved(c) = {}
  /\ label[conclusion[c]] = "none" /\ conclusion[c] \notin negative
  /\ label' = SetClassification(label, {conclusion[c]}, "true")
  /\ positive' = positive \cup {conclusion[c]}
  /\ next' = next + 1
  /\ UNCHANGED <<problem, negative, ok, pc, backup, scratch, worklist,
                 cur, pending, args>>

(* ... but it is false, or is being tried as negative. *)
RefuteConclusion(c) ==
  /\ AtClause(c)
  /\ ~ TrivialBy(c)
  /\ Unproved(c) = {}
  /\ label[conclusion[c]] = "false" \/ conclusion[c] \in negative
  /\ label' = SetClassification(label, {conclusion[c]}, "false")
  /\ ok' = FALSE
  /\ pc' = "return"
  /\ UNCHANGED <<problem, inout, backup, next, scratch, worklist,
                 cur, pending, args>>

KeepClause(c) ==
  /\ AtClause(c)
  /\ ~ TrivialBy(c)
  /\ Unproved(c) # {}
  /\ copies' = copies \cup {c}
  /\ left' = [left EXCEPT ![c] = Unproved(c)]
  /\ worklist' = Push(worklist, IF label[conclusion[c]] = "false"
                                THEN {conclusion[c]} ELSE {})
  /\ next' = next + 1
  /\ UNCHANGED <<problem, label, inout, ok, pc, backup, satisfied, list,
                 stale, marking, cur, pending, args>>

(* populate_meta_data and fill_worklist.  Positive points go on top, so    *)
(* they are propagated before any negative one.                            *)
FillWorklist ==
  /\ pc = "backup"
  /\ next > NumClauses
  /\ list' = [x \in Node |-> {c \in copies :
                 x = conclusion[c] \/ x \in PointsAt(c, left[c])}]
  /\ label' = SetClassification(SetClassification(label, negative, "false"),
                                positive, "true")
  /\ worklist' = Push(Push(Push(worklist,
                     {x \in {FalseDp} : \E c \in Clause : conclusion[c] = x}),
                     negative), positive)
  /\ marking' = InitialMarking
  /\ pc' = "pop"
  /\ UNCHANGED <<problem, inout, ok, backup, next, copies, left, satisfied,
                 stale, cur, pending, args>>

-----------------------------------------------------------------------------
(* verify_constraints_satisfiability *)
Pop(x) ==
  /\ pc = "pop"
  /\ worklist # <<>>
  /\ x \in worklist[Len(worklist)]
  /\ worklist' = PopFrom(worklist, x)
  /\ cur' = x
  /\ pending' = list[x] \ satisfied
  /\ pc' = "propagate"
  /\ UNCHANGED <<problem, label, inout, ok, backup, next, scratch, args>>

(* The loop over _list_of_horn_constraints visits constraint c, in an      *)
(* order the code does not fix; satisfied constraints are skipped.         *)
Visit(c) ==
  /\ pc = "propagate"
  /\ c \in pending \ satisfied
  /\ pending' = pending \ {c}
  /\ UNCHANGED <<problem, backup, next, copies, list, cur, args>>

Continue == pc' = pc /\ ok' = ok
Abort    == pc' = "return" /\ ok' = FALSE

(* remove_from_vector: the premises of c without any occurrence of x. *)
LeftWithout(c, x) == {i \in left[c] : premises[c][i] # x}

(* propagate_true_classification *)
TrueSatisfies(c) ==
  /\ Visit(c)
  /\ label[cur] = "true"
  /\ conclusion[c] = cur
  /\ satisfied' = satisfied \cup {c}
  /\ Continue
  /\ UNCHANGED <<label, inout, left, worklist, stale, marking>>

TrueShortens(c) ==
  /\ Visit(c)
  /\ label[cur] = "true"
  /\ conclusion[c] # cur
  /\ LeftWithout(c, cur) # {}
  /\ left' = [left EXCEPT ![c] = LeftWithout(c, cur)]
  /\ Continue
  /\ UNCHANGED <<label, inout, satisfied, worklist, stale, marking>>

TrueForces(c) ==
  /\ Visit(c)
  /\ label[cur] = "true"
  /\ conclusion[c] # cur
  /\ LeftWithout(c, cur) = {}
  /\ left' = [left EXCEPT ![c] = {}]
  /\ IF label[conclusion[c]] = "false"
     THEN /\ Abort
          /\ UNCHANGED <<label, positive, satisfied, worklist>>
     ELSE /\ label' = SetClassification(label, {conclusion[c]}, "true")
          /\ worklist' = Push(worklist, {conclusion[c]})
          /\ positive' = positive \cup {conclusion[c]}
          /\ satisfied' = satisfied \cup {c}
          /\ Continue
  /\ UNCHANGED <<negative, stale, marking>>

(* propagate_false_classification *)
FalseSatisfies(c) ==
  /\ Visit(c)
  /\ label[cur] = "false"
  /\ cur \in PointsAt(c, left[c])
  /\ satisfied' = satisfied \cup {c}
  /\ Continue
  /\ UNCHANGED <<label, inout, left, worklist, stale, marking>>

(* A single premise is left: it has to be false. *)
FalseForces(c, i) ==
  /\ Visit(c)
  /\ label[cur] = "false"
  /\ cur \notin PointsAt(c, left[c])
  /\ conclusion[c] = cur
  /\ left[c] = {i}
  /\ IF label[premises[c][i]] = "true"
     THEN /\ Abort
          /\ UNCHANGED <<label, negative, satisfied, worklist>>
     ELSE /\ label' = SetClassification(label, {premises[c][i]}, "false")
          /\ worklist' = Push(worklist, {premises[c][i]})
          /\ negative' = negative \cup {premises[c][i]}
          /\ satisfied' = satisfied \cup {c}
          /\ Continue
  /\ UNCHANGED <<positive, left, stale, marking>>

(* Several premises are left: every point that marks cur has to be false.  *)
(* The loop stops at the first mark that is true, after an arbitrary part  *)
(* of the others.                                                          *)
FalseMarks(c) ==
  /\ Visit(c)
  /\ label[cur] = "false"
  /\ cur \notin PointsAt(c, left[c])
  /\ conclusion[c] = cur
  /\ \A i \in left[c] : left[c] # {i}
  /\ stale' = FALSE
  /\ marking' = IF stale THEN ComputeCurrentMarking ELSE marking
  /\ LET marks == {m \in marking'[cur] : m # cur /\ label[m] # "false"}
         free  == {m \in marks : label[m] = "none"}
     IN  \E S \in SUBSET free :
           /\ IF marks = free THEN S = free /\ Continue ELSE Abort
           /\ label' = SetClassification(label, S, "false")
           /\ worklist' = Push(worklist, S)
           /\ negative' = negative \cup S
  /\ UNCHANGED <<positive, left, satisfied>>

NextPoint ==
  /\ pc = "propagate"
  /\ pending \subseteq satisfied
  /\ pending' = {}
  /\ pc' = "pop"
  /\ UNCHANGED <<problem, label, inout, ok, backup, next, scratch, worklist,
                 cur, args>>

Propagate ==
  \/ \E c \in Clause : \/ TrueSatisfies(c)
                       \/ TrueShortens(c)
                       \/ TrueForces(c)
                       \/ FalseSatisfies(c)
                       \/ \E i \in DOMAIN premises[c] : FalseForces(c, i)
                       \/ FalseMarks(c)
  \/ NextPoint

Finish ==
  /\ pc = "pop"
  /\ worklist = <<>>
  /\ pc' = "return"
  /\ UNCHANGED <<problem, label, inout, ok, backup, next, scratch, worklist,
                 cur, pending, args>>

(* Mutant: the labels of the attempt stay. *)
KeepLabels == label

(* roll_back_datapoints: every point gets its label from before the call. *)
Restored == [x \in Node |-> IF x \in Point THEN backup[x] ELSE label[x]]

(* roll_back_datapoints and the clearing at the end of solve.  The stack   *)
(* keeps what a failed call left on it; backup is dead until the next one. *)
RollBack ==
  /\ pc = "return"
  /\ label' = Restored
  /\ list' = NoLists
  /\ marking' = NoMarking
  /\ copies' = {}
  /\ left' = NothingLeft
  /\ satisfied' = {}
  /\ stale' = TRUE
  /\ pending' = {}
  /\ cur' = FalseDp
  /\ next' = 1
  /\ args' = [pos |-> {}, neg |-> {}]
  /\ pc' = "idle"
  /\ UNCHANGED <<problem, inout, ok, backup, worklist>>

-----------------------------------------------------------------------------
KeepBackup == \E c \in Clause : \/ DropClause(c)
                                \/ ForceConclusion(c)
                                \/ RefuteConclusion(c)
                                \/ KeepClause(c)

Step == KeepBackup \/ FillWorklist \/ (\E x \in Node : Pop(x)) \/ Propagate
          \/ Finish \/ RollBack

Next == \/ \E P \in SUBSET Labelled(label, "none") :
             \E N \in SUBSET (Labelled(label, "none") \ P) : Solve(P, N)
        \/ Step

Spec == Init /\ [][Next]_vars

(* solve is a straight run of its own steps: nothing can stop it half way. *)
FairSpec == Spec /\ WF_vars(Step)

-----------------------------------------------------------------------------
(* Type invariant. *)
TypeOK ==
  /\ DOMAIN premises = Clause
  /\ \A c \in Clause : /\ DOMAIN premises[c] \subseteq Nat
                       /\ \A i \in DOMAIN premises[c] : premises[c][i] \in Point
  /\ conclusion \in [Clause -> Node]
  /\ label \in [Node -> Label]
  /\ positive \in SUBSET Point
  /\ negative \in SUBSET Point
  /\ ok \in BOOLEAN
  /\ pc \in {"idle", "backup", "pop", "propagate", "return"}
  /\ backup \in [Point -> Label]
  /\ next \in Nat
  /\ copies \in SUBSET Clause
  /\ DOMAIN left = Clause
  /\ \A c \in Clause : left[c] \subseteq DOMAIN premises[c]
  /\ satisfied \in SUBSET copies
  /\ list \in [Node -> SUBSET copies]
  /\ worklist \in Seq(SUBSET Node)
  /\ stale \in BOOLEAN
  /\ marking \in [Node -> SUBSET Point]
  /\ cur \in Node
  /\ pending \in SUBSET copies
  /\ args \in [pos : SUBSET Point, neg : SUBSET Point]

(* The classifications the running call may end in. *)
Solutions == Models(premises, conclusion,
                    Labelled(backup, "true") \cup args.pos,
                    Labelled(backup, "false") \cup args.neg)

Answered == pc = "return"
Running  == pc # "idle"

(* solve returns true exactly when the constraints, the labels and the two *)
(* sets have a common solution (solve, verify_constraints_satisfiability). *)
VerdictExact == Answered => (ok <=> Solutions # {})

(* Whatever order the hash sets are walked in, a successful call hands     *)
(* back all forced points and no other: every point left unclassified can  *)
(* still be given either label, which test_horn_solver.cpp asserts and the *)
(* learner's leaf test relies on.                                          *)
ForcedExactly ==
  Answered /\ ok =>
    LET U == Labelled(backup, "none")
    IN  /\ positive = ForcedTrue(Solutions) \cap U
        /\ negative = ForcedFalse(Solutions) \cap U

(* No point is propagated as false while a point classified true is still  *)
(* waiting on the stack: markings are computed once, from premises that    *)
(* are already cleared of all true points.                                 *)
PositiveFirst ==
  pc = "propagate" /\ label[cur] = "false" =>
    ~ \E x \in Point : OnStack(x) /\ label[x] = "true"

(* Every call returns. *)
Terminates == pc # "idle" ~> pc = "idle"

(* A sequence of calls on one solver object behaves like the abstract      *)
(* specification: nothing of an earlier call, failed or not, shows in a    *)
(* later one, and the labels are as before.                                *)
Promise == INSTANCE HornSpec WITH
  label    <- [x \in Point |-> IF Running THEN backup[x] ELSE label[x]],
  positive <- IF Running THEN args.pos ELSE positive,
  negative <- IF Running THEN args.neg ELSE negative,
  ok       <- Running \/ ok,
  busy     <- Running
KeepsPromise == Promise!Spec
-----------------------------------------------------------------------------
(* The inductive invariant behind VerdictExact. *)

(* Labels only ever grow while a call runs, and agree with its arguments. *)
LabelsInv ==
  /\ label[FalseDp] # "true"
  /\ Running =>
       /\ label[FalseDp] = "false"
       /\ \A x \in Point : backup[x] # "none" => label[x] = backup[x]
       /\ args.pos \cup args.neg \subseteq Labelled(backup, "none")
       /\ args.pos \subseteq positive /\ args.neg \subseteq negative
  /\ pc = "backup" =>
       /\ positive \cap negative = {}
       /\ \A x \in positive : label[x] # "false"
       /\ \A x \in negative : label[x] = "none"
  /\ pc \in {"pop", "propagate"} =>
       /\ \A x \in positive : label[x] = "true"
       /\ \A x \in negative : label[x] = "false"

(* Every label, and every mark, holds in every solution. *)
SoundInv ==
  Running => \A M \in Solutions :
    /\ \A x \in Point : /\ label[x] = "true" => x \in M
                        /\ label[x] = "false" => x \notin M
    /\ positive \subseteq M /\ negative \cap M = {}
    /\ \A x \in Node : \A m \in marking[x] : m \in M => x \in M

(* What has happened to each constraint so far. *)
ClausesInv ==
  /\ pc = "backup" =>
       /\ satisfied = {}
       /\ \A c \in Clause : c < next /\ c \notin copies => TrivialBy(c)
       /\ \A c \in copies : \A i \in left[c] :
            label[premises[c][i]] = "true" => premises[c][i] \in positive
  /\ pc \in {"pop", "propagate"} =>
       /\ \A c \in Clause : c \notin copies => TrivialBy(c)
       /\ \A c \in satisfied : TrivialBy(c)
       /\ \A c \in copies : \A i \in left[c] : c \in list[premises[c][i]]
  /\ Running => \A c \in copies : \A i \in DOMAIN premises[c] \ left[c] :
                   label[premises[c][i]] = "true"
  /\ pc \in {"backup", "pop", "propagate"} =>
       \A c \in copies \ satisfied : left[c] # {}

(* No true premise is forgotten: it is gone from the constraint, waits on  *)
(* the stack, or is being propagated.                                      *)
WorklistInv ==
  pc \in {"pop", "propagate"} =>
    \A c \in copies \ satisfied : \A i \in left[c] :
      label[premises[c][i]] = "true" =>
        \/ OnStack(premises[c][i])
        \/ pc = "propagate" /\ cur = premises[c][i] /\ c \in pending

(* The answer, once there is one. *)
AnswerInv ==
  /\ pc \in {"backup", "pop", "propagate"} => ok
  /\ pc = "idle" => copies = {} /\ satisfied = {} /\ marking = NoMarking
  /\ pc = "return" => IF ok THEN Labelled(label, "true") \in Solutions
                            ELSE Solutions = {}

IInv == TypeOK /\ LabelsInv /\ SoundInv /\ ClausesInv /\ WorklistInv /\ AnswerInv

-----------------------------------------------------------------------------
(* What ForcedExactly, PositiveFirst and KeepsPromise need on top of it. *)

(* The two sets hold the points the call has labelled, and no other.  A    *)
(* constraint that was kept has no conclusion that was true and no premise *)
(* that was false before the call.                                         *)
ArgumentsInv ==
  Running =>
    /\ positive \cup negative \subseteq Labelled(backup, "none")
    /\ \A x \in Labelled(backup, "none") : /\ label[x] = "true"  => x \in positive
                                           /\ label[x] = "false" => x \in negative
    /\ \A c \in copies :
         /\ conclusion[c] \in Point => backup[conclusion[c]] # "true"
         /\ \A i \in DOMAIN premises[c] : backup[premises[c][i]] # "false"

(* No true node lies below one that is not true, nor beside one in the     *)
(* same batch.                                                             *)
TrueOnTop(w, l) ==
  \A j, k \in 1 .. Len(w) : j <= k =>
    \A x \in w[j] : \A y \in w[k] : l[x] = "true" => l[y] = "true"

(* The stack holds classified nodes, the true ones on top; before the      *)
(* propagation starts it holds the false conclusions.                      *)
StackInv ==
  /\ pc \in {"idle", "backup"} => stale
  /\ pc = "backup" =>
       /\ \A x \in Node : OnStack(x) => label[x] = "false"
       /\ \A c \in copies : label[conclusion[c]] = "false" => OnStack(conclusion[c])
  /\ pc \in {"pop", "propagate"} =>
       /\ TrueOnTop(worklist, label)
       /\ \A x \in Node : OnStack(x) => label[x] # "none"
       /\ \A c \in copies : c \in list[conclusion[c]]
       /\ ~ stale \/ (pc = "propagate" /\ label[cur] = "false") =>
            \A x \in Node : OnStack(x) => label[x] # "true"

(* Markings, once computed, miss nothing, and no false conclusion is       *)
(* forgotten: it waits on the stack, is being propagated, or has passed    *)
(* its label on to everything that marks it.                               *)
MarkingInv ==
  pc \in {"pop", "propagate"} =>
    /\ ~ stale => /\ \A x \in Node : ComputeCurrentMarking[x] \subseteq marking[x]
                  /\ pc = "propagate" => label[cur] # "true"
    /\ \A c \in copies \ satisfied : label[conclusion[c]] = "false" =>
         \/ OnStack(conclusion[c])
         \/ pc = "propagate" /\ cur = conclusion[c] /\ c \in pending
         \/ ~ stale /\ \A m \in marking[conclusion[c]] : label[m] = "false"

(* Every point a successful call leaves unclassified may still be true. *)
FreeInv ==
  Answered /\ ok =>
    \A x \in Labelled(label, "none") : \E M \in Solutions : x \in M

CompleteInv == IInv /\ ArgumentsInv /\ StackInv /\ MarkingInv /\ FreeInv
=============================================================================
