----------------------------- MODULE ChcTeacher -----------------------------
(***************************************************************************)
(* The teacher for constrained Horn clauses: the loop of learn2, the check *)
(* of a clause, and the learner interface that turns counterexamples into  *)
(* the learner's sample.                                                   *)
(*                                                                         *)
(* A data point is a predicate applied to values.  A clause is given by    *)
(* its predicates and its instances: the premises and the conclusion of    *)
(* the clause under the valuations that satisfy its constraint.  Z3 may    *)
(* return any violated instance, or UNKNOWN.  The learner may return any   *)
(* tree that is consistent with the sample, and fails if there is none     *)
(* (module Learner).                                                       *)
(*                                                                         *)
(* The conjectures together are true of a set of points.  The expression   *)
(* of a predicate that has no data point yet is that of another predicate, *)
(* with variables that nothing binds: Z3 chooses their values anew for     *)
(* every clause.  Conjectures are therefore a set of readings, one for     *)
(* each choice.  Arguments are integers: a split on a Bool argument is     *)
(* translated into other conjectures than the tree's (module DtToZ3).      *)
(***************************************************************************)
EXTENDS HornProblem, Integers, Sequences

CONSTANTS
  Relation,    \* the uninterpreted predicates
  RelationOf,  \* the predicate of each data point
  Wide,        \* the points with derived attributes: two integer arguments or more
  Problems     \* the problems a behaviour may be about: sets of clauses

(* A clause of the parser: it has a predicate, and without conclusion it   *)
(* has premises (a query has one).                                         *)
IsClause(c) ==
  /\ c.preds \subseteq Relation
  /\ c.preds # {}
  /\ \A i \in c.instances :
       /\ i.lhs \in Seq(Point)
       /\ i.rhs \in Node
       /\ i.rhs = FalseDp => i.lhs # <<>>
       /\ \A k \in DOMAIN i.lhs : RelationOf[i.lhs[k]] \in c.preds
       /\ i.rhs # FalseDp => RelationOf[i.rhs] \in c.preds

ASSUME RelationAssumption == RelationOf \in [Point -> Relation]
ASSUME WideAssumption == Wide \subseteq Point
ASSUME ProblemsAssumption == \A p \in Problems : p # {} /\ \A c \in p : IsClause(c)

VARIABLES
  problem,    \* p.chcs
  unsat,      \* unsatisfied_chcs
  sat,        \* satisfied_chcs
  begun,      \* previous_conjectures is not empty
  conjs,      \* conjectures: the sets of points they may be read as
  changed,    \* the predicates whose conjecture has changed
  todo,       \* the clauses the current loop has not visited
  nowSat,     \* now_satisfied_chcs
  cexs,       \* counterexamples
  cur,        \* the counterexample add_counterexample works on
  left,       \* its points that have no learner data point yet
  ids,        \* teacher_datapoint_to_learner_datapoint: identifier by key
  ptrs,       \* api::datapoint_ptrs
  label,      \* the labels of the learner data points
  horn,       \* horn_indexes
  pc          \* where the teacher is

clauses  == <<unsat, sat, nowSat>>
sample   == <<ids, ptrs, label, horn>>
vars == <<problem, clauses, begun, conjs, changed, todo, cexs, cur, left, sample, pc>>

-----------------------------------------------------------------------------
PremisesOf(i) == {i.lhs[k] : k \in DOMAIN i.lhs}
PointsOf(i)   == PremisesOf(i) \cup ({i.rhs} \ {FalseDp})

Holds(i, T) == PremisesOf(i) \subseteq T => i.rhs \in T

(* check_chc: the instances a model of the negated clause may stand for. *)
Violations(c, F) == {i \in c.instances : \E T \in F : ~ Holds(i, T)}

(* indexes2horn_constraints: the data point an index stands for. *)
At(k) == ptrs[k + 1][1]

(* What the trees that the learner may return are true of. *)
Hypotheses ==
  {T \in SUBSET Point :
     /\ Labelled(label, "true") \subseteq T
     /\ Labelled(label, "false") \cap T = {}
     /\ \A h \in horn : (\A k \in h.body : At(k) \in T)
                          => h.head # {} /\ \A k \in h.head : At(k) \in T}

(* The points of the predicates R a set is true of. *)
On(R, T) == {x \in T : RelationOf[x] \in R}

Sampled == {RelationOf[ptrs[k][1]] : k \in 1 .. Len(ptrs)}

(* dt_to_z3_exp: a tree that is true of T fixes the conjectures of the     *)
(* predicates that occur in the sample.  Without a sample it is a leaf.    *)
Readings(T) ==
  {F \in SUBSET {S \in Hypotheses : On(Sampled, S) = On(Sampled, T)} :
     T \in F /\ (ptrs = <<>> => F = {T})}

Init ==
  /\ problem \in Problems
  /\ unsat = problem
  /\ sat = {} /\ nowSat = {}
  /\ begun = FALSE
  /\ conjs = {} /\ changed = {}
  /\ todo = {} /\ cexs = {}
  /\ cur = [lhs |-> <<>>, rhs |-> FalseDp] /\ left = {}
  /\ ids = <<>> /\ ptrs = <<>>
  /\ label = [x \in Point |-> "none"]
  /\ horn = {}
  /\ pc = "learn"

-----------------------------------------------------------------------------
(* The same expressions for the predicates R have the same readings. *)
Unchanged(R, F, G) == {On(R, T) : T \in F} = {On(R, T) : T \in G}

(* A round: new conjectures, and which of them have changed.  Conjectures  *)
(* are compared as expressions, so that one may count as changed although  *)
(* it is true of the same points.                                          *)
Learn ==
  /\ pc = "learn"
  /\ \E T \in Hypotheses : conjs' \in Readings(T)
  /\ changed' \in SUBSET Relation
  /\ IF begun THEN Unchanged(Relation \ changed', conjs, conjs') ELSE changed' = Relation
  /\ begun' = TRUE
  /\ todo' = unsat
  /\ pc' = "unsat"
  /\ UNCHANGED <<problem, clauses, cexs, cur, left, sample>>

(* learn_decision_tree catches the exception of the learner and flows off  *)
(* its end.                                                                *)
LearnFails ==
  /\ pc = "learn"
  /\ Hypotheses = {}
  /\ pc' = "undefined"
  /\ UNCHANGED <<problem, clauses, begun, conjs, changed, todo, cexs, cur, left, sample>>

Affected(c) == c.preds \cap changed # {}

(* A visit of a clause that was not satisfied; it is skipped if none of    *)
(* its conjectures has changed.                                            *)
CheckUnsatisfied(c) ==
  /\ pc = "unsat"
  /\ c \in todo
  /\ IF Affected(c) /\ Violations(c, conjs) = {}
     THEN /\ nowSat' = nowSat \cup {c}
          /\ unsat' = unsat \ {c}
          /\ cexs' = cexs
     ELSE /\ IF Affected(c)
             THEN \E i \in Violations(c, conjs) : cexs' = cexs \cup {i}
             ELSE cexs' = cexs
          /\ UNCHANGED <<nowSat, unsat>>
  /\ todo' = todo \ {c}
  /\ UNCHANGED <<problem, sat, begun, conjs, changed, cur, left, sample, pc>>

StartSatisfied ==
  /\ pc = "unsat"
  /\ todo = {}
  /\ todo' = sat
  /\ pc' = "sat"
  /\ UNCHANGED <<problem, clauses, begun, conjs, changed, cexs, cur, left, sample>>

(* Mutant: only clauses of which all conjectures have changed are checked  *)
(* again.                                                                  *)
CheckSatisfiedIfAll(c) ==
  /\ pc = "sat"
  /\ c \in todo
  /\ IF c.preds \subseteq changed /\ Violations(c, conjs) # {}
     THEN /\ \E i \in Violations(c, conjs) : cexs' = cexs \cup {i}
          /\ unsat' = unsat \cup {c}
          /\ sat' = sat \ {c}
     ELSE UNCHANGED <<cexs, unsat, sat>>
  /\ todo' = todo \ {c}
  /\ UNCHANGED <<problem, nowSat, begun, conjs, changed, cur, left, sample, pc>>

(* A visit of a clause that was satisfied by the previous conjectures. *)
CheckSatisfied(c) ==
  /\ pc = "sat"
  /\ c \in todo
  /\ IF Affected(c) /\ Violations(c, conjs) # {}
     THEN /\ \E i \in Violations(c, conjs) : cexs' = cexs \cup {i}
          /\ unsat' = unsat \cup {c}
          /\ sat' = sat \ {c}
     ELSE UNCHANGED <<cexs, unsat, sat>>
  /\ todo' = todo \ {c}
  /\ UNCHANGED <<problem, nowSat, begun, conjs, changed, cur, left, sample, pc>>

(* "Solver reported UNKNOWN": the exception ends the program. *)
SolverUnknown(c) ==
  /\ pc \in {"unsat", "sat"}
  /\ c \in todo
  /\ Affected(c)
  /\ pc' = "unknown"
  /\ UNCHANGED <<problem, clauses, begun, conjs, changed, todo, cexs, cur, left, sample>>

EndChecks ==
  /\ pc = "sat"
  /\ todo = {}
  /\ sat' = sat \cup nowSat
  /\ nowSat' = {}
  /\ pc' = "add"
  /\ UNCHANGED <<problem, unsat, begun, conjs, changed, todo, cexs, cur, left, sample>>

-----------------------------------------------------------------------------
(* Mutant: the first counterexample of a round is enough. *)
TakeOne(i) ==
  /\ pc = "add"
  /\ i \in cexs
  /\ cexs' = {}
  /\ cur' = i
  /\ left' = PointsOf(i)
  /\ pc' = "register"
  /\ UNCHANGED <<problem, clauses, begun, conjs, changed, todo, sample>>

(* add_counterexample, for each of the counterexamples. *)
Take(i) ==
  /\ pc = "add"
  /\ i \in cexs
  /\ cexs' = cexs \ {i}
  /\ cur' = i
  /\ left' = PointsOf(i)
  /\ pc' = "register"
  /\ UNCHANGED <<problem, clauses, begun, conjs, changed, todo, sample>>

(* Keys are data points with their values.  Computing the integer data of  *)
(* a point appends the derived values to the very list the key is made of: *)
(* a point is looked up without them and stored with them.                 *)
LookupKey(x) == <<x, FALSE>>
StoredKey(x) == <<x, x \in Wide>>

(* Mutant: identifiers start at 1. *)
NextIdFromOne == IF ptrs = <<>> THEN 1 ELSE ids[ptrs[Len(ptrs)]] + 1

(* api::index_of_datapoint_ptrs *)
NextId == IF ptrs = <<>> THEN 0 ELSE ids[ptrs[Len(ptrs)]] + 1

(* Mutant: the data point is added without comparing identifiers. *)
AddAlways(m, x) == TRUE

(* emplace keeps an entry that is there; the identifier tells whether the  *)
(* entry is new.  A new point goes to the position of its identifier.      *)
IsNew(m, x) == m[StoredKey(x)] = NextId

(* get_unique_learner_datapoint *)
Register(x) ==
  /\ pc = "register"
  /\ x \in left
  /\ LET k == StoredKey(x)
         m == IF k \in DOMAIN ids THEN ids
              ELSE [j \in DOMAIN ids \cup {k} |-> IF j = k THEN NextId ELSE ids[j]]
     IN  IF LookupKey(x) \in DOMAIN ids
         THEN UNCHANGED <<ids, ptrs>>
         ELSE /\ ids' = m
              /\ ptrs' = IF IsNew(m, x) THEN Append(ptrs, k) ELSE ptrs
  /\ left' = left \ {x}
  /\ UNCHANGED <<problem, clauses, begun, conjs, changed, todo, cexs, cur, label, horn, pc>>

IsPositive == cur.lhs = <<>> /\ cur.rhs # FalseDp
IsNegative == Len(cur.lhs) = 1 /\ cur.rhs = FalseDp

(* A label that is there already is compared: "Contradicting               *)
(* counterexample" ends the program.                                       *)
SetLabel(x, v) ==
  IF label[x] \in {"none", v}
  THEN label' = [label EXCEPT ![x] = v] /\ pc' = "add"
  ELSE label' = label /\ pc' = "contradiction"

AddPositive ==
  /\ pc = "register" /\ left = {}
  /\ IsPositive
  /\ SetLabel(cur.rhs, "true")
  /\ UNCHANGED <<problem, clauses, begun, conjs, changed, todo, cexs, cur, left,
                 ids, ptrs, horn>>

AddNegative ==
  /\ pc = "register" /\ left = {}
  /\ IsNegative
  /\ SetLabel(cur.lhs[1], "false")
  /\ UNCHANGED <<problem, clauses, begun, conjs, changed, todo, cexs, cur, left,
                 ids, ptrs, horn>>

IdOf(x) == ids[StoredKey(x)]

(* Mutants: the conclusion is lost; the conclusion is among the premises. *)
PremisesOnly ==
  [body |-> {IdOf(x) : x \in PremisesOf(cur)}, head |-> {}]

ConclusionInPremises ==
  [body |-> {IdOf(x) : x \in PointsOf(cur)},
   head |-> {IdOf(x) : x \in {cur.rhs} \ {FalseDp}}]

(* api::add_horn_constraints *)
HornIndexes ==
  [body |-> {IdOf(x) : x \in PremisesOf(cur)},
   head |-> {IdOf(x) : x \in {cur.rhs} \ {FalseDp}}]

AddConstraint ==
  /\ pc = "register" /\ left = {}
  /\ ~ IsPositive /\ ~ IsNegative
  /\ horn' = horn \cup {HornIndexes}
  /\ pc' = "add"
  /\ UNCHANGED <<problem, clauses, begun, conjs, changed, todo, cexs, cur, left,
                 ids, ptrs, label>>

(* The condition of the while loop. *)
EndRound ==
  /\ pc = "add"
  /\ cexs = {}
  /\ pc' = IF unsat = {} THEN "done" ELSE "learn"
  /\ UNCHANGED <<problem, clauses, begun, conjs, changed, todo, cexs, cur, left, sample>>

-----------------------------------------------------------------------------
Next ==
  \/ Learn
  \/ LearnFails
  \/ \E c \in todo : CheckUnsatisfied(c) \/ CheckSatisfied(c) \/ SolverUnknown(c)
  \/ StartSatisfied
  \/ EndChecks
  \/ \E i \in cexs : Take(i)
  \/ \E x \in left : Register(x)
  \/ AddPositive
  \/ AddNegative
  \/ AddConstraint
  \/ EndRound

(* The teacher is sequential, and Z3 and the learner return: it keeps      *)
(* taking steps.                                                           *)
Spec == Init /\ [][Next]_vars /\ WF_vars(Next)

-----------------------------------------------------------------------------
Key == Point \X BOOLEAN
Instance(i) == \E c \in problem : i \in c.instances

TypeOK ==
  /\ problem # {} /\ \A c \in problem : IsClause(c)
  /\ unsat \subseteq problem /\ sat \subseteq problem /\ nowSat \subseteq problem
  /\ begun \in BOOLEAN
  /\ conjs \subseteq SUBSET Point
  /\ changed \subseteq Relation
  /\ todo \subseteq problem
  /\ \A i \in cexs : Instance(i)
  /\ pc \in {"register", "contradiction"} => Instance(cur)
  /\ left \subseteq Point
  /\ DOMAIN ids \subseteq Key /\ ids \in [DOMAIN ids -> Nat]
  /\ ptrs \in Seq(Key)
  /\ label \in [Point -> Label]
  /\ horn \subseteq [body : SUBSET (0 .. Len(ptrs) - 1), head : SUBSET (0 .. Len(ptrs) - 1)]
  /\ pc \in {"learn", "unsat", "sat", "add", "register", "done",
             "undefined", "unknown", "contradiction"}

Solves(T) == \A c \in problem : \A i \in c.instances : Holds(i, T)

(* naive_check, which learn2 asserts at the end: the conjectures satisfy   *)
(* every clause, although a clause is not checked again while its          *)
(* conjectures stay as they are, and whatever is chosen for variables that *)
(* nothing binds.                                                          *)
SuccessIsSolution == pc = "done" => \A T \in conjs : Solves(T)

(* The teacher breaks off with a contradiction, in the learner or between  *)
(* two counterexamples, only if the clauses have no solution at all.       *)
BreaksOffOnlyIfUnsolvable ==
  pc \in {"undefined", "contradiction"} => \A T \in SUBSET Point : ~ Solves(T)

(* "assert (!all_as_before)", and more: each clause that was not satisfied *)
(* in the last round contains a conjecture that has changed, so that no    *)
(* round repeats the last one.                                             *)
RoundMakesProgress == pc = "unsat" => \A c \in todo : Affected(c)

(* "assert (datapoint_ptrs[i]->_identifier == i)": the identifiers that    *)
(* Horn constraints are made of are positions in the learner's vector, and *)
(* no data point is in that vector twice, although points are looked up    *)
(* with other values than they are stored with.                            *)
IdentifiersArePositions ==
  /\ \A k \in 1 .. Len(ptrs) : ptrs[k] \in DOMAIN ids /\ ids[ptrs[k]] = k - 1
  /\ \A j, k \in 1 .. Len(ptrs) : ptrs[j][1] = ptrs[k][1] => j = k

(* What the proofs rest on.  Clauses are in one of three lists; a clause   *)
(* counted as satisfied holds, or is about to be checked again because a   *)
(* conjecture has changed.                                                 *)
Held(c) == Violations(c, conjs) = {}

ListsCover == unsat \cup sat \cup nowSat = problem

SatisfiedHold ==
  /\ \A c \in nowSat : Held(c)
  /\ pc \in {"unsat", "sat"} \/ nowSat = {} \/ pc = "unknown"
  /\ pc \notin {"unsat", "sat", "unknown"} => \A c \in sat : Held(c)
  /\ pc = "unsat" => \A c \in sat : Held(c) \/ Affected(c)
  /\ pc = "sat" => \A c \in sat : Held(c) \/ (c \in todo /\ Affected(c))
  /\ pc = "done" => unsat = {}
  /\ ~ begun => pc \in {"learn", "undefined"} /\ sat = {}

(* A counterexample of each clause that is not satisfied is in the sample, *)
(* or on its way there.                                                    *)
Recorded(i) == \A T \in Hypotheses : Holds(i, T)

OnItsWay(i) == i \in cexs \/ (pc = "register" /\ i = cur) \/ Recorded(i)

CounterexamplesKept ==
  /\ pc = "learn" => cexs = {}
  /\ pc \in {"learn", "unsat", "sat", "add", "register"} /\ begun =>
       \A c \in unsat : \/ pc = "unsat" /\ c \in todo
                        \/ \E i \in Violations(c, conjs) : OnItsWay(i)

(* The sample says nothing that the clauses do not imply. *)
SampleImplied ==
  /\ \A x \in Point : label[x] = "true" =>
       \E c \in problem : \E i \in c.instances : i.lhs = <<>> /\ i.rhs = x
  /\ \A x \in Point : label[x] = "false" =>
       \E c \in problem : \E i \in c.instances : i.lhs = <<x>> /\ i.rhs = FalseDp
  /\ \A h \in horn : \E c \in problem : \E i \in c.instances :
       /\ \A x \in PremisesOf(i) : \E k \in h.body : At(k) = x
       /\ i.rhs # FalseDp => h.head # {} /\ \A k \in h.head : At(k) = i.rhs

KeysStored ==
  /\ \A k \in DOMAIN ids : /\ k = StoredKey(k[1])
                           /\ ids[k] + 1 \in 1 .. Len(ptrs)
                           /\ ptrs[ids[k] + 1] = k
  /\ pc = "register" => \A x \in PointsOf(cur) \ left : StoredKey(x) \in DOMAIN ids

IInv ==
  /\ TypeOK
  /\ ListsCover
  /\ SatisfiedHold
  /\ CounterexamplesKept
  /\ RoundMakesProgress
  /\ SampleImplied
  /\ IdentifiersArePositions
  /\ KeysStored
  /\ BreaksOffOnlyIfUnsolvable

(* The loop ends if there are finitely many data points. *)
Terminates == <>(pc \in {"done", "undefined", "unknown", "contradiction"})
=============================================================================
