----------------------------- MODULE ChcSystem ------------------------------
(***************************************************************************)
(* The teacher and the parser together: the teacher works on the clauses   *)
(* that the parser makes of a file.                                        *)
(***************************************************************************)
EXTENDS ChcTeacher, ChcParser

(* A clause of the parser as a clause of the teacher. *)
TeacherClause(c) ==
  [preds |-> ClauseRelations(c),
   instances |->
     {[lhs |-> i.lhs, rhs |-> IF c.rhs = {} THEN FalseDp ELSE i.rhs[1]] :
        i \in UNION {Counterexamples(c, T) : T \in SUBSET PointsIn(c)}}]

ProblemOf(s) == {TeacherClause(c) : c \in Chcs(s)}

(* The data points are those of the file. *)
ASSUME SystemPointsAssumption ==
  \A s \in Systems : Parses(s) => SystemPoints(s) \subseteq Point

-----------------------------------------------------------------------------
(* When the first round begins: the relations of the parsed clauses are    *)
(* among those conjectures are learned for, and the counterexamples they   *)
(* can have are true of every solution of the file, so that no label and   *)
(* no constraint excludes one.  This holds although premises are collected *)
(* from below disjunctions as if these were conjunctions; not if a         *)
(* relation is below "=>" or "ite", where extract_relations loses track of *)
(* the polarity.                                                           *)
CounterexamplesAreSound == begun \/ AllSound

(* When the first round begins: where premises are conjunctions ("Left-    *)
(* hand-side of Horn clause has to be a conjunction"), a counterexample    *)
(* excludes the conjectures it was found for, and conjectures without      *)
(* counterexample solve the file that was parsed.                          *)
CounterexamplesRefute == begun \/ AllRefuting

(* The file the teacher works on. *)
IsAbout(s) == Parses(s) /\ problem = ProblemOf(s)

(* When learn2 ends, the conjectures solve the file that was read, if its  *)
(* premises are conjunctions.                                              *)
FileIsSolved ==
  pc = "done" =>
    \A s \in Systems : IsAbout(s) /\ (\A c \in Chcs(s) : Conjunctive(c)) =>
      \A T \in conjs : SolvesFile(s, T \cap SystemPoints(s))

(* When the teacher breaks off with a contradiction, the file that was     *)
(* read has no solution, if its relations are below "and", "or" and "not"  *)
(* only.                                                                   *)
FileIsUnsolvable ==
  pc \in {"undefined", "contradiction"} =>
    \A s \in Systems : IsAbout(s) /\ (\A c \in Chcs(s) : Plain(c)) =>
      \A U \in SUBSET SystemPoints(s) : ~ SolvesFile(s, U)
=============================================================================
