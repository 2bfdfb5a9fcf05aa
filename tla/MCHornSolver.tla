---------------------------- MODULE MCHornSolver ----------------------------
(***************************************************************************)
(* Instances of HornSolver for TLC.                                        *)
(***************************************************************************)
EXTENDS HornSolver, FiniteSets

CONSTANTS a, b, c, d

(* solve does not depend on the order of the premises of a constraint. *)
Unsorted == {<<b, a>>, <<c, a>>, <<d, a>>, <<c, b>>, <<d, b>>, <<d, c>>}

Vectors == UNION {[1 .. k -> {a, b, c}] : k \in 0 .. 2} \ Unsorted

(* Points are interchangeable: those of the sequence t are named in the    *)
(* order in which they occur.                                              *)
InOrderOfOccurrence(t) ==
  LET after(y, x) == \A k \in 1 .. Len(t) : t[k] = y => \E j \in 1 .. k - 1 : t[j] = x
  IN  after(b, a) /\ after(c, b) /\ after(d, c)

(* Two arbitrary constraints over three points, up to two premises each:   *)
(* empty premise vectors, repeated premises, self-loops and constraints    *)
(* without conclusion included.  A third one is satisfied by the label of  *)
(* its premise.                                                            *)
TwoClauses ==
  {[premises |-> <<m[1], m[2], <<d>>>>, conclusion |-> <<m[3], m[4], d>>] :
     m \in {n \in Vectors \X Vectors \X {a, b, c, FalseDp} \X {a, b, c, FalseDp} :
              InOrderOfOccurrence(n[1] \o n[2] \o <<n[3], n[4]>>)}}

(* Labels of the three points. *)
AnyLabels == {[x \in {a, b, c, d} |-> IF x = d THEN "false" ELSE l[x]] :
                l \in [{a, b, c} -> {"true", "false", "none"}]}

(* Four points and three constraints, two with one premise and one with    *)
(* two: the smallest shape in which a point marks another one through two  *)
(* different premises.  Only the last one may be without conclusion.       *)
MarkingSystems ==
  {m \in {[premises   |-> <<<<p>>, <<q>>, <<r, s>>>>,
           conclusion |-> <<x, y, z>>] :
             p, q, r, s, x, y \in {a, b, c, d}, z \in {a, b, c, d, FalseDp}} :
     /\ InOrderOfOccurrence(m.premises[1] \o m.premises[2] \o m.premises[3] \o m.conclusion)
     /\ m.premises[3][1] # m.premises[3][2] /\ m.premises[3] \notin Unsorted
     /\ \A k \in 1 .. 3 : \A i \in DOMAIN m.premises[k] :
          m.premises[k][i] # m.conclusion[k]}

NoLabels == {[x \in {a, b, c, d} |-> "none"]}

WithLabels(systems, labels) ==
  {[premises |-> m.premises, conclusion |-> m.conclusion, label |-> l] :
     m \in systems, l \in labels}

AllProblems == WithLabels(TwoClauses, AnyLabels) \cup WithLabels(MarkingSystems, NoLabels)
=============================================================================
