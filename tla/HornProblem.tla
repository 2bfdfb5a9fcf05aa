---------------------------- MODULE HornProblem ----------------------------
(***************************************************************************)
(* The data the learner's solver works on: data points, Horn constraints   *)
(* and the classifications that satisfy them (horn_constraint.h,           *)
(* datapoint.h).                                                           *)
(*                                                                         *)
(* A Horn constraint is a vector of premises, a function from positions    *)
(* to data points so that a point may occur more than once, and a          *)
(* conclusion.  A constraint without conclusion (NULL in the code) has the *)
(* conclusion FalseDp, the solver's _false_datapoint.                      *)
(***************************************************************************)
CONSTANTS
  Point,      \* the data points of the sample
  FalseDp     \* stands for "no conclusion"

ASSUME FalseDpAssumption == FalseDp \notin Point

Node == Point \cup {FalseDp}

(* datapoint::_is_classified and _classification. *)
Label == {"true", "false", "none"}

(* The points a labelling classifies as v. *)
Labelled(label, v) == {x \in Point : label[x] = v}

(* A set M of points, read as "exactly these are true", satisfies the      *)
(* constraint with premise vector p and conclusion q.                      *)
Satisfies(M, p, q) == (\A i \in DOMAIN p : p[i] \in M) => q \in M

(* The total classifications that satisfy every constraint, make the       *)
(* points of T true and those of F false.                                  *)
Models(premises, conclusion, T, F) ==
  {M \in SUBSET Point : /\ T \subseteq M
                        /\ F \cap M = {}
                        /\ \A c \in DOMAIN premises :
                              Satisfies(M, premises[c], conclusion[c])}

(* The points every such classification makes true, and false. *)
ForcedTrue(MM)  == {x \in Point : \A M \in MM : x \in M}
ForcedFalse(MM) == {x \in Point : \A M \in MM : x \notin M}

(* Markings, declaratively: m marks x when x belongs to every set of nodes *)
(* that contains m and is closed under the constraints with the given      *)
(* bodies (sets of points) and heads.                                      *)
ClosedUnder(S, body, head) ==
  \A c \in DOMAIN body : body[c] # {} /\ body[c] \subseteq S => head[c] \in S

LeastMarking(body, head) ==
  [x \in Node |-> {m \in Point :
     \A S \in SUBSET Node : m \in S /\ ClosedUnder(S, body, head) => x \in S}]
============================================================================
