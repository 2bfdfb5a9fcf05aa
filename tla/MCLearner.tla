----------------------------- MODULE MCLearner -----------------------------
(***************************************************************************)
(* Instances of Learner for TLC.  Values -3, 1 and 2 with bounds up to 2:  *)
(* -3 is cut only when no bound is used, 2 not by the first bound.         *)
(***************************************************************************)
EXTENDS Learner, FiniteSets, TLC

CONSTANTS a, b, c

ABC == {a, b, c}

(* Data points are pairwise different, as the teachers keep them.  Points  *)
(* are interchangeable, so a, b and c may be taken in increasing order.    *)
Less(cat, val, x, y) ==
  \/ cat[x] < cat[y]
  \/ cat[x] = cat[y] /\ val[x]["u"] < val[y]["u"]
  \/ cat[x] = cat[y] /\ val[x]["u"] = val[y]["u"] /\ val[x]["w"] < val[y]["w"]
Distinct(cat, val) == Less(cat, val, a, b) /\ Less(cat, val, b, c)

UW == {"u", "w"}

(* Splits on u in two categories, with w the same everywhere; and splits   *)
(* on either attribute in one category.                                    *)
OneAttributeData ==
  {d \in [cat : [ABC -> {1, 2}],
          val : [ABC -> {[i \in UW |-> IF i = "u" THEN v ELSE 0] : v \in {-3, 1, 2}}]] :
     Distinct(d.cat, d.val)}

TwoAttributeData ==
  {d \in [cat : [ABC -> {1}], val : [ABC -> [UW -> {-2, 1}]]] : Distinct(d.cat, d.val)}

(* Constraints whose head is not in their body. *)
Constraints ==
  {h \in [body : SUBSET ABC, head : ABC \cup {FalseDp}] : h.head \notin h.body}
UpToTwo == {{h, g} : h, g \in Constraints} \cup {{}}

FewLabels == {l \in [ABC -> Label] : Cardinality({x \in ABC : l[x] # "none"}) <= 1}

OneConstraint == {{h} : h \in Constraints}

Build(data, horns, labels) ==
  {[points |-> ABC, horn |-> h[1], cat |-> d.cat, val |-> d.val, label |-> l,
    bound |-> 1, useBound |-> h[2]] :
     d \in data, h \in horns, l \in labels}

(* No data points at all. *)
Nothing ==
  [points |-> {}, horn |-> {}, cat |-> [x \in ABC |-> 1],
   val |-> [x \in ABC |-> [i \in UW |-> 0]],
   label |-> [x \in ABC |-> "none"], bound |-> 1, useBound |-> TRUE]

(* Without a bound from the start only samples of one constraint; the      *)
(* others get there when the bounds are used up.                           *)
AllSamples ==
  Build(OneAttributeData \cup TwoAttributeData,
        (UpToTwo \X {TRUE}) \cup (OneConstraint \X {FALSE}), FewLabels)
    \cup {Nothing}

OneConstraintSamples == Build(OneAttributeData, OneConstraint \X {TRUE}, FewLabels)
============================================================================
