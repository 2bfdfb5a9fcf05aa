----------------------------- MODULE BoogieTree -----------------------------
(***************************************************************************)
(* What Boogie makes of the learner's tree: the .json file (json_visitor), *)
(* and one function for each existential function                          *)
(* (DecisionTreeDomain.constructModel, TreeNode.constructBoogieExpr).      *)
(*                                                                         *)
(* Trees, attributes and valuations are those of DtToZ3; the predicates    *)
(* are the existential functions.  Boogie writes all parameters to         *)
(* .attributes as "int" and knows their types when it reads the tree.  The *)
(* tree may also come from the pre-phase, whose splits need not divide     *)
(* anything.                                                               *)
(***************************************************************************)
EXTENDS DtToZ3

CONSTANT BoolParams   \* the parameters of type bool

ASSUME BoolParamsAssumption == \A x \in BoolParams : ValuesOf[x] \subseteq {0, 1}

-----------------------------------------------------------------------------
(* horndini::conjunction2tree *)
PredicateNode(p, rest) ==
  LET atLeast == IntNode(p.attr, p.threshold - 1, Leaf(FALSE), rest)
  IN  CASE p.type = "GE" -> atLeast
        [] p.type = "LE" -> IntNode(p.attr, p.threshold, rest, Leaf(FALSE))
        [] p.type = "EQ" -> IntNode(p.attr, p.threshold, atLeast, Leaf(FALSE))

ConjunctionTree(ps) ==
  LET from[i \in 1 .. Len(ps) + 1] ==
        IF i > Len(ps) THEN Leaf(TRUE) ELSE PredicateNode(ps[i], from[i + 1])
  IN  from[1]

(* A predicate the pre-phase derives, and the entry of a data point for it *)
(* (generate_derived_datapoints).                                          *)
IsPredicate(p) == p.type \in {"GE", "LE", "EQ"} /\ p.threshold \in Int
Entry(p, v) ==
  LET n == AttrValue(p.attr, v)
  IN  \/ p.type = "GE" /\ n >= p.threshold
      \/ p.type = "LE" /\ n <= p.threshold
      \/ p.type = "EQ" /\ n = p.threshold

IsBoolParam(a) == a.op = "var" /\ a.of[1] \in BoolParams

(* Mutant: the children of a Bool split are taken for true and false. *)
DecisionSwapped(n, isLeft) ==
  {v \in Valuation :
     IF IsBoolParam(n.attr) THEN (AttrValue(n.attr, v) = 1) <=> isLeft
                            ELSE (AttrValue(n.attr, v) <= n.threshold) <=> isLeft}

(* What is added to the path for a child: the cut of a Bool split is not   *)
(* looked at.                                                              *)
Decision(n, isLeft) ==
  {v \in Valuation :
     IF IsBoolParam(n.attr) THEN (AttrValue(n.attr, v) = 0) <=> isLeft
                            ELSE (AttrValue(n.attr, v) <= n.threshold) <=> isLeft}

(* constructBoogieExpr: the conjunctions along the paths to leaves labelled *)
(* true.                                                                    *)
PathFormulas[n \in Node] ==
  IF n.kind = "leaf" THEN [path \in SUBSET Valuation |-> IF n.output THEN {path} ELSE {}]
  ELSE [path \in SUBSET Valuation |-> PathFormulas[n.left][path \cap Decision(n, TRUE)]
                                        \cup PathFormulas[n.right][path \cap Decision(n, FALSE)]]

(* constructModel: a function without child becomes false. *)
Model(n) == IF n.kind = "null" THEN {} ELSE UNION PathFormulas[n][Valuation]

-----------------------------------------------------------------------------
(* Debug.Assert(node.cut == 0) holds for the splits below n. *)
BoolCutsAreZero[n \in Node] ==
  IF n.kind = "leaf" THEN TRUE
  ELSE /\ IsBoolParam(n.attr) => n.threshold = 0
       /\ BoolCutsAreZero[n.left]
       /\ BoolCutsAreZero[n.right]

(* "Generates a Boogie expression equivalent to the decision tree": the    *)
(* function Boogie goes on with is true of what the learner's tree, which  *)
(* is consistent with the sample, is true of, and false if the sample has  *)
(* no point of it.  For Bool splits this needs the assertion, which        *)
(* release builds do not evaluate.                                         *)
FunctionsAreTree ==
  tree.kind = "cat" =>
    \A j \in DOMAIN tree.children :
      LET n == tree.children[j]
          model == Model(n)
      IN  IF n.kind = "null" THEN model = {}
          ELSE BoolCutsAreZero[n] => model = {v \in Valuation : Output[n][v]}

(* "Generates a Boogie expression equivalent to the decision tree", in a   *)
(* release build too: for every tree the learner writes.                   *)
FunctionsAreTreeInRelease ==
  tree.kind = "cat" =>
    \A j \in DOMAIN tree.children :
      LET n == tree.children[j]
      IN  n.kind # "null" => Model(n) = {v \in Valuation : Output[n][v]}
=============================================================================
