------------------------------- MODULE DtToZ3 -------------------------------
(***************************************************************************)
(* dt_to_z3_exp: from the learner's decision tree to conjectures, one      *)
(* expression for each predicate.                                          *)
(*                                                                         *)
(* An expression is the set of valuations of all variables, of every       *)
(* predicate, that satisfy it.  A tree is a leaf, if there is no sample,   *)
(* or splits on the predicate first and then on attributes.  An attribute  *)
(* is a variable of the predicate, or the sum or the difference of two;    *)
(* FALSE and TRUE are 0 and 1, as in the learner's data points.            *)
(***************************************************************************)
EXTENDS Integers, Sequences

CONSTANTS
  Relations,    \* the predicates, in the order of their identifiers
  VarsOf,       \* the variables of each predicate
  ValuesOf,     \* the values of each variable
  BoolVars,     \* the variables of sort Bool
  NodesOf,      \* the nodes trees have below the child of each predicate
  Height,       \* of a node: each of its children has a smaller one
  Trees         \* the trees a behaviour may be about

Var == UNION {VarsOf[r] : r \in DOMAIN VarsOf}
Valuation == {v \in [Var -> UNION {ValuesOf[x] : x \in Var}] : \A x \in Var : v[x] \in ValuesOf[x]}

Node == UNION {NodesOf[r] : r \in DOMAIN VarsOf}

ASSUME RelationsAssumption == Relations \in Seq(DOMAIN VarsOf)
ASSUME ValuesAssumption == \A x \in Var : ValuesOf[x] \subseteq Int
ASSUME BoolAssumption == \A x \in BoolVars : ValuesOf[x] \subseteq {0, 1}

-----------------------------------------------------------------------------
(* An attribute is made of one or two variables of the set V. *)
IsAttr(a, V) ==
  \/ a.op = "var" /\ a.of[1] \in V
  \/ a.op \in {"sum", "dif"} /\ a.of[1] \in V /\ a.of[2] \in V

(* N holds leaves and splits on attributes over V with two children in N. *)
AreNodes(N, V) ==
  \A n \in N :
    \/ n.kind = "leaf" /\ n.output \in BOOLEAN
    \/ /\ n.kind = "int" /\ IsAttr(n.attr, V) /\ n.threshold \in Int
       /\ n.left \in N /\ n.right \in N
       /\ Height[n.left] < Height[n] /\ Height[n.right] < Height[n]

ASSUME NodesAssumption == \A r \in DOMAIN VarsOf : AreNodes(NodesOf[r], VarsOf[r])

ASSUME HeightAssumption == Height \in [Node -> Nat]

(* The j-th child of a tree is in N; there is none if the sample has no    *)
(* point of the predicate.                                                 *)
ChildrenIn(j, N) ==
  \A t \in Trees : t.kind = "cat" => t.children[j].kind = "null" \/ t.children[j] \in N

ASSUME TreesAssumption ==
  /\ \A t \in Trees :
       \/ t.kind = "leaf" /\ t.output \in BOOLEAN
       \/ t.kind = "cat" /\ DOMAIN t.children = 1 .. Len(Relations)
  /\ \A j \in 1 .. Len(Relations) : ChildrenIn(j, NodesOf[Relations[j]])

VARIABLES
  tree,        \* the decision tree
  k,           \* categorical_identifier
  expression,  \* the local variable of get_z3_exp_categorical
  map          \* map_z3_expr

vars == <<tree, k, expression, map>>

-----------------------------------------------------------------------------
VarAttr(x)    == [op |-> "var", of |-> <<x>>]
SumAttr(x, y) == [op |-> "sum", of |-> <<x, y>>]
DifAttr(x, y) == [op |-> "dif", of |-> <<x, y>>]

AttrValue(a, v) ==
  CASE a.op = "var" -> v[a.of[1]]
    [] a.op = "sum" -> v[a.of[1]] + v[a.of[2]]
    [] a.op = "dif" -> v[a.of[1]] - v[a.of[2]]

IsBool(a) == a.op = "var" /\ a.of[1] \in BoolVars

Null == [kind |-> "null"]
Leaf(b) == [kind |-> "leaf", output |-> b]
IntNode(a, t, l, r) == [kind |-> "int", attr |-> a, threshold |-> t, left |-> l, right |-> r]

(* Evaluating a tree, as the learner does (output_visitor). *)
Output[n \in Node] ==
  IF n.kind = "leaf" THEN [v \in Valuation |-> n.output]
  ELSE [v \in Valuation |-> IF AttrValue(n.attr, v) <= n.threshold THEN Output[n.left][v]
                                                                   ELSE Output[n.right][v]]

(* Mutant: a split is translated into < and >=. *)
StrictGuard(n, isLeft) ==
  IF IsBool(n.attr)
  THEN {v \in Valuation : AttrValue(n.attr, v) = 1 /\ ((n.threshold = 1) <=> isLeft)}
  ELSE {v \in Valuation : (AttrValue(n.attr, v) < n.threshold) <=> isLeft}

(* What the expression of a child is conjoined with. *)
Guard(n, isLeft) ==
  IF IsBool(n.attr)
  THEN {v \in Valuation : AttrValue(n.attr, v) = 1 /\ ((n.threshold = 1) <=> isLeft)}
  ELSE {v \in Valuation : (AttrValue(n.attr, v) <= n.threshold) <=> isLeft}

(* get_z3_exp_leaf and get_z3_exp_int *)
LeafExp(n) == IF n.output THEN Valuation ELSE {}
Exp[n \in Node] ==
  IF n.kind = "leaf" THEN LeafExp(n)
  ELSE (Exp[n.left] \cap Guard(n, TRUE)) \cup (Exp[n.right] \cap Guard(n, FALSE))

Init ==
  /\ tree \in Trees
  /\ k = 1
  /\ expression = {}
  /\ map = <<>>

(* Mutant: a predicate without a child gets no conjecture. *)
ChildOrNone ==
  /\ tree.kind = "cat"
  /\ k <= Len(Relations)
  /\ LET n == tree.children[k] IN
       IF n.kind = "null" THEN UNCHANGED <<expression, map>>
       ELSE expression' = Exp[n] /\ map' = Append(map, expression')
  /\ k' = k + 1
  /\ UNCHANGED tree

(* get_z3_exp_categorical: the child of one predicate.  There is no child  *)
(* if the sample has no point of the predicate: the expression is still    *)
(* that of the predicate before it.                                        *)
Child ==
  /\ tree.kind = "cat"
  /\ k <= Len(Relations)
  /\ LET n == tree.children[k] IN
       expression' = IF n.kind = "null" THEN expression ELSE Exp[n]
  /\ map' = Append(map, expression')
  /\ k' = k + 1
  /\ UNCHANGED tree

(* get_unordered_map: the tree is a leaf. *)
Missing ==
  /\ tree.kind = "leaf"
  /\ k <= Len(Relations)
  /\ map' = Append(map, LeafExp(tree))
  /\ k' = k + 1
  /\ UNCHANGED <<tree, expression>>

Done == k > Len(Relations) /\ UNCHANGED vars

Next == Child \/ Missing \/ Done

Spec == Init /\ [][Next]_vars

-----------------------------------------------------------------------------
(* Types, and: every predicate visited has a conjecture, which conjectures.at *)
(* relies on.                                                               *)
TypeOK ==
  /\ k \in 1 .. Len(Relations) + 1
  /\ expression \subseteq Valuation
  /\ map \in Seq(SUBSET Valuation) /\ Len(map) = k - 1

(* check_chc: the conjecture of the j-th predicate for the arguments x,    *)
(* while Z3 has chosen v for variables that nothing binds.                 *)
TrueOf(j, x, v) ==
  [y \in Var |-> IF y \in VarsOf[Relations[j]] THEN x[y] ELSE v[y]] \in map[j]

HasPoints(j) == tree.kind = "cat" /\ tree.children[j].kind # "null"

(* get_conjectures: "a new set of conjectures that is consistent with the  *)
(* current sample".  The tree is consistent with it; on the predicates the *)
(* sample has points of, the conjectures are true of what the tree is true *)
(* of, whatever Z3 chooses for other variables.                            *)
ConjecturesAreTree ==
  \A j \in 1 .. Len(map) : HasPoints(j) =>
    \A x, v \in Valuation : TrueOf(j, x, v) <=> Output[tree.children[j]][x]

(* What the proof of ConjecturesAreTree carries along. *)
IInv ==
  /\ tree \in Trees
  /\ TypeOK
  /\ \A j \in 1 .. Len(map) : HasPoints(j) => map[j] = Exp[tree.children[j]]
=============================================================================
