------------------------------ MODULE MCDtToZ3 ------------------------------
(***************************************************************************)
(* Instances of DtToZ3 and BoogieTree for TLC: a predicate p of two        *)
(* arguments x and y, a predicate q of one argument z.                     *)
(***************************************************************************)
EXTENDS BoogieTree, FiniteSets

CONSTANTS x, y, z

PQVars == [r \in {"p", "q"} |-> IF r = "p" THEN {x, y} ELSE {z}]
QP == <<"q", "p">>

Ints  == [w \in {x, y, z} |-> IF w = z THEN 0 .. 1 ELSE -1 .. 1]
Bools == [w \in {x, y, z} |-> IF w = y THEN -1 .. 1 ELSE 0 .. 1]

Leaves == {Leaf(TRUE), Leaf(FALSE)}
Splits(attrs, left, right) ==
  {IntNode(a, t, l, r) : a \in attrs, t \in -1 .. 1, l \in left, r \in right}

(* Does each node divide the points that reach it, as a split does?  For   *)
(* trees with up to two splits on a path.                                  *)
LeftOf(n, S) == {v \in S : AttrValue(n.attr, v) <= n.threshold}
Divides(n, S) == n.kind = "leaf" \/ LeftOf(n, S) \notin {{}, S}
Grown(n) ==
  /\ Divides(n, Valuation)
  /\ n.kind = "int" =>
       LET L == LeftOf(n, Valuation)
       IN  Divides(n.left, L) /\ Divides(n.right, Valuation \ L)

PAttrs == {VarAttr(x), VarAttr(y), SumAttr(x, y), DifAttr(x, y)}
BAttrs == {VarAttr(x), VarAttr(y)}

(* Trees with up to two splits on a path. *)
GrownOver(attrs) ==
  LET one == {n \in Splits(attrs, Leaves, Leaves) : Grown(n)}
      two == Splits(attrs, one, Leaves) \cup Splits(attrs, Leaves, one)
  IN  Leaves \cup one \cup {n \in two : Grown(n)}

QNodes == {n \in Leaves \cup Splits({VarAttr(z)}, Leaves, Leaves) : Grown(n)}

(* Trees over p and q; at most one of them has no points. *)
Forest(first, second) ==
  Leaves \cup ({[kind |-> "cat", children |-> <<m, n>>] :
                  m \in first \cup {Null}, n \in second \cup {Null}}
                 \ {[kind |-> "cat", children |-> <<Null, Null>>]})

(* Conjunctions of up to two predicates, as the pre-phase derives them. *)
Conjunctions(attrs) ==
  UNION {[1 .. n -> [attr : attrs, type : {"GE", "LE", "EQ"}, threshold : -1 .. 1]] : n \in 0 .. 2}
ConjunctionTrees(attrs) == {ConjunctionTree(ps) : ps \in Conjunctions(attrs)}

PrephaseTrees ==
  {[kind |-> "cat", children |-> <<m, n>>] :
     m \in ConjunctionTrees({VarAttr(z)}), n \in ConjunctionTrees({SumAttr(x, y)})}
OverTwoAttributes ==
  {[kind |-> "cat", children |-> <<Leaf(TRUE), n>>] :
     n \in ConjunctionTrees({VarAttr(x), DifAttr(x, y)})}

(* The nodes that occur in trees of conjunctions of n predicates, at most  *)
(* two for each predicate, with a number that falls from node to child.    *)
WithChildren(S) ==
  S \cup UNION {{n.left, n.right} : n \in {o \in S : o.kind = "int"}}
Subtrees(S, n) ==
  LET below[m \in 0 .. 2 * n] == IF m = 0 THEN S ELSE WithChildren(below[m - 1])
  IN  below[2 * n]

Heights(nodes) ==
  LET h[n \in nodes] == IF n.kind # "int" THEN 0
                        ELSE 1 + h[n.left] + h[n.right]
  IN  h

IntTrees  == Forest(QNodes, GrownOver(PAttrs)) \cup PrephaseTrees \cup OverTwoAttributes
BoolTrees == Forest(QNodes, GrownOver(BAttrs))

IntNodes ==
  [q |-> QNodes \cup Subtrees(ConjunctionTrees({VarAttr(z)}), 2),
   p |-> GrownOver(PAttrs) \cup Subtrees(ConjunctionTrees({SumAttr(x, y)})
                                          \cup ConjunctionTrees({VarAttr(x), DifAttr(x, y)}), 2)]
BoolNodes == [q |-> QNodes, p |-> GrownOver(BAttrs)]

IntHeights  == Heights(IntNodes.q \cup IntNodes.p)
BoolHeights == Heights(BoolNodes.q \cup BoolNodes.p)

-----------------------------------------------------------------------------
(* A single function q of a Bool parameter z, and what the pre-phase makes *)
(* of the values D that have to be true: of the predicates it derives with *)
(* the threshold 1, in that order, those that hold for all of them.        *)
OnlyQ == <<"q">>
QVars == [r \in {"q"} |-> {z}]
Bit   == [w \in {z} |-> 0 .. 1]

DerivedAt(t) ==
  [i \in 1 .. 3 |-> [attr |-> VarAttr(z), type |-> <<"GE", "LE", "EQ">>[i], threshold |-> t]]
Kept(D) ==
  SelectSeq(DerivedAt(-1) \o DerivedAt(0) \o DerivedAt(1),
            LAMBDA p : \A n \in D : Entry(p, [w \in {z} |-> n]))

KeptTrees  == {ConjunctionTree(Kept(D)) : D \in SUBSET (0 .. 1)}
KeptNodes  == [r \in {"q"} |-> Subtrees(KeptTrees, 9)]
KeptHeights == Heights(KeptNodes["q"])
PrephaseResults == {[kind |-> "cat", children |-> <<n>>] : n \in KeptTrees}
=============================================================================
