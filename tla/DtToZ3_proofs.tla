--------------------------- MODULE DtToZ3_proofs ----------------------------
(***************************************************************************)
(* Proofs about DtToZ3 and BoogieTree, for trees of any depth over any     *)
(* predicates, attributes and values.                                      *)
(*                                                                         *)
(* Statements about every node are shown by considering a node of least    *)
(* Height for which they fail (LeastNat).  That the recursive functions    *)
(* over nodes exist, so that their defining equations may be used, is      *)
(* shown once (RecursionExists) for all functions that compute a value of  *)
(* a node from the values of its children.                                 *)
(***************************************************************************)
EXTENDS BoogieTree, WellFoundedInduction, TLAPS

(* A set of natural numbers that is not empty has a least element. *)
LEMMA LeastNat ==
  ASSUME NEW S, S \subseteq Nat, S # {}
  PROVE  \E m \in S : \A j \in S : m <= j
<1>1. \E R : IsWellFoundedOn(R, Nat) /\ R = {ss \in Nat \X Nat : ss[1] < ss[2]}
  BY NatLessThanWellFounded, Zenon DEF OpToRel
<1>2. PICK R : IsWellFoundedOn(R, Nat) /\ R = {ss \in Nat \X Nat : ss[1] < ss[2]}
  BY <1>1
<1>3. PICK m \in S : \A j \in S : ~ (<<j, m>> \in R)
  BY <1>2, WFMin
<1>4. \A j \in S : j < m => <<j, m>> \in R
  BY <1>2
<1>5. \A j \in S : ~ (j < m)
  BY <1>3, <1>4
<1>6. QED
  BY <1>5

(* Induction over nodes: a set of nodes that contains a node whenever it   *)
(* contains the children contains all nodes.                               *)
LEMMA NodeInduction ==
  ASSUME NEW S,
         \A n \in Node : (n.kind = "int" => n.left \in S /\ n.right \in S) => n \in S
  PROVE  Node \subseteq S
<1> DEFINE B == {Height[n] : n \in Node \ S}
<1>1. SUFFICES ASSUME Node \ S # {} PROVE FALSE
  OBVIOUS
<1>2. B \subseteq Nat /\ B # {}
  BY <1>1, HeightAssumption
<1>3. PICK m \in B : \A j \in B : m <= j
  <2> HIDE DEF B
  <2> QED BY <1>2, LeastNat
<1>4. PICK n \in Node \ S : Height[n] = m
  BY <1>3
<1>5. PICK r \in DOMAIN VarsOf : n \in NodesOf[r]
  BY <1>4 DEF Node
<1>6. n.kind = "int" /\ (n.left \notin S \/ n.right \notin S)
  BY <1>4
<1>7. /\ n.left \in Node /\ n.right \in Node
      /\ Height[n.left] < m /\ Height[n.right] < m
  BY <1>4, <1>5, <1>6, NodesAssumption DEF AreNodes, Node
<1>8. \A l \in Node \ S : m <= Height[l]
  BY <1>3
<1>9. m \in Nat /\ Height[n.left] \in Nat /\ Height[n.right] \in Nat
  BY <1>2, <1>3, <1>7, HeightAssumption
<1>10. QED
  BY <1>6, <1>7, <1>8, <1>9

(* What a node is. *)
LEMMA NodeKinds ==
  ASSUME NEW r \in DOMAIN VarsOf, NEW n \in NodesOf[r]
  PROVE  /\ n \in Node
         /\ \/ n.kind = "leaf" /\ n.output \in BOOLEAN
            \/ /\ n.kind = "int" /\ IsAttr(n.attr, VarsOf[r]) /\ n.threshold \in Int
               /\ n.left \in NodesOf[r] /\ n.right \in NodesOf[r]
               /\ n.left \in Node /\ n.right \in Node
               /\ Height[n.left] < Height[n] /\ Height[n.right] < Height[n]
BY NodesAssumption DEF AreNodes, Node

(* The nodes lower than m, and the functions on them that compute a value  *)
(* of a node from the values of its children: by leaf for a leaf, by split *)
(* for a split.                                                            *)
Below(m) == {n \in Node : Height[n] < m}
Equation(f, n, leaf, split) ==
  f[n] = IF n.kind = "leaf" THEN leaf[n] ELSE split[<<n, f[n.left], f[n.right]>>]
Computes(f, m, leaf, split, X) ==
  /\ f \in [Below(m) -> X]
  /\ \A n \in Below(m) : Equation(f, n, leaf, split)

(* With a node its children are below m. *)
LEMMA BelowClosed ==
  ASSUME NEW m \in Nat, NEW n \in Below(m + 1), n.kind # "leaf"
  PROVE  n.left \in Below(m) /\ n.right \in Below(m)
<1>1. PICK r \in DOMAIN VarsOf : n \in NodesOf[r]
  BY DEF Below, Node
<1>2. /\ n.left \in Node /\ n.right \in Node
      /\ Height[n.left] < Height[n] /\ Height[n.right] < Height[n]
  BY <1>1, NodeKinds
<1>3. Height[n] \in Nat /\ Height[n.left] \in Nat /\ Height[n.right] \in Nat
  BY <1>2, HeightAssumption DEF Below
<1>4. QED
  BY <1>2, <1>3 DEF Below

(* Two such functions agree where both are defined. *)
LEMMA ComputesUnique ==
  ASSUME NEW X, NEW leaf, NEW split, NEW f, NEW g, NEW m \in Nat, NEW j \in Nat, m <= j,
         Computes(f, m, leaf, split, X), Computes(g, j, leaf, split, X)
  PROVE  \A n \in Below(m) : f[n] = g[n]
<1> DEFINE S == {n \in Node : Height[n] < m => f[n] = g[n]}
<1>1. SUFFICES Node \subseteq S
  BY DEF Below
<1>2. ASSUME NEW n \in Node, n.kind = "int" => n.left \in S /\ n.right \in S, Height[n] < m
      PROVE  f[n] = g[n]
  <2>1. n \in Below(m) /\ n \in Below(j)
    BY <1>2, HeightAssumption DEF Below
  <2>2. Equation(f, n, leaf, split) /\ Equation(g, n, leaf, split)
    BY <2>1 DEF Computes
  <2>3. CASE n.kind = "leaf"
    BY <2>2, <2>3 DEF Equation
  <2>4. CASE n.kind # "leaf"
    <3>1. PICK r \in DOMAIN VarsOf : n \in NodesOf[r]
      BY DEF Node
    <3>2. n.kind = "int" /\ n.left \in Node /\ n.right \in Node
          /\ Height[n.left] < Height[n] /\ Height[n.right] < Height[n]
      BY <3>1, <2>4, NodeKinds
    <3>3. Height[n] \in Nat /\ Height[n.left] \in Nat /\ Height[n.right] \in Nat
      BY <3>2, HeightAssumption
    <3>4. f[n.left] = g[n.left] /\ f[n.right] = g[n.right]
      BY <3>2, <3>3, <1>2
    <3>5. QED
      BY <2>2, <2>4, <3>4 DEF Equation
  <2>5. QED
    BY <2>3, <2>4
<1>3. \A n \in Node : (n.kind = "int" => n.left \in S /\ n.right \in S) => n \in S
  BY <1>2
<1>4. QED
  <2> HIDE DEF S
  <2> QED BY <1>3, NodeInduction

(* Such functions exist for every height. *)
LEMMA ComputesExists ==
  ASSUME NEW X, NEW leaf, \A n \in Node : n.kind = "leaf" => leaf[n] \in X,
         NEW split \in [Node \X X \X X -> X]
  PROVE  \A m \in Nat : \E f : Computes(f, m, leaf, split, X)
<1> DEFINE B == {m \in Nat : ~ \E f : Computes(f, m, leaf, split, X)}
<1>1. SUFFICES ASSUME B # {} PROVE FALSE
  OBVIOUS
<1>2. PICK m \in B : \A j \in B : m <= j
  <2>1. B \subseteq Nat
    OBVIOUS
  <2> HIDE DEF B
  <2> QED BY <1>1, <2>1, LeastNat
<1>3. m # 0
  <2>1. Below(0) = {}
    BY HeightAssumption DEF Below
  <2>2. Computes([n \in Below(0) |-> leaf[n]], 0, leaf, split, X)
    BY <2>1 DEF Computes
  <2>3. QED
    BY <2>2
<1>4. m - 1 \in Nat /\ m - 1 \notin B
  BY <1>2, <1>3
<1>5. PICK f : Computes(f, m - 1, leaf, split, X)
  BY <1>4
<1> DEFINE g == [n \in Below(m) |-> IF n.kind = "leaf" THEN leaf[n]
                                    ELSE split[<<n, f[n.left], f[n.right]>>]]
<1>6. f \in [Below(m - 1) -> X]
  BY <1>5 DEF Computes
<1>7. \A n \in Below(m) : n \in Node
                         /\ (n.kind # "leaf" => n.left \in Below(m - 1) /\ n.right \in Below(m - 1))
  BY <1>4, BelowClosed DEF Below
<1>8. g \in [Below(m) -> X]
  BY <1>6, <1>7
<1>9. \A n \in Below(m - 1) : n \in Below(m) /\ f[n] = g[n]
  <2>1. Below(m - 1) \subseteq Below(m)
    BY <1>2, <1>4, HeightAssumption DEF Below
  <2>2. \A n \in Below(m - 1) : Equation(f, n, leaf, split)
    BY <1>5 DEF Computes
  <2>3. QED
    BY <2>1, <2>2 DEF Equation
<1>10. \A n \in Below(m) : Equation(g, n, leaf, split)
  BY <1>7, <1>9 DEF Equation
<1>11. Computes(g, m, leaf, split, X)
  BY <1>8, <1>10 DEF Computes
<1>12. QED
  BY <1>2, <1>11

(* A recursive definition over nodes has a solution. *)
LEMMA RecursionExists ==
  ASSUME NEW X, NEW leaf, \A n \in Node : n.kind = "leaf" => leaf[n] \in X,
         NEW split \in [Node \X X \X X -> X]
  PROVE  \E f \in [Node -> X] : \A n \in Node : Equation(f, n, leaf, split)
<1> DEFINE S(m) == CHOOSE f : Computes(f, m, leaf, split, X)
           F == [n \in Node |-> S(Height[n] + 1)[n]]
<1>1. \A m \in Nat : Computes(S(m), m, leaf, split, X)
  BY ComputesExists
<1> HIDE DEF S
<1>2. \A n \in Node : Height[n] \in Nat /\ n \in Below(Height[n] + 1)
  BY HeightAssumption DEF Below
<1>3. \A n \in Node : S(Height[n] + 1) \in [Below(Height[n] + 1) -> X]
                      /\ Equation(S(Height[n] + 1), n, leaf, split)
  BY <1>1, <1>2 DEF Computes
<1>4. F \in [Node -> X]
  BY <1>2, <1>3
<1>5. \A n, l \in Node : Height[l] < Height[n] => F[l] = S(Height[n] + 1)[l]
  <2> SUFFICES ASSUME NEW n \in Node, NEW l \in Node, Height[l] < Height[n]
               PROVE  S(Height[l] + 1)[l] = S(Height[n] + 1)[l]
    OBVIOUS
  <2>1. /\ Height[l] + 1 \in Nat /\ Height[n] + 1 \in Nat
        /\ Height[l] + 1 <= Height[n] + 1
    BY <1>2
  <2>2. /\ Computes(S(Height[l] + 1), Height[l] + 1, leaf, split, X)
        /\ Computes(S(Height[n] + 1), Height[n] + 1, leaf, split, X)
    BY <1>1, <2>1
  <2>3. QED
    BY <1>2, <2>1, <2>2, ComputesUnique
<1>6. ASSUME NEW n \in Node
      PROVE  Equation(F, n, leaf, split)
  <2>1. Equation(S(Height[n] + 1), n, leaf, split) /\ F[n] = S(Height[n] + 1)[n]
    BY <1>3
  <2>2. CASE n.kind = "leaf"
    BY <2>1, <2>2 DEF Equation
  <2>3. CASE n.kind # "leaf"
    <3>1. PICK r \in DOMAIN VarsOf : n \in NodesOf[r]
      BY DEF Node
    <3>2. n.left \in Node /\ n.right \in Node
          /\ Height[n.left] < Height[n] /\ Height[n.right] < Height[n]
      BY <3>1, <2>3, NodeKinds
    <3>3. F[n.left] = S(Height[n] + 1)[n.left] /\ F[n.right] = S(Height[n] + 1)[n.right]
      BY <1>5, <3>2
    <3> HIDE DEF F
    <3>4. QED
      BY <2>1, <2>3, <3>3 DEF Equation
  <2>4. QED
    BY <2>2, <2>3
<1>7. QED
  BY <1>4, <1>6

-----------------------------------------------------------------------------
(* The defining equation of Output. *)
LEMMA OutputDef ==
  /\ Output \in [Node -> [Valuation -> BOOLEAN]]
  /\ \A n \in Node :
       Output[n] =
         IF n.kind = "leaf" THEN [v \in Valuation |-> n.output]
         ELSE [v \in Valuation |-> IF AttrValue(n.attr, v) <= n.threshold
                                   THEN Output[n.left][v] ELSE Output[n.right][v]]
<1> DEFINE X == [Valuation -> BOOLEAN]
           leaf == [n \in Node |-> [v \in Valuation |-> n.output]]
           split == [t \in Node \X X \X X |->
                       [v \in Valuation |-> IF AttrValue(t[1].attr, v) <= t[1].threshold
                                            THEN t[2][v] ELSE t[3][v]]]
           Body(f) == [n \in Node |->
                         IF n.kind = "leaf" THEN [v \in Valuation |-> n.output]
                         ELSE [v \in Valuation |-> IF AttrValue(n.attr, v) <= n.threshold
                                                   THEN f[n.left][v] ELSE f[n.right][v]]]
<1>1. \A n \in Node : n.kind = "leaf" => leaf[n] \in X
  BY NodeKinds DEF Node
<1>2. split \in [Node \X X \X X -> X]
  OBVIOUS
<1>3. PICK f \in [Node -> X] : \A n \in Node : Equation(f, n, leaf, split)
  <2> HIDE DEF X, leaf, split
  <2> QED BY <1>1, <1>2, RecursionExists
<1>4. \A n \in Node : n.kind # "leaf" => n.left \in Node /\ n.right \in Node
  BY NodeKinds DEF Node
<1>5. ASSUME NEW n \in Node
      PROVE  f[n] = Body(f)[n]
  <2>1. CASE n.kind = "leaf"
    BY <1>3, <2>1 DEF Equation
  <2>2. CASE n.kind # "leaf"
    <3>1. <<n, f[n.left], f[n.right]>> \in Node \X X \X X
      BY <1>4, <2>2
    <3>2. f[n] = split[<<n, f[n.left], f[n.right]>>]
      BY <1>3, <2>2 DEF Equation
    <3>3. QED
      BY <3>1, <3>2, <2>2
  <2>3. QED
    BY <2>1, <2>2
<1>6. f = Body(f)
  BY <1>3, <1>5
<1>7. Output = Body(Output)
  BY <1>6 DEF Output
<1> DEFINE S == {n \in Node : Output[n] \in X}
<1>8. \A n \in Node : (n.kind = "int" => n.left \in S /\ n.right \in S) => n \in S
  <2> SUFFICES ASSUME NEW n \in Node, n.kind = "int" => n.left \in S /\ n.right \in S
               PROVE  Output[n] \in X
    OBVIOUS
  <2>1. Output[n] = Body(Output)[n]
    BY <1>7, Zenon
  <2>2. \/ n.kind = "leaf" /\ n.output \in BOOLEAN
        \/ n.kind = "int"
    BY NodeKinds DEF Node
  <2>3. QED
    BY <2>1, <2>2
<1>9. Node \subseteq S
  <2> HIDE DEF S
  <2> QED BY <1>8, NodeInduction
<1>10. Output \in [Node -> X]
  BY <1>7, <1>9
<1>11. \A n \in Node : Output[n] = Body(Output)[n]
  BY <1>7, Zenon
<1>12. QED
  BY <1>10, <1>11

(* The defining equation of Exp. *)
LEMMA ExpDef ==
  /\ Exp \in [Node -> SUBSET Valuation]
  /\ \A n \in Node :
       Exp[n] = IF n.kind = "leaf" THEN LeafExp(n)
                ELSE (Exp[n.left] \cap Guard(n, TRUE)) \cup (Exp[n.right] \cap Guard(n, FALSE))
<1> DEFINE X == SUBSET Valuation
           leaf == [n \in Node |-> LeafExp(n)]
           split == [t \in Node \X X \X X |->
                       (t[2] \cap Guard(t[1], TRUE)) \cup (t[3] \cap Guard(t[1], FALSE))]
           Body(f) == [n \in Node |->
                         IF n.kind = "leaf" THEN LeafExp(n)
                         ELSE (f[n.left] \cap Guard(n, TRUE)) \cup (f[n.right] \cap Guard(n, FALSE))]
<1>1. \A n \in Node : leaf[n] \in X
  BY DEF LeafExp
<1>2. split \in [Node \X X \X X -> X]
  OBVIOUS
<1>3. PICK f \in [Node -> X] : \A n \in Node : Equation(f, n, leaf, split)
  <2> HIDE DEF X, leaf, split
  <2> QED BY <1>1, <1>2, RecursionExists
<1>4. \A n \in Node : n.kind # "leaf" => n.left \in Node /\ n.right \in Node
  BY NodeKinds DEF Node
<1>5. ASSUME NEW n \in Node
      PROVE  f[n] = Body(f)[n]
  <2>1. CASE n.kind = "leaf"
    BY <1>3, <2>1 DEF Equation
  <2>2. CASE n.kind # "leaf"
    <3>1. <<n, f[n.left], f[n.right]>> \in Node \X X \X X
      BY <1>4, <2>2
    <3>2. f[n] = split[<<n, f[n.left], f[n.right]>>]
      BY <1>3, <2>2 DEF Equation
    <3>3. QED
      BY <3>1, <3>2, <2>2
  <2>3. QED
    BY <2>1, <2>2
<1>6. f = Body(f)
  BY <1>3, <1>5
<1>7. Exp = Body(Exp)
  BY <1>6 DEF Exp
<1>8. \A n \in Node : Exp[n] = Body(Exp)[n]
  BY <1>7, Zenon
<1> DEFINE S == {n \in Node : Exp[n] \in X}
<1>9. \A n \in Node : (n.kind = "int" => n.left \in S /\ n.right \in S) => n \in S
  <2> SUFFICES ASSUME NEW n \in Node, n.kind = "int" => n.left \in S /\ n.right \in S
               PROVE  Exp[n] \in X
    OBVIOUS
  <2>1. Exp[n] = Body(Exp)[n]
    BY <1>8
  <2>2. n.kind = "leaf" \/ n.kind = "int"
    BY NodeKinds DEF Node
  <2>3. QED
    BY <2>1, <2>2 DEF LeafExp
<1>10. Node \subseteq S
  <2> HIDE DEF S
  <2> QED BY <1>9, NodeInduction
<1>11. Exp \in [Node -> X]
  BY <1>7, <1>10
<1>12. QED
  BY <1>8, <1>11

-----------------------------------------------------------------------------
(* Attributes have integer values, which depend on their own variables     *)
(* only.                                                                   *)
LEMMA AttrValues ==
  ASSUME NEW r \in DOMAIN VarsOf, NEW a, IsAttr(a, VarsOf[r]), NEW v \in Valuation
  PROVE  /\ AttrValue(a, v) \in Int
         /\ \A w \in Valuation : (\A y \in VarsOf[r] : w[y] = v[y]) => AttrValue(a, w) = AttrValue(a, v)
<1>1. \A y \in VarsOf[r] : y \in Var
  BY DEF Var
<1>2. \A w \in Valuation, y \in VarsOf[r] : w[y] \in Int
  BY <1>1, ValuesAssumption DEF Valuation
<1>3. QED
  BY <1>2 DEF IsAttr, AttrValue

(* get_z3_exp_int and get_z3_exp_leaf: if no variable is of sort Bool, the *)
(* expression of a node is true of exactly the valuations for which the    *)
(* node's output is true.                                                  *)
LEMMA ExpIsOutput ==
  ASSUME BoolVars = {}
  PROVE  \A n \in Node : \A v \in Valuation : v \in Exp[n] <=> Output[n][v]
<1> DEFINE S == {n \in Node : \A v \in Valuation : v \in Exp[n] <=> Output[n][v]}
<1>1. ASSUME NEW n \in Node, n.kind = "int" => n.left \in S /\ n.right \in S, NEW v \in Valuation
      PROVE  v \in Exp[n] <=> Output[n][v]
  <2>1. PICK r \in DOMAIN VarsOf : n \in NodesOf[r]
    BY DEF Node
  <2>2. CASE n.kind = "leaf"
    BY <2>1, <2>2, NodeKinds, ExpDef, OutputDef DEF LeafExp
  <2>3. CASE n.kind # "leaf"
    <3>1. /\ n.kind = "int" /\ IsAttr(n.attr, VarsOf[r]) /\ n.threshold \in Int
          /\ n.left \in Node /\ n.right \in Node
      BY <2>1, <2>3, NodeKinds
    <3>2. v \in Exp[n.left] <=> Output[n.left][v]
      BY <1>1, <3>1
    <3>3. v \in Exp[n.right] <=> Output[n.right][v]
      BY <1>1, <3>1
    <3>4. /\ v \in Guard(n, TRUE) <=> AttrValue(n.attr, v) <= n.threshold
          /\ v \in Guard(n, FALSE) <=> ~ (AttrValue(n.attr, v) <= n.threshold)
      BY DEF Guard, IsBool
    <3>5. Exp[n] = (Exp[n.left] \cap Guard(n, TRUE)) \cup (Exp[n.right] \cap Guard(n, FALSE))
      BY <2>3, ExpDef
    <3>6. Output[n][v] = IF AttrValue(n.attr, v) <= n.threshold
                         THEN Output[n.left][v] ELSE Output[n.right][v]
      BY <2>3, OutputDef
    <3>7. QED
      BY <3>2, <3>3, <3>4, <3>5, <3>6
  <2>4. QED
    BY <2>2, <2>3
<1>2. \A n \in Node : (n.kind = "int" => n.left \in S /\ n.right \in S) => n \in S
  BY <1>1
<1>3. Node \subseteq S
  <2> HIDE DEF S
  <2> QED BY <1>2, NodeInduction
<1>4. QED
  BY <1>3

(* The output of a node of a predicate depends on the values of the        *)
(* predicate's variables only.                                             *)
LEMMA OutputLocal ==
  ASSUME NEW r \in DOMAIN VarsOf, NEW v \in Valuation, NEW w \in Valuation,
         \A y \in VarsOf[r] : w[y] = v[y]
  PROVE  \A n \in NodesOf[r] : Output[n][w] = Output[n][v]
<1> DEFINE S == {n \in Node : n \in NodesOf[r] => Output[n][w] = Output[n][v]}
<1>1. ASSUME NEW n \in Node, n.kind = "int" => n.left \in S /\ n.right \in S, n \in NodesOf[r]
      PROVE  Output[n][w] = Output[n][v]
  <2>1. CASE n.kind = "leaf"
    BY <2>1, OutputDef
  <2>2. CASE n.kind # "leaf"
    <3>1. /\ n.kind = "int" /\ IsAttr(n.attr, VarsOf[r])
          /\ n.left \in NodesOf[r] /\ n.right \in NodesOf[r]
      BY <1>1, <2>2, NodeKinds
    <3>2. Output[n.left][w] = Output[n.left][v] /\ Output[n.right][w] = Output[n.right][v]
      BY <1>1, <3>1
    <3>3. AttrValue(n.attr, w) = AttrValue(n.attr, v)
      BY <3>1, AttrValues
    <3>4. \A u \in Valuation : Output[n][u] = IF AttrValue(n.attr, u) <= n.threshold
                                               THEN Output[n.left][u] ELSE Output[n.right][u]
      BY <2>2, OutputDef
    <3>5. QED
      BY <3>2, <3>3, <3>4
  <2>3. QED
    BY <2>1, <2>2
<1>2. \A n \in Node : (n.kind = "int" => n.left \in S /\ n.right \in S) => n \in S
  BY <1>1
<1>3. Node \subseteq S
  <2> HIDE DEF S
  <2> QED BY <1>2, NodeInduction
<1>4. QED
  BY <1>3, NodeKinds

-----------------------------------------------------------------------------
(* The child of a predicate with data points is a node of the predicate. *)
LEMMA ChildIsNode ==
  ASSUME tree \in Trees, NEW j \in 1 .. Len(Relations), tree.kind = "cat",
         tree.children[j].kind # "null"
  PROVE  Relations[j] \in DOMAIN VarsOf /\ tree.children[j] \in NodesOf[Relations[j]]
BY RelationsAssumption, TreesAssumption DEF ChildrenIn

(* No predicate has been visited yet. *)
LEMMA InitIInv == Init => IInv
BY RelationsAssumption DEF Init, IInv, TypeOK

(* get_z3_exp_categorical: an expression for every predicate, that of its  *)
(* own child if it has one.                                                *)
LEMMA ChildIInv == IInv /\ Child => IInv'
<1> SUFFICES ASSUME IInv, Child PROVE IInv'
  OBVIOUS
<1>1. tree' = tree /\ tree \in Trees /\ k \in 1 .. Len(Relations) /\ k' = k + 1
  BY RelationsAssumption DEF IInv, TypeOK, Child
<1> DEFINE n == tree.children[k]
<1>2. expression' = IF n.kind = "null" THEN expression ELSE Exp[n]
  BY DEF Child
<1>3. n.kind # "null" => n \in Node
  BY <1>1, ChildIsNode, NodeKinds DEF Child
<1>4. expression' \subseteq Valuation
  BY <1>2, <1>3, ExpDef DEF IInv, TypeOK
<1>5. map' = Append(map, expression') /\ map \in Seq(SUBSET Valuation) /\ Len(map) = k - 1
  BY DEF Child, IInv, TypeOK
<1>6. /\ map' \in Seq(SUBSET Valuation) /\ Len(map') = k
      /\ \A j \in 1 .. k - 1 : map'[j] = map[j]
      /\ map'[k] = expression'
  BY <1>1, <1>4, <1>5
<1>7. TypeOK'
  BY <1>1, <1>4, <1>6, RelationsAssumption DEF TypeOK
<1>8. ASSUME NEW j \in 1 .. Len(map'), HasPoints(j)'
      PROVE  map'[j] = Exp[tree'.children[j]]
  <2>1. CASE j = k
    BY <1>1, <1>2, <1>6, <1>8, <2>1 DEF HasPoints
  <2>2. CASE j # k
    <3>1. j \in 1 .. Len(map) /\ HasPoints(j)
      BY <1>1, <1>5, <1>6, <1>8, <2>2 DEF HasPoints
    <3>2. QED
      BY <1>1, <1>5, <1>6, <3>1 DEF IInv
  <2>3. QED
    BY <2>1, <2>2
<1>9. QED
  BY <1>1, <1>7, <1>8 DEF IInv

(* get_unordered_map: a leaf gives the same constant for every predicate. *)
LEMMA MissingIInv == IInv /\ Missing => IInv'
<1> SUFFICES ASSUME IInv, Missing PROVE IInv'
  OBVIOUS
<1>1. /\ tree' = tree /\ tree \in Trees /\ k \in 1 .. Len(Relations) /\ k' = k + 1
      /\ expression' = expression /\ expression \subseteq Valuation
  BY RelationsAssumption DEF IInv, TypeOK, Missing
<1>2. LeafExp(tree) \subseteq Valuation
  BY DEF LeafExp
<1>3. map' = Append(map, LeafExp(tree)) /\ map \in Seq(SUBSET Valuation) /\ Len(map) = k - 1
  BY DEF Missing, IInv, TypeOK
<1>4. map' \in Seq(SUBSET Valuation) /\ Len(map') = k
  BY <1>1, <1>2, <1>3
<1>5. TypeOK'
  BY <1>1, <1>4, RelationsAssumption DEF TypeOK
<1>6. \A j : ~ HasPoints(j)'
  BY <1>1 DEF Missing, HasPoints
<1>7. QED
  BY <1>1, <1>5, <1>6 DEF IInv

(* Every step preserves the invariant. *)
LEMMA NextIInv == IInv /\ [Next]_vars => IInv'
<1>1. IInv /\ UNCHANGED vars => IInv'
  BY DEF IInv, TypeOK, HasPoints, vars
<1>2. QED
  BY <1>1, ChildIInv, MissingIInv DEF Next, Done

(* The inductive invariant of the translation, for trees of any depth: the *)
(* expression stored for a predicate with data points is that of its own   *)
(* child.                                                                  *)
THEOREM Invariant == Spec => []IInv
BY InitIInv, NextIInv, PTL DEF Spec

(* Each predicate visited by get_unordered_map has an expression, which    *)
(* conjectures.at relies on.                                               *)
THEOREM TypeCorrect == Spec => []TypeOK
<1>1. IInv => TypeOK
  BY DEF IInv
<1>2. QED
  BY <1>1, Invariant, PTL

(* With the invariant, conjectures are what the tree says. *)
LEMMA InvConjectures ==
  ASSUME BoolVars = {}
  PROVE  IInv => ConjecturesAreTree
<1> SUFFICES ASSUME IInv, NEW j \in 1 .. Len(map), HasPoints(j),
                    NEW x \in Valuation, NEW v \in Valuation
             PROVE  TrueOf(j, x, v) <=> Output[tree.children[j]][x]
  BY DEF ConjecturesAreTree
<1> DEFINE r == Relations[j]
           n == tree.children[j]
           w == [y \in Var |-> IF y \in VarsOf[r] THEN x[y] ELSE v[y]]
<1>1. tree \in Trees /\ j \in 1 .. Len(Relations)
  BY RelationsAssumption DEF IInv, TypeOK
<1>2. r \in DOMAIN VarsOf /\ n \in NodesOf[r] /\ n \in Node
  BY <1>1, ChildIsNode, NodeKinds DEF HasPoints
<1>3. w \in Valuation
  BY DEF Valuation
<1>4. \A y \in VarsOf[r] : w[y] = x[y]
  BY <1>2 DEF Var
<1>5. map[j] = Exp[n]
  BY DEF IInv
<1>6. TrueOf(j, x, v) <=> w \in Exp[n]
  BY <1>5 DEF TrueOf
<1>7. w \in Exp[n] <=> Output[n][w]
  BY <1>2, <1>3, ExpIsOutput
<1>8. Output[n][w] = Output[n][x]
  <2> HIDE DEF w, r, n
  <2> QED BY <1>2, <1>3, <1>4, OutputLocal
<1>9. QED
  BY <1>6, <1>7, <1>8

(* If no argument is of sort Bool (see the run dt_bool for those that      *)
(* are), the conjectures of dt_to_z3_exp are true of exactly what the tree *)
(* is true of, for trees of any depth, any values, and whatever Z3 chooses *)
(* for the variables of other predicates.                                  *)
THEOREM ConjecturesRight ==
  ASSUME BoolVars = {}
  PROVE  Spec => []ConjecturesAreTree
BY InvConjectures, Invariant, PTL

-----------------------------------------------------------------------------
(* The defining equation of PathFormulas. *)
LEMMA PathFormulasDef ==
  /\ PathFormulas \in [Node -> [SUBSET Valuation -> SUBSET SUBSET Valuation]]
  /\ \A n \in Node :
       PathFormulas[n] =
         IF n.kind = "leaf" THEN [path \in SUBSET Valuation |-> IF n.output THEN {path} ELSE {}]
         ELSE [path \in SUBSET Valuation |->
                 PathFormulas[n.left][path \cap Decision(n, TRUE)]
                   \cup PathFormulas[n.right][path \cap Decision(n, FALSE)]]
<1> DEFINE P == SUBSET Valuation
           X == [P -> SUBSET P]
           LeafPaths(n) == [path \in P |-> IF n.output THEN {path} ELSE {}]
           Join(n, a, b) == [path \in P |-> a[path \cap Decision(n, TRUE)]
                                              \cup b[path \cap Decision(n, FALSE)]]
           leaf == [n \in Node |-> LeafPaths(n)]
           split == [t \in Node \X X \X X |-> Join(t[1], t[2], t[3])]
           Body(f) == [n \in Node |-> IF n.kind = "leaf" THEN LeafPaths(n)
                                      ELSE Join(n, f[n.left], f[n.right])]
<1>0. /\ \A n : LeafPaths(n) \in X
      /\ \A n : \A a, b \in X : Join(n, a, b) \in X
  <2>1. \A n : LeafPaths(n) \in X
    OBVIOUS
  <2>2. ASSUME NEW n, NEW a \in X, NEW b \in X
        PROVE  Join(n, a, b) \in X
    <3>1. \A path \in P : path \cap Decision(n, TRUE) \in P /\ path \cap Decision(n, FALSE) \in P
      OBVIOUS
    <3>2. \A path \in P : a[path \cap Decision(n, TRUE)] \cup b[path \cap Decision(n, FALSE)] \in SUBSET P
      <4> HIDE DEF P
      <4> QED BY <3>1
    <3> HIDE DEF P
    <3>3. QED
      BY <3>2
  <2>3. QED
    BY <2>1, <2>2
<1> HIDE DEF X, LeafPaths, Join
<1>1. \A n \in Node : leaf[n] \in X
  BY <1>0
<1>2. split \in [Node \X X \X X -> X]
  BY <1>0
<1>3. PICK f \in [Node -> X] : \A n \in Node : Equation(f, n, leaf, split)
  <2> HIDE DEF leaf, split
  <2> QED BY <1>1, <1>2, RecursionExists
<1>4. \A n \in Node : n.kind # "leaf" => n.left \in Node /\ n.right \in Node
  BY NodeKinds DEF Node
<1>5. ASSUME NEW n \in Node
      PROVE  f[n] = Body(f)[n]
  <2>1. CASE n.kind = "leaf"
    BY <1>3, <2>1 DEF Equation
  <2>2. CASE n.kind # "leaf"
    <3>1. <<n, f[n.left], f[n.right]>> \in Node \X X \X X
      BY <1>4, <2>2
    <3>2. f[n] = split[<<n, f[n.left], f[n.right]>>]
      BY <1>3, <2>2 DEF Equation
    <3>3. QED
      BY <3>1, <3>2, <2>2
  <2>3. QED
    BY <2>1, <2>2
<1>6. f = Body(f)
  BY <1>3, <1>5
<1>7. PathFormulas = Body(PathFormulas)
  BY <1>6 DEF PathFormulas, LeafPaths, Join
<1>8. \A n \in Node : PathFormulas[n] = Body(PathFormulas)[n]
  BY <1>7, Zenon
<1> DEFINE S == {n \in Node : PathFormulas[n] \in X}
<1>9. \A n \in Node : (n.kind = "int" => n.left \in S /\ n.right \in S) => n \in S
  <2> SUFFICES ASSUME NEW n \in Node, n.kind = "int" => n.left \in S /\ n.right \in S
               PROVE  PathFormulas[n] \in X
    OBVIOUS
  <2>1. PathFormulas[n] = Body(PathFormulas)[n]
    BY <1>8
  <2>2. n.kind = "leaf" \/ n.kind = "int"
    BY NodeKinds DEF Node
  <2>3. QED
    BY <1>0, <2>1, <2>2
<1>10. Node \subseteq S
  <2> HIDE DEF S
  <2> QED BY <1>9, NodeInduction
<1>11. PathFormulas \in [Node -> X]
  BY <1>7, <1>10
<1>12. QED
  BY <1>8, <1>11 DEF X, LeafPaths, Join

(* The defining equation of BoolCutsAreZero. *)
LEMMA BoolCutsDef ==
  \A n \in Node :
    BoolCutsAreZero[n] =
      IF n.kind = "leaf" THEN TRUE
      ELSE /\ IsBoolParam(n.attr) => n.threshold = 0
           /\ BoolCutsAreZero[n.left]
           /\ BoolCutsAreZero[n.right]
<1> DEFINE X == BOOLEAN
           Here(n) == IsBoolParam(n.attr) => n.threshold = 0
           leaf == [n \in Node |-> TRUE]
           split == [t \in Node \X X \X X |-> Here(t[1]) /\ t[2] /\ t[3]]
           Body(f) == [n \in Node |-> IF n.kind = "leaf" THEN TRUE
                                      ELSE /\ IsBoolParam(n.attr) => n.threshold = 0
                                           /\ f[n.left]
                                           /\ f[n.right]]
<1>1. \A n \in Node : leaf[n] \in X
  OBVIOUS
<1>2. split \in [Node \X X \X X -> X]
  OBVIOUS
<1>3. PICK f \in [Node -> X] : \A n \in Node : Equation(f, n, leaf, split)
  <2> HIDE DEF X, leaf, split
  <2> QED BY <1>1, <1>2, RecursionExists
<1>4. \A n \in Node : n.kind # "leaf" => n.left \in Node /\ n.right \in Node
  BY NodeKinds DEF Node
<1>5. ASSUME NEW n \in Node
      PROVE  f[n] = Body(f)[n]
  <2>1. CASE n.kind = "leaf"
    BY <1>3, <2>1 DEF Equation
  <2>2. CASE n.kind # "leaf"
    <3>1. <<n, f[n.left], f[n.right]>> \in Node \X X \X X
      BY <1>4, <2>2
    <3>2. f[n] = split[<<n, f[n.left], f[n.right]>>]
      BY <1>3, <2>2 DEF Equation
    <3>3. QED
      BY <3>1, <3>2, <2>2
  <2>3. QED
    BY <2>1, <2>2
<1>6. f = Body(f)
  BY <1>3, <1>5
<1>7. BoolCutsAreZero = Body(BoolCutsAreZero)
  BY <1>6, Zenon DEF BoolCutsAreZero
<1>8. QED
  BY <1>7, Zenon

(* What constructBoogieExpr adds to the path is the test of the split, if  *)
(* a split on a Bool parameter is at 0.                                    *)
LEMMA DecisionIsTest ==
  ASSUME NEW r \in DOMAIN VarsOf, NEW n \in NodesOf[r], n.kind = "int",
         IsBoolParam(n.attr) => n.threshold = 0, NEW v \in Valuation
  PROVE  /\ v \in Decision(n, TRUE) <=> AttrValue(n.attr, v) <= n.threshold
         /\ v \in Decision(n, FALSE) <=> ~ (AttrValue(n.attr, v) <= n.threshold)
<1>1. CASE IsBoolParam(n.attr)
  <2>1. n.attr.op = "var" /\ n.attr.of[1] \in BoolParams /\ n.threshold = 0
    BY <1>1 DEF IsBoolParam
  <2>2. n.attr.of[1] \in Var
    BY <2>1, NodeKinds DEF IsAttr, Var
  <2>3. AttrValue(n.attr, v) \in {0, 1}
    BY <2>1, <2>2, BoolParamsAssumption DEF AttrValue, Valuation
  <2>4. QED
    BY <1>1, <2>1, <2>3 DEF Decision
<1>2. CASE ~ IsBoolParam(n.attr)
  BY <1>2 DEF Decision
<1>3. QED
  BY <1>1, <1>2

(* constructBoogieExpr: the disjunction of the path formulas below a node  *)
(* is true of what the path so far and the node's output are true of.      *)
LEMMA PathsAreOutput ==
  \A n \in Node : BoolCutsAreZero[n] =>
    \A path \in SUBSET Valuation : UNION PathFormulas[n][path] = {v \in path : Output[n][v]}
<1> DEFINE Says(n) == \A path \in SUBSET Valuation :
                        UNION PathFormulas[n][path] = {v \in path : Output[n][v]}
           S == {n \in Node : BoolCutsAreZero[n] => Says(n)}
<1>1. ASSUME NEW n \in Node, n.kind = "int" => n.left \in S /\ n.right \in S,
             BoolCutsAreZero[n], NEW path \in SUBSET Valuation
      PROVE  UNION PathFormulas[n][path] = {v \in path : Output[n][v]}
  <2>1. PICK r \in DOMAIN VarsOf : n \in NodesOf[r]
    BY DEF Node
  <2>2. CASE n.kind = "leaf"
    <3>1. PathFormulas[n][path] = IF n.output THEN {path} ELSE {}
      BY <2>2, PathFormulasDef
    <3>2. \A v \in path : Output[n][v] = n.output
      BY <2>2, OutputDef
    <3>3. n.output \in BOOLEAN
      BY <2>1, <2>2, NodeKinds
    <3>4. QED
      BY <3>1, <3>2, <3>3
  <2>3. CASE n.kind # "leaf"
    <3>1. n.kind = "int" /\ n.left \in Node /\ n.right \in Node
      BY <2>1, <2>3, NodeKinds
    <3>2. /\ IsBoolParam(n.attr) => n.threshold = 0
          /\ BoolCutsAreZero[n.left] /\ BoolCutsAreZero[n.right]
      BY <1>1, <2>3, BoolCutsDef
    <3> DEFINE pl == path \cap Decision(n, TRUE)
               pr == path \cap Decision(n, FALSE)
    <3>3. PathFormulas[n][path] = PathFormulas[n.left][pl] \cup PathFormulas[n.right][pr]
      BY <2>3, PathFormulasDef
    <3>4. pl \in SUBSET Valuation /\ pr \in SUBSET Valuation
      OBVIOUS
    <3>5. Says(n.left) /\ Says(n.right)
      BY <1>1, <3>1, <3>2
    <3>6. /\ UNION PathFormulas[n.left][pl] = {v \in pl : Output[n.left][v]}
          /\ UNION PathFormulas[n.right][pr] = {v \in pr : Output[n.right][v]}
      <4> HIDE DEF pl, pr
      <4> QED BY <3>4, <3>5
    <3>7. \A v \in path : /\ v \in pl <=> AttrValue(n.attr, v) <= n.threshold
                          /\ v \in pr <=> ~ (AttrValue(n.attr, v) <= n.threshold)
      BY <2>1, <3>1, <3>2, DecisionIsTest
    <3>8. \A v \in path : Output[n][v] = IF AttrValue(n.attr, v) <= n.threshold
                                         THEN Output[n.left][v] ELSE Output[n.right][v]
      BY <2>3, OutputDef
    <3>9. pl \subseteq path /\ pr \subseteq path
      OBVIOUS
    <3>10. UNION PathFormulas[n][path] =
             (UNION PathFormulas[n.left][pl]) \cup (UNION PathFormulas[n.right][pr])
      BY <3>3, Zenon
    <3> HIDE DEF pl, pr
    <3>11. UNION PathFormulas[n][path] =
             {v \in pl : Output[n.left][v]} \cup {v \in pr : Output[n.right][v]}
      BY <3>6, <3>10
    <3>12. QED
      BY <3>7, <3>8, <3>9, <3>11
  <2>4. QED
    BY <2>2, <2>3
<1>2. \A n \in Node : (n.kind = "int" => n.left \in S /\ n.right \in S) => n \in S
  BY <1>1
<1>3. Node \subseteq S
  <2> HIDE DEF S
  <2> QED BY <1>2, NodeInduction
<1>4. QED
  BY <1>3

(* DecisionTreeDomain.constructModel: for trees of any depth, the function *)
(* Boogie goes on with is true of exactly what the learner's tree is true  *)
(* of, provided that Bool parameters are split at 0, and false for a       *)
(* function without data point.                                            *)
THEOREM FunctionsRight == Spec => []FunctionsAreTree
<1>1. IInv => FunctionsAreTree
  <2> SUFFICES ASSUME tree \in Trees, tree.kind = "cat", NEW j \in DOMAIN tree.children
               PROVE  LET n == tree.children[j]
                          model == Model(n)
                      IN  IF n.kind = "null" THEN model = {}
                          ELSE BoolCutsAreZero[n] => model = {v \in Valuation : Output[n][v]}
    BY DEF IInv, FunctionsAreTree
  <2>1. j \in 1 .. Len(Relations)
    BY TreesAssumption
  <2> DEFINE n == tree.children[j]
  <2>2. CASE n.kind = "null"
    BY <2>2 DEF Model
  <2>3. CASE n.kind # "null"
    <3>1. n \in Node
      BY <2>1, <2>3, ChildIsNode, NodeKinds
    <3>2. Model(n) = UNION PathFormulas[n][Valuation]
      BY <2>3 DEF Model
    <3>3. BoolCutsAreZero[n] => Model(n) = {v \in Valuation : Output[n][v]}
      <4> HIDE DEF n
      <4> QED BY <3>1, <3>2, PathsAreOutput
    <3>4. QED
      BY <2>3, <3>3
  <2>4. QED
    BY <2>2, <2>3
<1>2. QED
  BY <1>1, Invariant, PTL

-----------------------------------------------------------------------------
(* conjunction2tree: its recursion down to the end of the list, as the     *)
(* equations of a function of the position.                                *)
LEMMA ConjunctionTreeDef ==
  ASSUME NEW ps, Len(ps) \in Nat
  PROVE  \E from :
           /\ ConjunctionTree(ps) = from[1]
           /\ \A i \in 1 .. Len(ps) + 1 :
                from[i] = IF i > Len(ps) THEN Leaf(TRUE) ELSE PredicateNode(ps[i], from[i + 1])
<1> DEFINE N == Len(ps)
           Body(f) == [i \in 1 .. N + 1 |->
                         IF i > N THEN Leaf(TRUE) ELSE PredicateNode(ps[i], f[i + 1])]
           Ends(f, m) == \A i \in m .. N + 1 :
                           f[i] = IF i > N THEN Leaf(TRUE) ELSE PredicateNode(ps[i], f[i + 1])
           Good == {m \in 1 .. N + 1 : \E f : Ends(f, m)}
           Gaps == {N + 1 - m : m \in (1 .. N + 1) \ Good}
<1>1. N + 1 \in Good
  <2> DEFINE g == [i \in {N + 1} |-> Leaf(TRUE)]
  <2>1. g[N + 1] = Leaf(TRUE) /\ N + 1 > N /\ N + 1 \in 1 .. N + 1
    OBVIOUS
  <2>2. \A i \in N + 1 .. N + 1 : i = N + 1
    OBVIOUS
  <2> HIDE DEF g
  <2>3. Ends(g, N + 1)
    BY <2>1, <2>2
  <2> HIDE DEF Ends
  <2>4. QED
    BY <2>1, <2>3
<1>2. ASSUME NEW m \in 1 .. N, m + 1 \in Good
      PROVE  m \in Good
  <2>1. PICK f : Ends(f, m + 1)
    BY <1>2
  <2> DEFINE g == [i \in m .. N + 1 |-> IF i = m THEN PredicateNode(ps[m], f[m + 1]) ELSE f[i]]
  <2>2. g[m] = PredicateNode(ps[m], f[m + 1]) /\ g[m + 1] = f[m + 1]
    OBVIOUS
  <2>3. \A i \in m + 1 .. N + 1 : g[i] = f[i] /\ (i <= N => g[i + 1] = f[i + 1])
    OBVIOUS
  <2> HIDE DEF g
  <2>4. ASSUME NEW i \in m .. N + 1
        PROVE  g[i] = IF i > N THEN Leaf(TRUE) ELSE PredicateNode(ps[i], g[i + 1])
    <3>1. CASE i = m
      <4>1. ~ (i > N)
        BY <3>1
      <4>2. QED
        BY <2>2, <3>1, <4>1
    <3>2. CASE i # m
      <4>1. i \in m + 1 .. N + 1
        BY <3>2
      <4>2. f[i] = IF i > N THEN Leaf(TRUE) ELSE PredicateNode(ps[i], f[i + 1])
        BY <2>1, <4>1
      <4>3. i > N \/ i <= N
        BY <4>1
      <4>4. QED
        BY <2>3, <4>1, <4>2, <4>3
    <3>3. QED
      BY <3>1, <3>2
  <2>5. Ends(g, m)
    BY <2>4
  <2>6. m \in 1 .. N + 1
    OBVIOUS
  <2> HIDE DEF Ends
  <2>7. QED
    BY <2>5, <2>6
<1> HIDE DEF Good
<1>3. Good \subseteq 1 .. N + 1
  BY DEF Good
<1>4. Gaps = {}
  <2> SUFFICES ASSUME Gaps # {} PROVE FALSE
    OBVIOUS
  <2>1. Gaps \subseteq Nat
    OBVIOUS
  <2>2. PICK d \in Gaps : \A e \in Gaps : d <= e
    <3> HIDE DEF Gaps
    <3> QED BY <2>1, LeastNat
  <2>3. PICK m \in (1 .. N + 1) \ Good : d = N + 1 - m
    BY <2>2
  <2>4. m \in 1 .. N
    BY <1>1, <2>3
  <2>5. m + 1 \in 1 .. N + 1 /\ ~ (d <= N + 1 - (m + 1))
    BY <2>3, <2>4
  <2>6. m + 1 \in Good
    BY <2>2, <2>5
  <2>7. QED
    BY <1>2, <2>3, <2>4, <2>6
<1>5. 1 \in Good
  BY <1>4
<1>6. PICK f : Ends(f, 1)
  BY <1>5 DEF Good
<1> DEFINE h == Body(f)
<1>7. h = Body(h)
  <2>1. \A i \in 1 .. N + 1 : h[i] = f[i]
    BY <1>6
  <2>2. ASSUME NEW i \in 1 .. N + 1
        PROVE  (IF i > N THEN Leaf(TRUE) ELSE PredicateNode(ps[i], f[i + 1]))
                 = (IF i > N THEN Leaf(TRUE) ELSE PredicateNode(ps[i], h[i + 1]))
    <3> HIDE DEF h
    <3>1. i > N \/ i + 1 \in 1 .. N + 1
      OBVIOUS
    <3>2. i > N \/ h[i + 1] = f[i + 1]
      BY <2>1, <3>1
    <3>3. QED
      BY <3>2
  <2>3. QED
    BY <2>2
<1> DEFINE from == CHOOSE g : g = Body(g)
<1>8. from = Body(from)
  <2> HIDE DEF h
  <2> QED BY <1>7
<1>9. ConjunctionTree(ps) = from[1]
  BY DEF ConjunctionTree
<1>10. \A i \in 1 .. N + 1 :
         from[i] = IF i > N THEN Leaf(TRUE) ELSE PredicateNode(ps[i], from[i + 1])
  <2> HIDE DEF from
  <2>1. \A i \in 1 .. N + 1 : from[i] = Body(from)[i]
    BY <1>8, Zenon
  <2>2. QED
    BY <2>1
<1>11. QED
  BY <1>9, <1>10

(* The nodes conjunction2tree makes of one predicate pass on to the rest   *)
(* of the tree exactly the points the predicate is true of.                *)
LEMMA PredicateNodeRight ==
  ASSUME NEW p, IsPredicate(p), NEW rest, PredicateNode(p, rest) \in Node, NEW v \in Valuation
  PROVE  /\ rest \in Node
         /\ Output[PredicateNode(p, rest)][v] <=> Entry(p, v) /\ Output[rest][v]
<1> DEFINE n == PredicateNode(p, rest)
           atLeast == IntNode(p.attr, p.threshold - 1, Leaf(FALSE), rest)
           V == AttrValue(p.attr, v)
<1>1. PICK r \in DOMAIN VarsOf : n \in NodesOf[r]
  BY DEF Node
<1>2. n.kind = "int" /\ n.attr = p.attr
  BY DEF PredicateNode, IntNode, IsPredicate
<1>3. n.left \in Node /\ n.right \in Node /\ V \in Int
  <2> HIDE DEF n
  <2> QED BY <1>1, <1>2, NodeKinds, AttrValues
<1>4. ASSUME NEW l \in Node, l.kind = "leaf", l.output = FALSE
      PROVE  Output[l][v] = FALSE
  BY <1>4, OutputDef
<1>5. Leaf(FALSE).kind = "leaf" /\ Leaf(FALSE).output = FALSE
  BY DEF Leaf
<1>6. ASSUME NEW m \in Node, m.kind = "int"
      PROVE  /\ m.left \in Node /\ m.right \in Node
             /\ Output[m][v] = IF AttrValue(m.attr, v) <= m.threshold
                               THEN Output[m.left][v] ELSE Output[m.right][v]
  <2>1. m.left \in Node /\ m.right \in Node
    BY <1>6, NodeKinds DEF Node
  <2>2. m.kind # "leaf"
    BY <1>6
  <2>3. QED
    BY <2>1, <2>2, OutputDef
<1>7. atLeast \in Node =>
        rest \in Node /\ (Output[atLeast][v] <=> V >= p.threshold /\ Output[rest][v])
  <2> SUFFICES ASSUME atLeast \in Node
               PROVE  rest \in Node /\ (Output[atLeast][v] <=> V >= p.threshold /\ Output[rest][v])
    OBVIOUS
  <2>1. /\ atLeast.kind = "int" /\ atLeast.attr = p.attr /\ atLeast.threshold = p.threshold - 1
        /\ atLeast.left = Leaf(FALSE) /\ atLeast.right = rest
    BY DEF IntNode
  <2> HIDE DEF atLeast
  <2>2. rest \in Node /\ Leaf(FALSE) \in Node
    BY <1>6, <2>1
  <2>3. Output[Leaf(FALSE)][v] = FALSE
    BY <1>4, <1>5, <2>2
  <2>4. Output[atLeast][v] = IF V <= p.threshold - 1 THEN FALSE ELSE Output[rest][v]
    BY <1>6, <2>1, <2>3
  <2>5. p.threshold \in Int /\ Output[rest][v] \in BOOLEAN
    BY <2>2, OutputDef DEF IsPredicate
  <2>6. QED
    BY <1>3, <2>2, <2>4, <2>5
<1>8. ASSUME NEW b, n = IntNode(p.attr, p.threshold, b, Leaf(FALSE))
      PROVE  /\ b \in Node
             /\ Output[n][v] <=> V <= p.threshold /\ Output[b][v]
  <2>1. n.kind = "int" /\ n.attr = p.attr /\ n.threshold = p.threshold /\ n.left = b /\ n.right = Leaf(FALSE)
    BY <1>8 DEF IntNode
  <2> HIDE DEF n
  <2>2. n \in Node
    BY <1>1 DEF Node
  <2>3. b \in Node /\ Leaf(FALSE) \in Node
    BY <1>6, <2>1, <2>2
  <2>4. Output[Leaf(FALSE)][v] = FALSE
    BY <1>4, <1>5, <2>3
  <2>5. Output[n][v] = IF V <= p.threshold THEN Output[b][v] ELSE FALSE
    BY <1>6, <2>1, <2>2, <2>4
  <2>6. Output[b][v] \in BOOLEAN
    BY <2>3, OutputDef
  <2>7. QED
    BY <2>3, <2>5, <2>6
<1>9. CASE p.type = "GE"
  <2>1. n = atLeast
    BY <1>9 DEF PredicateNode
  <2>2. Entry(p, v) <=> V >= p.threshold
    BY <1>9 DEF Entry
  <2>3. QED
    BY <1>7, <2>1, <2>2
<1>10. CASE p.type = "LE"
  <2>1. n = IntNode(p.attr, p.threshold, rest, Leaf(FALSE))
    BY <1>10 DEF PredicateNode
  <2>2. Entry(p, v) <=> V <= p.threshold
    BY <1>10 DEF Entry
  <2>3. QED
    BY <1>8, <2>1, <2>2
<1>11. CASE p.type = "EQ"
  <2>1. n = IntNode(p.attr, p.threshold, atLeast, Leaf(FALSE))
    BY <1>11 DEF PredicateNode
  <2>2. Entry(p, v) <=> V <= p.threshold /\ V >= p.threshold
    BY <1>3, <1>11 DEF Entry, IsPredicate
  <2>3. atLeast \in Node /\ (Output[n][v] <=> V <= p.threshold /\ Output[atLeast][v])
    <3> HIDE DEF atLeast
    <3> QED BY <1>8, <2>1
  <2>4. QED
    BY <1>7, <2>2, <2>3
<1>12. QED
  BY <1>9, <1>10, <1>11 DEF IsPredicate

(* conjunction2tree "translates a set of conjunction of predicates into an *)
(* equivalent decision tree": for conjunctions of any length, the tree is  *)
(* true of exactly the points that all predicates are true of; and so is   *)
(* the function Boogie makes of it, if splits on Bool parameters are at 0. *)
THEOREM ConjunctionTreeRight ==
  ASSUME NEW P, \A p \in P : IsPredicate(p), NEW ps \in Seq(P), ConjunctionTree(ps) \in Node
  PROVE  LET n == ConjunctionTree(ps)
             conjunction == {v \in Valuation : \A i \in 1 .. Len(ps) : Entry(ps[i], v)}
         IN  /\ {v \in Valuation : Output[n][v]} = conjunction
             /\ BoolCutsAreZero[n] => Model(n) = conjunction
<1> DEFINE N == Len(ps)
<1>1. N \in Nat /\ \A i \in 1 .. N : IsPredicate(ps[i])
  OBVIOUS
<1>2. PICK from :
        /\ ConjunctionTree(ps) = from[1]
        /\ \A i \in 1 .. N + 1 :
             from[i] = IF i > N THEN Leaf(TRUE) ELSE PredicateNode(ps[i], from[i + 1])
  BY <1>1, ConjunctionTreeDef
<1> HIDE DEF N
<1>3. ASSUME NEW i \in 1 .. N
      PROVE  from[i] = PredicateNode(ps[i], from[i + 1]) /\ IsPredicate(ps[i])
  <2>1. i \in 1 .. N + 1 /\ ~ (i > N)
    BY <1>1
  <2>2. QED
    BY <1>1, <1>2, <2>1
<1>4. ASSUME NEW v \in Valuation
      PROVE  Output[from[1]][v] <=> \A i \in 1 .. N : Entry(ps[i], v)
  <2> DEFINE Says(i) == /\ from[i] \in Node
                        /\ Output[from[1]][v] <=>
                             (\A j \in 1 .. i - 1 : Entry(ps[j], v)) /\ Output[from[i]][v]
             Bad == {i \in 1 .. N + 1 : ~ Says(i)}
  <2>1. Says(1)
    <3>1. Output[from[1]][v] \in BOOLEAN
      BY <1>2, OutputDef
    <3>2. QED
      BY <1>2, <3>1
  <2>2. ASSUME NEW i \in 1 .. N, Says(i)
        PROVE  Says(i + 1)
    <3>1. /\ from[i + 1] \in Node
          /\ Output[from[i]][v] <=> Entry(ps[i], v) /\ Output[from[i + 1]][v]
      BY <1>3, <2>2, PredicateNodeRight
    <3>2. 1 .. (i + 1) - 1 = (1 .. i - 1) \cup {i}
      BY <1>1
    <3>3. QED
      BY <2>2, <3>1, <3>2
  <2>3. Bad = {}
    <3> SUFFICES ASSUME Bad # {} PROVE FALSE
      OBVIOUS
    <3>1. Bad \subseteq Nat
      BY <1>1
    <3>2. PICK m \in Bad : \A j \in Bad : m <= j
      <4> HIDE DEF Bad
      <4> QED BY <3>1, LeastNat
    <3>3. m \in 1 .. N + 1 /\ ~ Says(m)
      BY <3>2
    <3> HIDE DEF Says
    <3>4. m # 1
      BY <2>1, <3>3
    <3>5. m - 1 \in 1 .. N /\ (m - 1) + 1 = m /\ ~ (m <= m - 1)
      BY <1>1, <3>3, <3>4
    <3>6. Says(m - 1)
      BY <1>1, <3>2, <3>5
    <3>7. Says((m - 1) + 1)
      BY <2>2, <3>5, <3>6
    <3>8. QED
      BY <3>3, <3>5, <3>7
  <2>4. Says(N + 1)
    <3> HIDE DEF Says
    <3> QED BY <1>1, <2>3
  <2>5. from[N + 1] = Leaf(TRUE)
    <3>1. N + 1 \in 1 .. N + 1 /\ N + 1 > N
      BY <1>1
    <3>2. QED
      BY <1>2, <3>1
  <2>6. Output[from[N + 1]][v] = TRUE
    <3>1. Leaf(TRUE).kind = "leaf" /\ Leaf(TRUE).output = TRUE
      BY DEF Leaf
    <3>2. QED
      BY <2>4, <2>5, <3>1, OutputDef
  <2>7. 1 .. (N + 1) - 1 = 1 .. N
    BY <1>1
  <2>8. QED
    BY <2>4, <2>6, <2>7
<1>5. {v \in Valuation : Output[from[1]][v]} = {v \in Valuation : \A i \in 1 .. N : Entry(ps[i], v)}
  BY <1>4
<1>6. from[1].kind # "null"
  <2>1. from[1].kind = "leaf" \/ from[1].kind = "int"
    BY <1>2, NodeKinds DEF Node
  <2>2. QED
    BY <2>1
<1>7. BoolCutsAreZero[from[1]] => Model(from[1]) = {v \in Valuation : Output[from[1]][v]}
  BY <1>2, <1>6, PathsAreOutput DEF Model
<1>8. QED
  BY <1>2, <1>5, <1>7 DEF N
=============================================================================
