-------------------------- MODULE ChcSystem_proofs --------------------------
(***************************************************************************)
(* Proofs about the parser, for systems of rules of any size over formulas *)
(* of any depth, and about the teacher on the clauses of a file.           *)
(*                                                                         *)
(* Statements about every formula are shown by considering one of least    *)
(* Height for which they fail (LeastNat).  That the recursive functions    *)
(* over formulas exist, so that their defining equations may be used, is   *)
(* shown once for functions into a set (RecursionExists), and once for     *)
(* Preprocessed, whose values are not in a set known beforehand.           *)
(***************************************************************************)
EXTENDS ChcTeacher_proofs, ChcSystem, FiniteSetTheorems, WellFoundedInduction, TLAPS

(* A set of natural numbers that is not empty has a least element. *)
LEMMA LeastNat ==
  ASSUME NEW S, S \subseteq Nat, S # {}
  PROVE  \E m \in S : \A j \in S : m <= j
<1>1. \E R : IsWellFoundedOn(R, Nat) /\ R = {ss \in Nat \X Nat : ss[1] < ss[2]}
  BY NatLessThanWellFounded, Zenon DEF OpToRel
<1>2. PICK R : IsWellFoundedOn(R, Nat) /\ R = {ss \in Nat \X Nat : ss[1] < ss[2]}
  BY <1>1
<1>3. PICK m \in S : \A j \in S : ~ (<<j, m>> \in R)
  BY <1>2, WFMin
<1>4. \A j \in S : j < m => <<j, m>> \in R
  BY <1>2
<1>5. \A j \in S : ~ (j < m)
  BY <1>3, <1>4
<1>6. QED
  BY <1>5

(* The formulas a formula is built from. *)
Sub(f) == IF f.op = "rel" THEN {} ELSE {f.args[k] : k \in DOMAIN f.args}

(* The parts of a formula are lower formulas. *)
LEMMA SubLower ==
  ASSUME NEW f \in Formula
  PROVE  /\ Height[f] \in Nat
         /\ \A g \in Sub(f) : g \in Formula /\ Height[g] \in Nat /\ Height[g] < Height[f]
<1>1. IsFormula(f) /\ Height[f] \in Nat
  BY HeightAssumption, FormulaAssumption
<1>2. ASSUME NEW k \in DOMAIN f.args, f.op # "rel"
      PROVE  f.args[k] \in Formula /\ Height[f.args[k]] < Height[f]
  <2>1. f.args # <<>>
    BY <1>2
  <2>2. QED
    BY <1>1, <1>2, <2>1 DEF IsFormula
<1>3. QED
  BY <1>1, <1>2, HeightAssumption DEF Sub

(* What a formula is. *)
LEMMA FormulaKinds ==
  ASSUME NEW f \in Formula
  PROVE  \/ f.op = "rel" /\ Sub(f) = {}
         \/ f.op = "theory" /\ Sub(f) = {} /\ f.args = <<>> /\ DOMAIN f.args = {}
         \/ /\ f.op = "and" \/ f.op = "or" \/ f.op = "not" \/ f.op = "app"
            /\ Sub(f) = {f.args[k] : k \in DOMAIN f.args}
            /\ f.op = "not" => DOMAIN f.args = {1}
<1>1. IsFormula(f)
  BY FormulaAssumption
<1>2. DOMAIN f.args = 1 .. Len(f.args)
  BY <1>1 DEF IsFormula
<1>3. f.op = "not" => 1 .. Len(f.args) = {1}
  BY <1>1 DEF IsFormula
<1>4. f.args = <<>> => DOMAIN f.args = {}
  OBVIOUS
<1>5. QED
  BY <1>1, <1>2, <1>3, <1>4 DEF IsFormula, Sub

(* Induction over formulas: a set that contains a formula whenever it      *)
(* contains the parts contains all formulas.                               *)
LEMMA FormulaInduction ==
  ASSUME NEW S, \A f \in Formula : Sub(f) \subseteq S => f \in S
  PROVE  Formula \subseteq S
<1> DEFINE B == {Height[f] : f \in Formula \ S}
<1>1. SUFFICES ASSUME Formula \ S # {} PROVE FALSE
  OBVIOUS
<1>2. B \subseteq Nat /\ B # {}
  BY <1>1, HeightAssumption
<1>3. PICK m \in B : \A j \in B : m <= j
  <2> HIDE DEF B
  <2> QED BY <1>2, LeastNat
<1>4. PICK f \in Formula \ S : Height[f] = m
  BY <1>3
<1>5. PICK g \in Sub(f) : g \notin S
  BY <1>4
<1>6. g \in Formula /\ Height[g] \in Nat /\ Height[g] < m /\ m \in Nat
  BY <1>4, <1>5, SubLower
<1>7. m <= Height[g]
  BY <1>3, <1>5, <1>6
<1>8. QED
  BY <1>6, <1>7

-----------------------------------------------------------------------------
(* step computes the value of a formula from a function that gives those   *)
(* of its parts.                                                           *)
Local(step, X) ==
  \A f \in Formula : \A F, G \in [Formula -> X] :
    (\A g \in Sub(f) : F[g] = G[g]) => step[<<f, F>>] = step[<<f, G>>]

(* F is what step computes, on the formulas lower than m. *)
SolvesBelow(F, m, step, X) ==
  /\ F \in [Formula -> X]
  /\ \A f \in Formula : Height[f] < m => F[f] = step[<<f, F>>]

(* Two such functions agree where both are known to be solutions. *)
LEMMA SolutionsAgree ==
  ASSUME NEW X, NEW step, Local(step, X), NEW F, NEW G, NEW m \in Nat, NEW j \in Nat, m <= j,
         SolvesBelow(F, m, step, X), SolvesBelow(G, j, step, X)
  PROVE  \A f \in Formula : Height[f] < m => F[f] = G[f]
<1> DEFINE S == {f \in Formula : Height[f] < m => F[f] = G[f]}
<1>1. SUFFICES Formula \subseteq S
  OBVIOUS
<1>2. ASSUME NEW f \in Formula, Sub(f) \subseteq S, Height[f] < m
      PROVE  F[f] = G[f]
  <2>1. Height[f] \in Nat /\ \A g \in Sub(f) : Height[g] \in Nat /\ Height[g] < Height[f]
    BY SubLower
  <2>2. \A g \in Sub(f) : F[g] = G[g]
    BY <1>2, <2>1
  <2>3. step[<<f, F>>] = step[<<f, G>>]
    BY <2>2 DEF Local, SolvesBelow
  <2>4. Height[f] < j
    BY <1>2, <2>1
  <2>5. QED
    BY <1>2, <2>3, <2>4 DEF SolvesBelow
<1>3. \A f \in Formula : Sub(f) \subseteq S => f \in S
  BY <1>2
<1>4. QED
  <2> HIDE DEF S
  <2> QED BY <1>3, FormulaInduction

(* Such functions exist for every height. *)
LEMMA SolutionsExist ==
  ASSUME NEW X, X # {}, NEW step \in [Formula \X [Formula -> X] -> X], Local(step, X)
  PROVE  \A m \in Nat : \E F : SolvesBelow(F, m, step, X)
<1> DEFINE B == {m \in Nat : ~ \E F : SolvesBelow(F, m, step, X)}
<1>1. SUFFICES ASSUME B # {} PROVE FALSE
  OBVIOUS
<1>2. PICK m \in B : \A j \in B : m <= j
  <2>1. B \subseteq Nat
    OBVIOUS
  <2> HIDE DEF B
  <2> QED BY <1>1, <2>1, LeastNat
<1>3. m # 0
  <2>1. PICK x \in X : TRUE
    OBVIOUS
  <2>2. SolvesBelow([f \in Formula |-> x], 0, step, X)
    BY HeightAssumption DEF SolvesBelow
  <2>3. QED
    BY <2>2
<1>4. m - 1 \in Nat /\ m - 1 \notin B
  BY <1>2, <1>3
<1>5. PICK F : SolvesBelow(F, m - 1, step, X)
  BY <1>4
<1>6. F \in [Formula -> X] /\ \A f \in Formula : Height[f] < m - 1 => F[f] = step[<<f, F>>]
  BY <1>5 DEF SolvesBelow
<1> DEFINE G == [f \in Formula |-> step[<<f, F>>]]
<1>7. G \in [Formula -> X]
  BY <1>6
<1>8. ASSUME NEW f \in Formula, Height[f] < m
      PROVE  G[f] = step[<<f, G>>]
  <2>1. \A g \in Sub(f) : g \in Formula /\ Height[g] < m - 1
    BY <1>4, <1>8, SubLower
  <2>2. \A g \in Sub(f) : G[g] = F[g]
    BY <2>1, <1>6
  <2>3. step[<<f, G>>] = step[<<f, F>>]
    <3> HIDE DEF G
    <3> QED BY <2>2, <1>6, <1>7 DEF Local
  <2>4. QED
    BY <2>3
<1>9. SolvesBelow(G, m, step, X)
  <2> HIDE DEF G
  <2> QED BY <1>7, <1>8 DEF SolvesBelow
<1>10. QED
  BY <1>2, <1>9

(* A recursive definition over formulas, into a set, has a solution. *)
LEMMA RecursionExists ==
  ASSUME NEW X, X # {}, NEW step \in [Formula \X [Formula -> X] -> X], Local(step, X)
  PROVE  \E F \in [Formula -> X] : \A f \in Formula : F[f] = step[<<f, F>>]
<1> DEFINE S(m) == CHOOSE F : SolvesBelow(F, m, step, X)
           F == [f \in Formula |-> S(Height[f] + 1)[f]]
<1>1. \A m \in Nat : SolvesBelow(S(m), m, step, X)
  BY SolutionsExist
<1> HIDE DEF S
<1>2. \A f \in Formula : Height[f] \in Nat /\ Height[f] + 1 \in Nat
  BY HeightAssumption
<1>3. \A f \in Formula : /\ S(Height[f] + 1) \in [Formula -> X]
                         /\ S(Height[f] + 1)[f] = step[<<f, S(Height[f] + 1)>>]
  <2> SUFFICES ASSUME NEW f \in Formula
               PROVE  /\ S(Height[f] + 1) \in [Formula -> X]
                      /\ S(Height[f] + 1)[f] = step[<<f, S(Height[f] + 1)>>]
    OBVIOUS
  <2>1. SolvesBelow(S(Height[f] + 1), Height[f] + 1, step, X)
    BY <1>1, <1>2
  <2>2. Height[f] < Height[f] + 1
    BY <1>2
  <2>3. QED
    BY <2>1, <2>2 DEF SolvesBelow
<1>4. F \in [Formula -> X]
  BY <1>3
<1>5. ASSUME NEW f \in Formula
      PROVE  F[f] = step[<<f, F>>]
  <2>1. ASSUME NEW g \in Sub(f)
        PROVE  F[g] = S(Height[f] + 1)[g]
    <3>1. g \in Formula /\ Height[g] \in Nat /\ Height[g] < Height[f] /\ Height[f] \in Nat
      BY SubLower
    <3>2. /\ SolvesBelow(S(Height[g] + 1), Height[g] + 1, step, X)
          /\ SolvesBelow(S(Height[f] + 1), Height[f] + 1, step, X)
      BY <1>1, <1>2, <3>1
    <3>3. Height[g] + 1 <= Height[f] + 1 /\ Height[g] < Height[g] + 1
      BY <3>1
    <3>4. S(Height[g] + 1)[g] = S(Height[f] + 1)[g]
      BY <1>2, <3>1, <3>2, <3>3, SolutionsAgree
    <3>5. QED
      BY <3>1, <3>4
  <2>2. F[f] = S(Height[f] + 1)[f]
    OBVIOUS
  <2> HIDE DEF F
  <2>3. step[<<f, F>>] = step[<<f, S(Height[f] + 1)>>]
    BY <1>3, <1>4, <2>1 DEF Local
  <2>4. QED
    BY <1>3, <2>2, <2>3
<1>6. QED
  BY <1>4, <1>5

-----------------------------------------------------------------------------
(* The defining equation of ExtractAll. *)
LEMMA ExtractDef ==
  /\ ExtractAll \in [Formula -> SUBSET Formula]
  /\ \A f \in Formula :
       ExtractAll[f] = IF f.op = "rel" THEN {f} ELSE UNION {ExtractAll[g] : g \in Sub(f)}
<1> DEFINE X == SUBSET Formula
           Body(F, f) == IF f.op = "rel" THEN {f} ELSE UNION {F[f.args[k]] : k \in DOMAIN f.args}
           Clean(F, f) == IF f.op = "rel" THEN {f} ELSE UNION {F[g] : g \in Sub(f)}
           step == [p \in Formula \X [Formula -> X] |-> Clean(p[2], p[1])]
<1>1. ASSUME NEW f \in Formula, NEW F
      PROVE  Body(F, f) = Clean(F, f)
  <2>1. CASE f.op = "rel"
    BY <2>1
  <2>2. CASE f.op # "rel"
    <3>1. {F[f.args[k]] : k \in DOMAIN f.args} = {F[g] : g \in Sub(f)}
      BY <2>2 DEF Sub
    <3>2. QED
      BY <2>2, <3>1
  <2>3. QED
    BY <2>1, <2>2
<1>2. ASSUME NEW f \in Formula, NEW F \in [Formula -> X]
      PROVE  Clean(F, f) \in X
  BY SubLower
<1> HIDE DEF Clean
<1>3. step \in [Formula \X [Formula -> X] -> X]
  BY <1>2
<1>4. Local(step, X)
  <2> SUFFICES ASSUME NEW f \in Formula, NEW F \in [Formula -> X], NEW G \in [Formula -> X],
                      \A g \in Sub(f) : F[g] = G[g]
               PROVE  step[<<f, F>>] = step[<<f, G>>]
    BY DEF Local
  <2>1. {F[g] : g \in Sub(f)} = {G[g] : g \in Sub(f)}
    OBVIOUS
  <2>2. Clean(F, f) = Clean(G, f)
    BY <2>1 DEF Clean
  <2>3. QED
    BY <2>2
<1>5. PICK F \in [Formula -> X] : \A f \in Formula : F[f] = step[<<f, F>>]
  <2>1. X # {}
    OBVIOUS
  <2> HIDE DEF X, step
  <2> QED BY <1>3, <1>4, <2>1, RecursionExists
<1>6. F = [f \in Formula |-> Body(F, f)]
  <2>1. \A f \in Formula : F[f] = Clean(F, f)
    BY <1>5
  <2> HIDE DEF Body, X
  <2>2. \A f \in Formula : F[f] = Body(F, f)
    BY <1>1, <2>1
  <2> QED BY <2>2, <1>5
<1>7. ExtractAll = [f \in Formula |-> Body(ExtractAll, f)]
  <2> DEFINE P(G) == G = [f \in Formula |-> Body(G, f)]
  <2>1. ExtractAll = CHOOSE G : P(G)
    BY DEF ExtractAll
  <2>2. P(F)
    BY <1>6
  <2> HIDE DEF P
  <2>3. P(ExtractAll)
    BY <2>1, <2>2, Zenon
  <2> QED BY <2>3 DEF P
<1>8. \A f \in Formula : ExtractAll[f] = Clean(ExtractAll, f)
  <2> HIDE DEF Body
  <2>1. \A f \in Formula : ExtractAll[f] = Body(ExtractAll, f)
    BY <1>7
  <2> QED BY <1>1, <2>1
<1> DEFINE S == {f \in Formula : ExtractAll[f] \subseteq Formula}
<1>9. \A f \in Formula : Sub(f) \subseteq S => f \in S
  <2> SUFFICES ASSUME NEW f \in Formula, \A g \in Sub(f) : ExtractAll[g] \subseteq Formula
               PROVE  ExtractAll[f] \subseteq Formula
    OBVIOUS
  <2>1. CASE f.op = "rel"
    BY <1>8, <2>1 DEF Clean
  <2>2. CASE f.op # "rel"
    <3>1. ExtractAll[f] = UNION {ExtractAll[g] : g \in Sub(f)}
      BY <1>8, <2>2 DEF Clean
    <3>2. QED
      BY <3>1
  <2>3. QED
    BY <2>1, <2>2
<1>10. Formula \subseteq S
  <2> HIDE DEF S
  <2> QED BY <1>9, FormulaInduction
<1>11. ExtractAll \in [Formula -> SUBSET Formula]
  <2> HIDE DEF Body
  <2> QED BY <1>7, <1>10
<1>12. QED
  BY <1>8, <1>11 DEF Clean

(* The defining equation of AssertsHold. *)
LEMMA AssertsDef ==
  /\ AssertsHold \in [Formula -> [BOOLEAN -> BOOLEAN]]
  /\ \A f \in Formula : \A n \in BOOLEAN :
       AssertsHold[f][n] = IF f.op = "rel" THEN f.rel # VerifierError /\ ~ n
                           ELSE \A g \in Sub(f) : AssertsHold[g][Polarity(f, n)]
<1> DEFINE X == [BOOLEAN -> BOOLEAN]
           Body(F, f) == [isNegated \in BOOLEAN |->
                            IF f.op = "rel"
                            THEN f.rel # VerifierError /\ ~ isNegated
                            ELSE \A k \in DOMAIN f.args : F[f.args[k]][Polarity(f, isNegated)]]
           step == [p \in Formula \X [Formula -> X] |-> Body(p[2], p[1])]
<1>1. ASSUME NEW f \in Formula, NEW F, NEW n \in BOOLEAN
      PROVE  Body(F, f)[n] = IF f.op = "rel" THEN f.rel # VerifierError /\ ~ n
                             ELSE \A g \in Sub(f) : F[g][Polarity(f, n)]
  BY DEF Sub
<1>2. ASSUME NEW f \in Formula, NEW F \in [Formula -> X]
      PROVE  Body(F, f) \in X /\ step[<<f, F>>] = Body(F, f)
  OBVIOUS
<1>3. step \in [Formula \X [Formula -> X] -> X]
  BY <1>2
<1>4. Local(step, X)
  <2> SUFFICES ASSUME NEW f \in Formula, NEW F \in [Formula -> X], NEW G \in [Formula -> X],
                      \A g \in Sub(f) : F[g] = G[g]
               PROVE  step[<<f, F>>] = step[<<f, G>>]
    BY DEF Local
  <2>1. \A n \in BOOLEAN : Body(F, f)[n] = Body(G, f)[n]
    BY DEF Sub
  <2>2. Body(F, f) = Body(G, f)
    <3>1. Body(F, f) \in X /\ Body(G, f) \in X
      BY <1>2
    <3> HIDE DEF Body
    <3> QED BY <2>1, <3>1
  <2>3. QED
    BY <1>2, <2>2
<1>5. PICK F \in [Formula -> X] : \A f \in Formula : F[f] = step[<<f, F>>]
  <2>1. X # {}
    <3>1. [n \in BOOLEAN |-> TRUE] \in X
      OBVIOUS
    <3> QED BY <3>1
  <2> HIDE DEF X, step
  <2> QED BY <1>3, <1>4, <2>1, RecursionExists
<1>6. F = [f \in Formula |-> Body(F, f)]
  <2>1. \A f \in Formula : F[f] = Body(F, f)
    BY <1>2, <1>5
  <2> HIDE DEF Body, X
  <2> QED BY <2>1, <1>5
<1>7. AssertsHold = [f \in Formula |-> Body(AssertsHold, f)]
  BY <1>6 DEF AssertsHold
<1>8. \A f \in Formula : AssertsHold[f] = Body(AssertsHold, f)
  <2> HIDE DEF Body
  <2> QED BY <1>7
<1>9. \A f \in Formula : AssertsHold[f] \in X
  <2>1. \A f \in Formula : Body(AssertsHold, f) \in X
    OBVIOUS
  <2> HIDE DEF Body, X
  <2> QED BY <1>8, <2>1
<1>10. AssertsHold \in [Formula -> X]
  <2> HIDE DEF Body, X
  <2> QED BY <1>7, <1>9
<1>11. QED
  <2> HIDE DEF Body
  <2> QED BY <1>1, <1>8, <1>10

(* The defining equation of Above. *)
LEMMA AboveDef ==
  \A f \in Formula : \A n \in BOOLEAN :
    Above[f][n] = IF f.op = "rel" \/ ExtractAll[f] = {}
                  THEN {}
                  ELSE {<<f.op, n>>} \cup UNION {Above[g][Polarity(f, n)] : g \in Sub(f)}
<1> DEFINE Y == SUBSET ({g.op : g \in Formula} \X BOOLEAN)
           X == [BOOLEAN -> Y]
           Body(F, f) == [isNegated \in BOOLEAN |->
                            IF f.op = "rel" \/ ExtractAll[f] = {}
                            THEN {}
                            ELSE {<<f.op, isNegated>>}
                                   \cup UNION {F[f.args[k]][Polarity(f, isNegated)] :
                                                 k \in DOMAIN f.args}]
           Clean(F, f, n) == IF f.op = "rel" \/ ExtractAll[f] = {}
                             THEN {}
                             ELSE {<<f.op, n>>} \cup UNION {F[g][Polarity(f, n)] : g \in Sub(f)}
           step == [p \in Formula \X [Formula -> X] |-> Body(p[2], p[1])]
<1>1. ASSUME NEW f \in Formula, NEW F, NEW n \in BOOLEAN
      PROVE  Body(F, f)[n] = Clean(F, f, n)
  <2>1. CASE f.op = "rel" \/ ExtractAll[f] = {}
    BY <2>1
  <2>2. CASE f.op # "rel" /\ ExtractAll[f] # {}
    <3>1. {F[f.args[k]][Polarity(f, n)] : k \in DOMAIN f.args} = {F[g][Polarity(f, n)] : g \in Sub(f)}
      BY <2>2 DEF Sub
    <3>2. QED
      BY <2>2, <3>1
  <2>3. QED
    BY <2>1, <2>2
<1>2. ASSUME NEW f \in Formula, NEW F \in [Formula -> X]
      PROVE  Body(F, f) \in X /\ step[<<f, F>>] = Body(F, f)
  <2>1. ASSUME NEW n \in BOOLEAN
        PROVE  Body(F, f)[n] \in Y
    <3>1. <<f.op, n>> \in {g.op : g \in Formula} \X BOOLEAN
      OBVIOUS
    <3>2. \A g \in Sub(f) : g \in Formula
      BY SubLower
    <3>3. Polarity(f, n) \in BOOLEAN
      BY DEF Polarity
    <3>4. \A g \in Sub(f) : F[g][Polarity(f, n)] \in Y
      BY <3>2, <3>3
    <3>5. Clean(F, f, n) \in Y
      BY <3>1, <3>4
    <3> HIDE DEF Body, Clean, X, Y
    <3>6. QED
      BY <1>1, <3>5
  <2>2. Body(F, f) = [n \in BOOLEAN |-> Body(F, f)[n]]
    OBVIOUS
  <2>3. Body(F, f) \in X
    <3> HIDE DEF Body, Y
    <3> QED BY <2>1, <2>2
  <2>4. step[<<f, F>>] = Body(F, f)
    <3> HIDE DEF Body, X
    <3> QED OBVIOUS
  <2>5. QED
    BY <2>3, <2>4
<1>3. step \in [Formula \X [Formula -> X] -> X]
  <2> HIDE DEF Body, X
  <2> QED BY <1>2
<1>4. Local(step, X)
  <2> SUFFICES ASSUME NEW f \in Formula, NEW F \in [Formula -> X], NEW G \in [Formula -> X],
                      \A g \in Sub(f) : F[g] = G[g]
               PROVE  step[<<f, F>>] = step[<<f, G>>]
    BY DEF Local
  <2>1. ASSUME NEW n \in BOOLEAN
        PROVE  Body(F, f)[n] = Body(G, f)[n]
    <3>1. {F[g][Polarity(f, n)] : g \in Sub(f)} = {G[g][Polarity(f, n)] : g \in Sub(f)}
      OBVIOUS
    <3>2. Clean(F, f, n) = Clean(G, f, n)
      BY <3>1
    <3> HIDE DEF Body, Clean
    <3>3. QED
      BY <1>1, <3>2
  <2> HIDE DEF Body, Y, step
  <2>2. Body(F, f) \in X /\ Body(G, f) \in X /\ step[<<f, F>>] = Body(F, f) /\ step[<<f, G>>] = Body(G, f)
    <3> HIDE DEF X
    <3> QED BY <1>2
  <2>3. QED
    BY <2>1, <2>2
<1>5. PICK F \in [Formula -> X] : \A f \in Formula : F[f] = step[<<f, F>>]
  <2>1. X # {}
    <3>1. [n \in BOOLEAN |-> {}] \in X
      OBVIOUS
    <3> QED BY <3>1
  <2> HIDE DEF X, step
  <2> QED BY <1>3, <1>4, <2>1, RecursionExists
<1>6. F = [f \in Formula |-> Body(F, f)]
  <2> HIDE DEF Body, X, step
  <2>1. \A f \in Formula : F[f] = Body(F, f)
    BY <1>2, <1>5
  <2> QED BY <2>1, <1>5
<1>7. Above = [f \in Formula |-> Body(Above, f)]
  <2> DEFINE P(G) == G = [f \in Formula |-> Body(G, f)]
  <2>1. Above = CHOOSE G : P(G)
    BY DEF Above
  <2>2. P(F)
    BY <1>6
  <2> HIDE DEF P
  <2>3. P(Above)
    BY <2>1, <2>2, Zenon
  <2> QED BY <2>3 DEF P
<1>8. \A f \in Formula : Above[f] = Body(Above, f)
  <2> HIDE DEF Body
  <2> QED BY <1>7
<1>9. \A f \in Formula : \A n \in BOOLEAN : Above[f][n] = Clean(Above, f, n)
  <2> HIDE DEF Body, Clean
  <2> QED BY <1>1, <1>8
<1>10. QED
  BY <1>9

(* What the truth of a formula is, by its operator. *)
LEMMA TruthEquations ==
  ASSUME NEW v, NEW T, NEW f \in Formula
  PROVE  /\ True(f, v, T) \in BOOLEAN
         /\ f.op = "rel" => (True(f, v, T) <=> PointAt(f, v) \in T)
         /\ f.op = "theory" => (True(f, v, T) <=> v \in f.holds)
         /\ f.op = "and" => (True(f, v, T) <=> \A g \in Sub(f) : True(g, v, T))
         /\ f.op = "or" => (True(f, v, T) <=> \E g \in Sub(f) : True(g, v, T))
         /\ f.op = "not" => \A g \in Sub(f) : True(f, v, T) <=> ~ True(g, v, T)
         /\ f.op = "app" =>
              (True(f, v, T) <=> {k \in DOMAIN f.args : True(f.args[k], v, T)} \in f.table[v])
<1> DEFINE X == BOOLEAN
           Body(F, h) == \/ h.op = "rel" /\ PointAt(h, v) \in T
                         \/ h.op = "theory" /\ v \in h.holds
                         \/ h.op = "and" /\ \A k \in DOMAIN h.args : F[h.args[k]]
                         \/ h.op = "or" /\ \E k \in DOMAIN h.args : F[h.args[k]]
                         \/ h.op = "not" /\ ~ F[h.args[1]]
                         \/ h.op = "app" /\ {k \in DOMAIN h.args : F[h.args[k]]} \in h.table[v]
           step == [p \in Formula \X [Formula -> X] |-> Body(p[2], p[1])]
<1>1. ASSUME NEW h \in Formula, NEW F
      PROVE  /\ Body(F, h) \in BOOLEAN
             /\ h.op = "rel" => (Body(F, h) <=> PointAt(h, v) \in T)
             /\ h.op = "theory" => (Body(F, h) <=> v \in h.holds)
             /\ h.op = "and" => (Body(F, h) <=> \A g \in Sub(h) : F[g])
             /\ h.op = "or" => (Body(F, h) <=> \E g \in Sub(h) : F[g])
             /\ h.op = "not" => \A g \in Sub(h) : Body(F, h) <=> ~ F[g]
             /\ h.op = "app" =>
                  (Body(F, h) <=> {k \in DOMAIN h.args : F[h.args[k]]} \in h.table[v])
  <2>1. CASE h.op = "rel"
    BY <2>1
  <2>2. CASE h.op = "theory"
    BY <2>2
  <2>3. CASE h.op = "and"
    BY <2>3 DEF Sub
  <2>4. CASE h.op = "or"
    BY <2>4 DEF Sub
  <2>5. CASE h.op = "not"
    <3>1. \A g \in Sub(h) : g = h.args[1]
      BY <2>5, FormulaKinds
    <3>2. Body(F, h) = ~ F[h.args[1]]
      BY <2>5
    <3> QED BY <2>5, <3>1, <3>2
  <2>6. CASE h.op = "app"
    BY <2>6
  <2>7. QED
    BY <2>1, <2>2, <2>3, <2>4, <2>5, <2>6, FormulaKinds
<1>2. \A h \in Formula : \A F \in [Formula -> X] : Body(F, h) \in X
  <2> HIDE DEF Body
  <2> QED BY <1>1
<1>3. step \in [Formula \X [Formula -> X] -> X]
  <2> HIDE DEF Body, X
  <2> QED BY <1>2
<1>4. Local(step, X)
  <2> SUFFICES ASSUME NEW h \in Formula, NEW F \in [Formula -> X], NEW G \in [Formula -> X],
                      \A g \in Sub(h) : F[g] = G[g]
               PROVE  step[<<h, F>>] = step[<<h, G>>]
    BY DEF Local
  <2>1. Body(F, h) = Body(G, h)
    <3> HIDE DEF Body
    <3>1. h.op = "not" => h.args[1] \in Sub(h)
      BY FormulaKinds
    <3>2. CASE h.op = "not"
      <4>1. PICK g \in Sub(h) : TRUE
        BY <3>1, <3>2
      <4>2. (Body(F, h) <=> ~ F[g]) /\ (Body(G, h) <=> ~ G[g]) /\ F[g] = G[g]
        BY <1>1, <3>2
      <4>3. Body(F, h) \in BOOLEAN /\ Body(G, h) \in BOOLEAN
        BY <1>1
      <4> QED BY <4>2, <4>3
    <3>3. CASE h.op = "app"
      <4>1. \A k \in DOMAIN h.args : F[h.args[k]] = G[h.args[k]]
        BY <3>3 DEF Sub
      <4>2. {k \in DOMAIN h.args : F[h.args[k]]} = {k \in DOMAIN h.args : G[h.args[k]]}
        BY <4>1
      <4>3. Body(F, h) \in BOOLEAN /\ Body(G, h) \in BOOLEAN
        BY <1>1
      <4>4. /\ Body(F, h) <=> {k \in DOMAIN h.args : F[h.args[k]]} \in h.table[v]
            /\ Body(G, h) <=> {k \in DOMAIN h.args : G[h.args[k]]} \in h.table[v]
        BY <1>1, <3>3
      <4> QED BY <4>2, <4>3, <4>4
    <3>4. CASE h.op # "not" /\ h.op # "app"
      <4>1. Body(F, h) <=> Body(G, h)
        BY <1>1, <3>4, FormulaKinds
      <4>2. Body(F, h) \in BOOLEAN /\ Body(G, h) \in BOOLEAN
        BY <1>1
      <4> QED BY <4>1, <4>2
    <3> QED BY <3>2, <3>3, <3>4
  <2> HIDE DEF Body
  <2>2. QED
    BY <2>1
<1>5. PICK F \in [Formula -> X] : \A h \in Formula : F[h] = step[<<h, F>>]
  <2>1. X # {}
    OBVIOUS
  <2> HIDE DEF X, step
  <2> QED BY <1>3, <1>4, <2>1, RecursionExists
<1>6. F = [h \in Formula |-> Body(F, h)]
  <2> HIDE DEF Body, X
  <2>1. \A h \in Formula : F[h] = Body(F, h)
    BY <1>5
  <2> QED BY <2>1, <1>5
<1>7. Truth(v, T) = [h \in Formula |-> Body(Truth(v, T), h)]
  <2> DEFINE P(G) == G = [h \in Formula |-> Body(G, h)]
  <2>1. Truth(v, T) = CHOOSE G : P(G)
    BY DEF Truth
  <2>2. P(F)
    BY <1>6
  <2> HIDE DEF P
  <2>3. P(Truth(v, T))
    BY <2>1, <2>2, Zenon
  <2> QED BY <2>3 DEF P
<1>8. \A h \in Formula : Truth(v, T)[h] = Body(Truth(v, T), h)
  <2> HIDE DEF Body
  <2> QED BY <1>7
<1> HIDE DEF Body
<1>9. /\ Truth(v, T)[f] \in BOOLEAN
      /\ f.op = "rel" => (Truth(v, T)[f] <=> PointAt(f, v) \in T)
      /\ f.op = "theory" => (Truth(v, T)[f] <=> v \in f.holds)
      /\ f.op = "and" => (Truth(v, T)[f] <=> \A g \in Sub(f) : Truth(v, T)[g])
      /\ f.op = "or" => (Truth(v, T)[f] <=> \E g \in Sub(f) : Truth(v, T)[g])
      /\ f.op = "not" => \A g \in Sub(f) : Truth(v, T)[f] <=> ~ Truth(v, T)[g]
      /\ f.op = "app" =>
           (Truth(v, T)[f] <=> {k \in DOMAIN f.args : Truth(v, T)[f.args[k]]} \in f.table[v])
  BY <1>1, <1>8
<1>10. QED
  BY <1>9 DEF True

(* The case of another application is apart from the rest. *)
LEMMA TruthDef ==
  ASSUME NEW v, NEW T, NEW f \in Formula
  PROVE  /\ True(f, v, T) \in BOOLEAN
         /\ f.op = "rel" => (True(f, v, T) <=> PointAt(f, v) \in T)
         /\ f.op = "theory" => (True(f, v, T) <=> v \in f.holds)
         /\ f.op = "and" => (True(f, v, T) <=> \A g \in Sub(f) : True(g, v, T))
         /\ f.op = "or" => (True(f, v, T) <=> \E g \in Sub(f) : True(g, v, T))
         /\ f.op = "not" => \A g \in Sub(f) : True(f, v, T) <=> ~ True(g, v, T)
BY TruthEquations

LEMMA TruthApp ==
  ASSUME NEW v, NEW T, NEW f \in Formula, f.op = "app"
  PROVE  True(f, v, T) <=> {k \in DOMAIN f.args : True(f.args[k], v, T)} \in f.table[v]
BY TruthEquations

-----------------------------------------------------------------------------
(* The body of the definition of Preprocessed, and the functions that      *)
(* satisfy it on the formulas lower than m.                                *)
PreBody(F, f) ==
  IF f.op = "rel"
  THEN IF f.args = <<>> THEN Rel(Renamed[f.rel], <<Literal(1)>>) ELSE f
  ELSE IF f.op = "theory"
       THEN f
       ELSE LET args == [k \in DOMAIN f.args |-> F[f.args[k]]]
            IN  IF f.op = "app" THEN App(f.table, args) ELSE [op |-> f.op, args |-> args]

PreBelow(F, m) == \A f \in Formula : Height[f] < m => F[f] = PreBody(F, f)

(* PreBody looks at the parts of a formula only. *)
LEMMA PreLocal ==
  ASSUME NEW f \in Formula, NEW F, NEW G, \A g \in Sub(f) : F[g] = G[g]
  PROVE  PreBody(F, f) = PreBody(G, f)
<1>1. CASE f.op = "rel" \/ f.op = "theory"
  BY <1>1 DEF PreBody
<1>2. CASE f.op # "rel" /\ f.op # "theory"
  <2>1. [k \in DOMAIN f.args |-> F[f.args[k]]] = [k \in DOMAIN f.args |-> G[f.args[k]]]
    BY <1>2 DEF Sub
  <2>2. QED
    BY <1>2, <2>1 DEF PreBody
<1>3. QED
  BY <1>1, <1>2

(* Two such functions agree where both satisfy the definition. *)
LEMMA PreAgree ==
  ASSUME NEW F, NEW G, NEW m \in Nat, NEW j \in Nat, m <= j, PreBelow(F, m), PreBelow(G, j)
  PROVE  \A f \in Formula : Height[f] < m => F[f] = G[f]
<1> DEFINE S == {f \in Formula : Height[f] < m => F[f] = G[f]}
<1>1. SUFFICES Formula \subseteq S
  OBVIOUS
<1>2. ASSUME NEW f \in Formula, Sub(f) \subseteq S, Height[f] < m
      PROVE  F[f] = G[f]
  <2>1. Height[f] \in Nat /\ \A g \in Sub(f) : Height[g] \in Nat /\ Height[g] < Height[f]
    BY SubLower
  <2>2. \A g \in Sub(f) : F[g] = G[g]
    BY <1>2, <2>1
  <2>3. PreBody(F, f) = PreBody(G, f)
    BY <2>2, PreLocal
  <2>4. Height[f] < j
    BY <1>2, <2>1
  <2>5. QED
    BY <1>2, <2>3, <2>4 DEF PreBelow
<1>3. \A f \in Formula : Sub(f) \subseteq S => f \in S
  BY <1>2
<1>4. QED
  <2> HIDE DEF S
  <2> QED BY <1>3, FormulaInduction

(* Such functions exist for every height. *)
LEMMA PreExist == \A m \in Nat : \E F : PreBelow(F, m)
<1> DEFINE B == {m \in Nat : ~ \E F : PreBelow(F, m)}
<1>1. SUFFICES ASSUME B # {} PROVE FALSE
  OBVIOUS
<1>2. PICK m \in B : \A j \in B : m <= j
  <2>1. B \subseteq Nat
    OBVIOUS
  <2> HIDE DEF B
  <2> QED BY <1>1, <2>1, LeastNat
<1>3. m # 0
  <2>1. PreBelow(Height, 0)
    BY HeightAssumption DEF PreBelow
  <2>2. QED
    BY <2>1
<1>4. m - 1 \in Nat /\ m - 1 \notin B
  BY <1>2, <1>3
<1>5. PICK F : PreBelow(F, m - 1)
  BY <1>4
<1> DEFINE G == [f \in Formula |-> PreBody(F, f)]
<1>6. ASSUME NEW f \in Formula, Height[f] < m
      PROVE  G[f] = PreBody(G, f)
  <2>1. \A g \in Sub(f) : g \in Formula /\ Height[g] < m - 1
    BY <1>4, <1>6, SubLower
  <2>2. \A g \in Sub(f) : G[g] = F[g]
    BY <2>1, <1>5 DEF PreBelow
  <2>3. G[f] = PreBody(F, f)
    OBVIOUS
  <2> HIDE DEF G
  <2>4. PreBody(G, f) = PreBody(F, f)
    BY <2>2, PreLocal
  <2>5. QED
    BY <2>3, <2>4
<1>7. PreBelow(G, m)
  <2> HIDE DEF G
  <2> QED BY <1>6 DEF PreBelow
<1>8. QED
  BY <1>2, <1>7

(* The defining equation of Preprocessed. *)
LEMMA PreprocessedDef == \A f \in Formula : Preprocessed[f] = PreBody(Preprocessed, f)
<1> DEFINE S(m) == CHOOSE F : PreBelow(F, m)
           F == [f \in Formula |-> S(Height[f] + 1)[f]]
<1>1. \A m \in Nat : PreBelow(S(m), m)
  BY PreExist
<1> HIDE DEF S
<1>2. \A f \in Formula : Height[f] \in Nat /\ Height[f] + 1 \in Nat /\ Height[f] < Height[f] + 1
  BY HeightAssumption
<1>3. ASSUME NEW f \in Formula
      PROVE  F[f] = PreBody(F, f)
  <2>1. ASSUME NEW g \in Sub(f)
        PROVE  F[g] = S(Height[f] + 1)[g]
    <3>1. g \in Formula /\ Height[g] \in Nat /\ Height[g] < Height[f] /\ Height[f] \in Nat
      BY SubLower
    <3>2. PreBelow(S(Height[g] + 1), Height[g] + 1) /\ PreBelow(S(Height[f] + 1), Height[f] + 1)
      BY <1>1, <1>2, <3>1
    <3>3. Height[g] + 1 <= Height[f] + 1
      BY <3>1
    <3>4. S(Height[g] + 1)[g] = S(Height[f] + 1)[g]
      BY <1>2, <3>1, <3>2, <3>3, PreAgree
    <3>5. QED
      BY <3>1, <3>4
  <2>2. F[f] = S(Height[f] + 1)[f]
    OBVIOUS
  <2>3. S(Height[f] + 1)[f] = PreBody(S(Height[f] + 1), f)
    BY <1>1, <1>2 DEF PreBelow
  <2> HIDE DEF F
  <2>4. PreBody(F, f) = PreBody(S(Height[f] + 1), f)
    BY <2>1, PreLocal
  <2>5. QED
    BY <2>2, <2>3, <2>4
<1> DEFINE P(G) == G = [f \in Formula |-> PreBody(G, f)]
<1>4. P(F)
  BY <1>3
<1>5. Preprocessed = CHOOSE G : P(G)
  BY DEF Preprocessed, PreBody
<1> HIDE DEF P, F
<1>6. P(Preprocessed)
  BY <1>4, <1>5, Zenon
<1>7. Preprocessed = [f \in Formula |-> PreBody(Preprocessed, f)]
  BY <1>6 DEF P
<1>8. QED
  BY <1>7

(* Preprocessing keeps operators. *)
LEMMA PreprocessedParts ==
  ASSUME NEW f \in Formula, f.op \in {"and", "or", "not", "app"}
  PROVE  /\ Preprocessed[f].op = f.op
         /\ Preprocessed[f].args = [k \in DOMAIN f.args |-> Preprocessed[f.args[k]]]
         /\ f.op = "app" => Preprocessed[f].table = f.table
<1> DEFINE args == [k \in DOMAIN f.args |-> Preprocessed[f.args[k]]]
<1>1. Preprocessed[f] = IF f.op = "app" THEN App(f.table, args) ELSE [op |-> f.op, args |-> args]
  BY PreprocessedDef DEF PreBody
<1> HIDE DEF args
<1>2. CASE f.op = "app"
  <2>1. Preprocessed[f] = [op |-> "app", table |-> f.table, args |-> args]
    BY <1>1, <1>2 DEF App
  <2>2. QED
    BY <1>2, <2>1 DEF args
<1>3. CASE f.op # "app"
  <2>1. Preprocessed[f] = [op |-> f.op, args |-> args]
    BY <1>1, <1>3
  <2>2. QED
    BY <1>3, <2>1 DEF args
<1>4. QED
  BY <1>2, <1>3

(* What preprocessing makes of a formula, by its operator. *)
LEMMA PreprocessedKinds ==
  ASSUME NEW f \in Formula
  PROVE  /\ Preprocessed[f] \in Formula
         /\ f.op = "rel" /\ f.args # <<>> => Preprocessed[f] = f
         /\ f.op = "rel" /\ f.args = <<>> =>
              Preprocessed[f] = Rel(Renamed[f.rel], <<Literal(1)>>)
         /\ f.op = "theory" => Preprocessed[f] = f
         /\ f.op \in {"and", "or", "not", "app"} =>
              /\ Preprocessed[f].op = f.op
              /\ Sub(Preprocessed[f]) = {Preprocessed[g] : g \in Sub(f)}
<1>1. Preprocessed[f] \in Formula /\ Preprocessed[f] = PreBody(Preprocessed, f)
  BY PreprocessedAssumption, PreprocessedDef
<1>2. ASSUME f.op \in {"and", "or", "not", "app"}
      PROVE  /\ Preprocessed[f].op = f.op
             /\ Sub(Preprocessed[f]) = {Preprocessed[g] : g \in Sub(f)}
  <2>1. /\ Preprocessed[f].op = f.op
        /\ Preprocessed[f].args = [k \in DOMAIN f.args |-> Preprocessed[f.args[k]]]
    BY <1>2, PreprocessedParts
  <2>2. Sub(Preprocessed[f]) = {Preprocessed[f.args[k]] : k \in DOMAIN f.args}
    BY <1>2, <2>1 DEF Sub
  <2>3. QED
    BY <1>2, <2>1, <2>2 DEF Sub
<1>3. QED
  BY <1>1, <1>2 DEF PreBody

(* A relation is preprocessed to a relation with arguments. *)
LEMMA PreprocessedRelation ==
  ASSUME NEW f \in Formula, f.op = "rel"
  PROVE  Preprocessed[f].op = "rel" /\ Preprocessed[f].args # <<>>
<1>1. CASE f.args # <<>>
  BY <1>1, PreprocessedKinds
<1>2. CASE f.args = <<>>
  <2>1. Preprocessed[f].op = "rel" /\ Preprocessed[f].args = <<Literal(1)>>
    <3>1. Preprocessed[f] = Rel(Renamed[f.rel], <<Literal(1)>>)
      BY <1>2, PreprocessedKinds
    <3>2. QED
      BY <3>1 DEF Rel
  <2>2. Len(<<Literal(1)>>) = 1 /\ Len(<<>>) = 0
    OBVIOUS
  <2>3. QED
    BY <2>1, <2>2
<1>3. QED
  BY <1>1, <1>2

(* What is extracted are relations. *)
LEMMA ExtractedRelations ==
  \A f \in Formula : \A g \in ExtractAll[f] : g \in Formula /\ g.op = "rel"
<1> DEFINE S == {f \in Formula : \A g \in ExtractAll[f] : g.op = "rel"}
<1>1. ASSUME NEW f \in Formula, Sub(f) \subseteq S
      PROVE  f \in S
  <2>1. CASE f.op = "rel"
    BY <2>1, ExtractDef
  <2>2. CASE f.op # "rel"
    <3>1. ExtractAll[f] = UNION {ExtractAll[g] : g \in Sub(f)}
      BY <2>2, ExtractDef
    <3>2. QED
      BY <1>1, <3>1
  <2>3. QED
    BY <2>1, <2>2
<1>2. Formula \subseteq S
  <2> HIDE DEF S
  <2> QED BY <1>1, FormulaInduction
<1>3. QED
  BY <1>2, ExtractDef

(* The relations of a preprocessed formula have arguments. *)
LEMMA PreprocessedExtract ==
  \A f \in Formula : \A g \in ExtractAll[Preprocessed[f]] : g.args # <<>>
<1> DEFINE S == {f \in Formula : \A g \in ExtractAll[Preprocessed[f]] : g.args # <<>>}
<1>1. ASSUME NEW f \in Formula, Sub(f) \subseteq S
      PROVE  f \in S
  <2>0. Preprocessed[f] \in Formula
    BY PreprocessedKinds
  <2>1. CASE f.op = "rel"
    BY <2>0, <2>1, ExtractDef, PreprocessedRelation
  <2>2. CASE f.op = "theory"
    <3>1. Preprocessed[f] = f /\ Sub(f) = {}
      BY <2>2, PreprocessedKinds, FormulaKinds
    <3>2. ExtractAll[f] = UNION {ExtractAll[g] : g \in Sub(f)}
      BY <2>2, ExtractDef
    <3>3. QED
      BY <3>1, <3>2
  <2>3. CASE f.op # "rel" /\ f.op # "theory"
    <3>1. /\ Preprocessed[f].op # "rel"
          /\ Sub(Preprocessed[f]) = {Preprocessed[g] : g \in Sub(f)}
      BY <2>3, FormulaKinds, PreprocessedKinds
    <3>2. ExtractAll[Preprocessed[f]] = UNION {ExtractAll[h] : h \in Sub(Preprocessed[f])}
      BY <2>0, <3>1, ExtractDef
    <3>3. QED
      BY <1>1, <3>1, <3>2
  <2>4. QED
    BY <2>1, <2>2, <2>3
<1>2. Formula \subseteq S
  <2> HIDE DEF S
  <2> QED BY <1>1, FormulaInduction
<1>3. QED
  BY <1>2

(* The point of a relation with arguments has arguments. *)
LEMMA PointHasArguments ==
  ASSUME NEW f \in Formula, f.args # <<>>, NEW v, NEW r
  PROVE  PointAt(f, v) # <<r, <<>>>>
<1>1. PICK R : f.args \in Seq(R)
  BY FormulaAssumption DEF IsFormula
<1>2. DOMAIN f.args = 1 .. Len(f.args) /\ Len(f.args) \in Nat
  BY <1>1
<1>3. Len(f.args) # 0
  BY <1>1
<1>4. 1 \in DOMAIN f.args
  BY <1>2, <1>3
<1>5. PointAt(f, v)[2] # <<>>
  <2>1. DOMAIN (PointAt(f, v)[2]) = DOMAIN f.args
    BY DEF PointAt
  <2>2. DOMAIN <<>> = {}
    OBVIOUS
  <2>3. QED
    BY <1>4, <2>1, <2>2
<1>6. QED
  BY <1>5

(* A formula of the file is true under Original(T) if and only if the      *)
(* preprocessed one is true under T.                                       *)
LEMMA TruePreprocessed ==
  ASSUME NEW v \in Valuation, NEW T, \A r : <<r, <<>>>> \notin T
  PROVE  \A f \in Formula : True(f, v, Original(T)) <=> True(Preprocessed[f], v, T)
<1> DEFINE S == {f \in Formula : True(f, v, Original(T)) <=> True(Preprocessed[f], v, T)}
<1>1. ASSUME NEW f \in Formula, Sub(f) \subseteq S
      PROVE  True(f, v, Original(T)) <=> True(Preprocessed[f], v, T)
  <2>0. Preprocessed[f] \in Formula
    BY PreprocessedKinds
  <2>1. CASE f.op = "rel" /\ f.args # <<>>
    <3>1. Preprocessed[f] = f
      BY <2>1, PreprocessedKinds
    <3>2. PointAt(f, v) \in Original(T) <=> PointAt(f, v) \in T
      BY <2>1, PointHasArguments DEF Original
    <3>3. QED
      BY <2>1, <3>1, <3>2, TruthDef
  <2>2. CASE f.op = "rel" /\ f.args = <<>>
    <3>1. Preprocessed[f] = Rel(Renamed[f.rel], <<Literal(1)>>) /\ f.rel \in DOMAIN Renamed
      BY <2>2, PreprocessedKinds, FormulaAssumption DEF IsFormula
    <3>2. PointAt(f, v) = <<f.rel, <<>>>>
      BY <2>2 DEF PointAt
    <3>3. PointAt(Preprocessed[f], v) = <<Renamed[f.rel], <<1>>>>
      BY <3>1 DEF PointAt, Rel, Literal
    <3>4. PointAt(f, v) \in Original(T) <=> <<Renamed[f.rel], <<1>>>> \in T
      <4>1. <<f.rel, <<>>>> \in Original(T) <=>
              \E q \in DOMAIN Renamed : <<Renamed[q], <<1>>>> \in T /\ <<q, <<>>>> = <<f.rel, <<>>>>
        BY DEF Original
      <4>2. \A q : <<q, <<>>>> = <<f.rel, <<>>>> => q = f.rel
        OBVIOUS
      <4>3. QED
        BY <3>1, <3>2, <4>1, <4>2
    <3>5. Preprocessed[f].op = "rel"
      BY <2>2, PreprocessedRelation
    <3>6. QED
      BY <2>0, <2>2, <3>3, <3>4, <3>5, TruthDef
  <2>3. CASE f.op = "theory"
    BY <2>3, PreprocessedKinds, TruthDef
  <2>4. CASE f.op \in {"and", "or", "not", "app"}
    <3>1. /\ Preprocessed[f].op = f.op
          /\ Sub(Preprocessed[f]) = {Preprocessed[g] : g \in Sub(f)}
      BY <2>4, PreprocessedKinds
    <3>2. \A g \in Sub(f) : True(g, v, Original(T)) <=> True(Preprocessed[g], v, T)
      BY <1>1
    <3>3. CASE f.op = "and"
      BY <2>0, <3>1, <3>2, <3>3, TruthDef
    <3>4. CASE f.op = "or"
      BY <2>0, <3>1, <3>2, <3>4, TruthDef
    <3>5. CASE f.op = "not"
      <4>1. PICK g \in Sub(f) : TRUE
        BY <3>5, FormulaKinds
      <4>2. Preprocessed[g] \in Sub(Preprocessed[f])
        BY <3>1
      <4>3. QED
        BY <2>0, <3>1, <3>2, <3>5, <4>2, TruthDef
    <3>6. CASE f.op = "app"
      <4> DEFINE p == Preprocessed[f]
      <4>1. p.table = f.table /\ p.args = [k \in DOMAIN f.args |-> Preprocessed[f.args[k]]]
        BY <3>6, PreprocessedParts
      <4>2. \A k \in DOMAIN f.args :
              True(f.args[k], v, Original(T)) <=> True(Preprocessed[f.args[k]], v, T)
        BY <3>2, <3>6 DEF Sub
      <4>3. {k \in DOMAIN f.args : True(f.args[k], v, Original(T))}
              = {k \in DOMAIN p.args : True(p.args[k], v, T)}
        BY <4>1, <4>2
      <4>4. /\ True(f, v, Original(T)) <=>
                 {k \in DOMAIN f.args : True(f.args[k], v, Original(T))} \in f.table[v]
            /\ True(p, v, T) <=> {k \in DOMAIN p.args : True(p.args[k], v, T)} \in p.table[v]
        BY <2>0, <3>1, <3>6, TruthApp
      <4>5. QED
        BY <4>1, <4>3, <4>4
    <3>7. QED
      BY <2>4, <3>3, <3>4, <3>5, <3>6
  <2>5. QED
    BY <2>1, <2>2, <2>3, <2>4, FormulaKinds
<1>2. Formula \subseteq S
  <2>1. \A f \in Formula : Sub(f) \subseteq S => f \in S
    BY <1>1
  <2> HIDE DEF S
  <2> QED BY <2>1, FormulaInduction
<1>3. QED
  BY <1>2

-----------------------------------------------------------------------------
(* Where the assertions of extract_relations hold, no relation extracted   *)
(* is verifier.error.                                                      *)
LEMMA AssertedNames ==
  \A f \in Formula : \A n \in BOOLEAN :
    AssertsHold[f][n] => \A g \in ExtractAll[f] : g.rel # VerifierError
<1> DEFINE S == {f \in Formula : \A n \in BOOLEAN :
                   AssertsHold[f][n] => \A g \in ExtractAll[f] : g.rel # VerifierError}
<1>1. ASSUME NEW f \in Formula, Sub(f) \subseteq S
      PROVE  f \in S
  <2> SUFFICES ASSUME NEW n \in BOOLEAN, AssertsHold[f][n], NEW g \in ExtractAll[f]
               PROVE  g.rel # VerifierError
    OBVIOUS
  <2>1. CASE f.op = "rel"
    BY <2>1, ExtractDef, AssertsDef
  <2>2. CASE f.op # "rel"
    <3>1. ExtractAll[f] = UNION {ExtractAll[h] : h \in Sub(f)}
      BY <2>2, ExtractDef
    <3>2. PICK h \in Sub(f) : g \in ExtractAll[h]
      BY <3>1
    <3>3. AssertsHold[h][Polarity(f, n)] /\ Polarity(f, n) \in BOOLEAN
      BY <2>2, AssertsDef DEF Polarity
    <3>4. QED
      BY <1>1, <3>2, <3>3
  <2>3. QED
    BY <2>1, <2>2
<1>2. Formula \subseteq S
  <2> HIDE DEF S
  <2> QED BY <1>1, FormulaInduction
<1>3. QED
  BY <1>2

(* The truth of a formula depends on the points of its relations only. *)
LEMMA TrueLocal ==
  ASSUME NEW v, NEW T, NEW U
  PROVE  \A f \in Formula :
           (\A g \in ExtractAll[f] : PointAt(g, v) \in T <=> PointAt(g, v) \in U)
             => (True(f, v, T) <=> True(f, v, U))
<1> DEFINE Same(f) == True(f, v, T) <=> True(f, v, U)
           S == {f \in Formula :
                   (\A g \in ExtractAll[f] : PointAt(g, v) \in T <=> PointAt(g, v) \in U)
                     => Same(f)}
<1>1. ASSUME NEW f \in Formula, Sub(f) \subseteq S
      PROVE  f \in S
  <2> SUFFICES ASSUME \A g \in ExtractAll[f] : PointAt(g, v) \in T <=> PointAt(g, v) \in U
               PROVE  Same(f)
    OBVIOUS
  <2>1. CASE f.op = "rel"
    <3>1. ExtractAll[f] = {f}
      BY <2>1, ExtractDef
    <3>2. QED
      BY <2>1, <3>1, TruthDef
  <2>2. CASE f.op # "rel"
    <3>1. ExtractAll[f] = UNION {ExtractAll[h] : h \in Sub(f)}
      BY <2>2, ExtractDef
    <3>2. ASSUME NEW h \in Sub(f)
          PROVE  Same(h)
      <4>1. \A g \in ExtractAll[h] : PointAt(g, v) \in T <=> PointAt(g, v) \in U
        BY <3>1
      <4> HIDE DEF Same
      <4>2. QED
        BY <1>1, <4>1
    <3>3. CASE f.op = "theory"
      BY <3>3, TruthDef
    <3>4. CASE f.op = "and"
      BY <3>2, <3>4, TruthDef
    <3>5. CASE f.op = "or"
      BY <3>2, <3>5, TruthDef
    <3>6. CASE f.op = "not"
      <4>1. f.args[1] \in Sub(f)
        BY <3>6, FormulaKinds
      <4>2. PICK h \in Sub(f) : TRUE
        BY <4>1
      <4>3. /\ True(f, v, U) <=> ~ True(h, v, U)
            /\ True(f, v, T) <=> ~ True(h, v, T)
        BY <3>6, TruthDef
      <4>4. QED
        BY <3>2, <4>3
    <3>7. CASE f.op = "app"
      <4>1. \A k \in DOMAIN f.args : Same(f.args[k])
        BY <3>2, <3>7 DEF Sub
      <4>2. {k \in DOMAIN f.args : True(f.args[k], v, T)}
              = {k \in DOMAIN f.args : True(f.args[k], v, U)}
        BY <4>1
      <4>3. QED
        BY <3>7, <4>2, TruthApp
    <3>8. QED
      BY <2>2, <3>3, <3>4, <3>5, <3>6, <3>7, FormulaKinds
  <2>3. QED
    BY <2>1, <2>2
<1>2. Formula \subseteq S
  <2> HIDE DEF S
  <2> QED BY <1>1, FormulaInduction
<1>3. QED
  BY <1>2

(* What a set of operators above relations leaves out. *)
NoApp(A) == \A n \in BOOLEAN : <<"app", n>> \notin A

NoDisjunction(A) == NoApp(A) /\ <<"or", FALSE>> \notin A /\ <<"and", TRUE>> \notin A

(* What is above the relations of a part is above those of the formula. *)
LEMMA AbovePart ==
  ASSUME NEW f \in Formula, NEW n \in BOOLEAN, NEW h \in Sub(f)
  PROVE  Above[h][Polarity(f, n)] \subseteq Above[f][n]
<1>1. f.op # "rel" /\ h \in Formula /\ Polarity(f, n) \in BOOLEAN
  BY SubLower DEF Sub, Polarity
<1>2. ExtractAll[f] = UNION {ExtractAll[g] : g \in Sub(f)}
  BY <1>1, ExtractDef
<1>3. CASE ExtractAll[f] = {}
  <2>1. ExtractAll[h] = {}
    BY <1>2, <1>3
  <2>2. QED
    BY <1>1, <2>1, AboveDef
<1>4. CASE ExtractAll[f] # {}
  <2>1. Above[f][n] = {<<f.op, n>>} \cup UNION {Above[g][Polarity(f, n)] : g \in Sub(f)}
    BY <1>1, <1>4, AboveDef
  <2>2. QED
    BY <2>1
<1>5. QED
  BY <1>3, <1>4

(* Where the assertions hold and relations are below "and", "or" and "not" *)
(* only, they occur positively only: a formula that is true under T is     *)
(* true under U if the points of its relations are in U, and for a negated *)
(* formula the other way round.                                            *)
LEMMA Monotone ==
  ASSUME NEW v, NEW T, NEW U
  PROVE  \A f \in Formula : \A n \in BOOLEAN :
           /\ AssertsHold[f][n] /\ NoApp(Above[f][n])
           /\ \A g \in ExtractAll[f] : PointAt(g, v) \in U
           => IF n THEN True(f, v, U) => True(f, v, T) ELSE True(f, v, T) => True(f, v, U)
<1> DEFINE Fine(f, n) == IF n THEN True(f, v, U) => True(f, v, T)
                              ELSE True(f, v, T) => True(f, v, U)
           S == {f \in Formula : \A n \in BOOLEAN :
                   AssertsHold[f][n] /\ NoApp(Above[f][n]) /\ (\A g \in ExtractAll[f] : PointAt(g, v) \in U) =>
                     Fine(f, n)}
<1>1. ASSUME NEW f \in Formula, Sub(f) \subseteq S
      PROVE  f \in S
  <2> SUFFICES ASSUME NEW n \in BOOLEAN, AssertsHold[f][n], NoApp(Above[f][n]),
                      \A g \in ExtractAll[f] : PointAt(g, v) \in U
               PROVE  Fine(f, n)
    OBVIOUS
  <2>1. CASE f.op = "rel"
    <3>1. n = FALSE /\ ExtractAll[f] = {f}
      BY <2>1, AssertsDef, ExtractDef
    <3>2. QED
      BY <2>1, <3>1, TruthDef
  <2>2. CASE f.op # "rel"
    <3>1. ASSUME NEW h \in Sub(f)
          PROVE  Fine(h, Polarity(f, n))
      <4>1. AssertsHold[h][Polarity(f, n)] /\ Polarity(f, n) \in BOOLEAN
        BY <2>2, AssertsDef DEF Polarity
      <4>2. ExtractAll[f] = UNION {ExtractAll[g] : g \in Sub(f)}
        BY <2>2, ExtractDef
      <4>3. \A g \in ExtractAll[h] : PointAt(g, v) \in U
        BY <4>2
      <4>4. NoApp(Above[h][Polarity(f, n)])
        BY AbovePart DEF NoApp
      <4> HIDE DEF Fine
      <4>5. QED
        BY <1>1, <4>1, <4>3, <4>4
    <3>2. CASE f.op = "theory"
      BY <3>2, TruthDef
    <3>3. CASE f.op = "and"
      BY <3>1, <3>3, TruthDef DEF Polarity
    <3>4. CASE f.op = "or"
      BY <3>1, <3>4, TruthDef DEF Polarity
    <3>5. CASE f.op = "not"
      <4>0. f.args[1] \in Sub(f)
        BY <3>5, FormulaKinds
      <4>1. PICK h \in Sub(f) : TRUE
        BY <4>0
      <4>2. /\ True(f, v, U) <=> ~ True(h, v, U)
            /\ True(f, v, T) <=> ~ True(h, v, T)
        BY <3>5, TruthDef
      <4>3. QED
        BY <3>1, <3>5, <4>2 DEF Polarity
    <3>6. CASE f.op = "app"
      <4>1. ExtractAll[f] = {}
        BY <3>6, AboveDef DEF NoApp
      <4>2. QED
        BY <4>1, TrueLocal
    <3>7. QED
      BY <2>2, <3>2, <3>3, <3>4, <3>5, <3>6, FormulaKinds
  <2>3. QED
    BY <2>1, <2>2
<1>2. Formula \subseteq S
  <2> HIDE DEF S
  <2> QED BY <1>1, FormulaInduction
<1>3. QED
  BY <1>2

(* Where, moreover, no relation is below a disjunction, a formula that is  *)
(* true has its relations true, and a negated one that is false as well.   *)
LEMMA ConjunctivePoints ==
  ASSUME NEW v, NEW T
  PROVE  \A f \in Formula : \A n \in BOOLEAN :
           AssertsHold[f][n] /\ NoDisjunction(Above[f][n]) /\ (IF n THEN ~ True(f, v, T) ELSE True(f, v, T))
             => \A g \in ExtractAll[f] : PointAt(g, v) \in T
<1> DEFINE Fine(f, n) == IF n THEN ~ True(f, v, T) ELSE True(f, v, T)
           S == {f \in Formula : \A n \in BOOLEAN :
                   AssertsHold[f][n] /\ NoDisjunction(Above[f][n]) /\ Fine(f, n)
                     => \A g \in ExtractAll[f] : PointAt(g, v) \in T}
<1>1. ASSUME NEW f \in Formula, Sub(f) \subseteq S
      PROVE  f \in S
  <2> SUFFICES ASSUME NEW n \in BOOLEAN, AssertsHold[f][n], NoDisjunction(Above[f][n]), Fine(f, n),
                      NEW g \in ExtractAll[f]
               PROVE  PointAt(g, v) \in T
    OBVIOUS
  <2>1. CASE f.op = "rel"
    <3>0. ExtractAll[f] = {f} /\ (AssertsHold[f][n] => ~ n)
      BY <2>1, AssertsDef, ExtractDef
    <3>1. n = FALSE /\ g = f
      BY <3>0
    <3>2. QED
      BY <2>1, <3>1, TruthDef
  <2>2. CASE f.op # "rel"
    <3>1. ExtractAll[f] = UNION {ExtractAll[h] : h \in Sub(f)}
      BY <2>2, ExtractDef
    <3>2. PICK h \in Sub(f) : g \in ExtractAll[h]
      BY <3>1
    <3>3. /\ AssertsHold[h][Polarity(f, n)] /\ Polarity(f, n) \in BOOLEAN
          /\ NoDisjunction(Above[h][Polarity(f, n)])
      <4>1. AssertsHold[h][Polarity(f, n)]
        BY <2>2, AssertsDef
      <4>2. NoDisjunction(Above[h][Polarity(f, n)])
        BY AbovePart DEF NoDisjunction, NoApp
      <4>3. Polarity(f, n) \in BOOLEAN
        BY DEF Polarity
      <4>4. QED
        BY <4>1, <4>2, <4>3
    <3>4. f.op # (IF n THEN "and" ELSE "or") /\ f.op # "app"
      <4>1. <<f.op, n>> \in Above[f][n]
        BY <2>2, AboveDef
      <4>2. QED
        BY <4>1 DEF NoDisjunction, NoApp
    <3>5. f.op # "theory"
      BY <3>2, FormulaKinds
    <3>6. Fine(h, Polarity(f, n))
      <4>1. CASE f.op = "and"
        BY <3>4, <4>1, TruthDef DEF Polarity
      <4>2. CASE f.op = "or"
        BY <3>4, <4>2, TruthDef DEF Polarity
      <4>3. CASE f.op = "not"
        BY <4>3, TruthDef DEF Polarity
      <4> HIDE DEF Fine
      <4>4. QED
        BY <2>2, <3>4, <3>5, <4>1, <4>2, <4>3, FormulaKinds
    <3> HIDE DEF Fine
    <3>7. QED
      BY <1>1, <3>2, <3>3, <3>6
  <2>3. QED
    BY <2>1, <2>2
<1>2. Formula \subseteq S
  <2> HIDE DEF S
  <2> QED BY <1>1, FormulaInduction
<1>3. QED
  BY <1>2

-----------------------------------------------------------------------------
(* Finitely many relations are extracted from a formula. *)
LEMMA ExtractFinite == \A f \in Formula : IsFiniteSet(ExtractAll[f])
<1> DEFINE S == {f \in Formula : IsFiniteSet(ExtractAll[f])}
<1>1. ASSUME NEW f \in Formula, Sub(f) \subseteq S
      PROVE  f \in S
  <2>1. CASE f.op = "rel"
    <3>1. ExtractAll[f] = {f}
      BY <2>1, ExtractDef
    <3>2. QED
      BY <3>1, FS_Singleton
  <2>2. CASE f.op # "rel"
    <3> DEFINE E == {ExtractAll[g] : g \in Sub(f)}
               args == [k \in 1 .. Len(f.args) |-> ExtractAll[f.args[k]]]
    <3>1. ExtractAll[f] = UNION E
      BY <2>2, ExtractDef
    <3>2. PICK R : f.args \in Seq(R)
      BY FormulaAssumption DEF IsFormula
    <3>3. DOMAIN f.args = 1 .. Len(f.args) /\ Len(f.args) \in Nat
      BY <3>2
    <3>4. Sub(f) = {f.args[k] : k \in 1 .. Len(f.args)}
      BY <2>2, <3>3 DEF Sub
    <3>5. args \in Surjection(1 .. Len(f.args), E)
      BY <3>4 DEF Surjection
    <3>6. IsFiniteSet(1 .. Len(f.args))
      BY <3>3, FS_Interval
    <3>7. IsFiniteSet(E)
      <4> HIDE DEF E, args
      <4> QED BY <3>5, <3>6, FS_Surjection
    <3>8. \A D \in E : IsFiniteSet(D)
      BY <1>1
    <3>9. IsFiniteSet(UNION E)
      <4> HIDE DEF E
      <4> QED BY <3>7, <3>8, FS_UNION
    <3>10. QED
      BY <3>1, <3>9
  <2>3. QED
    BY <2>1, <2>2
<1>2. Formula \subseteq S
  <2> HIDE DEF S
  <2> QED BY <1>1, FormulaInduction
<1>3. QED
  BY <1>2

(* The points of a counterexample are those of the relations. *)
LEMMA PointsListed ==
  ASSUME NEW S, IsFiniteSet(S), NEW v
  PROVE  /\ Cardinality(S) \in Nat
         /\ DOMAIN PointsAt(S, v) = 1 .. Cardinality(S)
         /\ \A k \in DOMAIN PointsAt(S, v) : \E f \in S : PointsAt(S, v)[k] = PointAt(f, v)
         /\ \A f \in S : \E k \in DOMAIN PointsAt(S, v) : PointsAt(S, v)[k] = PointAt(f, v)
<1> DEFINE n == Cardinality(S)
           P(s) == \A f \in S : \E k \in DOMAIN s : s[k] = f
<1>1. n \in Nat /\ ExistsBijection(1 .. n, S)
  BY FS_CardinalityType
<1>2. PICK b \in [1 .. n -> S] : \A f \in S : \E k \in 1 .. n : b[k] = f
  BY <1>1 DEF ExistsBijection, Bijection, Surjection
<1>3. \E s \in [1 .. n -> S] : P(s)
  BY <1>2
<1>4. Listed(S) \in [1 .. n -> S] /\ P(Listed(S))
  <2>1. Listed(S) = CHOOSE s \in [1 .. n -> S] : P(s)
    BY DEF Listed
  <2> HIDE DEF P, n
  <2>2. QED
    BY <1>3, <2>1, Zenon
<1>5. PointsAt(S, v) = [k \in 1 .. n |-> PointAt(Listed(S)[k], v)]
  BY DEF PointsAt
<1> HIDE DEF n
<1>6. QED
  BY <1>1, <1>4, <1>5 DEF n

-----------------------------------------------------------------------------
(* The clauses of a system are those of its rules and of its queries. *)
LEMMA ClauseKinds ==
  ASSUME NEW s
  PROVE  /\ \A c \in Chcs(s) :
              \/ \E r \in s.rules : ~ Skipped(PreprocessedRule(r)) /\ c = RuleClause(PreprocessedRule(r))
              \/ \E q \in s.queries : c = QueryClause(Preprocessed[q])
         /\ \A r \in s.rules : ~ Skipped(PreprocessedRule(r)) => RuleClause(PreprocessedRule(r)) \in Chcs(s)
         /\ \A q \in s.queries : QueryClause(Preprocessed[q]) \in Chcs(s)
BY DEF Chcs

(* What the proofs need to know of a clause: its premises are the          *)
(* relations of its body, where the assertions of extract_relations hold,  *)
(* it has at most one conclusion, and that is its head unless the head is  *)
(* a Bool constant.                                                        *)
IsRelation(f) == f \in Formula /\ f.op = "rel" /\ f.args # <<>> /\ f.rel # VerifierError

IsParsed(c) ==
  /\ c.body \subseteq Formula
  /\ \A f \in c.body : AssertsHold[f][FALSE]
  /\ c.lhs = UNION {ExtractAll[f] : f \in c.body}
  /\ \A f \in c.lhs \cup c.rhs : IsRelation(f)
  /\ IsFiniteSet(c.lhs)
  /\ c.rhs = {} \/ \E f : c.rhs = {f}
  /\ c.head \subseteq Formula
  /\ \A f \in c.head : f.op \in {"rel", "theory"}
  /\ c.rhs = {f \in c.head : f.op = "rel"}

(* The fields of a preprocessed rule. *)
LEMMA RuleFields ==
  ASSUME NEW r
  PROVE  LET p == PreprocessedRule(r)
         IN  /\ p.lhs = {Preprocessed[f] : f \in r.lhs} /\ p.rhs = Preprocessed[r.rhs]
             /\ RuleClause(p).lhs = UNION {ExtractAll[g] : g \in p.lhs}
             /\ RuleClause(p).rhs = ExtractAll[p.rhs]
             /\ RuleClause(p).body = p.lhs /\ RuleClause(p).head = {p.rhs}
BY DEF PreprocessedRule, RuleClause, Premises, ExtractRelations

(* What preprocesses to a relation is one. *)
LEMMA RelationBefore ==
  ASSUME NEW f \in Formula, Preprocessed[f].op = "rel"
  PROVE  f.op = "rel"
BY FormulaKinds, PreprocessedKinds

(* The head of a rule is a relation or a Bool constant. *)
LEMMA HeadKinds ==
  ASSUME NEW r, Accepts(r), r.rhs \in Formula
  PROVE  \/ r.rhs.op = "rel" /\ ExtractAll[r.rhs] = {r.rhs}
         \/ r.rhs.op = "theory" /\ ExtractAll[r.rhs] = {}
<1>1. CASE r.rhs.op = "rel"
  BY <1>1, ExtractDef
<1>2. CASE r.rhs.op # "rel"
  <2>1. r.rhs.op = "theory"
    BY <1>2 DEF Accepts, AcceptsFact, AcceptsRule, IsUninterpreted
  <2>2. Sub(r.rhs) = {}
    BY <2>1, FormulaKinds
  <2>3. QED
    BY <1>2, <2>1, <2>2, ExtractDef
<1>3. QED
  BY <1>1, <1>2

(* The clause of a rule. *)
LEMMA RuleParsed ==
  ASSUME NEW s \in Systems, NEW r \in s.rules, Accepts(PreprocessedRule(r)),
         ~ Skipped(PreprocessedRule(r))
  PROVE  IsParsed(RuleClause(PreprocessedRule(r)))
<1> DEFINE p == PreprocessedRule(r)
           c == RuleClause(p)
<1>1. /\ p.lhs = {Preprocessed[f] : f \in r.lhs} /\ p.rhs = Preprocessed[r.rhs]
      /\ c.lhs = UNION {ExtractAll[g] : g \in p.lhs} /\ c.rhs = ExtractAll[p.rhs]
      /\ c.body = p.lhs /\ c.head = {p.rhs}
  BY RuleFields
<1>2. r.rhs \in Formula /\ r.lhs \subseteq Formula /\ \A f, g \in r.lhs : f = g
  BY SystemsAssumption DEF IsSystem
<1>3. /\ p.rhs \in Formula /\ p.lhs \subseteq Formula
      /\ \/ p.rhs.op = "rel" /\ ExtractAll[p.rhs] = {p.rhs}
         \/ p.rhs.op = "theory" /\ ExtractAll[p.rhs] = {}
  BY <1>1, <1>2, PreprocessedKinds, HeadKinds
<1>4. p.rhs.op = "rel" => p.rhs.args # <<>>
  BY <1>1, <1>2, RelationBefore, PreprocessedRelation
<1>5. \A f \in p.lhs : AssertsHold[f][FALSE]
  BY DEF Accepts, AcceptsRule
<1>6. p.rhs.op = "rel" => p.rhs.rel # VerifierError
  <2>1. CASE p.lhs = {}
    BY <2>1, <1>4 DEF Skipped
  <2>2. CASE p.lhs # {}
    <3>1. AssertsHold[p.rhs][FALSE]
      BY <2>2 DEF Accepts, AcceptsRule
    <3> HIDE DEF p
    <3>2. QED
      BY <1>3, <3>1, AssertedNames
  <2>3. QED
    BY <2>1, <2>2
<1>7. ASSUME NEW f \in c.lhs
      PROVE  IsRelation(f)
  <2>1. PICK b \in r.lhs : f \in ExtractAll[Preprocessed[b]]
    BY <1>1
  <2>2. b \in Formula /\ Preprocessed[b] \in Formula /\ AssertsHold[Preprocessed[b]][FALSE]
    BY <1>1, <1>2, <1>3, <1>5
  <2>3. f \in Formula /\ f.op = "rel"
    BY <2>1, <2>2, ExtractedRelations
  <2>4. f.args # <<>>
    BY <2>1, <2>2, PreprocessedExtract
  <2>5. f.rel # VerifierError
    BY <2>1, <2>2, AssertedNames
  <2>6. QED
    BY <2>3, <2>4, <2>5 DEF IsRelation
<1>8. IsFiniteSet(c.lhs)
  <2>1. CASE p.lhs = {}
    <3>1. c.lhs = {}
      BY <1>1, <2>1
    <3>2. QED
      BY <3>1, FS_EmptySet
  <2>2. CASE p.lhs # {}
    <3>1. PICK b \in r.lhs : TRUE
      BY <1>1, <2>2
    <3>2. p.lhs = {Preprocessed[b]}
      BY <1>1, <1>2
    <3>3. c.lhs = ExtractAll[Preprocessed[b]]
      BY <1>1, <3>2
    <3>4. QED
      BY <1>2, <3>3, PreprocessedKinds, ExtractFinite
  <2>3. QED
    BY <2>1, <2>2
<1>9. p.rhs.op = "rel" => IsRelation(p.rhs)
  BY <1>3, <1>4, <1>6 DEF IsRelation
<1> HIDE DEF p, c
<1>10. IsParsed(c)
  <2>1. CASE p.rhs.op = "rel"
    BY <1>1, <1>3, <1>5, <1>7, <1>8, <1>9, <2>1 DEF IsParsed
  <2>2. CASE p.rhs.op # "rel"
    BY <1>1, <1>3, <1>5, <1>7, <1>8, <2>2 DEF IsParsed
  <2>3. QED
    BY <2>1, <2>2
<1>11. QED
  BY <1>10 DEF c, p

(* The clause of a query. *)
LEMMA QueryParsed ==
  ASSUME NEW s \in Systems, NEW q \in s.queries, AcceptsQuery(Preprocessed[q])
  PROVE  IsParsed(QueryClause(Preprocessed[q]))
<1> DEFINE p == Preprocessed[q]
           c == QueryClause(p)
<1>1. q \in Formula
  BY SystemsAssumption DEF IsSystem
<1>2. p \in Formula /\ p.op = "rel" /\ p.rel # VerifierError
  BY <1>1, PreprocessedKinds DEF AcceptsQuery
<1>3. p.args # <<>>
  BY <1>1, <1>2, RelationBefore, PreprocessedRelation
<1> HIDE DEF p
<1>4. c.lhs = {p} /\ c.rhs = {} /\ c.body = {p} /\ c.head = {}
  BY DEF QueryClause
<1>5. ExtractAll[p] = {p} /\ AssertsHold[p][FALSE]
  BY <1>2, ExtractDef, AssertsDef
<1>6. IsFiniteSet(c.lhs)
  BY <1>4, FS_Singleton
<1> HIDE DEF c
<1>7. IsParsed(c)
  BY <1>2, <1>3, <1>4, <1>5, <1>6 DEF IsParsed, IsRelation
<1>8. QED
  BY <1>7 DEF c, p

(* Every clause of a system that parses. *)
LEMMA ClausesParsed ==
  ASSUME NEW s \in Systems, Parses(s)
  PROVE  \A c \in Chcs(s) : IsParsed(c)
<1> SUFFICES ASSUME NEW c \in Chcs(s)
             PROVE  IsParsed(c)
  OBVIOUS
<1>1. CASE \E r \in s.rules : ~ Skipped(PreprocessedRule(r)) /\ c = RuleClause(PreprocessedRule(r))
  BY <1>1, RuleParsed DEF Parses
<1>2. CASE \E q \in s.queries : c = QueryClause(Preprocessed[q])
  BY <1>2, QueryParsed DEF Parses
<1>3. QED
  BY <1>1, <1>2, ClauseKinds

(* The relations of the clauses are among those conjectures are learned    *)
(* for.                                                                    *)
LEMMA RelationsLearned ==
  ASSUME NEW s \in Systems, Parses(s), NEW c \in Chcs(s)
  PROVE  ClauseRelations(c) \subseteq RelationsIn(s)
<1> DEFINE All == (UNION {r.lhs \cup {r.rhs} : r \in s.rules}) \cup s.queries
           Found == UNION {ExtractAll[Preprocessed[f]] : f \in All}
<1>1. RelationsIn(s) = {g.rel : g \in Found} \ {VerifierError}
  BY DEF RelationsIn
<1>2. \A f \in c.lhs \cup c.rhs : IsRelation(f)
  BY ClausesParsed DEF IsParsed
<1>3. ASSUME NEW f \in c.lhs \cup c.rhs
      PROVE  f \in Found
  <2>1. CASE \E r \in s.rules : c = RuleClause(PreprocessedRule(r))
    <3>1. PICK r \in s.rules : c = RuleClause(PreprocessedRule(r))
      BY <2>1
    <3>2. /\ c.lhs = UNION {ExtractAll[g] : g \in {Preprocessed[b] : b \in r.lhs}}
          /\ c.rhs = ExtractAll[Preprocessed[r.rhs]]
      BY <3>1, RuleFields
    <3>3. r.lhs \subseteq All /\ r.rhs \in All
      OBVIOUS
    <3>4. CASE f \in c.lhs
      <4>1. PICK b \in r.lhs : f \in ExtractAll[Preprocessed[b]]
        BY <3>2, <3>4
      <4> HIDE DEF All
      <4>2. QED
        BY <3>3, <4>1
    <3>5. CASE f \in c.rhs
      <4> HIDE DEF All
      <4> QED
        BY <3>2, <3>3, <3>5
    <3>6. QED
      BY <3>4, <3>5
  <2>2. CASE \E q \in s.queries : c = QueryClause(Preprocessed[q])
    <3>1. PICK q \in s.queries : c = QueryClause(Preprocessed[q])
      BY <2>2
    <3>2. f = Preprocessed[q]
      BY <3>1 DEF QueryClause
    <3>3. f \in ExtractAll[f]
      BY <1>2, ExtractDef DEF IsRelation
    <3>4. q \in All
      OBVIOUS
    <3> HIDE DEF All
    <3>5. QED
      BY <3>2, <3>3, <3>4
  <2>3. QED
    BY <2>1, <2>2, ClauseKinds
<1> HIDE DEF Found
<1>4. QED
  BY <1>1, <1>2, <1>3 DEF ClauseRelations, IsRelation

-----------------------------------------------------------------------------
(* Points of the clauses have arguments. *)
LEMMA SystemPointsHaveArguments ==
  ASSUME NEW s \in Systems, Parses(s), NEW T \in SUBSET SystemPoints(s)
  PROVE  \A r : <<r, <<>>>> \notin T
<1> SUFFICES ASSUME NEW r, <<r, <<>>>> \in T
             PROVE  FALSE
  OBVIOUS
<1>1. PICK c \in Chcs(s) : <<r, <<>>>> \in PointsIn(c)
  BY DEF SystemPoints
<1>2. PICK f \in c.lhs \cup c.rhs, v \in Valuation : <<r, <<>>>> = PointAt(f, v)
  BY <1>1 DEF PointsIn
<1>3. IsRelation(f)
  BY <1>2, ClausesParsed DEF IsParsed
<1>4. QED
  BY <1>2, <1>3, PointHasArguments DEF IsRelation

(* A rule is skipped if and only if its preprocessed form is. *)
LEMMA SkippedSame ==
  ASSUME NEW s \in Systems, NEW r \in s.rules, Accepts(PreprocessedRule(r))
  PROVE  Skipped(r) <=> Skipped(PreprocessedRule(r))
<1> DEFINE p == PreprocessedRule(r)
<1>1. p.lhs = {Preprocessed[f] : f \in r.lhs} /\ p.rhs = Preprocessed[r.rhs]
  BY RuleFields
<1>2. r.rhs \in Formula
  BY SystemsAssumption DEF IsSystem
<1>3. p.lhs = {} => r.rhs.op = "rel"
  BY <1>1, <1>2, RelationBefore DEF Accepts, AcceptsFact
<1>4. p.lhs = {} <=> r.lhs = {}
  BY <1>1
<1>5. CASE p.lhs = {} /\ r.rhs.args # <<>>
  <2>1. p.rhs = r.rhs
    BY <1>1, <1>2, <1>3, <1>5, PreprocessedKinds
  <2>2. QED
    BY <1>4, <2>1 DEF Skipped
<1>6. CASE p.lhs = {} /\ r.rhs.args = <<>>
  <2>1. p.rhs = Rel(Renamed[r.rhs.rel], <<Literal(1)>>)
    BY <1>1, <1>2, <1>3, <1>6, PreprocessedKinds
  <2>2. p.rhs.rel = Renamed[r.rhs.rel]
    BY <2>1 DEF Rel
  <2>3. r.rhs.rel \in DOMAIN Renamed
    BY <1>2, <1>3, <1>6, FormulaAssumption DEF IsFormula
  <2>4. p.rhs.rel # VerifierError
    BY <2>2, <2>3, RenamedAssumption
  <2>5. QED
    BY <1>6, <2>4 DEF Skipped
<1>7. CASE p.lhs # {}
  BY <1>4, <1>7 DEF Skipped
<1>8. QED
  BY <1>5, <1>6, <1>7

(* The file is solved if and only if every clause is true. *)
LEMMA SolvesClauses ==
  ASSUME NEW s \in Systems, Parses(s), NEW T, \A r : <<r, <<>>>> \notin T
  PROVE  SolvesFile(s, T) <=>
           \A c \in Chcs(s) : \A v \in Valuation : TrueRule(c.body, c.head, v, T)
<1>1. /\ \A r \in s.rules : r.rhs \in Formula /\ r.lhs \subseteq Formula
      /\ s.queries \subseteq Formula
  BY SystemsAssumption DEF IsSystem
<1>2. ASSUME NEW r \in s.rules, NEW v \in Valuation
      PROVE  LET c == RuleClause(PreprocessedRule(r))
             IN  TrueRule(r.lhs, {r.rhs}, v, Original(T)) <=> TrueRule(c.body, c.head, v, T)
  <2> DEFINE c == RuleClause(PreprocessedRule(r))
  <2>1. c.body = {Preprocessed[f] : f \in r.lhs} /\ c.head = {Preprocessed[r.rhs]}
    BY RuleFields
  <2>2. /\ \A f \in r.lhs : True(f, v, Original(T)) <=> True(Preprocessed[f], v, T)
        /\ True(r.rhs, v, Original(T)) <=> True(Preprocessed[r.rhs], v, T)
    BY <1>1, TruePreprocessed
  <2>3. (\A f \in r.lhs : True(f, v, Original(T))) <=> \A g \in c.body : True(g, v, T)
    BY <2>1, <2>2
  <2> HIDE DEF c
  <2>4. QED
    BY <2>1, <2>2, <2>3 DEF TrueRule, c
<1>3. ASSUME NEW q \in s.queries, NEW v \in Valuation
      PROVE  LET c == QueryClause(Preprocessed[q])
             IN  ~ True(q, v, Original(T)) <=> TrueRule(c.body, c.head, v, T)
  <2>1. True(q, v, Original(T)) <=> True(Preprocessed[q], v, T)
    BY <1>1, TruePreprocessed
  <2>2. QED
    BY <2>1 DEF QueryClause, TrueRule
<1>4. \A r \in s.rules : Skipped(r) <=> Skipped(PreprocessedRule(r))
  BY SkippedSame DEF Parses
<1>5. ASSUME SolvesFile(s, T), NEW c \in Chcs(s), NEW v \in Valuation
      PROVE  TrueRule(c.body, c.head, v, T)
  <2>1. CASE \E r \in s.rules : ~ Skipped(PreprocessedRule(r)) /\ c = RuleClause(PreprocessedRule(r))
    <3>1. PICK r \in s.rules : ~ Skipped(PreprocessedRule(r)) /\ c = RuleClause(PreprocessedRule(r))
      BY <2>1
    <3>2. TrueRule(r.lhs, {r.rhs}, v, Original(T))
      BY <1>4, <1>5, <3>1 DEF SolvesFile
    <3>3. QED
      BY <1>2, <3>1, <3>2
  <2>2. CASE \E q \in s.queries : c = QueryClause(Preprocessed[q])
    BY <1>3, <1>5, <2>2 DEF SolvesFile
  <2>3. QED
    BY <2>1, <2>2, ClauseKinds
<1>6. ASSUME \A c \in Chcs(s) : \A v \in Valuation : TrueRule(c.body, c.head, v, T)
      PROVE  SolvesFile(s, T)
  <2>1. ASSUME NEW r \in s.rules, NEW v \in Valuation, ~ Skipped(r)
        PROVE  TrueRule(r.lhs, {r.rhs}, v, Original(T))
    <3>1. RuleClause(PreprocessedRule(r)) \in Chcs(s)
      BY <1>4, <2>1, ClauseKinds
    <3>2. QED
      BY <1>2, <1>6, <3>1
  <2>2. ASSUME NEW q \in s.queries, NEW v \in Valuation
        PROVE  ~ True(q, v, Original(T))
    <3>1. QueryClause(Preprocessed[q]) \in Chcs(s)
      BY ClauseKinds
    <3>2. QED
      BY <1>3, <1>6, <3>1
  <2>3. QED
    BY <2>1, <2>2 DEF SolvesFile
<1>7. QED
  BY <1>5, <1>6

-----------------------------------------------------------------------------
(* The points of a counterexample of a clause. *)
LEMMA CounterexamplePoints ==
  ASSUME NEW c, IsParsed(c), NEW v, NEW T
  PROVE  Admits(Extracted(c, v), T) <=>
           ((\A f \in c.lhs : PointAt(f, v) \in T) => \E f \in c.rhs : PointAt(f, v) \in T)
<1> DEFINE i == Extracted(c, v)
<1>1. i.lhs = PointsAt(c.lhs, v) /\ i.rhs = PointsAt(c.rhs, v)
  BY DEF Extracted
<1>2. IsFiniteSet(c.lhs)
  BY DEF IsParsed
<1>3. IsFiniteSet(c.rhs)
  <2>1. CASE c.rhs = {}
    BY <2>1, FS_EmptySet
  <2>2. CASE \E f : c.rhs = {f}
    BY <2>2, FS_Singleton
  <2>3. QED
    BY <2>1, <2>2 DEF IsParsed
<1>4. (\A k \in DOMAIN i.lhs : i.lhs[k] \in T) <=> \A f \in c.lhs : PointAt(f, v) \in T
  BY <1>1, <1>2, PointsListed
<1>5. (\E k \in DOMAIN i.rhs : i.rhs[k] \in T) <=> \E f \in c.rhs : PointAt(f, v) \in T
  BY <1>1, <1>3, PointsListed
<1> HIDE DEF i
<1>6. Admits(i, T) <=>
        ((\A f \in c.lhs : PointAt(f, v) \in T) => \E f \in c.rhs : PointAt(f, v) \in T)
  BY <1>4, <1>5 DEF Admits
<1>7. QED
  BY <1>6 DEF i

(* A head is true if it is a relation and its point is true, or a Bool     *)
(* constant that is true.                                                  *)
LEMMA HeadTrue ==
  ASSUME NEW c, IsParsed(c), NEW v, NEW T
  PROVE  /\ \A f \in c.head : \/ f \in c.rhs /\ (True(f, v, T) <=> PointAt(f, v) \in T)
                              \/ f \notin c.rhs /\ (True(f, v, T) <=> v \in f.holds)
         /\ c.rhs \subseteq c.head
<1>1. ASSUME NEW f \in c.head
      PROVE  \/ f \in c.rhs /\ (True(f, v, T) <=> PointAt(f, v) \in T)
             \/ f \notin c.rhs /\ (True(f, v, T) <=> v \in f.holds)
  <2>1. f \in Formula /\ f.op \in {"rel", "theory"} /\ (f \in c.rhs <=> f.op = "rel")
    BY DEF IsParsed
  <2>2. QED
    BY <2>1, TruthDef
<1>2. QED
  BY <1>1 DEF IsParsed

(* A counterexample is true of every set of points of which the clause is  *)
(* true.                                                                   *)
LEMMA CounterexampleSound ==
  ASSUME NEW c, IsParsed(c), Plain(c), NEW T, NEW U, NEW v, ~ TrueRule(c.body, c.head, v, T),
         TrueRule(c.body, c.head, v, U)
  PROVE  Admits(Extracted(c, v), U)
<1> SUFFICES ASSUME \A f \in c.lhs : PointAt(f, v) \in U
             PROVE  \E f \in c.rhs : PointAt(f, v) \in U
  BY CounterexamplePoints
<1>1. ASSUME NEW f \in c.body
      PROVE  True(f, v, U)
  <2>1. f \in Formula /\ AssertsHold[f][FALSE] /\ c.lhs = UNION {ExtractAll[g] : g \in c.body}
    BY DEF IsParsed
  <2>2. \A g \in ExtractAll[f] : PointAt(g, v) \in U
    BY <2>1
  <2>3. True(f, v, T)
    BY DEF TrueRule
  <2>4. NoApp(Above[f][FALSE])
    BY DEF Plain, AboveRelations, NoApp
  <2>5. True(f, v, T) => True(f, v, U)
    BY <2>1, <2>2, <2>4, Monotone
  <2>6. QED
    BY <2>3, <2>5
<1>2. PICK f \in c.head : True(f, v, U)
  BY <1>1 DEF TrueRule
<1>3. ~ True(f, v, T)
  BY DEF TrueRule
<1>4. QED
  BY <1>2, <1>3, HeadTrue

(* A counterexample of a clause whose premises are conjunctions is not     *)
(* true of the points it was found for.                                    *)
LEMMA CounterexampleRefutes ==
  ASSUME NEW c, IsParsed(c), Conjunctive(c), NEW T, NEW v, ~ TrueRule(c.body, c.head, v, T)
  PROVE  ~ Admits(Extracted(c, v), T)
<1>1. ASSUME NEW g \in c.lhs
      PROVE  PointAt(g, v) \in T
  <2>1. PICK f \in c.body : g \in ExtractAll[f]
    BY DEF IsParsed
  <2>2. f \in Formula /\ AssertsHold[f][FALSE]
    BY DEF IsParsed
  <2>3. NoDisjunction(Above[f][FALSE])
    <3>1. Above[f][FALSE] \subseteq AboveRelations(c)
      BY DEF AboveRelations
    <3>2. QED
      BY <3>1 DEF Conjunctive, Plain, NoDisjunction, NoApp
  <2>4. True(f, v, T)
    BY DEF TrueRule
  <2>5. QED
    BY <2>1, <2>2, <2>3, <2>4, ConjunctivePoints
<1>2. \A f \in c.rhs : PointAt(f, v) \notin T
  BY HeadTrue DEF TrueRule
<1>3. QED
  BY <1>1, <1>2, CounterexamplePoints

(* The counterexamples of the clauses of any file that parses are true of  *)
(* every solution of the file.                                             *)
LEMMA ParserSound == AllSound
<1> SUFFICES ASSUME NEW s \in Systems, Parses(s)
             PROVE  /\ \A c \in Chcs(s) : ClauseRelations(c) \subseteq RelationsIn(s)
                    /\ (\A c \in Chcs(s) : Plain(c)) =>
                         \A U \in SUBSET SystemPoints(s) : SolvesFile(s, U) =>
                           \A c \in Chcs(s) : \A T \in SUBSET PointsIn(c) :
                             \A i \in Counterexamples(c, T) : Admits(i, U)
  BY DEF AllSound, SoundOn
<1>1. \A c \in Chcs(s) : ClauseRelations(c) \subseteq RelationsIn(s)
  BY RelationsLearned
<1>2. ASSUME \A d \in Chcs(s) : Plain(d),
             NEW U \in SUBSET SystemPoints(s), SolvesFile(s, U), NEW c \in Chcs(s),
             NEW T \in SUBSET PointsIn(c), NEW i \in Counterexamples(c, T)
      PROVE  Admits(i, U)
  <2>1. PICK v \in Valuation : i = Extracted(c, v) /\ ~ TrueRule(c.body, c.head, v, T)
    BY DEF Counterexamples
  <2>2. \A r : <<r, <<>>>> \notin U
    BY SystemPointsHaveArguments
  <2>3. TrueRule(c.body, c.head, v, U)
    BY <1>2, <2>2, SolvesClauses
  <2>4. QED
    BY <1>2, <2>1, <2>3, ClausesParsed, CounterexampleSound
<1>3. QED
  BY <1>1, <1>2

(* If premises are conjunctions, counterexamples refute the conjectures,   *)
(* and without counterexample the file is solved.                          *)
LEMMA ParserRefuting == AllRefuting
<1> SUFFICES ASSUME NEW s \in Systems, Parses(s), \A c \in Chcs(s) : Conjunctive(c)
             PROVE  /\ \A c \in Chcs(s) : \A T \in SUBSET PointsIn(c) :
                         \A i \in Counterexamples(c, T) : ~ Admits(i, T)
                    /\ \A T \in SUBSET SystemPoints(s) :
                         (\A c \in Chcs(s) : Counterexamples(c, T) = {}) => SolvesFile(s, T)
  BY DEF AllRefuting, RefutingOn
<1>1. ASSUME NEW c \in Chcs(s), NEW T \in SUBSET PointsIn(c), NEW i \in Counterexamples(c, T)
      PROVE  ~ Admits(i, T)
  <2>1. PICK v \in Valuation : i = Extracted(c, v) /\ ~ TrueRule(c.body, c.head, v, T)
    BY DEF Counterexamples
  <2>2. QED
    BY <2>1, ClausesParsed, CounterexampleRefutes
<1>2. ASSUME NEW T \in SUBSET SystemPoints(s), \A c \in Chcs(s) : Counterexamples(c, T) = {}
      PROVE  SolvesFile(s, T)
  <2>1. \A r : <<r, <<>>>> \notin T
    BY SystemPointsHaveArguments
  <2>2. \A c \in Chcs(s) : \A v \in Valuation : TrueRule(c.body, c.head, v, T)
    BY <1>2 DEF Counterexamples
  <2>3. QED
    BY <2>1, <2>2, SolvesClauses
<1>3. QED
  BY <1>1, <1>2

(* CounterexamplesAreSound, for files of any size over formulas of any     *)
(* depth (extract_relations, check_chc).                                   *)
THEOREM SoundCounterexamples == Spec => []CounterexamplesAreSound
<1>1. CounterexamplesAreSound
  BY ParserSound DEF CounterexamplesAreSound
<1>2. QED
  BY <1>1, PTL

(* CounterexamplesRefute, for files of any size over formulas of any depth *)
(* (extract_relations, check_chc).                                         *)
THEOREM RefutingCounterexamples == Spec => []CounterexamplesRefute
<1>1. CounterexamplesRefute
  BY ParserRefuting DEF CounterexamplesRefute
<1>2. QED
  BY <1>1, PTL

-----------------------------------------------------------------------------
(* The truth of a clause depends on its points only. *)
LEMMA ClauseLocal ==
  ASSUME NEW c, IsParsed(c), NEW v \in Valuation, NEW T, NEW U, T \cap PointsIn(c) = U \cap PointsIn(c)
  PROVE  TrueRule(c.body, c.head, v, T) <=> TrueRule(c.body, c.head, v, U)
<1>1. \A g \in c.lhs \cup c.rhs : PointAt(g, v) \in T <=> PointAt(g, v) \in U
  <2>1. \A g \in c.lhs \cup c.rhs : PointAt(g, v) \in PointsIn(c)
    BY DEF PointsIn
  <2>2. QED
    BY <2>1
<1>2. ASSUME NEW f \in c.body
      PROVE  True(f, v, T) <=> True(f, v, U)
  <2>1. f \in Formula /\ \A g \in ExtractAll[f] : g \in c.lhs
    BY DEF IsParsed
  <2>2. \A g \in ExtractAll[f] : PointAt(g, v) \in T <=> PointAt(g, v) \in U
    BY <1>1, <2>1
  <2>3. QED
    BY <2>1, <2>2, TrueLocal
<1>3. \A f \in c.head : True(f, v, T) <=> True(f, v, U)
  BY <1>1, HeadTrue
<1>4. QED
  BY <1>2, <1>3 DEF TrueRule

(* An instance of the teacher holds for a set of points if and only if the *)
(* counterexample it is made of is true of the set.                        *)
LEMMA InstanceHolds ==
  ASSUME NEW c, IsParsed(c), NEW v, NEW T \in SUBSET Point
  PROVE  LET i == Extracted(c, v)
         IN  Holds([lhs |-> i.lhs, rhs |-> IF c.rhs = {} THEN FalseDp ELSE i.rhs[1]], T)
               <=> Admits(i, T)
<1> DEFINE i == Extracted(c, v)
           j == [lhs |-> i.lhs, rhs |-> IF c.rhs = {} THEN FalseDp ELSE i.rhs[1]]
<1>1. i.lhs = PointsAt(c.lhs, v) /\ i.rhs = PointsAt(c.rhs, v)
  BY DEF Extracted
<1>2. j.rhs \in T <=> \E k \in DOMAIN i.rhs : i.rhs[k] \in T
  <2>1. CASE c.rhs = {}
    <3>1. DOMAIN i.rhs = 1 .. 0
      BY <1>1, <2>1, FS_EmptySet, PointsListed
    <3>2. j.rhs = FalseDp
      BY <2>1
    <3> HIDE DEF i, j
    <3>3. QED
      BY <3>1, <3>2, FalseDpAssumption
  <2>2. CASE \E f : c.rhs = {f}
    <3>1. IsFiniteSet(c.rhs) /\ Cardinality(c.rhs) = 1
      BY <2>2, FS_Singleton
    <3>2. DOMAIN i.rhs = 1 .. 1
      BY <1>1, <3>1, PointsListed
    <3>3. j.rhs = i.rhs[1]
      BY <2>2
    <3> HIDE DEF i, j
    <3>4. QED
      BY <3>2, <3>3
  <2>3. QED
    BY <2>1, <2>2 DEF IsParsed
<1>3. j.lhs = i.lhs
  OBVIOUS
<1> HIDE DEF i, j
<1>4. Holds(j, T) <=> Admits(i, T)
  BY <1>2, <1>3 DEF Holds, Admits, PremisesOf
<1>5. QED
  BY <1>4 DEF i, j

(* The instances of the teacher's clauses. *)
LEMMA InstancesOf ==
  ASSUME NEW s \in Systems, IsAbout(s)
  PROVE  /\ \A d \in problem : \A j \in d.instances :
              \E c \in Chcs(s) : \E T \in SUBSET PointsIn(c) : \E i \in Counterexamples(c, T) :
                j = [lhs |-> i.lhs, rhs |-> IF c.rhs = {} THEN FalseDp ELSE i.rhs[1]]
         /\ \A c \in Chcs(s) : \A T \in SUBSET PointsIn(c) : \A i \in Counterexamples(c, T) :
              \E d \in problem :
                [lhs |-> i.lhs, rhs |-> IF c.rhs = {} THEN FalseDp ELSE i.rhs[1]] \in d.instances
<1>1. problem = {TeacherClause(c) : c \in Chcs(s)}
  BY DEF IsAbout, ProblemOf
<1>2. ASSUME NEW c
      PROVE  TeacherClause(c).instances =
               {[lhs |-> i.lhs, rhs |-> IF c.rhs = {} THEN FalseDp ELSE i.rhs[1]] :
                  i \in UNION {Counterexamples(c, T) : T \in SUBSET PointsIn(c)}}
  BY DEF TeacherClause
<1>3. ASSUME NEW d \in problem, NEW j \in d.instances
      PROVE  \E c \in Chcs(s) : \E T \in SUBSET PointsIn(c) : \E i \in Counterexamples(c, T) :
               j = [lhs |-> i.lhs, rhs |-> IF c.rhs = {} THEN FalseDp ELSE i.rhs[1]]
  <2>1. PICK c \in Chcs(s) : d = TeacherClause(c)
    BY <1>1
  <2>2. PICK i \in UNION {Counterexamples(c, T) : T \in SUBSET PointsIn(c)} :
          j = [lhs |-> i.lhs, rhs |-> IF c.rhs = {} THEN FalseDp ELSE i.rhs[1]]
    BY <1>2, <2>1
  <2>3. PICK T \in SUBSET PointsIn(c) : i \in Counterexamples(c, T)
    BY <2>2
  <2>4. QED
    BY <2>2, <2>3
<1>4. ASSUME NEW c \in Chcs(s), NEW T \in SUBSET PointsIn(c), NEW i \in Counterexamples(c, T)
      PROVE  [lhs |-> i.lhs, rhs |-> IF c.rhs = {} THEN FalseDp ELSE i.rhs[1]]
               \in TeacherClause(c).instances
  <2>1. i \in UNION {Counterexamples(c, R) : R \in SUBSET PointsIn(c)}
    OBVIOUS
  <2>2. QED
    BY <1>2, <2>1
<1>5. \A c \in Chcs(s) : TeacherClause(c) \in problem
  BY <1>1
<1>6. QED
  BY <1>3, <1>4, <1>5

(* What satisfies the clauses of the teacher solves the file, if premises  *)
(* are conjunctions.                                                       *)
LEMMA SolutionOfFile ==
  ASSUME NEW s \in Systems, IsAbout(s), \A c \in Chcs(s) : Conjunctive(c),
         NEW T \in SUBSET Point, Solves(T)
  PROVE  SolvesFile(s, T \cap SystemPoints(s))
<1> DEFINE D == T \cap SystemPoints(s)
<1>1. Parses(s) /\ D \in SUBSET SystemPoints(s)
  BY DEF IsAbout
<1>2. \A r : <<r, <<>>>> \notin D
  BY <1>1, SystemPointsHaveArguments
<1>3. ASSUME NEW c \in Chcs(s), NEW v \in Valuation, ~ TrueRule(c.body, c.head, v, D)
      PROVE  FALSE
  <2> DEFINE E == T \cap PointsIn(c)
             i == Extracted(c, v)
             j == [lhs |-> i.lhs, rhs |-> IF c.rhs = {} THEN FalseDp ELSE i.rhs[1]]
  <2>1. IsParsed(c)
    BY <1>1, ClausesParsed
  <2>2. PointsIn(c) \subseteq SystemPoints(s)
    BY DEF SystemPoints
  <2>3. ~ TrueRule(c.body, c.head, v, E)
    <3>1. E \cap PointsIn(c) = D \cap PointsIn(c)
      BY <2>2
    <3> HIDE DEF D, E
    <3>2. QED
      BY <1>3, <2>1, <3>1, ClauseLocal
  <2>4. E \in SUBSET PointsIn(c) /\ i \in Counterexamples(c, E)
    BY <2>3 DEF Counterexamples
  <2>5. PICK d \in problem : j \in d.instances
    <3> HIDE DEF E, i
    <3> QED BY <2>4, InstancesOf
  <2>6. Holds(j, T)
    BY <2>5 DEF Solves
  <2>7. Admits(i, T)
    BY <2>1, <2>6, InstanceHolds
  <2>8. ~ Admits(i, E)
    BY <2>1, <2>3, CounterexampleRefutes
  <2>9. \A f \in c.lhs \cup c.rhs : PointAt(f, v) \in T <=> PointAt(f, v) \in E
    BY DEF PointsIn
  <2> HIDE DEF E
  <2>10. QED
    BY <2>1, <2>7, <2>8, <2>9, CounterexamplePoints
<1> HIDE DEF D
<1>4. SolvesFile(s, D)
  BY <1>1, <1>2, <1>3, SolvesClauses
<1>5. QED
  BY <1>4 DEF D

(* A solution of the file satisfies the clauses of the teacher. *)
LEMMA SolutionOfClauses ==
  ASSUME NEW s \in Systems, IsAbout(s), \A c \in Chcs(s) : Plain(c),
         NEW U \in SUBSET SystemPoints(s), SolvesFile(s, U)
  PROVE  U \in SUBSET Point /\ Solves(U)
<1>1. Parses(s) /\ U \in SUBSET Point
  BY SystemPointsAssumption DEF IsAbout
<1>2. ASSUME NEW d \in problem, NEW j \in d.instances
      PROVE  Holds(j, U)
  <2>1. PICK c \in Chcs(s) :
          \E T \in SUBSET PointsIn(c) : \E i \in Counterexamples(c, T) :
            j = [lhs |-> i.lhs, rhs |-> IF c.rhs = {} THEN FalseDp ELSE i.rhs[1]]
    BY InstancesOf
  <2>2. PICK T \in SUBSET PointsIn(c) : \E i \in Counterexamples(c, T) :
          j = [lhs |-> i.lhs, rhs |-> IF c.rhs = {} THEN FalseDp ELSE i.rhs[1]]
    BY <2>1
  <2>3. PICK i \in Counterexamples(c, T) :
          j = [lhs |-> i.lhs, rhs |-> IF c.rhs = {} THEN FalseDp ELSE i.rhs[1]]
    BY <2>2
  <2>4. PICK v \in Valuation : i = Extracted(c, v)
    BY DEF Counterexamples
  <2>5. Admits(i, U)
    BY <1>1, ParserSound DEF AllSound, SoundOn
  <2>6. QED
    BY <1>1, <2>3, <2>4, <2>5, ClausesParsed, InstanceHolds
<1>3. QED
  BY <1>1, <1>2 DEF Solves

(* From file to conjectures: when learn2 returns, its conjectures solve    *)
(* the file that was parsed, if the premises are conjunctions.             *)
THEOREM FileSolved == Spec => []FileIsSolved
<1>1. TypeOK /\ SuccessIsSolution => FileIsSolved
  BY SolutionOfFile DEF TypeOK, SuccessIsSolution, FileIsSolved
<1>2. QED
  BY <1>1, TypeCorrect, Soundness, PTL

(* When the program gives up on a contradiction, the file that was parsed  *)
(* has no solution, if its relations are below and, or and not only.       *)
THEOREM FileUnsolvable == Spec => []FileIsUnsolvable
<1>1. BreaksOffOnlyIfUnsolvable => FileIsUnsolvable
  BY SolutionOfClauses DEF BreaksOffOnlyIfUnsolvable, FileIsUnsolvable
<1>2. QED
  BY <1>1, GivesUpRightly, PTL
=============================================================================
