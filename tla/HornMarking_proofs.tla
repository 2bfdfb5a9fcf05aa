------------------------- MODULE HornMarking_proofs -------------------------
(***************************************************************************)
(* Proofs about HornMarking for any number of points and constraints: the  *)
(* recursion of compute_marking stops in the least fixpoint only.          *)
(***************************************************************************)
EXTENDS HornMarking, TLAPS

USE FalseDpAssumption, NumClausesAssumption

(* Appending a set of constraints to the active loops. *)
LEMMA AppendWaits ==
  ASSUME NEW s \in Seq(SUBSET Clause), NEW D \in SUBSET Clause
  PROVE  /\ Append(s, D) \in Seq(SUBSET Clause)
         /\ \A c : Waits(c, s) \/ c \in D => Waits(c, Append(s, D))
<1>1. Append(s, D) \in Seq(SUBSET Clause)
  OBVIOUS
<1>2. ASSUME NEW c, Waits(c, s)
      PROVE  Waits(c, Append(s, D))
  <2>1. PICK k \in 1 .. Len(s) : c \in s[k]
    BY <1>2 DEF Waits
  <2>2. k \in 1 .. Len(Append(s, D)) /\ Append(s, D)[k] = s[k]
    OBVIOUS
  <2>3. QED
    BY <2>1, <2>2 DEF Waits
<1>3. ASSUME NEW c \in D
      PROVE  Waits(c, Append(s, D))
  <2>1. Len(s) + 1 \in 1 .. Len(Append(s, D)) /\ Append(s, D)[Len(s) + 1] = D
    OBVIOUS
  <2>2. QED
    BY <2>1 DEF Waits
<1>4. QED
  BY <1>1, <1>2, <1>3

(* Leaving an exhausted loop forgets no constraint. *)
LEMMA ReturnWaits ==
  ASSUME NEW s \in Seq(SUBSET Clause), s # <<>>, s[Len(s)] = {}
  PROVE  /\ SubSeq(s, 1, Len(s) - 1) \in Seq(SUBSET Clause)
         /\ \A c : Waits(c, s) => Waits(c, SubSeq(s, 1, Len(s) - 1))
<1>1. PICK n \in Nat : n = Len(s) - 1
  OBVIOUS
<1> DEFINE r == SubSeq(s, 1, n)
<1>2. r \in Seq(SUBSET Clause) /\ Len(r) = n
  BY <1>1
<1>3. \A k \in 1 .. n : r[k] = s[k]
  BY <1>1
<1>4. ASSUME NEW c, Waits(c, s)
      PROVE  Waits(c, r)
  <2>1. PICK k \in 1 .. Len(s) : c \in s[k]
    BY <1>4 DEF Waits
  <2>2. k \in 1 .. n
    BY <1>1, <2>1
  <2>3. QED
    BY <1>2, <1>3, <2>1, <2>2 DEF Waits
<1>5. QED
  BY <1>1, <1>2, <1>4

(* Taking c out of the innermost loop keeps every other constraint. *)
LEMMA AdvanceWaits ==
  ASSUME NEW s \in Seq(SUBSET Clause), s # <<>>, NEW c
  PROVE  /\ [s EXCEPT ![Len(s)] = @ \ {c}] \in Seq(SUBSET Clause)
         /\ \A d : d # c /\ Waits(d, s) => Waits(d, [s EXCEPT ![Len(s)] = @ \ {c}])
<1> DEFINE r == [s EXCEPT ![Len(s)] = @ \ {c}]
<1>1. r \in Seq(SUBSET Clause) /\ Len(r) = Len(s) /\ DOMAIN s = 1 .. Len(s)
  OBVIOUS
<1>2. ASSUME NEW d, d # c, Waits(d, s)
      PROVE  Waits(d, r)
  <2>1. PICK k \in 1 .. Len(s) : d \in s[k]
    BY <1>2 DEF Waits
  <2>2. d \in r[k]
    BY <1>1, <1>2, <2>1
  <2>3. QED
    BY <1>1, <2>1, <2>2 DEF Waits
<1>3. QED
  BY <1>1, <1>2

(* A set closed under the constraints that holds a mark m common to the    *)
(* premises of c holds the conclusion of c: Common(c) adds marks of the    *)
(* least fixpoint only.                                                    *)
LEMMA CommonSound ==
  ASSUME TypeOK, MarksInv, NEW c \in Clause, NEW m \in Common(c)
  PROVE  m \in LeastMarking(body, head)[head[c]]
<1>1. m \in Point /\ body[c] # {} /\ \A x \in body[c] : m \in marking[x]
  BY DEF Common
<1>2. ASSUME NEW S \in SUBSET Node, m \in S, ClosedUnder(S, body, head)
      PROVE  head[c] \in S
  <2>1. body[c] \subseteq Point /\ c \in DOMAIN body
    BY DEF TypeOK
  <2>2. ASSUME NEW x \in body[c]
        PROVE  x \in S
    <3>1. x \in Node /\ m \in LeastMarking(body, head)[x]
      BY <1>1, <2>1 DEF MarksInv, Node
    <3>2. QED
      BY <1>2, <3>1 DEF LeastMarking
  <2>3. QED
    BY <1>1, <1>2, <2>1, <2>2 DEF ClosedUnder
<1>3. head[c] \in Node
  BY DEF TypeOK
<1>4. QED
  BY <1>1, <1>2, <1>3 DEF LeastMarking

(* One activation of compute_marking on c, entered from the loops in       *)
(* callers, which still hold every other constraint that is not settled.   *)
LEMMA ActivationInv ==
  ASSUME IInv, NEW c \in Clause, NEW callers \in Seq(SUBSET Clause),
         ComputeMarking(c, callers), UNCHANGED <<body, head>>,
         i' \in 1 .. NumClauses + 1,
         \A d \in Clause \ {c} : \/ Common(d) \subseteq marking[head[d]]
                                 \/ d >= i'
                                 \/ Waits(d, callers)
  PROVE  IInv'
<1>t. TypeOK /\ MarksInv
  BY DEF IInv
<1> DEFINE h == head[c]
           grown == ~ (Common(c) \subseteq marking[h])
<1>1. /\ h \in Node
      /\ marking' \in [Node -> SUBSET Point]
      /\ marking'[h] = marking[h] \cup Common(c)
      /\ \A x \in Node \ {h} : marking'[x] = marking[x]
  BY <1>t DEF ComputeMarking, TypeOK, Common
<1>2. Dependents(c) \in SUBSET Clause
  BY DEF Dependents
<1>3. /\ stack' \in Seq(SUBSET Clause)
      /\ \A d : Waits(d, callers) => Waits(d, stack')
      /\ grown => \A d \in Dependents(c) : Waits(d, stack')
  BY <1>2, AppendWaits DEF ComputeMarking
<1>4. TypeOK'
  BY <1>t, <1>1, <1>3 DEF TypeOK
<1>5. MarksInv'
  <2>1. \A x \in Point : x \in marking'[x]
    BY <1>t, <1>1 DEF MarksInv, Node
  <2>2. LeastMarking(body, head)' = LeastMarking(body, head)
    BY DEF LeastMarking
  <2>3. \A x \in Node : marking'[x] \subseteq LeastMarking(body, head)[x]
    BY <1>t, <1>1, CommonSound DEF MarksInv
  <2>4. QED
    BY <2>1, <2>2, <2>3 DEF MarksInv
<1>6. VisitsInv'
  <2> SUFFICES ASSUME NEW d \in Clause, ~ Waits(d, stack'), ~ d >= i'
               PROVE  Common(d)' \subseteq marking'[head[d]]
    BY DEF VisitsInv
  <2>1. body[d] \subseteq Point /\ head[d] \in Node /\ Common(d) \subseteq Point
        /\ body[d] \subseteq Node
    BY <1>t DEF TypeOK, Common, Node
  <2>2. Common(d)' = {m \in Point : body[d] # {} /\ \A x \in body[d] : m \in marking'[x]}
    BY DEF Common
  <2>3. CASE head[d] \in body[d]
    BY <2>2, <2>3
  <2>4. CASE head[d] \notin body[d] /\ h \in body[d]
    <3>1. head[d] # h /\ d # c
      BY <2>4
    <3>2. d \in Dependents(c)
      BY <2>4, <3>1 DEF Dependents
    <3>3. ~ grown
      BY <1>3, <3>2
    <3>4. \A x \in Node : marking'[x] = marking[x]
      BY <1>1, <3>3
    <3>5. QED
      BY <1>3, <2>1, <3>1, <3>4 DEF Common
  <2>5. CASE head[d] \notin body[d] /\ h \notin body[d]
    <3>1. Common(d)' = Common(d)
      BY <1>1, <2>1, <2>2, <2>5 DEF Common
    <3>2. marking[head[d]] \subseteq marking'[head[d]]
      BY <1>1, <2>1
    <3>3. CASE d = c
      BY <1>1, <3>1, <3>3
    <3>4. CASE d # c
      BY <1>3, <3>1, <3>2, <3>4
    <3>5. QED
      BY <3>3, <3>4
  <2>6. QED
    BY <2>3, <2>4, <2>5
<1>7. QED
  BY <1>4, <1>5, <1>6 DEF IInv

(* Before the first iteration every point marks itself and the outer loop  *)
(* has every constraint ahead of it.                                       *)
LEMMA InitIInv == Init => IInv
<1> SUFFICES ASSUME Init PROVE IInv
  OBVIOUS
<1>1. TypeOK
  BY SystemsAssumption DEF Init, TypeOK, Node
<1>2. MarksInv
  BY DEF Init, MarksInv, LeastMarking, Node
<1>3. VisitsInv
  BY DEF Init, VisitsInv, Clause
<1>4. QED
  BY <1>1, <1>2, <1>3 DEF IInv

(* Every step of the recursion preserves the inductive invariant. *)
LEMMA NextIInv == IInv /\ [Next]_vars => IInv'
<1> SUFFICES ASSUME IInv, [Next]_vars PROVE IInv'
  OBVIOUS
<1>t. TypeOK /\ VisitsInv /\ MarksInv
  BY DEF IInv
<1>1. ASSUME NEW c \in Clause, Outer(c)
      PROVE  IInv'
  <2>1. stack \in Seq(SUBSET Clause) /\ stack = <<>> /\ i = c /\ i' = i + 1
    BY <1>1, <1>t DEF Outer, TypeOK
  <2>2. i' \in 1 .. NumClauses + 1
    BY <2>1 DEF Clause
  <2>3. \A d \in Clause \ {c} : \/ Common(d) \subseteq marking[head[d]]
                                \/ d >= i'
                                \/ Waits(d, stack)
    BY <1>t, <2>1 DEF VisitsInv, Clause
  <2>4. ComputeMarking(c, stack) /\ UNCHANGED <<body, head>>
    BY <1>1 DEF Outer
  <2>5. QED
    BY <2>1, <2>2, <2>3, <2>4, ActivationInv
<1>2. ASSUME NEW c \in Clause, Recurse(c)
      PROVE  IInv'
  <2> DEFINE callers == [stack EXCEPT ![Len(stack)] = @ \ {c}]
  <2>1. stack \in Seq(SUBSET Clause) /\ stack # <<>> /\ i' = i
        /\ i' \in 1 .. NumClauses + 1
    BY <1>2, <1>t DEF Recurse, TypeOK
  <2>2. /\ callers \in Seq(SUBSET Clause)
        /\ \A d : d # c /\ Waits(d, stack) => Waits(d, callers)
    BY <2>1, AdvanceWaits
  <2>3. ComputeMarking(c, callers) /\ UNCHANGED <<body, head>>
    BY <1>2 DEF Recurse
  <2> HIDE DEF callers
  <2>4. \A d \in Clause \ {c} : \/ Common(d) \subseteq marking[head[d]]
                                \/ d >= i'
                                \/ Waits(d, callers)
    BY <1>t, <2>1, <2>2 DEF VisitsInv
  <2>5. QED
    BY <2>1, <2>2, <2>3, <2>4, ActivationInv
<1>3. CASE Return
  <2>1. /\ stack' \in Seq(SUBSET Clause)
        /\ \A c : Waits(c, stack) => Waits(c, stack')
    BY <1>3, <1>t, ReturnWaits DEF Return, TypeOK
  <2>2. TypeOK'
    BY <1>3, <1>t, <2>1 DEF Return, TypeOK
  <2>3. MarksInv'
    BY <1>3, <1>t DEF Return, MarksInv, LeastMarking
  <2>4. VisitsInv'
    BY <1>3, <1>t, <2>1 DEF Return, VisitsInv, Common
  <2>5. QED
    BY <2>2, <2>3, <2>4 DEF IInv
<1>4. CASE UNCHANGED vars
  BY <1>4 DEF vars, IInv, TypeOK, MarksInv, VisitsInv, Common, Waits, LeastMarking
<1>5. QED
  BY <1>1, <1>2, <1>3, <1>4 DEF Next

(* Once the loops are empty, the nodes m marks form a set that contains m  *)
(* and is closed under the constraints, so no mark is missing.             *)
LEMMA DoneIsFixpoint == IInv => ReachesFixpoint
<1> SUFFICES ASSUME IInv, Done PROVE marking = LeastMarking(body, head)
  BY DEF ReachesFixpoint
<1>t. TypeOK /\ MarksInv /\ VisitsInv
  BY DEF IInv
<1>1. \A c \in Clause : Common(c) \subseteq marking[head[c]]
  <2>1. \A c \in Clause : ~ Waits(c, stack) /\ ~ c >= i
    BY <1>t DEF Done, Waits, Clause, TypeOK
  <2>2. QED
    BY <1>t, <2>1 DEF VisitsInv
<1>2. ASSUME NEW x \in Node, NEW m \in LeastMarking(body, head)[x]
      PROVE  m \in marking[x]
  <2> DEFINE S == {y \in Node : m \in marking[y]}
  <2>1. m \in Point
    BY <1>2 DEF LeastMarking
  <2>2. m \in S
    BY <1>t, <2>1 DEF MarksInv, Node
  <2>3. ClosedUnder(S, body, head)
    <3> SUFFICES ASSUME NEW c \in Clause, body[c] # {}, body[c] \subseteq S
                 PROVE  m \in marking[head[c]] /\ head[c] \in Node
      BY <1>t DEF ClosedUnder, TypeOK
    <3>1. m \in Common(c)
      BY <2>1 DEF Common
    <3>2. QED
      BY <1>1, <1>t, <3>1 DEF TypeOK
  <2>4. x \in S
    <3>1. S \in SUBSET Node
      OBVIOUS
    <3> HIDE DEF S
    <3>2. QED
      BY <1>2, <2>2, <2>3, <3>1 DEF LeastMarking
  <2>5. QED
    BY <2>4
<1>3. \A x \in Node : marking[x] = LeastMarking(body, head)[x]
  BY <1>t, <1>2 DEF MarksInv
<1>4. marking \in [Node -> SUBSET Point] /\ LeastMarking(body, head) \in [Node -> SUBSET Point]
  BY <1>t DEF TypeOK, LeastMarking
<1>5. QED
  BY <1>3, <1>4

(* The inductive invariant holds in every reachable state of               *)
(* compute_current_marking: no unsettled constraint is ever lost from the  *)
(* loops.                                                                  *)
THEOREM Invariance == Spec => []IInv
BY InitIInv, NextIInv, PTL DEF Spec

(* The loop index stays within the constraints and one past them, and the  *)
(* active loops hold constraints only (compute_current_marking).           *)
THEOREM TypeCorrect == Spec => []TypeOK
<1>1. IInv => TypeOK
  BY DEF IInv
<1>2. QED
  BY <1>1, Invariance, PTL

(* For every constraint system and every order in which the hash sets are  *)
(* walked, the markings compute_current_marking ends with are the least    *)
(* fixpoint, which HornSolver takes them to be.                            *)
THEOREM MarkingCorrect == Spec => []ReachesFixpoint
BY Invariance, DoneIsFixpoint, PTL
=============================================================================
