------------------------- MODULE HornSolver_proofs -------------------------
(***************************************************************************)
(* Proofs about HornSolver for any number of points and constraints: what  *)
(* is handed back is forced; then that all forced points are handed back,  *)
(* and that solve implements the abstract specification HornSpec.          *)
(***************************************************************************)
EXTENDS HornSolver, TLAPS

USE FalseDpAssumption, NumClausesAssumption

-----------------------------------------------------------------------------

(* Pushing a batch adds its elements to the stack and loses none. *)
LEMMA PushProp ==
  ASSUME NEW w \in Seq(SUBSET Node), NEW S \in SUBSET Node
  PROVE  /\ Push(w, S) \in Seq(SUBSET Node)
         /\ \A x : Holds(w, x) \/ x \in S => Holds(Push(w, S), x)
<1>1. CASE S = {}
  BY <1>1 DEF Push
<1>2. CASE S # {}
  <2>1. Push(w, S) = Append(w, S)
    BY <1>2 DEF Push
  <2>2. Append(w, S) \in Seq(SUBSET Node)
    OBVIOUS
  <2>3. ASSUME NEW x, Holds(w, x)
        PROVE  Holds(Append(w, S), x)
    <3>1. PICK i \in 1 .. Len(w) : x \in w[i]
      BY <2>3 DEF Holds
    <3>2. i \in 1 .. Len(Append(w, S)) /\ Append(w, S)[i] = w[i]
      OBVIOUS
    <3>3. QED
      BY <3>1, <3>2 DEF Holds
  <2>4. ASSUME NEW x \in S
        PROVE  Holds(Append(w, S), x)
    <3>1. Len(w) + 1 \in 1 .. Len(Append(w, S)) /\ Append(w, S)[Len(w) + 1] = S
      OBVIOUS
    <3>2. QED
      BY <3>1 DEF Holds
  <2>5. QED
    BY <2>1, <2>2, <2>3, <2>4
<1>3. QED
  BY <1>1, <1>2

(* A proper prefix of a sequence. *)
LEMMA PrefixProp ==
  ASSUME NEW S, NEW w \in Seq(S), NEW n \in Nat, n < Len(w)
  PROVE  /\ SubSeq(w, 1, n) \in Seq(S)
         /\ Len(SubSeq(w, 1, n)) = n
         /\ \A i \in 1 .. n : SubSeq(w, 1, n)[i] = w[i]
<1>1. SubSeq(w, 1, n) \in Seq(S)
  OBVIOUS
<1>2. Len(SubSeq(w, 1, n)) = n
  OBVIOUS
<1>3. \A i \in 1 .. n : SubSeq(w, 1, n)[i] = w[i]
  OBVIOUS
<1>4. QED
  BY <1>1, <1>2, <1>3

(* Popping x loses no other element. *)
LEMMA PopProp ==
  ASSUME NEW w \in Seq(SUBSET Node), w # <<>>, NEW x \in w[Len(w)]
  PROVE  /\ PopFrom(w, x) \in Seq(SUBSET Node)
         /\ \A y : Holds(w, y) /\ y # x => Holds(PopFrom(w, x), y)
<1> DEFINE top == Len(w)
<1>0. top \in Nat /\ top > 0 /\ top \in 1 .. Len(w)
  OBVIOUS
<1>1. CASE w[top] = {x}
  <2> DEFINE v == SubSeq(w, 1, top - 1)
  <2>1. PopFrom(w, x) = v
    BY <1>1 DEF PopFrom
  <2>2. v \in Seq(SUBSET Node) /\ Len(v) = top - 1
        /\ \A i \in 1 .. top - 1 : v[i] = w[i]
    <3>1. PICK n \in Nat : n = top - 1
      BY <1>0
    <3>2. n < Len(w)
      BY <1>0, <3>1
    <3>3. /\ SubSeq(w, 1, n) \in Seq(SUBSET Node)
          /\ Len(SubSeq(w, 1, n)) = n
          /\ \A i \in 1 .. n : SubSeq(w, 1, n)[i] = w[i]
      BY <3>2, PrefixProp, Zenon
    <3>4. QED
      BY <3>1, <3>3, Zenon
  <2>3. ASSUME NEW y, Holds(w, y), y # x
        PROVE  Holds(v, y)
    <3>1. PICK i \in 1 .. Len(w) : y \in w[i]
      BY <2>3 DEF Holds
    <3>2. i # top
      BY <1>1, <2>3, <3>1
    <3>3. i \in 1 .. Len(v) /\ y \in v[i]
      BY <1>0, <2>2, <3>1, <3>2
    <3>4. QED
      BY <3>3 DEF Holds
  <2>4. QED
    BY <2>1, <2>2, <2>3
<1>2. CASE w[top] # {x}
  <2> DEFINE v == [w EXCEPT ![top] = w[top] \ {x}]
  <2>1. PopFrom(w, x) = v
    BY <1>2 DEF PopFrom
  <2>2. v \in Seq(SUBSET Node) /\ Len(v) = Len(w)
    BY <1>0
  <2>3. ASSUME NEW y, Holds(w, y), y # x
        PROVE  Holds(v, y)
    <3>1. PICK i \in 1 .. Len(w) : y \in w[i]
      BY <2>3 DEF Holds
    <3>2. y \in v[i]
      BY <1>0, <2>3, <3>1
    <3>3. QED
      BY <2>2, <3>2 DEF Holds
  <2>4. QED
    BY <2>1, <2>2, <2>3
<1>3. QED
  BY <1>1, <1>2

(* What membership in Solutions gives. *)
LEMMA SolutionProp ==
  ASSUME TypeOK, NEW M \in Solutions
  PROVE  /\ M \subseteq Point
         /\ \A x \in Point : backup[x] = "true" => x \in M
         /\ \A x \in Point : backup[x] = "false" => x \notin M
         /\ args.pos \subseteq M /\ args.neg \cap M = {}
         /\ \A c \in Clause : (\A i \in DOMAIN premises[c] : premises[c][i] \in M)
                              => conclusion[c] \in M
BY DEF Solutions, Models, Labelled, Satisfies, TypeOK

(* Solutions depends on the constraints, the saved labels and the          *)

(* arguments only.                                                         *)
LEMMA SolutionsFrame ==
  ASSUME UNCHANGED <<premises, conclusion, backup, args>>
  PROVE  Solutions' = Solutions
BY DEF Solutions

(* A constraint the labels satisfy stays satisfied as labels grow. *)
LEMMA SatisfyGrows ==
  ASSUME TypeOK, UNCHANGED <<premises, conclusion>>, NEW c \in Clause,
         \A x \in Node : label[x] # "none" => label'[x] = label[x],
         TrivialBy(c)
  PROVE  TrivialBy(c)'
BY DEF TrivialBy, TypeOK, Node

-----------------------------------------------------------------------------

(* A freshly built solver satisfies the inductive invariant. *)
LEMMA InitIInv == Init => IInv
<1> SUFFICES ASSUME Init PROVE IInv
  OBVIOUS
<1>1. TypeOK
  <2>0. PICK p \in Problems :
          /\ premises = p.premises
          /\ conclusion = p.conclusion
          /\ label = [x \in Node |-> IF x \in Point THEN p.label[x] ELSE "none"]
    BY Zenon DEF Init
  <2>1. /\ DOMAIN premises = Clause
        /\ \A c \in Clause : /\ DOMAIN premises[c] \subseteq Nat
                             /\ \A i \in DOMAIN premises[c] : premises[c][i] \in Point
        /\ conclusion \in [Clause -> Node]
        /\ p.label \in [Point -> Label]
    BY <2>0, ProblemsAssumption, Zenon
  <2>2. label \in [Node -> Label] /\ backup \in [Point -> Label]
    BY <2>0, <2>1 DEF Init, Node, Label
  <2>3. QED
    BY <2>1, <2>2 DEF Init, TypeOK, NothingLeft, NoLists, NoMarking, Node
<1>2. LabelsInv
  BY DEF Init, LabelsInv, Running, Node
<1>3. SoundInv /\ ClausesInv /\ WorklistInv /\ AnswerInv
  BY DEF Init, SoundInv, ClausesInv, WorklistInv, AnswerInv, Running
<1>4. QED
  BY <1>1, <1>2, <1>3 DEF IInv

(* Solve (start of horn_solver::solve) preserves it: labels and arguments are saved. *)
LEMMA SolveIInv ==
  ASSUME IInv, NEW P \in SUBSET Labelled(label, "none"),
         NEW N \in SUBSET (Labelled(label, "none") \ P), Solve(P, N)
  PROVE  IInv'
<1> USE DEF IInv
<1>1. TypeOK'
  BY DEF Solve, SavedLabels, TypeOK, problem, scratch, Labelled, Label, Node
<1>2. LabelsInv'
  BY DEF Solve, SavedLabels, LabelsInv, TypeOK, Running, Labelled, Node, Label, problem
<1>3. SoundInv'
  <2> SUFFICES ASSUME NEW M \in Solutions'
               PROVE  /\ \A x \in Point : /\ label'[x] = "true" => x \in M
                                          /\ label'[x] = "false" => x \notin M
                      /\ positive' \subseteq M /\ negative' \cap M = {}
                      /\ \A x \in Node : \A m \in marking'[x] : m \in M => x \in M
    BY DEF SoundInv
  <2>1. /\ \A x \in Point : backup'[x] = "true" => x \in M
        /\ \A x \in Point : backup'[x] = "false" => x \notin M
        /\ (args.pos)' \subseteq M /\ (args.neg)' \cap M = {}
    BY <1>1, SolutionProp DEF Solutions, Models, Labelled, Satisfies, TypeOK
  <2>2. \A x \in Point : label'[x] = backup'[x]
    BY DEF Solve, SavedLabels, TypeOK, Node
  <2>3. marking' = NoMarking
    BY DEF Solve, SavedLabels, AnswerInv, scratch
  <2>4. QED
    BY <2>1, <2>2, <2>3 DEF Solve, SavedLabels, NoMarking
<1>4. ClausesInv' /\ WorklistInv' /\ AnswerInv'
  BY DEF Solve, SavedLabels, ClausesInv, WorklistInv, AnswerInv, TypeOK, scratch, Running, Clause
<1>5. QED
  BY <1>1, <1>2, <1>3, <1>4

-----------------------------------------------------------------------------

(* keep_backup *)
LEMMA DropIInv ==
  ASSUME IInv, NEW c \in Clause, DropClause(c)
  PROVE  IInv'
<1>t. TypeOK
  BY DEF IInv
<1>l. LabelsInv
  BY DEF IInv
<1>s. SoundInv
  BY DEF IInv
<1>c. ClausesInv
  BY DEF IInv
<1>a. AnswerInv
  BY DEF IInv
<1>p. /\ pc = "backup" /\ next = c /\ next' = next + 1 /\ TrivialBy(c)
      /\ UNCHANGED <<premises, conclusion, label, positive, negative, ok, pc, backup,
                     copies, left, satisfied, list, stale, marking, worklist, cur,
                     pending, args>>
  BY DEF DropClause, AtClause, problem, inout, scratch
<1>1. TypeOK'
  <2>1. next' \in Nat
    BY <1>p, <1>t DEF TypeOK
  <2>2. /\ satisfied' \in SUBSET copies' /\ list' \in [Node -> SUBSET copies']
        /\ pending' \in SUBSET copies'
    BY <1>p, <1>t DEF TypeOK
  <2>3. QED
    BY <1>p, <1>t, <2>1, <2>2 DEF TypeOK
<1>2. LabelsInv'
  BY <1>p, <1>l DEF LabelsInv, Running
<1>3. SoundInv'
  BY <1>p, <1>s, SolutionsFrame DEF SoundInv, Running
<1>4. ClausesInv'
  <2>1. \A d \in Clause : TrivialBy(d)' = TrivialBy(d)
    BY <1>p DEF TrivialBy
  <2>2. \A d \in Clause : d < next' /\ d \notin copies' => TrivialBy(d)'
    BY <1>p, <1>c, <1>t, <2>1 DEF ClausesInv, TypeOK, Clause
  <2>3. /\ \A d \in copies' : \A i \in left'[d] :
             label'[premises'[d][i]] = "true" => premises'[d][i] \in positive'
        /\ \A d \in copies' : \A i \in DOMAIN premises'[d] \ left'[d] :
             label'[premises'[d][i]] = "true"
        /\ \A d \in copies' \ satisfied' : left'[d] # {}
    BY <1>p, <1>c DEF ClausesInv, Running
  <2>4. satisfied' = {} /\ pc' = "backup"
    BY <1>p, <1>c DEF ClausesInv
  <2>5. QED
    BY <2>2, <2>3, <2>4 DEF ClausesInv
<1>5. WorklistInv' /\ AnswerInv'
  BY <1>p, <1>a, SolutionsFrame DEF WorklistInv, AnswerInv
<1>6. QED
  BY <1>1, <1>2, <1>3, <1>4, <1>5 DEF IInv

(* ForceConclusion preserves it: a clause whose premises are all positive forces its head. *)
LEMMA ForceIInv ==
  ASSUME IInv, NEW c \in Clause, ForceConclusion(c)
  PROVE  IInv'
<1>t. TypeOK
  BY DEF IInv
<1>l. LabelsInv
  BY DEF IInv
<1>s. SoundInv
  BY DEF IInv
<1>c. ClausesInv
  BY DEF IInv
<1>a. AnswerInv
  BY DEF IInv
<1> DEFINE q == conclusion[c]
<1>p. /\ pc = "backup" /\ next = c
      /\ label[q] = "none" /\ q \notin negative
      /\ positive' = positive \cup {q}
      /\ next' = next + 1
      /\ UNCHANGED <<premises, conclusion, negative, ok, pc, backup, copies, left,
                     satisfied, list, stale, marking, worklist, cur, pending, args>>
  BY DEF ForceConclusion, AtClause, problem, scratch
<1>1. q \in Point /\ label[q] = "none"
  BY <1>t, <1>l, <1>p DEF LabelsInv, Running, TypeOK, Node
<1>2. /\ label' \in [Node -> Label]
      /\ \A x \in Node : label[x] # "none" \/ x # q => label'[x] = label[x]
      /\ label'[q] = "true"
  BY <1>t, <1>1 DEF ForceConclusion, TypeOK, SetClassification, Label
<1>3. \A M \in Solutions : q \in M
  <2> SUFFICES ASSUME NEW M \in Solutions PROVE q \in M
    OBVIOUS
  <2>1. \A i \in DOMAIN premises[c] : label[premises[c][i]] = "true"
    BY DEF ForceConclusion, Unproved
  <2>2. \A i \in DOMAIN premises[c] : premises[c][i] \in M
    BY <1>p, <1>t, <1>s, <2>1 DEF SoundInv, Running, TypeOK
  <2>3. QED
    BY <1>p, <1>t, <2>2, SolutionProp
<1>4. TypeOK'
  BY <1>p, <1>t, <1>1, <1>2 DEF TypeOK
<1>5. LabelsInv'
  BY <1>p, <1>t, <1>l, <1>1, <1>2 DEF LabelsInv, Running, TypeOK, Node
<1>6. SoundInv'
  BY <1>p, <1>t, <1>s, <1>1, <1>2, <1>3, SolutionsFrame DEF SoundInv, Running, TypeOK, Node
<1>7. ClausesInv'
  <2>1. \A d \in Clause : TrivialBy(d) => TrivialBy(d)'
    BY <1>p, <1>t, <1>2, SatisfyGrows
  <2>2. TrivialBy(c)'
    BY <1>p, <1>2 DEF TrivialBy
  <2>3. \A d \in Clause : d < next' /\ d \notin copies' => TrivialBy(d)'
    BY <1>p, <1>t, <1>c, <2>1, <2>2 DEF ClausesInv, TypeOK, Clause
  <2>4. \A d \in copies' : \A i \in left'[d] :
           label'[premises'[d][i]] = "true" => premises'[d][i] \in positive'
    BY <1>p, <1>t, <1>c, <1>2 DEF ClausesInv, TypeOK, Node
  <2>5. \A d \in copies' : \A i \in DOMAIN premises'[d] \ left'[d] :
           label'[premises'[d][i]] = "true"
    BY <1>p, <1>t, <1>c, <1>2 DEF ClausesInv, Running, TypeOK, Node
  <2>6. QED
    BY <1>p, <1>c, <2>3, <2>4, <2>5 DEF ClausesInv, Running
<1>8. WorklistInv' /\ AnswerInv'
  BY <1>p, <1>a DEF WorklistInv, AnswerInv
<1>9. QED
  BY <1>4, <1>5, <1>6, <1>7, <1>8 DEF IInv

(* RefuteConclusion preserves it: such a clause with a negative head has no solution. *)
LEMMA RefuteIInv ==
  ASSUME IInv, NEW c \in Clause, RefuteConclusion(c)
  PROVE  IInv'
<1>t. TypeOK
  BY DEF IInv
<1>l. LabelsInv
  BY DEF IInv
<1>s. SoundInv
  BY DEF IInv
<1>c. ClausesInv
  BY DEF IInv
<1>a. AnswerInv
  BY DEF IInv
<1> DEFINE q == conclusion[c]
<1>p. /\ pc = "backup" /\ pc' = "return" /\ ok' = FALSE
      /\ label[q] = "false" \/ q \in negative
      /\ \A i \in DOMAIN premises[c] : label[premises[c][i]] = "true"
      /\ UNCHANGED <<premises, conclusion, positive, negative, backup, next, copies, left,
                     satisfied, list, stale, marking, worklist, cur, pending, args>>
  BY DEF RefuteConclusion, AtClause, problem, inout, scratch, Unproved
<1>1. /\ label' \in [Node -> Label]
      /\ \A x \in Node : label[x] # "none" \/ x # q => label'[x] = label[x]
  BY <1>t DEF RefuteConclusion, TypeOK, SetClassification, Label
<1>2. Solutions = {}
  <2> SUFFICES ASSUME NEW M \in Solutions PROVE FALSE
    OBVIOUS
  <2>1. \A i \in DOMAIN premises[c] : premises[c][i] \in M
    BY <1>p, <1>t, <1>s DEF SoundInv, Running, TypeOK
  <2>2. q \in M /\ M \subseteq Point
    BY <1>p, <1>t, <2>1, SolutionProp
  <2>3. QED
    BY <1>p, <1>s, <2>2 DEF SoundInv, Running
<1>3. Solutions' = {}
  BY <1>p, <1>2, SolutionsFrame
<1>4. TypeOK'
  BY <1>p, <1>t, <1>1 DEF TypeOK
<1>5. LabelsInv'
  BY <1>p, <1>t, <1>l, <1>1 DEF LabelsInv, Running, TypeOK, Node
<1>6. SoundInv' /\ WorklistInv' /\ AnswerInv'
  BY <1>p, <1>s, <1>a, <1>3 DEF SoundInv, WorklistInv, AnswerInv
<1>7. ClausesInv'
  BY <1>p, <1>t, <1>c, <1>1 DEF ClausesInv, Running, TypeOK, Node
<1>8. QED
  BY <1>4, <1>5, <1>6, <1>7 DEF IInv

(* KeepClause preserves it: the premises kept are exactly those not known to be positive. *)
LEMMA KeepIInv ==
  ASSUME IInv, NEW c \in Clause, KeepClause(c)
  PROVE  IInv'
<1>t. TypeOK
  BY DEF IInv
<1>l. LabelsInv
  BY DEF IInv
<1>s. SoundInv
  BY DEF IInv
<1>c. ClausesInv
  BY DEF IInv
<1>a. AnswerInv
  BY DEF IInv
<1>p. /\ pc = "backup" /\ next = c /\ next' = next + 1
      /\ Unproved(c) # {}
      /\ copies' = copies \cup {c}
      /\ left' = [left EXCEPT ![c] = Unproved(c)]
      /\ UNCHANGED <<premises, conclusion, label, positive, negative, ok, pc, backup,
                     satisfied, list, stale, marking, cur, pending, args>>
  BY DEF KeepClause, AtClause, problem, inout
<1> DEFINE S == IF label[conclusion[c]] = "false" THEN {conclusion[c]} ELSE {}
<1>1. worklist' \in Seq(SUBSET Node)
  <2>1. S \in SUBSET Node
    BY <1>t DEF TypeOK
  <2>2. QED
    BY <1>t, <2>1, PushProp DEF KeepClause, TypeOK
<1>2. TypeOK'
  BY <1>p, <1>t, <1>1 DEF TypeOK, Unproved
<1>3. LabelsInv'
  BY <1>p, <1>l DEF LabelsInv, Running
<1>4. SoundInv'
  BY <1>p, <1>s, SolutionsFrame DEF SoundInv, Running
<1>5. ClausesInv'
  <2>1. \A d \in Clause : TrivialBy(d)' <=> TrivialBy(d)
    BY <1>p DEF TrivialBy
  <2>2. left'[c] = Unproved(c) /\ \A d \in Clause \ {c} : left'[d] = left[d]
    BY <1>p, <1>t DEF TypeOK
  <2>3. \A i \in Unproved(c) : label[premises[c][i]] # "true"
    BY DEF Unproved
  <2>4. \A i \in DOMAIN premises[c] \ Unproved(c) : label[premises[c][i]] = "true"
    BY DEF Unproved
  <2>5. QED
    BY <1>p, <1>t, <1>c, <2>1, <2>2, <2>3, <2>4 DEF ClausesInv, Running, TypeOK, Clause
<1>6. WorklistInv' /\ AnswerInv'
  BY <1>p, <1>a DEF WorklistInv, AnswerInv
<1>7. QED
  BY <1>2, <1>3, <1>4, <1>5, <1>6 DEF IInv

-----------------------------------------------------------------------------

(* FillWorklist preserves it: every classified point is pushed and the markings are computed. *)
LEMMA FillIInv ==
  ASSUME IInv, FillWorklist
  PROVE  IInv'
<1>t. TypeOK
  BY DEF IInv
<1>l. LabelsInv
  BY DEF IInv
<1>s. SoundInv
  BY DEF IInv
<1>c. ClausesInv
  BY DEF IInv
<1>a. AnswerInv
  BY DEF IInv
<1>p. /\ pc = "backup" /\ pc' = "pop" /\ next > NumClauses
      /\ marking' = [x \in Node |-> {x} \ {FalseDp}]
      /\ UNCHANGED <<premises, conclusion, positive, negative, ok, backup, next, copies,
                     left, satisfied, stale, cur, pending, args>>
  BY DEF FillWorklist, InitialMarking, problem, inout
<1>q. /\ positive \subseteq Point /\ negative \subseteq Point
      /\ positive \cap negative = {}
      /\ \A x \in positive : label[x] # "false"
      /\ \A x \in negative : label[x] = "none"
  BY <1>p, <1>t, <1>l DEF LabelsInv, TypeOK
<1>1. /\ label' \in [Node -> Label]
      /\ \A x \in Node : label[x] # "none" => label'[x] = label[x]
      /\ \A x \in Node : x \notin positive \cup negative => label'[x] = label[x]
      /\ \A x \in positive : label'[x] = "true"
      /\ \A x \in negative : label'[x] = "false"
  <2> DEFINE l1 == SetClassification(label, negative, "false")
  <2>1. /\ l1 \in [Node -> Label]
        /\ \A x \in Node : l1[x] = IF x \in negative /\ label[x] = "none"
                                  THEN "false" ELSE label[x]
    BY <1>t DEF TypeOK, SetClassification, Label
  <2> HIDE DEF l1
  <2>2. label' = SetClassification(l1, positive, "true")
    BY DEF FillWorklist, l1
  <2>3. /\ label' \in [Node -> Label]
        /\ \A x \in Node : label'[x] = IF x \in positive /\ l1[x] = "none"
                                      THEN "true" ELSE l1[x]
    BY <2>1, <2>2 DEF SetClassification, Label
  <2>4. QED
    BY <1>t, <1>q, <2>1, <2>3 DEF TypeOK, Node, Label
<1>2. /\ worklist' \in Seq(SUBSET Node)
      /\ \A x \in positive : Holds(worklist', x)
  <2> DEFINE S1 == {x \in {FalseDp} : \E c \in Clause : conclusion[c] = x}
             w1 == Push(worklist, S1)
             w2 == Push(w1, negative)
  <2>1. S1 \in SUBSET Node /\ negative \in SUBSET Node /\ positive \in SUBSET Node
    BY <1>q DEF Node
  <2> HIDE DEF S1
  <2>2. w1 \in Seq(SUBSET Node)
    BY <2>1, <1>t, PushProp DEF TypeOK
  <2> HIDE DEF w1
  <2>3. w2 \in Seq(SUBSET Node)
    BY <2>1, <2>2, PushProp
  <2> HIDE DEF w2
  <2>4. worklist' = Push(w2, positive)
    BY DEF FillWorklist, S1, w1, w2
  <2>5. QED
    BY <2>1, <2>3, <2>4, PushProp
<1>3. /\ list' \in [Node -> SUBSET copies]
      /\ \A d \in copies : \A i \in left[d] : d \in list'[premises[d][i]]
  BY <1>t DEF FillWorklist, TypeOK, PointsAt, Node
<1>4. TypeOK'
  <2>1. marking' \in [Node -> SUBSET Point]
    BY <1>p DEF Node
  <2>2. QED
    BY <1>t, <1>p, <1>1, <1>2, <1>3, <2>1 DEF TypeOK
<1>5. LabelsInv'
  BY <1>t, <1>l, <1>p, <1>q, <1>1 DEF LabelsInv, Running, TypeOK, Node, Labelled
<1>6. SoundInv'
  <2> SUFFICES ASSUME NEW M \in Solutions
               PROVE  /\ \A x \in Point : /\ label'[x] = "true" => x \in M
                                          /\ label'[x] = "false" => x \notin M
                      /\ positive \subseteq M /\ negative \cap M = {}
                      /\ \A x \in Node : \A m \in marking'[x] : m \in M => x \in M
    BY <1>p, SolutionsFrame DEF SoundInv, Running
  <2>1. /\ \A x \in Point : /\ label[x] = "true" => x \in M
                            /\ label[x] = "false" => x \notin M
        /\ positive \subseteq M /\ negative \cap M = {}
    BY <1>p, <1>s DEF SoundInv, Running
  <2>2. QED
    BY <2>1, <1>p, <1>1 DEF Node
<1>7. ClausesInv'
  <2>1. \A d \in Clause : d \notin copies => TrivialBy(d)'
    <3> SUFFICES ASSUME NEW d \in Clause, d \notin copies PROVE TrivialBy(d)'
      OBVIOUS
    <3>1. d < next
      BY <1>p, <1>t DEF Clause, TypeOK
    <3>2. TrivialBy(d)
      BY <1>p, <1>c, <3>1 DEF ClausesInv
    <3>3. QED
      BY <1>t, <1>p, <1>1, <3>2, SatisfyGrows
  <2>2. \A d \in copies : \A i \in DOMAIN premises[d] \ left[d] :
           label'[premises[d][i]] = "true"
    BY <1>p, <1>c, <1>t, <1>1 DEF ClausesInv, Running, TypeOK, Node
  <2>3. satisfied = {} /\ \A d \in copies \ satisfied : left[d] # {}
    BY <1>p, <1>c DEF ClausesInv
  <2>4. QED
    BY <1>p, <1>3, <2>1, <2>2, <2>3 DEF ClausesInv
<1>8. WorklistInv'
  <2> SUFFICES ASSUME NEW d \in copies, NEW i \in left[d],
                      label'[premises[d][i]] = "true"
               PROVE  Holds(worklist', premises[d][i])
    BY <1>p DEF WorklistInv, OnStack
  <2>1. premises[d][i] \in Point
    BY <1>t DEF TypeOK
  <2>2. premises[d][i] \in positive
    BY <2>1, <1>p, <1>c, <1>1 DEF ClausesInv, Node
  <2>3. QED
    BY <2>2, <1>2
<1>9. AnswerInv'
  BY <1>p, <1>a DEF AnswerInv
<1>10. QED
  BY <1>4, <1>5, <1>6, <1>7, <1>8, <1>9 DEF IInv

(* Pop preserves it: the popped point is classified and still to be visited. *)
LEMMA PopIInv ==
  ASSUME IInv, NEW x \in Node, Pop(x)
  PROVE  IInv'
<1>t. TypeOK
  BY DEF IInv
<1>l. LabelsInv
  BY DEF IInv
<1>s. SoundInv
  BY DEF IInv
<1>c. ClausesInv
  BY DEF IInv
<1>w. WorklistInv
  BY DEF IInv
<1>a. AnswerInv
  BY DEF IInv
<1>p. /\ pc = "pop" /\ pc' = "propagate" /\ cur' = x
      /\ worklist # <<>> /\ x \in worklist[Len(worklist)]
      /\ worklist' = PopFrom(worklist, x)
      /\ pending' = list[x] \ satisfied
      /\ UNCHANGED <<premises, conclusion, label, positive, negative, ok, backup, next,
                     copies, left, satisfied, list, stale, marking, args>>
  BY DEF Pop, problem, inout, scratch
<1>1. /\ worklist' \in Seq(SUBSET Node)
      /\ \A y : Holds(worklist, y) /\ y # x => Holds(worklist', y)
  BY <1>p, <1>t, PopProp DEF TypeOK
<1>2. TypeOK'
  BY <1>p, <1>t, <1>1 DEF TypeOK
<1>3. LabelsInv'
  BY <1>p, <1>l DEF LabelsInv, Running
<1>4. SoundInv'
  BY <1>p, <1>s, SolutionsFrame DEF SoundInv, Running
<1>5. ClausesInv'
  <2>1. \A d \in Clause : TrivialBy(d)' <=> TrivialBy(d)
    BY <1>p DEF TrivialBy
  <2>2. QED
    BY <1>p, <1>t, <1>c, <2>1 DEF ClausesInv, Running, TypeOK
<1>6. WorklistInv'
  <2> SUFFICES ASSUME NEW d \in copies \ satisfied, NEW i \in left[d],
                      label[premises[d][i]] = "true"
               PROVE  \/ Holds(worklist', premises[d][i])
                      \/ x = premises[d][i] /\ d \in list[x] \ satisfied
    BY <1>p DEF WorklistInv, OnStack
  <2>1. Holds(worklist, premises[d][i])
    BY <1>p, <1>w DEF WorklistInv, OnStack
  <2>2. d \in list[premises[d][i]]
    BY <1>p, <1>c DEF ClausesInv
  <2>3. QED
    BY <1>1, <2>1, <2>2
<1>7. AnswerInv'
  BY <1>p, <1>a DEF AnswerInv
<1>8. QED
  BY <1>2, <1>3, <1>4, <1>5, <1>6, <1>7 DEF IInv

-----------------------------------------------------------------------------
(* verify_constraints_satisfiability *)

(* A visit that only marks c satisfied, which the labels justify. *)
LEMMA SatisfiesIInv ==
  ASSUME IInv, NEW c \in Clause, TrueSatisfies(c) \/ FalseSatisfies(c)
  PROVE  IInv'
<1>t. TypeOK
  BY DEF IInv
<1>l. LabelsInv
  BY DEF IInv
<1>s. SoundInv
  BY DEF IInv
<1>c. ClausesInv
  BY DEF IInv
<1>w. WorklistInv
  BY DEF IInv
<1>a. AnswerInv
  BY DEF IInv
<1>p. /\ pc = "propagate" /\ c \in pending \ satisfied
      /\ satisfied' = satisfied \cup {c} /\ pending' = pending \ {c}
      /\ UNCHANGED <<premises, conclusion, label, positive, negative, ok, pc, backup, next,
                     copies, left, list, worklist, stale, marking, cur, args>>
  BY DEF TrueSatisfies, FalseSatisfies, Visit, Continue, problem, inout
<1>1. TrivialBy(c)
  <2>1. CASE TrueSatisfies(c)
    BY <2>1 DEF TrueSatisfies, TrivialBy
  <2>2. CASE FalseSatisfies(c)
    BY <2>2, <1>t DEF FalseSatisfies, TrivialBy, PointsAt, TypeOK
  <2>3. QED
    BY <2>1, <2>2
<1>2. TypeOK'
  BY <1>p, <1>t DEF TypeOK
<1>3. LabelsInv'
  BY <1>p, <1>l DEF LabelsInv, Running
<1>4. SoundInv'
  BY <1>p, <1>s, SolutionsFrame DEF SoundInv, Running
<1>5. ClausesInv'
  <2>1. \A d \in Clause : TrivialBy(d)' <=> TrivialBy(d)
    BY <1>p DEF TrivialBy
  <2>2. QED
    BY <1>1, <1>p, <1>t, <1>c, <2>1 DEF ClausesInv, Running, TypeOK
<1>6. WorklistInv'
  BY <1>p, <1>w DEF WorklistInv, OnStack
<1>7. AnswerInv'
  BY <1>p, <1>a DEF AnswerInv
<1>8. QED
  BY <1>2, <1>3, <1>4, <1>5, <1>6, <1>7 DEF IInv

(* TrueShortens preserves it: a positive premise is dropped and others remain. *)
LEMMA ShortensIInv ==
  ASSUME IInv, NEW c \in Clause, TrueShortens(c)
  PROVE  IInv'
<1>t. TypeOK
  BY DEF IInv
<1>l. LabelsInv
  BY DEF IInv
<1>s. SoundInv
  BY DEF IInv
<1>c. ClausesInv
  BY DEF IInv
<1>w. WorklistInv
  BY DEF IInv
<1>a. AnswerInv
  BY DEF IInv
<1>p. /\ pc = "propagate" /\ c \in pending \ satisfied
      /\ pending' = pending \ {c} /\ label[cur] = "true"
      /\ UNCHANGED <<premises, conclusion, label, positive, negative, ok, pc, backup, next,
                     copies, satisfied, list, worklist, stale, marking, cur, args>>
  BY DEF TrueShortens, Visit, Continue, problem, inout
<1>1. /\ DOMAIN left' = Clause
      /\ \A d \in Clause \ {c} : left'[d] = left[d]
      /\ left'[c] = {i \in left[c] : premises[c][i] # cur} /\ left'[c] # {}
  BY <1>t DEF TrueShortens, LeftWithout, TypeOK
<1>2. TypeOK'
  BY <1>p, <1>t, <1>1 DEF TypeOK
<1>3. LabelsInv'
  BY <1>p, <1>l DEF LabelsInv, Running
<1>4. SoundInv'
  BY <1>p, <1>s, SolutionsFrame DEF SoundInv, Running
<1>5. ClausesInv'
  <2>1. \A d \in Clause : TrivialBy(d)' <=> TrivialBy(d)
    BY <1>p DEF TrivialBy
  <2>2. \A d \in copies : \A i \in DOMAIN premises[d] \ left'[d] :
           label[premises[d][i]] = "true"
    BY <1>p, <1>t, <1>c, <1>1 DEF ClausesInv, Running, TypeOK
  <2>3. \A d \in copies : \A i \in left'[d] : d \in list[premises[d][i]]
    BY <1>p, <1>t, <1>c, <1>1 DEF ClausesInv, TypeOK
  <2>4. QED
    BY <1>1, <1>p, <1>t, <1>c, <2>1, <2>2, <2>3 DEF ClausesInv, TypeOK
<1>6. WorklistInv'
  BY <1>p, <1>t, <1>w, <1>1 DEF WorklistInv, OnStack, TypeOK
<1>7. AnswerInv'
  BY <1>p, <1>a DEF AnswerInv
<1>8. QED
  BY <1>2, <1>3, <1>4, <1>5, <1>6, <1>7 DEF IInv

(* TrueForces preserves it: the last premise is dropped and the conclusion follows. *)
LEMMA TrueForcesIInv ==
  ASSUME IInv, NEW c \in Clause, TrueForces(c)
  PROVE  IInv'
<1>t. TypeOK
  BY DEF IInv
<1>l. LabelsInv
  BY DEF IInv
<1>s. SoundInv
  BY DEF IInv
<1>c. ClausesInv
  BY DEF IInv
<1>w. WorklistInv
  BY DEF IInv
<1>a. AnswerInv
  BY DEF IInv
<1> DEFINE q == conclusion[c]
<1>p. /\ pc = "propagate" /\ c \in pending \ satisfied
      /\ pending' = pending \ {c} /\ label[cur] = "true"
      /\ UNCHANGED <<premises, conclusion, negative, backup, next, copies, list,
                     stale, marking, cur, args>>
  BY DEF TrueForces, Visit, problem
<1>1. /\ DOMAIN left' = Clause
      /\ \A d \in Clause \ {c} : left'[d] = left[d]
      /\ left'[c] = {}
      /\ \A i \in left[c] : premises[c][i] = cur
  BY <1>t DEF TrueForces, LeftWithout, TypeOK
<1>2. \A i \in DOMAIN premises[c] : label[premises[c][i]] = "true"
  BY <1>1, <1>p, <1>t, <1>c DEF ClausesInv, Running, TypeOK
<1>3. \A M \in Solutions : q \in M /\ M \subseteq Point
  <2> SUFFICES ASSUME NEW M \in Solutions PROVE q \in M /\ M \subseteq Point
    OBVIOUS
  <2>1. \A i \in DOMAIN premises[c] : premises[c][i] \in M
    BY <1>2, <1>p, <1>s, <1>t DEF SoundInv, Running, TypeOK
  <2>2. QED
    BY <1>t, <2>1, SolutionProp
<1>4. CASE label[q] = "false"
  <2>p. pc' = "return" /\ ok' = FALSE /\ UNCHANGED <<label, positive, satisfied, worklist>>
    BY <1>4 DEF TrueForces, Abort
  <2>1. Solutions = {}
    BY <1>3, <1>4, <1>p, <1>s DEF SoundInv, Running
  <2>2. Solutions' = {}
    BY <1>p, <2>1, SolutionsFrame
  <2>3. TypeOK'
    BY <1>p, <1>1, <1>t, <2>p DEF TypeOK
  <2>4. LabelsInv'
    BY <1>p, <1>l, <2>p DEF LabelsInv, Running
  <2>5. ClausesInv'
    <3>1. \A d \in copies : \A i \in DOMAIN premises[d] \ left'[d] :
             label[premises[d][i]] = "true"
      BY <1>p, <1>1, <1>2, <1>c, <1>t DEF ClausesInv, Running, TypeOK
    <3>2. QED
      BY <3>1, <1>p, <2>p DEF ClausesInv
  <2>6. SoundInv' /\ WorklistInv' /\ AnswerInv'
    BY <2>2, <2>p DEF SoundInv, WorklistInv, AnswerInv
  <2>7. QED
    BY <2>3, <2>4, <2>5, <2>6 DEF IInv
<1>5. CASE label[q] # "false"
  <2>p. /\ positive' = positive \cup {q} /\ satisfied' = satisfied \cup {c}
        /\ pc' = pc /\ ok' = ok
    BY <1>5 DEF TrueForces, Continue
  <2>1. q \in Point /\ q \in Node
    BY <1>5, <1>p, <1>l, <1>t DEF LabelsInv, Running, TypeOK, Node
  <2>2. /\ label' \in [Node -> Label]
        /\ \A x \in Node : label[x] # "none" \/ x # q => label'[x] = label[x]
        /\ label'[q] = "true"
    <3>1. label' = SetClassification(label, {q}, "true")
      BY <1>5 DEF TrueForces
    <3>2. QED
      BY <3>1, <1>5, <1>t, <2>1 DEF TypeOK, SetClassification, Label
  <2>3. /\ worklist' \in Seq(SUBSET Node)
        /\ \A x : Holds(worklist, x) \/ x = q => Holds(worklist', x)
    <3>1. {q} \in SUBSET Node /\ worklist' = Push(worklist, {q})
      BY <1>5, <2>1 DEF TrueForces
    <3>2. worklist \in Seq(SUBSET Node)
      BY <1>t DEF TypeOK
    <3>3. QED
      BY <3>1, <3>2, PushProp
  <2>4. TypeOK'
    BY <1>p, <1>1, <1>t, <2>p, <2>1, <2>2, <2>3 DEF TypeOK
  <2>5. LabelsInv'
    BY <1>p, <1>l, <1>t, <2>p, <2>1, <2>2 DEF LabelsInv, Running, TypeOK, Node
  <2>6. SoundInv'
    <3> SUFFICES ASSUME NEW M \in Solutions
                 PROVE  /\ \A x \in Point : /\ label'[x] = "true" => x \in M
                                            /\ label'[x] = "false" => x \notin M
                        /\ positive' \subseteq M /\ negative \cap M = {}
                        /\ \A x \in Node : \A m \in marking[x] : m \in M => x \in M
      BY <1>p, SolutionsFrame DEF SoundInv
    <3>1. /\ \A x \in Point : /\ label[x] = "true" => x \in M
                              /\ label[x] = "false" => x \notin M
          /\ positive \subseteq M /\ negative \cap M = {}
          /\ \A x \in Node : \A m \in marking[x] : m \in M => x \in M
      BY <1>p, <1>s DEF SoundInv, Running
    <3>2. QED
      BY <3>1, <1>3, <2>p, <2>2 DEF Node
  <2>7. ClausesInv'
    <3>1. \A d \in Clause : TrivialBy(d) => TrivialBy(d)'
      BY <1>p, <1>t, <2>2, SatisfyGrows
    <3>2. TrivialBy(c)'
      BY <1>p, <2>2 DEF TrivialBy
    <3>3. \A d \in copies : \A i \in DOMAIN premises[d] \ left'[d] :
             label'[premises[d][i]] = "true"
      BY <1>p, <1>1, <1>2, <1>c, <1>t, <2>2 DEF ClausesInv, Running, TypeOK, Node
    <3>4. \A d \in copies : \A i \in left'[d] : d \in list[premises[d][i]]
      BY <1>p, <1>t, <1>c, <1>1 DEF ClausesInv, TypeOK
    <3>5. /\ \A d \in Clause : d \notin copies => TrivialBy(d)'
          /\ \A d \in satisfied' : TrivialBy(d)'
      BY <1>p, <1>t, <1>c, <2>p, <3>1, <3>2 DEF ClausesInv, TypeOK
    <3>6. \A d \in copies \ satisfied' : left'[d] # {}
      BY <1>p, <1>1, <1>t, <1>c, <2>p DEF ClausesInv, TypeOK
    <3>7. QED
      BY <1>p, <2>p, <3>3, <3>4, <3>5, <3>6 DEF ClausesInv
  <2>8. WorklistInv'
    <3> SUFFICES ASSUME NEW d \in copies \ satisfied', NEW i \in left'[d],
                        label'[premises[d][i]] = "true"
                 PROVE  \/ Holds(worklist', premises[d][i])
                        \/ cur = premises[d][i] /\ d \in pending'
      BY <1>p, <2>p DEF WorklistInv, OnStack
    <3>1. d # c /\ d \in copies \ satisfied /\ i \in left[d] /\ premises[d][i] \in Node
      BY <1>1, <1>t, <2>p DEF TypeOK, Node
    <3>2. CASE label[premises[d][i]] = "true"
      BY <3>1, <3>2, <1>p, <1>w, <2>3 DEF WorklistInv, OnStack
    <3>3. CASE label[premises[d][i]] # "true"
      BY <3>1, <3>3, <2>2, <2>3
    <3>4. QED
      BY <3>2, <3>3
  <2>9. AnswerInv'
    BY <1>p, <1>a, <2>p DEF AnswerInv
  <2>10. QED
    BY <2>4, <2>5, <2>6, <2>7, <2>8, <2>9 DEF IInv
<1>6. QED
  BY <1>4, <1>5

(* Classifying a set S of points as false: what propagate_false does on    *)

(* both of its ways.  T is what becomes satisfied, at most c itself.       *)
LEMMA FalseIInv ==
  ASSUME IInv, NEW c \in Clause, NEW S \in SUBSET Point, NEW T \in SUBSET {c},
         pc = "propagate", label[cur] = "false", c \in pending \ satisfied, pending' = pending \ {c},
         \A x \in S : label[x] # "true",
         \A M \in Solutions : S \cap M = {},
         \A M \in Solutions : \A x \in Node : \A m \in marking'[x] : m \in M => x \in M,
         marking' \in [Node -> SUBSET Point], stale' \in BOOLEAN,
         \A d \in T : \E i \in DOMAIN premises[d] : premises[d][i] \in S,
         label' = SetClassification(label, S, "false"),
         worklist' = Push(worklist, S),
         negative' = negative \cup S,
         satisfied' = satisfied \cup T,
         UNCHANGED <<premises, conclusion, positive, ok, pc, backup, next, copies, left,
                     list, cur, args>>
  PROVE  IInv'
<1>t. TypeOK
  BY DEF IInv
<1>l. LabelsInv
  BY DEF IInv
<1>s. SoundInv
  BY DEF IInv
<1>c. ClausesInv
  BY DEF IInv
<1>w. WorklistInv
  BY DEF IInv
<1>a. AnswerInv
  BY DEF IInv
<1>1. /\ label' \in [Node -> Label]
      /\ \A x \in Node : label[x] # "none" \/ x \notin S => label'[x] = label[x]
      /\ \A x \in S : label'[x] = "false"
      /\ \A x \in Node : label'[x] = "true" => label[x] = "true"
  BY <1>t DEF TypeOK, SetClassification, Label, Node
<1>2. /\ worklist' \in Seq(SUBSET Node)
      /\ \A x : Holds(worklist, x) => Holds(worklist', x)
  <2>1. S \in SUBSET Node /\ worklist \in Seq(SUBSET Node)
    BY <1>t DEF TypeOK, Node
  <2>2. QED
    BY <2>1, PushProp
<1>3. TypeOK'
  BY <1>t, <1>1, <1>2 DEF TypeOK
<1>4. LabelsInv'
  BY <1>t, <1>l, <1>1 DEF LabelsInv, Running, TypeOK, Node
<1>5. SoundInv'
  <2> SUFFICES ASSUME NEW M \in Solutions
               PROVE  /\ \A x \in Point : /\ label'[x] = "true" => x \in M
                                          /\ label'[x] = "false" => x \notin M
                      /\ positive \subseteq M /\ negative' \cap M = {}
                      /\ \A x \in Node : \A m \in marking'[x] : m \in M => x \in M
    BY SolutionsFrame DEF SoundInv
  <2>1. /\ \A x \in Point : /\ label[x] = "true" => x \in M
                            /\ label[x] = "false" => x \notin M
        /\ positive \subseteq M /\ negative \cap M = {}
    BY <1>s DEF SoundInv, Running
  <2>2. \A x \in Point : /\ label'[x] = "true" => x \in M
                         /\ label'[x] = "false" => x \notin M
    BY <2>1, <1>1 DEF Node
  <2>3. QED
    BY <2>1, <2>2
<1>6. ClausesInv'
  <2>1. \A d \in Clause : TrivialBy(d) => TrivialBy(d)'
    BY <1>t, <1>1, SatisfyGrows
  <2>2. \A d \in T : TrivialBy(d)'
    BY <1>1 DEF TrivialBy
  <2>3. \A d \in copies : \A i \in DOMAIN premises[d] \ left[d] :
           label'[premises[d][i]] = "true"
    BY <1>c, <1>t, <1>1 DEF ClausesInv, Running, TypeOK, Node
  <2>4. /\ \A d \in Clause : d \notin copies => TrivialBy(d)'
        /\ \A d \in satisfied' : TrivialBy(d)'
    BY <1>t, <1>c, <2>1, <2>2 DEF ClausesInv, TypeOK
  <2>5. /\ \A d \in copies \ satisfied' : left[d] # {}
        /\ \A d \in copies : \A i \in left[d] : d \in list[premises[d][i]]
    BY <1>c DEF ClausesInv
  <2>6. QED
    BY <2>3, <2>4, <2>5 DEF ClausesInv
<1>7. WorklistInv'
  <2> SUFFICES ASSUME NEW d \in copies \ satisfied', NEW i \in left[d],
                      label'[premises[d][i]] = "true"
               PROVE  \/ Holds(worklist', premises[d][i])
                      \/ cur = premises[d][i] /\ d \in pending'
    BY DEF WorklistInv, OnStack
  <2>1. premises[d][i] \in Node
    BY <1>t DEF TypeOK, Node
  <2>2. label[premises[d][i]] = "true"
    BY <1>1, <2>1
  <2>3. \/ Holds(worklist, premises[d][i])
        \/ cur = premises[d][i] /\ d \in pending
    BY <1>w, <2>2 DEF WorklistInv, OnStack
  <2>4. QED
    BY <1>2, <2>2, <2>3
<1>8. AnswerInv'
  BY <1>a DEF AnswerInv
<1>9. QED
  BY <1>3, <1>4, <1>5, <1>6, <1>7, <1>8 DEF IInv

(* A propagation of false that ends the call: there was no solution. *)
LEMMA AbortIInv ==
  ASSUME IInv, pc = "propagate", pc' = "return", ok' = FALSE, Solutions = {},
         label' \in [Node -> Label],
         \A x \in Node : label[x] # "none" => label'[x] = label[x],
         negative' \in SUBSET Point, negative \subseteq negative',
         satisfied' = satisfied, pending' \subseteq pending,
         worklist' \in Seq(SUBSET Node),
         marking' \in [Node -> SUBSET Point], stale' \in BOOLEAN,
         UNCHANGED <<premises, conclusion, positive, backup, next, copies, left,
                     list, cur, args>>
  PROVE  IInv'
<1>t. TypeOK
  BY DEF IInv
<1>l. LabelsInv
  BY DEF IInv
<1>s. SoundInv
  BY DEF IInv
<1>c. ClausesInv
  BY DEF IInv
<1>1. Solutions' = {}
  BY SolutionsFrame
<1>2. TypeOK'
  BY <1>t DEF TypeOK
<1>3. LabelsInv'
  BY <1>t, <1>l DEF LabelsInv, Running, TypeOK, Node
<1>4. ClausesInv'
  BY <1>t, <1>c DEF ClausesInv, Running, TypeOK, Node
<1>5. SoundInv' /\ WorklistInv' /\ AnswerInv'
  BY <1>1 DEF SoundInv, WorklistInv, AnswerInv
<1>6. QED
  BY <1>2, <1>3, <1>4, <1>5 DEF IInv

(* FalseForces preserves it: the one premise left of a clause with a false head is false. *)
LEMMA FalseForcesIInv ==
  ASSUME IInv, NEW c \in Clause, NEW j \in DOMAIN premises[c], FalseForces(c, j)
  PROVE  IInv'
<1>t. TypeOK
  BY DEF IInv
<1>l. LabelsInv
  BY DEF IInv
<1>s. SoundInv
  BY DEF IInv
<1>c. ClausesInv
  BY DEF IInv
<1> DEFINE q == premises[c][j]
<1>p. /\ pc = "propagate" /\ c \in pending \ satisfied
      /\ pending' = pending \ {c}
      /\ label[cur] = "false" /\ conclusion[c] = cur /\ left[c] = {j}
      /\ UNCHANGED <<premises, conclusion, positive, backup, next, copies, left, list,
                     stale, marking, cur, args>>
  BY DEF FalseForces, Visit, problem
<1>1. q \in Point /\ c \in copies
  BY <1>p, <1>t DEF TypeOK
<1>2. \A M \in Solutions : q \notin M
  <2> SUFFICES ASSUME NEW M \in Solutions, q \in M PROVE FALSE
    OBVIOUS
  <2>1. \A i \in DOMAIN premises[c] : i # j => label[premises[c][i]] = "true"
    BY <1>p, <1>1, <1>c DEF ClausesInv, Running
  <2>2. \A i \in DOMAIN premises[c] : premises[c][i] \in M
    BY <2>1, <1>p, <1>s, <1>t DEF SoundInv, Running, TypeOK
  <2>3. cur \in M /\ M \subseteq Point
    BY <1>p, <1>t, <2>2, SolutionProp
  <2>4. QED
    BY <2>3, <1>p, <1>s DEF SoundInv, Running
<1>3. CASE label[q] = "true"
  <2>1. pc' = "return" /\ ok' = FALSE /\ UNCHANGED <<label, negative, satisfied, worklist>>
    BY <1>3 DEF FalseForces, Abort
  <2>2. Solutions = {}
    BY <1>1, <1>2, <1>3, <1>p, <1>s DEF SoundInv, Running
  <2>3. /\ label' \in [Node -> Label] /\ negative' \in SUBSET Point
        /\ worklist' \in Seq(SUBSET Node) /\ marking' \in [Node -> SUBSET Point]
        /\ stale' \in BOOLEAN
    BY <1>p, <1>t, <2>1 DEF TypeOK
  <2>4. QED
    BY <1>p, <2>1, <2>2, <2>3, AbortIInv
<1>4. CASE label[q] # "true"
  <2>1. /\ label' = SetClassification(label, {q}, "false")
        /\ worklist' = Push(worklist, {q})
        /\ negative' = negative \cup {q}
        /\ satisfied' = satisfied \cup {c}
        /\ pc' = pc /\ ok' = ok
    BY <1>4 DEF FalseForces, Continue
  <2>2. PICK S \in SUBSET Point, T \in SUBSET {c} : S = {q} /\ T = {c}
    BY <1>1
  <2>3. /\ \A x \in S : label[x] # "true"
        /\ \A M \in Solutions : S \cap M = {}
        /\ \A d \in T : \E i \in DOMAIN premises[d] : premises[d][i] \in S
    BY <1>1, <1>2, <1>4, <2>2
  <2>4. /\ marking' \in [Node -> SUBSET Point] /\ stale' \in BOOLEAN
    BY <1>p, <1>t DEF TypeOK
  <2>5. \A M \in Solutions : \A x \in Node : \A m \in marking'[x] : m \in M => x \in M
    BY <1>p, <1>s DEF SoundInv, Running
  <2>6. /\ label' = SetClassification(label, S, "false")
        /\ worklist' = Push(worklist, S)
        /\ negative' = negative \cup S
        /\ satisfied' = satisfied \cup T
    BY <2>1, <2>2
  <2> HIDE DEF q
  <2>7. QED
    BY <1>p, <2>1, <2>3, <2>4, <2>5, <2>6, FalseIInv
<1>5. QED
  BY <1>3, <1>4

(* A mark of x holds x up in every solution: the set of true points is     *)

(* closed under the constraints that are left.                             *)
LEMMA MarkingSound ==
  ASSUME IInv, pc = "propagate", NEW M \in Solutions, NEW x \in Node,
         NEW m \in ComputeCurrentMarking[x], m \in M
  PROVE  x \in M
<1>t. TypeOK
  BY DEF IInv
<1>l. LabelsInv
  BY DEF IInv
<1>s. SoundInv
  BY DEF IInv
<1>c. ClausesInv
  BY DEF IInv
<1> DEFINE body == [c \in copies \ satisfied |-> PointsAt(c, left[c])]
<1>1. M \in SUBSET Node
  BY <1>t, SolutionProp DEF Node
<1>2. ClosedUnder(M, body, conclusion)
  <2> SUFFICES ASSUME NEW c \in copies \ satisfied, PointsAt(c, left[c]) \subseteq M
               PROVE  conclusion[c] \in M
    BY DEF ClosedUnder
  <2>1. c \in Clause
    BY <1>t DEF TypeOK
  <2>2. \A i \in left[c] : premises[c][i] \in M
    BY DEF PointsAt
  <2>3. \A i \in DOMAIN premises[c] \ left[c] : premises[c][i] \in M
    BY <2>1, <1>t, <1>c, <1>s DEF ClausesInv, SoundInv, Running, TypeOK
  <2>4. QED
    BY <2>1, <2>2, <2>3, <1>t, SolutionProp
<1>3. \A S \in SUBSET Node : m \in S /\ ClosedUnder(S, body, conclusion) => x \in S
  BY DEF ComputeCurrentMarking, LeastMarking
<1>4. QED
  BY <1>1, <1>2, <1>3

(* FalseMarks preserves it: every point that marks the false conclusion is false. *)
LEMMA FalseMarksIInv ==
  ASSUME IInv, NEW c \in Clause, FalseMarks(c)
  PROVE  IInv'
<1>t. TypeOK
  BY DEF IInv
<1>l. LabelsInv
  BY DEF IInv
<1>s. SoundInv
  BY DEF IInv
<1>c. ClausesInv
  BY DEF IInv
<1>p. /\ pc = "propagate" /\ c \in pending \ satisfied
      /\ pending' = pending \ {c}
      /\ label[cur] = "false" /\ conclusion[c] = cur /\ stale' = FALSE
      /\ UNCHANGED <<premises, conclusion, positive, backup, next, copies, left, list,
                     satisfied, cur, args>>
  BY DEF FalseMarks, Visit, problem
<1> DEFINE marks == {m \in marking'[cur] : m # cur /\ label[m] # "false"}
           free  == {m \in marks : label[m] = "none"}
<1>1. PICK S \in SUBSET free :
         /\ IF marks = free THEN S = free /\ Continue ELSE Abort
         /\ label' = SetClassification(label, S, "false")
         /\ worklist' = Push(worklist, S)
         /\ negative' = negative \cup S
  BY DEF FalseMarks
<1>2. marking' \in [Node -> SUBSET Point] /\ stale' \in BOOLEAN
  <2>1. ComputeCurrentMarking \in [Node -> SUBSET Point]
    BY DEF ComputeCurrentMarking, LeastMarking
  <2>2. marking \in [Node -> SUBSET Point]
    BY <1>t DEF TypeOK
  <2>3. QED
    BY <2>1, <2>2, <1>p DEF FalseMarks
<1>3. \A M \in Solutions : \A x \in Node : \A m \in marking'[x] : m \in M => x \in M
  <2>1. \A M \in Solutions : \A x \in Node : \A m \in marking[x] : m \in M => x \in M
    BY <1>p, <1>s DEF SoundInv, Running
  <2>2. \A M \in Solutions : \A x \in Node :
           \A m \in ComputeCurrentMarking[x] : m \in M => x \in M
    BY <1>p, MarkingSound
  <2>3. marking' = marking \/ marking' = ComputeCurrentMarking
    BY DEF FalseMarks
  <2>4. QED
    BY <2>1, <2>2, <2>3
<1>4. \A M \in Solutions : cur \notin M
  BY <1>p, <1>t, <1>s, SolutionProp DEF SoundInv, Running
<1>5. marks \subseteq Point /\ cur \in Node
  BY <1>2, <1>t DEF TypeOK
<1>6. \A M \in Solutions : marks \cap M = {}
  BY <1>3, <1>4, <1>5
<1>7. CASE marks = free
  <2>1. S = free /\ pc' = pc /\ ok' = ok
    BY <1>1, <1>7 DEF Continue
  <2>2. /\ S \in SUBSET Point /\ \A x \in S : label[x] # "true"
        /\ \A M \in Solutions : S \cap M = {}
    BY <1>5, <1>6, <2>1
  <2>3. /\ {} \in SUBSET {c} /\ satisfied' = satisfied \cup {}
        /\ \A d \in {} : \E i \in DOMAIN premises[d] : premises[d][i] \in S
    BY <1>p
  <2> HIDE DEF marks, free
  <2>4. QED
    BY <1>1, <1>2, <1>3, <1>p, <2>1, <2>2, <2>3, FalseIInv
<1>8. CASE marks # free
  <2>1. pc' = "return" /\ ok' = FALSE
    BY <1>1, <1>8 DEF Abort
  <2>2. PICK m \in marks : label[m] = "true"
    BY <1>5, <1>8, <1>t DEF TypeOK, Label, Node
  <2>3. Solutions = {}
    BY <2>2, <1>5, <1>6, <1>p, <1>s DEF SoundInv, Running
  <2>4. S \in SUBSET Point
    BY <1>5
  <2> HIDE DEF marks, free
  <2>5. /\ label' \in [Node -> Label]
        /\ \A x \in Node : label[x] # "none" => label'[x] = label[x]
    BY <1>1, <1>t DEF TypeOK, SetClassification, Label
  <2>6. worklist' \in Seq(SUBSET Node)
    <3>1. S \in SUBSET Node /\ worklist \in Seq(SUBSET Node)
      BY <2>4, <1>t DEF TypeOK, Node
    <3>2. QED
      BY <3>1, <1>1, PushProp
  <2>7. negative' \in SUBSET Point /\ negative \subseteq negative'
    BY <1>1, <2>4, <1>t DEF TypeOK
  <2>8. QED
    BY <1>p, <1>2, <2>1, <2>3, <2>5, <2>6, <2>7, AbortIInv
<1>9. QED
  BY <1>7, <1>8

(* NextPoint preserves it: all clauses of the popped point were visited. *)
LEMMA NextPointIInv ==
  ASSUME IInv, NextPoint
  PROVE  IInv'
<1>t. TypeOK
  BY DEF IInv
<1>l. LabelsInv
  BY DEF IInv
<1>s. SoundInv
  BY DEF IInv
<1>c. ClausesInv
  BY DEF IInv
<1>w. WorklistInv
  BY DEF IInv
<1>a. AnswerInv
  BY DEF IInv
<1>p. /\ pc = "propagate" /\ pc' = "pop" /\ pending' = {} /\ pending \subseteq satisfied
      /\ UNCHANGED <<premises, conclusion, label, positive, negative, ok, backup, next,
                     copies, left, satisfied, list, stale, marking, worklist, cur, args>>
  BY DEF NextPoint, problem, inout, scratch
<1>1. TypeOK'
  BY <1>p, <1>t DEF TypeOK
<1>2. LabelsInv'
  BY <1>p, <1>l DEF LabelsInv, Running
<1>3. SoundInv'
  BY <1>p, <1>s, SolutionsFrame DEF SoundInv, Running
<1>4. ClausesInv'
  BY <1>p, <1>c DEF ClausesInv, Running, TrivialBy
<1>5. WorklistInv'
  BY <1>p, <1>w DEF WorklistInv, OnStack
<1>6. AnswerInv'
  BY <1>p, <1>a DEF AnswerInv
<1>7. QED
  BY <1>1, <1>2, <1>3, <1>4, <1>5, <1>6 DEF IInv

(* With nothing left to propagate the points classified true are a         *)
(* solution: the constraints that were kept each have a premise that is    *)

(* not true.                                                               *)
LEMMA TruePointsSolve ==
  ASSUME IInv, pc = "pop", worklist = <<>>
  PROVE  Labelled(label, "true") \in Solutions
<1>t. TypeOK
  BY DEF IInv
<1>l. LabelsInv
  BY DEF IInv
<1>c. ClausesInv
  BY DEF IInv
<1>w. WorklistInv
  BY DEF IInv
<1> DEFINE M == Labelled(label, "true")
<1>1. M \in SUBSET Point /\ \A x \in Point : x \in M <=> label[x] = "true"
  BY DEF Labelled
<1>2. Labelled(backup, "true") \cup args.pos \subseteq M
  BY <1>t, <1>l, <1>1 DEF TypeOK, LabelsInv, Running, Labelled
<1>3. (Labelled(backup, "false") \cup args.neg) \cap M = {}
  BY <1>t, <1>l, <1>1 DEF TypeOK, LabelsInv, Running, Labelled
<1> HIDE DEF M
<1>4. ASSUME NEW c \in Clause
      PROVE  Satisfies(M, premises[c], conclusion[c])
  <2>1. CASE TrivialBy(c)
    <3>1. label[FalseDp] # "true" /\ conclusion[c] \in Node
      BY <1>t, <1>l DEF TypeOK, LabelsInv
    <3>2. \A i \in DOMAIN premises[c] : premises[c][i] \in Point
      BY <1>t DEF TypeOK
    <3>3. QED
      BY <2>1, <3>1, <3>2, <1>1 DEF TrivialBy, Satisfies, Node
  <2>2. CASE ~ TrivialBy(c)
    <3>1. c \in copies \ satisfied /\ left[c] # {}
      BY <2>2, <1>c DEF ClausesInv
    <3>2. PICK i \in left[c] : TRUE
      BY <3>1
    <3>3. ~ OnStack(premises[c][i])
      BY DEF OnStack, Holds
    <3>4. label[premises[c][i]] # "true"
      BY <1>w, <3>1, <3>2, <3>3 DEF WorklistInv
    <3>5. i \in DOMAIN premises[c] /\ premises[c][i] \in Point
      BY <1>t DEF TypeOK
    <3>6. QED
      BY <3>4, <3>5, <1>1 DEF Satisfies
  <2>3. QED
    BY <2>1, <2>2
<1>5. DOMAIN premises = Clause
  BY <1>t DEF TypeOK
<1>6. M \in Solutions
  BY <1>1, <1>2, <1>3, <1>4, <1>5 DEF Solutions, Models
<1>7. QED
  BY <1>6 DEF M

(* Finish preserves it: with an empty stack the positive points are a solution. *)
LEMMA FinishIInv ==
  ASSUME IInv, Finish
  PROVE  IInv'
<1>t. TypeOK
  BY DEF IInv
<1>l. LabelsInv
  BY DEF IInv
<1>s. SoundInv
  BY DEF IInv
<1>c. ClausesInv
  BY DEF IInv
<1>a. AnswerInv
  BY DEF IInv
<1>p. /\ pc = "pop" /\ worklist = <<>> /\ pc' = "return"
      /\ UNCHANGED <<premises, conclusion, label, positive, negative, ok, backup, next,
                     copies, left, satisfied, list, stale, marking, worklist, cur,
                     pending, args>>
  BY DEF Finish, problem, inout, scratch
<1>1. TypeOK'
  BY <1>p, <1>t DEF TypeOK
<1>2. LabelsInv'
  BY <1>p, <1>l DEF LabelsInv, Running
<1>3. SoundInv'
  BY <1>p, <1>s, SolutionsFrame DEF SoundInv, Running
<1>4. ClausesInv' /\ WorklistInv'
  BY <1>p, <1>c DEF ClausesInv, Running, WorklistInv
<1>5. AnswerInv'
  <2>1. Labelled(label, "true") \in Solutions
    BY <1>p, TruePointsSolve
  <2>2. ok' = TRUE
    BY <1>p, <1>a, <1>t DEF AnswerInv, TypeOK
  <2>3. Labelled(label, "true")' \in Solutions'
    BY <1>p, <2>1, SolutionsFrame DEF Labelled
  <2>4. QED
    BY <1>p, <2>2, <2>3 DEF AnswerInv
<1>6. QED
  BY <1>1, <1>2, <1>3, <1>4, <1>5 DEF IInv

(* RollBack preserves it: a failed call restores the saved labels. *)
LEMMA RollBackIInv ==
  ASSUME IInv, RollBack
  PROVE  IInv'
<1>t. TypeOK
  BY DEF IInv
<1>l. LabelsInv
  BY DEF IInv
<1>1. TypeOK'
  BY <1>t DEF RollBack, Restored, TypeOK, problem, inout, NoLists, NoMarking, NothingLeft, Node
<1>2. pc' = "idle" /\ label'[FalseDp] = label[FalseDp]
  BY DEF RollBack, Restored, Node
<1>3. LabelsInv' /\ SoundInv' /\ WorklistInv'
  BY <1>l, <1>2 DEF LabelsInv, SoundInv, WorklistInv, Running
<1>4. ClausesInv' /\ AnswerInv'
  BY <1>2 DEF RollBack, ClausesInv, AnswerInv, Running
<1>5. QED
  BY <1>1, <1>3, <1>4 DEF IInv

(* Steps that change no variable preserve it. *)
LEMMA StutterIInv ==
  ASSUME IInv, UNCHANGED vars
  PROVE  IInv'
<1>p. UNCHANGED <<premises, conclusion, label, positive, negative, ok, pc, backup, next,
                  copies, left, satisfied, list, stale, marking, worklist, cur, pending, args>>
  BY DEF vars, problem, inout, scratch
<1>1. TypeOK' /\ LabelsInv'
  BY <1>p DEF IInv, TypeOK, LabelsInv, Running
<1>2. SoundInv' /\ AnswerInv'
  BY <1>p, SolutionsFrame DEF IInv, SoundInv, AnswerInv, Running, Labelled
<1>3. ClausesInv' /\ WorklistInv'
  BY <1>p DEF IInv, ClausesInv, WorklistInv, Running, TrivialBy, OnStack
<1>4. QED
  BY <1>1, <1>2, <1>3 DEF IInv

-----------------------------------------------------------------------------

(* Every step preserves the inductive invariant. *)
LEMMA NextIInv == IInv /\ [Next]_vars => IInv'
<1> SUFFICES ASSUME IInv, [Next]_vars PROVE IInv'
  OBVIOUS
<1>1. CASE \E P \in SUBSET Labelled(label, "none") :
             \E N \in SUBSET (Labelled(label, "none") \ P) : Solve(P, N)
  BY <1>1, SolveIInv
<1>2. CASE KeepBackup
  BY <1>2, DropIInv, ForceIInv, RefuteIInv, KeepIInv DEF KeepBackup
<1>3. CASE FillWorklist
  BY <1>3, FillIInv
<1>4. CASE \E x \in Node : Pop(x)
  BY <1>4, PopIInv
<1>5. CASE Propagate
  <2>1. ASSUME NEW c \in Clause, TrueSatisfies(c) \/ FalseSatisfies(c)
        PROVE  IInv'
    BY <2>1, SatisfiesIInv
  <2>2. ASSUME NEW c \in Clause, TrueShortens(c) \/ TrueForces(c) \/ FalseMarks(c)
        PROVE  IInv'
    BY <2>2, ShortensIInv, TrueForcesIInv, FalseMarksIInv
  <2>3. ASSUME NEW c \in Clause, NEW i \in DOMAIN premises[c], FalseForces(c, i)
        PROVE  IInv'
    BY <2>3, FalseForcesIInv
  <2>4. QED
    BY <1>5, <2>1, <2>2, <2>3, NextPointIInv DEF Propagate
<1>6. CASE Finish \/ RollBack
  BY <1>6, FinishIInv, RollBackIInv
<1>7. CASE UNCHANGED vars
  BY <1>7, StutterIInv
<1>8. QED
  BY <1>1, <1>2, <1>3, <1>4, <1>5, <1>6, <1>7 DEF Next, Step

(* The inductive invariant holds in every reachable state of the solver,   *)
(* within and between calls of solve.                                      *)
THEOREM Inductive == Spec => []IInv
<1>1. Init => IInv
  BY InitIInv
<1>2. IInv /\ [Next]_vars => IInv'
  BY NextIInv
<1>3. QED
  BY <1>1, <1>2, PTL DEF Spec

(* The variables of solve keep their types, whatever the sample. *)
THEOREM TypeCorrect == Spec => []TypeOK
<1>1. IInv => TypeOK
  BY DEF IInv
<1>2. QED
  BY <1>1, Inductive, PTL

(* For any number of points and constraints, any labels and any arguments, *)
(* solve answers true if and only if a solution exists.                    *)
THEOREM VerdictCorrect == Spec => []VerdictExact
<1>1. IInv => VerdictExact
  BY DEF IInv, AnswerInv, TypeOK, VerdictExact, Answered
<1>2. QED
  BY <1>1, Inductive, PTL

-----------------------------------------------------------------------------
(* The stack. *)

(* A pushed batch is the only thing new on the stack. *)
LEMMA PushExact ==
  ASSUME NEW w \in Seq(SUBSET Node), NEW S \in SUBSET Node
  PROVE  /\ Push(w, S) \in Seq(SUBSET Node)
         /\ \A x : Holds(Push(w, S), x) <=> Holds(w, x) \/ x \in S
<1>1. Push(w, S) \in Seq(SUBSET Node) /\ \A x : Holds(w, x) \/ x \in S => Holds(Push(w, S), x)
  BY PushProp
<1>2. ASSUME NEW x, Holds(Push(w, S), x)
      PROVE  Holds(w, x) \/ x \in S
  <2>1. CASE S = {}
    BY <1>2, <2>1 DEF Push
  <2>2. CASE S # {}
    <3>1. Push(w, S) = Append(w, S)
      BY <2>2 DEF Push
    <3>2. PICK i \in 1 .. Len(Append(w, S)) : x \in Append(w, S)[i]
      BY <1>2, <3>1 DEF Holds
    <3>3. CASE i = Len(w) + 1
      BY <3>2, <3>3
    <3>4. CASE i # Len(w) + 1
      <4>1. i \in 1 .. Len(w) /\ Append(w, S)[i] = w[i]
        BY <3>4
      <4>2. QED
        BY <3>2, <4>1 DEF Holds
    <3>5. QED
      BY <3>3, <3>4
  <2>3. QED
    BY <2>1, <2>2
<1>3. QED
  BY <1>1, <1>2

(* A push keeps the true nodes on top when the batch is true throughout,   *)
(* or neither it nor the stack holds a true node.                          *)
LEMMA PushOnTop ==
  ASSUME NEW w \in Seq(SUBSET Node), NEW S \in SUBSET Node, NEW l, TrueOnTop(w, l),
         \/ \A y \in S : l[y] = "true"
         \/ /\ \A y \in S : l[y] # "true"
            /\ \A x \in Node : Holds(w, x) => l[x] # "true"
  PROVE  TrueOnTop(Push(w, S), l)
<1>1. CASE S = {}
  BY <1>1 DEF Push
<1>2. CASE S # {}
  <2> DEFINE v == Append(w, S)
  <2>1. Push(w, S) = v
    BY <1>2 DEF Push
  <2>2. /\ Len(v) = Len(w) + 1 /\ v[Len(w) + 1] = S
        /\ \A j \in 1 .. Len(w) : v[j] = w[j] /\ w[j] \subseteq Node
    OBVIOUS
  <2> HIDE DEF v
  <2>3. SUFFICES ASSUME NEW j \in 1 .. Len(v), NEW k \in 1 .. Len(v), j <= k,
                        NEW x \in v[j], NEW y \in v[k], l[x] = "true"
                 PROVE  l[y] = "true"
    BY <2>1 DEF TrueOnTop
  <2>4. CASE k = Len(w) + 1
    <3>1. y \in S
      BY <2>2, <2>4
    <3>2. CASE \A z \in S : l[z] = "true"
      BY <3>1, <3>2
    <3>3. CASE /\ \A z \in S : l[z] # "true"
               /\ \A z \in Node : Holds(w, z) => l[z] # "true"
      <4>1. x \notin S
        BY <2>3, <3>3
      <4>2. j \in 1 .. Len(w)
        BY <2>2, <2>4, <4>1
      <4>3. x \in Node /\ Holds(w, x)
        BY <2>2, <4>2 DEF Holds
      <4>4. QED
        BY <2>3, <3>3, <4>3
    <3>4. QED
      BY <3>2, <3>3
  <2>5. CASE k # Len(w) + 1
    <3>1. j \in 1 .. Len(w) /\ k \in 1 .. Len(w) /\ x \in w[j] /\ y \in w[k]
      BY <2>2, <2>3, <2>5
    <3>2. QED
      BY <2>3, <3>1 DEF TrueOnTop
  <2>6. QED
    BY <2>4, <2>5
<1>3. QED
  BY <1>1, <1>2

(* Popping adds nothing and leaves the true nodes on top. *)
LEMMA PopOnTop ==
  ASSUME NEW w \in Seq(SUBSET Node), w # <<>>, NEW x \in w[Len(w)], NEW l, TrueOnTop(w, l)
  PROVE  /\ \A y : Holds(PopFrom(w, x), y) => Holds(w, y)
         /\ TrueOnTop(PopFrom(w, x), l)
<1> DEFINE v == PopFrom(w, x)
<1>1. Len(v) \in Nat /\ Len(v) <= Len(w) /\ \A i \in 1 .. Len(v) : v[i] \subseteq w[i]
  <2>1. CASE w[Len(w)] = {x}
    <3>1. PICK n \in Nat : n = Len(w) - 1
      OBVIOUS
    <3>2. v = SubSeq(w, 1, n) /\ n < Len(w)
      BY <2>1, <3>1 DEF PopFrom
    <3>3. Len(v) = n /\ \A i \in 1 .. n : v[i] = w[i]
      BY <3>2, PrefixProp
    <3>4. QED
      BY <3>1, <3>3
  <2>2. CASE w[Len(w)] # {x}
    <3>1. v = [w EXCEPT ![Len(w)] = w[Len(w)] \ {x}]
      BY <2>2 DEF PopFrom
    <3>2. QED
      BY <3>1
  <2>3. QED
    BY <2>1, <2>2
<1> HIDE DEF v
<1>2. Len(w) \in Nat
  OBVIOUS
<1>3. \A y : Holds(v, y) => Holds(w, y)
  BY <1>1, <1>2 DEF Holds
<1>4. TrueOnTop(v, l)
  <2> SUFFICES ASSUME NEW j \in 1 .. Len(v), NEW k \in 1 .. Len(v), j <= k,
                      NEW y \in v[j], NEW z \in v[k], l[y] = "true"
               PROVE  l[z] = "true"
    BY DEF TrueOnTop
  <2>1. j \in 1 .. Len(w) /\ k \in 1 .. Len(w) /\ y \in w[j] /\ z \in w[k]
    BY <1>1, <1>2
  <2>2. QED
    BY <2>1 DEF TrueOnTop
<1>5. QED
  BY <1>3, <1>4 DEF v

(* A node on top that is not true has no true node below it. *)
LEMMA TopNotTrue ==
  ASSUME NEW w \in Seq(SUBSET Node), w # <<>>, NEW x \in w[Len(w)], NEW l, TrueOnTop(w, l),
         l[x] # "true"
  PROVE  \A y : Holds(w, y) => l[y] # "true"
<1> SUFFICES ASSUME NEW i \in 1 .. Len(w), NEW y \in w[i], l[y] = "true" PROVE FALSE
  BY DEF Holds
<1>1. Len(w) \in 1 .. Len(w) /\ i <= Len(w)
  OBVIOUS
<1>2. QED
  BY <1>1 DEF TrueOnTop

(* Only the labels of stacked nodes matter. *)
LEMMA RelabelOnTop ==
  ASSUME NEW w \in Seq(SUBSET Node), NEW l, NEW m, TrueOnTop(w, l),
         \A x \in Node : Holds(w, x) => m[x] = l[x]
  PROVE  TrueOnTop(w, m)
<1>1. \A i \in 1 .. Len(w) : \A x \in w[i] : m[x] = l[x]
  BY DEF Holds
<1>2. QED
  BY <1>1 DEF TrueOnTop

(* A stack without a true node. *)
LEMMA NoTrueOnTop ==
  ASSUME NEW w \in Seq(SUBSET Node), NEW l, \A x \in Node : Holds(w, x) => l[x] # "true"
  PROVE  TrueOnTop(w, l)
<1>1. \A i \in 1 .. Len(w) : \A x \in w[i] : l[x] # "true"
  BY DEF Holds
<1>2. QED
  BY <1>1 DEF TrueOnTop

-----------------------------------------------------------------------------
(* Markings and labels. *)

(* Fewer constraints to satisfy, fewer marks. *)
LEMMA MarksShrink ==
  ASSUME UNCHANGED <<premises, conclusion, copies, left>>, satisfied \subseteq satisfied',
         NEW x \in Node
  PROVE  ComputeCurrentMarking'[x] \subseteq ComputeCurrentMarking[x]
<1> DEFINE B == [c \in copies \ satisfied |-> PointsAt(c, left[c])]
           C == [c \in copies \ satisfied' |-> PointsAt(c, left[c])]
<1>1. ComputeCurrentMarking = LeastMarking(B, conclusion)
  BY DEF ComputeCurrentMarking
<1>2. ComputeCurrentMarking' = LeastMarking(C, conclusion)
  BY DEF ComputeCurrentMarking, PointsAt
<1>3. \A S : ClosedUnder(S, B, conclusion) => ClosedUnder(S, C, conclusion)
  BY DEF ClosedUnder
<1> HIDE DEF B, C
<1>4. QED
  BY <1>1, <1>2, <1>3 DEF LeastMarking

(* The nodes that x marks are closed under the constraints that are left. *)
LEMMA MarkedClosed ==
  ASSUME NEW x \in Point, NEW c \in copies \ satisfied, conclusion[c] \in Node,
         PointsAt(c, left[c]) # {}, PointsAt(c, left[c]) \subseteq Node,
         \A y \in PointsAt(c, left[c]) : x \in ComputeCurrentMarking[y]
  PROVE  x \in ComputeCurrentMarking[conclusion[c]]
<1> DEFINE B == [d \in copies \ satisfied |-> PointsAt(d, left[d])]
<1>1. ComputeCurrentMarking = LeastMarking(B, conclusion)
  BY DEF ComputeCurrentMarking
<1>2. c \in DOMAIN B /\ B[c] = PointsAt(c, left[c])
  OBVIOUS
<1> HIDE DEF B
<1>3. ASSUME NEW S \in SUBSET Node, x \in S, ClosedUnder(S, B, conclusion)
      PROVE  conclusion[c] \in S
  <2>1. ASSUME NEW y \in B[c]
        PROVE  y \in S
    <3>1. y \in Node /\ x \in LeastMarking(B, conclusion)[y]
      BY <1>1, <1>2, <2>1
    <3>2. QED
      BY <1>3, <3>1 DEF LeastMarking
  <2>2. QED
    BY <1>2, <1>3, <2>1 DEF ClosedUnder
<1>4. x \in LeastMarking(B, conclusion)[conclusion[c]]
  BY <1>3 DEF LeastMarking
<1>5. QED
  BY <1>1, <1>4

(* Every point marks itself. *)
LEMMA MarksItself ==
  ASSUME NEW x \in Point
  PROVE  x \in ComputeCurrentMarking[x]
BY DEF ComputeCurrentMarking, LeastMarking, Node

(* A point labelled now was labelled so before the call, or was not        *)
(* labelled then.                                                          *)
LEMMA BackupAgrees ==
  ASSUME IInv, Running, NEW x \in Point
  PROVE  backup[x] = label[x] \/ x \in Labelled(backup, "none")
BY DEF IInv, TypeOK, LabelsInv, Labelled, Label

-----------------------------------------------------------------------------
(* The parts a step leaves alone while a call runs. *)

(* ArgumentsInv while the sets, the labels and the copies stay. *)
LEMMA ArgumentsFrame ==
  ASSUME ArgumentsInv, Running,
         UNCHANGED <<premises, conclusion, label, positive, negative, backup, copies>>
  PROVE  ArgumentsInv'
BY DEF ArgumentsInv, Labelled

(* A fresh solver. *)
LEMMA InitComplete == Init => CompleteInv
<1> SUFFICES ASSUME Init PROVE CompleteInv
  OBVIOUS
<1>1. IInv
  BY InitIInv
<1>2. ArgumentsInv /\ MarkingInv /\ FreeInv
  BY DEF Init, ArgumentsInv, MarkingInv, FreeInv, Running, Answered
<1>3. StackInv
  BY DEF Init, StackInv
<1>4. QED
  BY <1>1, <1>2, <1>3 DEF CompleteInv

(* Solve: nothing is labelled yet beyond what was, no copy is kept and the *)
(* stack is empty.                                                         *)
LEMMA SolveComplete ==
  ASSUME CompleteInv, NEW P \in SUBSET Labelled(label, "none"),
         NEW N \in SUBSET (Labelled(label, "none") \ P), Solve(P, N)
  PROVE  ArgumentsInv' /\ StackInv' /\ MarkingInv' /\ FreeInv'
<1>t. TypeOK /\ AnswerInv /\ StackInv
  BY DEF CompleteInv, IInv
<1>p. /\ pc = "idle" /\ pc' = "backup" /\ positive' = P /\ negative' = N
      /\ worklist' = <<>> /\ copies' = copies /\ stale' = stale
      /\ backup' = [x \in Point |-> label[x]]
      /\ label' = [label EXCEPT ![FalseDp] = "false"]
  BY DEF Solve, SavedLabels, scratch
<1>1. copies' = {}
  BY <1>t, <1>p DEF AnswerInv
<1>2. \A x \in Point : label'[x] = backup'[x] /\ backup'[x] = label[x]
  <2>1. label \in [Node -> Label] /\ \A x \in Point : x \in Node /\ x # FalseDp
    BY <1>t DEF TypeOK, Node
  <2>2. QED
    BY <1>p, <2>1
<1>3. ArgumentsInv'
  BY <1>1, <1>2, <1>p DEF ArgumentsInv, Labelled
<1>4. StackInv'
  BY <1>1, <1>t, <1>p DEF StackInv, OnStack, Holds
<1>5. MarkingInv' /\ FreeInv'
  BY <1>p DEF MarkingInv, FreeInv, Answered
<1>6. QED
  BY <1>3, <1>4, <1>5

-----------------------------------------------------------------------------
(* keep_backup *)

(* DropClause: only the loop index moves. *)
LEMMA DropComplete ==
  ASSUME CompleteInv, NEW c \in Clause, DropClause(c)
  PROVE  ArgumentsInv' /\ StackInv' /\ MarkingInv' /\ FreeInv'
<1>p. /\ pc = "backup"
      /\ UNCHANGED <<premises, conclusion, label, positive, negative, ok, pc, backup,
                     copies, left, satisfied, list, stale, marking, worklist, cur,
                     pending, args>>
  BY DEF DropClause, AtClause, problem, inout, scratch
<1>1. ArgumentsInv'
  BY <1>p, ArgumentsFrame DEF CompleteInv, Running
<1>2. StackInv'
  BY <1>p DEF CompleteInv, StackInv, OnStack
<1>3. MarkingInv' /\ FreeInv'
  BY <1>p DEF MarkingInv, FreeInv, Answered
<1>4. QED
  BY <1>1, <1>2, <1>3

(* ForceConclusion: the conclusion that becomes true was unclassified, so  *)
(* it is on no stack and belongs to the points of the call.                *)
LEMMA ForceComplete ==
  ASSUME CompleteInv, NEW c \in Clause, ForceConclusion(c)
  PROVE  ArgumentsInv' /\ StackInv' /\ MarkingInv' /\ FreeInv'
<1>t. IInv /\ TypeOK /\ LabelsInv /\ ArgumentsInv /\ StackInv
  BY DEF CompleteInv, IInv
<1> DEFINE q == conclusion[c]
<1>p. /\ pc = "backup" /\ label[q] = "none" /\ positive' = positive \cup {q}
      /\ UNCHANGED <<premises, conclusion, negative, ok, pc, backup, copies, left,
                     satisfied, list, stale, marking, worklist, cur, pending, args>>
  BY DEF ForceConclusion, AtClause, problem, scratch
<1>1. q \in Point
  BY <1>t, <1>p DEF LabelsInv, Running, TypeOK, Node
<1>2. /\ \A x \in Node : x # q => label'[x] = label[x]
      /\ label'[q] = "true"
  BY <1>t, <1>1, <1>p DEF ForceConclusion, TypeOK, SetClassification, Label, Node
<1>3. q \in Labelled(backup, "none")
  BY <1>t, <1>1, <1>p, BackupAgrees DEF Running, Labelled
<1>4. ArgumentsInv'
  <2>1. Labelled(backup, "none") \subseteq Node
    BY DEF Labelled, Node
  <2>2. ASSUME NEW x \in Labelled(backup, "none")
        PROVE  /\ label'[x] = "true"  => x \in positive'
               /\ label'[x] = "false" => x \in negative'
    <3>1. /\ label[x] = "true"  => x \in positive
          /\ label[x] = "false" => x \in negative
      BY <1>t, <1>p DEF ArgumentsInv, Running, Labelled
    <3>2. QED
      BY <1>p, <1>2, <2>1, <3>1
  <2>3. Labelled(backup, "none")' = Labelled(backup, "none")
    BY <1>p DEF Labelled
  <2>4. QED
    BY <1>t, <1>p, <1>3, <2>2, <2>3 DEF ArgumentsInv, Running
<1>5. StackInv'
  <2>1. \A x \in Node : OnStack(x)' => label'[x] = "false"
    BY <1>t, <1>p, <1>2 DEF StackInv, OnStack
  <2>2. \A d \in copies : label'[conclusion[d]] = "false" => OnStack(conclusion[d])'
    BY <1>t, <1>p, <1>2 DEF StackInv, OnStack, TypeOK
  <2>3. QED
    BY <1>t, <1>p, <2>1, <2>2 DEF StackInv
<1>6. MarkingInv' /\ FreeInv'
  BY <1>p DEF MarkingInv, FreeInv, Answered
<1>7. QED
  BY <1>4, <1>5, <1>6

(* RefuteConclusion: the only label that may be new is on a point of       *)
(* negative.                                                               *)
LEMMA RefuteComplete ==
  ASSUME CompleteInv, NEW c \in Clause, RefuteConclusion(c)
  PROVE  ArgumentsInv' /\ StackInv' /\ MarkingInv' /\ FreeInv'
<1>t. IInv /\ TypeOK /\ ArgumentsInv
  BY DEF CompleteInv, IInv
<1> DEFINE q == conclusion[c]
<1>p. /\ pc = "backup" /\ pc' = "return" /\ ok' = FALSE
      /\ label[q] = "false" \/ q \in negative
      /\ UNCHANGED <<premises, conclusion, positive, negative, backup, copies>>
  BY DEF RefuteConclusion, AtClause, problem, inout, scratch
<1>1. \A x \in Node : label'[x] = label[x] \/ (x = q /\ label[q] = "none" /\ label'[x] = "false")
  BY <1>t DEF RefuteConclusion, TypeOK, SetClassification
<1>2. \A x \in Labelled(backup, "none") : /\ label'[x] = "true"  => x \in positive
                                          /\ label'[x] = "false" => x \in negative
  <2> SUFFICES ASSUME NEW x \in Labelled(backup, "none")
               PROVE  /\ label'[x] = "true"  => x \in positive
                      /\ label'[x] = "false" => x \in negative
    OBVIOUS
  <2>1. x \in Node
    BY DEF Labelled, Node
  <2>2. /\ label[x] = "true"  => x \in positive
        /\ label[x] = "false" => x \in negative
    BY <1>t, <1>p DEF ArgumentsInv, Running, Labelled
  <2>3. QED
    BY <1>p, <1>1, <2>1, <2>2
<1>3. ArgumentsInv'
  <2>1. Labelled(backup, "none")' = Labelled(backup, "none")
    BY <1>p DEF Labelled
  <2>2. QED
    BY <1>t, <1>p, <1>2, <2>1 DEF ArgumentsInv, Running
<1>4. StackInv' /\ MarkingInv' /\ FreeInv'
  BY <1>p DEF StackInv, MarkingInv, FreeInv
<1>5. QED
  BY <1>3, <1>4

(* KeepClause: the labels leave the constraint open, hence so did those    *)
(* before the call; a conclusion that is false goes on the stack.          *)
LEMMA KeepComplete ==
  ASSUME CompleteInv, NEW c \in Clause, KeepClause(c)
  PROVE  ArgumentsInv' /\ StackInv' /\ MarkingInv' /\ FreeInv'
<1>t. IInv /\ TypeOK /\ LabelsInv /\ ArgumentsInv /\ StackInv
  BY DEF CompleteInv, IInv
<1> DEFINE S == IF label[conclusion[c]] = "false" THEN {conclusion[c]} ELSE {}
<1>p. /\ pc = "backup" /\ ~ TrivialBy(c) /\ copies' = copies \cup {c}
      /\ worklist' = Push(worklist, S)
      /\ UNCHANGED <<premises, conclusion, label, positive, negative, ok, pc, backup,
                     satisfied, list, stale, marking, cur, pending, args>>
  BY DEF KeepClause, AtClause, problem, inout
<1>1. S \in SUBSET Node /\ worklist \in Seq(SUBSET Node)
  BY <1>t DEF TypeOK
<1>2. \A x : Holds(worklist', x) <=> Holds(worklist, x) \/ x \in S
  BY <1>1, <1>p, PushExact
<1>3. ArgumentsInv'
  <2>1. /\ label[conclusion[c]] # "true"
        /\ \A i \in DOMAIN premises[c] : label[premises[c][i]] # "false"
    BY <1>p DEF TrivialBy
  <2>2. /\ conclusion[c] \in Point => backup[conclusion[c]] # "true"
        /\ \A i \in DOMAIN premises[c] : backup[premises[c][i]] # "false"
    BY <2>1, <1>t, <1>p DEF LabelsInv, Running, TypeOK
  <2>3. Labelled(backup, "none")' = Labelled(backup, "none")
    BY <1>p DEF Labelled
  <2>4. QED
    BY <1>t, <1>p, <2>2, <2>3 DEF ArgumentsInv, Running
<1>4. StackInv'
  <2>1. \A x \in Node : OnStack(x)' => label[x] = "false"
    BY <1>t, <1>p, <1>2 DEF StackInv, OnStack
  <2>2. \A d \in copies' : label[conclusion[d]] = "false" => OnStack(conclusion[d])'
    BY <1>t, <1>p, <1>2 DEF StackInv, OnStack
  <2>3. QED
    BY <1>t, <1>p, <2>1, <2>2 DEF StackInv
<1>5. MarkingInv' /\ FreeInv'
  BY <1>p DEF MarkingInv, FreeInv, Answered
<1>6. QED
  BY <1>3, <1>4, <1>5

(* FillWorklist: false conclusions were stacked by keep_backup or are      *)
(* stacked with negative; positive comes on top of both.                   *)
LEMMA FillComplete ==
  ASSUME CompleteInv, FillWorklist
  PROVE  ArgumentsInv' /\ StackInv' /\ MarkingInv' /\ FreeInv'
<1>t. IInv /\ TypeOK /\ LabelsInv /\ ArgumentsInv /\ StackInv
  BY DEF CompleteInv, IInv
<1>p. /\ pc = "backup" /\ pc' = "pop"
      /\ UNCHANGED <<premises, conclusion, positive, negative, ok, backup, next, copies,
                     left, satisfied, stale, cur, pending, args>>
  BY DEF FillWorklist, problem, inout
<1>q. /\ positive \subseteq Point /\ negative \subseteq Point
      /\ positive \cap negative = {}
      /\ \A x \in positive : label[x] # "false"
      /\ \A x \in negative : label[x] = "none"
      /\ label[FalseDp] = "false"
  BY <1>p, <1>t DEF LabelsInv, TypeOK, Running
<1>1. /\ label' \in [Node -> Label]
      /\ \A x \in Node : label[x] # "none" => label'[x] = label[x]
      /\ \A x \in Node : x \notin positive \cup negative => label'[x] = label[x]
      /\ \A x \in positive : label'[x] = "true"
      /\ \A x \in negative : label'[x] = "false"
  <2> DEFINE l1 == SetClassification(label, negative, "false")
  <2>1. /\ l1 \in [Node -> Label]
        /\ \A x \in Node : l1[x] = IF x \in negative /\ label[x] = "none"
                                  THEN "false" ELSE label[x]
    BY <1>t DEF TypeOK, SetClassification, Label
  <2> HIDE DEF l1
  <2>2. label' = SetClassification(l1, positive, "true")
    BY DEF FillWorklist, l1
  <2>3. /\ label' \in [Node -> Label]
        /\ \A x \in Node : label'[x] = IF x \in positive /\ l1[x] = "none"
                                      THEN "true" ELSE l1[x]
    BY <2>1, <2>2 DEF SetClassification, Label
  <2>4. QED
    BY <1>t, <1>q, <2>1, <2>3 DEF TypeOK, Node, Label
<1> DEFINE S == {x \in {FalseDp} : \E c \in Clause : conclusion[c] = x}
           w1 == Push(worklist, S)
           w2 == Push(w1, negative)
<1>2. /\ S \in SUBSET Node /\ negative \in SUBSET Node /\ positive \in SUBSET Node
      /\ worklist \in Seq(SUBSET Node)
      /\ \A x \in S : label'[x] = "false"
      /\ \A x \in Node : Holds(worklist, x) => label'[x] = "false"
  <2>1. \A x \in Node : Holds(worklist, x) => label[x] = "false"
    BY <1>p, <1>t DEF StackInv, OnStack
  <2>2. FalseDp \in Node
    BY DEF Node
  <2>3. QED
    BY <1>q, <1>t, <1>1, <2>1, <2>2 DEF Node, TypeOK
<1> HIDE DEF S
<1>3. w1 \in Seq(SUBSET Node) /\ \A x : Holds(w1, x) <=> Holds(worklist, x) \/ x \in S
  BY <1>2, PushExact
<1> HIDE DEF w1
<1>4. w2 \in Seq(SUBSET Node) /\ \A x : Holds(w2, x) <=> Holds(w1, x) \/ x \in negative
  BY <1>2, <1>3, PushExact
<1> HIDE DEF w2
<1>5. worklist' = Push(w2, positive)
  BY DEF FillWorklist, S, w1, w2
<1>6. \A x : Holds(worklist', x) <=> Holds(w2, x) \/ x \in positive
  BY <1>2, <1>4, <1>5, PushExact
<1>7. \A x \in Node : Holds(w2, x) => label'[x] = "false"
  BY <1>1, <1>2, <1>3, <1>4
<1>8. ArgumentsInv'
  <2>1. ASSUME NEW x \in Labelled(backup, "none")
        PROVE  /\ label'[x] = "true"  => x \in positive
               /\ label'[x] = "false" => x \in negative
    <3>1. x \in Node
      BY DEF Labelled, Node
    <3>2. /\ label[x] = "true"  => x \in positive
          /\ label[x] = "false" => x \in negative
      BY <1>t, <1>p DEF ArgumentsInv, Running
    <3>3. QED
      BY <1>1, <3>1, <3>2
  <2>2. Labelled(backup, "none")' = Labelled(backup, "none")
    BY <1>p DEF Labelled
  <2>3. QED
    BY <1>t, <1>p, <2>1, <2>2 DEF ArgumentsInv, Running
<1>9. StackInv'
  <2>1. TrueOnTop(w2, label')
    BY <1>4, <1>7, NoTrueOnTop
  <2>2. TrueOnTop(worklist', label')
    BY <1>1, <1>2, <1>4, <1>5, <2>1, PushOnTop
  <2>3. \A x \in Node : OnStack(x)' => label'[x] # "none"
    BY <1>1, <1>6, <1>7 DEF OnStack
  <2>4. \A c \in copies : c \in list'[conclusion[c]]
    BY <1>t DEF FillWorklist, TypeOK
  <2>5. stale
    BY <1>t, <1>p DEF StackInv
  <2>6. QED
    BY <1>p, <2>2, <2>3, <2>4, <2>5 DEF StackInv
<1>10. MarkingInv'
  <2>1. stale
    BY <1>t, <1>p DEF StackInv
  <2>2. ASSUME NEW c \in copies, label'[conclusion[c]] = "false"
        PROVE  Holds(worklist', conclusion[c])
    <3>1. conclusion[c] \in Node
      BY <1>t DEF TypeOK
    <3>2. CASE label[conclusion[c]] = "false"
      <4>1. Holds(worklist, conclusion[c])
        BY <1>t, <1>p, <3>2 DEF StackInv, OnStack
      <4>2. QED
        BY <4>1, <1>3, <1>4, <1>6
    <3>3. CASE label[conclusion[c]] # "false"
      BY <3>1, <3>3, <2>2, <1>1, <1>4, <1>6
    <3>4. QED
      BY <3>2, <3>3
  <2>3. QED
    BY <1>p, <2>1, <2>2 DEF MarkingInv, OnStack
<1>11. FreeInv'
  BY <1>p DEF FreeInv, Answered
<1>12. QED
  BY <1>8, <1>9, <1>10, <1>11

-----------------------------------------------------------------------------
(* verify_constraints_satisfiability *)

(* Pop: a false node comes off the stack only when no true one is left,    *)
(* and its constraints become pending.                                     *)
LEMMA PopComplete ==
  ASSUME CompleteInv, NEW x \in Node, Pop(x)
  PROVE  ArgumentsInv' /\ StackInv' /\ MarkingInv' /\ FreeInv'
<1>t. IInv /\ TypeOK /\ ArgumentsInv /\ StackInv /\ MarkingInv
  BY DEF CompleteInv, IInv
<1>p. /\ pc = "pop" /\ pc' = "propagate" /\ cur' = x
      /\ worklist # <<>> /\ x \in worklist[Len(worklist)]
      /\ worklist' = PopFrom(worklist, x)
      /\ pending' = list[x] \ satisfied
      /\ UNCHANGED <<premises, conclusion, label, positive, negative, ok, backup, next,
                     copies, left, satisfied, list, stale, marking, args>>
  BY DEF Pop, problem, inout, scratch
<1>w. worklist \in Seq(SUBSET Node) /\ TrueOnTop(worklist, label)
  BY <1>t, <1>p DEF TypeOK, StackInv
<1>1. \A y : Holds(worklist, y) /\ y # x => Holds(worklist', y)
  BY <1>p, <1>w, PopProp
<1>2. (\A y : Holds(worklist', y) => Holds(worklist, y)) /\ TrueOnTop(worklist', label)
  BY <1>p, <1>w, PopOnTop
<1>3. label[x] # "true" => \A y : Holds(worklist, y) => label[y] # "true"
  BY <1>p, <1>w, TopNotTrue
<1>4. Holds(worklist, x)
  BY <1>p, <1>w DEF Holds
<1>5. ArgumentsInv'
  BY <1>t, <1>p, ArgumentsFrame DEF Running
<1>6. StackInv'
  <2>1. \A y \in Node : Holds(worklist', y) => label[y] # "none"
    BY <1>t, <1>p, <1>2 DEF StackInv, OnStack
  <2>2. ~ stale => \A y \in Node : Holds(worklist', y) => label[y] # "true"
    BY <1>t, <1>p, <1>2 DEF StackInv, OnStack
  <2>3. label[x] = "false" => \A y \in Node : Holds(worklist', y) => label[y] # "true"
    BY <1>2, <1>3
  <2>4. \A c \in copies : c \in list[conclusion[c]]
    BY <1>t, <1>p DEF StackInv
  <2>5. QED
    BY <1>p, <1>2, <2>1, <2>2, <2>3, <2>4 DEF StackInv, OnStack
<1>7. MarkingInv'
  <2>1. ComputeCurrentMarking' = ComputeCurrentMarking
    BY <1>p DEF ComputeCurrentMarking, PointsAt
  <2>2. ~ stale => /\ \A y \in Node : ComputeCurrentMarking[y] \subseteq marking[y]
                   /\ label[x] # "true"
    BY <1>t, <1>p, <1>4 DEF MarkingInv, StackInv, OnStack
  <2>3. ASSUME NEW c \in copies \ satisfied, label[conclusion[c]] = "false"
        PROVE  \/ Holds(worklist', conclusion[c])
               \/ x = conclusion[c] /\ c \in pending'
               \/ ~ stale /\ \A m \in marking[conclusion[c]] : label[m] = "false"
    <3>1. \/ Holds(worklist, conclusion[c])
          \/ ~ stale /\ \A m \in marking[conclusion[c]] : label[m] = "false"
      BY <1>t, <1>p, <2>3 DEF MarkingInv, OnStack
    <3>2. c \in list[conclusion[c]]
      BY <1>t, <1>p DEF StackInv
    <3>3. QED
      BY <1>1, <1>p, <3>1, <3>2
  <2>4. QED
    BY <1>p, <2>1, <2>2, <2>3 DEF MarkingInv, OnStack
<1>8. FreeInv'
  BY <1>p DEF FreeInv, Answered
<1>9. QED
  BY <1>5, <1>6, <1>7, <1>8

(* TrueSatisfies, FalseSatisfies: one constraint less. *)
LEMMA SatisfiesComplete ==
  ASSUME CompleteInv, NEW c \in Clause, TrueSatisfies(c) \/ FalseSatisfies(c)
  PROVE  ArgumentsInv' /\ StackInv' /\ MarkingInv' /\ FreeInv'
<1>t. IInv /\ TypeOK /\ ArgumentsInv /\ StackInv /\ MarkingInv
  BY DEF CompleteInv, IInv
<1>p. /\ pc = "propagate" /\ c \in pending \ satisfied
      /\ satisfied' = satisfied \cup {c} /\ pending' = pending \ {c}
      /\ UNCHANGED <<premises, conclusion, label, positive, negative, ok, pc, backup, next,
                     copies, left, list, worklist, stale, marking, cur, args>>
  BY DEF TrueSatisfies, FalseSatisfies, Visit, Continue, problem, inout
<1>1. ArgumentsInv'
  BY <1>t, <1>p, ArgumentsFrame DEF Running
<1>2. StackInv'
  BY <1>t, <1>p DEF StackInv, OnStack
<1>3. MarkingInv'
  <2>1. \A x \in Node : ComputeCurrentMarking'[x] \subseteq ComputeCurrentMarking[x]
    BY <1>p, MarksShrink
  <2>2. ~ stale => /\ \A x \in Node : ComputeCurrentMarking'[x] \subseteq marking[x]
                   /\ label[cur] # "true"
    BY <1>t, <1>p, <2>1 DEF MarkingInv
  <2>3. \A d \in copies \ satisfied' : label[conclusion[d]] = "false" =>
           \/ OnStack(conclusion[d])
           \/ cur = conclusion[d] /\ d \in pending'
           \/ ~ stale /\ \A m \in marking[conclusion[d]] : label[m] = "false"
    BY <1>t, <1>p DEF MarkingInv
  <2>4. QED
    BY <1>p, <2>2, <2>3 DEF MarkingInv, OnStack
<1>4. FreeInv'
  BY <1>p DEF FreeInv, Answered
<1>5. QED
  BY <1>1, <1>2, <1>3, <1>4

(* TrueShortens: a true node is propagated before any marking is computed. *)
LEMMA ShortensComplete ==
  ASSUME CompleteInv, NEW c \in Clause, TrueShortens(c)
  PROVE  ArgumentsInv' /\ StackInv' /\ MarkingInv' /\ FreeInv'
<1>t. IInv /\ TypeOK /\ ArgumentsInv /\ StackInv /\ MarkingInv
  BY DEF CompleteInv, IInv
<1>p. /\ pc = "propagate" /\ label[cur] = "true" /\ conclusion[c] # cur
      /\ pending' = pending \ {c}
      /\ UNCHANGED <<premises, conclusion, label, positive, negative, ok, pc, backup, next,
                     copies, satisfied, list, worklist, stale, marking, cur, args>>
  BY DEF TrueShortens, Visit, Continue, problem, inout
<1>1. stale
  BY <1>t, <1>p DEF MarkingInv
<1>2. ArgumentsInv'
  BY <1>t, <1>p, ArgumentsFrame DEF Running
<1>3. StackInv'
  BY <1>t, <1>p DEF StackInv, OnStack
<1>4. MarkingInv'
  BY <1>t, <1>p, <1>1 DEF MarkingInv, OnStack
<1>5. FreeInv'
  BY <1>p DEF FreeInv, Answered
<1>6. QED
  BY <1>2, <1>3, <1>4, <1>5

(* TrueForces: the conclusion of a constraint that was kept was not true   *)
(* before the call, so it belongs in positive; it goes on top.             *)
LEMMA TrueForcesComplete ==
  ASSUME CompleteInv, NEW c \in Clause, TrueForces(c)
  PROVE  ArgumentsInv' /\ StackInv' /\ MarkingInv' /\ FreeInv'
<1>t. IInv /\ TypeOK /\ LabelsInv /\ ArgumentsInv /\ StackInv /\ MarkingInv
  BY DEF CompleteInv, IInv
<1> DEFINE q == conclusion[c]
<1>p. /\ pc = "propagate" /\ c \in pending \ satisfied
      /\ pending' = pending \ {c} /\ label[cur] = "true"
      /\ UNCHANGED <<premises, conclusion, negative, backup, next, copies, list,
                     stale, marking, cur, args>>
  BY DEF TrueForces, Visit, problem
<1>1. CASE label[q] = "false"
  <2>1. pc' = "return" /\ ok' = FALSE /\ UNCHANGED <<label, positive, satisfied, worklist>>
    BY <1>1 DEF TrueForces, Abort
  <2>2. ArgumentsInv'
    BY <1>t, <1>p, <2>1, ArgumentsFrame DEF Running
  <2>3. StackInv' /\ MarkingInv' /\ FreeInv'
    BY <2>1 DEF StackInv, MarkingInv, FreeInv
  <2>4. QED
    BY <2>2, <2>3
<1>2. CASE label[q] # "false"
  <2>p. /\ positive' = positive \cup {q} /\ satisfied' = satisfied \cup {c}
        /\ worklist' = Push(worklist, {q})
        /\ label' = SetClassification(label, {q}, "true")
        /\ pc' = pc /\ ok' = ok
    BY <1>2 DEF TrueForces, Continue
  <2>1. q \in Point /\ q \in Node /\ c \in copies
    BY <1>2, <1>p, <1>t DEF LabelsInv, Running, TypeOK, Node
  <2>2. /\ \A x \in Node : label[x] # "none" \/ x # q => label'[x] = label[x]
        /\ label'[q] = "true"
    BY <1>2, <1>t, <2>p, <2>1 DEF TypeOK, SetClassification, Label
  <2>3. q \in Labelled(backup, "none")
    <3>1. backup[q] # "true" /\ backup[q] \in Label
      BY <1>t, <1>p, <2>1 DEF ArgumentsInv, Running, TypeOK
    <3>2. backup[q] # "false"
      BY <1>2, <1>t, <1>p, <2>1 DEF LabelsInv, Running
    <3>3. QED
      BY <2>1, <3>1, <3>2 DEF Labelled, Label
  <2>4. ArgumentsInv'
    <3>1. ASSUME NEW x \in Labelled(backup, "none")
          PROVE  /\ label'[x] = "true"  => x \in positive'
                 /\ label'[x] = "false" => x \in negative
      <4>1. x \in Node
        BY DEF Labelled, Node
      <4>2. /\ label[x] = "true"  => x \in positive
            /\ label[x] = "false" => x \in negative
        BY <1>t, <1>p DEF ArgumentsInv, Running
      <4>3. QED
        BY <2>p, <2>2, <4>1, <4>2
    <3>2. Labelled(backup, "none")' = Labelled(backup, "none")
      BY <1>p DEF Labelled
    <3>3. QED
      BY <1>t, <1>p, <2>p, <2>3, <3>1, <3>2 DEF ArgumentsInv, Running
  <2>5. worklist \in Seq(SUBSET Node) /\ {q} \in SUBSET Node
    BY <1>t, <2>1 DEF TypeOK
  <2>6. \A x : Holds(worklist', x) <=> Holds(worklist, x) \/ x = q
    <3> HIDE DEF q
    <3>1. \A x : Holds(Push(worklist, {q}), x) <=> Holds(worklist, x) \/ x \in {q}
      BY <2>5, PushExact, Zenon
    <3>2. QED
      BY <2>p, <3>1
  <2>7. \A x \in Node : Holds(worklist, x) => label[x] # "none" /\ label'[x] = label[x]
    BY <1>t, <1>p, <2>2 DEF StackInv, OnStack
  <2>8. TrueOnTop(worklist', label')
    <3>1. TrueOnTop(worklist, label)
      BY <1>t, <1>p DEF StackInv
    <3>2. TrueOnTop(worklist, label')
      BY <2>5, <2>7, <3>1, RelabelOnTop
    <3>3. QED
      BY <2>p, <2>2, <2>5, <3>2, PushOnTop
  <2>9. stale /\ cur \in Node /\ label'[cur] = "true"
    BY <1>t, <1>p, <2>2 DEF MarkingInv, TypeOK
  <2>10. StackInv'
    <3>1. \A x \in Node : Holds(worklist', x) => label'[x] # "none"
      BY <2>2, <2>6, <2>7
    <3>2. \A d \in copies : d \in list[conclusion[d]]
      BY <1>t, <1>p DEF StackInv
    <3>3. QED
      BY <1>p, <2>p, <2>8, <2>9, <3>1, <3>2 DEF StackInv, OnStack
  <2>11. MarkingInv'
    <3>1. ASSUME NEW d \in copies \ satisfied', label'[conclusion[d]] = "false"
          PROVE  Holds(worklist', conclusion[d])
      <4>1. conclusion[d] \in Node /\ d \in copies \ satisfied
        BY <1>t, <2>p DEF TypeOK
      <4>2. label[conclusion[d]] = "false"
        BY <2>2, <3>1, <4>1
      <4>3. conclusion[d] # cur
        BY <1>p, <4>2
      <4>4. Holds(worklist, conclusion[d])
        BY <1>t, <1>p, <2>9, <4>1, <4>2, <4>3 DEF MarkingInv, OnStack
      <4>5. QED
        BY <2>6, <4>4
    <3>2. QED
      BY <1>p, <2>9, <3>1 DEF MarkingInv, OnStack
  <2>12. FreeInv'
    BY <1>p, <2>p DEF FreeInv, Answered
  <2>13. QED
    BY <2>4, <2>10, <2>11, <2>12
<1>3. QED
  BY <1>1, <1>2

(* Classifying the points of S as false, on both ways of                   *)
(* propagate_false_classification that continue.  c, the constraint being  *)
(* visited, is satisfied or everything that marks cur is false.            *)
LEMMA FalseComplete ==
  ASSUME CompleteInv, NEW c \in Clause, NEW S \in SUBSET Labelled(backup, "none"),
         pc = "propagate", label[cur] = "false", c \in pending \ satisfied,
         conclusion[c] = cur, pending' = pending \ {c},
         \A x \in S : label[x] # "true",
         label' = SetClassification(label, S, "false"),
         worklist' = Push(worklist, S),
         negative' = negative \cup S,
         satisfied \subseteq satisfied',
         ~ stale' => \A x \in Node : ComputeCurrentMarking[x] \subseteq marking'[x],
         ~ stale => ~ stale' /\ marking' = marking,
         \/ c \in satisfied'
         \/ ~ stale' /\ \A m \in marking'[cur] : label'[m] = "false",
         UNCHANGED <<premises, conclusion, positive, ok, pc, backup, next, copies, left,
                     list, cur, args>>
  PROVE  ArgumentsInv' /\ StackInv' /\ MarkingInv' /\ FreeInv'
<1>t. IInv /\ TypeOK /\ LabelsInv /\ ArgumentsInv /\ StackInv /\ MarkingInv
  BY DEF CompleteInv, IInv
<1>1. S \subseteq Point /\ S \in SUBSET Node /\ worklist \in Seq(SUBSET Node)
      /\ marking \in [Node -> SUBSET Point] /\ cur \in Node
  BY <1>t DEF TypeOK, Node, Labelled
<1>2. /\ \A x \in Node : label[x] # "none" \/ x \notin S => label'[x] = label[x]
      /\ \A x \in S : label'[x] = "false"
  BY <1>t, <1>1 DEF TypeOK, SetClassification, Label
<1>3. \A x : Holds(worklist', x) <=> Holds(worklist, x) \/ x \in S
  BY <1>1, PushExact
<1>4. \A x \in Node : Holds(worklist, x) => label'[x] = label[x] /\ label[x] = "false"
  <2>1. \A x \in Node : Holds(worklist, x) => label[x] # "none" /\ label[x] # "true"
    BY <1>t DEF StackInv, OnStack
  <2>2. QED
    BY <1>t, <1>2, <2>1 DEF TypeOK, Label
<1>5. ArgumentsInv'
  <2>1. ASSUME NEW x \in Labelled(backup, "none")
        PROVE  /\ label'[x] = "true"  => x \in positive
               /\ label'[x] = "false" => x \in negative'
    <3>1. x \in Node
      BY DEF Labelled, Node
    <3>2. /\ label[x] = "true"  => x \in positive
          /\ label[x] = "false" => x \in negative
      BY <1>t DEF ArgumentsInv, Running
    <3>3. QED
      BY <1>2, <3>1, <3>2
  <2>2. Labelled(backup, "none")' = Labelled(backup, "none")
    BY DEF Labelled
  <2>3. QED
    BY <1>t, <2>1, <2>2 DEF ArgumentsInv, Running
<1>6. StackInv'
  <2>1. \A x \in Node : Holds(worklist', x) => label'[x] = "false"
    BY <1>2, <1>3, <1>4
  <2>2. worklist' \in Seq(SUBSET Node)
    BY <1>1, PushExact
  <2>3. TrueOnTop(worklist', label')
    BY <2>1, <2>2, NoTrueOnTop
  <2>4. \A d \in copies : d \in list[conclusion[d]]
    BY <1>t DEF StackInv
  <2>5. QED
    BY <2>1, <2>3, <2>4 DEF StackInv, OnStack
<1>7. MarkingInv'
  <2>1. \A x \in Node : ComputeCurrentMarking'[x] \subseteq ComputeCurrentMarking[x]
    BY MarksShrink
  <2>2. ~ stale' => \A x \in Node : ComputeCurrentMarking'[x] \subseteq marking'[x]
    BY <2>1
  <2>3. label'[cur] = "false"
    BY <1>1, <1>2
  <2>4. ASSUME NEW d \in copies \ satisfied', label'[conclusion[d]] = "false"
        PROVE  \/ Holds(worklist', conclusion[d])
               \/ cur = conclusion[d] /\ d \in pending'
               \/ ~ stale' /\ \A m \in marking'[conclusion[d]] : label'[m] = "false"
    <3>1. d \in copies \ satisfied /\ conclusion[d] \in Node
      BY <1>t DEF TypeOK
    <3>2. CASE d = c
      BY <2>4, <3>2
    <3>3. CASE d # c /\ label[conclusion[d]] = "false"
      <4>1. \/ Holds(worklist, conclusion[d])
            \/ cur = conclusion[d] /\ d \in pending
            \/ ~ stale /\ \A m \in marking[conclusion[d]] : label[m] = "false"
        BY <1>t, <3>1, <3>3 DEF MarkingInv, OnStack
      <4>2. ASSUME ~ stale, \A m \in marking[conclusion[d]] : label[m] = "false"
            PROVE  ~ stale' /\ \A m \in marking'[conclusion[d]] : label'[m] = "false"
        <5>1. marking[conclusion[d]] \subseteq Node
          BY <1>1, <3>1 DEF Node
        <5>2. QED
          BY <4>2, <5>1, <1>2
      <4>3. QED
        BY <1>3, <3>3, <4>1, <4>2
    <3>4. CASE label[conclusion[d]] # "false"
      <4>1. conclusion[d] \in S
        BY <1>2, <2>4, <3>1, <3>4
      <4>2. QED
        BY <1>3, <4>1
    <3>5. QED
      BY <3>2, <3>3, <3>4
  <2>5. QED
    BY <2>2, <2>3, <2>4 DEF MarkingInv, OnStack
<1>8. FreeInv'
  BY DEF FreeInv, Answered
<1>9. QED
  BY <1>5, <1>6, <1>7, <1>8

(* FalseForces: the premise of a constraint that was kept was not false    *)
(* before the call, so it belongs in negative.                             *)
LEMMA FalseForcesComplete ==
  ASSUME CompleteInv, NEW c \in Clause, NEW j \in DOMAIN premises[c], FalseForces(c, j)
  PROVE  ArgumentsInv' /\ StackInv' /\ MarkingInv' /\ FreeInv'
<1>t. IInv /\ TypeOK /\ LabelsInv /\ ArgumentsInv /\ MarkingInv
  BY DEF CompleteInv, IInv
<1> DEFINE q == premises[c][j]
<1>p. /\ pc = "propagate" /\ c \in pending \ satisfied
      /\ pending' = pending \ {c}
      /\ label[cur] = "false" /\ conclusion[c] = cur
      /\ UNCHANGED <<premises, conclusion, positive, backup, next, copies, left, list,
                     stale, marking, cur, args>>
  BY DEF FalseForces, Visit, problem
<1>1. CASE label[q] = "true"
  <2>1. pc' = "return" /\ ok' = FALSE /\ UNCHANGED <<label, negative, satisfied, worklist>>
    BY <1>1 DEF FalseForces, Abort
  <2>2. ArgumentsInv'
    BY <1>t, <1>p, <2>1, ArgumentsFrame DEF Running
  <2>3. StackInv' /\ MarkingInv' /\ FreeInv'
    BY <2>1 DEF StackInv, MarkingInv, FreeInv
  <2>4. QED
    BY <2>2, <2>3
<1>2. CASE label[q] # "true"
  <2>1. /\ label' = SetClassification(label, {q}, "false")
        /\ worklist' = Push(worklist, {q})
        /\ negative' = negative \cup {q}
        /\ satisfied' = satisfied \cup {c}
        /\ pc' = pc /\ ok' = ok
    BY <1>2 DEF FalseForces, Continue
  <2>2. q \in Labelled(backup, "none")
    <3>1. q \in Point /\ c \in copies
      BY <1>p, <1>t DEF TypeOK
    <3>2. backup[q] # "false" /\ backup[q] \in Label
      BY <1>t, <1>p, <3>1 DEF ArgumentsInv, Running, TypeOK
    <3>3. backup[q] # "true"
      BY <1>2, <1>t, <1>p, <3>1 DEF LabelsInv, Running
    <3>4. QED
      BY <3>1, <3>2, <3>3 DEF Labelled, Label
  <2>3. PICK S \in SUBSET Labelled(backup, "none") : S = {q}
    BY <2>2
  <2>4. ~ stale => \A x \in Node : ComputeCurrentMarking[x] \subseteq marking[x]
    BY <1>t, <1>p DEF MarkingInv
  <2>5. /\ label' = SetClassification(label, S, "false")
        /\ worklist' = Push(worklist, S)
        /\ negative' = negative \cup S
        /\ \A x \in S : label[x] # "true"
        /\ satisfied \subseteq satisfied' /\ c \in satisfied'
    BY <1>2, <2>1, <2>3
  <2> HIDE DEF q
  <2>6. /\ ~ stale' => \A x \in Node : ComputeCurrentMarking[x] \subseteq marking'[x]
        /\ ~ stale => ~ stale' /\ marking' = marking
    BY <1>p, <2>4
  <2>7. QED
    BY <1>p, <2>1, <2>5, <2>6, FalseComplete
<1>3. QED
  BY <1>1, <1>2

(* FalseMarks: everything that marks the false conclusion is false         *)
(* afterwards, by markings that are those of the constraints now left.     *)
LEMMA FalseMarksComplete ==
  ASSUME CompleteInv, NEW c \in Clause, FalseMarks(c)
  PROVE  ArgumentsInv' /\ StackInv' /\ MarkingInv' /\ FreeInv'
<1>t. IInv /\ TypeOK /\ LabelsInv /\ ArgumentsInv /\ MarkingInv
  BY DEF CompleteInv, IInv
<1>p. /\ pc = "propagate" /\ c \in pending \ satisfied
      /\ pending' = pending \ {c}
      /\ label[cur] = "false" /\ conclusion[c] = cur /\ ~ stale'
      /\ marking' = IF stale THEN ComputeCurrentMarking ELSE marking
      /\ UNCHANGED <<premises, conclusion, positive, backup, next, copies, left, list,
                     satisfied, cur, args>>
  BY DEF FalseMarks, Visit, problem
<1> DEFINE marks == {m \in marking'[cur] : m # cur /\ label[m] # "false"}
           free  == {m \in marks : label[m] = "none"}
<1>1. PICK S \in SUBSET free :
         /\ IF marks = free THEN S = free /\ Continue ELSE Abort
         /\ label' = SetClassification(label, S, "false")
         /\ worklist' = Push(worklist, S)
         /\ negative' = negative \cup S
  BY DEF FalseMarks
<1>2. marking' \in [Node -> SUBSET Point] /\ cur \in Node
  <2>1. ComputeCurrentMarking \in [Node -> SUBSET Point]
    BY DEF ComputeCurrentMarking, LeastMarking
  <2>2. marking \in [Node -> SUBSET Point] /\ cur \in Node
    BY <1>t DEF TypeOK
  <2>3. QED
    BY <1>p, <2>1, <2>2
<1>3. free \subseteq Labelled(backup, "none")
  <2>1. ASSUME NEW m \in free
        PROVE  m \in Point /\ backup[m] = "none"
    <3>1. m \in Point /\ label[m] = "none"
      BY <1>2
    <3>2. QED
      BY <1>t, <1>p, <3>1 DEF LabelsInv, Running
  <2>2. QED
    BY <2>1 DEF Labelled
<1>4. CASE marks = free
  <2>1. S = free /\ pc' = pc /\ ok' = ok
    BY <1>1, <1>4 DEF Continue
  <2>2. S \in SUBSET Labelled(backup, "none") /\ \A x \in S : label[x] # "true"
    BY <1>3, <2>1
  <2>3. \A m \in marking'[cur] : label'[m] = "false"
    <3> SUFFICES ASSUME NEW m \in marking'[cur] PROVE label'[m] = "false"
      OBVIOUS
    <3>1. m \in Node
      BY <1>2 DEF Node
    <3>2. label[m] = "false" \/ (m \in S /\ label[m] = "none")
      BY <1>4, <1>p, <2>1
    <3>3. QED
      BY <1>1, <3>1, <3>2 DEF SetClassification
  <2>4. ~ stale => \A x \in Node : ComputeCurrentMarking[x] \subseteq marking[x]
    BY <1>t, <1>p DEF MarkingInv
  <2>5. \A x \in Node : ComputeCurrentMarking[x] \subseteq marking'[x]
    BY <1>p, <2>4
  <2> HIDE DEF marks, free
  <2>6. QED
    BY <1>1, <1>p, <2>1, <2>2, <2>3, <2>5, FalseComplete
<1>5. CASE marks # free
  <2>1. pc' = "return" /\ ok' = FALSE
    BY <1>1, <1>5 DEF Abort
  <2>2. S \subseteq Labelled(backup, "none")
    BY <1>3
  <2> HIDE DEF marks, free
  <2>3. \A x \in Node : label'[x] = label[x] \/ (x \in S /\ label'[x] = "false")
    BY <1>1, <1>t DEF TypeOK, SetClassification
  <2>4. ArgumentsInv'
    <3>1. ASSUME NEW x \in Labelled(backup, "none")
          PROVE  /\ label'[x] = "true"  => x \in positive
                 /\ label'[x] = "false" => x \in negative'
      <4>1. x \in Node
        BY DEF Labelled, Node
      <4>2. /\ label[x] = "true"  => x \in positive
            /\ label[x] = "false" => x \in negative
        BY <1>t, <1>p DEF ArgumentsInv, Running
      <4>3. QED
        BY <1>1, <2>3, <4>1, <4>2
    <3>2. Labelled(backup, "none")' = Labelled(backup, "none")
      BY <1>p DEF Labelled
    <3>3. QED
      BY <1>1, <1>t, <1>p, <2>2, <3>1, <3>2 DEF ArgumentsInv, Running
  <2>5. StackInv' /\ MarkingInv' /\ FreeInv'
    BY <2>1 DEF StackInv, MarkingInv, FreeInv
  <2>6. QED
    BY <2>4, <2>5
<1>6. QED
  BY <1>4, <1>5

(* NextPoint: no constraint of cur is pending any more. *)
LEMMA NextPointComplete ==
  ASSUME CompleteInv, NextPoint
  PROVE  ArgumentsInv' /\ StackInv' /\ MarkingInv' /\ FreeInv'
<1>t. IInv /\ TypeOK /\ ArgumentsInv /\ StackInv /\ MarkingInv
  BY DEF CompleteInv, IInv
<1>p. /\ pc = "propagate" /\ pc' = "pop" /\ pending \subseteq satisfied
      /\ UNCHANGED <<premises, conclusion, label, positive, negative, ok, backup, next,
                     copies, left, satisfied, list, stale, marking, worklist, cur, args>>
  BY DEF NextPoint, problem, inout, scratch
<1>1. ArgumentsInv'
  BY <1>t, <1>p, ArgumentsFrame DEF Running
<1>2. StackInv'
  BY <1>t, <1>p DEF StackInv, OnStack
<1>3. MarkingInv'
  <2>1. ComputeCurrentMarking' = ComputeCurrentMarking
    BY <1>p DEF ComputeCurrentMarking, PointsAt
  <2>2. QED
    BY <1>t, <1>p, <2>1 DEF MarkingInv, OnStack
<1>4. FreeInv'
  BY <1>p DEF FreeInv, Answered
<1>5. QED
  BY <1>1, <1>2, <1>3, <1>4

(* The heart of completeness.  With nothing left to propagate, an          *)
(* unclassified point x can be true: the true points together with the     *)
(* nodes that x marks and that are not false satisfy every constraint, for *)
(* a false conclusion would have made x false.                             *)
LEMMA FreePointMayBeTrue ==
  ASSUME CompleteInv, pc = "pop", worklist = <<>>, NEW x \in Point, label[x] = "none"
  PROVE  \E M \in Solutions : x \in M
<1>t. IInv /\ TypeOK /\ LabelsInv /\ ClausesInv /\ WorklistInv /\ MarkingInv
  BY DEF CompleteInv, IInv
<1> DEFINE D == {y \in Node : x \in ComputeCurrentMarking[y] /\ label[y] # "false"}
           T == Labelled(label, "true")
           M == T \cup D
<1>1. \A y : ~ OnStack(y)
  BY DEF OnStack, Holds
<1>2. D \subseteq Point /\ T \subseteq Point
  BY <1>t DEF LabelsInv, Running, Node, Labelled
<1>3. x \in D
  BY MarksItself DEF Node
<1>4. \A y \in Point : y \in M => label[y] # "false"
  BY DEF Labelled
<1>5. \A y \in Point : label[y] = "true" => y \in M
  BY DEF Labelled
<1>6. ASSUME NEW c \in copies \ satisfied, \A i \in DOMAIN premises[c] : premises[c][i] \in M
      PROVE  conclusion[c] \in D
  <2>1. c \in Clause /\ conclusion[c] \in Node /\ left[c] \subseteq DOMAIN premises[c]
        /\ \A i \in DOMAIN premises[c] : premises[c][i] \in Point
    BY <1>t DEF TypeOK
  <2>2. \A i \in left[c] : premises[c][i] \in D
    <3> SUFFICES ASSUME NEW i \in left[c] PROVE premises[c][i] \in D
      OBVIOUS
    <3>1. label[premises[c][i]] # "true"
      BY <1>t, <1>1 DEF WorklistInv
    <3>2. QED
      BY <1>6, <2>1, <3>1 DEF Labelled
  <2>3. PointsAt(c, left[c]) # {} /\ PointsAt(c, left[c]) \subseteq D
    <3>1. left[c] # {}
      BY <1>t DEF ClausesInv
    <3>2. QED
      BY <2>2, <3>1 DEF PointsAt
  <2>4. x \in ComputeCurrentMarking[conclusion[c]]
    <3>1. PointsAt(c, left[c]) \subseteq Node
          /\ \A y \in PointsAt(c, left[c]) : x \in ComputeCurrentMarking[y]
      BY <2>3
    <3>2. QED
      BY <2>1, <2>3, <3>1, MarkedClosed
  <2>5. label[conclusion[c]] # "false"
    <3> SUFFICES ASSUME label[conclusion[c]] = "false" PROVE FALSE
      OBVIOUS
    <3>1. ~ stale /\ \A m \in marking[conclusion[c]] : label[m] = "false"
      BY <1>t, <1>1 DEF MarkingInv
    <3>2. x \in marking[conclusion[c]]
      BY <1>t, <2>1, <2>4, <3>1 DEF MarkingInv
    <3>3. QED
      BY <3>1, <3>2
  <2>6. QED
    BY <2>1, <2>4, <2>5
<1> HIDE DEF D, T
<1>7. ASSUME NEW c \in Clause
      PROVE  Satisfies(M, premises[c], conclusion[c])
  <2> SUFFICES ASSUME \A i \in DOMAIN premises[c] : premises[c][i] \in M
               PROVE  conclusion[c] \in M
    BY DEF Satisfies
  <2>1. CASE TrivialBy(c)
    <3>1. \A i \in DOMAIN premises[c] : label[premises[c][i]] # "false"
      BY <1>4, <1>t DEF TypeOK
    <3>2. label[conclusion[c]] = "true" /\ conclusion[c] \in Node
      BY <2>1, <3>1, <1>t DEF TrivialBy, TypeOK
    <3>3. conclusion[c] \in Point
      BY <1>t, <3>2 DEF LabelsInv, Node
    <3>4. QED
      BY <1>5, <3>2, <3>3
  <2>2. CASE ~ TrivialBy(c)
    <3>1. c \in copies \ satisfied
      BY <2>2, <1>t DEF ClausesInv
    <3>2. QED
      BY <1>6, <3>1
  <2>3. QED
    BY <2>1, <2>2
<1>8. Labelled(backup, "true") \cup args.pos \subseteq M
  BY <1>t, <1>5 DEF TypeOK, LabelsInv, Running, Labelled
<1>9. (Labelled(backup, "false") \cup args.neg) \cap M = {}
  BY <1>t, <1>4 DEF TypeOK, LabelsInv, Running, Labelled
<1>10. M \in SUBSET Point /\ DOMAIN premises = Clause /\ x \in M
  BY <1>t, <1>2, <1>3 DEF TypeOK
<1> HIDE DEF M
<1>11. M \in Solutions
  BY <1>7, <1>8, <1>9, <1>10 DEF Solutions, Models
<1>12. QED
  BY <1>10, <1>11

(* Finish: every point still unclassified is free. *)
LEMMA FinishComplete ==
  ASSUME CompleteInv, Finish
  PROVE  ArgumentsInv' /\ StackInv' /\ MarkingInv' /\ FreeInv'
<1>t. IInv /\ TypeOK /\ ArgumentsInv
  BY DEF CompleteInv, IInv
<1>p. /\ pc = "pop" /\ worklist = <<>> /\ pc' = "return"
      /\ UNCHANGED <<premises, conclusion, label, positive, negative, ok, backup, next,
                     copies, left, satisfied, list, stale, marking, worklist, cur,
                     pending, args>>
  BY DEF Finish, problem, inout, scratch
<1>1. ArgumentsInv'
  BY <1>t, <1>p, ArgumentsFrame DEF Running
<1>2. StackInv' /\ MarkingInv'
  BY <1>p DEF StackInv, MarkingInv
<1>3. FreeInv'
  <2>1. \A x \in Point : label[x] = "none" => \E M \in Solutions : x \in M
    BY <1>p, FreePointMayBeTrue
  <2>2. \A x \in Labelled(label, "none")' : \E M \in Solutions' : x \in M
    BY <1>p, <2>1, SolutionsFrame DEF Labelled
  <2>3. QED
    BY <2>2 DEF FreeInv
<1>4. QED
  BY <1>1, <1>2, <1>3

(* RollBack: the scratch state is as in a fresh solver. *)
LEMMA RollBackComplete ==
  ASSUME CompleteInv, RollBack
  PROVE  ArgumentsInv' /\ StackInv' /\ MarkingInv' /\ FreeInv'
<1>1. pc' = "idle" /\ stale'
  BY DEF RollBack
<1>2. QED
  BY <1>1 DEF ArgumentsInv, StackInv, MarkingInv, FreeInv, Running, Answered

(* Steps that change no variable. *)
LEMMA StutterComplete ==
  ASSUME CompleteInv, UNCHANGED vars
  PROVE  ArgumentsInv' /\ StackInv' /\ MarkingInv' /\ FreeInv'
<1>p. UNCHANGED <<premises, conclusion, label, positive, negative, ok, pc, backup, next,
                  copies, left, satisfied, list, stale, marking, worklist, cur, pending, args>>
  BY DEF vars, problem, inout, scratch
<1>1. ArgumentsInv' /\ StackInv'
  BY <1>p DEF CompleteInv, ArgumentsInv, StackInv, Running, Labelled, OnStack
<1>2. ComputeCurrentMarking' = ComputeCurrentMarking
  BY <1>p DEF ComputeCurrentMarking, PointsAt
<1>3. MarkingInv'
  BY <1>p, <1>2 DEF CompleteInv, MarkingInv, OnStack
<1>4. FreeInv'
  BY <1>p, SolutionsFrame DEF CompleteInv, FreeInv, Answered, Labelled
<1>5. QED
  BY <1>1, <1>3, <1>4

-----------------------------------------------------------------------------
(* Every step preserves the strengthened invariant. *)
LEMMA NextComplete == CompleteInv /\ [Next]_vars => CompleteInv'
<1> SUFFICES ASSUME CompleteInv, [Next]_vars PROVE CompleteInv'
  OBVIOUS
<1> DEFINE Rest == ArgumentsInv /\ StackInv /\ MarkingInv /\ FreeInv
<1>0. SUFFICES Rest'
  BY NextIInv DEF CompleteInv
<1>1. CASE \E P \in SUBSET Labelled(label, "none") :
             \E N \in SUBSET (Labelled(label, "none") \ P) : Solve(P, N)
  BY <1>1, SolveComplete
<1>2. CASE KeepBackup
  BY <1>2, DropComplete, ForceComplete, RefuteComplete, KeepComplete DEF KeepBackup
<1>3. CASE FillWorklist
  BY <1>3, FillComplete
<1>4. CASE \E x \in Node : Pop(x)
  BY <1>4, PopComplete
<1>5. CASE Propagate
  <2>1. ASSUME NEW c \in Clause, TrueSatisfies(c) \/ FalseSatisfies(c)
        PROVE  Rest'
    BY <2>1, SatisfiesComplete
  <2>2. ASSUME NEW c \in Clause, TrueShortens(c) \/ TrueForces(c) \/ FalseMarks(c)
        PROVE  Rest'
    BY <2>2, ShortensComplete, TrueForcesComplete, FalseMarksComplete
  <2>3. ASSUME NEW c \in Clause, NEW i \in DOMAIN premises[c], FalseForces(c, i)
        PROVE  Rest'
    BY <2>3, FalseForcesComplete
  <2>4. QED
    BY <1>5, <2>1, <2>2, <2>3, NextPointComplete DEF Propagate
<1>6. CASE Finish \/ RollBack
  BY <1>6, FinishComplete, RollBackComplete
<1>7. CASE UNCHANGED vars
  BY <1>7, StutterComplete
<1>8. QED
  BY <1>1, <1>2, <1>3, <1>4, <1>5, <1>6, <1>7 DEF Next, Step

(* The labelled points of a successful call are exactly the forced ones:   *)
(* soundness gives one inclusion, the true points as least solution and    *)
(* the free points the other.                                              *)
LEMMA CompleteForces == CompleteInv => ForcedExactly
<1> SUFFICES ASSUME CompleteInv, pc = "return", ok
             PROVE  /\ positive = ForcedTrue(Solutions) \cap Labelled(backup, "none")
                    /\ negative = ForcedFalse(Solutions) \cap Labelled(backup, "none")
  BY DEF ForcedExactly, Answered
<1>t. TypeOK /\ SoundInv /\ AnswerInv /\ ArgumentsInv /\ FreeInv
  BY DEF CompleteInv, IInv
<1> DEFINE U == Labelled(backup, "none")
<1>1. Labelled(label, "true") \in Solutions
  BY <1>t DEF AnswerInv
<1>2. /\ positive \subseteq U /\ negative \subseteq U /\ U \subseteq Point
      /\ \A x \in U : /\ label[x] = "true"  => x \in positive
                      /\ label[x] = "false" => x \in negative
  <2>1. U \subseteq Point
    BY DEF Labelled
  <2>2. QED
    BY <1>t, <2>1 DEF ArgumentsInv, Running
<1>3. \A M \in Solutions : positive \subseteq M /\ negative \cap M = {}
  BY <1>t DEF SoundInv, Running
<1>4. ASSUME NEW x \in U, \A M \in Solutions : x \in M
      PROVE  x \in positive
  BY <1>1, <1>2, <1>4 DEF Labelled
<1>5. ASSUME NEW x \in U, \A M \in Solutions : x \notin M
      PROVE  x \in negative
  <2>1. x \in Point /\ x \in Node
    BY <1>2 DEF Node
  <2>2. label[x] # "true"
    BY <1>1, <1>5, <2>1 DEF Labelled
  <2>3. label[x] # "none"
    BY <1>t, <1>5, <2>1 DEF FreeInv, Answered, Labelled
  <2>4. label[x] = "false"
    BY <1>t, <2>1, <2>2, <2>3 DEF TypeOK, Label
  <2>5. QED
    BY <1>2, <2>4
<1> HIDE DEF U
<1>6. positive = ForcedTrue(Solutions) \cap U
  BY <1>2, <1>3, <1>4 DEF ForcedTrue
<1>7. negative = ForcedFalse(Solutions) \cap U
  BY <1>2, <1>3, <1>5 DEF ForcedFalse
<1>8. QED
  BY <1>6, <1>7 DEF U

(* The strengthened invariant holds in every reachable state of the        *)
(* solver, within and between calls of solve: the stack is ordered,        *)
(* markings are complete once computed and no false conclusion is          *)
(* forgotten.                                                              *)
THEOREM CompleteInductive == Spec => []CompleteInv
BY InitComplete, NextComplete, PTL DEF Spec

(* For any number of points and constraints, any labels, arguments and     *)
(* iteration orders: a successful solve returns in positive and negative   *)
(* exactly the points every solution makes true and false.                 *)
THEOREM ForcedCorrect == Spec => []ForcedExactly
BY CompleteInductive, CompleteForces, PTL

(* While verify_constraints_satisfiability propagates a false point, no    *)
(* true point waits on the stack.                                          *)
THEOREM PositiveBeforeNegative == Spec => []PositiveFirst
<1>1. CompleteInv => PositiveFirst
  BY DEF CompleteInv, StackInv, PositiveFirst, Node
<1>2. QED
  BY <1>1, CompleteInductive, PTL

-----------------------------------------------------------------------------
(* The refinement.  A call of solve is one Call and one Succeed or Fail of *)
(* HornSpec; every step in between leaves what the caller sees alone.      *)

(* The solutions of the abstract specification are those of the running    *)
(* call.                                                                   *)
LEMMA SolutionsAgree ==
  ASSUME CompleteInv, Running
  PROVE  /\ Promise!Solutions = Solutions
         /\ Promise!Unlabelled = Labelled(backup, "none")
<1> DEFINE bar == [x \in Point |-> IF Running THEN backup[x] ELSE label[x]]
<1>1. \A v : {x \in Point : bar[x] = v} = {x \in Point : backup[x] = v}
  OBVIOUS
<1> HIDE DEF bar
<1>2. Promise!Unlabelled = {x \in Point : bar[x] = "none"}
  BY DEF Promise!Unlabelled, Promise!Labelled, bar
<1>3. Promise!Solutions = Models(premises, conclusion,
                                 {x \in Point : bar[x] = "true"} \cup args.pos,
                                 {x \in Point : bar[x] = "false"} \cup args.neg)
  BY DEF Promise!Solutions, Promise!Models, Promise!Satisfies, Promise!Labelled, bar,
         Models, Satisfies
<1>4. QED
  BY <1>1, <1>2, <1>3 DEF Solutions, Labelled

(* Init maps to an initial state of HornSpec. *)
LEMMA InitPromise == Init => Promise!Init
<1> SUFFICES ASSUME Init PROVE Promise!Init
  OBVIOUS
<1>1. ~ Running /\ ok = TRUE /\ positive = {} /\ negative = {}
  BY DEF Init, Running
<1>2. label \in [Node -> Label]
  BY InitIInv DEF IInv, TypeOK
<1>3. QED
  BY <1>1, <1>2 DEF Promise!Init, Promise!Label, Label, Node

(* Solve maps to Call. *)
LEMMA SolvePromise ==
  ASSUME CompleteInv, NEW P \in SUBSET Labelled(label, "none"),
         NEW N \in SUBSET (Labelled(label, "none") \ P), Solve(P, N)
  PROVE  Promise!Next
<1>t. TypeOK
  BY DEF CompleteInv, IInv
<1>p. /\ ~ Running /\ Running' /\ positive' = P /\ negative' = N
      /\ (args.pos)' = P /\ (args.neg)' = N
      /\ backup' = [x \in Point |-> label[x]]
      /\ UNCHANGED <<premises, conclusion>>
  BY DEF Solve, SavedLabels, Running, problem
<1>1. Promise!Unlabelled = Labelled(label, "none")
  BY <1>p DEF Promise!Unlabelled, Promise!Labelled, Labelled
<1>2. [x \in Point |-> IF Running THEN backup[x] ELSE label[x]]'
        = [x \in Point |-> IF Running THEN backup[x] ELSE label[x]]
  BY <1>p
<1>3. Promise!Call(P, N)
  BY <1>p, <1>2 DEF Promise!Call
<1>4. QED
  BY <1>1, <1>3 DEF Promise!Next

(* RollBack maps to Succeed or Fail. *)
LEMMA RollBackPromise ==
  ASSUME CompleteInv, RollBack
  PROVE  Promise!Next
<1>t. TypeOK /\ LabelsInv /\ AnswerInv /\ ArgumentsInv
  BY DEF CompleteInv, IInv
<1>p. /\ pc = "return" /\ Running /\ ~ Running' /\ ok' = ok
      /\ label' = [x \in Node |-> IF x \in Point THEN backup[x] ELSE label[x]]
      /\ UNCHANGED <<premises, conclusion, positive, negative>>
  BY DEF RollBack, Restored, Running, problem, inout
<1>1. [x \in Point |-> IF Running THEN backup[x] ELSE label[x]]'
        = [x \in Point |-> IF Running THEN backup[x] ELSE label[x]]
  BY <1>p DEF Node
<1>2. /\ Promise!Solutions = Solutions
      /\ Promise!Unlabelled = Labelled(backup, "none")
  BY <1>p, SolutionsAgree
<1>3. CASE ok
  <2>1. /\ positive = ForcedTrue(Solutions) \cap Labelled(backup, "none")
        /\ negative = ForcedFalse(Solutions) \cap Labelled(backup, "none")
    BY <1>3, <1>p, CompleteForces DEF ForcedExactly, Answered
  <2>2. Solutions # {}
    BY <1>3, <1>p, <1>t DEF AnswerInv
  <2>3. /\ Promise!ForcedTrue(Solutions) = ForcedTrue(Solutions)
        /\ Promise!ForcedFalse(Solutions) = ForcedFalse(Solutions)
    BY DEF Promise!ForcedTrue, Promise!ForcedFalse, ForcedTrue, ForcedFalse
  <2>4. Promise!Succeed
    BY <1>3, <1>p, <1>1, <1>2, <2>1, <2>2, <2>3 DEF Promise!Succeed
  <2>5. QED
    BY <2>4 DEF Promise!Next
<1>4. CASE ~ ok
  <2>1. Solutions = {}
    BY <1>4, <1>p, <1>t DEF AnswerInv
  <2>2. /\ positive \in SUBSET Labelled(backup, "none") /\ args.pos \subseteq positive
        /\ negative \in SUBSET Labelled(backup, "none") /\ args.neg \subseteq negative
    BY <1>p, <1>t DEF ArgumentsInv, LabelsInv
  <2>3. Promise!Fail
    BY <1>4, <1>p, <1>1, <1>2, <2>1, <2>2 DEF Promise!Fail
  <2>4. QED
    BY <2>3 DEF Promise!Next
<1>5. QED
  BY <1>3, <1>4

(* A step within a call is invisible to the caller. *)
LEMMA InnerPromise ==
  ASSUME Running, Running', UNCHANGED <<premises, conclusion, backup, args>>
  PROVE  UNCHANGED Promise!vars
BY DEF Promise!vars

(* Every step of the solver is a step of HornSpec, or one it does not see. *)
LEMMA NextPromise == CompleteInv /\ [Next]_vars => [Promise!Next]_(Promise!vars)
<1> SUFFICES ASSUME CompleteInv, [Next]_vars PROVE [Promise!Next]_(Promise!vars)
  OBVIOUS
<1>1. CASE \E P \in SUBSET Labelled(label, "none") :
             \E N \in SUBSET (Labelled(label, "none") \ P) : Solve(P, N)
  BY <1>1, SolvePromise
<1>2. CASE RollBack
  BY <1>2, RollBackPromise
<1>3. CASE KeepBackup \/ FillWorklist \/ (\E x \in Node : Pop(x)) \/ Propagate \/ Finish
  <2> DEFINE Inner == /\ Running /\ Running'
                      /\ UNCHANGED <<premises, conclusion, backup, args>>
  <2>1. CASE KeepBackup
    BY <2>1, InnerPromise DEF KeepBackup, DropClause, ForceConclusion, RefuteConclusion, KeepClause,
                AtClause, Running, problem
  <2>2. CASE FillWorklist \/ (\E x \in Node : Pop(x)) \/ Finish
    BY <2>2, InnerPromise DEF FillWorklist, Pop, Finish, Running, problem
  <2>3. CASE Propagate
    <3>1. ASSUME NEW c \in Clause, Visit(c), Continue \/ Abort
          PROVE  Inner
      BY <3>1 DEF Visit, Continue, Abort, Running, problem
    <3>2. ASSUME NextPoint
          PROVE  Inner
      BY <3>2 DEF NextPoint, Running, problem
    <3>3. ASSUME NEW c \in Clause, FalseMarks(c)
          PROVE  Visit(c) /\ (Continue \/ Abort)
      BY <3>3 DEF FalseMarks
    <3>4. ASSUME NEW c \in Clause, TrueForces(c) \/ \E i \in DOMAIN premises[c] : FalseForces(c, i)
          PROVE  Visit(c) /\ (Continue \/ Abort)
      BY <3>4 DEF TrueForces, FalseForces
    <3>5. ASSUME NEW c \in Clause, TrueSatisfies(c) \/ TrueShortens(c) \/ FalseSatisfies(c)
          PROVE  Visit(c) /\ (Continue \/ Abort)
      BY <3>5 DEF TrueSatisfies, TrueShortens, FalseSatisfies
    <3>6. Inner
      BY <2>3, <3>1, <3>2, <3>3, <3>4, <3>5 DEF Propagate
    <3>7. QED
      BY <3>6, InnerPromise
  <2>4. QED
    BY <1>3, <2>1, <2>2, <2>3
<1>4. CASE UNCHANGED vars
  <2>1. UNCHANGED <<premises, conclusion, label, positive, negative, ok, pc, backup, args>>
    BY <1>4 DEF vars, problem, inout
  <2>2. UNCHANGED Promise!vars
    BY <2>1 DEF Promise!vars, Running
  <2>3. QED
    BY <2>2
<1>5. QED
  BY <1>1, <1>2, <1>3, <1>4 DEF Next, Step

(* The solver implements HornSpec, for any number of points and            *)
(* constraints: over any sequence of calls on one solver object each       *)
(* answer is exact, the sets handed back are the forced points, labels are *)
(* restored and nothing of an earlier call shows in a later one.           *)
THEOREM SolverRefines == Spec => KeepsPromise
BY InitPromise, NextPromise, CompleteInductive, PTL DEF Spec, KeepsPromise, Promise!Spec

=============================================================================
