--------------------------- MODULE Horndini_proofs ---------------------------
(***************************************************************************)
(* Proofs about Horndini for any number of points, functions, attributes,  *)
(* constraints and thresholds.                                             *)
(***************************************************************************)
EXTENDS Horndini, TLAPS

USE FalseDpAssumption, IntervalAssumption, ThresholdAssumption

-----------------------------------------------------------------------------

(* A predicate and the tree nodes made of it say the same of a point. *)
LEMMA NodeIsEntry ==
  ASSUME IsSample(sample), NEW x \in Point, NEW p \in Predicate
  PROVE  NodePasses(x, p) <=> Entry(x, p)
<1>1. PICK f \in Function : p \in Derived(f)
  BY DEF Predicate
<1>2. p.index \in Attribute /\ p.type \in {"GE", "LE", "EQ"} /\ p.threshold \in Int
  BY <1>1 DEF Derived
<1>3. sample.val[x][p.index] \in Int
  BY <1>2 DEF IsSample
<1>4. QED
  BY <1>2, <1>3 DEF NodePasses, Entry

(* The tree built from conjunctions answers what the conjunctions say. *)
LEMMA TreeIsConj ==
  ASSUME IsSample(sample), NEW x \in Point, NEW K \in [Function -> SUBSET Predicate]
  PROVE  TreeOutput(x, K) <=> SatisfiesConj(x, K)
<1>1. sample.fun[x] \in Function
  BY DEF IsSample
<1>2. \A p \in K[sample.fun[x]] : p \in Predicate
  BY <1>1
<1>3. QED
  BY <1>2, NodeIsEntry DEF TreeOutput, SatisfiesConj

(* Fewer predicates accept more points. *)
LEMMA FewerAcceptMore ==
  ASSUME IsSample(sample), NEW x \in Point, NEW K, NEW L,
         \A f \in Function : K[f] \subseteq L[f],
         SatisfiesConj(x, L)
  PROVE  SatisfiesConj(x, K)
BY DEF SatisfiesConj, IsSample

(* The hypotheses depend on the sample alone, which no step changes. *)
LEMMA SampleKept ==
  ASSUME sample' = sample
  PROVE  /\ IsSample(sample)' <=> IsSample(sample)
         /\ \A x, p : Entry(x, p)' <=> Entry(x, p)
         /\ \A x, K : TreeOutput(x, K)' <=> TreeOutput(x, K)
         /\ \A x, K : SatisfiesConj(x, K)' <=> SatisfiesConj(x, K)
         /\ \A K : Fits(K)' <=> Fits(K)
<1>1. IsSample(sample)' <=> IsSample(sample)
  BY DEF IsSample
<1>2. ASSUME NEW x, NEW p
      PROVE  (Entry(x, p)' <=> Entry(x, p)) /\ (NodePasses(x, p)' <=> NodePasses(x, p))
  BY DEF Entry, NodePasses
<1>3. ASSUME NEW x, NEW K
      PROVE  TreeOutput(x, K)' <=> TreeOutput(x, K)
  BY <1>2 DEF TreeOutput
<1>4. ASSUME NEW x, NEW K
      PROVE  SatisfiesConj(x, K)' <=> SatisfiesConj(x, K)
  BY <1>2 DEF SatisfiesConj
<1>5. ASSUME NEW K
      PROVE  Fits(K)' <=> Fits(K)
  BY <1>3, Zenon DEF Fits, AgreesWith, MeetsHorn
<1>6. QED
  BY <1>1, <1>2, <1>3, <1>4, <1>5, Zenon

(* A step that changes neither the sample nor the conjunctions. *)
LEMMA ConjKept ==
  ASSUME sample' = sample, conj' = conj
  PROVE  /\ \A x : SatisfiesConj(x, conj)' <=> SatisfiesConj(x, conj)
         /\ \A x : TreeOutput(x, conj)' <=> TreeOutput(x, conj)
         /\ Strongest' <=> Strongest
         /\ Fits(conj)' <=> Fits(conj)
         /\ MeetsHorn(conj)' <=> MeetsHorn(conj)
<1>1. \A x : SatisfiesConj(x, conj)' <=> SatisfiesConj(x, conj)
  BY SampleKept, Zenon DEF SatisfiesConj
<1>2. \A x, p : NodePasses(x, p)' <=> NodePasses(x, p)
  BY DEF NodePasses
<1>3. \A x : TreeOutput(x, conj)' <=> TreeOutput(x, conj)
  BY <1>2, Zenon DEF TreeOutput
<1>4. Strongest' <=> Strongest
  BY SampleKept, Zenon DEF Strongest
<1>5. MeetsHorn(conj)' <=> MeetsHorn(conj)
  BY <1>3, Zenon DEF MeetsHorn
<1>6. AgreesWith(conj)' <=> AgreesWith(conj)
  BY <1>3, Zenon DEF AgreesWith
<1>7. QED
  BY <1>1, <1>3, <1>4, <1>5, <1>6, Zenon DEF Fits

(* What every hypothesis that fits makes of a constraint whose remaining   *)

(* premises are all satisfied: its conclusion must be there and be true.   *)
LEMMA HeadForced ==
  ASSUME IInv, NEW c \in DOMAIN body, Unsatisfied(c) = {},
         NEW K \in Hypothesis, Fits(K)
  PROVE  c.head # FalseDp /\ TreeOutput(c.head, K)
<1>1. IsSample(sample) /\ c \in sample.horn /\ c.body \subseteq Point
  BY DEF IInv, TypeOK, IsSample
<1>2. K \in [Function -> SUBSET Predicate] /\ \A f \in Function : K[f] \subseteq conj[f]
  BY DEF IInv, Strongest, Hypothesis
<1>3. ASSUME NEW x \in c.body
      PROVE  TreeOutput(x, K)
  <2>1. SatisfiesConj(x, conj)
    BY DEF Unsatisfied, IInv, PremisesErased
  <2>2. SatisfiesConj(x, K)
    BY <1>1, <1>2, <2>1, FewerAcceptMore
  <2>3. QED
    BY <1>1, <1>2, <2>2, TreeIsConj
<1>4. QED
  BY <1>1, <1>3 DEF Fits, MeetsHorn

-----------------------------------------------------------------------------

(* The full conjunctions imply every hypothesis that fits the sample. *)
LEMMA InitIInv == Init => IInv
<1> SUFFICES ASSUME Init PROVE IInv
  OBVIOUS
<1> USE DEF Init
<1>1. IsSample(sample)
  BY SamplesAssumption
<1>2. TypeOK
  <2>1. conj \in [Function -> SUBSET Predicate]
    BY DEF Predicate
  <2>2. DOMAIN body = sample.horn /\ body \in [sample.horn -> SUBSET Point]
    BY <1>1 DEF IsSample
  <2>3. positive \subseteq Point
    BY DEF Labelled
  <2>4. QED
    BY <1>1, <2>1, <2>2, <2>3 DEF TypeOK
<1>3. Strongest
  BY DEF Strongest, Hypothesis
<1>4. PositiveForced
  BY DEF PositiveForced, Fits, AgreesWith, Labelled
<1>5. PremisesErased
  BY DEF PremisesErased
<1>6. Fired /\ LabelsProcessed /\ Blocked /\ ClosedWhenBuilt /\ RejectsOnlyIfNone
  BY DEF Fired, LabelsProcessed, Blocked, ClosedWhenBuilt, RejectsOnlyIfNone
<1>7. QED
  BY <1>2, <1>3, <1>4, <1>5, <1>6 DEF IInv

(* Knocking off: no predicate of a fitting hypothesis is lost, because the *)

(* hypothesis accepts the point; accepted points stay accepted.            *)
LEMMA KnockOffIInv ==
  ASSUME IInv, NEW x \in positive, KnockOff(x)
  PROVE  IInv'
<1> USE DEF KnockOff
<1>1. IsSample(sample) /\ x \in Point /\ sample.fun[x] \in Function
      /\ conj \in [Function -> SUBSET Predicate]
  BY DEF IInv, TypeOK, IsSample
<1> DEFINE g == sample.fun[x]
<1>2. conj' = [conj EXCEPT ![g] = {p \in @ : Entry(x, p)}]
  BY DEF KnockedOff
<1>3. /\ conj' \in [Function -> SUBSET Predicate]
      /\ conj'[g] = {p \in conj[g] : Entry(x, p)}
      /\ \A f \in Function : f # g => conj'[f] = conj[f]
      /\ \A f \in Function : conj'[f] \subseteq conj[f]
  BY <1>1, <1>2
<1>4. sample' = sample /\ pc' = "positive" /\ body' = body /\ todo' = todo
  OBVIOUS
<1>5. ASSUME NEW y \in Point, SatisfiesConj(y, conj) \/ y = x
      PROVE  SatisfiesConj(y, conj)'
  <2>1. sample.fun[y] \in Function
    BY <1>1 DEF IsSample
  <2>2. \A p \in conj'[sample.fun[y]] : Entry(y, p)
    BY <1>3, <1>5, <2>1 DEF SatisfiesConj
  <2>3. QED
    BY <1>4, <2>2, SampleKept, Zenon DEF SatisfiesConj
<1>6. TypeOK'
  BY <1>3, <1>4, SampleKept DEF IInv, TypeOK
<1>7. Strongest'
  <2>1. ASSUME NEW K \in Hypothesis, Fits(K), NEW f \in Function
        PROVE  K[f] \subseteq conj'[f]
    <3>1. K \in [Function -> SUBSET Predicate] /\ K[f] \subseteq conj[f]
      BY <2>1 DEF IInv, Strongest, Hypothesis
    <3>2. SatisfiesConj(x, K)
      BY <1>1, <2>1, <3>1, TreeIsConj DEF IInv, PositiveForced
    <3>3. QED
      BY <1>3, <3>1, <3>2 DEF SatisfiesConj
  <2>2. QED
    BY <1>4, <2>1, SampleKept, Zenon DEF Strongest
<1>8. PositiveForced'
  <2>1. positive' \subseteq positive
    OBVIOUS
  <2>2. QED
    BY <1>4, <2>1, SampleKept, Zenon DEF IInv, PositiveForced
<1>9. PremisesErased'
  <2>1. \A c \in DOMAIN body : c.body \subseteq Point
    BY DEF IInv, TypeOK, IsSample
  <2>2. QED
    BY <1>4, <1>5, <2>1, Zenon DEF IInv, PremisesErased
<1>10. Fired'
  <2>1. ASSUME NEW c \in sample.horn \ DOMAIN body
        PROVE  c.head \in Point /\ (c.head \in positive' \/ SatisfiesConj(c.head, conj)')
    <3>1. c.head \in Point /\ (c.head \in positive \/ SatisfiesConj(c.head, conj))
      BY <2>1 DEF IInv, Fired
    <3>2. QED
      BY <1>5, <3>1
  <2>2. QED
    BY <1>4, <2>1, Zenon DEF Fired
<1>11. LabelsProcessed'
  <2>1. ASSUME NEW y \in Labelled(sample.label, "true")
        PROVE  y \in positive' \/ SatisfiesConj(y, conj)'
    <3>1. y \in Point /\ (y \in positive \/ SatisfiesConj(y, conj))
      BY <2>1 DEF IInv, LabelsProcessed, Labelled
    <3>2. QED
      BY <1>5, <3>1
  <2>2. QED
    BY <1>4, <2>1, Zenon DEF LabelsProcessed
<1>12. Blocked' /\ ClosedWhenBuilt' /\ RejectsOnlyIfNone'
  BY <1>4 DEF Blocked, ClosedWhenBuilt, RejectsOnlyIfNone
<1>13. QED
  BY <1>6, <1>7, <1>8, <1>9, <1>10, <1>11, <1>12 DEF IInv

(* The steps that change neither the sample nor the conjunctions keep the  *)

(* parts of the invariant that speak of those alone.                       *)
LEMMA StartPassIInv ==
  ASSUME IInv, StartPass
  PROVE  IInv'
<1> USE DEF StartPass
<1>1. sample' = sample /\ conj' = conj /\ body' = body /\ positive' = positive
      /\ pc' = "horn" /\ todo' = DOMAIN body
  OBVIOUS
<1>2. TypeOK'
  BY <1>1, SampleKept DEF IInv, TypeOK
<1>3. Strongest' /\ PositiveForced'
  BY <1>1, ConjKept, SampleKept, Zenon DEF IInv, PositiveForced
<1>4. PremisesErased' /\ Fired' /\ LabelsProcessed'
  BY <1>1, ConjKept, Zenon DEF IInv, PremisesErased, Fired, LabelsProcessed
<1>5. Blocked'
  BY <1>1, Zenon DEF Blocked
<1>6. ClosedWhenBuilt' /\ RejectsOnlyIfNone'
  BY <1>1 DEF ClosedWhenBuilt, RejectsOnlyIfNone
<1>7. QED
  BY <1>2, <1>3, <1>4, <1>5, <1>6 DEF IInv

(* Forgetting premises that are satisfied. *)
LEMMA ShortenPremisesIInv ==
  ASSUME IInv, NEW c \in todo, ShortenPremises(c)
  PROVE  IInv'
<1> USE DEF ShortenPremises
<1>1. sample' = sample /\ conj' = conj /\ positive' = positive
      /\ pc = "horn" /\ pc' = "horn" /\ todo' = todo \ {c}
  OBVIOUS
<1>2. c \in DOMAIN body /\ todo \subseteq DOMAIN body
  BY DEF IInv, Blocked
<1>3. /\ DOMAIN body' = DOMAIN body
      /\ body'[c] = Unsatisfied(c)
      /\ \A d \in DOMAIN body : d # c => body'[d] = body[d]
  BY <1>2
<1>4. Unsatisfied(c) \subseteq body[c]
  BY DEF Unsatisfied
<1>5. TypeOK'
  <2>1. body' \in [DOMAIN body -> SUBSET Point]
    BY <1>2, <1>4 DEF IInv, TypeOK
  <2>2. QED
    BY <1>1, <1>3, <2>1, SampleKept DEF IInv, TypeOK
<1>6. Strongest' /\ PositiveForced'
  BY <1>1, ConjKept, SampleKept, Zenon DEF IInv, PositiveForced
<1>7. PremisesErased'
  <2>1. ASSUME NEW d \in DOMAIN body
        PROVE  /\ body'[d] \subseteq d.body
               /\ \A x \in d.body \ body'[d] : SatisfiesConj(x, conj)
    BY <1>3, <1>4, <2>1 DEF IInv, PremisesErased, Unsatisfied
  <2>2. QED
    BY <1>1, <1>3, <2>1, ConjKept, Zenon DEF PremisesErased
<1>8. Fired' /\ LabelsProcessed'
  BY <1>1, <1>3, ConjKept, Zenon DEF IInv, Fired, LabelsProcessed
<1>9. Blocked'
  <2>1. \A d \in DOMAIN body : Unsatisfied(d)' = {x \in body'[d] : ~ SatisfiesConj(x, conj)}
    BY <1>1, ConjKept DEF Unsatisfied
  <2>2. Unsatisfied(c)' # {}
    BY <1>2, <1>3, <2>1 DEF Unsatisfied
  <2>3. ASSUME NEW d \in DOMAIN body, d \notin todo
        PROVE  Unsatisfied(d)' # {}
    BY <1>1, <1>3, <2>1, <2>3 DEF Unsatisfied, IInv, Blocked
  <2>4. ASSUME NEW d \in DOMAIN body \ todo'
        PROVE  Unsatisfied(d)' # {}
    BY <1>1, <2>2, <2>3
  <2>5. todo' \subseteq DOMAIN body
    BY <1>1, <1>2
  <2>6. QED
    BY <1>3, <2>4, <2>5, Zenon DEF Blocked
<1>10. ClosedWhenBuilt' /\ RejectsOnlyIfNone'
  BY <1>1 DEF ClosedWhenBuilt, RejectsOnlyIfNone
<1>11. QED
  BY <1>5, <1>6, <1>7, <1>8, <1>9, <1>10 DEF IInv

(* Firing a constraint: every fitting hypothesis accepts its conclusion. *)
LEMMA FireIInv ==
  ASSUME IInv, NEW c \in todo, Fire(c)
  PROVE  IInv'
<1> USE DEF Fire
<1>1. sample' = sample /\ conj' = conj /\ positive' = positive \cup {c.head}
      /\ pc = "horn" /\ pc' = "horn" /\ todo' = todo \ {c}
  OBVIOUS
<1>2. c \in DOMAIN body /\ todo \subseteq DOMAIN body
  BY DEF IInv, Blocked
<1>3. /\ DOMAIN body' = DOMAIN body \ {c}
      /\ \A d \in DOMAIN body' : body'[d] = body[d]
  BY DEF Without
<1>4. c.head \in Point
  BY <1>2 DEF IInv, TypeOK, IsSample, Node
<1>5. TypeOK'
  <2>1. body' \in [DOMAIN body' -> SUBSET Point]
    BY DEF IInv, TypeOK, Without
  <2>2. QED
    BY <1>1, <1>3, <1>4, <2>1, SampleKept DEF IInv, TypeOK
<1>6. Strongest'
  BY <1>1, ConjKept, Zenon DEF IInv
<1>7. PositiveForced'
  <2>1. ASSUME NEW K \in Hypothesis, Fits(K), NEW x \in positive'
        PROVE  TreeOutput(x, K)
    BY <1>1, <1>2, <2>1, HeadForced DEF IInv, PositiveForced
  <2>2. QED
    BY <1>1, <2>1, SampleKept, Zenon DEF PositiveForced
<1>8. PremisesErased'
  BY <1>1, <1>3, ConjKept, Zenon DEF IInv, PremisesErased
<1>9. Fired'
  <2>1. ASSUME NEW d \in sample.horn \ DOMAIN body'
        PROVE  d.head \in Point /\ (d.head \in positive' \/ SatisfiesConj(d.head, conj))
    <3>1. CASE d = c
      BY <1>1, <1>4, <3>1
    <3>2. CASE d \in sample.horn \ DOMAIN body
      BY <1>1, <3>2 DEF IInv, Fired
    <3>3. QED
      BY <1>3, <2>1, <3>1, <3>2
  <2>2. QED
    BY <1>1, <2>1, ConjKept, Zenon DEF Fired
<1>10. LabelsProcessed'
  BY <1>1, ConjKept, Zenon DEF IInv, LabelsProcessed
<1>11. Blocked'
  <2>1. \A d \in DOMAIN body' : Unsatisfied(d)' = Unsatisfied(d)
    BY <1>1, <1>3, ConjKept DEF Unsatisfied
  <2>2. \A d \in DOMAIN body' \ todo' : Unsatisfied(d) # {}
    BY <1>1, <1>3 DEF IInv, Blocked
  <2>3. todo' \subseteq DOMAIN body'
    BY <1>1, <1>2, <1>3
  <2>4. QED
    BY <2>1, <2>2, <2>3, Zenon DEF Blocked
<1>12. ClosedWhenBuilt' /\ RejectsOnlyIfNone'
  BY <1>1 DEF ClosedWhenBuilt, RejectsOnlyIfNone
<1>13. QED
  BY <1>5, <1>6, <1>7, <1>8, <1>9, <1>10, <1>11, <1>12 DEF IInv

(* Giving up in the loop: a hypothesis that fits would satisfy all premises *)

(* of a constraint without conclusion.                                      *)
LEMMA NoConjunctionIInv ==
  ASSUME IInv, NEW c \in todo, NoConjunction(c)
  PROVE  IInv'
<1> USE DEF NoConjunction
<1>1. sample' = sample /\ conj' = conj /\ body' = body /\ positive' = positive
      /\ todo' = todo /\ pc = "horn" /\ pc' = "rejected"
  OBVIOUS
<1>2. c \in DOMAIN body
  BY DEF IInv, Blocked
<1>3. RejectsOnlyIfNone'
  <2>1. ASSUME NEW K \in Hypothesis PROVE ~ Fits(K)
    BY <1>2, HeadForced
  <2>2. QED
    BY <1>1, <2>1, SampleKept, Zenon DEF RejectsOnlyIfNone
<1>4. TypeOK'
  BY <1>1, SampleKept DEF IInv, TypeOK
<1>5. Strongest' /\ PositiveForced'
  BY <1>1, ConjKept, SampleKept, Zenon DEF IInv, PositiveForced
<1>6. PremisesErased' /\ Fired' /\ LabelsProcessed'
  BY <1>1, ConjKept, Zenon DEF IInv, PremisesErased, Fired, LabelsProcessed
<1>7. Blocked' /\ ClosedWhenBuilt'
  BY <1>1 DEF Blocked, ClosedWhenBuilt
<1>8. QED
  BY <1>3, <1>4, <1>5, <1>6, <1>7 DEF IInv

(* The loop ends without positive points: constraints that are left have a *)

(* premise that is not satisfied, erased ones a conclusion that is.        *)
LEMMA EndPassIInv ==
  ASSUME IInv, EndPass
  PROVE  IInv'
<1> USE DEF EndPass
<1>1. sample' = sample /\ conj' = conj /\ body' = body /\ positive' = positive
      /\ todo' = todo /\ pc = "horn" /\ todo = {}
      /\ pc' = IF positive = {} THEN "built" ELSE "positive"
  OBVIOUS
<1>2. IsSample(sample) /\ conj \in [Function -> SUBSET Predicate]
  BY DEF IInv, TypeOK
<1>3. ClosedWhenBuilt'
  <2>1. SUFFICES ASSUME positive = {}
                 PROVE  /\ MeetsHorn(conj)
                        /\ \A x \in Point : sample.label[x] = "true" => TreeOutput(x, conj)
    BY <1>1, ConjKept, Zenon DEF ClosedWhenBuilt
  <2>2. ASSUME NEW c \in sample.horn, \A x \in c.body : TreeOutput(x, conj)
        PROVE  c.head # FalseDp /\ TreeOutput(c.head, conj)
    <3>1. c.body \subseteq Point
      BY <1>2 DEF IsSample
    <3>2. \A x \in c.body : SatisfiesConj(x, conj)
      BY <1>2, <2>2, <3>1, TreeIsConj
    <3>3. c \notin DOMAIN body
      <4>1. SUFFICES ASSUME c \in DOMAIN body PROVE FALSE
        OBVIOUS
      <4>2. body[c] \subseteq c.body /\ Unsatisfied(c) # {}
        BY <1>1, <4>1 DEF IInv, PremisesErased, Blocked
      <4>3. QED
        BY <3>2, <4>2 DEF Unsatisfied
    <3>4. c.head \in Point /\ SatisfiesConj(c.head, conj)
      BY <2>1, <3>3 DEF IInv, Fired
    <3>5. QED
      BY <1>2, <3>4, TreeIsConj
  <2>3. ASSUME NEW x \in Point, sample.label[x] = "true"
        PROVE  TreeOutput(x, conj)
    <3>1. SatisfiesConj(x, conj)
      BY <2>1, <2>3 DEF IInv, LabelsProcessed, Labelled
    <3>2. QED
      BY <1>2, <3>1, TreeIsConj
  <2>4. QED
    BY <2>2, <2>3 DEF MeetsHorn
<1>4. TypeOK'
  BY <1>1, SampleKept DEF IInv, TypeOK
<1>5. Strongest' /\ PositiveForced'
  BY <1>1, ConjKept, SampleKept, Zenon DEF IInv, PositiveForced
<1>6. PremisesErased' /\ Fired' /\ LabelsProcessed'
  BY <1>1, ConjKept, Zenon DEF IInv, PremisesErased, Fired, LabelsProcessed
<1>7. Blocked' /\ RejectsOnlyIfNone'
  BY <1>1 DEF Blocked, RejectsOnlyIfNone
<1>8. QED
  BY <1>3, <1>4, <1>5, <1>6, <1>7 DEF IInv

(* main's check fails only because of a negative point that the strongest  *)
(* conjunctions accept; every other hypothesis that fits would accept it   *)

(* as well.                                                                *)
LEMMA CheckIInv ==
  ASSUME IInv, Check
  PROVE  IInv'
<1> USE DEF Check
<1>1. sample' = sample /\ conj' = conj /\ body' = body /\ positive' = positive
      /\ todo' = todo /\ pc = "built"
      /\ pc' = IF AgreesWith(conj) /\ MeetsHorn(conj) THEN "accepted" ELSE "rejected"
  OBVIOUS
<1>2. IsSample(sample) /\ conj \in [Function -> SUBSET Predicate]
  BY DEF IInv, TypeOK
<1>3. RejectsOnlyIfNone'
  <2>1. SUFFICES ASSUME NEW K \in Hypothesis, Fits(K), pc' = "rejected"
                 PROVE  FALSE
    BY <1>1, SampleKept, Zenon DEF RejectsOnlyIfNone
  <2>2. MeetsHorn(conj) /\ \A x \in Point : sample.label[x] = "true" => TreeOutput(x, conj)
    BY <1>1 DEF IInv, ClosedWhenBuilt
  <2>3. PICK x \in Point : sample.label[x] = "false" /\ TreeOutput(x, conj)
    <3>1. ~ AgreesWith(conj)
      BY <1>1, <2>1, <2>2
    <3>2. \A x \in Point : sample.label[x] \in {"true", "false", "none"}
      BY <1>2 DEF IsSample, Label
    <3>3. QED
      BY <2>2, <3>1, <3>2 DEF AgreesWith
  <2>4. K \in [Function -> SUBSET Predicate] /\ \A f \in Function : K[f] \subseteq conj[f]
    BY <2>1 DEF IInv, Strongest, Hypothesis
  <2>5. SatisfiesConj(x, conj)
    BY <1>2, <2>3, TreeIsConj
  <2>6. SatisfiesConj(x, K)
    BY <1>2, <2>4, <2>5, FewerAcceptMore
  <2>7. TreeOutput(x, K)
    BY <1>2, <2>4, <2>6, TreeIsConj
  <2>8. QED
    BY <2>1, <2>3, <2>7 DEF Fits, AgreesWith
<1>4. TypeOK'
  BY <1>1, SampleKept DEF IInv, TypeOK
<1>5. Strongest' /\ PositiveForced'
  BY <1>1, ConjKept, SampleKept, Zenon DEF IInv, PositiveForced
<1>6. PremisesErased' /\ Fired' /\ LabelsProcessed'
  BY <1>1, ConjKept, Zenon DEF IInv, PremisesErased, Fired, LabelsProcessed
<1>7. Blocked' /\ ClosedWhenBuilt'
  BY <1>1 DEF Blocked, ClosedWhenBuilt
<1>8. QED
  BY <1>3, <1>4, <1>5, <1>6, <1>7 DEF IInv

-----------------------------------------------------------------------------

(* The invariant is inductive. *)
LEMMA Inductive == IInv /\ [Next]_vars => IInv'
<1> SUFFICES ASSUME IInv, [Next]_vars PROVE IInv'
  OBVIOUS
<1>1. ASSUME NEW x \in positive, KnockOff(x) PROVE IInv'
  BY <1>1, KnockOffIInv
<1>2. CASE StartPass
  BY <1>2, StartPassIInv
<1>3. ASSUME NEW c \in todo, ShortenPremises(c) PROVE IInv'
  BY <1>3, ShortenPremisesIInv
<1>4. ASSUME NEW c \in todo, Fire(c) PROVE IInv'
  BY <1>4, FireIInv
<1>5. ASSUME NEW c \in todo, NoConjunction(c) PROVE IInv'
  BY <1>5, NoConjunctionIInv
<1>6. CASE EndPass
  BY <1>6, EndPassIInv
<1>7. CASE Check
  BY <1>7, CheckIInv
<1>8. CASE UNCHANGED vars
  <2>1. sample' = sample /\ conj' = conj /\ body' = body /\ positive' = positive
        /\ todo' = todo /\ pc' = pc
    BY <1>8 DEF vars
  <2>2. TypeOK'
    BY <2>1, SampleKept DEF IInv, TypeOK
  <2>3. Strongest' /\ PositiveForced' /\ RejectsOnlyIfNone'
    BY <2>1, ConjKept, SampleKept, Zenon DEF IInv, PositiveForced, RejectsOnlyIfNone
  <2>4. PremisesErased' /\ Fired' /\ LabelsProcessed' /\ ClosedWhenBuilt'
    BY <2>1, ConjKept, Zenon
       DEF IInv, PremisesErased, Fired, LabelsProcessed, ClosedWhenBuilt
  <2>5. Blocked'
    <3>1. \A c \in DOMAIN body : Unsatisfied(c)' = Unsatisfied(c)
      BY <2>1, ConjKept DEF Unsatisfied
    <3>2. QED
      BY <2>1, <3>1, Zenon DEF IInv, Blocked
  <2>6. QED
    BY <2>2, <2>3, <2>4, <2>5 DEF IInv
<1>9. QED
  BY <1>1, <1>2, <1>3, <1>4, <1>5, <1>6, <1>7, <1>8 DEF Next

(* The inductive invariant holds throughout horndini_prephase and the      *)
(* check of its result.                                                    *)
THEOREM Invariant == Spec => []IInv
<1>1. QED
  BY InitIInv, Inductive, PTL DEF Spec

(* The variables keep their types for every sample. *)
THEOREM TypeCorrect == Spec => []TypeOK
<1>1. IInv => TypeOK
  BY DEF IInv
<1>2. QED
  BY Invariant, <1>1, PTL

(* horndini::learn never knocks off a predicate of a hypothesis that fits  *)
(* the sample, for any sample and in any order.                            *)
THEOREM StrongestConjunction == Spec => []Strongest
<1>1. IInv => Strongest
  BY DEF IInv
<1>2. QED
  BY Invariant, <1>1, PTL

(* The result of the loop satisfies all constraints and positive points of *)
(* the sample.                                                             *)
THEOREM ClosedResult == Spec => []ClosedWhenBuilt
<1>1. IInv => ClosedWhenBuilt
  BY DEF IInv
<1>2. QED
  BY Invariant, <1>1, PTL

(* The pre-phase is complete: it passes a sample on to the decision tree   *)
(* learner only if no conjunction of derived predicates fits it.           *)
THEOREM Complete == Spec => []RejectsOnlyIfNone
<1>1. IInv => RejectsOnlyIfNone
  BY DEF IInv
<1>2. QED
  BY Invariant, <1>1, PTL
==============================================================================
