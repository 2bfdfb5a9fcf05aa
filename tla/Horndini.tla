------------------------------ MODULE Horndini ------------------------------
(***************************************************************************)
(* The Horndini pre-phase: Houdini for Horn samples (horndini.h), the      *)
(* predicates and the tree around it (horndini_prephase), and main's       *)
(* check of the result.                                                    *)
(*                                                                         *)
(* Every function starts with the conjunction of all its predicates.       *)
(* Positive points knock predicates off, Horn constraints whose premises   *)
(* are all satisfied make their conclusion positive.  The lists of the     *)
(* code are sets here: the order in which points and constraints are       *)
(* visited within a pass is left open.                                     *)
(***************************************************************************)
EXTENDS HornProblem, Integers

CONSTANTS
  Function,    \* the annotations to synthesize: values of the categorical attribute
  Attribute,   \* the integer attributes
  Interval,    \* the attributes of each function (the .intervals file)
  Threshold,   \* c, the largest constant of a derived predicate
  Samples      \* the samples a behaviour may be about

ASSUME IntervalAssumption == Interval \in [Function -> (SUBSET Attribute) \ {{}}]
ASSUME ThresholdAssumption == Threshold \in Nat

IsSample(s) ==
  /\ s.fun \in [Point -> Function]
  /\ s.val \in [Point -> [Attribute -> Int]]
  /\ s.label \in [Point -> Label]
  /\ s.horn \subseteq [body : SUBSET Point, head : Node]
ASSUME SamplesAssumption == \A s \in Samples : IsSample(s)

VARIABLES
  sample,     \* the input files
  conj,       \* conjunctions: what is left of each function's predicates
  body,       \* the premises left of the constraints that are left
  positive,   \* positive_ptrs
  todo,       \* constraints the current pass has not visited
  pc          \* where the pre-phase is

vars == <<sample, conj, body, positive, todo, pc>>

-----------------------------------------------------------------------------
(* generate_derived_predicates_and_intervals *)
Derived(f) == [index : Interval[f], type : {"GE", "LE", "EQ"},
               threshold : - Threshold .. Threshold]

Predicate == UNION {Derived(f) : f \in Function}

(* generate_derived_datapoints: the entry of x for a predicate. *)
Entry(x, p) ==
  LET v == sample.val[x][p.index]
  IN  \/ p.type = "GE" /\ v >= p.threshold
      \/ p.type = "LE" /\ v <= p.threshold
      \/ p.type = "EQ" /\ v = p.threshold

(* horndini::satisfies, for the conjunctions K of all functions. *)
SatisfiesConj(x, K) == \A p \in K[sample.fun[x]] : Entry(x, p)

(* conjunction2tree: a predicate becomes one or two int_nodes, and the     *)
(* data point goes on to the next predicate if it passes them.             *)
NodePasses(x, p) ==
  LET v == sample.val[x][p.index]
  IN  \/ p.type = "GE" /\ ~ (v <= p.threshold - 1)
      \/ p.type = "LE" /\ v <= p.threshold
      \/ p.type = "EQ" /\ v <= p.threshold /\ ~ (v <= p.threshold - 1)

(* conjunctions2tree: what the tree answers for x. *)
TreeOutput(x, K) == \A p \in K[sample.fun[x]] : NodePasses(x, p)

-----------------------------------------------------------------------------
Init ==
  /\ sample \in Samples
  /\ conj = [f \in Function |-> Derived(f)]
  /\ body = [c \in sample.horn |-> c.body]
  /\ positive = Labelled(sample.label, "true")
  /\ todo = sample.horn
  /\ pc = "positive"

KnockedOff(x) ==
  [conj EXCEPT ![sample.fun[x]] = {p \in @ : Entry(x, p)}]

(* A positive data point removes the predicates it does not satisfy. *)
KnockOff(x) ==
  /\ pc = "positive"
  /\ x \in positive
  /\ conj' = KnockedOff(x)
  /\ positive' = positive \ {x}
  /\ UNCHANGED <<sample, body, todo, pc>>

(* All positive points are processed: go over the constraints. *)
StartPass ==
  /\ pc = "positive"
  /\ positive = {}
  /\ todo' = DOMAIN body
  /\ pc' = "horn"
  /\ UNCHANGED <<sample, conj, body, positive>>

(* Mutant: one satisfied premise is enough. *)
UnsatisfiedByAll(c) ==
  IF \E x \in body[c] : SatisfiesConj(x, conj) THEN {} ELSE body[c]

Unsatisfied(c) == {x \in body[c] : ~ SatisfiesConj(x, conj)}

(* Some premise of c is still not satisfied: forget the others. *)
ShortenPremises(c) ==
  /\ pc = "horn"
  /\ c \in todo
  /\ Unsatisfied(c) # {}
  /\ body' = [body EXCEPT ![c] = Unsatisfied(c)]
  /\ todo' = todo \ {c}
  /\ UNCHANGED <<sample, conj, positive, pc>>

(* Mutant: the constraint is not erased. *)
WithoutNothing(c) == body

Without(c) == [d \in DOMAIN body \ {c} |-> body[d]]

(* Mutant: no test for a missing conclusion. *)
FireUnchecked(c) ==
  /\ pc = "horn"
  /\ c \in todo
  /\ Unsatisfied(c) = {}
  /\ positive' = positive \cup {c.head}
  /\ body' = Without(c)
  /\ todo' = todo \ {c}
  /\ UNCHANGED <<sample, conj, pc>>

(* All premises are satisfied: the conclusion is positive, and the         *)
(* constraint is done with.                                                *)
Fire(c) ==
  /\ pc = "horn"
  /\ c \in todo
  /\ Unsatisfied(c) = {}
  /\ c.head # FalseDp
  /\ positive' = positive \cup {c.head}
  /\ body' = Without(c)
  /\ todo' = todo \ {c}
  /\ UNCHANGED <<sample, conj, pc>>

(* "No consistent conjunction exists": main proceeds to decision trees. *)
NoConjunction(c) ==
  /\ pc = "horn"
  /\ c \in todo
  /\ Unsatisfied(c) = {}
  /\ c.head = FalseDp
  /\ pc' = "rejected"
  /\ UNCHANGED <<sample, conj, body, positive, todo>>

(* Mutant: a single pass over the constraints. *)
OnePass ==
  /\ pc = "horn"
  /\ todo = {}
  /\ pc' = "built"
  /\ UNCHANGED <<sample, conj, body, positive, todo>>

(* The condition of the do-while loop. *)
EndPass ==
  /\ pc = "horn"
  /\ todo = {}
  /\ pc' = IF positive = {} THEN "built" ELSE "positive"
  /\ UNCHANGED <<sample, conj, body, positive, todo>>

(* learner::is_consistent *)
AgreesWith(K) ==
  \A x \in Point : sample.label[x] # "none"
                     => (TreeOutput(x, K) <=> sample.label[x] = "true")
MeetsHorn(K) ==
  \A c \in sample.horn : (\A x \in c.body : TreeOutput(x, K))
                           => c.head # FalseDp /\ TreeOutput(c.head, K)

(* main keeps the tree if it is consistent with the sample. *)
Check ==
  /\ pc = "built"
  /\ pc' = IF AgreesWith(conj) /\ MeetsHorn(conj) THEN "accepted" ELSE "rejected"
  /\ UNCHANGED <<sample, conj, body, positive, todo>>

-----------------------------------------------------------------------------
Next ==
  \/ \E x \in positive : KnockOff(x)
  \/ StartPass
  \/ \E c \in todo : ShortenPremises(c) \/ Fire(c) \/ NoConjunction(c)
  \/ EndPass
  \/ Check

(* The program is sequential and never waits: it keeps taking steps. *)
Spec == Init /\ [][Next]_vars /\ WF_vars(Next)

-----------------------------------------------------------------------------
TypeOK ==
  /\ IsSample(sample)
  /\ conj \in [Function -> SUBSET Predicate]
  /\ DOMAIN body \subseteq sample.horn
  /\ body \in [DOMAIN body -> SUBSET Point]
  /\ positive \subseteq Point
  /\ todo \subseteq sample.horn
  /\ pc \in {"positive", "horn", "built", "accepted", "rejected"}

(* The conjunctive hypotheses, and those that fit the sample. *)
Hypothesis ==
  {K \in [Function -> SUBSET Predicate] : \A f \in Function : K[f] \subseteq Derived(f)}
Fits(K) == AgreesWith(K) /\ MeetsHorn(K)

(* Knocking off and firing never go too far: whatever the order, the       *)
(* current conjunctions imply every hypothesis that fits the sample.       *)
Strongest ==
  \A K \in Hypothesis : Fits(K) => \A f \in Function : K[f] \subseteq conj[f]

(* When the loop of horndini::learn ends, the result satisfies all         *)
(* original constraints and positive points, although constraints and      *)
(* premises were erased on the way: main's check can only fail because of  *)
(* a negative point.                                                       *)
ClosedWhenBuilt ==
  pc = "built" =>
    /\ MeetsHorn(conj)
    /\ \A x \in Point : sample.label[x] = "true" => TreeOutput(x, conj)

(* The pre-phase hands over to decision trees only if no conjunction fits  *)
(* the sample, whether it gave up in the loop ("No consistent conjunction  *)
(* exists") or in main's check.                                            *)
RejectsOnlyIfNone ==
  pc = "rejected" => \A K \in Hypothesis : ~ Fits(K)

(* The loop ends although it feeds itself with new positive points. *)
Terminates == <>(pc \in {"accepted", "rejected"})

(* What the proof that the conjunctions are strongest rests on. *)
PositiveForced ==
  \A K \in Hypothesis : Fits(K) => \A x \in positive : TreeOutput(x, K)
PremisesErased ==
  \A c \in DOMAIN body : /\ body[c] \subseteq c.body
                         /\ \A x \in c.body \ body[c] : SatisfiesConj(x, conj)
Fired ==
  \A c \in sample.horn \ DOMAIN body :
    c.head \in Point /\ (c.head \in positive \/ SatisfiesConj(c.head, conj))
LabelsProcessed ==
  \A x \in Labelled(sample.label, "true") : x \in positive \/ SatisfiesConj(x, conj)
Blocked ==
  pc = "horn" => /\ todo \subseteq DOMAIN body
                 /\ \A c \in DOMAIN body \ todo : Unsatisfied(c) # {}

IInv ==
  /\ TypeOK
  /\ Strongest
  /\ PositiveForced
  /\ PremisesErased
  /\ Fired
  /\ LabelsProcessed
  /\ Blocked
  /\ ClosedWhenBuilt
  /\ RejectsOnlyIfNone
=============================================================================
