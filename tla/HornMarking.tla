---------------------------- MODULE HornMarking ----------------------------
(***************************************************************************)
(* horn_solver::compute_current_marking and the recursion of               *)
(* horn_constraint::compute_marking.  HornSolver takes the result as one   *)
(* step; this module shows that the recursion, in whatever order the hash  *)
(* sets are walked, ends in exactly that result.                           *)
(***************************************************************************)
EXTENDS HornProblem, Naturals, Sequences

CONSTANTS
  NumClauses,   \* constraints that are not satisfied
  Systems       \* the systems [body, head] a behaviour may be about

Clause == 1 .. NumClauses

ASSUME NumClausesAssumption == NumClauses \in Nat
ASSUME SystemsAssumption ==
  \A s \in Systems : /\ s.body \in [Clause -> SUBSET Point]
                     /\ s.head \in [Clause -> Node]

VARIABLES
  body,      \* the premises of each constraint, as a set
  head,      \* its conclusion
  marking,   \* _list_of_marking per node
  i,         \* loop index of compute_current_marking
  stack      \* per active compute_marking, the constraints its loop has yet to visit

vars == <<body, head, marking, i, stack>>

Init ==
  /\ \E s \in Systems : body = s.body /\ head = s.head
  /\ marking = [x \in Node |-> {x} \ {FalseDp}]     \* populate_meta_data
  /\ i = 1
  /\ stack = <<>>

(* The marks common to all premises of c. *)
Common(c) == {m \in Point : body[c] # {} /\ \A x \in body[c] : m \in marking[x]}

(* Mutant: no recursion. *)
NoDependents(c) == {}

(* The constraints the recursion goes to when the conclusion of c has      *)
(* gained a mark: those that mention it, except as their own conclusion.   *)
Dependents(c) == {d \in Clause : head[c] \in body[d] /\ head[d] # head[c]}

(* One activation of compute_marking, up to the start of its recursion. *)
ComputeMarking(c, callers) ==
  /\ marking' = [marking EXCEPT ![head[c]] = @ \cup Common(c)]
  /\ stack' = IF Common(c) \subseteq marking[head[c]]
              THEN callers ELSE Append(callers, Dependents(c))

(* Mutant: the loop does not stop at the last constraint. *)
OuterPastEnd(c) ==
  /\ stack = <<>>
  /\ i > NumClauses \/ i = c
  /\ ComputeMarking(c, stack)
  /\ i' = i + 1
  /\ UNCHANGED <<body, head>>

Outer(c) ==
  /\ stack = <<>>
  /\ i = c
  /\ ComputeMarking(c, stack)
  /\ i' = i + 1
  /\ UNCHANGED <<body, head>>

(* Mutant: the loop over the dependents does not advance. *)
RecurseAgain(c) ==
  /\ stack # <<>>
  /\ c \in stack[Len(stack)]
  /\ ComputeMarking(c, stack)
  /\ UNCHANGED <<body, head, i>>

Recurse(c) ==
  /\ stack # <<>>
  /\ c \in stack[Len(stack)]
  /\ ComputeMarking(c, [stack EXCEPT ![Len(stack)] = @ \ {c}])
  /\ UNCHANGED <<body, head, i>>

Return ==
  /\ stack # <<>>
  /\ stack[Len(stack)] = {}
  /\ stack' = SubSeq(stack, 1, Len(stack) - 1)
  /\ UNCHANGED <<body, head, marking, i>>

Done == i > NumClauses /\ stack = <<>>

Next == (\E c \in Clause : Outer(c) \/ Recurse(c)) \/ Return

Spec == Init /\ [][Next]_vars /\ WF_vars(Next)

-----------------------------------------------------------------------------
TypeOK ==
  /\ body \in [Clause -> SUBSET Point]
  /\ head \in [Clause -> Node]
  /\ marking \in [Node -> SUBSET Point]
  /\ i \in 1 .. NumClauses + 1
  /\ stack \in Seq(SUBSET Clause)

(* compute_marking only recurses when the conclusion it has just changed   *)
(* gained a mark, skips constraints with that conclusion and never revisits*)
(* one otherwise; the markings it stops with are nevertheless the least    *)
(* fixpoint.                                                               *)
ReachesFixpoint == Done => marking = LeastMarking(body, head)

-----------------------------------------------------------------------------
(* The inductive invariant behind ReachesFixpoint. *)

(* Every point marks itself, and every mark is one of the least fixpoint. *)
MarksInv ==
  /\ \A x \in Point : x \in marking[x]
  /\ \A x \in Node : marking[x] \subseteq LeastMarking(body, head)[x]

(* c waits in the loop of some active compute_marking. *)
Waits(c, s) == \E k \in 1 .. Len(s) : c \in s[k]

(* No constraint is forgotten: its conclusion has the marks common to its  *)
(* premises, or the outer loop or an active recursion will still visit it. *)
VisitsInv ==
  \A c \in Clause : \/ Common(c) \subseteq marking[head[c]]
                    \/ c >= i
                    \/ Waits(c, stack)

IInv == TypeOK /\ MarksInv /\ VisitsInv

-----------------------------------------------------------------------------
(* The recursion comes to an end, cycles among the constraints or not. *)
Terminates == <>Done

=============================================================================
