------------------------------ MODULE HornSpec ------------------------------
(***************************************************************************)
(* What horn_solver::solve promises its callers, without an algorithm.     *)
(*                                                                         *)
(* A call hands over two disjoint sets of unclassified points to be tried  *)
(* as positive and as negative.  The answer is TRUE exactly when some      *)
(* total classification satisfies every constraint, every label and the    *)
(* two sets.  The sets then hold precisely the forced points, so that any  *)
(* point still unclassified is free to take either label.  On FALSE they   *)
(* may hold leftovers of the attempt.  Labels never change.                *)
(***************************************************************************)
EXTENDS HornProblem

VARIABLES
  premises, conclusion,   \* the Horn constraints
  label,                  \* labels of the data points
  positive, negative,     \* the in/out arguments of solve
  ok,                     \* the value solve returned last
  busy                    \* TRUE while a call is running

vars == <<premises, conclusion, label, positive, negative, ok, busy>>

Unlabelled == Labelled(label, "none")

Solutions == Models(premises, conclusion,
                    Labelled(label, "true") \cup positive,
                    Labelled(label, "false") \cup negative)

(* The caller's side: only unclassified points are tried. *)
Call(P, N) ==
  /\ ~ busy
  /\ busy' = TRUE
  /\ positive' = P
  /\ negative' = N
  /\ ok' = TRUE
  /\ UNCHANGED <<premises, conclusion, label>>

Succeed ==
  /\ busy
  /\ Solutions # {}
  /\ ok' = TRUE
  /\ busy' = FALSE
  /\ positive' = ForcedTrue(Solutions) \cap Unlabelled
  /\ negative' = ForcedFalse(Solutions) \cap Unlabelled
  /\ UNCHANGED <<premises, conclusion, label>>

Fail ==
  /\ busy
  /\ Solutions = {}
  /\ ok' = FALSE
  /\ busy' = FALSE
  /\ positive' \in SUBSET Unlabelled /\ positive \subseteq positive'
  /\ negative' \in SUBSET Unlabelled /\ negative \subseteq negative'
  /\ UNCHANGED <<premises, conclusion, label>>

Init ==
  /\ ~ busy
  /\ ok = TRUE
  /\ positive = {}
  /\ negative = {}
  /\ label \in [Point -> Label]

Next ==
  \/ \E P \in SUBSET Unlabelled : \E N \in SUBSET (Unlabelled \ P) : Call(P, N)
  \/ Succeed
  \/ Fail

Spec == Init /\ [][Next]_vars
=============================================================================
