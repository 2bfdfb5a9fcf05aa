----------------------------- MODULE MCHorndini -----------------------------
(***************************************************************************)
(* Instances of Horndini for TLC.  With threshold 0 an attribute has three *)
(* predicates, of which each of the values -1, 0 and 1 satisfies others.   *)
(***************************************************************************)
EXTENDS Horndini, FiniteSets

CONSTANTS a, b, c

ABC == {a, b, c}

TwoFunctions == [f \in {1, 2} |-> {"u"}]

(* Points are interchangeable: take them in increasing order. *)
Ordered(d) ==
  LET less(x, y) == \/ d.fun[x] < d.fun[y]
                    \/ d.fun[x] = d.fun[y] /\ d.val[x]["u"] < d.val[y]["u"]
  IN  less(a, b) /\ less(b, c)

Data(functions, values) ==
  {d \in [fun : [ABC -> functions], val : [ABC -> [{"u"} -> values]]] : Ordered(d)}

Constraints ==
  {h \in [body : SUBSET ABC, head : ABC \cup {FalseDp}] : h.head \notin h.body}
UpToTwo == {{h, g} : h, g \in Constraints} \cup {{}}

FewLabels(n) ==
  {l \in [ABC -> Label] : Cardinality({x \in ABC : l[x] # "none"}) <= n}

Build(data, horns, labels) ==
  {[fun |-> d.fun, val |-> d.val, label |-> l, horn |-> h] :
     d \in data, h \in horns, l \in labels}

(* The second function has the values 0 and 1 only. *)
TwoFunctionSamples ==
  Build({d \in Data({1, 2}, {-1, 0, 1}) : \A x \in ABC : d.fun[x] = 2 => d.val[x]["u"] >= 0},
        UpToTwo, FewLabels(1))
=============================================================================
