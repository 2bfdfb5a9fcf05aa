---------------------------- MODULE MCChcTeacher ----------------------------
(***************************************************************************)
(* Instances of ChcTeacher and ChcParser for TLC: the clauses of the       *)
(* teacher are those the parser reads.  A relation p of two arguments, of  *)
(* which the second is always 0, and a relation q without arguments: the   *)
(* points are p(0,0), p(1,0) and q@(true).                                 *)
(***************************************************************************)
EXTENDS ChcSystem

Values == {0, 1}
QAt == [r \in {"q"} |-> "q@"]

P(t) == Rel("p", <<t, Literal(0)>>)
X    == Variable([v \in Values |-> v])
Flip == Compound([v \in Values |-> 1 - v])
XIs(n) == Theory({n})
B    == BoolConst({1})
Q    == Rel("q", <<>>)
P0   == P(Literal(0))
P1   == P(Literal(1))
Err  == Rel("verifier.error", <<Literal(0)>>)

(* Facts, rules and queries.  Conjunctions may be nested, a body or a head *)
(* may be a Bool constant, and one of the facts is about verifier.error.   *)
Facts   == {Fact(FALSE, P0), Fact(FALSE, P1), Fact(TRUE, P(X)), Fact(FALSE, Q)}
Bodies  == {P(X)} \cup {And(<<P(X), XIs(n)>>) : n \in Values}
Steps   == {Rule(TRUE, f, P(Flip)) : f \in Bodies}
Exits   == {Rule(TRUE, f, Q) :
              f \in Bodies \cup {And(<<P0, P1>>), And(<<P(X), Not(Not(P0))>>)}}
Entries == {Rule(TRUE, Q, P(X)), Rule(TRUE, And(<<Q, XIs(0)>>), P(X)),
            Rule(TRUE, And(<<And(<<Q>>), XIs(1)>>), P(X))}
Both    == {Rule(TRUE, And(<<Q, f>>), P(Flip)) : f \in Bodies}
Bools   == {Rule(TRUE, B, P(X)), Rule(TRUE, And(<<P0, P1>>), B), Rule(TRUE, And(<<Q, P(X)>>), B),
            Rule(TRUE, P(X), B)}
Rules   == UNION {Steps, Exits, Entries, Both, Bools}
Queries == {P0, Q}

System(rules, queries) == [rules |-> rules, queries |-> queries]

(* A fact, at most one rule and at most one query; and loops: a fact, a    *)
(* step, an exit with one premise and a query.                             *)
SmallSystems ==
  {System({f, r}, {g}) : f \in Facts, r \in Rules, g \in Queries}
    \cup {System({f, r, Fact(FALSE, Err)}, {}) : f \in Facts, r \in Rules}
    \cup {System({f}, {g}) : f \in Facts, g \in Queries}
    \cup {System({f, g}, {}) : f, g \in Facts}

LoopSystems ==
  {System({f, r, Rule(TRUE, b, Q)}, {g}) : f \in Facts, r \in Steps, g \in Queries,
                                           b \in Bodies}

(* Systems the parser reads but the teacher's clauses do not stand for:    *)
(* disjunctions and implications; implications without relation; and       *)
(* systems it refuses.                                                     *)
OtherRules ==
  {Rule(TRUE, And(<<Or(<<P(X), f>>), XIs(n)>>), h) : f \in {Q, P0}, n \in Values, h \in {Q, P1}}
    \cup {Rule(TRUE, And(<<Not(And(<<Not(P0), Not(Q)>>))>>), P1),
          Rule(TRUE, And(<<Or(<<XIs(0), XIs(1)>>), P(X)>>), Q), Rule(TRUE, And(<<Q>>), XIs(0)),
          Rule(TRUE, And(<<Implies(P0, XIs(1)), P1, XIs(0)>>), Q),
          Rule(TRUE, And(<<Implies(XIs(0), XIs(1)), P(X)>>), Q),
          Rule(TRUE, And(<<Not(Implies(Q, XIs(1)))>>), P1),
          Rule(TRUE, Or(<<P(X), Q>>), P1), Rule(TRUE, And(<<Not(P(X)), Q>>), P1),
          Rule(FALSE, Q, P1), Rule(TRUE, And(<<P0, Err>>), Q), Rule(TRUE, P0, Err),
          Rule(TRUE, XIs(0), P(X)), Rule(TRUE, B, B), Fact(FALSE, B), Fact(TRUE, P(Flip)),
          Fact(FALSE, P(X))}

OtherSystems == {System({f, r}, {g}) : f \in Facts, r \in OtherRules, g \in Queries}

AllSystems == SmallSystems \cup LoopSystems \cup OtherSystems

(* The formulas of the rules, with their parts, before and after q is      *)
(* replaced.                                                               *)
Atoms == {Q, Rel("q@", <<Literal(1)>>), P0, P1, P(X), P(Flip), Err, XIs(0), XIs(1), B}
WithQ(q) ==
  {And(<<q>>), Not(q), Or(<<P(X), q>>), And(<<q, XIs(0)>>), And(<<And(<<q>>), XIs(1)>>),
   And(<<q, P(X)>>), And(<<q, And(<<P(X), XIs(0)>>)>>), And(<<q, And(<<P(X), XIs(1)>>)>>),
   And(<<Or(<<P(X), q>>), XIs(0)>>), And(<<Or(<<P(X), q>>), XIs(1)>>), And(<<Not(P(X)), q>>),
   Implies(q, XIs(1)), Not(Implies(q, XIs(1))), And(<<Not(Implies(q, XIs(1)))>>),
   And(<<Not(P0), Not(q)>>), Not(And(<<Not(P0), Not(q)>>)), And(<<Not(And(<<Not(P0), Not(q)>>))>>)}
WithoutQ ==
  {And(<<P(X), XIs(0)>>), And(<<P(X), XIs(1)>>), And(<<P0, P1>>), Not(P0), Not(Not(P0)),
   And(<<P(X), Not(Not(P0))>>), Or(<<P(X), P0>>), And(<<Or(<<P(X), P0>>), XIs(0)>>),
   And(<<Or(<<P(X), P0>>), XIs(1)>>), Or(<<XIs(0), XIs(1)>>),
   Implies(P0, XIs(1)), And(<<Implies(P0, XIs(1)), P1, XIs(0)>>), Implies(XIs(0), XIs(1)),
   And(<<Implies(XIs(0), XIs(1)), P(X)>>), And(<<Or(<<XIs(0), XIs(1)>>), P(X)>>), Not(P(X)), And(<<P0, Err>>)}

Formulas == UNION {Atoms, WithoutQ, WithQ(Q), WithQ(Rel("q@", <<Literal(1)>>))}

(* A formula with its parts, to the depth that occurs. *)
Parts(S) ==
  S \cup UNION {{f.args[k] : k \in DOMAIN f.args} : f \in {g \in S : g.op # "rel"}}

PartCount == [f \in Formulas |-> Cardinality(Parts(Parts(Parts(Parts({f})))))]

-----------------------------------------------------------------------------
Points == {<<"p", <<0, 0>>>>, <<"p", <<1, 0>>>>, <<"q@", <<1>>>>}
PQ == [x \in Points |-> x[1]]
WidePoints == {x \in Points : Len(x[2]) > 1}

AllProblems == {ProblemOf(s) : s \in {t \in SmallSystems \cup LoopSystems : Parses(t)}}
=============================================================================
