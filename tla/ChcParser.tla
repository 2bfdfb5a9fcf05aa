------------------------------ MODULE ChcParser ------------------------------
(***************************************************************************)
(* seahorn_smtlib2_parser: from the rules and queries Z3 reads to the      *)
(* clauses of the teacher, and the counterexamples check_chc makes of them *)
(* (extract_datapoint).                                                    *)
(*                                                                         *)
(* A formula is built with "and", "or", "not" and other applications ("=>",*)
(* "ite", ...) from relations and from formulas of the theory, which are   *)
(* given by the valuations of the rule's variables that satisfy them; one  *)
(* of these is a constant if it is a quantified variable of type Bool,     *)
(* which parse replaces by a constant.  The table of another application   *)
(* says, for a valuation, which sets of true arguments make it true.       *)
(* A term is a literal, a variable or compound, and a function of the      *)
(* valuation.  A rule is a fact or an implication, with or without         *)
(* quantifier.  Bool values are 0 and 1.                                   *)
(***************************************************************************)
EXTENDS Integers, Sequences, FiniteSets

CONSTANTS
  Valuation,      \* the valuations of the variables of a rule
  VerifierError,  \* the relation verifier.error
  Renamed,        \* the names of the 1-ary relations that replace 0-ary ones
  Formula,        \* the formulas, preprocessed ones and parts included
  Height,         \* of a formula: higher than those of its parts
  Systems         \* the systems of rules and queries that are read

Literal(n)  == [form |-> "literal", val |-> [v \in Valuation |-> n]]
Variable(f) == [form |-> "variable", val |-> f]
Compound(f) == [form |-> "compound", val |-> f]

Rel(r, args) == [op |-> "rel", rel |-> r, args |-> args]
Theory(S)    == [op |-> "theory", holds |-> S, const |-> FALSE, args |-> <<>>]
BoolConst(S) == [op |-> "theory", holds |-> S, const |-> TRUE, args |-> <<>>]
And(args)    == [op |-> "and", args |-> args]
Or(args)     == [op |-> "or", args |-> args]
Not(f)       == [op |-> "not", args |-> <<f>>]

App(table, args) == [op |-> "app", table |-> table, args |-> args]
Implies(f, g)    == App([v \in Valuation |-> {{}, {2}, {1, 2}}], <<f, g>>)

(* The left-hand side of a rule: a formula, or none for a fact. *)
Fact(forall, f)      == [forall |-> forall, lhs |-> {}, rhs |-> f]
Rule(forall, f, rhs) == [forall |-> forall, lhs |-> {f}, rhs |-> rhs]

IsFormula(f) ==
  /\ f.args \in Seq({f.args[k] : k \in DOMAIN f.args})
  /\ \/ f.op = "rel" /\ (f.args = <<>> => f.rel \in DOMAIN Renamed)
     \/ f.op = "theory" /\ f.args = <<>>
     \/ /\ f.op \in {"and", "or", "not", "app"}
        /\ f.op = "not" => Len(f.args) = 1
        /\ \A k \in DOMAIN f.args : f.args[k] \in Formula /\ Height[f.args[k]] < Height[f]

IsSystem(s) ==
  /\ \A r \in s.rules :
       /\ r.rhs \in Formula
       /\ r.lhs \subseteq Formula /\ \A f, g \in r.lhs : f = g
  /\ s.queries \subseteq Formula

(* New names are made with "@". *)
ASSUME RenamedAssumption == \A r \in DOMAIN Renamed : Renamed[r] # VerifierError
ASSUME HeightAssumption == Height \in [Formula -> Nat]
ASSUME FormulaAssumption == \A f \in Formula : IsFormula(f)
ASSUME SystemsAssumption == \A s \in Systems : IsSystem(s)

-----------------------------------------------------------------------------
(* preprocess_expressions: a relation without arguments becomes a relation *)
(* of the argument true.                                                   *)
Preprocessed[f \in Formula] ==
  IF f.op = "rel"
  THEN IF f.args = <<>> THEN Rel(Renamed[f.rel], <<Literal(1)>>) ELSE f
  ELSE IF f.op = "theory"
       THEN f
       ELSE LET args == [k \in DOMAIN f.args |-> Preprocessed[f.args[k]]]
            IN  IF f.op = "app" THEN App(f.table, args) ELSE [op |-> f.op, args |-> args]

ASSUME PreprocessedAssumption == \A f \in Formula : Preprocessed[f] \in Formula

PreprocessedRule(r) ==
  [forall |-> r.forall, lhs |-> {Preprocessed[f] : f \in r.lhs}, rhs |-> Preprocessed[r.rhs]]

(* extract_relations: what it collects, and its assertions.  It descends   *)
(* into any application; only "not" changes the polarity.                  *)
ExtractAll[f \in Formula] ==
  IF f.op = "rel" THEN {f} ELSE UNION {ExtractAll[f.args[k]] : k \in DOMAIN f.args}

(* Mutant: the arguments of an argument are not visited. *)
ExtractOneLevel(f) ==
  IF f.op = "rel" THEN {f} ELSE {f.args[k] : k \in {j \in DOMAIN f.args : f.args[j].op = "rel"}}

ExtractRelations(f) == ExtractAll[f]

Polarity(f, isNegated) == IF f.op = "not" THEN ~ isNegated ELSE isNegated

AssertsHold[f \in Formula] ==
  [isNegated \in BOOLEAN |->
     IF f.op = "rel"
     THEN f.rel # VerifierError /\ ~ isNegated
     ELSE \A k \in DOMAIN f.args : AssertsHold[f.args[k]][Polarity(f, isNegated)]]

Literals(f) == \A k \in DOMAIN f.args : f.args[k].form = "literal"
Consts(f)   == \A k \in DOMAIN f.args : f.args[k].form # "compound"

(* Z3_OP_UNINTERPRETED: the declaration of a relation, or of a constant. *)
IsUninterpreted(f) == f.op = "rel" \/ (f.op = "theory" /\ f.const)

(* parse goes on with a preprocessed rule, or with a query.  The number of *)
(* arguments is tested for facts only.                                     *)
AcceptsFact(r) ==
  /\ r.rhs.op = "rel"
  /\ r.rhs.rel = VerifierError \/ Literals(r.rhs) \/ (r.forall /\ Consts(r.rhs))

AcceptsRule(r) ==
  /\ r.forall
  /\ \A f \in r.lhs : (f.op = "and" \/ IsUninterpreted(f)) /\ AssertsHold[f][FALSE]
  /\ IsUninterpreted(r.rhs) /\ AssertsHold[r.rhs][FALSE]

Accepts(r) == IF r.lhs = {} THEN AcceptsFact(r) ELSE AcceptsRule(r)

AcceptsQuery(q) == q.op = "rel" /\ q.rel # VerifierError /\ Literals(q)

(* Mutant: premises are extracted from the whole rule. *)
PremisesAndHead(r) == UNION {ExtractRelations(f) : f \in r.lhs \cup {r.rhs}}

Premises(r) == UNION {ExtractRelations(f) : f \in r.lhs}

(* constrainted_horn_clause: predicates_in_lhs and predicates_in_rhs, and  *)
(* the two sides of the expression that is sent to Z3.                     *)
RuleClause(r) ==
  [lhs |-> Premises(r), rhs |-> ExtractRelations(r.rhs), body |-> r.lhs, head |-> {r.rhs}]
QueryClause(q) == [lhs |-> {q}, rhs |-> {}, body |-> {q}, head |-> {}]

(* uninterpreted_predicates *)
ClauseRelations(c) == {f.rel : f \in c.lhs \cup c.rhs}

(* A fact about verifier.error is not needed: no premise and no query is   *)
(* about this relation.                                                    *)
Skipped(r) == r.lhs = {} /\ r.rhs.rel = VerifierError /\ r.rhs.args # <<>>

Chcs(s) ==
  LET rules == {PreprocessedRule(r) : r \in s.rules}
  IN  {RuleClause(r) : r \in {q \in rules : ~ Skipped(q)}}
        \cup {QueryClause(Preprocessed[q]) : q \in s.queries}

(* collect_and_replace_relations: the relations a conjecture is learned    *)
(* for.                                                                    *)
RelationsIn(s) ==
  LET all == (UNION {r.lhs \cup {r.rhs} : r \in s.rules}) \cup s.queries
  IN  {g.rel : g \in UNION {ExtractAll[Preprocessed[f]] : f \in all}} \ {VerifierError}

Parses(s) ==
  /\ \A r \in s.rules : Accepts(PreprocessedRule(r))
  /\ \A q \in s.queries : AcceptsQuery(Preprocessed[q])

-----------------------------------------------------------------------------
(* A relation applied to values, the truth of a formula if the relations   *)
(* are true of T, and of an implication.                                   *)
PointAt(f, v) == <<f.rel, [k \in DOMAIN f.args |-> f.args[k].val[v]]>>

Truth(v, T) ==
  LET true[f \in Formula] ==
        \/ f.op = "rel" /\ PointAt(f, v) \in T
        \/ f.op = "theory" /\ v \in f.holds
        \/ f.op = "and" /\ \A k \in DOMAIN f.args : true[f.args[k]]
        \/ f.op = "or" /\ \E k \in DOMAIN f.args : true[f.args[k]]
        \/ f.op = "not" /\ ~ true[f.args[1]]
        \/ f.op = "app" /\ {k \in DOMAIN f.args : true[f.args[k]]} \in f.table[v]
  IN  true

True(f, v, T) == Truth(v, T)[f]

TrueRule(lhs, rhs, v, T) == (\A f \in lhs : True(f, v, T)) => \E f \in rhs : True(f, v, T)

(* The elements of a set, in any order. *)
Listed(S) == CHOOSE s \in [1 .. Cardinality(S) -> S] : \A f \in S : \E k \in DOMAIN s : s[k] = f

(* extract_datapoint, for each relation of a clause. *)
PointsAt(S, v) == [k \in 1 .. Cardinality(S) |-> PointAt(Listed(S)[k], v)]

Extracted(c, v) == [lhs |-> PointsAt(c.lhs, v), rhs |-> PointsAt(c.rhs, v)]

(* What check_chc may return if the conjectures are true of T. *)
Counterexamples(c, T) ==
  {Extracted(c, v) : v \in {w \in Valuation : ~ TrueRule(c.body, c.head, w, T)}}

(* A counterexample as the learner reads it. *)
Admits(i, T) ==
  (\A k \in DOMAIN i.lhs : i.lhs[k] \in T) => \E k \in DOMAIN i.rhs : i.rhs[k] \in T

-----------------------------------------------------------------------------
PointsIn(c) == {PointAt(f, v) : f \in c.lhs \cup c.rhs, v \in Valuation}

SystemPoints(s) == UNION {PointsIn(c) : c \in Chcs(s)}

(* What the relations of the file are true of, if those of the clauses are *)
(* true of T.                                                              *)
Original(T) ==
  T \cup {<<r, <<>>>> : r \in {q \in DOMAIN Renamed : <<Renamed[q], <<1>>>> \in T}}

SolvesFile(s, T) ==
  /\ \A r \in s.rules : \A v \in Valuation :
       Skipped(r) \/ TrueRule(r.lhs, {r.rhs}, v, Original(T))
  /\ \A q \in s.queries : \A v \in Valuation : ~ True(q, v, Original(T))

(* The operators above the relations of a formula, with their polarity. *)
Above[f \in Formula] ==
  [isNegated \in BOOLEAN |->
     IF f.op = "rel" \/ ExtractAll[f] = {}
     THEN {}
     ELSE {<<f.op, isNegated>>}
            \cup UNION {Above[f.args[k]][Polarity(f, isNegated)] : k \in DOMAIN f.args}]

AboveRelations(c) == UNION {Above[f][FALSE] : f \in c.body}

(* No relation is below another operator than "and", "or" and "not"; none  *)
(* is below a disjunction, or a negated conjunction, either.               *)
Plain(c) == \A n \in BOOLEAN : <<"app", n>> \notin AboveRelations(c)

Conjunctive(c) ==
  /\ Plain(c)
  /\ <<"or", FALSE>> \notin AboveRelations(c) /\ <<"and", TRUE>> \notin AboveRelations(c)

SoundOn(s) ==
  Parses(s) =>
    /\ \A c \in Chcs(s) : ClauseRelations(c) \subseteq RelationsIn(s)
    /\ (\A c \in Chcs(s) : Plain(c)) =>
         \A U \in SUBSET SystemPoints(s) : SolvesFile(s, U) =>
           \A c \in Chcs(s) : \A T \in SUBSET PointsIn(c) :
             \A i \in Counterexamples(c, T) : Admits(i, U)

RefutingOn(s) ==
  Parses(s) /\ (\A c \in Chcs(s) : Conjunctive(c)) =>
    /\ \A c \in Chcs(s) : \A T \in SUBSET PointsIn(c) :
         \A i \in Counterexamples(c, T) : ~ Admits(i, T)
    /\ \A T \in SUBSET SystemPoints(s) :
         (\A c \in Chcs(s) : Counterexamples(c, T) = {}) => SolvesFile(s, T)

AllSound    == \A s \in Systems : SoundOn(s)
AllRefuting == \A s \in Systems : RefutingOn(s)
=============================================================================
