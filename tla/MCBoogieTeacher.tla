--------------------------- MODULE MCBoogieTeacher ---------------------------
(***************************************************************************)
(* Instances of BoogieTeacher for TLC: a function "f" with the points a    *)
(* and b, a function "g" with the point c, and two implementations.  The   *)
(* values of b are beyond the first bound, those of c beyond the last one  *)
(* in half of the programs.                                                *)
(***************************************************************************)
EXTENDS BoogieTeacher

CONSTANTS a, b, c

FG == [x \in {a, b, c} |-> IF x = c THEN "g" ELSE "f"]

Shape(lhs, rhs) == [lhs |-> lhs, rhs |-> rhs]

Facts   == {Shape(<<>>, a), Shape(<<>>, c)}
Queries == {Shape(<<a>>, FalseDp), Shape(<<b>>, FalseDp), Shape(<<c>>, FalseDp),
            Shape(<<a, c>>, FalseDp)}
Steps   == {Shape(<<a>>, b), Shape(<<b>>, a), Shape(<<a>>, c), Shape(<<c>>, b),
            Shape(<<a, c>>, b)}
RealError == Shape(<<>>, FalseDp)

(* The level of an instance is that of its largest value. *)
Level(i, far) ==
  LET occurs(x) == x \in PremisesOf(i) \cup {i.rhs}
  IN  IF occurs(c) /\ far THEN 2 ELSE IF occurs(b) THEN 1 ELSE 0

(* The two implementations with the instances M and N. *)
Program(M, N, ints, first, far) ==
  [vc |-> [m \in {"m", "n"} |->
             {[lhs |-> i.lhs, rhs |-> i.rhs,
               level |-> IF m \in ints THEN Level(i, far) ELSE 0] :
                i \in IF m = "m" THEN M ELSE N}],
   ints |-> ints,
   priority |-> [m \in {"m", "n"} |-> IF m = first THEN 0 ELSE 1]]

(* One asserts facts and queries, the other carries one step or two; or    *)
(* the queries are with the step; or there is an error in any case.        *)
AllPrograms ==
  {Program({f, q}, {s}, {"m", "n"}, first, far) :
     f \in Facts, q \in Queries, s \in Steps, first \in {"m", "n"}, far \in BOOLEAN}
  \cup {Program({f}, {s, q}, {"n"}, "m", FALSE) : f \in Facts, q \in Queries, s \in Steps}
  \cup {Program({f, q}, {s, t}, {"m", "n"}, "m", FALSE) :
          f \in Facts, q \in Queries, s, t \in Steps}
  \cup {Program({f, RealError}, {s}, {"m"}, "n", FALSE) : f \in Facts, s \in Steps}

AnyOptions == {[bounds |-> TRUE, prephase |-> TRUE], [bounds |-> TRUE, prephase |-> FALSE],
               [bounds |-> FALSE, prephase |-> FALSE]}
=============================================================================
