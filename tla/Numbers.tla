------------------------------- MODULE Numbers -------------------------------
(***************************************************************************)
(* Integers in messages (type-number.h): the static assertions that accept *)
(* a pair of a Cap'n Proto and a C++ integer type, the conversion that     *)
(* builds a field, and the range check that reads it.  Both compare values *)
(* of different types, so the usual arithmetic conversions of C++ decide.  *)
(*                                                                         *)
(* Widths stand for the ranks of integer types: narrower than int, int,    *)
(* and wider.  Half[w] is half the number of values of width w.            *)
(***************************************************************************)
EXTENDS Integers

CONSTANT Half

Widths == {"short", "int", "long"}

ASSUME HalfAssumption ==
    /\ Half \in [Widths -> Nat \ {0}]
    /\ 2 * Half["short"] <= Half["int"]
    /\ 2 * Half["int"] <= Half["long"]

IntType == [signed : BOOLEAN, width : Widths]

\* std::numeric_limits
Lowest(t) == IF t.signed THEN -Half[t.width] ELSE 0
Highest(t) == IF t.signed THEN Half[t.width] - 1 ELSE 2 * Half[t.width] - 1
Values(t) == Lowest(t)..Highest(t)

\* The value of type t congruent to v modulo 2^n.
Convert(v, t) == Lowest(t) + ((v - Lowest(t)) % (2 * Half[t.width]))

Promote(t) == IF t.width = "short" THEN [signed |-> TRUE, width |-> "int"] ELSE t

\* The type in which values of two promoted types are compared: the wider one,
\* and of the same width the unsigned one.
Wider(s, t) ==
    IF s.width = t.width THEN [signed |-> s.signed /\ t.signed, width |-> s.width]
    ELSE IF s.width = "long" THEN s ELSE t
Common(s, t) == Wider(Promote(s), Promote(t))

\* v < u, for v of type s and u of type t.
Less(v, s, u, t) == Convert(v, Common(s, t)) < Convert(u, Common(s, t))

\* The static assertions of BuildPrimitive, "mismatched integral types".
Accepted(wire, local) ==
    /\ ~Less(Lowest(local), local, Lowest(wire), wire)
    /\ ~Less(Highest(wire), wire, Highest(local), local)

\* BuildPrimitive: the implicit conversion of `return value'.
BuildPrimitive(v, wire) == Convert(v, wire)

\* Variant of OutOfBound: only the upper bound is checked.
AboveBound(v, wire, local) == Less(Highest(local), local, v, wire)

\* CustomReadField throws "out of bound int received".
OutOfBound(v, wire, local) ==
    \/ Less(v, wire, Lowest(local), local)
    \/ Less(Highest(local), local, v, wire)

\* ... and else converts.
ReadPrimitive(v, local) == Convert(v, local)

\* The pairs that are accepted although every value read throws: a signed C++
\* type with an unsigned field at least as wide as int.
Unreadable(wire, local) == ~wire.signed /\ local.signed /\ wire.width # "short"
=============================================================================
