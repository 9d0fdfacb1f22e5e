------------------------------- MODULE MCFields -------------------------------
EXTENDS Fields

MCHalf == [w \in Widths |-> IF w = "short" THEN 2 ELSE IF w = "int" THEN 4 ELSE 8]
MCSample(t) == {Lowest(t), Highest(t)}

CInt == [signed |-> TRUE, width |-> "int"]

Arg(kind, dir, boxed, has, want) ==
    [name |-> "a", kind |-> kind, dir |-> dir, count |-> 1, wire |-> CInt, client |-> CInt,
     server |-> CInt, boxed |-> boxed, has |-> has, want |-> want]
Named(d, n) == [d EXCEPT !.name = n]

\* A method whose Results struct is in the order of its declarations, and one with
\* any order of it.
Method(args, throws, returns) ==
    [args |-> args, throws |-> throws, returns |-> returns,
     order |-> [i \in 1..(Len(args) + Len(throws) + Len(returns)) |-> i]]
AnyOrder(m) ==
    {o \in {[m EXCEPT !.order = f] : f \in Bijection(DOMAIN m.order, DOMAIN m.order)} : WellOrdered(o)}

Directions == {"in", "out", "inout"}

\* Integers of all types that both processes may use, one at a time.
Integer1 ==
    {[Arg("value", dir, FALSE, FALSE, FALSE) EXCEPT !.wire = w, !.client = c, !.server = s] :
        dir \in Directions, w, c, s \in IntType}

\* Arguments with every kind of declaration.
Arguments ==
    {Arg("value", dir, FALSE, FALSE, FALSE) : dir \in Directions}
    \union {[Arg("value", "in", TRUE, FALSE, FALSE) EXCEPT !.count = n] : n \in {0, 2}}
    \union {Arg("skipped", "in", FALSE, FALSE, FALSE)}
    \union {Arg("pointer", dir, FALSE, FALSE, want) : dir \in Directions, want \in BOOLEAN}
    \union {Arg(kind, dir, boxed, has, FALSE) :
               kind \in {"optional", "shared"}, dir \in Directions, boxed, has \in BOOLEAN}

\* Arguments to combine with others.
Some ==
    {Arg("value", "out", FALSE, FALSE, FALSE), Arg("value", "inout", FALSE, FALSE, FALSE),
     [Arg("value", "in", TRUE, FALSE, FALSE) EXCEPT !.count = 0],
     Arg("skipped", "in", FALSE, FALSE, FALSE),
     Arg("pointer", "out", FALSE, FALSE, TRUE), Arg("optional", "inout", FALSE, TRUE, FALSE)}

\* Arguments to place anywhere in the Results struct.
Ordered ==
    {Arg("value", "out", FALSE, FALSE, FALSE), Arg("value", "inout", FALSE, FALSE, FALSE),
     [Arg("value", "out", TRUE, FALSE, FALSE) EXCEPT !.count = 0],
     Arg("skipped", "out", FALSE, FALSE, FALSE)}

Throws == {<<>>, <<"base">>, <<"derived">>, <<"base", "derived">>, <<"derived", "base">>}
Returns == {<<>>, <<Named(Arg("value", "out", FALSE, FALSE, FALSE), "result")>>,
            <<Named(Arg("optional", "out", FALSE, TRUE, FALSE), "result")>>}

MCMethods ==
    {Method(<<d>>, <<>>, <<>>) : d \in Integer1}
    \union {Method(<<d>>, t, r) : d \in Arguments, t \in Throws, r \in Returns}
    \union {Method(<<p[1], Named(p[2], "b")>>, t, <<>>) :
               p \in (Arguments \X Some) \union (Some \X Arguments),
               t \in {<<>>, <<"base">>}}
    \union UNION {AnyOrder(Method(<<p[1], Named(p[2], "b")>>, t, r)) :
                     p \in Ordered \X Ordered, t \in {<<"base">>, <<"base", "derived">>}, r \in Returns}
=============================================================================
