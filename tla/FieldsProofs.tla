---------------------------- MODULE FieldsProofs ----------------------------
(***************************************************************************)
(* Proofs about Fields and Numbers, for methods with any number of         *)
(* arguments and for integer types of any size.                            *)
(*                                                                         *)
(* The recursive functions of the model (FlattenSeq, First, Flying) are    *)
(* defined first, by an induction over sets of numbers.  From what         *)
(* MethodsAssumption says of a method follows how mpgen pairs the fields   *)
(* of its structs with its declarations (Paired): a field for each of      *)
(* them, standing for as many values as the method has parameters for it,  *)
(* and in their order where Wraps asks for one (Sequenced).  CallInv then  *)
(* says, for each phase of a call, what the fields before the one at work  *)
(* hold: ParamsOK of the request, PassedOK of the arguments of the method, *)
(* ResultsOK of the response and ReadOK of the variables of the caller.    *)
(* It is inductive, and TypeOK, NeverAltered and LikeLocalCall follow from *)
(* it.                                                                     *)
(***************************************************************************)
EXTENDS Fields, SequenceTheorems, WellFoundedInduction, TLAPS

----------------------------------------------------------------------------
(* Induction and lists.                                                    *)

\* A set that has 0 and with each number the next one has them all.
LEMMA SetInduction ==
    ASSUME NEW S, 0 \in S, \A n \in Nat : n \in S => n + 1 \in S
    PROVE  Nat \subseteq S
<1> DEFINE T == {n \in Nat : n \notin S}
<1>1. SUFFICES ASSUME T # {} PROVE FALSE
  OBVIOUS
<1>2. IsWellFoundedOn(OpToRel(<, Nat), Nat)
  BY Zenon, NatLessThanWellFounded
<1>3. PICK x \in T : \A y \in T : ~(<<y, x>> \in OpToRel(<, Nat))
  BY Zenon, <1>1, <1>2, WFMin
<1>4. \A y \in T : ~(y < x)
  BY <1>3 DEF OpToRel
<1>5. x \in Nat \ {0} /\ x - 1 \in Nat /\ (x - 1) + 1 = x /\ x \notin S
  OBVIOUS
<1>6. x - 1 \notin S
  BY <1>5
<1>7. QED
  BY <1>4, <1>5, <1>6

\* Induction up to a number.
LEMMA UpTo ==
    ASSUME NEW n \in Nat, NEW S, 0 \in S, \A i \in 0..(n - 1) : i \in S => i + 1 \in S
    PROVE  \A i \in 0..n : i \in S
<1> DEFINE T == {i \in Nat : i <= n => i \in S}
<1>1. 0 \in T
  OBVIOUS
<1>2. \A i \in Nat : i \in T => i + 1 \in T
  OBVIOUS
<1>3. Nat \subseteq T
  BY Zenon, <1>1, <1>2, SetInduction
<1>4. QED
  BY <1>3

\* u is s followed by t.
Joined(u, s, t) ==
    /\ Len(s) \in Nat /\ Len(t) \in Nat /\ Len(u) = Len(s) + Len(t)
    /\ \A n \in 1..Len(s) : u[n] = s[n]
    /\ \A n \in 1..Len(t) : u[Len(s) + n] = t[n]

\* The elements of two sequences, one after the other.
LEMMA Concat ==
    ASSUME NEW S, NEW s \in Seq(S), NEW t \in Seq(S)
    PROVE  s \o t \in Seq(S) /\ Joined(s \o t, s, t)
BY ConcatProperties, LenProperties DEF Joined

\* A sequence of n equal elements.
LEMMA Block == ASSUME NEW S, NEW n \in Nat, NEW e \in S
               PROVE  [j \in 1..n |-> e] \in Seq(S) /\ Len([j \in 1..n |-> e]) = n
<1>1. [j \in 1..n |-> e] \in [1..n -> S]
  OBVIOUS
<1>2. QED
  BY <1>1, SeqDef

\* f is defined from b and step by recursion up to N.
Iterates(f, N, X, b, step) ==
    f[0] = b /\ (\A i \in 0..N : f[i] \in X) /\ \A i \in 1..N : f[i] = step[i][f[i - 1]]

\* A function that is b at 0 and takes the steps 1..N exists.
LEMMA Recursion ==
    ASSUME NEW N \in Nat, NEW X, NEW b \in X, NEW step, \A i \in 1..N : \A x \in X : step[i][x] \in X
    PROVE  \E f : Iterates(f, N, X, b, step)
<1> DEFINE T == {n \in Nat : n <= N => \E f : Iterates(f, n, X, b, step)}
<1>1. 0 \in T
  <2>1. [i \in 0..0 |-> b][0] = b
    OBVIOUS
  <2>2. Iterates([i \in 0..0 |-> b], 0, X, b, step)
    BY <2>1 DEF Iterates
  <2>3. QED
    BY <2>2
<1>2. ASSUME NEW n \in Nat, n \in T PROVE n + 1 \in T
  <2>1. SUFFICES ASSUME n + 1 <= N PROVE \E f : Iterates(f, n + 1, X, b, step)
    OBVIOUS
  <2>2. PICK f : Iterates(f, n, X, b, step)
    BY <1>2, <2>1
  <2> DEFINE g == [i \in 0..(n + 1) |-> IF i <= n THEN f[i] ELSE step[n + 1][f[n]]]
  <2>3. f[n] \in X /\ n + 1 \in 1..N
    BY <2>1, <2>2 DEF Iterates
  <2>4. step[n + 1][f[n]] \in X
    BY <2>3
  <2>5. g[0] = b /\ \A i \in 0..(n + 1) : g[i] \in X
    BY <2>2, <2>4 DEF Iterates
  <2>6. ASSUME NEW i \in 1..(n + 1) PROVE g[i] = step[i][g[i - 1]]
    <3>1. CASE i <= n
      <4>1. g[i] = f[i] /\ g[i - 1] = f[i - 1] /\ i \in 1..n
        BY <3>1
      <4>2. QED
        BY <2>2, <4>1 DEF Iterates
    <3>2. CASE i = n + 1
      <4>1. g[i] = step[n + 1][f[n]] /\ g[i - 1] = f[n]
        BY <3>2
      <4>2. QED
        BY <3>2, <4>1
    <3>3. QED
      BY <3>1, <3>2
  <2>7. Iterates(g, n + 1, X, b, step)
    BY <2>5, <2>6 DEF Iterates
  <2>8. QED
    BY <2>7
<1>3. Nat \subseteq T
  BY Zenon, <1>1, <1>2, SetInduction
<1>4. QED
  BY <1>3

\* f and g are defined by the same recursion up to N.
Alike(f, g, N) == f[0] = g[0] /\ \A i \in 1..N : f[i - 1] = g[i - 1] => f[i] = g[i]

\* There is only one such function.
LEMMA SameRecursion ==
    ASSUME NEW N \in Nat, NEW f, NEW g, Alike(f, g, N)
    PROVE  \A i \in 0..N : f[i] = g[i]
<1> DEFINE T == {i \in Nat : f[i] = g[i]}
<1>1. 0 \in T
  BY DEF Alike
<1>2. ASSUME NEW i \in 0..(N - 1), i \in T PROVE i + 1 \in T
  <2>1. i + 1 \in 1..N /\ (i + 1) - 1 = i /\ f[i] = g[i]
    BY <1>2
  <2>2. f[(i + 1) - 1] = g[(i + 1) - 1] => f[i + 1] = g[i + 1]
    BY <2>1 DEF Alike
  <2>3. QED
    BY <2>1, <2>2
<1>3. \A i \in 0..N : i \in T
  <2> HIDE DEF T
  <2>1. QED
    BY <1>1, <1>2, UpTo
<1>4. QED
  BY <1>3

\* FlattenSeq and First are defined in this way.
Flattens(flat, ss, S) ==
    /\ \A i \in 0..Len(ss) : flat[i] \in Seq(S)
    /\ flat[0] = <<>>
    /\ \A i \in 1..Len(ss) : flat[i] = flat[i - 1] \o ss[i]
    /\ FlattenSeq(ss) = flat[Len(ss)]

\* The recursive function behind FlattenSeq exists.
LEMMA FlattenDefined ==
    ASSUME NEW S, NEW ss \in Seq(Seq(S))
    PROVE  \E flat : Flattens(flat, ss, S)
<1> DEFINE N == Len(ss)
           step == [i \in 1..N |-> [x \in Seq(S) |-> x \o ss[i]]]
<1>1. N \in Nat /\ <<>> \in Seq(S) /\ \A i \in 1..N : ss[i] \in Seq(S)
  BY ElementOfSeq
<1>2. \A i \in 1..N : \A x \in Seq(S) : x \o ss[i] \in Seq(S)
  BY <1>1, ConcatProperties
<1>3. \A i \in 1..N : \A x \in Seq(S) : step[i][x] = x \o ss[i]
  BY Zenon
<1> HIDE DEF N, step
<1>4. PICK f : Iterates(f, N, Seq(S), <<>>, step)
  BY Zenon, <1>1, <1>2, <1>3, Recursion
<1> DEFINE flat == [i \in 0..N |-> f[i]]
<1>41. flat \in [0..N -> Seq(S)] /\ flat[0] = <<>>
  BY <1>1, <1>4 DEF Iterates
<1>5. ASSUME NEW i \in 1..N PROVE flat[i] = flat[i - 1] \o ss[i]
  <2>1. i - 1 \in 0..N
    BY <1>1
  <2>2. flat[i - 1] \in Seq(S) /\ flat[i - 1] = f[i - 1] /\ flat[i] = f[i]
    BY <1>1, <1>41, <2>1
  <2>3. QED
    BY Zenon, <1>3, <1>4, <2>2 DEF Iterates
<1> HIDE DEF flat
<1>6. ASSUME N = 0 PROVE FlattenSeq(ss) = flat[N]
  <2>1. ss = <<>>
    BY <1>6 DEF N
  <2>2. FlattenSeq(ss) = <<>>
    BY <1>6, <2>1 DEF FlattenSeq, N
  <2>3. QED
    BY <1>41, <1>6, <2>2
<1>7. ASSUME N # 0 PROVE FlattenSeq(ss) = flat[N]
  <2> DEFINE g == [i \in 1..N |-> flat[i]]
             h == CHOOSE d : d = [i \in 1..N |-> IF i = 1 THEN ss[i] ELSE d[i - 1] \o ss[i]]
  <2>1. g = [i \in 1..N |-> IF i = 1 THEN ss[i] ELSE g[i - 1] \o ss[i]]
    <3>1. ASSUME NEW i \in 1..N PROVE flat[i] = IF i = 1 THEN ss[i] ELSE g[i - 1] \o ss[i]
      <4>1. CASE i = 1
        <5>1. flat[1] = <<>> \o ss[1] /\ ss[1] \in Seq(S)
          BY <1>1, <4>1, <1>41, <1>5, 1 - 1 = 0
        <5>2. flat[1] = ss[1]
          BY <5>1, ConcatEmptySeq
        <5>3. QED
          BY <4>1, <5>2
      <4>2. CASE i # 1
        <5>1. i - 1 \in 1..N
          BY <1>1, <4>2
        <5>2. g[i - 1] = flat[i - 1]
          BY <5>1
        <5>3. QED
          BY <1>5, <4>2, <5>2
      <4>3. QED
        BY <4>1, <4>2
    <3>2. QED
      BY Zenon, <3>1
  <2> HIDE DEF g
  <2>2. h = [i \in 1..N |-> IF i = 1 THEN ss[i] ELSE h[i - 1] \o ss[i]]
    BY Zenon, <2>1
  <2>3. FlattenSeq(ss) = h[N]
    BY <1>7 DEF FlattenSeq, N
  <2> HIDE DEF h
  <2> DEFINE k == [i \in 0..N |-> IF i = 0 THEN flat[0] ELSE h[i]]
  <2>4. \A i \in 0..N : k[i] = flat[i]
    <3>1. k[0] = flat[0]
      BY <1>1
    <3>2. ASSUME NEW i \in 1..N, k[i - 1] = flat[i - 1] PROVE k[i] = flat[i]
      <4>1. k[i] = h[i]
        OBVIOUS
      <4>2. h[i] = IF i = 1 THEN ss[i] ELSE h[i - 1] \o ss[i]
        BY <2>2
      <4>3. CASE i = 1
        <5>1. flat[1] = <<>> \o ss[1] /\ ss[1] \in Seq(S)
          BY <1>1, <4>3, <1>41, <1>5, 1 - 1 = 0
        <5>2. flat[1] = ss[1]
          BY <5>1, ConcatEmptySeq
        <5>3. QED
          BY <4>1, <4>2, <4>3, <5>2
      <4>4. CASE i # 1
        <5>1. k[i - 1] = h[i - 1]
          BY <1>1, <4>4
        <5>2. QED
          BY <1>5, <3>2, <4>1, <4>2, <4>4, <5>1
      <4>5. QED
        BY <4>3, <4>4
    <3> HIDE DEF k
    <3>3. Alike(k, flat, N)
      BY <3>1, <3>2 DEF Alike
    <3>4. QED
      BY Zenon, <1>1, <3>3, SameRecursion
  <2>5. h[N] = flat[N]
    BY <1>1, <1>7, <2>4
  <2>6. QED
    BY <2>3, <2>5
<1>8. Flattens(flat, ss, S)
  BY <1>41, <1>5, <1>6, <1>7 DEF Flattens, N
<1>9. QED
  BY <1>8

\* Where the values of each field start among those of all fields.
LEMMA FirstDefined ==
    ASSUME NEW c \in Seq(Nat)
    PROVE  /\ First(1, c) = 1
           /\ \A k \in 1..(Len(c) + 1) : First(k, c) \in Nat \ {0}
           /\ \A k \in 1..Len(c) : First(k + 1, c) = First(k, c) + c[k]
<1> DEFINE N == Len(c)
           step == [i \in 1..N |-> [x \in Nat \ {0} |-> x + c[i]]]
<1>1. N \in Nat /\ \A i \in 1..N : c[i] \in Nat
  BY ElementOfSeq
<1>2. \A i \in 1..N : \A x \in Nat \ {0} : step[i][x] = x + c[i] /\ step[i][x] \in Nat \ {0}
  BY <1>1
<1> HIDE DEF N, step
<1>21. PICK f : Iterates(f, N, Nat \ {0}, 1, step)
  <2>1. 1 \in Nat \ {0}
    OBVIOUS
  <2>2. QED
    BY Zenon, <1>1, <1>2, <2>1, Recursion
<1>3. f[0] = 1 /\ \A i \in 0..N : f[i] \in Nat \ {0}
  BY <1>21 DEF Iterates
<1>4. ASSUME NEW i \in 1..N PROVE f[i] = f[i - 1] + c[i]
  <2>1. i - 1 \in 0..N
    BY <1>1
  <2>2. QED
    BY <1>2, <1>21, <1>3, <2>1 DEF Iterates
<1> DEFINE g == [i \in 1..(N + 1) |-> f[i - 1]]
           h == CHOOSE first : first = [i \in 1..(N + 1) |-> IF i = 1 THEN 1 ELSE first[i - 1] + c[i - 1]]
<1>5. g = [i \in 1..(N + 1) |-> IF i = 1 THEN 1 ELSE g[i - 1] + c[i - 1]]
  <2>1. ASSUME NEW i \in 1..(N + 1) PROVE f[i - 1] = IF i = 1 THEN 1 ELSE g[i - 1] + c[i - 1]
    <3>1. CASE i = 1
      BY <1>3, <3>1
    <3>2. CASE i # 1
      <4>1. i - 1 \in 1..N
        BY <1>1, <3>2
      <4>2. g[i - 1] = f[(i - 1) - 1]
        BY <1>1, <4>1
      <4>3. QED
        BY <1>4, <3>2, <4>1, <4>2
    <3>3. QED
      BY <3>1, <3>2
  <2>2. QED
    BY Zenon, <2>1
<1> HIDE DEF g
<1>6. h = [i \in 1..(N + 1) |-> IF i = 1 THEN 1 ELSE h[i - 1] + c[i - 1]]
  BY Zenon, <1>5
<1>7. \A k \in 1..(N + 1) : First(k, c) = h[k]
  BY DEF First, N
<1> HIDE DEF h
<1> DEFINE e == [i \in 0..N |-> h[i + 1]]
<1>8. \A i \in 0..N : e[i] = f[i]
  <2>1. e[0] = f[0]
    BY <1>1, <1>3, <1>6
  <2>2. ASSUME NEW i \in 1..N, e[i - 1] = f[i - 1] PROVE e[i] = f[i]
    <3>1. e[i] = h[i + 1] /\ e[i - 1] = h[i]
      BY <1>1
    <3>2. h[i + 1] = h[i] + c[i]
      BY <1>1, <1>6
    <3>3. QED
      BY <1>4, <2>2, <3>1, <3>2
  <2> HIDE DEF e
  <2>3. Alike(e, f, N)
    BY <2>1, <2>2 DEF Alike
  <2>4. QED
    BY Zenon, <1>1, <2>3, SameRecursion
<1>9. \A k \in 1..(N + 1) : First(k, c) = f[k - 1]
  <2>1. SUFFICES ASSUME NEW k \in 1..(N + 1) PROVE First(k, c) = f[k - 1]
    OBVIOUS
  <2>2. k - 1 \in 0..N /\ (k - 1) + 1 = k
    BY <1>1
  <2>3. QED
    BY <1>7, <1>8, <2>2
<1>10. QED
  <2>1. First(1, c) = 1
    BY <1>1, <1>3, <1>9
  <2>2. \A k \in 1..(N + 1) : First(k, c) \in Nat \ {0}
    <3>1. SUFFICES ASSUME NEW k \in 1..(N + 1) PROVE First(k, c) \in Nat \ {0}
      OBVIOUS
    <3>2. k - 1 \in 0..N
      BY <1>1
    <3>3. QED
      BY <1>3, <1>9, <3>2
  <2>3. \A k \in 1..N : First(k + 1, c) = First(k, c) + c[k]
    BY <1>1, <1>4, <1>9
  <2>4. QED
    BY <2>1, <2>2, <2>3 DEF N

\* Where the values of each field are among those of all.
LEMMA FirstMonotone ==
    ASSUME NEW c \in Seq(Nat), NEW i \in 1..(Len(c) + 1), NEW j \in i..(Len(c) + 1)
    PROVE  First(i, c) <= First(j, c)
<1> DEFINE N == Len(c)
           T == {d \in Nat : i + d <= N + 1 => First(i, c) <= First(i + d, c)}
<1>1. /\ N \in Nat
      /\ \A k \in 1..(N + 1) : First(k, c) \in Nat \ {0}
      /\ \A k \in 1..N : c[k] \in Nat /\ First(k + 1, c) = First(k, c) + c[k]
  BY FirstDefined
<1> HIDE DEF N
<1>2. 0 \in T
  BY <1>1 DEF N
<1>3. ASSUME NEW d \in Nat, d \in T PROVE d + 1 \in T
  <2>1. SUFFICES ASSUME i + (d + 1) <= N + 1 PROVE First(i, c) <= First(i + (d + 1), c)
    OBVIOUS
  <2>2. i + d \in 1..N /\ i + (d + 1) = (i + d) + 1 /\ i \in 1..(N + 1)
    BY <1>1, <2>1 DEF N
  <2>3. First(i, c) <= First(i + d, c)
    BY <1>1, <1>3, <2>2
  <2>4. First((i + d) + 1, c) = First(i + d, c) + c[i + d]
    BY <1>1, <2>2
  <2>5. First(i, c) \in Nat /\ First(i + d, c) \in Nat /\ c[i + d] \in Nat
    BY <1>1, <2>2
  <2>6. QED
    BY <2>2, <2>3, <2>4, <2>5
<1>4. Nat \subseteq T
  BY Zenon, <1>2, <1>3, SetInduction
<1>5. j - i \in T /\ i + (j - i) = j /\ j <= N + 1
  <2>1. j - i \in Nat /\ i + (j - i) = j /\ j <= N + 1
    BY <1>1 DEF N
  <2>2. QED
    BY <1>4, <2>1
<1>6. QED
  BY <1>5

\* Every value is one of a field.
LEMMA FirstCovers ==
    ASSUME NEW c \in Seq(Nat), NEW n \in 1..(First(Len(c) + 1, c) - 1)
    PROVE  \E k \in 1..Len(c) : n - First(k, c) + 1 \in 1..c[k]
<1> DEFINE N == Len(c)
           Found == \E k \in 1..N : n - First(k, c) + 1 \in 1..c[k]
           T == {k \in Nat : k <= N => (n < First(k + 1, c) => Found)}
<1>1. /\ N \in Nat /\ First(1, c) = 1
      /\ \A k \in 1..(N + 1) : First(k, c) \in Nat \ {0}
      /\ \A k \in 1..N : c[k] \in Nat /\ First(k + 1, c) = First(k, c) + c[k]
  BY FirstDefined
<1>0. n \in Nat \ {0} /\ n < First(N + 1, c)
  BY <1>1
<1> HIDE DEF N
<1>2. 0 \in T
  BY <1>1, <1>0
<1>3. ASSUME NEW k \in Nat, k \in T PROVE k + 1 \in T
  <2>1. SUFFICES ASSUME k + 1 <= N, n < First((k + 1) + 1, c) PROVE Found
    OBVIOUS
  <2>2. k + 1 \in 1..N
    BY <1>1, <2>1
  <2>3. CASE n < First(k + 1, c)
    BY <1>1, <1>3, <2>1, <2>3
  <2>4. CASE ~(n < First(k + 1, c))
    <3>1. First((k + 1) + 1, c) = First(k + 1, c) + c[k + 1] /\ First(k + 1, c) \in Nat
          /\ c[k + 1] \in Nat
      BY <1>1, <2>2
    <3>2. n - First(k + 1, c) + 1 \in 1..c[k + 1]
      BY <1>0, <2>1, <2>4, <3>1
    <3>3. QED
      BY <2>2, <3>2
  <2>5. QED
    BY <2>3, <2>4
<1> HIDE DEF Found
<1>4. Nat \subseteq T
  BY Zenon, <1>2, <1>3, SetInduction
<1>5. Found
  BY <1>0, <1>1, <1>4
<1>6. QED
  BY <1>5 DEF Found, N

\* The lists ww are those of ss at the places pos, and the others are empty.
Sparse(ss, ww, pos, S) ==
    /\ ss \in Seq(Seq(S)) /\ ww \in Seq(Seq(S))
    /\ \A i \in 1..Len(ww) : pos[i] \in 1..Len(ss) /\ ss[pos[i]] = ww[i]
    /\ \A i, j \in 1..Len(ww) : i < j => pos[i] < pos[j]
    /\ \A k \in 1..Len(ss) : (\A i \in 1..Len(ww) : pos[i] # k) => ss[k] = <<>>

\* Fields that stand for no value do not move the others.
LEMMA FlattenSparse ==
    ASSUME NEW ss, NEW ww, NEW pos, NEW S, Sparse(ss, ww, pos, S)
    PROVE  FlattenSeq(ss) = FlattenSeq(ww)
<1> USE DEF Sparse
<1> DEFINE N == Len(ss)
           M == Len(ww)
           Between(i, k) == (\A j \in 1..i : pos[j] <= k) /\ \A j \in (i + 1)..M : k < pos[j]
<1>1. N \in Nat /\ M \in Nat
  OBVIOUS
<1>2. PICK f : Flattens(f, ss, S)
  BY FlattenDefined
<1>3. PICK g : Flattens(g, ww, S)
  BY FlattenDefined
<1>4. /\ f[0] = <<>> /\ FlattenSeq(ss) = f[N]
      /\ \A k \in 1..N : f[k] = f[k - 1] \o ss[k]
      /\ \A k \in 0..N : f[k] \in Seq(S)
  BY <1>2 DEF Flattens
<1>5. /\ g[0] = <<>> /\ FlattenSeq(ww) = g[M]
      /\ \A i \in 1..M : g[i] = g[i - 1] \o ww[i]
      /\ \A i \in 0..M : g[i] \in Seq(S)
  BY <1>3 DEF Flattens
<1> DEFINE Same(k) == \A i \in 0..M : Between(i, k) => f[k] = g[i]
           T == {k \in Nat : Same(k)}
<1>51. \A i \in 1..M : pos[i] \in 1..N /\ ss[pos[i]] = ww[i]
  OBVIOUS
<1>52. \A k \in 1..N : (\A i \in 1..M : pos[i] # k) => ss[k] = <<>>
  OBVIOUS
<1> HIDE DEF N, M
<1>6. 0 \in T
  <2>1. SUFFICES ASSUME NEW i \in 0..M, Between(i, 0) PROVE i = 0
    BY <1>4, <1>5
  <2>2. \A j \in 1..i : pos[j] <= 0 /\ pos[j] \in 1..N
    BY <1>1, <1>51, <2>1
  <2>3. QED
    BY <1>1, <2>2
<1>7. ASSUME NEW k \in 0..(N - 1), k \in T PROVE k + 1 \in T
  <2>0. k \in Nat /\ Same(k)
    BY <1>7
  <2>1. SUFFICES ASSUME NEW i \in 0..M, Between(i, k + 1) PROVE f[k + 1] = g[i]
    <3>1. SUFFICES Same(k + 1)
      <4> HIDE DEF Same
      <4>1. QED
        BY <2>0
    <3>2. QED
      OBVIOUS
  <2>2. k + 1 \in 1..N /\ (k + 1) - 1 = k /\ k \in 0..N
    <3> HIDE DEF Sparse
    <3>1. QED
      BY <1>1
  <2>3. f[k + 1] = f[k] \o ss[k + 1]
    BY <1>4, <2>2
  <2>4. \A j \in 1..M : pos[j] \in Nat
    BY <1>51
  <2>5. CASE i # 0 /\ pos[i] = k + 1
    <3>1. i \in 1..M /\ i - 1 \in 0..M
      BY <1>1, <2>5
    <3>2. ASSUME NEW j \in 1..(i - 1) PROVE pos[j] <= k
      <4>1. pos[j] < pos[i] /\ j \in 1..M
        BY <1>1, <3>1 DEF M
      <4>2. QED
        BY <2>4, <2>5, <4>1
    <3>3. ASSUME NEW j \in ((i - 1) + 1)..M PROVE k < pos[j]
      <4>1. CASE j = i
        BY <2>5, <4>1
      <4>2. CASE j # i
        <5>1. j \in (i + 1)..M /\ j \in 1..M
          BY <3>1, <4>2
        <5>2. k + 1 < pos[j]
          BY <2>1, <5>1
        <5>3. QED
          BY <2>4, <5>1, <5>2
      <4>3. QED
        BY <4>1, <4>2
    <3>4. f[k] = g[i - 1]
      BY <2>0, <3>1, <3>2, <3>3
    <3>5. g[i] = g[i - 1] \o ww[i] /\ ss[k + 1] = ww[i]
      BY <1>5, <1>51, <2>5, <3>1
    <3>6. QED
      BY <2>3, <3>4, <3>5
  <2>6. CASE ~(i # 0 /\ pos[i] = k + 1)
    <3>1. ASSUME NEW j \in 1..M PROVE pos[j] # k + 1 /\ (j \in 1..i => pos[j] <= k)
      <4>1. CASE j \in 1..i
        <5>1. pos[j] <= k + 1 /\ i \in 1..M
          BY <1>1, <2>1, <4>1
        <5>2. j # i => pos[j] < pos[i]
          BY <4>1, <5>1 DEF M
        <5>3. pos[i] <= k + 1
          BY <2>1, <5>1
        <5>4. QED
          BY <2>4, <2>6, <4>1, <5>1, <5>2, <5>3
      <4>2. CASE j \notin 1..i
        <5>1. j \in (i + 1)..M
          BY <1>1, <4>2
        <5>2. k + 1 < pos[j]
          BY <2>1, <5>1
        <5>3. QED
          BY <2>4, <4>2, <5>2
      <4>3. QED
        BY <4>1, <4>2
    <3>2. ss[k + 1] = <<>>
      BY <1>52, <2>2, <3>1
    <3>3. ASSUME NEW j \in (i + 1)..M PROVE k < pos[j]
      <4>1. k + 1 < pos[j] /\ j \in 1..M
        BY <1>1, <2>1
      <4>2. QED
        BY <2>4, <4>1
    <3>4. \A j \in 1..i : pos[j] <= k
      BY <1>1, <3>1
    <3>5. f[k] = g[i]
      BY <2>0, <3>3, <3>4
    <3>6. f[k] \in Seq(S)
      BY <1>4, <2>2
    <3>7. QED
      BY <2>3, <3>2, <3>5, <3>6, ConcatEmptySeq
  <2>7. QED
    BY <2>5, <2>6
<1>8. N \in T
  <2> HIDE DEF T
  <2>1. \A k \in 0..N : k \in T
    BY <1>1, <1>6, <1>7, UpTo
  <2>2. QED
    BY <1>1, <2>1
<1>9. Between(M, N)
  BY <1>1, <1>51
<1>10. M \in 0..M /\ Same(N)
  BY <1>1, <1>8
<1>11. f[N] = g[M]
  BY <1>9, <1>10
<1>12. QED
  BY <1>4, <1>5, <1>11

\* The values of each field among those of all ...
LEMMA FlattenAt ==
    ASSUME NEW S, NEW ss \in Seq(Seq(S)), NEW c \in Seq(Nat), Len(c) = Len(ss),
           \A k \in 1..Len(ss) : Len(ss[k]) = c[k]
    PROVE  /\ FlattenSeq(ss) \in Seq(S)
           /\ Len(FlattenSeq(ss)) = First(Len(c) + 1, c) - 1
           /\ \A k \in 1..Len(c) : \A j \in 1..c[k] :
                 /\ First(k, c) + j - 1 \in 1..Len(FlattenSeq(ss))
                 /\ FlattenSeq(ss)[First(k, c) + j - 1] = ss[k][j]
<1> DEFINE N == Len(ss)
<1>1. /\ N \in Nat /\ First(1, c) = 1 /\ Len(c) = N
      /\ \A k \in 1..(N + 1) : First(k, c) \in Nat \ {0}
      /\ \A k \in 1..N : c[k] \in Nat /\ First(k + 1, c) = First(k, c) + c[k]
  BY FirstDefined
<1>2. \A k \in 1..N : ss[k] \in Seq(S) /\ Len(ss[k]) = c[k]
  BY ElementOfSeq
<1>3. PICK f : Flattens(f, ss, S)
  BY FlattenDefined
<1>4. /\ f[0] = <<>> /\ FlattenSeq(ss) = f[N]
      /\ \A k \in 1..N : f[k] = f[k - 1] \o ss[k]
      /\ \A k \in 0..N : f[k] \in Seq(S)
  BY <1>3 DEF Flattens
<1> HIDE DEF N
<1> DEFINE Placed(i) == \A k \in 1..i : \A j \in 1..c[k] :
                           /\ First(k, c) + j - 1 \in 1..Len(f[i])
                           /\ f[i][First(k, c) + j - 1] = ss[k][j]
           T == {i \in Nat : Len(f[i]) = First(i + 1, c) - 1 /\ Placed(i)}
<1>5. 0 \in T
  BY <1>1, <1>4
<1>6. ASSUME NEW i \in 0..(N - 1), i \in T PROVE i + 1 \in T
  <2>1. i + 1 \in 1..N /\ (i + 1) - 1 = i /\ i \in 0..N /\ i + 1 \in Nat
    BY <1>1
  <2>2. /\ f[i] \in Seq(S) /\ ss[i + 1] \in Seq(S) /\ Len(ss[i + 1]) = c[i + 1]
        /\ f[i + 1] = f[i] \o ss[i + 1]
    BY <1>2, <1>4, <2>1
  <2> DEFINE L == Len(f[i])
             K == c[i + 1]
  <2>5. /\ L \in Nat /\ K \in Nat /\ Len(f[i + 1]) = L + K
        /\ \A n \in 1..L : f[i + 1][n] = f[i][n]
        /\ \A n \in 1..K : f[i + 1][L + n] = ss[i + 1][n]
    <3>1. Joined(f[i + 1], f[i], ss[i + 1])
      BY <2>2, Concat
    <3>2. QED
      BY Zenon, <2>2, <3>1 DEF Joined
  <2> HIDE DEF L, K
  <2>3. L = First(i + 1, c) - 1
    BY <1>6 DEF L
  <2>4. First(i + 1, c) \in Nat \ {0} /\ First((i + 1) + 1, c) = First(i + 1, c) + K
    BY <1>1, <2>1 DEF K
  <2>6. Placed(i)
    BY <1>6
  <2>7. ASSUME NEW k \in 1..(i + 1), NEW j \in 1..c[k]
        PROVE  /\ First(k, c) + j - 1 \in 1..Len(f[i + 1])
               /\ f[i + 1][First(k, c) + j - 1] = ss[k][j]
    <3>1. CASE k = i + 1
      <4>1. First(k, c) = L + 1 /\ j \in 1..K /\ L \in Nat /\ K \in Nat
        BY <2>3, <2>4, <2>5, <3>1 DEF K
      <4>11. First(k, c) + j - 1 = L + j /\ L + j \in 1..(L + K)
        BY <4>1
      <4>2. QED
        BY <2>5, <3>1, <4>1, <4>11
    <3>2. CASE k # i + 1
      <4>1. k \in 1..i
        BY <3>2
      <4>2. First(k, c) + j - 1 \in 1..L /\ f[i][First(k, c) + j - 1] = ss[k][j]
        BY <2>6, <4>1 DEF L
      <4>3. First(k, c) + j - 1 \in 1..(L + K)
        BY <2>5, <4>2
      <4>4. QED
        BY <2>5, <4>2, <4>3
    <3>3. QED
      BY <3>1, <3>2
  <2> HIDE DEF Placed
  <2>8. Placed(i + 1)
    BY <2>7 DEF Placed
  <2>9. Len(f[i + 1]) = First((i + 1) + 1, c) - 1
    BY <2>3, <2>4, <2>5
  <2>10. QED
    BY <2>1, <2>8, <2>9
<1>7. N \in T
  <2> HIDE DEF T
  <2>1. \A i \in 0..N : i \in T
    BY <1>1, <1>5, <1>6, UpTo
  <2>2. QED
    BY <1>1, <2>1
<1>8. Placed(N) /\ Len(f[N]) = First(N + 1, c) - 1 /\ f[N] \in Seq(S)
  BY <1>1, <1>4, <1>7
<1>9. QED
  BY <1>1, <1>4, <1>8

\* ... and their order.
Ordered(flat, ss, n) ==
    /\ \A p \in 1..Len(flat) : \E i \in 1..n : \E j \in 1..Len(ss[i]) :
          /\ flat[p] = ss[i][j]
          /\ \A d \in 1..(i - 1) : \A e \in 1..Len(ss[d]) : \E q \in 1..(p - 1) : flat[q] = ss[d][e]
    /\ \A i \in 1..n : \A j \in 1..Len(ss[i]) : \E p \in 1..Len(flat) : flat[p] = ss[i][j]

\* The elements of a flattened list: each is one of a block, and the blocks keep
\* their order.
LEMMA FlattenOrder ==
    ASSUME NEW S, NEW ss \in Seq(Seq(S))
    PROVE  FlattenSeq(ss) \in Seq(S) /\ Ordered(FlattenSeq(ss), ss, Len(ss))
<1> DEFINE N == Len(ss)
<1>1. N \in Nat /\ \A k \in 1..N : ss[k] \in Seq(S)
  BY ElementOfSeq
<1>3. PICK f : Flattens(f, ss, S)
  BY FlattenDefined
<1>4. /\ f[0] = <<>> /\ FlattenSeq(ss) = f[N]
      /\ \A k \in 1..N : f[k] = f[k - 1] \o ss[k]
      /\ \A k \in 0..N : f[k] \in Seq(S)
  BY <1>3 DEF Flattens
<1> HIDE DEF N
<1> DEFINE T == {i \in Nat : Ordered(f[i], ss, i)}
<1>5. 0 \in T
  BY <1>1, <1>4 DEF Ordered
<1>6. ASSUME NEW i \in 0..(N - 1), i \in T PROVE i + 1 \in T
  <2>1. i + 1 \in 1..N /\ (i + 1) - 1 = i /\ i \in 0..N /\ i + 1 \in Nat /\ i \in Nat
    BY <1>1
  <2>2. f[i] \in Seq(S) /\ ss[i + 1] \in Seq(S) /\ f[i + 1] = f[i] \o ss[i + 1]
    BY <1>1, <1>4, <2>1
  <2> DEFINE L == Len(f[i])
             K == Len(ss[i + 1])
  <2>3. /\ L \in Nat /\ K \in Nat /\ Len(f[i + 1]) = L + K
        /\ \A n \in 1..L : f[i + 1][n] = f[i][n]
        /\ \A n \in 1..K : f[i + 1][L + n] = ss[i + 1][n]
    <3>1. Joined(f[i + 1], f[i], ss[i + 1])
      BY <2>2, Concat
    <3>2. QED
      BY Zenon, <2>2, <3>1 DEF Joined
  <2> HIDE DEF L, K
  <2>4. /\ \A n \in 1..L : n \in 1..(L + K) /\ f[i + 1][n] = f[i][n]
        /\ \A n \in 1..K : L + n \in 1..(L + K) /\ f[i + 1][L + n] = ss[i + 1][n]
    BY <2>3
  <2>5. Ordered(f[i], ss, i)
    BY <1>6
  <2>6. /\ \A p \in 1..L : \E d \in 1..i : \E j \in 1..Len(ss[d]) :
              /\ f[i][p] = ss[d][j]
              /\ \A b \in 1..(d - 1) : \A e \in 1..Len(ss[b]) : \E q \in 1..(p - 1) : f[i][q] = ss[b][e]
        /\ \A d \in 1..i : \A j \in 1..Len(ss[d]) : \E p \in 1..L : f[i][p] = ss[d][j]
    BY <2>5 DEF Ordered, L
  <2>7. ASSUME NEW p \in 1..Len(f[i + 1])
        PROVE  \E d \in 1..(i + 1) : \E j \in 1..Len(ss[d]) :
                  /\ f[i + 1][p] = ss[d][j]
                  /\ \A b \in 1..(d - 1) : \A e \in 1..Len(ss[b]) :
                        \E q \in 1..(p - 1) : f[i + 1][q] = ss[b][e]
    <3>0. p \in 1..(L + K)
      BY <2>3
    <3>1. CASE p <= L
      <4>1. p \in 1..L
        BY <2>3, <3>0, <3>1
      <4>2. PICK d \in 1..i : \E j \in 1..Len(ss[d]) :
              /\ f[i][p] = ss[d][j]
              /\ \A b \in 1..(d - 1) : \A e \in 1..Len(ss[b]) : \E q \in 1..(p - 1) : f[i][q] = ss[b][e]
        BY <2>6, <4>1
      <4>3. PICK j \in 1..Len(ss[d]) :
              /\ f[i][p] = ss[d][j]
              /\ \A b \in 1..(d - 1) : \A e \in 1..Len(ss[b]) : \E q \in 1..(p - 1) : f[i][q] = ss[b][e]
        BY <4>2
      <4>4. ASSUME NEW b \in 1..(d - 1), NEW e \in 1..Len(ss[b])
            PROVE  \E q \in 1..(p - 1) : f[i + 1][q] = ss[b][e]
        <5>1. PICK q \in 1..(p - 1) : f[i][q] = ss[b][e]
          BY <4>3
        <5>2. q \in 1..L
          BY <2>3, <4>1
        <5>3. QED
          BY <2>4, <5>1, <5>2
      <4>5. d \in 1..(i + 1) /\ f[i + 1][p] = ss[d][j]
        BY <2>1, <2>4, <4>1, <4>3
      <4>6. QED
        BY <4>4, <4>5
    <3>2. CASE ~(p <= L)
      <4>1. p - L \in 1..K /\ L + (p - L) = p
        BY <2>3, <3>0, <3>2
      <4>2. f[i + 1][p] = ss[i + 1][p - L]
        BY <2>4, <4>1
      <4>3. ASSUME NEW b \in 1..i, NEW e \in 1..Len(ss[b])
            PROVE  \E q \in 1..(p - 1) : f[i + 1][q] = ss[b][e]
        <5>1. PICK q \in 1..L : f[i][q] = ss[b][e]
          BY <2>6
        <5>2. q \in 1..(p - 1)
          BY <2>3, <3>0, <3>2
        <5>3. QED
          BY <2>4, <5>1, <5>2
      <4>4. i + 1 \in 1..(i + 1) /\ p - L \in 1..Len(ss[i + 1])
        BY <2>1, <4>1 DEF K
      <4>5. \A b \in 1..((i + 1) - 1) : \A e \in 1..Len(ss[b]) :
               \E q \in 1..(p - 1) : f[i + 1][q] = ss[b][e]
        BY <2>1, <4>3
      <4>6. QED
        BY Zenon, <4>2, <4>4, <4>5
    <3>3. QED
      BY <3>1, <3>2
  <2>8. ASSUME NEW d \in 1..(i + 1), NEW j \in 1..Len(ss[d])
        PROVE  \E p \in 1..Len(f[i + 1]) : f[i + 1][p] = ss[d][j]
    <3>1. CASE d = i + 1
      <4>1. j \in 1..K
        BY <3>1 DEF K
      <4>2. L + j \in 1..(L + K) /\ f[i + 1][L + j] = ss[d][j]
        BY <2>4, <3>1, <4>1
      <4>3. QED
        BY <2>3, <4>2
    <3>2. CASE d # i + 1
      <4>1. d \in 1..i
        BY <2>1, <3>2
      <4>2. PICK p \in 1..L : f[i][p] = ss[d][j]
        BY <2>6, <4>1
      <4>3. QED
        BY <2>3, <2>4, <4>2
    <3>3. QED
      BY <3>1, <3>2
  <2>9. Ordered(f[i + 1], ss, i + 1)
    BY Zenon, <2>7, <2>8 DEF Ordered
  <2>10. QED
    BY <2>1, <2>9
<1>7. N \in T
  <2> HIDE DEF T
  <2>1. \A i \in 0..N : i \in T
    BY <1>1, <1>5, <1>6, UpTo
  <2>2. QED
    BY <1>1, <2>1
<1>8. Ordered(f[N], ss, N) /\ f[N] \in Seq(S)
  BY <1>1, <1>4, <1>7
<1>9. QED
  BY <1>4, <1>8 DEF N

----------------------------------------------------------------------------
(* The schema.                                                             *)

\* What a field can be declared by.
Declaration == Argument \union {Exception("base"), Exception("derived")}

\* The type of an argument, a result or an exception.
LEMMA DeclarationType ==
    ASSUME NEW d \in Declaration
    PROVE  /\ d.kind \in Kinds /\ d.dir \in {"in", "out", "inout"} /\ d.count \in Nat
           /\ d.wire \in IntType /\ d.client \in IntType /\ d.server \in IntType
           /\ d.boxed \in BOOLEAN /\ d.has \in BOOLEAN /\ d.want \in BOOLEAN
<1>1. CASE d \in Argument
  BY <1>1 DEF Argument
<1>2. ASSUME NEW e, d = Exception(e)
      PROVE  /\ d.kind \in Kinds /\ d.dir \in {"in", "out", "inout"} /\ d.count \in Nat
             /\ d.wire \in IntType /\ d.client \in IntType /\ d.server \in IntType
             /\ d.boxed \in BOOLEAN /\ d.has \in BOOLEAN /\ d.want \in BOOLEAN
  BY <1>2 DEF Exception, IntType, Widths, Kinds
<1>3. CASE d = Exception("base") \/ d = Exception("derived")
  BY Zenon, <1>2, <1>3
<1>4. QED
  BY <1>1, <1>3 DEF Declaration

\* What MethodsAssumption says of a method.
LEMMA MethodFacts ==
    ASSUME NEW m \in Methods
    PROVE  /\ m.args \in Seq(Argument) /\ m.throws \in Seq({"base", "derived"})
           /\ m.returns \in Seq(Argument) /\ Len(m.returns) <= 1
           /\ \A i, j \in 1..Len(m.args) : m.args[i].name = m.args[j].name => i = j
           /\ \A i, j \in 1..Len(m.throws) : m.throws[i] = m.throws[j] => i = j
           /\ \A i \in 1..Len(m.args) : m.args[i].name \notin {"result", "base", "derived"}
           /\ \A i \in 1..Len(m.returns) :
                 /\ m.returns[i].name = "result" /\ m.returns[i].dir = "out" /\ m.returns[i].count = 1
                 /\ m.returns[i].kind \in {"value", "optional", "shared"}
           /\ \A i \in 1..Len(m.args) :
                 m.args[i].kind \in {"optional", "shared", "pointer"} => m.args[i].count = 1
<1>1. m \in MethodType /\ WellNamed(m)
  BY MethodsAssumption
<1>2. /\ m.args \in Seq(Argument) /\ m.throws \in Seq({"base", "derived"})
      /\ m.returns \in Seq(Argument)
  BY <1>1 DEF MethodType
<1>3. /\ DOMAIN m.args = 1..Len(m.args) /\ DOMAIN m.throws = 1..Len(m.throws)
      /\ DOMAIN m.returns = 1..Len(m.returns)
  BY <1>2, LenProperties
<1>4. \A i, j \in 1..Len(m.args) : m.args[i].name = m.args[j].name => i = j
  BY <1>1, <1>3 DEF WellNamed, IsInjective
<1>5. \A i, j \in 1..Len(m.throws) : m.throws[i] = m.throws[j] => i = j
  BY <1>1, <1>3 DEF WellNamed, IsInjective
<1>6. \A i \in 1..Len(m.args) : m.args[i].name \notin {"result", "base", "derived"}
  BY <1>1, <1>3 DEF WellNamed, ToSet
<1>7. \A i \in 1..Len(m.returns) : m.returns[i].name = "result"
  BY <1>1, <1>3 DEF WellNamed, ToSet
<1>8. /\ Len(m.returns) <= 1
      /\ \A i \in 1..Len(m.returns) :
            /\ m.returns[i].dir = "out" /\ m.returns[i].count = 1
            /\ m.returns[i].kind \in {"value", "optional", "shared"}
      /\ \A i \in 1..Len(m.args) :
            m.args[i].kind \in {"optional", "shared", "pointer"} => m.args[i].count = 1
  BY <1>3, MethodsAssumption DEF ToSet
<1>9. QED
  BY <1>2, <1>4, <1>5, <1>6, <1>7, <1>8

\* Which declaration is which.
LEMMA DeclsAre ==
    ASSUME NEW m \in Methods
    PROVE  /\ Decls(m) \in Seq(Declaration)
           /\ Len(m.args) \in Nat /\ Len(m.throws) \in Nat /\ Len(m.returns) \in {0, 1}
           /\ Len(Decls(m)) = Len(m.args) + Len(m.throws) + Len(m.returns)
           /\ \A i \in 1..Len(m.args) : Decls(m)[i] = m.args[i]
           /\ \A i \in 1..Len(m.throws) : Decls(m)[Len(m.args) + i] = Exception(m.throws[i])
           /\ Len(m.returns) = 1 => Decls(m)[Len(m.args) + Len(m.throws) + 1] = m.returns[1]
<1> DEFINE A == m.args
           X == m.throws
           R == m.returns
           x == [i \in 1..Len(X) |-> Exception(X[i])]
           u == A \o x
<1>1. A \in Seq(Argument) /\ X \in Seq({"base", "derived"}) /\ R \in Seq(Argument) /\ Len(R) <= 1
  BY MethodFacts
<1>2. Decls(m) = u \o R
  BY DEF Decls
<1> HIDE DEF A, X, R
<1>3. Len(A) \in Nat /\ Len(X) \in Nat /\ Len(R) \in {0, 1}
  <2>1. Len(A) \in Nat /\ Len(X) \in Nat /\ Len(R) \in Nat
    BY Zenon, <1>1, LenProperties
  <2>2. \A n \in Nat : n <= 1 => n \in {0, 1}
    OBVIOUS
  <2>3. QED
    BY Zenon, <1>1, <2>1, <2>2
<1>4. \A i \in 1..Len(X) : Exception(X[i]) \in Declaration
  <2>1. \A i \in 1..Len(X) : X[i] \in {"base", "derived"}
    BY <1>1
  <2>2. QED
    BY <2>1 DEF Declaration
<1>5. x \in Seq(Declaration) /\ Len(x) = Len(X) /\ \A i \in 1..Len(X) : x[i] = Exception(X[i])
  BY <1>3, <1>4
<1> HIDE DEF x
<1>51. A \in Seq(Declaration) /\ R \in Seq(Declaration)
  <2>1. Argument \subseteq Declaration
    BY DEF Declaration
  <2>2. QED
    BY <1>1, <2>1, SeqMonotonic
<1>6. u \in Seq(Declaration) /\ Joined(u, A, x)
  BY <1>51, <1>5, Concat
<1> HIDE DEF u
<1>7. u \o R \in Seq(Declaration) /\ Joined(u \o R, u, R)
  BY <1>51, <1>6, Concat
<1> DEFINE D == Decls(m)
<1>8. D \in Seq(Declaration) /\ Joined(D, u, R)
  BY <1>2, <1>7
<1> HIDE DEF D
<1>9. Len(u) = Len(A) + Len(X) /\ (\A i \in 1..Len(A) : u[i] = A[i])
      /\ \A i \in 1..Len(X) : u[Len(A) + i] = Exception(X[i])
  BY <1>5, <1>6 DEF Joined
<1>10. Len(D) = Len(A) + Len(X) + Len(R) /\ (Len(R) = 1 => D[Len(A) + Len(X) + 1] = R[1])
  BY <1>3, <1>8, <1>9 DEF Joined
<1>11. \A i \in 1..Len(A) : D[i] = A[i]
  BY <1>3, <1>8, <1>9 DEF Joined
<1>12. \A i \in 1..Len(X) : D[Len(A) + i] = Exception(X[i])
  BY <1>3, <1>8, <1>9 DEF Joined
<1>13. QED
  BY <1>3, <1>8, <1>10, <1>11, <1>12 DEF D, A, X, R

\* A declaration is an argument, an exception or the result.
LEMMA DeclCases ==
    ASSUME NEW m \in Methods, NEW i \in 1..Len(Decls(m))
    PROVE  \/ i \in 1..Len(m.args) /\ Decls(m)[i] = m.args[i]
           \/ \E j \in 1..Len(m.throws) :
                 i = Len(m.args) + j /\ Decls(m)[i] = Exception(m.throws[j])
           \/ /\ Len(m.returns) = 1 /\ i = Len(m.args) + Len(m.throws) + 1
              /\ Decls(m)[i] = m.returns[1]
<1> DEFINE La == Len(m.args)
           Lx == Len(m.throws)
           Lr == Len(m.returns)
           D == Decls(m)
<1>1. /\ La \in Nat /\ Lx \in Nat /\ Lr \in {0, 1} /\ Len(D) = La + Lx + Lr
      /\ \A k \in 1..La : D[k] = m.args[k]
      /\ \A k \in 1..Lx : D[La + k] = Exception(m.throws[k])
      /\ Lr = 1 => D[La + Lx + 1] = m.returns[1]
  BY DeclsAre
<1>2. i \in 1..Len(D)
  OBVIOUS
<1> HIDE DEF La, Lx, Lr, D
<1>3. \/ i \in 1..La
      \/ i - La \in 1..Lx /\ i = La + (i - La)
      \/ Lr = 1 /\ i = La + Lx + 1
  BY <1>1, <1>2
<1>4. QED
  BY <1>1, <1>3 DEF La, Lx, Lr, D

\* An exception is declared as a boxed output.
LEMMA ExceptionIs ==
    ASSUME NEW e
    PROVE  /\ Exception(e).name = e /\ Exception(e).kind = "value" /\ Exception(e).dir = "out"
           /\ Exception(e).count = 1 /\ Exception(e).boxed = TRUE
           /\ Exception(e).has = FALSE /\ Exception(e).want = FALSE
           /\ Exception(e).wire = Exception(e).client /\ Exception(e).wire = [signed |-> TRUE, width |-> "int"]
BY DEF Exception

\* The exceptions a method throws and the names of their fields.
LEMMA Thrown ==
    ASSUME NEW m \in Methods, NEW j \in 1..Len(m.throws)
    PROVE  m.throws[j] \in {"base", "derived"} /\ Exception(m.throws[j]).name = m.throws[j]
<1>1. m.throws \in Seq({"base", "derived"})
  BY MethodFacts
<1>2. m.throws[j] \in {"base", "derived"}
  BY <1>1, ElementOfSeq
<1>3. QED
  BY <1>2, ExceptionIs

\* Where the Results struct has the declarations.
LEMMA OrderIs ==
    ASSUME NEW m \in Methods
    PROVE  /\ DOMAIN m.order = 1..Len(Decls(m))
           /\ \A x \in 1..Len(Decls(m)) : m.order[x] \in 1..Len(Decls(m))
           /\ \A i \in 1..Len(Decls(m)) : \E x \in 1..Len(Decls(m)) : m.order[x] = i
           /\ \A x, y \in 1..Len(Decls(m)) :
                 /\ x < y /\ Role(Output(m, x)) = Role(Output(m, y))
                 /\ Output(m, x).dir = "out" /\ Output(m, y).dir = "out"
                 => m.order[x] < m.order[y]
<1> DEFINE S == 1..Len(Decls(m))
<1>1. DOMAIN Decls(m) = S
  BY DeclsAre, LenProperties
<1>2. WellOrdered(m)
  BY MethodsAssumption
<1> HIDE DEF S
<1>3. m.order \in Bijection(S, S)
  BY <1>1, <1>2 DEF WellOrdered
<1>4. m.order \in [S -> S] /\ \A i \in S : \E x \in S : m.order[x] = i
  BY <1>3 DEF Bijection, Injection, Surjection
<1>5. DOMAIN m.order = S
  BY <1>4
<1>6. \A x, y \in S : /\ x < y /\ Role(Output(m, x)) = Role(Output(m, y))
                      /\ Output(m, x).dir = "out" /\ Output(m, y).dir = "out"
                      => m.order[x] < m.order[y]
  BY <1>2, <1>5 DEF WellOrdered
<1>7. QED
  BY <1>4, <1>5, <1>6 DEF S

\* Fields of different declarations have different names, and flags others.
AllNames(m) == Names(m) \union FlagNames(Names(m))

\* The declarations of a method have different names, and no flag has the name of
\* one of them.
LEMMA DeclNames ==
    ASSUME NEW m \in Methods
    PROVE  /\ \A i, j \in 1..Len(Decls(m)) : Decls(m)[i].name = Decls(m)[j].name => i = j
           /\ \A i \in 1..Len(Decls(m)) : Decls(m)[i].name \in Names(m)
           /\ Names(m) \intersect FlagNames(AllNames(m)) = {}
           /\ \A a, b \in Names(m) : /\ Has(a) = Has(b) \/ Want(a) = Want(b) => a = b
                                    /\ Has(a) # Want(b)
<1> DEFINE D == Decls(m)
<1>1. /\ \A i, j \in 1..Len(m.args) : m.args[i].name = m.args[j].name => i = j
      /\ \A i, j \in 1..Len(m.throws) : m.throws[i] = m.throws[j] => i = j
      /\ \A i \in 1..Len(m.args) : m.args[i].name \notin {"result", "base", "derived"}
      /\ \A i \in 1..Len(m.returns) : m.returns[i].name = "result"
  BY MethodFacts
<1> DEFINE La == Len(m.args)
           Lx == Len(m.throws)
           IsArg(k) == k \in 1..La /\ D[k].name = m.args[k].name
                       /\ D[k].name \notin {"result", "base", "derived"}
           IsExc(k) == \E l \in 1..Lx : k = La + l /\ D[k].name = m.throws[l]
                                        /\ D[k].name \in {"base", "derived"}
           IsRet(k) == k = La + Lx + 1 /\ D[k].name = "result"
<1>11. ASSUME NEW k \in 1..Len(D) PROVE IsArg(k) \/ IsExc(k) \/ IsRet(k)
  <2>1. CASE k \in 1..La /\ D[k] = m.args[k]
    BY <1>1, <2>1
  <2>2. CASE \E l \in 1..Lx : k = La + l /\ D[k] = Exception(m.throws[l])
    <3>1. PICK l \in 1..Lx : k = La + l /\ D[k] = Exception(m.throws[l])
      BY <2>2
    <3>2. D[k].name = m.throws[l] /\ m.throws[l] \in {"base", "derived"}
      BY <3>1, Thrown
    <3>3. QED
      BY <3>1, <3>2
  <2>3. CASE Len(m.returns) = 1 /\ k = La + Lx + 1 /\ D[k] = m.returns[1]
    <3>1. m.returns[1].name = "result"
      BY <1>1, <2>3
    <3>2. QED
      BY <2>3, <3>1
  <2>4. QED
    BY <2>1, <2>2, <2>3, DeclCases
<1>12. La \in Nat /\ Lx \in Nat
  BY DeclsAre
<1> HIDE DEF D, La, Lx
<1>2. ASSUME NEW i \in 1..Len(D), NEW j \in 1..Len(D), D[i].name = D[j].name
      PROVE  i = j
  <2>1. CASE IsArg(i)
    <3>1. IsArg(j)
      BY <1>2, <1>11, <2>1
    <3>2. QED
      BY <1>1, <1>2, <2>1, <3>1 DEF La
  <2>2. CASE IsExc(i)
    <3>1. IsExc(j)
      BY <1>2, <1>11, <2>2
    <3>2. PICK k \in 1..Lx : i = La + k /\ D[i].name = m.throws[k]
      BY <2>2
    <3>3. PICK l \in 1..Lx : j = La + l /\ D[j].name = m.throws[l]
      BY <3>1
    <3>4. k = l
      BY <1>1, <1>2, <3>2, <3>3 DEF Lx
    <3>5. QED
      BY <3>2, <3>3, <3>4
  <2>3. CASE IsRet(i)
    <3>1. IsRet(j)
      BY <1>2, <1>11, <2>3
    <3>2. QED
      BY <2>3, <3>1
  <2>4. QED
    BY <1>11, <2>1, <2>2, <2>3
<1> USE DEF D
<1>3. ASSUME NEW i \in 1..Len(D) PROVE D[i].name \in Names(m)
  <2>1. /\ DOMAIN m.args = 1..Len(m.args) /\ DOMAIN m.throws = 1..Len(m.throws)
        /\ DOMAIN m.returns = 1..Len(m.returns)
    BY MethodFacts, LenProperties
  <2>2. CASE i \in 1..Len(m.args) /\ D[i] = m.args[i]
    BY <2>1, <2>2 DEF Names, ToSet
  <2>3. CASE \E k \in 1..Len(m.throws) : i = Len(m.args) + k /\ D[i] = Exception(m.throws[k])
    BY <2>1, <2>3, Thrown DEF Names, ToSet
  <2>4. CASE Len(m.returns) = 1 /\ i = Len(m.args) + Len(m.throws) + 1 /\ D[i] = m.returns[1]
    BY <2>1, <2>4 DEF Names, ToSet
  <2>5. QED
    BY <2>2, <2>3, <2>4, DeclCases
<1>4. WellNamed(m)
  BY MethodsAssumption
<1>5. QED
  BY <1>2, <1>3, <1>4 DEF WellNamed, AllNames

----------------------------------------------------------------------------
(* The fields of the schema as sets.                                       *)

\* The elements of a concatenation.
LEMMA JoinedSet ==
    ASSUME NEW S, NEW s \in Seq(S), NEW t \in Seq(S)
    PROVE  s \o t \in Seq(S) /\ ToSet(s \o t) = ToSet(s) \union ToSet(t)
<1>1. s \o t \in Seq(S) /\ Joined(s \o t, s, t)
  BY Concat
<1> DEFINE u == s \o t
<1> HIDE DEF u
<1>2. u \in Seq(S) /\ Joined(u, s, t)
  BY <1>1 DEF u
<1>3. DOMAIN s = 1..Len(s) /\ DOMAIN t = 1..Len(t) /\ DOMAIN u = 1..Len(u)
  BY <1>2, LenProperties
<1>4. ASSUME NEW x \in ToSet(u) PROVE x \in ToSet(s) \union ToSet(t)
  <2>1. PICK n \in 1..Len(u) : x = u[n]
    BY <1>3 DEF ToSet
  <2>2. CASE n <= Len(s)
    <3>1. n \in 1..Len(s)
      BY <1>2, <2>2 DEF Joined
    <3>2. QED
      BY <1>2, <1>3, <2>1, <3>1 DEF Joined, ToSet
  <2>3. CASE ~(n <= Len(s))
    <3>1. n - Len(s) \in 1..Len(t) /\ Len(s) + (n - Len(s)) = n
      BY <1>2, <2>3 DEF Joined
    <3>2. x = t[n - Len(s)]
      BY <1>2, <2>1, <3>1 DEF Joined
    <3>3. QED
      BY <1>3, <3>1, <3>2 DEF ToSet
  <2>4. QED
    BY <2>2, <2>3
<1>5. ASSUME NEW n \in 1..Len(s) PROVE s[n] \in ToSet(u)
  <2>1. n \in 1..Len(u) /\ u[n] = s[n]
    BY <1>2 DEF Joined
  <2>2. QED
    BY <1>3, <2>1 DEF ToSet
<1>6. ASSUME NEW n \in 1..Len(t) PROVE t[n] \in ToSet(u)
  <2>1. Len(s) + n \in 1..Len(u) /\ u[Len(s) + n] = t[n]
    BY <1>2 DEF Joined
  <2>2. QED
    BY <1>3, <2>1 DEF ToSet
<1>7. ToSet(u) = ToSet(s) \union ToSet(t)
  BY <1>3, <1>4, <1>5, <1>6 DEF ToSet
<1>8. QED
  BY <1>1, <1>7 DEF u

\* The elements of a list that has one element or none.
LEMMA OptionalSet ==
    ASSUME NEW S, NEW x \in S, NEW c \in BOOLEAN
    PROVE  /\ (IF c THEN <<x>> ELSE <<>>) \in Seq(S)
           /\ ToSet(IF c THEN <<x>> ELSE <<>>) = IF c THEN {x} ELSE {}
<1>1. CASE c
  <2>1. <<x>> \in Seq(S) /\ ToSet(<<x>>) = {x}
    BY DEF ToSet
  <2>2. QED
    BY <1>1, <2>1
<1>2. CASE ~c
  <2>1. <<>> \in Seq(S) /\ ToSet(<<>>) = {}
    BY DEF ToSet
  <2>2. QED
    BY <1>2, <2>1
<1>3. QED
  BY <1>1, <1>2

\* The fields of the two structs of a method.
SchemaType(m) == [name : AllNames(m), decl : Declaration, param : BOOLEAN, exception : BOOLEAN]

\* The fields of the Params struct that belong to a declaration.
ParamSet(d) ==
    LET Fld(n) == SchemaField(n, d, TRUE, FALSE)
    IN (IF d.dir # "out" THEN {Fld(d.name)} ELSE {})
       \union (IF d.dir # "out" /\ d.has THEN {Fld(Has(d.name))} ELSE {})
       \union (IF d.want THEN {Fld(Want(d.name))} ELSE {})

\* Those of the Results struct.
ResultSet(d) ==
    LET Fld(n) == SchemaField(n, d, FALSE, Role(d) = "exception")
    IN IF d.dir = "in" THEN {}
       ELSE {Fld(d.name)} \union (IF d.has THEN {Fld(Has(d.name))} ELSE {})

\* A field of a struct has a name of the method.
LEMMA FieldType ==
    ASSUME NEW m \in Methods, NEW d \in Declaration, d.name \in Names(m), NEW p \in BOOLEAN, NEW e \in BOOLEAN
    PROVE  \A n \in {d.name, Has(d.name), Want(d.name)} : SchemaField(n, d, p, e) \in SchemaType(m)
<1>1. \A n \in {d.name, Has(d.name), Want(d.name)} : n \in AllNames(m)
  BY DEF AllNames, FlagNames
<1>2. QED
  BY <1>1 DEF SchemaType, SchemaField

\* The fields mpgen expects in the Params struct for a declaration.
LEMMA ParamFieldsSet ==
    ASSUME NEW m \in Methods, NEW d \in Declaration, d.name \in Names(m)
    PROVE  ParamFields(d) \in Seq(SchemaType(m)) /\ ToSet(ParamFields(d)) = ParamSet(d)
<1> DEFINE Fld(n) == SchemaField(n, d, TRUE, FALSE)
           x == Fld(d.name)
           y == Fld(Has(d.name))
           z == Fld(Want(d.name))
           r == IF d.dir # "out" THEN <<x>> ELSE <<>>
           s == IF d.dir # "out" /\ d.has THEN <<y>> ELSE <<>>
           t == IF d.want THEN <<z>> ELSE <<>>
           S == SchemaType(m)
<1>1. x \in S /\ y \in S /\ z \in S
  BY FieldType
<1>2. d.has \in BOOLEAN /\ d.want \in BOOLEAN
  BY DeclarationType
<1>3. ParamFields(d) = (r \o s) \o t
  BY DEF ParamFields
<1>4. ParamSet(d) = (IF d.dir # "out" THEN {x} ELSE {})
                    \union (IF d.dir # "out" /\ d.has THEN {y} ELSE {})
                    \union (IF d.want THEN {z} ELSE {})
  BY DEF ParamSet
<1> HIDE DEF x, y, z, S
<1>5. r \in Seq(S) /\ ToSet(r) = IF d.dir # "out" THEN {x} ELSE {}
  BY <1>1, OptionalSet
<1>6. s \in Seq(S) /\ ToSet(s) = IF d.dir # "out" /\ d.has THEN {y} ELSE {}
  <2>1. (d.dir # "out" /\ d.has) \in BOOLEAN
    OBVIOUS
  <2>2. QED
    BY Zenon, <1>1, <2>1, OptionalSet
<1>7. t \in Seq(S) /\ ToSet(t) = IF d.want THEN {z} ELSE {}
  BY <1>1, <1>2, OptionalSet
<1> HIDE DEF r, s, t
<1>8. r \o s \in Seq(S) /\ ToSet(r \o s) = ToSet(r) \union ToSet(s)
  BY <1>5, <1>6, JoinedSet
<1> DEFINE u == r \o s
<1> HIDE DEF u
<1>81. u \in Seq(S) /\ ToSet(u) = ToSet(r) \union ToSet(s) /\ ParamFields(d) = u \o t
  BY <1>3, <1>8 DEF u
<1>9. u \o t \in Seq(S) /\ ToSet(u \o t) = ToSet(u) \union ToSet(t)
  BY <1>7, <1>81, JoinedSet
<1>10. ToSet(ParamFields(d)) = (ToSet(r) \union ToSet(s)) \union ToSet(t)
  BY Zenon, <1>81, <1>9
<1>11. ToSet(ParamFields(d)) = ParamSet(d)
  BY Zenon, <1>4, <1>5, <1>6, <1>7, <1>10
<1>12. QED
  BY <1>81, <1>9, <1>11 DEF S

\* The fields it expects in the Results struct for an output.
LEMMA ResultFieldsSet ==
    ASSUME NEW m \in Methods, NEW d \in Declaration, d.name \in Names(m)
    PROVE  ResultFields(d) \in Seq(SchemaType(m)) /\ ToSet(ResultFields(d)) = ResultSet(d)
<1> DEFINE Fld(n) == SchemaField(n, d, FALSE, Role(d) = "exception")
           x == Fld(d.name)
           y == Fld(Has(d.name))
           s == IF d.has THEN <<y>> ELSE <<>>
           S == SchemaType(m)
<1>1. x \in S /\ y \in S
  BY FieldType
<1>2. d.has \in BOOLEAN
  BY DeclarationType
<1>3. CASE d.dir = "in"
  <2>1. ResultFields(d) = <<>> /\ ResultSet(d) = {}
    BY <1>3 DEF ResultFields, ResultSet
  <2>2. <<>> \in Seq(S) /\ ToSet(<<>>) = {}
    BY DEF ToSet
  <2>3. QED
    BY <2>1, <2>2
<1>4. CASE d.dir # "in"
  <2>1. ResultFields(d) = <<x>> \o s /\ ResultSet(d) = {x} \union (IF d.has THEN {y} ELSE {})
    BY <1>4 DEF ResultFields, ResultSet
  <2> HIDE DEF x, y, S
  <2> DEFINE r == <<x>>
  <2>2. r \in Seq(S) /\ ToSet(r) = {x}
    BY <1>1 DEF ToSet
  <2>3. s \in Seq(S) /\ ToSet(s) = IF d.has THEN {y} ELSE {}
    BY <1>1, <1>2, OptionalSet
  <2>31. ResultFields(d) = r \o s
    BY <2>1
  <2> HIDE DEF r, s
  <2>4. r \o s \in Seq(S) /\ ToSet(r \o s) = ToSet(r) \union ToSet(s)
    BY <2>2, <2>3, JoinedSet
  <2>5. QED
    BY <2>1, <2>31, <2>2, <2>3, <2>4 DEF S
<1>5. QED
  BY <1>3, <1>4

\* FlattenOrder, for sets.
LEMMA FlattenSets ==
    ASSUME NEW S, NEW ss \in Seq(Seq(S))
    PROVE  /\ FlattenSeq(ss) \in Seq(S)
           /\ \A p \in 1..Len(FlattenSeq(ss)) : \E i \in 1..Len(ss) :
                 /\ FlattenSeq(ss)[p] \in ToSet(ss[i])
                 /\ \A d \in 1..(i - 1) : \A x \in ToSet(ss[d]) :
                       \E q \in 1..(p - 1) : FlattenSeq(ss)[q] = x
           /\ \A i \in 1..Len(ss) : \A x \in ToSet(ss[i]) :
                 \E p \in 1..Len(FlattenSeq(ss)) : FlattenSeq(ss)[p] = x
<1> DEFINE flat == FlattenSeq(ss)
           N == Len(ss)
<1>1. flat \in Seq(S) /\ Ordered(flat, ss, N)
  BY FlattenOrder
<1>2. N \in Nat /\ \A i \in 1..N : DOMAIN ss[i] = 1..Len(ss[i])
  <2>1. ASSUME NEW i \in 1..N PROVE DOMAIN ss[i] = 1..Len(ss[i])
    <3>1. ss[i] \in Seq(S)
      BY ElementOfSeq
    <3>2. QED
      BY <3>1, LenProperties
  <2>2. QED
    BY <2>1, LenProperties
<1> HIDE DEF flat, N
<1>3. ASSUME NEW p \in 1..Len(flat)
      PROVE  \E i \in 1..N :
                 /\ flat[p] \in ToSet(ss[i])
                 /\ \A d \in 1..(i - 1) : \A x \in ToSet(ss[d]) :
                       \E q \in 1..(p - 1) : flat[q] = x
  <2>1. PICK i \in 1..N : \E j \in 1..Len(ss[i]) :
          /\ flat[p] = ss[i][j]
          /\ \A d \in 1..(i - 1) : \A e \in 1..Len(ss[d]) : \E q \in 1..(p - 1) : flat[q] = ss[d][e]
    BY <1>1 DEF Ordered
  <2>2. PICK j \in 1..Len(ss[i]) :
          /\ flat[p] = ss[i][j]
          /\ \A d \in 1..(i - 1) : \A e \in 1..Len(ss[d]) : \E q \in 1..(p - 1) : flat[q] = ss[d][e]
    BY <2>1
  <2>3. flat[p] \in ToSet(ss[i])
    BY <1>2, <2>2 DEF ToSet
  <2>4. ASSUME NEW d \in 1..(i - 1), NEW x \in ToSet(ss[d]) PROVE \E q \in 1..(p - 1) : flat[q] = x
    <3>1. d \in 1..N
      BY <1>2
    <3>2. PICK e \in 1..Len(ss[d]) : x = ss[d][e]
      BY <1>2, <3>1 DEF ToSet
    <3>3. QED
      BY <2>2, <3>2
  <2>5. QED
    BY <2>3, <2>4
<1>4. ASSUME NEW i \in 1..N, NEW x \in ToSet(ss[i]) PROVE \E p \in 1..Len(flat) : flat[p] = x
  <2>1. PICK j \in 1..Len(ss[i]) : x = ss[i][j]
    BY <1>2 DEF ToSet
  <2>2. QED
    BY <1>1, <2>1 DEF Ordered
<1>5. QED
  BY <1>1, <1>3, <1>4 DEF flat, N

\* The parts of the schema, and the fields of each.
Blocks(m) == [i \in DOMAIN m.args |-> ParamFields(m.args[i])]
             \o [i \in DOMAIN m.order |-> ResultFields(Output(m, i))]

\* The schema lists the fields of the arguments, then those of all the outputs.
LEMMA BlocksAre ==
    ASSUME NEW m \in Methods
    PROVE  /\ Schema(m) = FlattenSeq(Blocks(m))
           /\ Blocks(m) \in Seq(Seq(SchemaType(m)))
           /\ Len(Blocks(m)) = Len(m.args) + Len(Decls(m))
           /\ \A i \in 1..Len(m.args) : ToSet(Blocks(m)[i]) = ParamSet(Decls(m)[i])
           /\ \A i \in 1..Len(Decls(m)) :
                 ToSet(Blocks(m)[Len(m.args) + i]) = ResultSet(Decls(m)[m.order[i]])
<1> DEFINE D == Decls(m)
           La == Len(m.args)
           N == Len(D)
           S == Seq(SchemaType(m))
           a == [i \in 1..La |-> ParamFields(m.args[i])]
           b == [i \in 1..N |-> ResultFields(Output(m, i))]
           Q == Blocks(m)
<1>1. /\ D \in Seq(Declaration) /\ La \in Nat /\ N \in Nat /\ La <= N
      /\ \A i \in 1..La : D[i] = m.args[i]
  <2> DEFINE X == Len(m.throws)
             R == Len(m.returns)
  <2>1. D \in Seq(Declaration) /\ La \in Nat /\ X \in Nat /\ R \in {0, 1} /\ N = La + X + R
    BY DeclsAre
  <2>2. \A i \in 1..La : D[i] = m.args[i]
    BY DeclsAre
  <2> HIDE DEF La, X, R, N, D
  <2>3. N \in Nat /\ La <= N
    BY <2>1
  <2>4. QED
    BY <2>1, <2>2, <2>3
<1>2. DOMAIN m.args = 1..La
  BY MethodFacts, LenProperties
<1>3. DOMAIN m.order = 1..N /\ \A i \in 1..N : m.order[i] \in 1..N /\ Output(m, i) = D[m.order[i]]
  BY OrderIs DEF Output
<1>4. Q = a \o b /\ Schema(m) = FlattenSeq(Q)
  BY <1>2, <1>3 DEF Schema, Blocks
<1>5. \A i \in 1..N : D[i] \in Declaration /\ D[i].name \in Names(m)
  BY <1>1, DeclNames, ElementOfSeq
<1> HIDE DEF La, D, S, N
<1>6. ASSUME NEW i \in 1..La
      PROVE  ParamFields(m.args[i]) \in S /\ ToSet(ParamFields(m.args[i])) = ParamSet(D[i])
  <2>1. i \in 1..N /\ m.args[i] = D[i]
    BY <1>1
  <2>2. QED
    BY <1>5, <2>1, ParamFieldsSet DEF S
<1>7. ASSUME NEW i \in 1..N
      PROVE  /\ ResultFields(Output(m, i)) \in S
             /\ ToSet(ResultFields(Output(m, i))) = ResultSet(D[m.order[i]])
  BY <1>3, <1>5, ResultFieldsSet DEF S
<1>8. a \in Seq(S) /\ Len(a) = La /\ \A i \in 1..La : ToSet(a[i]) = ParamSet(D[i])
  BY <1>1, <1>6
<1>9. b \in Seq(S) /\ Len(b) = N /\ \A i \in 1..N : ToSet(b[i]) = ResultSet(D[m.order[i]])
  BY <1>1, <1>7
<1> HIDE DEF a, b, Q
<1>10. Q \in Seq(S) /\ Joined(Q, a, b)
  BY <1>4, <1>8, <1>9, Concat
<1>11. Len(Q) = La + N
  BY <1>8, <1>9, <1>10 DEF Joined
<1>12. \A i \in 1..La : ToSet(Q[i]) = ParamSet(D[i])
  BY <1>8, <1>10 DEF Joined
<1>13. \A i \in 1..N : ToSet(Q[La + i]) = ResultSet(D[m.order[i]])
  BY <1>8, <1>9, <1>10 DEF Joined
<1>14. QED
  BY <1>4, <1>10, <1>11, <1>12, <1>13 DEF D, La, S, Q, N

----------------------------------------------------------------------------
(* What the schema has of each declaration.                                *)

\* The field x of a struct comes from the i-th declaration.
FieldOf(m, x, i) ==
    LET d == Decls(m)[i]
    IN /\ x.decl = d
       /\ \/ /\ x.name = d.name /\ x.exception = (d.name \in {"base", "derived"})
             /\ x.param => d.dir # "out" /\ i <= Len(m.args)
             /\ ~x.param => d.dir # "in"
          \/ x.name = Has(d.name) /\ d.has
          \/ x.name = Want(d.name) /\ d.want /\ x.param /\ i <= Len(m.args)

\* What the Params struct has of a declaration.
LEMMA ParamSetFields ==
    ASSUME NEW m \in Methods, NEW i \in 1..Len(m.args), NEW x \in ParamSet(Decls(m)[i])
    PROVE  FieldOf(m, x, i) /\ x.param
<1>1. Decls(m)[i] = m.args[i]
  BY DeclsAre
<1>2. Decls(m)[i].name \notin {"base", "derived"}
  BY <1>1, MethodFacts
<1>3. i <= Len(m.args)
  BY DeclsAre
<1> DEFINE d == Decls(m)[i]
<1> HIDE DEF d
<1>4. CASE d.dir # "out" /\ x = SchemaField(d.name, d, TRUE, FALSE)
  <2>1. x.decl = d /\ x.name = d.name /\ x.exception = FALSE /\ x.param = TRUE
    BY <1>4 DEF SchemaField
  <2>2. (d.name \in {"base", "derived"}) = FALSE
    BY <1>2 DEF d
  <2>3. d.dir # "out" /\ (x.param => d.dir # "out" /\ i <= Len(m.args)) /\ (~x.param => d.dir # "in")
    BY <1>3, <1>4, <2>1
  <2>4. QED
    BY Zenon, <2>1, <2>2, <2>3 DEF FieldOf, d
<1>5. CASE d.dir # "out" /\ d.has /\ x = SchemaField(Has(d.name), d, TRUE, FALSE)
  <2>1. x.decl = d /\ x.name = Has(d.name) /\ x.param = TRUE
    BY <1>5 DEF SchemaField
  <2>2. QED
    BY <1>5, <2>1 DEF FieldOf, d
<1>6. CASE d.want /\ x = SchemaField(Want(d.name), d, TRUE, FALSE)
  <2>1. x.decl = d /\ x.name = Want(d.name) /\ x.param = TRUE
    BY <1>6 DEF SchemaField
  <2>2. QED
    BY <1>3, <1>6, <2>1 DEF FieldOf, d
<1>7. x \in ParamSet(d)
  BY DEF d
<1>8. QED
  BY <1>4, <1>5, <1>6, <1>7 DEF ParamSet

\* What the Results struct has of a declaration.
LEMMA ResultSetFields ==
    ASSUME NEW m \in Methods, NEW i \in 1..Len(Decls(m)), NEW x \in ResultSet(Decls(m)[i])
    PROVE  FieldOf(m, x, i) /\ ~x.param
<1> DEFINE d == Decls(m)[i]
<1>1. x \in ResultSet(d)
  OBVIOUS
<1> HIDE DEF d
<1>2. CASE d.dir # "in" /\ x = SchemaField(d.name, d, FALSE, Role(d) = "exception")
  <2>1. x.decl = d /\ x.name = d.name /\ x.exception = (Role(d) = "exception") /\ x.param = FALSE
    BY <1>2 DEF SchemaField
  <2>2. (Role(d) = "exception") = (d.name \in {"base", "derived"})
    BY DEF Role
  <2>3. QED
    BY Zenon, <1>2, <2>1, <2>2 DEF FieldOf, d
<1>3. CASE d.has /\ x = SchemaField(Has(d.name), d, FALSE, Role(d) = "exception")
  <2>1. x.decl = d /\ x.name = Has(d.name) /\ x.param = FALSE
    BY <1>3 DEF SchemaField
  <2>2. QED
    BY <1>3, <2>1 DEF FieldOf, d
<1>4. QED
  BY <1>1, <1>2, <1>3 DEF ResultSet

\* Whose a field with the name of a declaration or of one of its flags is.
LEMMA FieldNames ==
    ASSUME NEW m \in Methods, NEW x, NEW i \in 1..Len(Decls(m)), FieldOf(m, x, i),
           NEW j \in 1..Len(Decls(m))
    PROVE  /\ x.name = Decls(m)[j].name =>
                 /\ i = j /\ x.exception = (Decls(m)[j].name \in {"base", "derived"})
                 /\ x.param => Decls(m)[j].dir # "out" /\ j <= Len(m.args)
                 /\ ~x.param => Decls(m)[j].dir # "in"
           /\ x.name = Has(Decls(m)[j].name) => i = j /\ Decls(m)[j].has
           /\ x.name = Want(Decls(m)[j].name) =>
                 i = j /\ Decls(m)[j].want /\ x.param /\ j <= Len(m.args)
           /\ x.name \in Names(m) => x.name = Decls(m)[i].name
<1> DEFINE a == Decls(m)[i].name
           b == Decls(m)[j].name
<1>1. a \in Names(m) /\ b \in Names(m) /\ (a = b => i = j)
  BY DeclNames
<1>2. Has(a) \notin Names(m) /\ Want(a) \notin Names(m) /\ Has(b) \notin Names(m) /\ Want(b) \notin Names(m)
  <2>1. Names(m) \intersect FlagNames(AllNames(m)) = {}
    BY DeclNames
  <2>2. a \in AllNames(m) /\ b \in AllNames(m)
    BY <1>1 DEF AllNames
  <2>3. QED
    BY <2>1, <2>2 DEF FlagNames
<1>3. /\ Has(a) = Has(b) \/ Want(a) = Want(b) => a = b
      /\ Has(a) # Want(b) /\ Has(b) # Want(a)
  BY <1>1, DeclNames
<1>4. \/ /\ x.name = a /\ x.exception = (a \in {"base", "derived"})
         /\ x.param => Decls(m)[i].dir # "out" /\ i <= Len(m.args)
         /\ ~x.param => Decls(m)[i].dir # "in"
      \/ x.name = Has(a) /\ Decls(m)[i].has
      \/ x.name = Want(a) /\ Decls(m)[i].want /\ x.param /\ i <= Len(m.args)
  BY DEF FieldOf
<1> HIDE DEF a, b
<1>5. x.name = b =>
         /\ i = j /\ x.exception = (b \in {"base", "derived"})
         /\ x.param => Decls(m)[j].dir # "out" /\ j <= Len(m.args)
         /\ ~x.param => Decls(m)[j].dir # "in"
  BY <1>1, <1>2, <1>4
<1>6. x.name = Has(b) => i = j /\ Decls(m)[j].has
  BY <1>1, <1>2, <1>3, <1>4
<1>7. x.name = Want(b) => i = j /\ Decls(m)[j].want /\ x.param /\ j <= Len(m.args)
  BY <1>1, <1>2, <1>3, <1>4
<1>8. x.name \in Names(m) => x.name = a
  BY <1>2, <1>4
<1>9. QED
  BY <1>5, <1>6, <1>7, <1>8 DEF a, b

\* The field called n of the structs, a parameter or not.
StructHas(s, n, isParam) == \E p \in 1..Len(s) : s[p].name = n /\ s[p].param = isParam
HasName(s, n) == \E p \in 1..Len(s) : s[p].name = n

\* The structs have what the i-th declaration asks for.
InSchema(m, s, i) ==
    LET d == Decls(m)[i]
    IN /\ i <= Len(m.args) /\ d.dir # "out" => StructHas(s, d.name, TRUE)
       /\ d.dir # "in" => StructHas(s, d.name, FALSE)
       /\ d.has => HasName(s, Has(d.name))
       /\ i <= Len(m.args) /\ d.want => StructHas(s, Want(d.name), TRUE)

\* Results and exceptions are outputs.
LEMMA LaterOut ==
    ASSUME NEW m \in Methods, NEW i \in 1..Len(Decls(m)), i > Len(m.args)
    PROVE  Decls(m)[i].dir = "out"
<1>1. ~(i \in 1..Len(m.args))
  BY DeclsAre
<1>2. CASE \E j \in 1..Len(m.throws) : Decls(m)[i] = Exception(m.throws[j])
  <2>1. PICK j \in 1..Len(m.throws) : Decls(m)[i] = Exception(m.throws[j])
    BY <1>2
  <2>2. Exception(m.throws[j]).dir = "out"
    BY Zenon, ExceptionIs
  <2>3. QED
    BY <2>1, <2>2
<1>3. CASE Len(m.returns) = 1 /\ Decls(m)[i] = m.returns[1]
  <2>1. 1 \in 1..Len(m.returns)
    BY <1>3
  <2>2. QED
    BY <1>3, <2>1, MethodFacts
<1>4. QED
  BY <1>1, <1>2, <1>3, DeclCases

\* The schema has the fields of the declarations, and no other.
LEMMA SchemaIs ==
    ASSUME NEW m \in Methods
    PROVE  /\ Schema(m) \in Seq(SchemaType(m))
           /\ \A p \in 1..Len(Schema(m)) : \E i \in 1..Len(Decls(m)) : FieldOf(m, Schema(m)[p], i)
           /\ \A i \in 1..Len(Decls(m)) : InSchema(m, Schema(m), i)
<1> DEFINE s == Schema(m)
           D == Decls(m)
           La == Len(m.args)
           Q == Blocks(m)
<1>1. /\ s = FlattenSeq(Q) /\ Q \in Seq(Seq(SchemaType(m))) /\ Len(Q) = La + Len(D)
      /\ \A i \in 1..La : ToSet(Q[i]) = ParamSet(D[i])
      /\ \A i \in 1..Len(D) : ToSet(Q[La + i]) = ResultSet(D[m.order[i]])
  BY BlocksAre
<1>2. /\ La \in Nat /\ Len(D) \in Nat /\ La <= Len(D)
      /\ \A i \in 1..Len(D) : i > La => D[i].dir = "out"
  <2>1. La \in Nat /\ Len(m.throws) \in Nat /\ Len(m.returns) \in {0, 1}
        /\ Len(D) = La + Len(m.throws) + Len(m.returns)
    BY DeclsAre
  <2>2. \A i \in 1..Len(D) : i > La => D[i].dir = "out"
    BY LaterOut
  <2> DEFINE X == Len(m.throws)
             R == Len(m.returns)
  <2>3. La \in Nat /\ X \in Nat /\ R \in {0, 1} /\ Len(D) = La + X + R
    BY <2>1
  <2> HIDE DEF La, D, X, R
  <2>4. Len(D) \in Nat /\ La <= Len(D)
    BY <2>3
  <2>5. QED
    BY <2>1, <2>2, <2>4
<1>3. /\ FlattenSeq(Q) \in Seq(SchemaType(m))
      /\ \A p \in 1..Len(FlattenSeq(Q)) : \E i \in 1..Len(Q) :
            /\ FlattenSeq(Q)[p] \in ToSet(Q[i])
            /\ \A d \in 1..(i - 1) : \A x \in ToSet(Q[d]) :
                  \E q \in 1..(p - 1) : FlattenSeq(Q)[q] = x
      /\ \A i \in 1..Len(Q) : \A x \in ToSet(Q[i]) :
            \E p \in 1..Len(FlattenSeq(Q)) : FlattenSeq(Q)[p] = x
  BY <1>1, FlattenSets
<1>4. \A i \in 1..La : \A x \in ParamSet(D[i]) : FieldOf(m, x, i)
  BY ParamSetFields
<1>5. \A i \in 1..Len(D) : \A x \in ResultSet(D[i]) : FieldOf(m, x, i)
  BY ResultSetFields
<1>51. /\ \A i \in 1..Len(D) : m.order[i] \in 1..Len(D)
       /\ \A i \in 1..Len(D) : \E x \in 1..Len(D) : m.order[x] = i
  BY OrderIs
<1> HIDE DEF s, D, La, Q
<1>6. /\ s \in Seq(SchemaType(m))
      /\ \A p \in 1..Len(s) : \E i \in 1..Len(Q) : s[p] \in ToSet(Q[i])
      /\ \A i \in 1..Len(Q) : \A x \in ToSet(Q[i]) : \E p \in 1..Len(s) : s[p] = x
  BY <1>1, <1>3
<1>7. ASSUME NEW p \in 1..Len(s) PROVE \E i \in 1..Len(D) : FieldOf(m, s[p], i)
  <2>1. PICK b \in 1..Len(Q) : s[p] \in ToSet(Q[b])
    BY <1>6
  <2>2. CASE b \in 1..La
    <3>1. b \in 1..Len(D)
      BY <1>2, <2>2
    <3>2. QED
      BY <1>1, <1>4, <2>1, <2>2, <3>1
  <2>3. CASE ~(b \in 1..La)
    <3>1. b - La \in 1..Len(D) /\ La + (b - La) = b
      BY <1>1, <1>2, <2>3
    <3>2. ToSet(Q[La + (b - La)]) = ResultSet(D[m.order[b - La]])
      BY <1>1, <3>1
    <3>3. m.order[b - La] \in 1..Len(D) /\ s[p] \in ResultSet(D[m.order[b - La]])
      BY <1>51, <2>1, <3>1, <3>2
    <3>4. QED
      BY <1>5, <3>3
  <2>4. QED
    BY <2>2, <2>3
<1>8. ASSUME NEW i \in 1..La, NEW x \in ParamSet(D[i]) PROVE \E p \in 1..Len(s) : s[p] = x
  <2>1. i \in 1..Len(Q)
    BY <1>1, <1>2
  <2>2. QED
    BY <1>1, <1>6, <2>1
<1>9. ASSUME NEW i \in 1..Len(D), NEW x \in ResultSet(D[i]) PROVE \E p \in 1..Len(s) : s[p] = x
  <2>1. PICK y \in 1..Len(D) : m.order[y] = i
    BY <1>51
  <2>2. La + y \in 1..Len(Q) /\ ToSet(Q[La + y]) = ResultSet(D[i])
    BY <1>1, <1>2, <2>1
  <2>3. QED
    BY <1>6, <2>2
<1>10. ASSUME NEW i \in 1..Len(D) PROVE InSchema(m, s, i)
  <2> DEFINE d == D[i]
  <2>1. d \in Declaration /\ d.has \in BOOLEAN
    <3>1. d \in Declaration
      BY DeclsAre, ElementOfSeq DEF D
    <3>2. QED
      BY <3>1, DeclarationType
  <2> HIDE DEF d
  <2>3. ASSUME i <= La, d.dir # "out" PROVE StructHas(s, d.name, TRUE)
    <3>1. i \in 1..La /\ SchemaField(d.name, d, TRUE, FALSE) \in ParamSet(D[i])
      BY <1>2, <2>3 DEF ParamSet, d
    <3>2. PICK p \in 1..Len(s) : s[p] = SchemaField(d.name, d, TRUE, FALSE)
      BY <1>8, <3>1
    <3>3. QED
      BY <3>2 DEF StructHas, SchemaField
  <2>4. ASSUME d.dir # "in" PROVE StructHas(s, d.name, FALSE)
    <3>1. PICK e \in BOOLEAN : SchemaField(d.name, d, FALSE, e) \in ResultSet(D[i])
      BY <2>4 DEF ResultSet, d
    <3>2. PICK p \in 1..Len(s) : s[p] = SchemaField(d.name, d, FALSE, e)
      BY <1>9, <3>1
    <3>3. QED
      BY <3>2 DEF StructHas, SchemaField
  <2>5. ASSUME d.has PROVE HasName(s, Has(d.name))
    <3>1. CASE d.dir = "out"
      <4>1. PICK e \in BOOLEAN : SchemaField(Has(d.name), d, FALSE, e) \in ResultSet(D[i])
        BY <2>5, <3>1 DEF ResultSet, d
      <4>2. PICK p \in 1..Len(s) : s[p] = SchemaField(Has(d.name), d, FALSE, e)
        BY <1>9, <4>1
      <4>3. QED
        BY <4>2 DEF HasName, SchemaField
    <3>2. CASE d.dir # "out"
      <4>1. i \in 1..La /\ SchemaField(Has(d.name), d, TRUE, FALSE) \in ParamSet(D[i])
        BY <1>2, <2>5, <3>2 DEF ParamSet, d
      <4>2. PICK p \in 1..Len(s) : s[p] = SchemaField(Has(d.name), d, TRUE, FALSE)
        BY <1>8, <4>1
      <4>3. QED
        BY <4>2 DEF HasName, SchemaField
    <3>3. QED
      BY <3>1, <3>2
  <2>6. ASSUME i <= La, d.want PROVE StructHas(s, Want(d.name), TRUE)
    <3>1. i \in 1..La /\ SchemaField(Want(d.name), d, TRUE, FALSE) \in ParamSet(D[i])
      BY <1>2, <2>6 DEF ParamSet, d
    <3>2. PICK p \in 1..Len(s) : s[p] = SchemaField(Want(d.name), d, TRUE, FALSE)
      BY <1>8, <3>1
    <3>3. QED
      BY <3>2 DEF StructHas, SchemaField
  <2>7. QED
    BY <2>3, <2>4, <2>5, <2>6 DEF InSchema, La, D, d
<1>11. QED
  BY <1>6, <1>7, <1>10 DEF s, D

\* The code for the output b cannot be around that for a.
Sequenced(a, b) == a.dir = "out" /\ b.dir = "out" /\ Role(a) # Role(b) => ~Wraps(b, a)

\* ... in an order in which they first appear as they are declared, where that
\* matters.
LEMMA SchemaOrder ==
    ASSUME NEW m \in Methods, Compiles(m), NEW i \in 1..Len(Decls(m)), NEW j \in 1..Len(Decls(m)),
           i < j, Sequenced(Decls(m)[i], Decls(m)[j]),
           NEW p \in 1..Len(Schema(m)), Schema(m)[p].name = Decls(m)[j].name
    PROVE  \E q \in 1..(p - 1) : Schema(m)[q].name = Decls(m)[i].name
<1> DEFINE s == Schema(m)
           D == Decls(m)
           La == Len(m.args)
           Q == Blocks(m)
<1>1. /\ s = FlattenSeq(Q) /\ Q \in Seq(Seq(SchemaType(m))) /\ Len(Q) = La + Len(D)
      /\ \A k \in 1..La : ToSet(Q[k]) = ParamSet(D[k])
      /\ \A k \in 1..Len(D) : ToSet(Q[La + k]) = ResultSet(D[m.order[k]])
  BY BlocksAre
<1>2. /\ La \in Nat /\ Len(D) \in Nat /\ La <= Len(D) /\ D \in Seq(Declaration)
      /\ \A k \in 1..La : D[k] = m.args[k]
  <2>1. La \in Nat /\ Len(m.throws) \in Nat /\ Len(m.returns) \in {0, 1}
        /\ Len(D) = La + Len(m.throws) + Len(m.returns) /\ D \in Seq(Declaration)
        /\ \A k \in 1..La : D[k] = m.args[k]
    BY DeclsAre
  <2> DEFINE X == Len(m.throws)
             R == Len(m.returns)
  <2>2. La \in Nat /\ X \in Nat /\ R \in {0, 1} /\ Len(D) = La + X + R
    BY <2>1
  <2> HIDE DEF La, D, X, R
  <2>3. Len(D) \in Nat /\ La <= Len(D)
    BY <2>2
  <2>4. QED
    BY <2>1, <2>3
<1>3. ASSUME NEW k \in 1..Len(D) PROVE D[k].dir # "out" => k <= La
  <2>1. k > La => D[k].dir = "out"
    BY LaterOut
  <2> HIDE DEF La, D
  <2>2. QED
    BY <1>2, <2>1
<1>4. ASSUME i <= La, j <= La, D[j].dir # "out" PROVE D[i].dir # "out"
  <2>1. DOMAIN m.args = 1..La
    BY MethodFacts, LenProperties
  <2>2. i \in DOMAIN m.args /\ j \in DOMAIN m.args
    BY <1>2, <1>4, <2>1
  <2>3. m.args[i].dir = "out" => m.args[j].dir = "out"
    BY <2>2 DEF Compiles
  <2>4. QED
    BY <1>2, <1>4, <2>1, <2>2, <2>3
<1>5. PICK b \in 1..Len(Q) :
         /\ s[p] \in ToSet(Q[b])
         /\ \A k \in 1..(b - 1) : \A x \in ToSet(Q[k]) : \E q \in 1..(p - 1) : s[q] = x
  <2>1. \A n \in 1..Len(FlattenSeq(Q)) : \E k \in 1..Len(Q) :
            /\ FlattenSeq(Q)[n] \in ToSet(Q[k])
            /\ \A d \in 1..(k - 1) : \A x \in ToSet(Q[d]) :
                  \E q \in 1..(n - 1) : FlattenSeq(Q)[q] = x
    BY <1>1, FlattenSets
  <2>2. p \in 1..Len(s) /\ s = FlattenSeq(Q)
    BY <1>1
  <2> HIDE DEF s, Q, D, La
  <2>3. PICK b \in 1..Len(Q) :
          /\ FlattenSeq(Q)[p] \in ToSet(Q[b])
          /\ \A d \in 1..(b - 1) : \A x \in ToSet(Q[d]) :
                \E q \in 1..(p - 1) : FlattenSeq(Q)[q] = x
    BY <2>1, <2>2
  <2>4. /\ s[p] \in ToSet(Q[b])
        /\ \A d \in 1..(b - 1) : \A x \in ToSet(Q[d]) : \E q \in 1..(p - 1) : s[q] = x
    BY <2>2, <2>3
  <2>5. QED
    BY <2>4
<1>6. SUFFICES \E k \in 1..(b - 1) : \E x \in ToSet(Q[k]) : x.name = D[i].name
  BY <1>5
<1>7. \A x \in ParamSet(D[b]) : b \in 1..La => FieldOf(m, x, b) /\ x.param
  BY ParamSetFields
<1>8. \A k \in 1..Len(D) : \A x \in ResultSet(D[k]) : FieldOf(m, x, k)
  BY ResultSetFields
<1>81. /\ DOMAIN m.order = 1..Len(D)
       /\ \A x \in 1..Len(D) : m.order[x] \in 1..Len(D) /\ Output(m, x) = D[m.order[x]]
       /\ \A k \in 1..Len(D) : \E x \in 1..Len(D) : m.order[x] = k
       /\ \A x, y \in 1..Len(D) :
             /\ x < y /\ Role(Output(m, x)) = Role(Output(m, y))
             /\ Output(m, x).dir = "out" /\ Output(m, y).dir = "out"
             => m.order[x] < m.order[y]
  BY OrderIs DEF Output
<1>82. \A x, y \in 1..Len(D) : x < y => Wraps(Output(m, x), Output(m, y))
  BY <1>81 DEF Compiles
<1>83. Sequenced(D[i], D[j])
  OBVIOUS
<1>9. \A k \in 1..Len(D) : FieldOf(m, s[p], k) => k = j /\ (s[p].param => D[j].dir # "out")
  BY FieldNames
<1>10. /\ D[i].dir # "out" => \E x \in ParamSet(D[i]) : x.name = D[i].name
       /\ D[i].dir # "in" => \E x \in ResultSet(D[i]) : x.name = D[i].name
  <2>1. D[i].dir # "out" => SchemaField(D[i].name, D[i], TRUE, FALSE) \in ParamSet(D[i])
    BY DEF ParamSet
  <2>2. D[i].dir # "in" => \E e \in BOOLEAN : SchemaField(D[i].name, D[i], FALSE, e) \in ResultSet(D[i])
    BY DEF ResultSet
  <2>3. QED
    BY <2>1, <2>2 DEF SchemaField
<1> HIDE DEF s, D, La, Q
<1>11. i \in 1..Len(D) /\ j \in 1..Len(D)
  BY DEF D
<1>12. CASE b \in 1..La
  <2>1. FieldOf(m, s[p], b) /\ s[p].param
    BY <1>1, <1>5, <1>7, <1>12
  <2>2. b = j /\ D[j].dir # "out"
    BY <1>2, <1>9, <1>12, <2>1
  <2>3. i \in 1..La /\ i \in 1..(b - 1) /\ D[i].dir # "out"
    BY <1>2, <1>4, <1>11, <1>12, <2>2
  <2>4. QED
    BY <1>1, <1>10, <2>3
<1>13. CASE ~(b \in 1..La)
  <2>1. PICK x \in 1..Len(D) : b = La + x
    <3>1. b - La \in 1..Len(D) /\ b = La + (b - La)
      BY <1>1, <1>2, <1>13
    <3>2. QED
      BY <3>1
  <2>2. m.order[x] \in 1..Len(D) /\ s[p] \in ResultSet(D[m.order[x]])
    BY <1>1, <1>5, <1>81, <2>1
  <2>3. m.order[x] = j
    BY <1>8, <1>9, <2>2
  <2>4. CASE D[i].dir # "out"
    <3>1. i \in 1..La /\ i \in 1..(b - 1)
      BY <1>2, <1>3, <1>11, <2>1, <2>4
    <3>2. QED
      BY <1>1, <1>10, <2>4, <3>1
  <2>5. CASE D[i].dir = "out"
    <3>1. D[j].dir = "out"
      BY <1>2, <1>3, <1>4, <1>11, <2>5
    <3>2. PICK y \in 1..Len(D) : m.order[y] = i
      BY <1>11, <1>81
    <3>3. Output(m, x) = D[j] /\ Output(m, y) = D[i]
      BY <1>81, <2>3, <3>2
    <3>4. y # x
      BY <2>3, <3>2
    <3>5. ASSUME x < y PROVE FALSE
      <4>1. Wraps(D[j], D[i])
        BY <1>82, <3>3, <3>5
      <4>2. Role(D[j]) # Role(D[i])
        <5>1. ~(j < i)
          BY <1>11
        <5>2. ~(m.order[x] < m.order[y])
          BY <2>3, <3>2, <5>1
        <5>3. QED
          BY Zenon, <1>81, <2>5, <3>1, <3>3, <3>5, <5>2
      <4>3. QED
        BY <1>83, <2>5, <3>1, <4>1, <4>2 DEF Sequenced
    <3>6. La + y \in 1..(b - 1)
      BY <1>2, <2>1, <3>4, <3>5
    <3>7. ToSet(Q[La + y]) = ResultSet(D[i])
      BY <1>1, <3>2
    <3>8. QED
      BY <1>10, <2>5, <3>6, <3>7
  <2>6. QED
    BY <2>4, <2>5
<1>14. QED
  BY <1>12, <1>13

----------------------------------------------------------------------------
(* mpgen pairs the fields of the schema with the declarations.             *)

\* The entries of FieldList::fields.
FieldRec(m) ==
    [name : AllNames(m), decl : Declaration, param : BOOLEAN, result : BOOLEAN, args : Nat,
     retval : BOOLEAN, optional : BOOLEAN, requested : BOOLEAN, skip : BOOLEAN,
     exception : BOOLEAN]

\* The field f stands for those of its name among the first n of the schema.
Gathered(m, f, n) ==
    LET s == Schema(m)
    IN /\ \E p \in 1..n : s[p].name = f.name /\ s[p].decl = f.decl
       /\ f.param <=> \E p \in 1..n : s[p].name = f.name /\ s[p].param
       /\ f.result <=> \E p \in 1..n : s[p].name = f.name /\ ~s[p].param
       /\ f.name = f.decl.name =>
             /\ f.skip <=> f.decl.kind = "skipped"
             /\ f.exception <=> f.name \in {"base", "derived"}
             /\ f.retval <=> f.name = "result"
             /\ f.args = IF f.retval \/ f.exception THEN 0 ELSE f.decl.count

\* The list F after the first n fields of the schema: one entry for each name, in
\* the order in which the names were met.
Generating(m, F, n) ==
    /\ F \in Seq(FieldRec(m))
    /\ n \in 0..Len(Schema(m))
    /\ \A k \in 1..Len(F) : Gathered(m, F[k], n)
    /\ \A k, l \in 1..Len(F) : F[k].name = F[l].name => k = l
    /\ \A p \in 1..n : \E k \in 1..Len(F) : F[k].name = Schema(m)[p].name
    /\ \A k, l \in 1..Len(F) :
          k < l => \E p \in 1..n : /\ Schema(m)[p].name = F[k].name
                                   /\ \A q \in 1..p : Schema(m)[q].name # F[l].name

\* Fields of the schema with the same name.
LEMMA SameName ==
    ASSUME NEW m \in Methods, NEW p \in 1..Len(Schema(m)), NEW q \in 1..Len(Schema(m)),
           Schema(m)[p].name = Schema(m)[q].name
    PROVE  Schema(m)[p].decl = Schema(m)[q].decl
<1> DEFINE x == Schema(m)[p]
           y == Schema(m)[q]
<1>1. PICK i \in 1..Len(Decls(m)) : FieldOf(m, x, i)
  BY SchemaIs
<1>2. PICK j \in 1..Len(Decls(m)) : FieldOf(m, y, j)
  BY SchemaIs
<1>3. x.name = y.name
  OBVIOUS
<1> HIDE DEF x, y
<1>4. x.name \in {Decls(m)[i].name, Has(Decls(m)[i].name), Want(Decls(m)[i].name)}
      /\ x.decl = Decls(m)[i]
  BY <1>1 DEF FieldOf
<1>5. y.decl = Decls(m)[j]
  BY <1>2 DEF FieldOf
<1>6. i = j
  BY <1>2, <1>3, <1>4, FieldNames
<1>7. QED
  BY <1>4, <1>5, <1>6 DEF x, y

\* A field with the name of its declaration.
LEMMA OwnName ==
    ASSUME NEW m \in Methods, NEW p \in 1..Len(Schema(m)), NEW x, x = Schema(m)[p],
           x.name = x.decl.name
    PROVE  /\ x.exception <=> x.name \in {"base", "derived"}
           /\ x.name = "result" => ~x.param
<1>1. PICK i \in 1..Len(Decls(m)) : FieldOf(m, x, i)
  BY SchemaIs
<1>2. x.name = Decls(m)[i].name
  BY <1>1 DEF FieldOf
<1>3. x.exception = (x.name \in {"base", "derived"}) /\ (x.param => i <= Len(m.args))
  <2>1. x.exception = (Decls(m)[i].name \in {"base", "derived"}) /\ (x.param => i <= Len(m.args))
    BY <1>1, <1>2, FieldNames
  <2>2. QED
    BY <1>2, <2>1
<1>4. i <= Len(m.args) => x.name # "result"
  <2>1. ASSUME i <= Len(m.args) PROVE Decls(m)[i].name # "result"
    <3>1. i \in 1..Len(m.args)
      BY <2>1, DeclsAre
    <3>2. Decls(m)[i] = m.args[i] /\ m.args[i].name \notin {"result", "base", "derived"}
      BY <3>1, DeclsAre, MethodFacts
    <3>3. QED
      BY <3>2
  <2>2. QED
    BY <1>2, <2>1
<1>5. QED
  BY <1>3, <1>4

\* The type of a field of the schema.
LEMMA SchemaAt ==
    ASSUME NEW m \in Methods, NEW p \in 1..Len(Schema(m))
    PROVE  /\ Schema(m)[p].name \in AllNames(m) /\ Schema(m)[p].decl \in Declaration
           /\ Schema(m)[p].param \in BOOLEAN /\ Schema(m)[p].exception \in BOOLEAN
<1>1. Schema(m) \in Seq(SchemaType(m))
  BY SchemaIs
<1>2. Schema(m)[p] \in SchemaType(m)
  BY <1>1, ElementOfSeq
<1>3. QED
  BY <1>2 DEF SchemaType

\* What AddField does to a field of another name, of the same name, and to none.
LEMMA GatherOther ==
    ASSUME NEW m \in Methods, NEW n \in Nat, n < Len(Schema(m)), NEW f, Gathered(m, f, n),
           f.name # Schema(m)[n + 1].name
    PROVE  Gathered(m, f, n + 1)
<1> DEFINE s == Schema(m)
<1>1. /\ \E p \in 1..n : s[p].name = f.name /\ s[p].decl = f.decl
      /\ f.param <=> \E p \in 1..n : s[p].name = f.name /\ s[p].param
      /\ f.result <=> \E p \in 1..n : s[p].name = f.name /\ ~s[p].param
      /\ f.name = f.decl.name =>
             /\ f.skip <=> f.decl.kind = "skipped"
             /\ f.exception <=> f.name \in {"base", "derived"}
             /\ f.retval <=> f.name = "result"
             /\ f.args = IF f.retval \/ f.exception THEN 0 ELSE f.decl.count
      /\ f.name # s[n + 1].name
  BY DEF Gathered
<1> HIDE DEF s
<1>2. \A p \in 1..n : p \in 1..(n + 1)
  OBVIOUS
<1>3. \A p \in 1..(n + 1) : s[p].name = f.name => p \in 1..n
  BY <1>1
<1>4. \E p \in 1..(n + 1) : s[p].name = f.name /\ s[p].decl = f.decl
  BY <1>1, <1>2
<1>5. f.param <=> \E p \in 1..(n + 1) : s[p].name = f.name /\ s[p].param
  BY <1>1, <1>2, <1>3
<1>6. f.result <=> \E p \in 1..(n + 1) : s[p].name = f.name /\ ~s[p].param
  BY <1>1, <1>2, <1>3
<1>7. QED
  BY Zenon, <1>1, <1>4, <1>5, <1>6 DEF Gathered, s

\* What adding a field sets.
LEMMA AddedIs ==
    ASSUME NEW m \in Methods, NEW f \in FieldRec(m), NEW x \in SchemaType(m)
    PROVE  LET g == Added(f, x)
               retval == ~x.param /\ x.name = "result"
           IN /\ g \in FieldRec(m) /\ g.name = f.name /\ g.decl = f.decl
              /\ g.param <=> f.param \/ x.param
              /\ g.result <=> f.result \/ ~x.param
              /\ g.retval <=> f.retval \/ retval
              /\ g.skip <=> f.skip \/ x.decl.kind = "skipped"
              /\ g.exception <=> f.exception \/ x.exception
              /\ g.args = IF f.param \/ f.result \/ retval \/ x.exception THEN f.args
                          ELSE x.decl.count
<1> DEFINE g == Added(f, x)
           retval == ~x.param /\ x.name = "result"
<1>1. x.param \in BOOLEAN /\ x.exception \in BOOLEAN /\ x.decl \in Declaration
  BY DEF SchemaType
<1>2. x.decl.count \in Nat
  BY <1>1, DeclarationType
<1>3. g = [f EXCEPT !.param = f.param \/ x.param,
                 !.result = f.result \/ ~x.param,
                 !.retval = f.retval \/ retval,
                 !.skip = f.skip \/ x.decl.kind = "skipped",
                 !.exception = f.exception \/ x.exception,
                 !.args = CountArgs(f, x, retval)]
  BY DEF Added
<1>4. CountArgs(f, x, retval) = IF f.param \/ f.result \/ retval \/ x.exception THEN f.args
                          ELSE x.decl.count
  BY DEF CountArgs
<1>5. CountArgs(f, x, retval) \in Nat
  BY <1>2, <1>4 DEF FieldRec
<1> DEFINE cnt == CountArgs(f, x, retval)
           a == f.param \/ x.param
           b == f.result \/ ~x.param
           c == f.retval \/ retval
           d == f.skip \/ x.decl.kind = "skipped"
           e == f.exception \/ x.exception
<1>6. a \in BOOLEAN /\ b \in BOOLEAN /\ c \in BOOLEAN /\ d \in BOOLEAN /\ e \in BOOLEAN /\ cnt \in Nat
  BY <1>5
<1>7. g = [f EXCEPT !.param = a, !.result = b, !.retval = c, !.skip = d, !.exception = e, !.args = cnt]
  BY <1>3
<1> HIDE DEF a, b, c, d, e, cnt, g
<1> DEFINE N == AllNames(m)
<1>8. f \in [name : N, decl : Declaration, param : BOOLEAN, result : BOOLEAN, args : Nat,
             retval : BOOLEAN, optional : BOOLEAN, requested : BOOLEAN, skip : BOOLEAN,
             exception : BOOLEAN]
  BY DEF FieldRec
<1> HIDE DEF N
<1>81. g \in [name : N, decl : Declaration, param : BOOLEAN, result : BOOLEAN, args : Nat,
              retval : BOOLEAN, optional : BOOLEAN, requested : BOOLEAN, skip : BOOLEAN,
              exception : BOOLEAN]
  <2>1. /\ f.name \in N /\ f.decl \in Declaration /\ f.param \in BOOLEAN /\ f.result \in BOOLEAN
        /\ f.args \in Nat /\ f.retval \in BOOLEAN /\ f.optional \in BOOLEAN
        /\ f.requested \in BOOLEAN /\ f.skip \in BOOLEAN /\ f.exception \in BOOLEAN
    BY <1>8
  <2>2. f = [name |-> f.name, decl |-> f.decl, param |-> f.param, result |-> f.result,
             args |-> f.args, retval |-> f.retval, optional |-> f.optional,
             requested |-> f.requested, skip |-> f.skip, exception |-> f.exception]
    BY <1>8
  <2>3. g = [name |-> f.name, decl |-> f.decl, param |-> a, result |-> b,
             args |-> cnt, retval |-> c, optional |-> f.optional,
             requested |-> f.requested, skip |-> d, exception |-> e]
    BY <1>7, <2>2
  <2>4. QED
    BY <1>6, <2>1, <2>3
<1>82. g.name = f.name /\ g.decl = f.decl
  BY <1>7, <1>8
<1>83. g.param = a /\ g.result = b /\ g.retval = c
  BY <1>7, <1>8
<1>84. g.skip = d /\ g.exception = e /\ g.args = cnt
  BY <1>7, <1>8
<1>85. g \in FieldRec(m)
  BY <1>81 DEF FieldRec, N
<1>9. QED
  BY <1>4, <1>82, <1>83, <1>84, <1>85 DEF a, b, c, d, e, cnt, g

\* AddField of a field whose name is in the list extends that entry by it.
LEMMA GatherSame ==
    ASSUME NEW m \in Methods, NEW n \in Nat, n < Len(Schema(m)), NEW f \in FieldRec(m),
           Gathered(m, f, n), f.name = Schema(m)[n + 1].name
    PROVE  Gathered(m, Added(f, Schema(m)[n + 1]), n + 1)
<1> DEFINE s == Schema(m)
           x == s[n + 1]
           g == Added(f, x)
           retval == ~x.param /\ x.name = "result"
<1>0. n + 1 \in 1..Len(s) /\ s \in Seq(SchemaType(m)) /\ \A p \in 1..n : p \in 1..Len(s)
  BY SchemaIs, LenProperties
<1>1. /\ \E p \in 1..n : s[p].name = f.name /\ s[p].decl = f.decl
      /\ f.param <=> \E p \in 1..n : s[p].name = f.name /\ s[p].param
      /\ f.result <=> \E p \in 1..n : s[p].name = f.name /\ ~s[p].param
      /\ f.name = f.decl.name =>
             /\ f.skip <=> f.decl.kind = "skipped"
             /\ f.exception <=> f.name \in {"base", "derived"}
             /\ f.retval <=> f.name = "result"
             /\ f.args = IF f.retval \/ f.exception THEN 0 ELSE f.decl.count
      /\ f.name = s[n + 1].name
  BY DEF Gathered
<1>2. x.name = x.decl.name =>
         /\ x.exception <=> x.name \in {"base", "derived"}
         /\ x.name = "result" => ~x.param
  BY <1>0, OwnName
<1>3. f.decl = x.decl
  BY <1>0, <1>1, SameName
<1>4. x \in SchemaType(m)
  BY <1>0, ElementOfSeq
<1>5. /\ g.name = f.name /\ g.decl = f.decl
      /\ g.param <=> f.param \/ x.param
      /\ g.result <=> f.result \/ ~x.param
      /\ g.retval <=> f.retval \/ retval
      /\ g.skip <=> f.skip \/ x.decl.kind = "skipped"
      /\ g.exception <=> f.exception \/ x.exception
      /\ g.args = IF f.param \/ f.result \/ retval \/ x.exception THEN f.args ELSE x.decl.count
  BY <1>4, AddedIs
<1>6. x = s[n + 1]
  OBVIOUS
<1> HIDE DEF s, x, g
<1>7. f.param \/ f.result
  BY <1>1
<1>8. \A p \in 1..n : p \in 1..(n + 1)
  OBVIOUS
<1>9. \A p \in 1..(n + 1) : p \in 1..n \/ p = n + 1
  OBVIOUS
<1>91. n + 1 \in 1..(n + 1)
  OBVIOUS
<1>10. \E p \in 1..(n + 1) : s[p].name = g.name /\ s[p].decl = g.decl
  BY <1>1, <1>3, <1>5, <1>6, <1>91
<1>11. g.param <=> \E p \in 1..(n + 1) : s[p].name = g.name /\ s[p].param
  BY <1>1, <1>5, <1>6, <1>8, <1>9, <1>91
<1>12. g.result <=> \E p \in 1..(n + 1) : s[p].name = g.name /\ ~s[p].param
  BY <1>1, <1>5, <1>6, <1>8, <1>9, <1>91
<1>13. ASSUME g.name = g.decl.name
       PROVE  /\ g.skip <=> g.decl.kind = "skipped"
              /\ g.exception <=> g.name \in {"base", "derived"}
              /\ g.retval <=> g.name = "result"
              /\ g.args = IF g.retval \/ g.exception THEN 0 ELSE g.decl.count
  <2>1. f.name = f.decl.name /\ x.name = x.decl.name /\ x.name = f.name
    BY <1>1, <1>3, <1>5, <1>6, <1>13
  <2>2. g.skip <=> g.decl.kind = "skipped"
    BY <1>1, <1>3, <1>5, <2>1
  <2>3. g.exception <=> f.exception
    BY <1>1, <1>2, <1>5, <2>1
  <2>4. g.retval <=> f.retval
    BY <1>1, <1>2, <1>5, <2>1
  <2>5. g.args = f.args
    BY <1>5, <1>7
  <2>6. f.args = IF f.retval \/ f.exception THEN 0 ELSE f.decl.count
    BY <1>1, <2>1
  <2>7. g.args = IF g.retval \/ g.exception THEN 0 ELSE g.decl.count
    BY <1>5, <2>3, <2>4, <2>5, <2>6
  <2>8. (g.exception <=> g.name \in {"base", "derived"}) /\ (g.retval <=> g.name = "result")
    BY <1>1, <1>5, <2>1, <2>3, <2>4
  <2>9. QED
    BY <2>2, <2>7, <2>8
<1>14. Gathered(m, g, n + 1)
  BY Zenon, <1>10, <1>11, <1>12, <1>13 DEF Gathered, s
<1>15. QED
  BY <1>14 DEF g, x, s

\* AddField of a field whose name is new starts an entry with it.
LEMMA GatherNew ==
    ASSUME NEW m \in Methods, NEW n \in Nat, n < Len(Schema(m)), NEW x, x = Schema(m)[n + 1],
           \A p \in 1..n : Schema(m)[p].name # x.name
    PROVE  /\ Gathered(m, Added(NewField(x.name, x.decl), x), n + 1)
           /\ Added(NewField(x.name, x.decl), x) \in FieldRec(m)
           /\ Added(NewField(x.name, x.decl), x).name = x.name
<1> DEFINE s == Schema(m)
           f == NewField(x.name, x.decl)
           g == Added(f, x)
           retval == ~x.param /\ x.name = "result"
<1>0. n + 1 \in 1..Len(s) /\ s \in Seq(SchemaType(m)) /\ \A p \in 1..n : p \in 1..Len(s)
  BY SchemaIs, LenProperties
<1>2. x.name = x.decl.name =>
         /\ x.exception <=> x.name \in {"base", "derived"}
         /\ x.name = "result" => ~x.param
  BY <1>0, OwnName
<1>3. x \in SchemaType(m) /\ x.name \in AllNames(m) /\ x.decl \in Declaration
  BY <1>0, ElementOfSeq, SchemaAt
<1>4. /\ f \in FieldRec(m) /\ f.name = x.name /\ f.decl = x.decl
      /\ ~f.param /\ ~f.result /\ ~f.retval /\ ~f.skip /\ ~f.exception /\ f.args = 0
  BY <1>3 DEF NewField, FieldRec
<1>5. /\ g \in FieldRec(m) /\ g.name = f.name /\ g.decl = f.decl
      /\ g.param <=> f.param \/ x.param
      /\ g.result <=> f.result \/ ~x.param
      /\ g.retval <=> f.retval \/ retval
      /\ g.skip <=> f.skip \/ x.decl.kind = "skipped"
      /\ g.exception <=> f.exception \/ x.exception
      /\ g.args = IF f.param \/ f.result \/ retval \/ x.exception THEN f.args ELSE x.decl.count
  BY <1>3, <1>4, AddedIs
<1>6. x = s[n + 1] /\ \A p \in 1..n : s[p].name # x.name
  OBVIOUS
<1> HIDE DEF s, f, g
<1>91. n + 1 \in 1..(n + 1) /\ \A p \in 1..(n + 1) : p \in 1..n \/ p = n + 1
  OBVIOUS
<1>10. \E p \in 1..(n + 1) : s[p].name = g.name /\ s[p].decl = g.decl
  BY <1>4, <1>5, <1>6, <1>91
<1>11. g.param <=> \E p \in 1..(n + 1) : s[p].name = g.name /\ s[p].param
  BY <1>4, <1>5, <1>6, <1>91
<1>12. g.result <=> \E p \in 1..(n + 1) : s[p].name = g.name /\ ~s[p].param
  BY <1>4, <1>5, <1>6, <1>91
<1>13. ASSUME g.name = g.decl.name
       PROVE  /\ g.skip <=> g.decl.kind = "skipped"
              /\ g.exception <=> g.name \in {"base", "derived"}
              /\ g.retval <=> g.name = "result"
              /\ g.args = IF g.retval \/ g.exception THEN 0 ELSE g.decl.count
  <2>1. x.name = x.decl.name /\ g.name = x.name /\ g.decl = x.decl
    BY <1>4, <1>5, <1>13
  <2>2. g.skip <=> g.decl.kind = "skipped"
    BY <1>4, <1>5, <2>1
  <2>3. (g.exception <=> x.exception) /\ (g.exception <=> g.name \in {"base", "derived"})
    BY <1>2, <1>4, <1>5, <2>1
  <2>4. (g.retval <=> retval) /\ (g.retval <=> g.name = "result")
    BY <1>2, <1>4, <1>5, <2>1
  <2>5. g.args = IF g.retval \/ g.exception THEN 0 ELSE g.decl.count
    BY <1>4, <1>5, <2>1, <2>3, <2>4
  <2>9. QED
    BY <2>2, <2>3, <2>4, <2>5
<1>14. Gathered(m, g, n + 1)
  BY Zenon, <1>10, <1>11, <1>12, <1>13 DEF Gathered, s
<1>15. QED
  BY <1>4, <1>5, <1>14 DEF g, f

\* AddField takes the next field of the schema into account.
LEMMA AddFieldGathers ==
    ASSUME method \in Methods, at \in Nat, Generating(method, fields, at - 1), AddField
    PROVE  at + 1 - 1 = at /\ Generating(method, fields', at)
<1> DEFINE m == method
           s == Schema(m)
           n == at - 1
           x == s[at]
           N == Len(fields)
<1>1. /\ fields \in Seq(FieldRec(m))
      /\ n \in 0..Len(s)
      /\ \A k \in 1..N : Gathered(m, fields[k], n)
      /\ \A k, l \in 1..N : fields[k].name = fields[l].name => k = l
      /\ \A p \in 1..n : \E k \in 1..N : fields[k].name = s[p].name
      /\ \A k, l \in 1..N :
            k < l => \E p \in 1..n : /\ s[p].name = fields[k].name
                                     /\ \A q \in 1..p : s[q].name # fields[l].name
  BY DEF Generating
<1>2. s \in Seq(SchemaType(m)) /\ Len(s) \in Nat
  BY SchemaIs, LenProperties
<1>3. /\ at <= Len(s) /\ n \in Nat /\ n < Len(s) /\ n + 1 = at /\ at \in 1..Len(s)
      /\ at \in 0..Len(s)
  BY <1>1, <1>2 DEF AddField
<1>4. N \in Nat /\ DOMAIN fields = 1..N /\ \A k \in 1..N : fields[k] \in FieldRec(m)
  BY <1>1, LenProperties, ElementOfSeq
<1>5. x = s[n + 1] /\ x \in SchemaType(m)
  BY <1>2, <1>3, ElementOfSeq
<1>6. ASSUME NEW k \in 1..N, fields[k].name # x.name PROVE Gathered(m, fields[k], at)
  <2>1. Gathered(m, fields[k], n + 1)
    BY <1>1, <1>3, <1>5, <1>6, GatherOther
  <2>2. QED
    BY <1>3, <2>1
<1>7. \A p \in 1..at : p \in 1..n \/ p = at
  BY <1>3
<1>8. at \in 1..at /\ \A p \in 1..n : p \in 1..at
  BY <1>3
<1>9. CASE ~Listed(x.name) /\ fields' = Append(fields, Added(NewField(x.name, x.decl), x))
  <2> DEFINE g == Added(NewField(x.name, x.decl), x)
             G == fields'
  <2>1. \A k \in 1..N : fields[k].name # x.name
    BY <1>4, <1>9 DEF Listed
  <2>2. \A p \in 1..n : s[p].name # x.name
    BY <1>1, <2>1
  <2>3. Gathered(m, g, n + 1) /\ g \in FieldRec(m) /\ g.name = x.name
    BY <1>3, <1>5, <2>2, GatherNew
  <2> HIDE DEF g, x, s
  <2>4. /\ G \in Seq(FieldRec(m)) /\ Len(G) = N + 1 /\ G[N + 1] = g
        /\ \A k \in 1..N : G[k] = fields[k]
    BY <1>1, <1>9, <2>3, AppendProperties DEF g
  <2>41. \A k \in 1..Len(G) : k \in 1..N \/ k = N + 1
    BY <1>4, <2>4
  <2>42. N + 1 \in 1..Len(G) /\ \A k \in 1..N : k \in 1..Len(G)
    BY <1>4, <2>4
  <2> HIDE DEF G, N
  <2>5. \A k \in 1..Len(G) : Gathered(m, G[k], at)
    BY <1>3, <1>6, <2>1, <2>3, <2>4, <2>41
  <2>6. ASSUME NEW k \in 1..Len(G), NEW l \in 1..Len(G), G[k].name = G[l].name PROVE k = l
    <3>1. CASE k \in 1..N /\ l \in 1..N
      BY <1>1, <2>4, <2>6, <3>1
    <3>2. CASE k \in 1..N /\ l = N + 1
      <4>1. G[k].name # x.name /\ G[l].name = x.name
        BY <2>1, <2>3, <2>4, <3>2
      <4>2. QED
        BY <2>6, <4>1
    <3>3. CASE k = N + 1 /\ l \in 1..N
      <4>1. G[l].name # x.name /\ G[k].name = x.name
        BY <2>1, <2>3, <2>4, <3>3
      <4>2. QED
        BY <2>6, <4>1
    <3>4. QED
      BY <2>41, <3>1, <3>2, <3>3
  <2>7. ASSUME NEW p \in 1..at PROVE \E k \in 1..Len(G) : G[k].name = s[p].name
    <3>1. CASE p \in 1..n
      <4>1. PICK k \in 1..N : fields[k].name = s[p].name
        BY <1>1, <3>1
      <4>2. QED
        BY <2>4, <2>42, <4>1
    <3>2. CASE p = at
      BY <2>3, <2>4, <2>42, <3>2 DEF x
    <3>3. QED
      BY <1>7, <3>1, <3>2
  <2>8. ASSUME NEW k \in 1..Len(G), NEW l \in 1..Len(G), k < l
        PROVE  \E p \in 1..at : s[p].name = G[k].name /\ \A q \in 1..p : s[q].name # G[l].name
    <3>1. k \in 1..N
      BY <1>4, <2>4, <2>8
    <3>2. CASE l \in 1..N
      <4>1. PICK p \in 1..n : s[p].name = fields[k].name /\ \A q \in 1..p : s[q].name # fields[l].name
        BY <1>1, <2>8, <3>1, <3>2
      <4>2. QED
        BY <1>8, <2>4, <3>1, <3>2, <4>1
    <3>3. CASE l = N + 1
      <4>1. PICK p \in 1..n : s[p].name = fields[k].name
        <5>1. Gathered(m, fields[k], n)
          BY <1>1, <3>1
        <5>2. QED
          BY <5>1 DEF Gathered, s
      <4>2. \A q \in 1..p : q \in 1..n
        BY <1>3
      <4>3. \A q \in 1..p : s[q].name # G[l].name
        BY <2>2, <2>3, <2>4, <3>3, <4>2
      <4>4. QED
        BY <1>8, <2>4, <3>1, <4>1, <4>3
    <3>4. QED
      BY <2>41, <3>2, <3>3
  <2>9. Generating(m, G, at)
    BY <1>3, <2>4, <2>5, <2>6, <2>7, <2>8 DEF Generating, s
  <2>10. QED
    BY <1>3, <2>9 DEF G
<1>10. CASE \E i \in DOMAIN fields :
               fields[i].name = x.name /\ fields' = [fields EXCEPT ![i] = Added(fields[i], x)]
  <2>1. PICK i \in 1..N :
               fields[i].name = x.name /\ fields' = [fields EXCEPT ![i] = Added(fields[i], x)]
    BY <1>4, <1>10
  <2> DEFINE g == Added(fields[i], x)
             G == fields'
  <2>2. Gathered(m, g, n + 1)
    BY <1>1, <1>3, <1>4, <1>5, <2>1, GatherSame
  <2>3. g \in FieldRec(m) /\ g.name = x.name
    BY <1>4, <1>5, <2>1, AddedIs
  <2> HIDE DEF g, x, s
  <2>4. /\ G \in Seq(FieldRec(m)) /\ Len(G) = N /\ G[i] = g
        /\ \A k \in 1..N : k # i => G[k] = fields[k]
    <3>1. G = [fields EXCEPT ![i] = g]
      BY <2>1 DEF g
    <3>2. QED
      BY <1>1, <2>3, <3>1, ExceptSeq
  <2>5. \A k \in 1..N : G[k].name = fields[k].name
    BY <2>1, <2>3, <2>4
  <2> HIDE DEF G, N
  <2>6. \A k \in 1..Len(G) : Gathered(m, G[k], at)
    <3>1. \A k \in 1..N : k # i => fields[k].name # x.name
      BY <1>1, <2>1
    <3>2. QED
      BY <1>3, <1>6, <2>2, <2>4, <3>1
  <2>7. \A k, l \in 1..Len(G) : G[k].name = G[l].name => k = l
    BY <1>1, <2>4, <2>5
  <2>8. ASSUME NEW p \in 1..at PROVE \E k \in 1..Len(G) : G[k].name = s[p].name
    <3>1. CASE p \in 1..n
      BY <1>1, <2>4, <2>5, <3>1
    <3>2. CASE p = at
      BY <2>1, <2>4, <2>5, <3>2 DEF x
    <3>3. QED
      BY <1>7, <3>1, <3>2
  <2>9. ASSUME NEW k \in 1..Len(G), NEW l \in 1..Len(G), k < l
        PROVE  \E p \in 1..at : s[p].name = G[k].name /\ \A q \in 1..p : s[q].name # G[l].name
    <3>1. PICK p \in 1..n : s[p].name = fields[k].name /\ \A q \in 1..p : s[q].name # fields[l].name
      BY <1>1, <2>4, <2>9
    <3>2. QED
      BY <1>8, <2>4, <2>5, <3>1
  <2>10. Generating(m, G, at)
    BY <1>3, <2>4, <2>6, <2>7, <2>8, <2>9 DEF Generating, s
  <2>11. QED
    BY <1>3, <2>10 DEF G
<1>11. (~Listed(x.name) /\ fields' = Append(fields, Added(NewField(x.name, x.decl), x)))
       \/ \E i \in DOMAIN fields :
             fields[i].name = x.name /\ fields' = [fields EXCEPT ![i] = Added(fields[i], x)]
  BY DEF AddField
<1>12. QED
  BY <1>9, <1>10, <1>11

----------------------------------------------------------------------------
(* Fields and declarations.                                                *)

\* What the field of the i-th declaration is like.
Declared(m, f, i) ==
    LET d == Decls(m)[i]
    IN /\ f.name = d.name /\ f.decl = d
       /\ f.param <=> d.dir # "out"
       /\ f.result <=> d.dir # "in"
       /\ f.skip <=> d.kind = "skipped"
       /\ f.exception <=> f.name \in {"base", "derived"}
       /\ f.retval <=> f.name = "result"
       /\ f.args = IF f.retval \/ f.exception THEN 0 ELSE d.count
       /\ f.optional <=> d.has
       /\ f.requested <=> d.want /\ i <= Len(m.args)

\* The fields for which there is code, and their declarations.
Paired(m, F) ==
    /\ F \in Seq(FieldRec(m))
    /\ \A k, l \in 1..Len(F) : F[k].name = F[l].name => k = l
    /\ \A i \in 1..Len(Decls(m)) : \E k \in 1..Len(F) : F[k].name = Decls(m)[i].name
    /\ \A k \in 1..Len(F) : \A i \in 1..Len(Decls(m)) :
          F[k].name = Decls(m)[i].name => Declared(m, F[k], i)
    /\ \A k \in 1..Len(F) : F[k].skip \/ \E i \in 1..Len(Decls(m)) : F[k].name = Decls(m)[i].name
    /\ \A k, l \in 1..Len(F) : \A i, j \in 1..Len(Decls(m)) :
          /\ i < j /\ Sequenced(Decls(m)[i], Decls(m)[j])
          /\ F[k].name = Decls(m)[i].name /\ F[l].name = Decls(m)[j].name
          => k < l
    /\ \A k \in 1..Len(F) :
          /\ F[k].name \in DOMAIN Message(m)
          /\ F[k].optional => Has(F[k].name) \in DOMAIN Message(m)
          /\ F[k].requested => Want(F[k].name) \in DOMAIN Message(m)

\* A message has every field of the schema.
LEMMA MessageNames ==
    ASSUME NEW m \in Methods, NEW p \in 1..Len(Schema(m))
    PROVE  Schema(m)[p].name \in DOMAIN Message(m)
<1>1. Schema(m) \in Seq(SchemaType(m))
  BY SchemaIs
<1>2. DOMAIN Schema(m) = 1..Len(Schema(m))
  BY <1>1, LenProperties
<1>3. QED
  BY <1>2 DEF Message

\* The field with the name of the i-th declaration when all fields are gathered.
LEMMA GatheredOwn ==
    ASSUME NEW m \in Methods, NEW f \in FieldRec(m), Gathered(m, f, Len(Schema(m))),
           NEW i \in 1..Len(Decls(m)), f.name = Decls(m)[i].name
    PROVE  /\ f.decl = Decls(m)[i]
           /\ f.param <=> Decls(m)[i].dir # "out"
           /\ f.result <=> Decls(m)[i].dir # "in"
<1> DEFINE s == Schema(m)
           d == Decls(m)[i]
           N == Len(s)
<1>1. /\ \E p \in 1..N : s[p].name = f.name /\ s[p].decl = f.decl
      /\ f.param <=> \E p \in 1..N : s[p].name = f.name /\ s[p].param
      /\ f.result <=> \E p \in 1..N : s[p].name = f.name /\ ~s[p].param
      /\ f.name = d.name
  BY DEF Gathered
<1>2. ASSUME NEW p \in 1..N, s[p].name = d.name
      PROVE  s[p].decl = d /\ (s[p].param => d.dir # "out") /\ (~s[p].param => d.dir # "in")
  <2>1. PICK j \in 1..Len(Decls(m)) : FieldOf(m, s[p], j)
    BY SchemaIs
  <2>2. j = i /\ (s[p].param => d.dir # "out") /\ (~s[p].param => d.dir # "in")
    BY <1>2, <2>1, FieldNames
  <2>3. s[p].decl = Decls(m)[j]
    BY <2>1 DEF FieldOf
  <2>4. QED
    BY <2>2, <2>3
<1>3. /\ i <= Len(m.args) /\ d.dir # "out" => \E p \in 1..N : s[p].name = d.name /\ s[p].param = TRUE
      /\ d.dir # "in" => \E p \in 1..N : s[p].name = d.name /\ s[p].param = FALSE
  <2>1. InSchema(m, s, i)
    BY SchemaIs
  <2>2. QED
    BY <2>1 DEF InSchema, StructHas
<1>4. i <= Len(m.args) \/ d.dir = "out"
  <2>1. Len(m.args) \in Nat
    BY DeclsAre
  <2>2. i \in Nat
    OBVIOUS
  <2>3. i <= Len(m.args) \/ i > Len(m.args)
    BY <2>1, <2>2
  <2>4. QED
    BY <2>3, LaterOut
<1> HIDE DEF s, d, N
<1>5. f.decl = d
  BY <1>1, <1>2
<1>6. f.param <=> d.dir # "out"
  BY <1>1, <1>2, <1>3, <1>4
<1>7. f.result <=> d.dir # "in"
  BY <1>1, <1>2, <1>3
<1>8. QED
  BY <1>5, <1>6, <1>7 DEF d

\* MergeFields leaves what the declarations say.
LEMMA MergePairs ==
    ASSUME method \in Methods, Compiles(method), at \in Nat,
           Generating(method, fields, at - 1), MergeFields
    PROVE  Paired(method, fields')
<1> DEFINE m == method
           s == Schema(m)
           D == Decls(m)
           F == fields
           G == fields'
           N == Len(fields)
           L == Len(s)
<1>1. /\ F \in Seq(FieldRec(m))
      /\ at - 1 = L
      /\ \A k \in 1..N : Gathered(m, F[k], L)
      /\ \A k, l \in 1..N : F[k].name = F[l].name => k = l
      /\ \A p \in 1..L : \E k \in 1..N : F[k].name = s[p].name
      /\ \A k, l \in 1..N :
            k < l => \E p \in 1..L : /\ s[p].name = F[k].name
                                     /\ \A q \in 1..p : s[q].name # F[l].name
  <2>1. L \in Nat
    BY SchemaIs, LenProperties
  <2>2. at - 1 = L
    <3>1. at - 1 \in 0..L
      BY DEF Generating
    <3>2. at > L
      BY DEF MergeFields
    <3> HIDE DEF L
    <3>3. QED
      BY <2>1, <3>1, <3>2
  <2>3. Generating(m, F, L)
    <3> HIDE DEF L
    <3>1. QED
      BY <2>2
  <2> HIDE DEF L, s
  <2>4. QED
    BY Zenon, <2>2, <2>3 DEF Generating, s
<1>2. N \in Nat /\ DOMAIN F = 1..N /\ \A k \in 1..N : F[k] \in FieldRec(m)
  BY <1>1, LenProperties, ElementOfSeq
<1>3. G = [k \in 1..N |-> [F[k] EXCEPT !.skip = @ \/ Flags(F[k]),
                                      !.optional = Listed(Has(F[k].name)),
                                      !.requested = ListedParam(Want(F[k].name))]]
  BY <1>2 DEF MergeFields
<1>4. ASSUME NEW k \in 1..N
      PROVE  /\ G[k] \in FieldRec(m) /\ G[k].name = F[k].name /\ G[k].decl = F[k].decl
             /\ G[k].param = F[k].param /\ G[k].result = F[k].result /\ G[k].args = F[k].args
             /\ G[k].retval = F[k].retval /\ G[k].exception = F[k].exception
             /\ G[k].skip <=> F[k].skip \/ Flags(F[k])
             /\ G[k].optional <=> Listed(Has(F[k].name))
             /\ G[k].requested <=> ListedParam(Want(F[k].name))
  <2> DEFINE f == F[k]
             g == G[k]
             a == f.skip \/ Flags(f)
             b == Listed(Has(f.name))
             c == ListedParam(Want(f.name))
             M == AllNames(m)
  <2>1. g = [f EXCEPT !.skip = a, !.optional = b, !.requested = c]
    BY <1>3
  <2>2. a \in BOOLEAN /\ b \in BOOLEAN /\ c \in BOOLEAN
    BY DEF Listed, ListedParam
  <2>3. f \in [name : M, decl : Declaration, param : BOOLEAN, result : BOOLEAN, args : Nat,
               retval : BOOLEAN, optional : BOOLEAN, requested : BOOLEAN, skip : BOOLEAN,
               exception : BOOLEAN]
    BY <1>2 DEF FieldRec
  <2> HIDE DEF f, g, a, b, c, M
  <2>4. /\ f.name \in M /\ f.decl \in Declaration /\ f.param \in BOOLEAN /\ f.result \in BOOLEAN
        /\ f.args \in Nat /\ f.retval \in BOOLEAN /\ f.exception \in BOOLEAN
    BY <2>3
  <2>5. f = [name |-> f.name, decl |-> f.decl, param |-> f.param, result |-> f.result,
             args |-> f.args, retval |-> f.retval, optional |-> f.optional,
             requested |-> f.requested, skip |-> f.skip, exception |-> f.exception]
    BY <2>3
  <2>6. g = [name |-> f.name, decl |-> f.decl, param |-> f.param, result |-> f.result,
             args |-> f.args, retval |-> f.retval, optional |-> b,
             requested |-> c, skip |-> a, exception |-> f.exception]
    BY <2>1, <2>5
  <2>7. g \in FieldRec(m)
    BY <2>2, <2>4, <2>6 DEF FieldRec, M
  <2>8. /\ g.name = f.name /\ g.decl = f.decl /\ g.param = f.param /\ g.result = f.result
        /\ g.args = f.args /\ g.retval = f.retval /\ g.exception = f.exception
        /\ g.skip = a /\ g.optional = b /\ g.requested = c
    BY <2>6
  <2>9. QED
    BY <2>7, <2>8 DEF f, g, a, b, c
<1>5. G \in Seq(FieldRec(m)) /\ Len(G) = N
  <2>1. \A k \in 1..N : G[k] \in FieldRec(m)
    BY <1>4
  <2>2. G = [k \in 1..N |-> G[k]]
    BY <1>3
  <2> HIDE DEF G, N, m
  <2>3. [k \in 1..N |-> G[k]] \in Seq(FieldRec(m)) /\ Len([k \in 1..N |-> G[k]]) = N
    BY <1>2, <2>1
  <2>4. QED
    BY Zenon, <2>2, <2>3
<1>6. /\ \A p \in 1..L : \E i \in 1..Len(D) : FieldOf(m, s[p], i)
      /\ \A i \in 1..Len(D) : InSchema(m, s, i)
  BY SchemaIs
<1>7. ASSUME NEW k \in 1..N PROVE \E p \in 1..L : s[p].name = F[k].name /\ s[p].decl = F[k].decl
  BY <1>1 DEF Gathered
<1>8. /\ \A i, j \in 1..Len(D) : D[i].name = D[j].name => i = j
      /\ \A i \in 1..Len(D) : D[i].name \in Names(m)
      /\ Names(m) \intersect FlagNames(AllNames(m)) = {}
  BY DeclNames
<1>9. ASSUME NEW i \in 1..Len(D)
      PROVE  \E k \in 1..N : F[k].name = D[i].name
  <2>1. \E p \in 1..L : s[p].name = D[i].name
    <3>1. InSchema(m, s, i)
      BY <1>6
    <3>2. i <= Len(m.args) \/ D[i].dir = "out"
      <4>1. Len(m.args) \in Nat
        BY DeclsAre
      <4>2. i <= Len(m.args) \/ i > Len(m.args)
        BY <4>1
      <4>3. QED
        BY <4>2, LaterOut
    <3>3. StructHas(s, D[i].name, TRUE) \/ StructHas(s, D[i].name, FALSE)
      BY <3>1, <3>2 DEF InSchema
    <3>4. QED
      BY <3>3 DEF StructHas
  <2>2. QED
    BY <1>1, <2>1
<1>10. ASSUME NEW k \in 1..N PROVE F[k].name \in AllNames(m)
  BY <1>2 DEF FieldRec
<1>11. ASSUME NEW f, f.name \in Names(m) PROVE ~Flags(f)
  <2>1. \A k \in 1..N : Has(F[k].name) \in FlagNames(AllNames(m)) /\ Want(F[k].name) \in FlagNames(AllNames(m))
    BY <1>10 DEF FlagNames
  <2>2. QED
    BY <1>2, <1>8, <1>11, <2>1 DEF Flags
<1>12. ASSUME NEW i \in 1..Len(D), NEW k \in 1..N, F[k].name = D[i].name
       PROVE  /\ Listed(Has(F[k].name)) <=> D[i].has
              /\ ListedParam(Want(F[k].name)) <=> D[i].want /\ i <= Len(m.args)
  <2>1. ASSUME Listed(Has(F[k].name)) PROVE D[i].has
    <3>1. PICK l \in 1..N : F[l].name = Has(D[i].name)
      BY <1>2, <1>12, <2>1 DEF Listed
    <3>2. PICK p \in 1..L : s[p].name = F[l].name
      BY <1>7
    <3>3. PICK j \in 1..Len(D) : FieldOf(m, s[p], j)
      BY <1>6
    <3>4. QED
      BY <3>1, <3>2, <3>3, FieldNames
  <2>2. ASSUME D[i].has PROVE Listed(Has(F[k].name))
    <3>1. InSchema(m, s, i)
      BY <1>6
    <3>2. PICK p \in 1..L : s[p].name = Has(D[i].name)
      BY <2>2, <3>1 DEF InSchema, HasName
    <3>3. PICK l \in 1..N : F[l].name = s[p].name
      BY <1>1
    <3>4. QED
      BY <1>2, <1>12, <3>2, <3>3 DEF Listed
  <2>3. ASSUME ListedParam(Want(F[k].name)) PROVE D[i].want /\ i <= Len(m.args)
    <3>1. PICK l \in 1..N : F[l].name = Want(D[i].name)
      BY <1>2, <1>12, <2>3 DEF ListedParam
    <3>2. PICK p \in 1..L : s[p].name = F[l].name
      BY <1>7
    <3>3. PICK j \in 1..Len(D) : FieldOf(m, s[p], j)
      BY <1>6
    <3>4. QED
      BY <3>1, <3>2, <3>3, FieldNames
  <2>4. ASSUME D[i].want, i <= Len(m.args) PROVE ListedParam(Want(F[k].name))
    <3>1. InSchema(m, s, i)
      BY <1>6
    <3>2. PICK p \in 1..L : s[p].name = Want(D[i].name) /\ s[p].param = TRUE
      BY <2>4, <3>1 DEF InSchema, StructHas
    <3>3. PICK l \in 1..N : F[l].name = s[p].name
      BY <1>1
    <3>4. F[l].param
      <4>1. Gathered(m, F[l], L)
        BY <1>1
      <4>2. QED
        BY <3>2, <3>3, <4>1 DEF Gathered
    <3>5. QED
      BY <1>2, <1>12, <3>2, <3>3, <3>4 DEF ListedParam
  <2>5. QED
    BY <2>1, <2>2, <2>3, <2>4
<1>13. ASSUME NEW k \in 1..N, NEW i \in 1..Len(D), F[k].name = D[i].name
       PROVE  Declared(m, G[k], i)
  <2>1. ~Flags(F[k])
    BY <1>8, <1>11, <1>13
  <2>2. F[k].decl = D[i] /\ (F[k].param <=> D[i].dir # "out") /\ (F[k].result <=> D[i].dir # "in")
    BY <1>1, <1>2, <1>13, GatheredOwn
  <2>3. /\ F[k].skip <=> F[k].decl.kind = "skipped"
        /\ F[k].exception <=> F[k].name \in {"base", "derived"}
        /\ F[k].retval <=> F[k].name = "result"
        /\ F[k].args = IF F[k].retval \/ F[k].exception THEN 0 ELSE F[k].decl.count
    <3>1. Gathered(m, F[k], L) /\ F[k].name = F[k].decl.name
      BY <1>1, <1>13, <2>2
    <3>2. QED
      BY <3>1 DEF Gathered
  <2>4. /\ G[k].optional <=> D[i].has
        /\ G[k].requested <=> D[i].want /\ i <= Len(m.args)
    BY <1>4, <1>12, <1>13
  <2> DEFINE d == D[i]
             f == F[k]
             g == G[k]
  <2>5. /\ g.name = f.name /\ g.decl = f.decl
        /\ g.param = f.param /\ g.result = f.result /\ g.args = f.args
        /\ g.retval = f.retval /\ g.exception = f.exception
        /\ g.skip <=> f.skip \/ Flags(f)
    BY <1>4
  <2>6. /\ ~Flags(f) /\ f.name = d.name
        /\ f.decl = d /\ (f.param <=> d.dir # "out") /\ (f.result <=> d.dir # "in")
        /\ f.skip <=> f.decl.kind = "skipped"
        /\ f.exception <=> f.name \in {"base", "derived"}
        /\ f.retval <=> f.name = "result"
        /\ f.args = IF f.retval \/ f.exception THEN 0 ELSE f.decl.count
    BY <1>13, <2>1, <2>2, <2>3
  <2>7. (g.optional <=> d.has) /\ (g.requested <=> d.want /\ i <= Len(m.args))
    BY <2>4
  <2> HIDE DEF f, g
  <2>8. /\ g.name = d.name /\ g.decl = d /\ (g.param <=> d.dir # "out")
        /\ (g.result <=> d.dir # "in") /\ (g.skip <=> d.kind = "skipped")
        /\ (g.exception <=> g.name \in {"base", "derived"}) /\ (g.retval <=> g.name = "result")
        /\ g.args = IF g.retval \/ g.exception THEN 0 ELSE d.count
    BY <2>5, <2>6
  <2>9. QED
    BY <2>7, <2>8 DEF Declared, g
<1>14. ASSUME NEW k \in 1..N PROVE G[k].skip \/ \E i \in 1..Len(D) : G[k].name = D[i].name
  <2>1. PICK p \in 1..L : s[p].name = F[k].name
    BY <1>7
  <2>2. PICK i \in 1..Len(D) : FieldOf(m, s[p], i)
    BY <1>6
  <2>3. PICK l \in 1..N : F[l].name = D[i].name
    BY <1>9
  <2>4. CASE s[p].name = D[i].name
    BY <1>4, <2>1, <2>4
  <2>5. CASE s[p].name = Has(D[i].name)
    <3>1. F[k].name = Has(F[l].name)
      BY <2>1, <2>3, <2>5
    <3>2. Flags(F[k])
      BY <1>2, <3>1 DEF Flags
    <3>3. QED
      BY <1>4, <3>2
  <2>6. CASE s[p].name = Want(D[i].name) /\ s[p].param
    <3>1. F[k].name = Want(F[l].name)
      BY <2>1, <2>3, <2>6
    <3>2. F[k].param
      <4>1. Gathered(m, F[k], L)
        BY <1>1
      <4>2. QED
        BY <2>1, <2>6, <4>1 DEF Gathered
    <3>3. Flags(F[k])
      BY <1>2, <3>1, <3>2 DEF Flags
    <3>4. QED
      BY <1>4, <3>3
  <2>7. QED
    BY <2>2, <2>4, <2>5, <2>6 DEF FieldOf
<1>15. ASSUME NEW k \in 1..N, NEW l \in 1..N, NEW i \in 1..Len(D), NEW j \in 1..Len(D),
              i < j, Sequenced(D[i], D[j]), F[k].name = D[i].name, F[l].name = D[j].name
       PROVE  k < l
  <2>1. CASE k = l
    BY <1>8, <1>15, <2>1
  <2>2. CASE l < k
    <3>1. PICK p \in 1..L : s[p].name = F[l].name /\ \A q \in 1..p : s[q].name # F[k].name
      BY <1>1, <2>2
    <3>2. PICK q \in 1..(p - 1) : s[q].name = D[i].name
      BY <1>15, <3>1, SchemaOrder
    <3>3. q \in 1..p
      BY <1>1, <3>2
    <3>4. QED
      BY <1>15, <3>1, <3>2, <3>3
  <2>3. QED
    BY <2>1, <2>2
<1>16. ASSUME NEW k \in 1..N
       PROVE  /\ G[k].name \in DOMAIN Message(m)
              /\ G[k].optional => Has(G[k].name) \in DOMAIN Message(m)
              /\ G[k].requested => Want(G[k].name) \in DOMAIN Message(m)
  <2>1. ASSUME NEW l \in 1..N PROVE F[l].name \in DOMAIN Message(m)
    BY <1>7, MessageNames
  <2>2. Listed(Has(F[k].name)) => \E l \in 1..N : F[l].name = Has(F[k].name)
    BY <1>2 DEF Listed
  <2>3. ListedParam(Want(F[k].name)) => \E l \in 1..N : F[l].name = Want(F[k].name)
    BY <1>2 DEF ListedParam
  <2>4. QED
    BY <1>4, <2>1, <2>2, <2>3
<1> HIDE DEF G, D, N, F, s
<1>17. /\ \A k, l \in 1..N : G[k].name = G[l].name => k = l
       /\ \A i \in 1..Len(D) : \E k \in 1..N : G[k].name = D[i].name
       /\ \A k \in 1..N : \A i \in 1..Len(D) : G[k].name = D[i].name => Declared(m, G[k], i)
       /\ \A k, l \in 1..N : \A i, j \in 1..Len(D) :
             i < j /\ Sequenced(D[i], D[j]) /\ G[k].name = D[i].name /\ G[l].name = D[j].name
             => k < l
  BY <1>1, <1>4, <1>9, <1>13, <1>15
<1>18. QED
  BY <1>5, <1>14, <1>16, <1>17 DEF Paired, G, D

----------------------------------------------------------------------------
(* The fields for which there is code, and the parameters of the method.   *)

\* Which declarations have which names.
LEMMA NamesOfKinds ==
    ASSUME NEW m \in Methods, NEW i \in 1..Len(Decls(m))
    PROVE  /\ i <= Len(m.args) => /\ Decls(m)[i] = m.args[i] /\ i \in 1..Len(m.args)
                                  /\ Decls(m)[i].name \notin {"result", "base", "derived"}
           /\ i > Len(m.args) => Decls(m)[i].name \in {"result", "base", "derived"}
           /\ Decls(m)[i].name \in {"base", "derived"} =>
                 \E j \in 1..Len(m.throws) :
                    /\ i = Len(m.args) + j /\ Decls(m)[i] = Exception(m.throws[j])
                    /\ Decls(m)[i].name = m.throws[j]
           /\ Decls(m)[i].name = "result" =>
                 /\ Len(m.returns) = 1 /\ i = Len(m.args) + Len(m.throws) + 1
                 /\ Decls(m)[i] = m.returns[1]
<1> DEFINE La == Len(m.args)
           d == Decls(m)[i]
<1>0. La \in Nat /\ Len(m.throws) \in Nat
  BY DeclsAre
<1>1. CASE i \in 1..La /\ d = m.args[i]
  <2>1. d.name \notin {"result", "base", "derived"}
    BY <1>1, MethodFacts
  <2> HIDE DEF La, d
  <2>2. ~(i > La)
    BY <1>0, <1>1
  <2>3. QED
    BY <1>1, <2>1, <2>2 DEF La, d
<1>2. CASE \E j \in 1..Len(m.throws) : i = La + j /\ d = Exception(m.throws[j])
  <2>1. PICK j \in 1..Len(m.throws) : i = La + j /\ d = Exception(m.throws[j])
    BY <1>2
  <2>2. m.throws[j] \in {"base", "derived"} /\ d.name = m.throws[j]
    BY <2>1, Thrown
  <2> HIDE DEF La, d
  <2>3. ~(i <= La)
    BY <1>0, <2>1
  <2>4. QED
    BY <2>1, <2>2, <2>3 DEF La, d
<1>3. CASE Len(m.returns) = 1 /\ i = La + Len(m.throws) + 1 /\ d = m.returns[1]
  <2>1. 1 \in 1..Len(m.returns)
    BY <1>3
  <2>2. d.name = "result"
    BY <1>3, <2>1, MethodFacts
  <2> HIDE DEF La, d
  <2>3. ~(i <= La)
    BY <1>0, <1>3
  <2>4. QED
    BY <1>3, <2>2, <2>3 DEF La, d
<1>4. QED
  BY <1>1, <1>2, <1>3, DeclCases

\* The values a field stands for: ServerArgs.
Counts(F) == [k \in 1..Len(F) |-> IF F[k].skip THEN 0 ELSE F[k].args]

\* How many values of the method each field stands for.
LEMMA CountsType ==
    ASSUME NEW m \in Methods, NEW F, Paired(m, F)
    PROVE  /\ Counts(F) \in Seq(Nat) /\ Len(Counts(F)) = Len(F) /\ Len(F) \in Nat
           /\ \A k \in 1..Len(F) : /\ F[k] \in FieldRec(m) /\ F[k].decl \in Declaration
                                   /\ Counts(F)[k] = IF F[k].skip THEN 0 ELSE F[k].args
<1>1. F \in Seq(FieldRec(m)) /\ Len(F) \in Nat
  BY LenProperties DEF Paired
<1>2. \A k \in 1..Len(F) : F[k] \in FieldRec(m)
  BY <1>1, ElementOfSeq
<1>3. \A k \in 1..Len(F) : F[k].args \in Nat /\ F[k].decl \in Declaration
  BY <1>2 DEF FieldRec
<1> DEFINE N == Len(F)
<1>4. \A k \in 1..N : (IF F[k].skip THEN 0 ELSE F[k].args) \in Nat
  BY <1>3
<1>5. Counts(F) = [k \in 1..N |-> IF F[k].skip THEN 0 ELSE F[k].args]
  BY DEF Counts
<1>6. N \in Nat
  BY <1>1
<1> HIDE DEF N
<1>7. Counts(F) \in Seq(Nat) /\ Len(Counts(F)) = N
  BY <1>4, <1>5, <1>6
<1>8. QED
  BY <1>1, <1>2, <1>3, <1>5, <1>7 DEF N

\* An argument is a field of its own, with what its declaration says.
LEMMA ArgumentIs ==
    ASSUME NEW m \in Methods, NEW F, Paired(m, F), NEW k \in 1..Len(F), IsArgument(F[k])
    PROVE  LET d == F[k].decl
           IN /\ \E i \in 1..Len(m.args) : d = m.args[i] /\ F[k].name = Decls(m)[i].name
              /\ F[k].name = d.name
              /\ d \in Argument /\ d \in ToSet(m.args)
              /\ d.kind \in {"value", "optional", "shared", "pointer"}
              /\ d.kind # "value" => d.count = 1
              /\ In(F[k]) <=> d.dir # "out"
              /\ Out(F[k]) <=> d.dir # "in"
              /\ F[k].optional <=> d.has
              /\ F[k].requested <=> d.want
              /\ Counts(F)[k] = d.count
<1> DEFINE f == F[k]
           D == Decls(m)
           La == Len(m.args)
<1>1. ~f.skip /\ ~f.retval /\ ~f.exception
  BY DEF IsArgument
<1>2. PICK i \in 1..Len(D) : f.name = D[i].name
  BY <1>1 DEF Paired
<1>3. Declared(m, f, i)
  BY <1>2 DEF Paired
<1> HIDE DEF f
<1>4. /\ f.name = D[i].name /\ f.decl = D[i]
      /\ f.param <=> D[i].dir # "out"
      /\ f.result <=> D[i].dir # "in"
      /\ f.skip <=> D[i].kind = "skipped"
      /\ f.exception <=> f.name \in {"base", "derived"}
      /\ f.retval <=> f.name = "result"
      /\ f.args = IF f.retval \/ f.exception THEN 0 ELSE D[i].count
      /\ f.optional <=> D[i].has
      /\ f.requested <=> D[i].want /\ i <= La
  BY <1>3 DEF Declared
<1>5. f.name \notin {"result", "base", "derived"}
  BY <1>1, <1>4
<1>6. i <= La /\ D[i] = m.args[i] /\ i \in 1..La
  <2>1. i <= La \/ i > La
    BY DeclsAre
  <2>2. QED
    BY <1>4, <1>5, <2>1, NamesOfKinds
<1>7. m.args[i] \in Argument /\ m.args[i] \in ToSet(m.args)
  <2>1. m.args \in Seq(Argument)
    BY MethodFacts
  <2>2. DOMAIN m.args = 1..La
    BY <2>1, LenProperties
  <2>3. QED
    BY <1>6, <2>1, <2>2, ElementOfSeq DEF ToSet
<1>8. m.args[i].kind \in {"optional", "shared", "pointer"} => m.args[i].count = 1
  BY <1>6, MethodFacts
<1>9. Counts(F)[k] = IF f.skip THEN 0 ELSE f.args
  BY CountsType DEF f
<1> DEFINE d == f.decl
<1>10. d = m.args[i] /\ d \in Argument /\ d \in ToSet(m.args) /\ f.name = d.name /\ d = D[i]
  BY <1>4, <1>6, <1>7
<1>11. d.kind \in Kinds /\ d.kind # "skipped" /\ d.dir \in {"in", "out", "inout"}
  BY <1>1, <1>4, <1>10 DEF Argument
<1>12. d.kind \in {"value", "optional", "shared", "pointer"}
  BY <1>11 DEF Kinds
<1>13. d.kind # "value" => d.count = 1
  BY <1>8, <1>10, <1>12
<1>14. (In(f) <=> d.dir # "out") /\ (Out(f) <=> d.dir # "in")
  BY <1>1, <1>4, <1>10, <1>11 DEF In, Out
<1>15. (f.optional <=> d.has) /\ (f.requested <=> d.want) /\ Counts(F)[k] = d.count
  BY <1>1, <1>4, <1>6, <1>9, <1>10
<1>16. QED
  BY <1>2, <1>6, <1>10, <1>12, <1>13, <1>14, <1>15 DEF f, d

\* The result, which is declared last.
IsResult(f) == ~f.skip /\ f.retval

\* The k-th field is that of the result.
ResultFacts(m, F, k) ==
    /\ Len(m.returns) = 1 /\ F[k].decl = m.returns[1] /\ F[k].name = F[k].decl.name
    /\ F[k].name = Decls(m)[Len(m.args) + Len(m.throws) + 1].name
    /\ Len(m.args) + Len(m.throws) + 1 \in 1..Len(Decls(m))
    /\ F[k].decl \in Argument /\ F[k].decl \in ToSet(m.returns)
    /\ F[k].decl.kind \in {"value", "optional", "shared"} /\ F[k].decl.count = 1
    /\ ~In(F[k]) /\ Out(F[k]) /\ ~F[k].exception /\ ~F[k].requested
    /\ F[k].optional <=> F[k].decl.has
    /\ Counts(F)[k] = 0

\* The result has one field, of the last declaration.
LEMMA RetvalIs ==
    ASSUME NEW m \in Methods, NEW F, Paired(m, F), NEW k \in 1..Len(F), IsResult(F[k])
    PROVE  ResultFacts(m, F, k)
<1> DEFINE f == F[k]
           D == Decls(m)
<1>1. ~f.skip /\ f.retval
  BY DEF IsResult
<1>2. PICK i \in 1..Len(D) : f.name = D[i].name
  BY <1>1 DEF Paired
<1>3. Declared(m, f, i)
  BY <1>2 DEF Paired
<1> HIDE DEF f
<1>4. /\ f.name = D[i].name /\ f.decl = D[i]
      /\ f.param <=> D[i].dir # "out"
      /\ f.exception <=> f.name \in {"base", "derived"}
      /\ f.retval <=> f.name = "result"
      /\ f.args = IF f.retval \/ f.exception THEN 0 ELSE D[i].count
      /\ f.optional <=> D[i].has
      /\ f.requested <=> D[i].want /\ i <= Len(m.args)
  BY <1>3 DEF Declared
<1>5. f.name = "result" /\ D[i].name = "result"
  BY <1>1, <1>4
<1>6. /\ Len(m.returns) = 1 /\ i = Len(m.args) + Len(m.throws) + 1 /\ D[i] = m.returns[1]
      /\ ~(i <= Len(m.args))
  BY <1>5, NamesOfKinds
<1>7. 1 \in 1..Len(m.returns)
  BY <1>6
<1>8. m.returns[1] \in Argument /\ m.returns[1] \in ToSet(m.returns)
  <2>1. m.returns \in Seq(Argument)
    BY MethodFacts
  <2>2. DOMAIN m.returns = 1..Len(m.returns)
    BY <2>1, LenProperties
  <2>3. QED
    BY <1>7, <2>1, <2>2, ElementOfSeq DEF ToSet
<1>9. /\ m.returns[1].dir = "out" /\ m.returns[1].count = 1
      /\ m.returns[1].kind \in {"value", "optional", "shared"}
  BY <1>7, MethodFacts
<1>10. Counts(F)[k] = IF f.skip THEN 0 ELSE f.args
  BY CountsType DEF f
<1>11. ~In(f) /\ Out(f)
  BY <1>1, <1>4, <1>6, <1>9 DEF In, Out
<1>12. Counts(F)[k] = 0
  BY <1>1, <1>4, <1>10
<1>13. ~f.exception /\ ~f.requested
  BY <1>4, <1>5, <1>6
<1>14. /\ f.decl = m.returns[1] /\ f.name = f.decl.name /\ (f.optional <=> f.decl.has)
       /\ f.decl.kind \in {"value", "optional", "shared"} /\ f.decl.count = 1
       /\ f.decl \in Argument /\ f.decl \in ToSet(m.returns)
  BY <1>4, <1>6, <1>8, <1>9
<1>15. QED
  BY <1>2, <1>6, <1>11, <1>12, <1>13, <1>14 DEF f, ResultFacts

\* An exception.
ExceptionFacts(m, F, k) ==
    /\ \E j \in 1..Len(m.throws) : /\ F[k].name = m.throws[j]
                                   /\ F[k].decl = Exception(m.throws[j])
                                   /\ F[k].name = Decls(m)[Len(m.args) + j].name
                                   /\ Len(m.args) + j \in 1..Len(Decls(m))
    /\ F[k].decl.name = F[k].name /\ F[k].name \in {"base", "derived"}
    /\ F[k].decl.kind = "value" /\ F[k].decl.boxed = TRUE
    /\ ~F[k].retval /\ ~F[k].optional /\ ~F[k].requested /\ ~In(F[k])
    /\ Counts(F)[k] = 0

\* The field of an exception.
LEMMA ExceptionFieldIs ==
    ASSUME NEW m \in Methods, NEW F, Paired(m, F), NEW k \in 1..Len(F), IsException(F[k])
    PROVE  ExceptionFacts(m, F, k)
<1> DEFINE f == F[k]
           D == Decls(m)
<1>1. ~f.skip /\ f.exception
  BY DEF IsException
<1>2. PICK i \in 1..Len(D) : f.name = D[i].name
  BY <1>1 DEF Paired
<1>3. Declared(m, f, i)
  BY <1>2 DEF Paired
<1> HIDE DEF f
<1>4. /\ f.name = D[i].name /\ f.decl = D[i]
      /\ f.param <=> D[i].dir # "out"
      /\ f.exception <=> f.name \in {"base", "derived"}
      /\ f.retval <=> f.name = "result"
      /\ f.args = IF f.retval \/ f.exception THEN 0 ELSE D[i].count
      /\ f.optional <=> D[i].has
      /\ f.requested <=> D[i].want /\ i <= Len(m.args)
  BY <1>3 DEF Declared
<1>5. f.name \in {"base", "derived"} /\ D[i].name \in {"base", "derived"}
  BY <1>1, <1>4
<1>6. PICK j \in 1..Len(m.throws) :
         /\ i = Len(m.args) + j /\ D[i] = Exception(m.throws[j]) /\ D[i].name = m.throws[j]
  BY <1>5, NamesOfKinds
<1>7. /\ Exception(m.throws[j]).kind = "value" /\ Exception(m.throws[j]).dir = "out"
      /\ Exception(m.throws[j]).boxed = TRUE /\ Exception(m.throws[j]).has = FALSE
      /\ Exception(m.throws[j]).want = FALSE
  BY Zenon, ExceptionIs
<1>10. Counts(F)[k] = IF f.skip THEN 0 ELSE f.args
  BY CountsType DEF f
<1>11. ~In(f) /\ ~f.retval /\ ~f.optional /\ ~f.requested
  BY <1>1, <1>4, <1>5, <1>6, <1>7 DEF In
<1>12. Counts(F)[k] = 0
  BY <1>1, <1>4, <1>10
<1>13. f.decl.name = f.name /\ f.decl.kind = "value" /\ f.decl.boxed = TRUE
  BY <1>4, <1>6, <1>7
<1>14. QED
  BY <1>2, <1>4, <1>5, <1>6, <1>11, <1>12, <1>13 DEF f, ExceptionFacts

\* The arguments that the fields stand for.
DeclLists(F) == [k \in 1..Len(F) |-> [j \in 1..Counts(F)[k] |-> F[k].decl]]

\* The parameters of the C++ method, argument by argument.
ArgLists(m) ==
    [i \in 1..Len(m.args) |-> [j \in 1..CxxCount(m.args[i]) |-> m.args[i]]]

\* The declarations a list of fields stands for, field by field.
LEMMA DeclListsType ==
    ASSUME NEW m \in Methods, NEW F, Paired(m, F)
    PROVE  /\ DeclLists(F) \in Seq(Seq(Declaration)) /\ Len(DeclLists(F)) = Len(F)
           /\ \A k \in 1..Len(F) : /\ DeclLists(F)[k] = [j \in 1..Counts(F)[k] |-> F[k].decl]
                                   /\ Len(DeclLists(F)[k]) = Counts(F)[k]
                                   /\ Counts(F)[k] \in Nat
<1> DEFINE N == Len(F)
           c == Counts(F)
           DL == DeclLists(F)
<1>1. c \in Seq(Nat) /\ Len(c) = N /\ N \in Nat /\ \A k \in 1..N : F[k].decl \in Declaration
  BY CountsType
<1>2. \A k \in 1..N : c[k] \in Nat
  BY <1>1, ElementOfSeq
<1>3. DL = [k \in 1..N |-> [j \in 1..c[k] |-> F[k].decl]]
  BY DEF DeclLists
<1> HIDE DEF c, N, DL
<1>4. ASSUME NEW k \in 1..N
      PROVE  [j \in 1..c[k] |-> F[k].decl] \in Seq(Declaration) /\ Len([j \in 1..c[k] |-> F[k].decl]) = c[k]
  BY <1>1, <1>2, Block
<1>5. \A k \in 1..N : DL[k] = [j \in 1..c[k] |-> F[k].decl]
  BY <1>3
<1>6. \A k \in 1..N : DL[k] \in Seq(Declaration) /\ Len(DL[k]) = c[k]
  BY <1>4, <1>5
<1>7. DL \in Seq(Seq(Declaration)) /\ Len(DL) = N
  <2>1. DL = [k \in 1..N |-> DL[k]]
    BY <1>3
  <2>2. [k \in 1..N |-> DL[k]] \in Seq(Seq(Declaration)) /\ Len([k \in 1..N |-> DL[k]]) = N
    BY <1>1, <1>6
  <2>3. QED
    BY Zenon, <2>1, <2>2
<1>8. QED
  BY <1>2, <1>5, <1>6, <1>7 DEF c, N, DL

\* The parameters of a method, argument by argument.
LEMMA ArgListsType ==
    ASSUME NEW m \in Methods
    PROVE  /\ ArgLists(m) \in Seq(Seq(Declaration)) /\ Len(ArgLists(m)) = Len(m.args)
           /\ CxxParams(m) = FlattenSeq(ArgLists(m))
<1> DEFINE La == Len(m.args)
           A == m.args
           n(i) == CxxCount(A[i])
           AL == ArgLists(m)
<1>1. A \in Seq(Argument) /\ La \in Nat /\ DOMAIN A = 1..La
  BY MethodFacts, LenProperties
<1>2. CxxParams(m) = FlattenSeq(AL)
  BY <1>1 DEF CxxParams, ArgLists
<1>3. AL = [i \in 1..La |-> [j \in 1..n(i) |-> A[i]]]
  BY DEF ArgLists
<1>4. \A i \in 1..La : A[i] \in Argument
  BY <1>1, ElementOfSeq
<1> HIDE DEF La, A, AL
<1>5. ASSUME NEW i \in 1..La PROVE [j \in 1..n(i) |-> A[i]] \in Seq(Declaration)
  <2>1. A[i] \in Declaration
    BY <1>4 DEF Declaration
  <2>2. n(i) \in Nat
    BY <2>1, DeclarationType DEF CxxCount
  <2> HIDE DEF n
  <2>3. QED
    BY <2>1, <2>2, Block
<1> HIDE DEF n
<1>6. \A i \in 1..La : AL[i] \in Seq(Declaration)
  BY <1>3, <1>5
<1>7. AL \in Seq(Seq(Declaration)) /\ Len(AL) = La
  <2>1. AL = [i \in 1..La |-> AL[i]]
    BY <1>3
  <2>2. [i \in 1..La |-> AL[i]] \in Seq(Seq(Declaration)) /\ Len([i \in 1..La |-> AL[i]]) = La
    BY <1>1, <1>6
  <2>3. QED
    BY Zenon, <2>1, <2>2
<1>8. QED
  BY <1>2, <1>7 DEF La, AL

\* The k-th of the lists has c[k] elements.
Measured(ss, c, S) ==
    /\ ss \in Seq(Seq(S)) /\ c \in Seq(Nat) /\ Len(c) = Len(ss)
    /\ \A k \in 1..Len(ss) : Len(ss[k]) = c[k]

\* Where the elements of the blocks are in a flattened list.
LEMMA MeasuredFlatten ==
    ASSUME NEW ss, NEW c, NEW S, Measured(ss, c, S)
    PROVE  /\ FlattenSeq(ss) \in Seq(S)
           /\ Len(FlattenSeq(ss)) = First(Len(c) + 1, c) - 1
           /\ \A k \in 1..Len(c) : \A j \in 1..c[k] :
                 /\ First(k, c) + j - 1 \in 1..Len(FlattenSeq(ss))
                 /\ FlattenSeq(ss)[First(k, c) + j - 1] = ss[k][j]
<1>1. /\ ss \in Seq(Seq(S)) /\ c \in Seq(Nat) /\ Len(c) = Len(ss)
      /\ \A k \in 1..Len(ss) : Len(ss[k]) = c[k]
  BY DEF Measured
<1>2. QED
  BY <1>1, FlattenAt

\* They are the parameters of the C++ method.
LEMMA ArgsPaired ==
    ASSUME NEW m \in Methods, NEW F, Paired(m, F)
    PROVE  CxxParams(m) = FlattenSeq(DeclLists(F))
<1> DEFINE D == Decls(m)
           La == Len(m.args)
           N == Len(F)
           ss == DeclLists(F)
           ww == ArgLists(m)
           pos == [i \in 1..La |-> CHOOSE k \in 1..N : F[k].name = D[i].name]
<1>1. /\ ss \in Seq(Seq(Declaration)) /\ Len(ss) = N
      /\ \A k \in 1..N : ss[k] = [j \in 1..Counts(F)[k] |-> F[k].decl]
  BY DeclListsType
<1>2. /\ ww \in Seq(Seq(Declaration)) /\ Len(ww) = La /\ CxxParams(m) = FlattenSeq(ww)
  BY ArgListsType
<1>3. La \in Nat /\ Len(D) \in Nat /\ \A i \in 1..La : i \in 1..Len(D) /\ D[i] = m.args[i]
  <2> DEFINE X == Len(m.throws)
             R == Len(m.returns)
  <2>1. /\ La \in Nat /\ X \in Nat /\ R \in {0, 1} /\ Len(D) = La + X + R
        /\ \A i \in 1..La : D[i] = m.args[i]
    BY DeclsAre
  <2> HIDE DEF La, D, X, R
  <2>2. QED
    BY <2>1
<1>4. ASSUME NEW i \in 1..La
      PROVE  pos[i] \in 1..N /\ F[pos[i]].name = D[i].name
  <2>1. \E k \in 1..N : F[k].name = D[i].name
    BY <1>3 DEF Paired
  <2>2. QED
    BY <2>1
<1>5. ASSUME NEW i \in 1..La PROVE ss[pos[i]] = ww[i]
  <2> DEFINE k == pos[i]
             d == D[i]
  <2>1. k \in 1..N /\ F[k].name = d.name
    BY <1>4
  <2>2. Declared(m, F[k], i)
    BY <1>3, <2>1 DEF Paired
  <2>3. d.name \notin {"result", "base", "derived"} /\ d = m.args[i]
    BY <1>3, MethodFacts
  <2>4. Counts(F)[k] = IF F[k].skip THEN 0 ELSE F[k].args
    BY <2>1, CountsType
  <2> HIDE DEF k, d, D
  <2>5. /\ F[k].decl = d
        /\ F[k].skip <=> d.kind = "skipped"
        /\ F[k].exception <=> F[k].name \in {"base", "derived"}
        /\ F[k].retval <=> F[k].name = "result"
        /\ F[k].args = IF F[k].retval \/ F[k].exception THEN 0 ELSE d.count
    BY <2>2 DEF Declared, d, D
  <2>6. Counts(F)[k] = CxxCount(d)
    BY <2>1, <2>3, <2>4, <2>5 DEF CxxCount
  <2>7. ss[k] = [j \in 1..CxxCount(d) |-> d]
    BY <1>1, <2>1, <2>5, <2>6
  <2>8. ww[i] = [j \in 1..CxxCount(d) |-> d]
    BY <2>3 DEF ArgLists
  <2>9. QED
    BY <2>7, <2>8 DEF k
<1>6. ASSUME NEW i \in 1..La, NEW j \in 1..La, i < j PROVE pos[i] < pos[j]
  <2>1. /\ pos[i] \in 1..N /\ F[pos[i]].name = D[i].name
        /\ pos[j] \in 1..N /\ F[pos[j]].name = D[j].name
    BY <1>4
  <2>2. i \in 1..Len(D) /\ j \in 1..Len(D)
    BY <1>3
  <2>3. \A k, l \in 1..N : \A a, b \in 1..Len(D) :
          a < b /\ Sequenced(D[a], D[b]) /\ F[k].name = D[a].name /\ F[l].name = D[b].name => k < l
    BY DEF Paired
  <2>4. Sequenced(D[i], D[j])
    <3>1. Role(D[i]) = "argument" /\ Role(D[j]) = "argument"
      BY <1>3, MethodFacts DEF Role
    <3>2. QED
      BY <3>1 DEF Sequenced
  <2> HIDE DEF pos, D, N
  <2>5. QED
    BY <1>6, <2>1, <2>2, <2>3, <2>4
<1>7. ASSUME NEW k \in 1..N, \A i \in 1..La : pos[i] # k PROVE ss[k] = <<>>
  <2>1. Counts(F)[k] = IF F[k].skip THEN 0 ELSE F[k].args
    BY CountsType
  <2>2. Counts(F)[k] = 0
    <3>1. CASE F[k].skip
      BY <2>1, <3>1
    <3>2. CASE ~F[k].skip
      <4>1. PICK i \in 1..Len(D) : F[k].name = D[i].name
        BY <3>2 DEF Paired
      <4>2. ASSUME i <= La PROVE FALSE
        <5>1. i \in 1..La
          BY <4>2, NamesOfKinds
        <5>2. pos[i] = k
          BY <1>4, <4>1, <5>1 DEF Paired
        <5>3. QED
          BY <1>7, <5>1, <5>2
      <4>3. D[i].name \in {"result", "base", "derived"}
        <5>1. i > La
          BY <1>3, <4>2
        <5>2. QED
          BY <5>1, NamesOfKinds
      <4>4. Declared(m, F[k], i)
        BY <4>1 DEF Paired
      <4>5. F[k].retval \/ F[k].exception
        BY <4>1, <4>3, <4>4 DEF Declared
      <4>6. F[k].args = 0
        BY <4>4, <4>5 DEF Declared
      <4>7. QED
        BY <2>1, <4>6
    <3>3. QED
      BY <3>1, <3>2
  <2>3. ss[k] = [j \in 1..0 |-> F[k].decl]
    BY <1>1, <2>2
  <2> HIDE DEF ss
  <2>4. QED
    BY <2>3
<1> HIDE DEF pos, ss, ww, La, N
<1>8. FlattenSeq(ss) = FlattenSeq(ww)
  <2>1. \A i \in 1..Len(ww) : pos[i] \in 1..Len(ss) /\ ss[pos[i]] = ww[i]
    BY <1>1, <1>2, <1>4, <1>5
  <2>2. \A i, j \in 1..Len(ww) : i < j => pos[i] < pos[j]
    BY <1>2, <1>6
  <2>3. \A k \in 1..Len(ss) : (\A i \in 1..Len(ww) : pos[i] # k) => ss[k] = <<>>
    BY <1>1, <1>2, <1>7
  <2>4. QED
    <3>1. Sparse(ss, ww, pos, Declaration)
      BY Zenon, <1>1, <1>2, <2>1, <2>2, <2>3 DEF Sparse
    <3>2. QED
      BY Zenon, <3>1, FlattenSparse
<1>9. QED
  BY <1>2, <1>8 DEF ss

\* The parameter for the j-th argument of the k-th field.
LEMMA ParamAt ==
    ASSUME NEW m \in Methods, NEW F, Paired(m, F)
    PROVE  LET P == CxxParams(m)
               c == Counts(F)
           IN /\ P \in Seq(Declaration) /\ Len(P) \in Nat /\ DOMAIN P = 1..Len(P)
              /\ First(Len(F) + 1, c) = Len(P) + 1
              /\ \A k \in 1..Len(F) : \A j \in 1..c[k] :
                    /\ First(k, c) + j - 1 \in 1..Len(P)
                    /\ P[First(k, c) + j - 1] = F[k].decl
              /\ \A n \in 1..Len(P) : \E k \in 1..Len(F) : n - First(k, c) + 1 \in 1..c[k]
              /\ First(1, c) = 1
              /\ \A k \in 1..(Len(F) + 1) : First(k, c) \in Nat \ {0}
              /\ \A k \in 1..Len(F) : c[k] \in Nat /\ First(k + 1, c) = First(k, c) + c[k]
<1> DEFINE P == CxxParams(m)
           c == Counts(F)
           N == Len(F)
           ss == DeclLists(F)
<1>1. /\ ss \in Seq(Seq(Declaration)) /\ Len(ss) = N
      /\ \A k \in 1..N : ss[k] = [j \in 1..c[k] |-> F[k].decl] /\ Len(ss[k]) = c[k] /\ c[k] \in Nat
  BY DeclListsType
<1>2. c \in Seq(Nat) /\ Len(c) = N /\ N \in Nat
  BY CountsType
<1>3. P = FlattenSeq(ss)
  BY ArgsPaired
<1> HIDE DEF P, c, N, ss
<1>4. /\ FlattenSeq(ss) \in Seq(Declaration)
      /\ Len(FlattenSeq(ss)) = First(Len(c) + 1, c) - 1
      /\ \A k \in 1..Len(c) : \A j \in 1..c[k] :
            /\ First(k, c) + j - 1 \in 1..Len(FlattenSeq(ss))
            /\ FlattenSeq(ss)[First(k, c) + j - 1] = ss[k][j]
  <2>1. Len(c) = Len(ss) /\ \A k \in 1..Len(ss) : Len(ss[k]) = c[k]
    BY <1>1, <1>2
  <2>2. QED
    <3>1. Measured(ss, c, Declaration)
      BY <1>1, <1>2, <2>1 DEF Measured
    <3>2. QED
      BY <3>1, MeasuredFlatten
<1>5. /\ First(1, c) = 1
      /\ \A k \in 1..(Len(c) + 1) : First(k, c) \in Nat \ {0}
      /\ \A k \in 1..Len(c) : First(k + 1, c) = First(k, c) + c[k]
  BY <1>2, FirstDefined
<1>6. P \in Seq(Declaration) /\ Len(P) \in Nat /\ DOMAIN P = 1..Len(P)
  BY <1>3, <1>4, LenProperties
<1>7. N + 1 \in 1..(Len(c) + 1) /\ Len(P) = First(N + 1, c) - 1
  BY <1>2, <1>3, <1>4
<1>8. First(N + 1, c) = Len(P) + 1
  BY <1>5, <1>6, <1>7
<1>9. ASSUME NEW k \in 1..N, NEW j \in 1..c[k]
      PROVE  First(k, c) + j - 1 \in 1..Len(P) /\ P[First(k, c) + j - 1] = F[k].decl
  BY <1>1, <1>2, <1>3, <1>4
<1>10. ASSUME NEW n \in 1..Len(P) PROVE \E k \in 1..N : n - First(k, c) + 1 \in 1..c[k]
  <2>1. n \in 1..(First(Len(c) + 1, c) - 1)
    BY <1>2, <1>7
  <2>2. QED
    BY <1>2, <2>1, FirstCovers
<1>11. QED
  BY <1>1, <1>2, <1>5, <1>6, <1>8, <1>9, <1>10 DEF P, c, N

----------------------------------------------------------------------------
(* Integers.                                                               *)
(*                                                                         *)
(* Where the common type of a comparison is signed, both sides fit in it and*)
(* the comparison is the one of integers (Fits).  Where it is unsigned, a  *)
(* negative bound wraps to a large value: for an unsigned field read as a  *)
(* signed integer this refuses everything, and a signed field for an unsigned*)
(* integer is not accepted.                                                *)

\* A number below the modulus is its own remainder.
LEMMA ModSmall == ASSUME NEW m \in Nat, NEW x \in Int, 0 <= x, x < m PROVE x % m = x
OBVIOUS

\* A negative number wraps once.
LEMMA ModWrap == ASSUME NEW m \in Nat, NEW x \in Int, -m <= x, x < 0 PROVE x % m = x + m
OBVIOUS

\* Every type has a range.
LEMMA HalfPositive == ASSUME NEW t \in IntType PROVE Half[t.width] \in Nat \ {0}
BY HalfAssumption DEF IntType, Widths

\* Conversions of values that need none, and of negative ones to unsigned types.
LEMMA ConvertSame == ASSUME NEW t \in IntType, NEW v \in Values(t) PROVE Convert(v, t) = v
<1>1. Half[t.width] \in Nat \ {0} /\ t.signed \in BOOLEAN
  BY HalfPositive DEF IntType
<1>2. /\ Lowest(t) \in Int /\ v \in Int
      /\ 0 <= v - Lowest(t) /\ v - Lowest(t) < 2 * Half[t.width]
  BY <1>1 DEF Values, Lowest, Highest
<1>3. (v - Lowest(t)) % (2 * Half[t.width]) = v - Lowest(t)
  BY <1>1, <1>2, ModSmall
<1>4. QED
  BY <1>2, <1>3 DEF Convert

\* A negative value wraps to a large one of an unsigned type.
LEMMA ConvertNegative ==
    ASSUME NEW t \in IntType, ~t.signed, NEW v \in Int, -(2 * Half[t.width]) <= v, v < 0
    PROVE  Convert(v, t) = v + 2 * Half[t.width]
<1>1. Half[t.width] \in Nat \ {0} /\ Lowest(t) = 0
  BY HalfPositive DEF Lowest
<1>2. v % (2 * Half[t.width]) = v + 2 * Half[t.width]
  BY <1>1, ModWrap
<1>3. QED
  BY <1>1, <1>2 DEF Convert

\* The type two values are compared in.
LEMMA CommonType ==
    ASSUME NEW s \in IntType, NEW t \in IntType
    PROVE  /\ Common(s, t) \in IntType
           /\ Half[s.width] <= Half[Common(s, t).width]
           /\ Half[t.width] <= Half[Common(s, t).width]
<1>1. Promote(s) \in IntType /\ Promote(t) \in IntType
  BY DEF Promote, IntType, Widths
<1>2. Common(s, t) \in IntType
  BY <1>1 DEF Common, Wider, IntType
<1>3. /\ Half["short"] \in Nat /\ Half["int"] \in Nat /\ Half["long"] \in Nat
      /\ Half["short"] <= Half["int"] /\ Half["int"] <= Half["long"]
  BY HalfAssumption DEF Widths
<1>4. QED
  BY <1>2, <1>3 DEF Common, Wider, Promote, IntType, Widths

\* The common type does not depend on the order of the two.
LEMMA CommonSymmetric ==
    ASSUME NEW s \in IntType, NEW t \in IntType PROVE Common(s, t) = Common(t, s)
BY DEF Common, Wider, Promote, IntType, Widths

\* In a signed common type both types fit.
LEMMA Fits ==
    ASSUME NEW s \in IntType, NEW t \in IntType, Common(s, t).signed
    PROVE  Values(s) \subseteq Values(Common(s, t)) /\ Values(t) \subseteq Values(Common(s, t))
<1>1. /\ Half["short"] \in Nat /\ Half["int"] \in Nat /\ Half["long"] \in Nat
      /\ 2 * Half["short"] <= Half["int"] /\ 2 * Half["int"] <= Half["long"]
  BY HalfAssumption DEF Widths
<1>2. ASSUME NEW u \in IntType, u = s \/ u = t
      PROVE  Lowest(Common(s, t)) <= Lowest(u) /\ Highest(u) <= Highest(Common(s, t))
  BY <1>1, <1>2 DEF Common, Wider, Promote, IntType, Widths, Lowest, Highest
<1>3. \A u \in IntType : Lowest(u) \in Int /\ Highest(u) \in Int
  BY HalfPositive DEF Lowest, Highest, IntType
<1>4. QED
  BY <1>2, <1>3, CommonType DEF Values

\* In an unsigned common type those of the two that are unsigned fit.
LEMMA FitsUnsigned ==
    ASSUME NEW s \in IntType, NEW t \in IntType, ~Common(s, t).signed
    PROVE  /\ ~s.signed => Values(s) \subseteq Values(Common(s, t))
           /\ ~t.signed => Values(t) \subseteq Values(Common(s, t))
<1> DEFINE c == Common(s, t)
<1>1. /\ c \in IntType /\ Half[s.width] <= Half[c.width] /\ Half[t.width] <= Half[c.width]
      /\ Half[c.width] \in Nat /\ Half[s.width] \in Nat /\ Half[t.width] \in Nat
  BY CommonType, HalfPositive
<1>2. QED
  BY <1>1 DEF Values, Lowest, Highest

\* The bounds std::numeric_limits gives are values of the type.
LEMMA Limits ==
    ASSUME NEW t \in IntType
    PROVE  /\ Lowest(t) \in Values(t) /\ Highest(t) \in Values(t)
           /\ Values(t) \subseteq Int
BY HalfPositive DEF Values, Lowest, Highest, IntType

----------------------------------------------------------------------------

\* A value that passes the range check is one of the C++ type: the cast after
\* it changes nothing.
LEMMA Bounded ==
    ASSUME NEW wire \in IntType, NEW local \in IntType, Accepted(wire, local),
           NEW v \in Values(wire), ~OutOfBound(v, wire, local)
    PROVE  v \in Values(local)
<1> DEFINE c == Common(wire, local)
<1>0. /\ c \in IntType /\ v \in Int /\ wire.signed \in BOOLEAN /\ local.signed \in BOOLEAN
      /\ Common(local, wire) = c
      /\ Half[c.width] \in Nat \ {0} /\ Half[wire.width] \in Nat \ {0}
      /\ Half[local.width] \in Nat \ {0}
      /\ Half[wire.width] <= Half[c.width] /\ Half[local.width] <= Half[c.width]
  BY CommonSymmetric, CommonType, HalfPositive, Limits DEF IntType
<1>1. /\ ~(Convert(v, c) < Convert(Lowest(local), c))
      /\ ~(Convert(Highest(local), c) < Convert(v, c))
  BY <1>0 DEF OutOfBound, Less
<1>2. CASE Values(wire) \subseteq Values(c) /\ Values(local) \subseteq Values(c)
  <2>1. /\ Convert(v, c) = v
        /\ Convert(Lowest(local), c) = Lowest(local)
        /\ Convert(Highest(local), c) = Highest(local)
    BY <1>0, <1>2, ConvertSame, Limits
  <2>2. QED
    BY <1>0, <1>1, <2>1, Limits DEF Values
<1>3. CASE ~c.signed /\ local.signed /\ ~wire.signed
  <2>1. Convert(v, c) = v
    BY <1>0, <1>3, FitsUnsigned, ConvertSame
  <2>2. Convert(Lowest(local), c) = 2 * Half[c.width] - Half[local.width]
    BY <1>0, <1>3, ConvertNegative DEF Lowest
  <2>3. Convert(Highest(local), c) = Half[local.width] - 1
    BY <1>0, <1>3, ConvertSame DEF Highest, Lowest, Values
  <2>4. QED
    BY <1>0, <1>1, <2>1, <2>2, <2>3
<1>4. CASE ~c.signed /\ ~local.signed /\ wire.signed
  <2>1. Convert(Lowest(wire), c) = 2 * Half[c.width] - Half[wire.width]
    BY <1>0, <1>4, ConvertNegative DEF Lowest
  <2>2. Convert(Lowest(local), c) = 0
    BY <1>0, <1>4, ConvertSame DEF Highest, Lowest, Values
  <2>3. QED
    BY <1>0, <2>1, <2>2 DEF Accepted, Less
<1>5. CASE ~c.signed /\ local.signed /\ wire.signed
  BY <1>5 DEF Common, Wider, Promote, IntType
<1>6. QED
  BY <1>0, <1>2, <1>3, <1>4, <1>5, Fits, FitsUnsigned

\* Pairs for which the common type is unsigned: both are, or the value read is
\* always refused, or the assertion fails.
LEMMA UnsignedCommon ==
    ASSUME NEW wire \in IntType, NEW local \in IntType, Accepted(wire, local),
           ~Common(wire, local).signed
    PROVE  ~wire.signed /\ (local.signed => Unreadable(wire, local))
<1> DEFINE c == Common(wire, local)
<1>1. /\ c \in IntType /\ wire.signed \in BOOLEAN /\ local.signed \in BOOLEAN
      /\ Common(local, wire) = c
      /\ Half[c.width] \in Nat \ {0} /\ Half[wire.width] \in Nat \ {0}
      /\ Half[wire.width] <= Half[c.width]
  BY CommonSymmetric, CommonType, HalfPositive DEF IntType
<1>2. CASE wire.signed /\ ~local.signed
  <2>1. Convert(Lowest(wire), c) = 2 * Half[c.width] - Half[wire.width]
    BY <1>1, <1>2, ConvertNegative DEF Lowest
  <2>2. Convert(Lowest(local), c) = 0
    BY <1>1, <1>2, ConvertSame DEF Highest, Lowest, Values
  <2>3. QED
    BY <1>1, <2>1, <2>2 DEF Accepted, Less
<1>3. CASE local.signed
  BY <1>3 DEF Common, Wider, Promote, IntType, Widths, Unreadable
<1>4. QED
  BY <1>1, <1>2, <1>3

\* A field that can be read holds every value of the C++ type it was accepted
\* for, and its range check refuses none of them.
LEMMA Holds ==
    ASSUME NEW wire \in IntType, NEW local \in IntType, Accepted(wire, local),
           ~Unreadable(wire, local), NEW v \in Values(local)
    PROVE  v \in Values(wire) /\ ~OutOfBound(v, wire, local)
<1> DEFINE c == Common(wire, local)
<1>1. /\ c \in IntType /\ v \in Int /\ wire.signed \in BOOLEAN /\ local.signed \in BOOLEAN
      /\ Common(local, wire) = c
  BY CommonSymmetric, CommonType, Limits DEF IntType
<1>2. Values(wire) \subseteq Values(c) /\ Values(local) \subseteq Values(c)
  <2>1. CASE c.signed
    BY <2>1, Fits
  <2>2. CASE ~c.signed
    BY <1>1, <2>2, UnsignedCommon, FitsUnsigned
  <2>3. QED
    BY <2>1, <2>2
<1>3. \A u \in Values(wire) \union Values(local) : Convert(u, c) = u
  BY <1>1, <1>2, ConvertSame
<1>4. Lowest(wire) <= Lowest(local) /\ Highest(local) <= Highest(wire)
  BY <1>1, <1>3, Limits DEF Accepted, Less
<1>5. v \in Values(wire)
  BY <1>1, <1>4, Limits DEF Values
<1>6. ~(Convert(v, c) < Convert(Lowest(local), c)) /\ ~(Convert(Highest(local), c) < Convert(v, c))
  BY <1>1, <1>3, Limits DEF Values
<1>7. QED
  BY <1>1, <1>5, <1>6 DEF OutOfBound, Less

----------------------------------------------------------------------------

\* An integer built by one process and read by another, with any C++ types that
\* their static assertions accept, arrives unchanged or is refused (BuildPrimitive
\* and CustomReadField, "out of bound int received"), if the first can read its
\* own field.
THEOREM ReadIsBuiltOrRefused ==
    ASSUME NEW wire \in IntType, NEW client \in IntType, NEW server \in IntType,
           Accepted(wire, client), Accepted(wire, server), ~Unreadable(wire, client),
           NEW v \in Values(client)
    PROVE  \/ OutOfBound(BuildPrimitive(v, wire), wire, server)
           \/ ReadPrimitive(BuildPrimitive(v, wire), server) = v
<1>1. v \in Values(wire)
  BY Holds
<1>2. BuildPrimitive(v, wire) = v
  BY <1>1, ConvertSame DEF BuildPrimitive
<1>3. CASE ~OutOfBound(v, wire, server)
  <2>1. v \in Values(server)
    BY <1>1, <1>3, Bounded
  <2>2. QED
    BY <1>2, <2>1, ConvertSame DEF ReadPrimitive
<1>4. QED
  BY <1>2, <1>3

\* Between processes that use the same C++ type every value arrives.
THEOREM SameTypeArrives ==
    ASSUME NEW wire \in IntType, NEW local \in IntType, Accepted(wire, local),
           ~Unreadable(wire, local), NEW v \in Values(local)
    PROVE  /\ ~OutOfBound(BuildPrimitive(v, wire), wire, local)
           /\ ReadPrimitive(BuildPrimitive(v, wire), local) = v
<1>1. v \in Values(wire) /\ ~OutOfBound(v, wire, local)
  BY Holds
<1>2. BuildPrimitive(v, wire) = v
  BY <1>1, ConvertSame DEF BuildPrimitive
<1>3. QED
  BY <1>1, <1>2, ConvertSame DEF ReadPrimitive

\* An unsigned field at least as wide as int with a signed C++ type passes the
\* static assertions, and CustomReadField refuses every value of it.
THEOREM UnreadableRefusesAll ==
    ASSUME NEW wire \in IntType, NEW local \in IntType, Accepted(wire, local),
           Unreadable(wire, local), NEW m \in Values(wire)
    PROVE  OutOfBound(m, wire, local)
<1> SUFFICES ASSUME ~OutOfBound(m, wire, local) PROVE FALSE
  OBVIOUS
<1> DEFINE c == Common(wire, local)
<1>1. /\ c \in IntType /\ m \in Int /\ ~wire.signed /\ local.signed
      /\ Common(local, wire) = c
      /\ Half[c.width] \in Nat \ {0} /\ Half[local.width] \in Nat \ {0}
      /\ Half[local.width] <= Half[c.width]
  BY CommonSymmetric, CommonType, HalfPositive, Limits DEF IntType, Unreadable
<1>2. ~c.signed
  <2> SUFFICES ASSUME c.signed PROVE FALSE
    BY <1>1 DEF IntType
  <2>1. Convert(Lowest(wire), c) = 0 /\ Convert(Lowest(local), c) = -Half[local.width]
    BY <1>1, Fits, Limits, ConvertSame DEF Lowest
  <2>2. QED
    BY <1>1, <2>1 DEF Accepted, Less
<1>3. /\ ~(Convert(m, c) < Convert(Lowest(local), c))
      /\ ~(Convert(Highest(local), c) < Convert(m, c))
  BY <1>1 DEF OutOfBound, Less
<1>4. Convert(Lowest(local), c) = 2 * Half[c.width] - Half[local.width]
  BY <1>1, <1>2, ConvertNegative DEF Lowest
<1>5. Convert(Highest(local), c) = Half[local.width] - 1
  BY <1>1, <1>2, ConvertSame DEF Highest, Lowest, Values
<1>6. Convert(m, c) = m
  BY <1>1, <1>2, FitsUnsigned, ConvertSame
<1>7. QED
  BY <1>1, <1>3, <1>4, <1>5, <1>6

----------------------------------------------------------------------------
(* What holds during a call.                                               *)

\* The values a C++ variable can hold.
Slots == Int \union {Null}

\* The values of the k-th field among those of all.
Part(s, k, c) == [j \in 1..c[k] |-> s[First(k, c) + j - 1]]

\* The variables of the client for each field: the result has one too.
ClientCounts(F) == [k \in 1..Len(F) |-> IF IsResult(F[k]) THEN 1 ELSE Counts(F)[k]]

\* The caller passes values of the types of the parameters.
GivenOK(m, g) ==
    /\ g \in Seq(Slots) /\ Len(g) = Len(CxxParams(m))
    /\ \A n \in 1..Len(g) : g[n] \in LocalValues(CxxParams(m)[n], CxxParams(m)[n].client)

\* The variables of the client before the response is read.
Initial(m, g) == g \o ResultSlot(m)

\* The field f of a message carries nothing, or the value v.
Blank(msg, f) == ~msg[f.name].set /\ (f.optional => ~msg[Has(f.name)].set)
Carried(msg, f, v) ==
    /\ v = <<Null>> => ~msg[f.name].set
    /\ v # <<Null>> => msg[f.name] = [set |-> TRUE, val |-> [j \in DOMAIN v |-> BuildPrimitive(v[j], f.decl.wire)]]
    /\ f.optional => (msg[Has(f.name)].set <=> v # <<Null>> /\ f.decl.kind = "optional")

\* msg has the fields of the structs of the method.
IsMessage(m, msg) == msg = [n \in DOMAIN Message(m) |-> msg[n]]

\* The request when the fields before the n-th are built from the arguments g: it
\* carries those that are sent, with the want flags, and nothing of the others.
ParamsOK(m, F, g, msg, n) ==
    /\ IsMessage(m, msg)
    /\ \A k \in 1..Len(F) : IsArgument(F[k]) =>
          LET v == Part(g, k, Counts(F))
          IN /\ k < n => /\ In(F[k]) => Carried(msg, F[k], v)
                         /\ F[k].requested =>
                               (msg[Want(F[k].name)].set <=> F[k].decl.kind = "pointer" /\ v # <<Null>>)
             /\ k >= n => Blank(msg, F[k]) /\ (F[k].requested => ~msg[Want(F[k].name)].set)

\* The server takes the argument for a null pointer, refuses its value, or passes
\* what it read or, for an output, a new variable.
NullSent(msg, f) == f.decl.kind = "pointer" /\ f.requested /\ ~msg[Want(f.name)].set
Refuses(msg, f) ==
    IsArgument(f) /\ In(f) /\ ~NullSent(msg, f) /\ ReadThrows(msg, f, Default(f.decl), f.decl.server)
Gets(msg, f) == IF NullSent(msg, f) THEN {<<Null>>}
                ELSE IF In(f) THEN {ReadField(msg, f, Default(f.decl), f.decl.server)}
                ELSE Fresh(f.decl)

\* The arguments of the method when those of the fields before the n-th are read:
\* none was refused, and each is what its field carries.
PassedOK(F, msg, s, n) ==
    /\ s \in Seq(Slots) /\ Len(s) = First(n, Counts(F)) - 1
    /\ \A k \in 1..(n - 1) : IsArgument(F[k]) =>
          ~Refuses(msg, F[k]) /\ Part(s, k, Counts(F)) \in Gets(msg, F[k])

\* The method was called with the arguments s and had the effect e.
MethodOK(m, F, msg, s, e) ==
    /\ PassedOK(F, msg, s, Len(F) + 1)
    /\ e.after \in Seq(Slots) /\ Len(e.after) = Len(CxxParams(m))
    /\ \A n \in 1..Len(CxxParams(m)) : e.after[n] \in Writes(CxxParams(m)[n], s[n])
    /\ e.result \in Results(m)
    /\ e.thrown \in Exceptions(m) \union {"none"}

\* The exception x in flight when the fields after the k-th are unwound, and
\* whether it is caught there.
Handles(F, x, k) == IsException(F[k]) /\ Catches(F[k].decl.name, x)
Flying(F, x, k) == IF \E l \in (k + 1)..Len(F) : Handles(F, x, l) THEN "none" ELSE x
Caught(F, x, k) == Handles(F, x, k) /\ Flying(F, x, k) # "none"
SomeCaught(F, x, k) == x # "none" => \E l \in (k + 1)..Len(F) : Caught(F, x, l)

\* What the method leaves for the k-th field.
OutValue(F, e, k) == IF F[k].retval THEN e.result ELSE Part(e.after, k, Counts(F))

\* The response when the fields after the n-th are unwound: it has an exception
\* only where that was caught, and the outputs of the fields outside of it.
ResultsOK(m, F, e, msg, n) ==
    /\ IsMessage(m, msg)
    /\ \A k \in 1..Len(F) : ~F[k].skip =>
          /\ k <= n => Blank(msg, F[k])
          /\ k > n => /\ IsException(F[k]) => (msg[F[k].name].set <=> Caught(F, e.thrown, k))
                      /\ Out(F[k]) /\ ~IsException(F[k]) /\ Flying(F, e.thrown, k) = "none"
                            => Carried(msg, F[k], OutValue(F, e, k))

\* The variables of the client when the fields before the n-th are read: the
\* others are as they were.
ReadOK(m, F, g, msg, loc, n) ==
    /\ loc \in Seq(Slots) /\ Len(loc) = Len(Initial(m, g))
    /\ \A k \in 1..Len(F) : IsArgument(F[k]) \/ IsResult(F[k]) =>
          LET v == Part(Initial(m, g), k, ClientCounts(F))
              now == Part(loc, k, ClientCounts(F))
          IN IF k < n /\ Out(F[k])
             THEN /\ ~ReadThrows(msg, F[k], v, F[k].decl.client)
                  /\ now = ReadField(msg, F[k], v, F[k].decl.client)
             ELSE now = v

\* Nothing was called or thrown yet.
Idle == thrown = "none" /\ outcome = "none" /\ ~Called

\* The request is built from the arguments, and is not changed any more.
Sent == /\ GivenOK(method, given)
        /\ ParamsOK(method, fields, given, params, Len(fields) + 1)
NotRead == locals = Initial(method, given) /\ outcome = "none"

\* The phases of a call.
InGenerate == pc = "generate" => /\ Generating(method, fields, at - 1)
                                 /\ given = <<>> /\ passed = <<>> /\ Idle
InDeclared == pc = "declared" => given = <<>> /\ passed = <<>> /\ Idle
InBuild == pc = "build" =>
    /\ at \in 1..(Len(fields) + 1) /\ Idle /\ passed = <<>>
    /\ GivenOK(method, given) /\ NotRead
    /\ ParamsOK(method, fields, given, params, at) /\ results = Message(method)
InPass == pc = "pass" =>
    /\ at \in 1..(Len(fields) + 1) /\ Idle
    /\ Sent /\ NotRead /\ results = Message(method)
    /\ PassedOK(fields, params, passed, at)

\* The server refused an argument and did not call the method.
Refused == /\ ~Called /\ thrown = "range_error"
           /\ \E k \in 1..Len(fields) : Refuses(params, fields[k])

\* The method ran.
Ran == Called /\ MethodOK(method, fields, params, seen, effect)

\* The server on its way out, after a refusal or after the method.
InUnwind == pc = "unwind" =>
    /\ at \in 0..Len(fields) /\ Sent /\ NotRead
    /\ \/ Refused
       \/ /\ Ran /\ passed = effect.after
          /\ thrown = Flying(fields, effect.thrown, at)
          /\ thrown = "none" => SomeCaught(fields, effect.thrown, at)
          /\ ResultsOK(method, fields, effect, results, at)

\* The response is built: the exception, if any, was caught.
Answered == /\ Ran /\ thrown = "none" /\ SomeCaught(fields, effect.thrown, 0)
            /\ ResultsOK(method, fields, effect, results, 0)

\* The fields before the n-th are read, and no exception was among them.
ReadUpTo(n) ==
    /\ \A k \in 1..(n - 1) : ~Caught(fields, effect.thrown, k)
    /\ ReadOK(method, fields, given, results, locals, n)
InRead == pc = "read" =>
    /\ at \in 1..(Len(fields) + 1) /\ Sent /\ Answered /\ ReadUpTo(at) /\ outcome = "none"

\* The client stopped at the k-th field: at the end, at an exception, or at a
\* value it refused.
StoppedAt(k) ==
    \/ k = Len(fields) + 1 /\ outcome = "returned"
    \/ k <= Len(fields) /\ Caught(fields, effect.thrown, k) /\ outcome = fields[k].decl.name
    \/ /\ k <= Len(fields) /\ outcome = "error"
       /\ Out(fields[k]) /\ ~IsException(fields[k])
       /\ ReadThrows(results, fields[k],
                     Part(Initial(method, given), k, ClientCounts(fields)), fields[k].decl.client)

\* The ends of a call: a refusal of the server, an exception no field caught, or
\* what the client found in the response.
InReturned == pc = "returned" =>
    /\ Sent
    /\ \/ Refused /\ outcome = "error"
       \/ /\ Ran /\ outcome = "error" /\ locals = Initial(method, given)
          /\ thrown = Flying(fields, effect.thrown, 0) /\ thrown # "none"
       \/ Answered /\ \E k \in 1..(Len(fields) + 1) : ReadUpTo(k) /\ StoppedAt(k)

\* The inductive invariant.
CallInv ==
    /\ method \in Methods /\ Compiles(method)
    /\ pc \in {"generate", "declared", "build", "pass", "unwind", "read", "returned"}
    /\ at \in Nat
    /\ pc # "generate" => Paired(method, fields)
    /\ InGenerate /\ InDeclared /\ InBuild /\ InPass /\ InUnwind /\ InRead /\ InReturned

----------------------------------------------------------------------------
(* The values of a field among those of all.                               *)

\* The values of a field, among those of all of them.
LEMMA PartIs ==
    ASSUME NEW S, NEW c \in Seq(Nat), NEW k \in 1..Len(c), NEW s \in Seq(S),
           First(k, c) + c[k] - 1 <= Len(s)
    PROVE  /\ Part(s, k, c) \in Seq(S) /\ Len(Part(s, k, c)) = c[k]
           /\ Split(s, k, c) = Part(s, k, c)
<1> DEFINE f == First(k, c)
           n == c[k]
           p == Part(s, k, c)
           q == Split(s, k, c)
<1>1. f \in Nat \ {0} /\ n \in Nat
  <2>1. k \in 1..(Len(c) + 1)
    BY LenProperties
  <2>2. QED
    BY <2>1, FirstDefined, ElementOfSeq
<1>2. p = [j \in 1..n |-> s[f + j - 1]] /\ q = SubSeq(s, f, f + n - 1) /\ f + n - 1 <= Len(s)
  BY DEF Part, Split
<1> HIDE DEF f, n, p, q
<1>3. Len(s) \in Nat
  BY LenProperties
<1>4. \A j \in 1..n : f + j - 1 \in 1..Len(s)
  BY <1>1, <1>2, <1>3
<1>5. \A i \in f..(f + n - 1) : i \in 1..Len(s)
  BY <1>1, <1>2, <1>3
<1>6. \A j \in 1..n : s[f + j - 1] \in S
  BY <1>4, ElementOfSeq
<1>7. \A i \in f..(f + n - 1) : s[i] \in S
  BY <1>5, ElementOfSeq
<1>8. p \in Seq(S) /\ Len(p) = n
  BY <1>1, <1>2, <1>6
<1>9. /\ q \in Seq(S) /\ Len(q) = IF f <= f + n - 1 THEN (f + n - 1) - f + 1 ELSE 0
      /\ \A i \in 1..((f + n - 1) - f + 1) : q[i] = s[f + i - 1]
  <2>1. f \in Int /\ f + n - 1 \in Int
    BY <1>1
  <2>2. QED
    BY <1>2, <1>7, <2>1, SubSeqProperties
<1>10. Len(q) = n /\ \A i \in 1..n : q[i] = s[f + i - 1]
  BY <1>1, <1>9
<1>11. \A i \in 1..n : q[i] = p[i]
  BY <1>2, <1>10
<1>12. q = p
  BY <1>8, <1>9, <1>10, <1>11, SeqEqual
<1>13. QED
  BY <1>8, <1>12 DEF n, p, q

\* The values of a field are the same where all of them are.
LEMMA PartEqual ==
    ASSUME NEW c, NEW k, NEW s, NEW t, \A j \in 1..c[k] : s[First(k, c) + j - 1] = t[First(k, c) + j - 1]
    PROVE  Part(s, k, c) = Part(t, k, c)
BY DEF Part

\* The values of different fields are at different places.
LEMMA PartsApart ==
    ASSUME NEW c \in Seq(Nat), NEW k \in 1..Len(c), NEW l \in 1..Len(c), k < l
    PROVE  First(k, c) + c[k] <= First(l, c)
<1>1. k + 1 \in 1..(Len(c) + 1) /\ l \in (k + 1)..(Len(c) + 1)
  BY LenProperties
<1>2. First(k + 1, c) <= First(l, c)
  BY <1>1, FirstMonotone
<1>3. First(k + 1, c) = First(k, c) + c[k]
  BY FirstDefined
<1>4. QED
  BY <1>2, <1>3

\* Adding the values of the next field.
Appended(u, S, s, v, k, c) ==
    /\ u \in Seq(S) /\ Len(u) = First(k + 1, c) - 1
    /\ Part(u, k, c) = v
    /\ \A l \in 1..(k - 1) : Part(u, l, c) = Part(s, l, c)

\* Appending the values of a field leaves those before it.
LEMMA PartAppend ==
    ASSUME NEW S, NEW c \in Seq(Nat), NEW k \in 1..Len(c), NEW s \in Seq(S),
           Len(s) = First(k, c) - 1, NEW v \in Seq(S), Len(v) = c[k]
    PROVE  Appended(s \o v, S, s, v, k, c)
<1> DEFINE u == s \o v
<1>1. u \in Seq(S) /\ Joined(u, s, v)
  BY Concat
<1>2. First(k, c) \in Nat \ {0} /\ c[k] \in Nat /\ First(k + 1, c) = First(k, c) + c[k]
  <2>1. k \in 1..(Len(c) + 1)
    BY LenProperties
  <2>2. QED
    BY <2>1, FirstDefined, ElementOfSeq
<1> HIDE DEF u
<1>3. /\ Len(s) \in Nat /\ Len(v) \in Nat /\ Len(u) = Len(s) + Len(v)
      /\ \A n \in 1..Len(s) : u[n] = s[n]
      /\ \A n \in 1..Len(v) : u[Len(s) + n] = v[n]
  BY <1>1 DEF Joined
<1>4. Len(u) = First(k + 1, c) - 1
  BY <1>2, <1>3
<1>5. Part(u, k, c) = v
  <2>1. \A j \in 1..c[k] : First(k, c) + j - 1 = Len(s) + j
    BY <1>2, <1>3
  <2>2. \A j \in 1..c[k] : u[First(k, c) + j - 1] = v[j]
    BY <1>3, <2>1
  <2>3. Part(u, k, c) = [j \in 1..c[k] |-> v[j]]
    BY <2>2 DEF Part
  <2>4. v = [j \in 1..c[k] |-> v[j]]
    BY <1>2
  <2>5. QED
    BY <2>3, <2>4
<1>6. ASSUME NEW l \in 1..(k - 1) PROVE Part(u, l, c) = Part(s, l, c)
  <2>1. l \in 1..Len(c) /\ l < k
    BY LenProperties
  <2>2. First(l, c) + c[l] <= First(k, c) /\ First(l, c) \in Nat \ {0} /\ c[l] \in Nat
    <3>1. l \in 1..(Len(c) + 1)
      BY <2>1, LenProperties
    <3>2. QED
      BY <2>1, <3>1, PartsApart, FirstDefined, ElementOfSeq
  <2>3. \A j \in 1..c[l] : First(l, c) + j - 1 \in 1..Len(s)
    <3> DEFINE a == First(l, c)
               n == c[l]
               b == First(k, c)
               L == Len(s)
    <3>1. a \in Nat \ {0} /\ n \in Nat /\ b \in Nat \ {0} /\ a + n <= b /\ L = b - 1
      BY <1>2, <2>2
    <3> HIDE DEF a, n, b, L
    <3>2. \A j \in 1..n : a + j - 1 \in 1..L
      BY <3>1
    <3>3. QED
      BY <3>2 DEF a, n, L
  <2>4. \A j \in 1..c[l] : u[First(l, c) + j - 1] = s[First(l, c) + j - 1]
    BY <1>3, <2>3
  <2>5. QED
    BY <2>4, PartEqual
<1>7. QED
  BY <1>1, <1>4, <1>5, <1>6 DEF u, Appended

\* Replacing the values of one.
Replaced(r, S, s, v, k, c) ==
    /\ r \in Seq(S) /\ Len(r) = Len(s)
    /\ Part(r, k, c) = v
    /\ \A l \in 1..Len(c) : l # k /\ First(l, c) + c[l] - 1 <= Len(s)
          => Part(r, l, c) = Part(s, l, c)

\* Replacing the values of a field leaves those of the others.
LEMMA PartReplace ==
    ASSUME NEW S, NEW c \in Seq(Nat), NEW k \in 1..Len(c), NEW s \in Seq(S),
           First(k, c) + c[k] - 1 <= Len(s), NEW v \in Seq(S), Len(v) = c[k]
    PROVE  Replaced(Replace(s, k, c, v), S, s, v, k, c)
<1> DEFINE r == Replace(s, k, c, v)
           f == First(k, c)
           L == Len(s)
<1>1. f \in Nat \ {0} /\ c[k] \in Nat /\ L \in Nat /\ f + c[k] - 1 <= L
  <2>1. k \in 1..(Len(c) + 1)
    BY LenProperties
  <2>2. QED
    BY <2>1, FirstDefined, ElementOfSeq, LenProperties
<1>2. DOMAIN s = 1..L /\ DOMAIN v = 1..c[k]
  BY LenProperties
<1>3. r = [n \in 1..L |-> IF n - f + 1 \in 1..c[k] THEN v[n - f + 1] ELSE s[n]]
  BY <1>2 DEF Replace
<1>4. /\ \A n \in 1..L : s[n] \in S
      /\ \A j \in 1..c[k] : v[j] \in S
  BY ElementOfSeq
<1> HIDE DEF r, f, L
<1>5. \A n \in 1..L : (IF n - f + 1 \in 1..c[k] THEN v[n - f + 1] ELSE s[n]) \in S
  BY <1>4
<1>6. r \in Seq(S) /\ Len(r) = L
  <2>1. \A n \in 1..L : r[n] \in S
    BY <1>3, <1>5
  <2>2. r = [n \in 1..L |-> r[n]]
    BY <1>3
  <2>3. [n \in 1..L |-> r[n]] \in Seq(S) /\ Len([n \in 1..L |-> r[n]]) = L
    BY <1>1, <2>1
  <2>4. QED
    BY Zenon, <2>2, <2>3
<1>7. Part(r, k, c) = v
  <2>1. ASSUME NEW j \in 1..c[k] PROVE r[f + j - 1] = v[j]
    <3>1. f + j - 1 \in 1..L /\ (f + j - 1) - f + 1 = j
      BY <1>1
    <3>2. QED
      BY <1>3, <3>1
  <2>2. Part(r, k, c) = [j \in 1..c[k] |-> v[j]]
    BY <2>1 DEF Part, f
  <2>3. v = [j \in 1..c[k] |-> v[j]]
    BY <1>1
  <2>4. QED
    BY <2>2, <2>3
<1>8. ASSUME NEW l \in 1..Len(c), l # k, First(l, c) + c[l] - 1 <= L
      PROVE  Part(r, l, c) = Part(s, l, c)
  <2>1. First(l, c) \in Nat \ {0} /\ c[l] \in Nat
    <3>1. l \in 1..(Len(c) + 1)
      BY LenProperties
    <3>2. QED
      BY <3>1, FirstDefined, ElementOfSeq
  <2>2. (k < l => f + c[k] <= First(l, c)) /\ (l < k => First(l, c) + c[l] <= f)
    BY PartsApart DEF f
  <2>3. k < l \/ l < k
    BY <1>8
  <2>4. ASSUME NEW j \in 1..c[l] PROVE r[First(l, c) + j - 1] = s[First(l, c) + j - 1]
    <3>1. First(l, c) + j - 1 \in 1..L /\ ~((First(l, c) + j - 1) - f + 1 \in 1..c[k])
      <4> DEFINE a == First(l, c)
                 n == c[l]
                 N == c[k]
      <4>1. /\ a \in Nat \ {0} /\ n \in Nat /\ f \in Nat \ {0} /\ N \in Nat /\ L \in Nat
            /\ a + n - 1 <= L /\ j \in 1..n /\ (f + N <= a \/ a + n <= f)
        BY <1>1, <1>8, <2>1, <2>2, <2>3
      <4> HIDE DEF a, n, N
      <4>2. a + j - 1 \in 1..L /\ ~((a + j - 1) - f + 1 \in 1..N)
        BY <4>1
      <4>3. QED
        BY <4>2 DEF a, N
    <3>2. QED
      BY <1>3, <3>1
  <2>5. QED
    BY <2>4, PartEqual
<1>9. QED
  BY <1>6, <1>7, <1>8 DEF r, f, L, Replaced

\* Where a field starts depends only on the fields before it.
LEMMA FirstSame ==
    ASSUME NEW c \in Seq(Nat), NEW e \in Seq(Nat), Len(c) = Len(e), NEW k \in 1..Len(c),
           \A j \in 1..(k - 1) : c[j] = e[j]
    PROVE  First(k, c) = First(k, e)
<1> DEFINE T == {d \in Nat : d + 1 <= k => First(d + 1, c) = First(d + 1, e)}
<1>1. /\ First(1, c) = 1 /\ First(1, e) = 1
      /\ \A i \in 1..Len(c) : First(i + 1, c) = First(i, c) + c[i] /\ First(i + 1, e) = First(i, e) + e[i]
  BY FirstDefined
<1>2. 0 \in T
  BY <1>1
<1>3. ASSUME NEW d \in Nat, d \in T PROVE d + 1 \in T
  <2>1. SUFFICES ASSUME (d + 1) + 1 <= k PROVE First((d + 1) + 1, c) = First((d + 1) + 1, e)
    OBVIOUS
  <2>2. d + 1 \in 1..(k - 1) /\ d + 1 \in 1..Len(c) /\ d + 1 <= k
    <3> DEFINE L == Len(c)
    <3>1. L \in Nat /\ k \in 1..L
      BY LenProperties
    <3> HIDE DEF L, T
    <3>2. d + 1 \in 1..(k - 1) /\ d + 1 \in 1..L /\ d + 1 <= k
      BY <2>1, <3>1
    <3>3. QED
      BY <3>2 DEF L
  <2>3. First(d + 1, c) = First(d + 1, e) /\ c[d + 1] = e[d + 1]
    BY <1>3, <2>2
  <2>4. QED
    BY <1>1, <2>2, <2>3
<1>4. Nat \subseteq T
  <2> HIDE DEF T
  <2>1. QED
    BY <1>2, <1>3, SetInduction
<1>5. k - 1 \in T /\ (k - 1) + 1 = k
  <2>1. k - 1 \in Nat /\ (k - 1) + 1 = k
    BY LenProperties
  <2> HIDE DEF T
  <2>2. QED
    BY <1>4, <2>1
<1>6. QED
  BY <1>5

----------------------------------------------------------------------------
(* The order of the fields.                                                *)

\* No field for which there is code comes after the result.
LEMMA ResultLast ==
    ASSUME NEW m \in Methods, NEW F, Paired(m, F), NEW k \in 1..Len(F), IsResult(F[k]),
           NEW l \in 1..Len(F), ~F[l].skip
    PROVE  l <= k
<1> DEFINE D == Decls(m)
           r == Len(m.args) + Len(m.throws) + 1
<1>1. F[k].name = D[r].name /\ r \in 1..Len(D)
  BY RetvalIs DEF ResultFacts
<1>2. PICK i \in 1..Len(D) : F[l].name = D[i].name
  BY DEF Paired
<1>3. /\ \A a, b \in 1..Len(F) : \A x, y \in 1..Len(D) :
             x < y /\ Sequenced(D[x], D[y]) /\ F[a].name = D[x].name /\ F[b].name = D[y].name => a < b
      /\ \A a, b \in 1..Len(F) : F[a].name = F[b].name => a = b
  BY DEF Paired
<1>4. i <= r
  <2> DEFINE A == Len(m.args)
             X == Len(m.throws)
             R == Len(m.returns)
  <2>1. A \in Nat /\ X \in Nat /\ R \in {0, 1} /\ Len(D) = A + X + R
    BY DeclsAre
  <2>2. r = A + X + 1
    OBVIOUS
  <2> HIDE DEF A, X, R, D, r
  <2>3. QED
    BY <2>1, <2>2
<1>5. Len(F) \in Nat /\ r \in Nat /\ i \in Nat
  <2>1. Len(m.args) \in Nat /\ Len(m.throws) \in Nat /\ Len(D) \in Nat
    BY DeclsAre, LenProperties
  <2>2. Len(F) \in Nat
    BY CountsType
  <2>3. r \in Nat /\ i \in Nat
    <3> DEFINE a == Len(m.args)
               x == Len(m.throws)
               L == Len(D)
    <3>1. a \in Nat /\ x \in Nat /\ L \in Nat /\ i \in 1..L /\ r = a + x + 1
      BY <2>1
    <3> HIDE DEF D, a, x, L, r
    <3>2. QED
      BY <3>1
  <2>4. QED
    BY <2>2, <2>3
<1>51. Sequenced(D[i], D[r])
  <2>1. Role(D[r]) = "result"
    <3>1. Len(m.returns) = 1 /\ F[k].decl = m.returns[1] /\ F[k].name = F[k].decl.name
      <4>1. ResultFacts(m, F, k)
        BY RetvalIs
      <4>2. QED
        BY <4>1 DEF ResultFacts
    <3>2. m.returns[1].name = "result"
      <4>1. 1 \in 1..Len(m.returns)
        BY <3>1
      <4>2. QED
        BY <4>1, MethodFacts
    <3>3. D[r].name = "result"
      BY <1>1, <3>1, <3>2
    <3>4. QED
      BY <3>3 DEF Role
  <2>2. D[i].kind # "skipped"
    <3>1. Declared(m, F[l], i)
      BY <1>2 DEF Paired
    <3>2. QED
      BY <3>1 DEF Declared
  <2>3. QED
    BY <2>1, <2>2 DEF Sequenced, Wraps
<1> HIDE DEF D, r
<1>6. CASE i = r
  <2>1. l = k
    BY <1>1, <1>2, <1>3, <1>6
  <2>2. QED
    BY <1>5, <2>1
<1>7. CASE i < r
  <2>1. l < k
    BY <1>1, <1>2, <1>3, <1>51, <1>7
  <2>2. QED
    BY <1>5, <2>1
<1>8. QED
  BY <1>4, <1>5, <1>6, <1>7

\* Where the client's values of a field are.
LEMMA ClientIs ==
    ASSUME NEW m \in Methods, NEW F, Paired(m, F)
    PROVE  /\ ClientCounts(F) \in Seq(Nat) /\ Len(ClientCounts(F)) = Len(F)
           /\ \A k \in 1..Len(F) : ~F[k].skip =>
                 /\ First(k, ClientCounts(F)) = First(k, Counts(F))
                 /\ ClientCounts(F)[k] = IF IsResult(F[k]) THEN 1 ELSE Counts(F)[k]
                 /\ IsResult(F[k]) => First(k, Counts(F)) = Len(CxxParams(m)) + 1
<1> DEFINE C == Counts(F)
           E == ClientCounts(F)
           N == Len(F)
           P == CxxParams(m)
<1>1. C \in Seq(Nat) /\ Len(C) = N /\ N \in Nat
  BY CountsType
<1>2. E = [k \in 1..N |-> IF IsResult(F[k]) THEN 1 ELSE C[k]]
  BY DEF ClientCounts
<1>3. /\ Len(P) \in Nat /\ First(N + 1, C) = Len(P) + 1
      /\ \A n \in 1..Len(P) : \E k \in 1..N : n - First(k, C) + 1 \in 1..C[k]
      /\ \A k \in 1..(N + 1) : First(k, C) \in Nat \ {0}
      /\ \A k \in 1..N : C[k] \in Nat /\ First(k + 1, C) = First(k, C) + C[k]
  BY ParamAt
<1>4. \A k, l \in 1..N : IsResult(F[k]) /\ ~F[l].skip => l <= k
  BY ResultLast
<1>5. ASSUME NEW k \in 1..N, C[k] # 0 PROVE ~F[k].skip /\ ~IsResult(F[k])
  <2>1. C[k] = IF F[k].skip THEN 0 ELSE F[k].args
    BY CountsType
  <2>2. ASSUME IsResult(F[k]) PROVE C[k] = 0
    <3>1. ResultFacts(m, F, k)
      BY <2>2, RetvalIs
    <3>2. QED
      BY <3>1 DEF ResultFacts
  <2>3. QED
    BY <1>5, <2>1, <2>2
<1> HIDE DEF C, E, N, P
<1>6. E \in Seq(Nat) /\ Len(E) = N
  <2>1. \A k \in 1..N : (IF IsResult(F[k]) THEN 1 ELSE C[k]) \in Nat
    BY <1>3
  <2>2. \A k \in 1..N : E[k] \in Nat
    BY <1>2, <2>1
  <2>3. E = [k \in 1..N |-> E[k]]
    BY <1>2
  <2>4. [k \in 1..N |-> E[k]] \in Seq(Nat) /\ Len([k \in 1..N |-> E[k]]) = N
    BY <1>1, <2>2
  <2>5. QED
    BY Zenon, <2>3, <2>4
<1>7. ASSUME NEW k \in 1..N, ~F[k].skip PROVE First(k, E) = First(k, C)
  <2>1. ASSUME NEW j \in 1..(k - 1) PROVE E[j] = C[j]
    <3>1. j \in 1..N /\ ~(k <= j)
      BY <1>1
    <3>2. ~IsResult(F[j])
      BY <1>4, <1>7, <3>1
    <3>3. QED
      BY <1>2, <3>1, <3>2
  <2>2. k \in 1..Len(E) /\ Len(E) = Len(C)
    BY <1>1, <1>6
  <2>3. QED
    BY <1>1, <1>6, <2>1, <2>2, FirstSame
<1>8. ASSUME NEW k \in 1..N, IsResult(F[k]) PROVE First(k, C) = Len(P) + 1
  <2> DEFINE f == First(k, C)
             L == Len(P)
  <2>1. f \in Nat \ {0} /\ f <= L + 1
    <3>1. k \in 1..(Len(C) + 1) /\ N + 1 \in k..(Len(C) + 1) /\ k \in 1..(N + 1)
      BY <1>1
    <3>2. First(k, C) <= First(N + 1, C)
      BY <1>1, <3>1, FirstMonotone
    <3>3. QED
      BY <1>3, <3>1, <3>2
  <2>2. CASE f <= L
    <3>1. f \in 1..Len(P)
      BY <1>3, <2>1, <2>2
    <3>2. PICK l \in 1..N : f - First(l, C) + 1 \in 1..C[l]
      BY <1>3, <3>1
    <3>3. l \in 1..(N + 1) /\ C[l] \in Nat /\ First(l, C) \in Nat \ {0}
      BY <1>1, <1>3
    <3>4. C[l] # 0
      BY <3>2, <3>3
    <3>5. l <= k /\ l # k
      BY <1>4, <1>5, <1>8, <3>4
    <3>6. l < k
      BY <1>1, <3>5
    <3>7. First(l, C) + C[l] <= f
      BY <1>1, <3>6, PartsApart
    <3> DEFINE a == First(l, C)
               n == C[l]
    <3>8. f - a + 1 \in 1..n /\ a \in Nat /\ n \in Nat /\ a + n <= f
      BY <3>2, <3>3, <3>7
    <3> HIDE DEF a, n, f
    <3>9. QED
      BY <2>1, <3>8
  <2> HIDE DEF f, L
  <2>3. QED
    BY <1>3, <2>1, <2>2 DEF f, L
<1>9. ASSUME NEW k \in 1..N PROVE E[k] = IF IsResult(F[k]) THEN 1 ELSE C[k]
  BY <1>2
<1>10. QED
  BY <1>6, <1>7, <1>8, <1>9 DEF C, E, N, P

\* A local of the server is default constructed with the values of its field.
LEMMA DefaultIs ==
    ASSUME NEW d \in Argument, d.kind \in {"optional", "shared"} => d.count = 1
    PROVE  Default(d) \in Seq(Slots) /\ Len(Default(d)) = d.count
<1>1. d.count \in Nat
  BY DEF Argument
<1>2. CASE d.kind \in {"optional", "shared"}
  <2>1. Null \in Slots
    BY DEF Slots
  <2>2. QED
    BY <1>2, <2>1 DEF Default
<1>3. CASE d.kind \notin {"optional", "shared"}
  <2>1. 0 \in Slots
    BY DEF Slots
  <2>2. Default(d) = [j \in 1..d.count |-> 0]
    BY <1>3 DEF Default
  <2>3. QED
    BY <1>1, <2>1, <2>2, Block
<1>4. QED
  BY <1>2, <1>3

\* The client's variable for the result.
LEMMA SlotIs ==
    ASSUME NEW m \in Methods
    PROVE  /\ ResultSlot(m) \in Seq(Slots) /\ Len(ResultSlot(m)) = Len(m.returns)
           /\ Len(m.returns) \in {0, 1}
           /\ Len(m.returns) = 1 => /\ ResultSlot(m) = Default(m.returns[1])
                                    /\ Len(Default(m.returns[1])) = 1
<1> DEFINE R == m.returns
           L == Len(m.returns)
           ss == [i \in 1..L |-> Default(R[i])]
           c == [i \in 1..L |-> 1]
           fl == FlattenSeq(ss)
<1>1. R \in Seq(Argument) /\ L \in {0, 1} /\ DOMAIN R = 1..L
  BY MethodFacts, DeclsAre, LenProperties
<1>2. ResultSlot(m) = fl
  BY <1>1 DEF ResultSlot
<1>3. ASSUME NEW i \in 1..L PROVE Default(R[i]) \in Seq(Slots) /\ Len(Default(R[i])) = 1
  <2>1. R[i] \in Argument /\ R[i].count = 1
    BY <1>1, ElementOfSeq, MethodFacts
  <2>2. QED
    BY <2>1, DefaultIs
<1> HIDE DEF R, L
<1>4. ss \in Seq(Seq(Slots)) /\ Len(ss) = L
  BY <1>1, <1>3
<1>5. c \in Seq(Nat) /\ Len(c) = L /\ \A i \in 1..L : c[i] = 1
  BY <1>1
<1>6. \A i \in 1..L : ss[i] = Default(R[i]) /\ Len(ss[i]) = c[i]
  BY <1>3, <1>5
<1> HIDE DEF ss, c
<1>7. Measured(ss, c, Slots)
  BY <1>4, <1>5, <1>6 DEF Measured
<1>8. /\ fl \in Seq(Slots) /\ Len(fl) = First(Len(c) + 1, c) - 1
      /\ \A k \in 1..Len(c) : \A j \in 1..c[k] : fl[First(k, c) + j - 1] = ss[k][j]
  BY <1>7, MeasuredFlatten
<1>9. First(1, c) = 1 /\ \A k \in 1..Len(c) : First(k + 1, c) = First(k, c) + c[k]
  BY <1>5, FirstDefined
<1> HIDE DEF fl
<1>10. Len(fl) = L
  <2>1. CASE L = 0
    <3>1. Len(c) + 1 = 1
      BY <1>5, <2>1
    <3>2. QED
      BY <1>8, <1>9, <2>1, <3>1
  <2>2. CASE L = 1
    <3>1. Len(c) + 1 = 2 /\ 1 \in 1..Len(c) /\ c[1] = 1 /\ 1 + 1 = 2
      BY <1>5, <2>2
    <3>2. First(2, c) = 2
      BY <1>9, <3>1
    <3>3. QED
      BY <1>8, <2>2, <3>1, <3>2
  <2>3. QED
    BY <1>1, <2>1, <2>2
<1>11. ASSUME L = 1 PROVE fl = Default(R[1]) /\ Len(Default(R[1])) = 1
  <2>1. 1 \in 1..L /\ 1 \in 1..Len(c) /\ c[1] = 1 /\ 1 \in 1..c[1] /\ First(1, c) + 1 - 1 = 1
    BY <1>5, <1>9, <1>11
  <2>2. fl[1] = ss[1][1] /\ ss[1] = Default(R[1])
    BY <1>6, <1>8, <2>1
  <2>3. Default(R[1]) \in Seq(Slots) /\ Len(Default(R[1])) = 1
    BY <1>3, <2>1
  <2>4. \A i \in 1..Len(fl) : fl[i] = Default(R[1])[i]
    BY <1>10, <1>11, <2>2
  <2>5. QED
    BY <1>8, <1>10, <1>11, <2>3, <2>4, SeqEqual
<1>12. QED
  BY <1>1, <1>2, <1>8, <1>10, <1>11 DEF R, L

\* The client's variables before the call.
LEMMA InitialIs ==
    ASSUME NEW m \in Methods, NEW F, Paired(m, F), NEW g, GivenOK(m, g)
    PROVE  LET s == Initial(m, g)
               C == Counts(F)
               E == ClientCounts(F)
           IN /\ s \in Seq(Slots) /\ Len(s) = Len(CxxParams(m)) + Len(m.returns)
              /\ \A k \in 1..Len(F) : IsArgument(F[k]) \/ IsResult(F[k]) =>
                    First(k, E) + E[k] - 1 <= Len(s)
              /\ \A k \in 1..Len(F) : IsArgument(F[k]) =>
                    First(k, C) + C[k] - 1 <= Len(CxxParams(m)) /\ Part(s, k, E) = Part(g, k, C)
              /\ \A k \in 1..Len(F) : IsResult(F[k]) => Part(s, k, E) = Default(F[k].decl)
<1> DEFINE s == Initial(m, g)
           C == Counts(F)
           E == ClientCounts(F)
           P == CxxParams(m)
           N == Len(F)
           sl == ResultSlot(m)
           R == Len(m.returns)
<1>1. g \in Seq(Slots) /\ Len(g) = Len(P) /\ Len(P) \in Nat
  BY ParamAt DEF GivenOK
<1>2. /\ sl \in Seq(Slots) /\ Len(sl) = R /\ R \in {0, 1}
      /\ R = 1 => sl = Default(m.returns[1]) /\ Len(Default(m.returns[1])) = 1
  BY SlotIs
<1>3. s = g \o sl
  BY DEF Initial
<1>4. /\ E \in Seq(Nat) /\ Len(E) = N
      /\ \A k \in 1..N : ~F[k].skip =>
            /\ First(k, E) = First(k, C)
            /\ E[k] = IF IsResult(F[k]) THEN 1 ELSE C[k]
            /\ IsResult(F[k]) => First(k, C) = Len(P) + 1
  BY ClientIs
<1>5. /\ First(N + 1, C) = Len(P) + 1
      /\ \A k \in 1..(N + 1) : First(k, C) \in Nat \ {0}
      /\ \A k \in 1..N : C[k] \in Nat /\ First(k + 1, C) = First(k, C) + C[k]
  BY ParamAt
<1>6. C \in Seq(Nat) /\ Len(C) = N /\ N \in Nat
  BY CountsType
<1>7. ASSUME NEW k \in 1..N, IsResult(F[k]) PROVE R = 1 /\ F[k].decl = m.returns[1]
  <2>1. ResultFacts(m, F, k)
    BY <1>7, RetvalIs
  <2>2. QED
    BY <2>1 DEF ResultFacts
<1>8. \A k \in 1..N : /\ IsArgument(F[k]) => ~F[k].skip /\ ~IsResult(F[k])
                      /\ IsResult(F[k]) => ~F[k].skip
  BY DEF IsArgument, IsResult
<1> HIDE DEF s, C, E, P, N, sl, R
<1>9. s \in Seq(Slots) /\ Joined(s, g, sl)
  BY <1>1, <1>2, <1>3, Concat
<1>10. /\ Len(s) = Len(P) + R
       /\ \A n \in 1..Len(P) : s[n] = g[n]
       /\ \A n \in 1..R : s[Len(P) + n] = sl[n]
  BY <1>1, <1>2, <1>9 DEF Joined
<1>11. ASSUME NEW k \in 1..N PROVE First(k, C) + C[k] - 1 <= Len(P)
  <2>1. k + 1 \in 1..(Len(C) + 1) /\ N + 1 \in (k + 1)..(Len(C) + 1)
    BY <1>6
  <2>2. First(k + 1, C) <= First(N + 1, C)
    BY <1>6, <2>1, FirstMonotone
  <2>3. k \in 1..(N + 1) /\ k + 1 \in 1..(N + 1)
    BY <1>6
  <2> DEFINE a == First(k, C)
             b == First(k + 1, C)
             n == C[k]
             L == Len(P)
  <2>4. a \in Nat /\ b \in Nat /\ n \in Nat /\ b = a + n /\ b <= L + 1 /\ L \in Nat
    BY <1>1, <1>5, <2>2, <2>3
  <2> HIDE DEF a, b, n, L
  <2>5. a + n - 1 <= L
    BY <2>4
  <2>6. QED
    BY <2>5 DEF a, n, L
<1>12. ASSUME NEW k \in 1..N, IsArgument(F[k])
       PROVE  First(k, E) + E[k] - 1 <= Len(s) /\ Part(s, k, E) = Part(g, k, C)
  <2>1. First(k, E) = First(k, C) /\ E[k] = C[k]
    BY <1>4, <1>8, <1>12
  <2>2. k \in 1..(N + 1)
    BY <1>6
  <2> DEFINE a == First(k, C)
             n == C[k]
             L == Len(P)
  <2>3. a \in Nat \ {0} /\ n \in Nat /\ a + n - 1 <= L /\ L \in Nat /\ R \in Nat
    BY <1>1, <1>2, <1>5, <1>11, <2>2
  <2>4. First(k, E) = a /\ E[k] = n /\ Len(s) = L + R /\ \A i \in 1..L : s[i] = g[i]
    BY <1>10, <2>1
  <2> HIDE DEF a, n, L
  <2>5. a + n - 1 <= L + R /\ \A j \in 1..n : a + j - 1 \in 1..L
    BY <2>3
  <2>6. \A j \in 1..n : s[a + j - 1] = g[a + j - 1]
    BY <2>4, <2>5
  <2>7. Part(s, k, E) = [j \in 1..n |-> s[a + j - 1]]
    BY <2>4 DEF Part
  <2>8. Part(g, k, C) = [j \in 1..n |-> g[a + j - 1]]
    BY DEF Part, a, n
  <2>9. Part(s, k, E) = Part(g, k, C)
    BY <2>6, <2>7, <2>8
  <2>10. QED
    BY <2>4, <2>5, <2>9
<1>13. ASSUME NEW k \in 1..N, IsResult(F[k])
       PROVE  First(k, E) + E[k] - 1 <= Len(s) /\ Part(s, k, E) = Default(F[k].decl)
  <2>1. First(k, E) = Len(P) + 1 /\ E[k] = 1 /\ R = 1 /\ F[k].decl = m.returns[1]
    BY <1>4, <1>7, <1>8, <1>13
  <2>2. sl = Default(F[k].decl) /\ Len(sl) = 1
    BY <1>2, <2>1
  <2> DEFINE L == Len(P)
  <2>3. Len(s) = L + 1 /\ s[L + 1] = sl[1] /\ First(k, E) = L + 1 /\ L \in Nat
    <3>1. 1 \in 1..R
      BY <2>1
    <3>2. QED
      BY <1>1, <1>10, <2>1, <3>1
  <2> HIDE DEF L
  <2>4. (L + 1) + 1 - 1 <= L + 1 /\ (L + 1) + 1 - 1 = L + 1
    BY <2>3
  <2>5. Part(s, k, E) = [j \in 1..1 |-> s[(L + 1) + j - 1]]
    BY <2>1, <2>3 DEF Part
  <2>6. \A j \in 1..1 : s[(L + 1) + j - 1] = sl[j]
    BY <2>3, <2>4
  <2>7. Part(s, k, E) = [j \in 1..1 |-> sl[j]]
    BY <2>5, <2>6
  <2>8. sl = [j \in 1..1 |-> sl[j]]
    BY <1>2, <2>2
  <2>9. QED
    BY <2>1, <2>2, <2>3, <2>4, <2>7, <2>8
<1>14. Len(s) = Len(P) + R
  BY <1>10
<1>15. QED
  BY <1>9, <1>11, <1>12, <1>13, <1>14 DEF s, C, E, P, N, R

\* Fields for which there is code have different names, and flags of their own.
LEMMA NamesApart ==
    ASSUME NEW m \in Methods, NEW F, Paired(m, F), NEW k \in 1..Len(F), ~F[k].skip
    PROVE  /\ Has(F[k].name) # F[k].name /\ Want(F[k].name) # F[k].name
           /\ Has(F[k].name) # Want(F[k].name)
           /\ \A l \in 1..Len(F) : l # k /\ ~F[l].skip =>
                 \A x \in {F[k].name, Has(F[k].name), Want(F[k].name)} :
                 \A y \in {F[l].name, Has(F[l].name), Want(F[l].name)} : x # y
<1> DEFINE a == F[k].name
<1>1. ASSUME NEW l \in 1..Len(F), ~F[l].skip
      PROVE  F[l].name \in Names(m) /\ Has(F[l].name) \notin Names(m) /\ Want(F[l].name) \notin Names(m)
  <2>1. PICK i \in 1..Len(Decls(m)) : F[l].name = Decls(m)[i].name
    BY <1>1 DEF Paired
  <2>2. F[l].name \in Names(m) /\ F[l].name \in AllNames(m)
    BY <2>1, DeclNames DEF AllNames
  <2>3. Names(m) \intersect FlagNames(AllNames(m)) = {}
    BY DeclNames
  <2>4. QED
    BY <2>2, <2>3 DEF FlagNames
<1>2. \A x, y \in Names(m) : /\ Has(x) = Has(y) \/ Want(x) = Want(y) => x = y
                             /\ Has(x) # Want(y)
  BY DeclNames
<1>3. a \in Names(m) /\ Has(a) \notin Names(m) /\ Want(a) \notin Names(m)
  BY <1>1
<1> HIDE DEF a
<1>4. ASSUME NEW l \in 1..Len(F), l # k, ~F[l].skip,
             NEW x \in {a, Has(a), Want(a)},
             NEW y \in {F[l].name, Has(F[l].name), Want(F[l].name)}
      PROVE  x # y
  <2> DEFINE b == F[l].name
  <2>1. b \in Names(m) /\ Has(b) \notin Names(m) /\ Want(b) \notin Names(m) /\ a # b
    BY <1>1, <1>4 DEF Paired, a
  <2>2. y \in {b, Has(b), Want(b)}
    OBVIOUS
  <2> HIDE DEF b
  <2>3. QED
    BY <1>2, <1>3, <2>1, <2>2
<1>5. QED
  BY <1>2, <1>3, <1>4 DEF a

----------------------------------------------------------------------------
(* Messages: what building and reading a field does.                       *)

\* The message g differs from msg in the fields named in S only.
Differ(m, msg, g, S) ==
    /\ IsMessage(m, g)
    /\ \A n \in DOMAIN Message(m) : n \notin S => g[n] = msg[n]

\* Building a field writes the field and its flag.
LEMMA BuildIs ==
    ASSUME NEW m \in Methods, NEW F, Paired(m, F), NEW k \in 1..Len(F), NEW msg,
           IsMessage(m, msg), Blank(msg, F[k]), NEW v, NEW g, g = BuildField(msg, F[k], v),
           Has(F[k].name) # F[k].name
    PROVE  /\ Differ(m, msg, g, {F[k].name, Has(F[k].name)})
           /\ Carried(g, F[k], v)
<1> DEFINE f == F[k]
           D == DOMAIN Message(m)
           h == Has(f.name)
           x == [j \in DOMAIN v |-> BuildPrimitive(v[j], f.decl.wire)]
<1>1. msg = [n \in D |-> msg[n]]
  BY DEF IsMessage
<1>2. f.name \in D /\ (f.optional => h \in D)
  BY DEF Paired
<1>3. ~msg[f.name].set /\ (f.optional => ~msg[h].set)
  BY DEF Blank
<1>4. CASE v = <<Null>>
  <2>1. g = msg
    BY <1>4 DEF BuildField
  <2>2. QED
    BY <1>3, <1>4, <2>1 DEF Differ, Carried
<1>5. CASE v # <<Null>>
  <2>1. DOMAIN msg = D
    BY <1>1
  <2>2. g = [n \in D |-> IF n = f.name THEN [set |-> TRUE, val |-> x]
                         ELSE IF n \in SetHas(f) THEN [set |-> TRUE, val |-> <<>>] ELSE msg[n]]
    BY <1>5, <2>1 DEF BuildField
  <2>3. SetHas(f) = IF f.decl.kind = "optional" /\ f.optional THEN {h} ELSE {}
    BY DEF SetHas
  <2>4. h # f.name
    OBVIOUS
  <2> HIDE DEF f, D, h, x
  <2>5. g[f.name] = [set |-> TRUE, val |-> x]
    BY <1>2, <2>2
  <2>6. g = [n \in D |-> g[n]]
    BY <2>2
  <2>7. \A n \in D : n \notin {f.name, h} => g[n] = msg[n]
    BY <2>2, <2>3
  <2>8. ASSUME f.optional PROVE g[h].set <=> f.decl.kind = "optional"
    <3>1. CASE f.decl.kind = "optional"
      <4>1. h \in SetHas(f)
        BY <2>3, <2>8, <3>1
      <4>2. g[h] = [set |-> TRUE, val |-> <<>>]
        BY <1>2, <2>2, <2>4, <2>8, <4>1
      <4>3. g[h].set
        BY <4>2
      <4>4. QED
        BY <3>1, <4>3
    <3>2. CASE f.decl.kind # "optional"
      <4>1. h \notin SetHas(f)
        BY <2>3, <3>2
      <4>2. g[h] = msg[h]
        BY <1>2, <2>2, <2>4, <2>8, <4>1
      <4>3. QED
        BY <1>3, <2>8, <3>2, <4>2
    <3>3. QED
      BY <3>1, <3>2
  <2>9. Differ(m, msg, g, {f.name, h})
    BY <2>6, <2>7 DEF Differ, IsMessage, D
  <2>10. Carried(g, f, v)
    BY <1>5, <2>5, <2>8 DEF Carried, x, h
  <2>11. QED
    BY <2>9, <2>10 DEF f, h
<1>6. QED
  BY <1>4, <1>5

\* The request with the want flag of a field set as MaybeSetWant does.
WantSet(msg, f, v) ==
    [n \in DOMAIN msg |-> IF n \in SetWant(f, v) THEN [set |-> TRUE, val |-> <<>>] ELSE msg[n]]
Unwanted(msg, f) == f.requested => ~msg[Want(f.name)].set
WantOK(m, msg, g, f, v) ==
    /\ Differ(m, msg, g, {Want(f.name)})
    /\ ~f.requested => g = msg
    /\ f.requested => (g[Want(f.name)].set <=> f.decl.kind = "pointer" /\ v # <<Null>>)

\* MaybeSetWant.
LEMMA WantIs ==
    ASSUME NEW m \in Methods, NEW F, Paired(m, F), NEW k \in 1..Len(F), NEW msg,
           IsMessage(m, msg), Unwanted(msg, F[k]), NEW v
    PROVE  WantOK(m, msg, WantSet(msg, F[k], v), F[k], v)
<1> DEFINE f == F[k]
           D == DOMAIN Message(m)
           w == Want(f.name)
           g == WantSet(msg, f, v)
<1>1. msg = [n \in D |-> msg[n]] /\ DOMAIN msg = D
  BY DEF IsMessage
<1>2. f.requested => w \in D
  BY DEF Paired
<1>3. SetWant(f, v) = IF f.requested /\ f.decl.kind = "pointer" /\ v # <<Null>> THEN {w} ELSE {}
  BY DEF SetWant
<1>4. g = [n \in D |-> IF n \in SetWant(f, v) THEN [set |-> TRUE, val |-> <<>>] ELSE msg[n]]
  BY <1>1 DEF WantSet
<1>5. f.requested => ~msg[w].set
  BY DEF Unwanted
<1> HIDE DEF f, D, w, g
<1>6. g = [n \in D |-> g[n]]
  BY <1>4
<1>7. \A n \in D : n \notin {w} => g[n] = msg[n]
  BY <1>3, <1>4
<1>8. ASSUME ~f.requested PROVE g = msg
  <2>1. \A n \in D : g[n] = msg[n]
    BY <1>3, <1>4, <1>8
  <2>2. QED
    BY <1>1, <1>6, <2>1
<1>9. ASSUME f.requested PROVE g[w].set <=> f.decl.kind = "pointer" /\ v # <<Null>>
  <2>1. CASE f.decl.kind = "pointer" /\ v # <<Null>>
    <3>1. g[w] = [set |-> TRUE, val |-> <<>>]
      BY <1>2, <1>3, <1>4, <1>9, <2>1
    <3>2. g[w].set
      BY <3>1
    <3>3. QED
      BY <2>1, <3>2
  <2>2. CASE ~(f.decl.kind = "pointer" /\ v # <<Null>>)
    <3>1. g[w] = msg[w]
      BY <1>2, <1>3, <1>4, <1>9, <2>2
    <3>2. QED
      BY <1>5, <1>9, <2>2, <3>1
  <2>3. QED
    BY <2>1, <2>2
<1>10. Differ(m, msg, g, {w})
  BY <1>6, <1>7 DEF Differ, IsMessage, D
<1>11. QED
  BY <1>8, <1>9, <1>10 DEF f, w, g, WantOK

\* What building one field leaves of another.
Own(f) == {f.name, Has(f.name), Want(f.name)}
Stays(msg, g, f) ==
    /\ g[f.name] = msg[f.name]
    /\ f.requested => g[Want(f.name)] = msg[Want(f.name)]
    /\ Blank(msg, f) => Blank(g, f)
    /\ \A v : Carried(msg, f, v) => Carried(g, f, v)

\* What the others carry stays.
LEMMA OthersStay ==
    ASSUME NEW m \in Methods, NEW F, Paired(m, F), NEW k \in 1..Len(F), ~F[k].skip,
           NEW msg, NEW g, Differ(m, msg, g, Own(F[k])),
           NEW l \in 1..Len(F), l # k, ~F[l].skip
    PROVE  Stays(msg, g, F[l])
<1> DEFINE D == DOMAIN Message(m)
           e == F[l]
           S == {F[k].name, Has(F[k].name), Want(F[k].name)}
<1>1. e.name \in D /\ (e.optional => Has(e.name) \in D) /\ (e.requested => Want(e.name) \in D)
  BY DEF Paired
<1>2. e.name \notin S /\ Has(e.name) \notin S /\ Want(e.name) \notin S
  BY NamesApart
<1>3. \A n \in D : n \notin S => g[n] = msg[n]
  BY DEF Differ, Own
<1> HIDE DEF D, e, S
<1>4. /\ g[e.name] = msg[e.name]
      /\ e.optional => g[Has(e.name)] = msg[Has(e.name)]
      /\ e.requested => g[Want(e.name)] = msg[Want(e.name)]
  BY <1>1, <1>2, <1>3
<1>5. Blank(msg, e) => Blank(g, e)
  BY <1>4 DEF Blank
<1>6. \A v : Carried(msg, e, v) => Carried(g, e, v)
  BY <1>4 DEF Carried
<1>7. QED
  BY <1>4, <1>5, <1>6 DEF e, Stays

----------------------------------------------------------------------------
(* The values that are read.                                               *)

\* A conversion gives a value of its type.
LEMMA ConvertType == ASSUME NEW t \in IntType, NEW v \in Int PROVE Convert(v, t) \in Values(t)
<1> DEFINE h == Half[t.width]
           q == (v - Lowest(t)) % (2 * h)
<1>1. h \in Nat \ {0} /\ Lowest(t) \in Int /\ Highest(t) = Lowest(t) + 2 * h - 1
  BY HalfPositive DEF Lowest, Highest
<1>2. q \in Int /\ 0 <= q /\ q < 2 * h
  <2> HIDE DEF h
  <2>1. 2 * h \in Nat \ {0} /\ v - Lowest(t) \in Int
    BY <1>1
  <2>2. QED
    BY <1>1, <2>1
<1>3. Convert(v, t) = Lowest(t) + q
  BY DEF Convert
<1> HIDE DEF q, h
<1>4. QED
  BY <1>1, <1>2, <1>3 DEF Values

\* v may be the value of a variable of the type t for the argument d.
Held(d, v, t) ==
    /\ v \in Seq(Slots) /\ Len(v) = d.count
    /\ \A j \in 1..d.count : v[j] \in Values(t) \/ (v = <<Null>> /\ d.kind # "value")

\* An argument there is code for.
Passable(d) == /\ d \in Argument /\ d.kind \in {"value", "optional", "shared", "pointer"}
               /\ d.kind # "value" => d.count = 1

\* What a variable of a type can hold.
LEMMA HeldIs ==
    ASSUME NEW d, Passable(d), NEW t \in IntType, NEW v, Held(d, v, t)
    PROVE  /\ d.kind = "value" => v # <<Null>>
           /\ v # <<Null>> => \A j \in 1..d.count : v[j] \in Values(t) /\ v[j] \in Int
           /\ DOMAIN v = 1..d.count /\ v = [j \in 1..d.count |-> v[j]]
<1>1. DOMAIN v = 1..d.count /\ v = [j \in 1..d.count |-> v[j]] /\ d.count \in Nat
  BY LenProperties DEF Held, Passable, Argument
<1>2. Values(t) \subseteq Int
  BY Limits
<1>3. \A j \in 1..d.count : v[j] \in Values(t) \/ (v = <<Null>> /\ d.kind # "value")
  BY DEF Held
<1>4. ASSUME v = <<Null>>, d.kind = "value" PROVE FALSE
  <2>1. Len(v) = 1 /\ v[1] = Null
    BY <1>4
  <2>2. 1 \in 1..d.count
    BY <2>1 DEF Held
  <2>3. Null \in Int
    BY <1>2, <1>3, <1>4, <2>1, <2>2
  <2>4. QED
    BY <2>3, SampleAssumption
<1>5. QED
  BY <1>1, <1>2, <1>3, <1>4

\* Zero is a value of every integer type.
LEMMA ZeroIs == ASSUME NEW t \in IntType PROVE 0 \in Values(t) /\ 0 \in Int
BY HalfPositive DEF Values, Lowest, Highest, IntType

\* Every type but a plain value can hold nothing.
LEMMA NullIs == ASSUME NEW d, Passable(d), d.kind # "value", NEW t PROVE Held(d, <<Null>>, t)
<1>1. Null \in Slots /\ d.count = 1
  BY DEF Slots, Passable
<1>2. <<Null>> \in Seq(Slots) /\ Len(<<Null>>) = 1
  BY <1>1
<1>3. QED
  BY <1>1, <1>2 DEF Held

\* A default constructed value is one of its type.
LEMMA DefaultHeld ==
    ASSUME NEW d, Passable(d), NEW t \in IntType
    PROVE  Held(d, Default(d), t)
<1>1. CASE d.kind \in {"optional", "shared"}
  <2>1. Default(d) = <<Null>> /\ d.kind # "value"
    BY <1>1 DEF Default
  <2>2. QED
    BY <2>1, NullIs
<1>2. CASE d.kind \notin {"optional", "shared"}
  <2>1. Default(d) = [j \in 1..d.count |-> 0]
    BY <1>2 DEF Default
  <2>2. d.count \in Nat /\ 0 \in Values(t) /\ 0 \in Slots
    BY ZeroIs DEF Passable, Argument, Slots
  <2>3. [j \in 1..d.count |-> 0] \in Seq(Slots) /\ Len([j \in 1..d.count |-> 0]) = d.count
    BY <2>2, Block
  <2>4. \A j \in 1..d.count : Default(d)[j] \in Values(t)
    BY <2>1, <2>2
  <2>5. QED
    BY <2>1, <2>3, <2>4 DEF Held
<1>3. QED
  BY <1>1, <1>2

\* A new variable has a value of its type.
LEMMA FreshHeld ==
    ASSUME NEW d, Passable(d), NEW v \in Fresh(d)
    PROVE  Held(d, v, d.server) /\ (d.kind = "pointer" => v # <<Null>>)
           /\ (d.kind # "pointer" => v = Default(d))
<1>1. d.server \in IntType /\ d.count \in Nat
  BY DEF Passable, Argument
<1>2. CASE d.kind = "pointer"
  <2>1. PICK x \in Sample(d.server) : v = <<x>>
    BY <1>2 DEF Fresh
  <2>2. x \in Values(d.server) /\ x \in Int /\ x # Null
    BY <1>1, <2>1, SampleAssumption, Limits
  <2>3. v \in Seq(Slots) /\ Len(v) = 1 /\ v[1] = x
    BY <2>1, <2>2 DEF Slots
  <2>4. d.count = 1
    BY <1>2 DEF Passable
  <2>5. v # <<Null>>
    <3>1. <<Null>>[1] = Null
      OBVIOUS
    <3>2. QED
      BY <2>2, <2>3, <3>1
  <2>6. QED
    BY <1>2, <2>2, <2>3, <2>4, <2>5 DEF Held
<1>3. CASE d.kind # "pointer"
  <2>1. v = Default(d)
    BY <1>3 DEF Fresh
  <2>2. QED
    BY <1>1, <1>3, <2>1, DefaultHeld
<1>4. QED
  BY <1>2, <1>3

\* What is read does not depend on what a new variable holds.
LEMMA FreshReads ==
    ASSUME NEW d, Passable(d), NEW f, f.decl = d, NEW msg, NEW v \in Fresh(d), NEW t
    PROVE  /\ ReadThrows(msg, f, v, t) <=> ReadThrows(msg, f, Default(d), t)
           /\ ReadField(msg, f, v, t) = ReadField(msg, f, Default(d), t)
<1>1. CASE d.kind = "pointer"
  <2>1. v # <<Null>>
    BY <1>1, FreshHeld
  <2>2. Default(d) # <<Null>>
    <3>1. d.count = 1 /\ Default(d) = [j \in 1..d.count |-> 0]
      BY <1>1 DEF Passable, Default
    <3>2. Default(d)[1] = 0
      BY <3>1
    <3>3. <<Null>>[1] = Null /\ Null # 0
      BY SampleAssumption
    <3>4. QED
      BY <3>2, <3>3
  <2>3. ReadsValue(msg, f, v) /\ ReadsValue(msg, f, Default(d))
    BY <1>1, <2>1, <2>2 DEF ReadsValue
  <2>4. QED
    BY <2>3 DEF ReadThrows, ReadField
<1>2. CASE d.kind # "pointer"
  <2>1. v = Default(d)
    BY <1>2, FreshHeld
  <2>2. QED
    BY <2>1
<1>3. QED
  BY <1>1, <1>2

\* What is in the message.
LEMMA WireIs ==
    ASSUME NEW d, Passable(d), NEW t \in IntType, NEW f, f.decl = d, NEW msg, NEW w,
           Carried(msg, f, w), Held(d, w, t)
    PROVE  /\ DOMAIN Wire(msg, f) = 1..d.count
           /\ \A j \in 1..d.count : Wire(msg, f)[j] \in Int
           /\ w # <<Null>> => \A j \in 1..d.count : Wire(msg, f)[j] = BuildPrimitive(w[j], d.wire)
<1>1. CASE w = <<Null>>
  <2>1. ~msg[f.name].set
    BY <1>1 DEF Carried
  <2>2. Wire(msg, f) = [j \in 1..d.count |-> 0]
    BY <2>1 DEF Wire
  <2>3. QED
    BY <1>1, <2>2
<1>2. CASE w # <<Null>>
  <2>1. msg[f.name] = [set |-> TRUE, val |-> [j \in DOMAIN w |-> BuildPrimitive(w[j], d.wire)]]
    BY <1>2 DEF Carried
  <2>2. Wire(msg, f) = [j \in DOMAIN w |-> BuildPrimitive(w[j], d.wire)]
    BY <2>1 DEF Wire
  <2>3. DOMAIN w = 1..d.count /\ \A j \in 1..d.count : w[j] \in Int
    BY <1>2, HeldIs
  <2>4. d.wire \in IntType
    BY DEF Passable, Argument
  <2>5. \A j \in 1..d.count : BuildPrimitive(w[j], d.wire) \in Int
    BY <2>3, <2>4, ConvertType, Limits DEF BuildPrimitive
  <2>6. QED
    BY <2>2, <2>3, <2>5
<1>3. QED
  BY <1>1, <1>2

\* Reading a field that carries a value of its type leaves the variable with one of
\* its own.
LEMMA ReadHeld ==
    ASSUME NEW d, Passable(d), NEW t \in IntType, NEW f, f.decl = d, NEW msg, NEW w,
           Carried(msg, f, w), Held(d, w, t), NEW u \in IntType, NEW v, Held(d, v, u)
    PROVE  Held(d, ReadField(msg, f, v, u), u)
<1> DEFINE r == ReadField(msg, f, v, u)
           W == Wire(msg, f)
<1>1. DOMAIN W = 1..d.count /\ \A j \in 1..d.count : W[j] \in Int
  BY WireIs
<1>2. CASE ReadsValue(msg, f, v)
  <2>1. r = [j \in 1..d.count |-> ReadPrimitive(W[j], u)]
    BY <1>1, <1>2 DEF ReadField
  <2> HIDE DEF W, r
  <2>2. \A j \in 1..d.count : ReadPrimitive(W[j], u) \in Values(u)
    BY <1>1, ConvertType DEF ReadPrimitive
  <2>3. \A j \in 1..d.count : r[j] \in Values(u) /\ r[j] \in Slots
    BY <2>1, <2>2, Limits DEF Slots
  <2>4. d.count \in Nat
    BY DEF Passable, Argument
  <2>5. r = [j \in 1..d.count |-> r[j]]
    BY <2>1
  <2>6. [j \in 1..d.count |-> r[j]] \in Seq(Slots) /\ Len([j \in 1..d.count |-> r[j]]) = d.count
    BY <2>3, <2>4
  <2>7. r \in Seq(Slots) /\ Len(r) = d.count
    BY Zenon, <2>5, <2>6
  <2>8. Held(d, r, u)
    BY <2>3, <2>7 DEF Held
  <2>9. QED
    BY <2>8 DEF r
<1>3. CASE ~ReadsValue(msg, f, v) /\ d.kind = "pointer"
  BY <1>3 DEF ReadField
<1>4. CASE ~ReadsValue(msg, f, v) /\ d.kind # "pointer"
  <2>1. r = <<Null>> /\ d.kind # "value"
    BY <1>4 DEF ReadField, ReadsValue
  <2>2. QED
    BY <2>1, NullIs
<1>5. QED
  BY <1>2, <1>3, <1>4

----------------------------------------------------------------------------
(* Types of the values that are passed.                                    *)

\* What the code for an argument works with.
LEMMA ArgumentPassable ==
    ASSUME NEW m \in Methods, NEW F, Paired(m, F), NEW k \in 1..Len(F), IsArgument(F[k])
    PROVE  /\ Passable(F[k].decl) /\ F[k].decl.client \in IntType /\ F[k].decl.server \in IntType
           /\ F[k].decl.wire \in IntType
           /\ Counts(F)[k] = F[k].decl.count /\ ~F[k].skip /\ ~IsResult(F[k]) /\ ~IsException(F[k])
<1>1. F[k].decl \in Argument /\ Counts(F)[k] = F[k].decl.count
  BY ArgumentIs
<1>2. /\ F[k].decl.kind \in {"value", "optional", "shared", "pointer"}
      /\ F[k].decl.kind # "value" => F[k].decl.count = 1
  BY ArgumentIs
<1>3. F[k].decl.client \in IntType /\ F[k].decl.server \in IntType /\ F[k].decl.wire \in IntType
  BY <1>1 DEF Argument
<1>4. ~F[k].skip /\ ~IsResult(F[k]) /\ ~IsException(F[k])
  BY DEF IsArgument, IsResult, IsException
<1>5. QED
  BY <1>1, <1>2, <1>3, <1>4 DEF Passable

\* What the code for a result works with.
LEMMA ResultPassable ==
    ASSUME NEW m \in Methods, NEW F, Paired(m, F), NEW k \in 1..Len(F), IsResult(F[k])
    PROVE  /\ Passable(F[k].decl) /\ F[k].decl.client \in IntType /\ F[k].decl.server \in IntType
           /\ F[k].decl.wire \in IntType
           /\ F[k].decl.count = 1 /\ F[k].decl.kind # "pointer"
           /\ Len(m.returns) = 1 /\ F[k].decl = m.returns[1]
           /\ ~F[k].skip /\ ~IsArgument(F[k]) /\ ~IsException(F[k]) /\ Out(F[k]) /\ ~In(F[k])
<1>1. ResultFacts(m, F, k)
  BY RetvalIs
<1>2. F[k].decl \in Argument /\ F[k].decl.kind \in {"value", "optional", "shared"} /\ F[k].decl.count = 1
  BY <1>1 DEF ResultFacts
<1>3. F[k].decl.client \in IntType /\ F[k].decl.server \in IntType /\ F[k].decl.wire \in IntType
  BY <1>2 DEF Argument
<1>4. ~F[k].skip /\ ~IsArgument(F[k])
  BY DEF IsArgument, IsResult
<1>5. ~IsException(F[k]) /\ Out(F[k]) /\ ~In(F[k]) /\ Len(m.returns) = 1 /\ F[k].decl = m.returns[1]
  BY <1>1 DEF ResultFacts, IsException
<1>6. QED
  BY <1>2, <1>3, <1>4, <1>5 DEF Passable

\* Every value a program may pass is one of its type.
LEMMA LocalHeld ==
    ASSUME NEW d, Passable(d), NEW t \in IntType, NEW v \in Seq(Slots), Len(v) = d.count,
           \A j \in 1..d.count : v[j] \in LocalValues(d, t)
    PROVE  Held(d, v, t)
<1>1. Sample(t) \subseteq Values(t)
  BY SampleAssumption
<1>2. ASSUME NEW j \in 1..d.count, v[j] \notin Values(t) PROVE v = <<Null>> /\ d.kind # "value"
  <2>1. d.kind # "value" /\ v[j] = Null
    BY <1>1, <1>2 DEF LocalValues
  <2>2. d.count = 1
    BY <2>1 DEF Passable
  <2>3. Len(v) = 1 /\ v[1] = Null
    BY <2>1, <2>2
  <2>4. v = <<Null>>
    BY <2>3
  <2>5. QED
    BY <2>1, <2>4
<1>3. QED
  BY <1>2 DEF Held

\* The values of an argument.
LEMMA PartHeld ==
    ASSUME NEW m \in Methods, NEW F, Paired(m, F), NEW k \in 1..Len(F), IsArgument(F[k]),
           NEW g \in Seq(Slots), Len(g) = Len(CxxParams(m))
    PROVE  /\ Part(g, k, Counts(F)) \in Seq(Slots)
           /\ Len(Part(g, k, Counts(F))) = F[k].decl.count
           /\ Split(g, k, Counts(F)) = Part(g, k, Counts(F))
           /\ \A j \in 1..F[k].decl.count :
                 /\ Part(g, k, Counts(F))[j] = g[First(k, Counts(F)) + j - 1]
                 /\ First(k, Counts(F)) + j - 1 \in 1..Len(CxxParams(m))
                 /\ CxxParams(m)[First(k, Counts(F)) + j - 1] = F[k].decl
<1> DEFINE C == Counts(F)
           P == CxxParams(m)
<1>1. C \in Seq(Nat) /\ Len(C) = Len(F)
  BY CountsType
<1>2. C[k] = F[k].decl.count
  BY ArgumentPassable
<1>3. \A j \in 1..C[k] : First(k, C) + j - 1 \in 1..Len(P) /\ P[First(k, C) + j - 1] = F[k].decl
  BY ParamAt
<1>4. First(k, C) + C[k] - 1 <= Len(P)
  <2>1. /\ First(Len(F) + 1, C) = Len(P) + 1 /\ Len(P) \in Nat
        /\ C[k] \in Nat /\ First(k + 1, C) = First(k, C) + C[k]
    BY ParamAt
  <2>2. First(k, C) \in Nat \ {0} /\ First(k + 1, C) <= First(Len(F) + 1, C)
    <3>1. Len(F) \in Nat
      BY CountsType
    <3>2. k \in 1..(Len(F) + 1) /\ k + 1 \in 1..(Len(C) + 1) /\ Len(F) + 1 \in (k + 1)..(Len(C) + 1)
      BY <1>1, <3>1
    <3>3. First(k, C) \in Nat \ {0}
      BY <3>2, ParamAt
    <3>4. QED
      BY <1>1, <3>2, <3>3, FirstMonotone
  <2> DEFINE a == First(k, C)
             b == First(k + 1, C)
             n == C[k]
             L == Len(P)
  <2>3. a \in Nat /\ n \in Nat /\ L \in Nat /\ b = a + n /\ b <= L + 1
    BY <2>1, <2>2
  <2> HIDE DEF a, b, n, L
  <2>4. a + n - 1 <= L
    BY <2>3
  <2>5. QED
    BY <2>4 DEF a, n, L
<1>5. k \in 1..Len(C) /\ First(k, C) + C[k] - 1 <= Len(g)
  BY <1>1, <1>4
<1>6. Part(g, k, C) \in Seq(Slots) /\ Len(Part(g, k, C)) = C[k] /\ Split(g, k, C) = Part(g, k, C)
  BY <1>1, <1>5, PartIs
<1>7. \A j \in 1..C[k] : Part(g, k, C)[j] = g[First(k, C) + j - 1]
  BY DEF Part
<1>8. QED
  BY <1>2, <1>3, <1>6, <1>7

\* The values a call is given are those of the types of its parameters.
LEMMA GivenHeld ==
    ASSUME NEW m \in Methods, NEW F, Paired(m, F), NEW g, GivenOK(m, g),
           NEW k \in 1..Len(F), IsArgument(F[k])
    PROVE  Held(F[k].decl, Part(g, k, Counts(F)), F[k].decl.client)
<1> DEFINE d == F[k].decl
           v == Part(g, k, Counts(F))
           n(j) == First(k, Counts(F)) + j - 1
<1>1. /\ g \in Seq(Slots) /\ Len(g) = Len(CxxParams(m))
      /\ \A i \in 1..Len(g) : g[i] \in LocalValues(CxxParams(m)[i], CxxParams(m)[i].client)
  BY DEF GivenOK
<1>2. v \in Seq(Slots) /\ Len(v) = d.count
  BY <1>1, PartHeld
<1>3. \A j \in 1..d.count : v[j] = g[n(j)] /\ n(j) \in 1..Len(CxxParams(m)) /\ CxxParams(m)[n(j)] = d
  BY <1>1, PartHeld
<1>4. Passable(d) /\ d.client \in IntType
  BY ArgumentPassable
<1> HIDE DEF d, v, n
<1>5. \A j \in 1..d.count : v[j] \in LocalValues(d, d.client)
  BY <1>1, <1>3
<1>6. Held(d, v, d.client)
  BY <1>2, <1>4, <1>5, LocalHeld
<1>7. QED
  BY <1>6 DEF d, v

\* The client's variables for arguments and the result, before the call.
LEMMA InitialHeld ==
    ASSUME NEW m \in Methods, NEW F, Paired(m, F), NEW g, GivenOK(m, g),
           NEW k \in 1..Len(F), IsArgument(F[k]) \/ IsResult(F[k])
    PROVE  Held(F[k].decl, Part(Initial(m, g), k, ClientCounts(F)), F[k].decl.client)
<1>1. CASE IsArgument(F[k])
  <2>1. Part(Initial(m, g), k, ClientCounts(F)) = Part(g, k, Counts(F))
    BY <1>1, InitialIs
  <2>2. QED
    BY <1>1, <2>1, GivenHeld
<1>2. CASE IsResult(F[k])
  <2>1. Part(Initial(m, g), k, ClientCounts(F)) = Default(F[k].decl)
    BY <1>2, InitialIs
  <2>2. Passable(F[k].decl) /\ F[k].decl.client \in IntType
    BY <1>2, ResultPassable
  <2>3. QED
    BY <2>1, <2>2, DefaultHeld
<1>3. QED
  BY <1>1, <1>2

\* What the server passes for an argument.
LEMMA GotHeld ==
    ASSUME NEW m \in Methods, NEW F, Paired(m, F), NEW g, GivenOK(m, g), NEW msg,
           NEW k \in 1..Len(F), IsArgument(F[k]),
           In(F[k]) => Carried(msg, F[k], Part(g, k, Counts(F))), NEW u \in Gets(msg, F[k])
    PROVE  Held(F[k].decl, u, F[k].decl.server)
<1> DEFINE f == F[k]
           d == F[k].decl
           v == Part(g, k, Counts(F))
<1>1. Passable(d) /\ d.client \in IntType /\ d.server \in IntType
  BY ArgumentPassable
<1>2. Held(d, v, d.client)
  BY GivenHeld
<1>3. In(f) => Carried(msg, f, v)
  OBVIOUS
<1>4. f.decl = d /\ u \in Gets(msg, f)
  OBVIOUS
<1> HIDE DEF f, d, v
<1>5. Held(d, Default(d), d.server)
  BY <1>1, DefaultHeld
<1>6. CASE NullSent(msg, f)
  <2>1. d.kind # "value" /\ u = <<Null>>
    BY <1>4, <1>6 DEF NullSent, Gets
  <2>2. QED
    BY <1>1, <2>1, NullIs DEF d, f
<1>7. CASE ~NullSent(msg, f) /\ In(f)
  <2>1. u = ReadField(msg, f, Default(d), d.server)
    BY <1>4, <1>7 DEF Gets
  <2>2. Held(d, ReadField(msg, f, Default(d), d.server), d.server)
    BY <1>1, <1>2, <1>3, <1>4, <1>5, <1>7, ReadHeld
  <2>3. QED
    BY <2>1, <2>2 DEF d, f
<1>8. CASE ~NullSent(msg, f) /\ ~In(f)
  <2>1. u \in Fresh(d)
    BY <1>4, <1>8 DEF Gets
  <2>2. QED
    BY <1>1, <2>1, FreshHeld DEF d, f
<1>9. QED
  BY <1>6, <1>7, <1>8

\* What the method leaves.
LEMMA AfterHeld ==
    ASSUME NEW m \in Methods, NEW F, Paired(m, F), NEW g, GivenOK(m, g), NEW msg, NEW s, NEW e,
           MethodOK(m, F, msg, s, e),
           NEW k \in 1..Len(F), IsArgument(F[k]),
           In(F[k]) => Carried(msg, F[k], Part(g, k, Counts(F)))
    PROVE  /\ Held(F[k].decl, Part(e.after, k, Counts(F)), F[k].decl.server)
           /\ Part(s, k, Counts(F)) \in Gets(msg, F[k])
           /\ \A j \in 1..F[k].decl.count :
                 Part(e.after, k, Counts(F))[j] \in Writes(F[k].decl, Part(s, k, Counts(F))[j])
<1> DEFINE d == F[k].decl
           C == Counts(F)
           P == CxxParams(m)
           v == Part(s, k, C)
           w == Part(e.after, k, C)
           n(j) == First(k, C) + j - 1
<1>1. /\ s \in Seq(Slots) /\ Len(s) = First(Len(F) + 1, C) - 1
      /\ \A i \in 1..((Len(F) + 1) - 1) : IsArgument(F[i]) => Part(s, i, C) \in Gets(msg, F[i])
      /\ e.after \in Seq(Slots) /\ Len(e.after) = Len(P)
      /\ \A i \in 1..Len(P) : e.after[i] \in Writes(P[i], s[i])
  BY DEF MethodOK, PassedOK
<1>2. Len(s) = Len(P)
  <2>1. First(Len(F) + 1, C) = Len(P) + 1 /\ Len(P) \in Nat
    BY ParamAt
  <2>2. QED
    BY <1>1, <2>1
<1>3. v \in Gets(msg, F[k])
  <2>1. Len(F) \in Nat
    BY CountsType
  <2>2. k \in 1..((Len(F) + 1) - 1)
    BY <2>1
  <2>3. QED
    BY <1>1, <2>2
<1>4. /\ w \in Seq(Slots) /\ Len(w) = d.count
      /\ \A j \in 1..d.count : w[j] = e.after[n(j)] /\ n(j) \in 1..Len(P) /\ P[n(j)] = d
  BY <1>1, PartHeld
<1>5. \A j \in 1..d.count : v[j] = s[n(j)]
  BY <1>1, <1>2, PartHeld
<1>6. Held(d, v, d.server)
  BY <1>3, GotHeld
<1>7. Passable(d) /\ d.server \in IntType
  BY ArgumentPassable
<1>8. Sample(d.server) \subseteq Values(d.server)
  BY <1>7, SampleAssumption
<1> HIDE DEF d, C, P, v, w, n
<1>9. \A j \in 1..d.count : w[j] \in Writes(d, v[j])
  BY <1>1, <1>4, <1>5
<1>10. ASSUME NEW j \in 1..d.count, w[j] \notin Values(d.server)
       PROVE  w = <<Null>> /\ d.kind # "value"
  <2>1. w[j] = v[j] \/ (w[j] = Null /\ d.kind # "value")
    BY <1>8, <1>9, <1>10 DEF Writes, LocalValues
  <2>2. w[j] = Null /\ d.kind # "value"
    <3>1. CASE w[j] = v[j]
      <4>1. v = <<Null>> /\ d.kind # "value"
        BY <1>6, <1>10, <3>1 DEF Held
      <4>2. d.count = 1
        BY <1>7, <4>1 DEF Passable
      <4>3. j = 1 /\ v[1] = Null
        BY <4>1, <4>2
      <4>4. QED
        BY <3>1, <4>1, <4>3
    <3>2. QED
      BY <2>1, <3>1
  <2>3. d.count = 1
    BY <1>7, <2>2 DEF Passable
  <2>4. Len(w) = 1 /\ w[1] = Null
    BY <1>4, <2>2, <2>3
  <2>5. w = <<Null>>
    BY <1>4, <2>4
  <2>6. QED
    BY <2>2, <2>5
<1>11. Held(d, w, d.server)
  BY <1>4, <1>10 DEF Held
<1>12. QED
  BY <1>3, <1>9, <1>11 DEF d, w, C, v

\* What it returns.
LEMMA ReturnHeld ==
    ASSUME NEW m \in Methods, NEW F, Paired(m, F), NEW k \in 1..Len(F), IsResult(F[k]),
           NEW r \in Results(m)
    PROVE  Held(F[k].decl, r, F[k].decl.server)
<1> DEFINE d == F[k].decl
<1>1. /\ Passable(d) /\ d.server \in IntType /\ d.count = 1
      /\ Len(m.returns) = 1 /\ d = m.returns[1]
  BY ResultPassable
<1>2. m.returns # <<>>
  BY <1>1
<1>3. PICK v \in LocalValues(d, d.server) : r = <<v>>
  BY <1>1, <1>2 DEF Results
<1>4. v \in Slots
  <2>1. Sample(d.server) \subseteq Values(d.server) /\ Values(d.server) \subseteq Int
    BY <1>1, SampleAssumption, Limits
  <2>2. QED
    BY <1>3, <2>1 DEF LocalValues, Slots
<1> HIDE DEF d
<1>5. r \in Seq(Slots) /\ Len(r) = d.count /\ \A j \in 1..d.count : r[j] \in LocalValues(d, d.server)
  BY <1>1, <1>3, <1>4
<1>6. QED
  BY <1>1, <1>5, LocalHeld DEF d

----------------------------------------------------------------------------
(* The request and the arguments, one field at a time.                     *)

\* The three kinds of fields for which there is code.
LEMMA FieldCases ==
    ASSUME NEW m \in Methods, NEW F, Paired(m, F), NEW k \in 1..Len(F)
    PROVE  /\ F[k].skip \/ IsArgument(F[k]) \/ IsResult(F[k]) \/ IsException(F[k])
           /\ ~IsArgument(F[k]) => Counts(F)[k] = 0
           /\ ~IsArgument(F[k]) /\ ~F[k].skip => ~In(F[k]) /\ ~F[k].requested
           /\ ~IsResult(F[k]) /\ ~F[k].skip => ~F[k].retval
<1>1. F[k].skip \/ IsArgument(F[k]) \/ IsResult(F[k]) \/ IsException(F[k])
  BY DEF IsArgument, IsResult, IsException
<1>2. CASE F[k].skip
  <2>1. Counts(F)[k] = 0
    BY <1>2, CountsType
  <2>2. QED
    BY <1>1, <1>2, <2>1
<1>3. CASE IsArgument(F[k])
  BY <1>3 DEF IsArgument
<1>4. CASE IsResult(F[k])
  <2>1. ResultFacts(m, F, k)
    BY <1>4, RetvalIs
  <2>2. Counts(F)[k] = 0 /\ ~In(F[k]) /\ ~F[k].requested
    BY <2>1 DEF ResultFacts
  <2>3. QED
    BY <1>4, <2>2
<1>5. CASE IsException(F[k])
  <2>1. ExceptionFacts(m, F, k)
    BY <1>5, ExceptionFieldIs
  <2>2. Counts(F)[k] = 0 /\ ~In(F[k]) /\ ~F[k].requested /\ ~F[k].retval
    BY <2>1 DEF ExceptionFacts
  <2>3. QED
    BY <1>5, <2>1, <2>2
<1>6. QED
  BY <1>1, <1>2, <1>3, <1>4, <1>5

\* Messages start empty.
LEMMA EmptyMessage ==
    ASSUME NEW m \in Methods, NEW F, Paired(m, F)
    PROVE  /\ IsMessage(m, Message(m))
           /\ \A k \in 1..Len(F) : /\ Blank(Message(m), F[k])
                                   /\ F[k].requested => ~Message(m)[Want(F[k].name)].set
<1> DEFINE M == Message(m)
<1>1. M = [n \in DOMAIN M |-> [set |-> FALSE, val |-> <<>>]]
  BY DEF Message
<1>2. \A k \in 1..Len(F) : /\ F[k].name \in DOMAIN M
                           /\ F[k].optional => Has(F[k].name) \in DOMAIN M
                           /\ F[k].requested => Want(F[k].name) \in DOMAIN M
  BY DEF Paired
<1> HIDE DEF M
<1>3. \A n \in DOMAIN M : ~M[n].set
  BY <1>1
<1>4. M = [n \in DOMAIN M |-> M[n]]
  BY <1>1
<1>5. QED
  BY <1>2, <1>3, <1>4 DEF M, IsMessage, Blank

\* Before the first field is built the request is empty.
LEMMA ParamsStart ==
    ASSUME NEW m \in Methods, NEW F, Paired(m, F), NEW g
    PROVE  ParamsOK(m, F, g, Message(m), 1)
<1>1. \A k \in 1..Len(F) : ~(k < 1)
  BY CountsType
<1>2. QED
  BY <1>1, EmptyMessage DEF ParamsOK

\* What is to hold of an argument while the request is built.
ParamOK(F, g, msg, k, built) ==
    /\ built => /\ In(F[k]) => Carried(msg, F[k], Part(g, k, Counts(F)))
                /\ F[k].requested =>
                      (msg[Want(F[k].name)].set <=>
                          F[k].decl.kind = "pointer" /\ Part(g, k, Counts(F)) # <<Null>>)
    /\ ~built => Blank(msg, F[k]) /\ (F[k].requested => ~msg[Want(F[k].name)].set)

\* What holds of the request, field by field.
LEMMA ParamsAre ==
    ASSUME NEW m \in Methods, NEW F, Paired(m, F), NEW g, NEW msg, NEW n \in Nat
    PROVE  ParamsOK(m, F, g, msg, n) <=>
               /\ IsMessage(m, msg)
               /\ \A k \in 1..Len(F) : IsArgument(F[k]) => ParamOK(F, g, msg, k, k < n)
<1>1. \A k \in 1..Len(F) : k >= n <=> ~(k < n)
  BY CountsType
<1>2. QED
  BY <1>1 DEF ParamsOK, ParamOK

\* Building the n-th field of the request (WantSet, then BuildField).
LEMMA ParamsStep ==
    ASSUME NEW m \in Methods, NEW F, Paired(m, F), NEW g, GivenOK(m, g), NEW msg,
           NEW n \in 1..Len(F), ParamsOK(m, F, g, msg, n),
           NEW v, v = Split(Initial(m, g), n, ClientCounts(F)), NEW w, w = WantSet(msg, F[n], v),
           NEW new, new = IF F[n].skip THEN msg ELSE IF In(F[n]) THEN BuildField(w, F[n], v) ELSE w
    PROVE  ParamsOK(m, F, g, new, n + 1)
<1> DEFINE f == F[n]
           old(k) == ParamOK(F, g, msg, k, k < n)
<1>1. IsMessage(m, msg) /\ \A k \in 1..Len(F) : IsArgument(F[k]) => ParamOK(F, g, msg, k, k < n)
  <2>1. n \in Nat
    BY CountsType
  <2>2. QED
    BY <2>1, ParamsAre
<1>2. SUFFICES IsMessage(m, new) /\ \A k \in 1..Len(F) : IsArgument(F[k]) => ParamOK(F, g, new, k, k < n + 1)
  <2>1. n + 1 \in Nat
    BY CountsType
  <2>2. QED
    BY <2>1, ParamsAre
<1>3. \A k \in 1..Len(F) : k # n => (k < n + 1 <=> k < n)
  BY CountsType
<1>4. CASE ~IsArgument(F[n])
  <2>1. new = msg
    <3>1. CASE f.skip
      BY <3>1
    <3>2. CASE ~f.skip
      <4>1. ~In(f) /\ ~f.requested
        BY <1>4, <3>2, FieldCases
      <4>2. new = w
        BY <3>2, <4>1
      <4>3. w = msg
        <5>1. Unwanted(msg, f)
          BY <4>1 DEF Unwanted
        <5>2. WantOK(m, msg, w, f, v)
          BY <1>1, <5>1, WantIs
        <5>3. QED
          BY <4>1, <5>2 DEF WantOK
      <4>4. QED
        BY <4>2, <4>3
    <3>3. QED
      BY <3>1, <3>2
  <2>2. ASSUME NEW k \in 1..Len(F), IsArgument(F[k]) PROVE ParamOK(F, g, new, k, k < n + 1)
    <3>1. k # n
      BY <1>4, <2>2
    <3>2. (k < n + 1) = (k < n)
      BY <1>3, <3>1
    <3>3. QED
      BY Zenon, <1>1, <2>1, <2>2, <3>2
  <2>3. QED
    BY <1>1, <2>1, <2>2
<1>5. CASE IsArgument(F[n])
  <2> DEFINE S == {f.name, Has(f.name), Want(f.name)}
             u == Part(g, n, Counts(F))
  <2>0. S = Own(f)
    BY DEF Own
  <2>1. v = u
    <3>1. /\ Initial(m, g) \in Seq(Slots)
          /\ First(n, ClientCounts(F)) + ClientCounts(F)[n] - 1 <= Len(Initial(m, g))
          /\ Part(Initial(m, g), n, ClientCounts(F)) = u
      BY <1>5, InitialIs
    <3>2. ClientCounts(F) \in Seq(Nat) /\ Len(ClientCounts(F)) = Len(F)
      BY ClientIs
    <3>3. Split(Initial(m, g), n, ClientCounts(F)) = Part(Initial(m, g), n, ClientCounts(F))
      BY <3>1, <3>2, PartIs
    <3>4. QED
      BY <3>1, <3>3
  <2>2. ~f.skip
    BY <1>5 DEF IsArgument
  <2>3. Has(f.name) # f.name /\ Want(f.name) # f.name /\ Has(f.name) # Want(f.name)
    BY <2>2, NamesApart
  <2>4. Blank(msg, f) /\ (f.requested => ~msg[Want(f.name)].set)
    <3>1. ParamOK(F, g, msg, n, n < n) /\ ~(n < n)
      BY <1>1, <1>5, CountsType
    <3>2. QED
      BY <3>1 DEF ParamOK
  <2>5. /\ Differ(m, msg, w, {Want(f.name)})
        /\ f.requested => (w[Want(f.name)].set <=> f.decl.kind = "pointer" /\ v # <<Null>>)
    <3>1. Unwanted(msg, f)
      BY <2>4 DEF Unwanted
    <3>2. WantOK(m, msg, w, f, v)
      BY <1>1, <3>1, WantIs
    <3>3. QED
      BY <3>2 DEF WantOK
  <2>6. IsMessage(m, w) /\ Blank(w, f)
    <3>1. /\ f.name \in DOMAIN Message(m)
          /\ f.optional => Has(f.name) \in DOMAIN Message(m)
      BY DEF Paired
    <3>2. IsMessage(m, w) /\ \A x \in DOMAIN Message(m) : x \notin {Want(f.name)} => w[x] = msg[x]
      BY <2>5 DEF Differ
    <3>3. w[f.name] = msg[f.name] /\ (f.optional => w[Has(f.name)] = msg[Has(f.name)])
      BY <2>3, <3>1, <3>2
    <3>4. QED
      BY <2>4, <3>2, <3>3 DEF Blank
  <2>7. /\ Differ(m, w, new, {f.name, Has(f.name)})
        /\ In(f) => Carried(new, f, v)
    <3>1. CASE In(f)
      <4>1. new = BuildField(w, f, v)
        BY <2>2, <3>1
      <4>2. QED
        BY <2>3, <2>6, <4>1, BuildIs
    <3>2. CASE ~In(f)
      <4>1. new = w
        BY <2>2, <3>2
      <4>2. QED
        BY <2>6, <3>2, <4>1 DEF Differ
    <3>3. QED
      BY <3>1, <3>2
  <2>8. Differ(m, msg, new, S)
    <3>1. IsMessage(m, new) /\ \A x \in DOMAIN Message(m) : x \notin {f.name, Has(f.name)} => new[x] = w[x]
      BY <2>7 DEF Differ
    <3>2. \A x \in DOMAIN Message(m) : x \notin {Want(f.name)} => w[x] = msg[x]
      BY <2>5 DEF Differ
    <3>3. \A x \in DOMAIN Message(m) : x \notin S => new[x] = msg[x]
      BY <3>1, <3>2
    <3>4. QED
      BY <3>1, <3>3 DEF Differ
  <2>9. ParamOK(F, g, new, n, n < n + 1)
    <3>1. n < n + 1
      BY CountsType
    <3>2. ASSUME f.requested PROVE new[Want(f.name)] = w[Want(f.name)]
      <4>1. Want(f.name) \in DOMAIN Message(m)
        BY <3>2 DEF Paired
      <4>2. QED
        BY <2>3, <2>7, <4>1 DEF Differ
    <3>3. /\ In(f) => Carried(new, f, u)
          /\ f.requested => (new[Want(f.name)].set <=> f.decl.kind = "pointer" /\ u # <<Null>>)
      BY <2>1, <2>5, <2>7, <3>2
    <3>4. QED
      BY <3>1, <3>3 DEF ParamOK
  <2>10. ASSUME NEW k \in 1..Len(F), IsArgument(F[k]) PROVE ParamOK(F, g, new, k, k < n + 1)
    <3>1. CASE k = n
      BY <2>9, <3>1
    <3>2. CASE k # n
      <4>1. (k < n + 1) = (k < n)
        BY <1>3, <3>2
      <4>2. ~F[k].skip
        BY <2>10 DEF IsArgument
      <4>3. /\ F[k].requested => new[Want(F[k].name)] = msg[Want(F[k].name)]
            /\ Blank(msg, F[k]) => Blank(new, F[k])
            /\ \A z : Carried(msg, F[k], z) => Carried(new, F[k], z)
        <5>1. Differ(m, msg, new, Own(F[n]))
          BY <2>0, <2>8
        <5>2. Stays(msg, new, F[k])
          BY <2>2, <3>2, <4>2, <5>1, OthersStay
        <5>3. QED
          BY <5>2 DEF Stays
      <4>4. ParamOK(F, g, msg, k, k < n)
        BY <1>1, <2>10
      <4>5. ParamOK(F, g, new, k, k < n)
        BY <4>3, <4>4 DEF ParamOK
      <4>6. QED
        BY Zenon, <4>1, <4>5
    <3>3. QED
      BY <3>1, <3>2
  <2>11. QED
    BY <2>8, <2>10 DEF Differ
<1>6. QED
  BY <1>4, <1>5

----------------------------------------------------------------------------
(* The server.                                                             *)

\* Before the first field is passed there are no arguments of the method.
LEMMA PassStart ==
    ASSUME NEW m \in Methods, NEW F, Paired(m, F), NEW msg
    PROVE  PassedOK(F, msg, <<>>, 1)
<1>1. First(1, Counts(F)) = 1
  BY ParamAt
<1>2. <<>> \in Seq(Slots) /\ Len(<<>>) = 1 - 1 /\ \A k \in 1..(1 - 1) : FALSE
  OBVIOUS
<1>3. QED
  BY <1>1, <1>2 DEF PassedOK

\* A field that is no argument passes nothing.
LEMMA PassSkip ==
    ASSUME NEW m \in Methods, NEW F, Paired(m, F), NEW msg, NEW s,
           NEW n \in 1..Len(F), PassedOK(F, msg, s, n), ~IsArgument(F[n])
    PROVE  PassedOK(F, msg, s, n + 1)
<1>1. Counts(F)[n] = 0
  BY FieldCases
<1>2. First(n + 1, Counts(F)) = First(n, Counts(F)) + 0 /\ First(n, Counts(F)) \in Nat
  <2>1. n \in 1..(Len(F) + 1)
    BY CountsType
  <2>2. QED
    BY <1>1, <2>1, ParamAt
<1>3. \A k \in 1..((n + 1) - 1) : k # n => k \in 1..(n - 1)
  BY CountsType
<1>4. First(n + 1, Counts(F)) = First(n, Counts(F))
  BY <1>2
<1>5. QED
  BY <1>3, <1>4 DEF PassedOK

\* An argument whose value is read without a refusal is passed.
LEMMA PassStep ==
    ASSUME NEW m \in Methods, NEW F, Paired(m, F), NEW msg, NEW s,
           NEW n \in 1..Len(F), PassedOK(F, msg, s, n), IsArgument(F[n]), ~Refuses(msg, F[n]),
           NEW v \in Gets(msg, F[n]), v \in Seq(Slots), Len(v) = F[n].decl.count
    PROVE  PassedOK(F, msg, s \o v, n + 1)
<1> DEFINE c == Counts(F)
           u == s \o v
<1>1. c \in Seq(Nat) /\ Len(c) = Len(F) /\ c[n] = F[n].decl.count
  BY CountsType, ArgumentPassable
<1>2. /\ s \in Seq(Slots) /\ Len(s) = First(n, c) - 1
      /\ \A k \in 1..(n - 1) : IsArgument(F[k]) => ~Refuses(msg, F[k]) /\ Part(s, k, c) \in Gets(msg, F[k])
  BY DEF PassedOK
<1>3. /\ u \in Seq(Slots) /\ Len(u) = First(n + 1, c) - 1
      /\ Part(u, n, c) = v
      /\ \A l \in 1..(n - 1) : Part(u, l, c) = Part(s, l, c)
  <2>1. n \in 1..Len(c) /\ v \in Seq(Slots) /\ Len(v) = c[n]
    BY <1>1
  <2> HIDE DEF c
  <2>2. Appended(u, Slots, s, v, n, c)
    BY <1>1, <1>2, <2>1, PartAppend
  <2>3. QED
    BY <2>2 DEF Appended
<1>4. \A k \in 1..((n + 1) - 1) : k = n \/ k \in 1..(n - 1)
  BY CountsType
<1> HIDE DEF c, u
<1>5. \A k \in 1..((n + 1) - 1) : IsArgument(F[k]) => ~Refuses(msg, F[k]) /\ Part(u, k, c) \in Gets(msg, F[k])
  BY <1>2, <1>3, <1>4
<1>6. QED
  BY <1>3, <1>5 DEF PassedOK, c, u

----------------------------------------------------------------------------
(* Unwinding the server, one field at a time.                              *)

\* The exception that is left once the fields from the k-th are unwound.
LEMMA FlyingIs ==
    ASSUME NEW m \in Methods, NEW F, Paired(m, F), NEW x, NEW n \in 1..Len(F)
    PROVE  /\ IsException(F[n]) => (Catches(F[n].decl.name, Flying(F, x, n)) <=> Caught(F, x, n))
           /\ Flying(F, x, n - 1) = IF Caught(F, x, n) THEN "none" ELSE Flying(F, x, n)
           /\ SomeCaught(F, x, n) => SomeCaught(F, x, n - 1)
           /\ Caught(F, x, n) => SomeCaught(F, x, n - 1)
           /\ Caught(F, x, n) => IsException(F[n])
<1> DEFINE N == Len(F)
           Above(k) == \E l \in (k + 1)..N : Handles(F, x, l)
<1>1. N \in Nat /\ n \in 1..N
  BY CountsType
<1>2. \A k : Flying(F, x, k) = IF Above(k) THEN "none" ELSE x
  BY DEF Flying
<1>3. ~Handles(F, "none", n)
  <2>1. ASSUME IsException(F[n]) PROVE ~Catches(F[n].decl.name, "none")
    <3>1. ExceptionFacts(m, F, n)
      BY <2>1, ExceptionFieldIs
    <3>2. F[n].decl.name \in {"base", "derived"}
      BY <3>1 DEF ExceptionFacts
    <3>3. QED
      BY <3>2 DEF Catches
  <2>2. QED
    BY <2>1 DEF Handles
<1>4. Handles(F, x, n) <=> IsException(F[n]) /\ Catches(F[n].decl.name, x)
  BY DEF Handles
<1>5. IsException(F[n]) => ~Catches(F[n].decl.name, "none")
  BY <1>3 DEF Handles
<1>6. Caught(F, x, n) <=> Handles(F, x, n) /\ Flying(F, x, n) # "none"
  BY DEF Caught
<1>7. Above(n - 1) <=> Above(n) \/ Handles(F, x, n)
  <2>1. ((n - 1) + 1)..N = {n} \union ((n + 1)..N)
    BY <1>1
  <2>2. QED
    BY <2>1
<1>8. x = "none" => ~Handles(F, x, n)
  BY <1>3
<1>9. IsException(F[n]) => (Catches(F[n].decl.name, Flying(F, x, n)) <=> Caught(F, x, n))
  <2> HIDE DEF Above
  <2>1. CASE Above(n)
    BY <1>2, <1>5, <1>6, <2>1
  <2>2. CASE ~Above(n)
    BY <1>2, <1>4, <1>5, <1>6, <1>8, <2>2
  <2>3. QED
    BY <2>1, <2>2
<1>10. Flying(F, x, n - 1) = IF Caught(F, x, n) THEN "none" ELSE Flying(F, x, n)
  <2> HIDE DEF Above
  <2>1. QED
    BY <1>2, <1>6, <1>7, <1>8
<1>11. /\ SomeCaught(F, x, n) => SomeCaught(F, x, n - 1)
       /\ Caught(F, x, n) => SomeCaught(F, x, n - 1)
  <2>1. ((n - 1) + 1)..N = {n} \union ((n + 1)..N)
    BY <1>1
  <2>2. QED
    BY <2>1 DEF SomeCaught
<1>12. QED
  BY <1>4, <1>6, <1>9, <1>10, <1>11

\* What is to hold of a field while the response is built.
ResultOK(F, e, msg, k, built) ==
    /\ ~built => Blank(msg, F[k])
    /\ built => /\ IsException(F[k]) => (msg[F[k].name].set <=> Caught(F, e.thrown, k))
                /\ Out(F[k]) /\ ~IsException(F[k]) /\ Flying(F, e.thrown, k) = "none"
                      => Carried(msg, F[k], OutValue(F, e, k))

\* What holds of the response, field by field.
LEMMA ResultsAre ==
    ASSUME NEW m \in Methods, NEW F, Paired(m, F), NEW e, NEW msg, NEW n \in Nat
    PROVE  ResultsOK(m, F, e, msg, n) <=>
               /\ IsMessage(m, msg)
               /\ \A k \in 1..Len(F) : ~F[k].skip => ResultOK(F, e, msg, k, k > n)
<1>1. \A k \in 1..Len(F) : k <= n <=> ~(k > n)
  BY CountsType
<1>2. QED
  BY <1>1 DEF ResultsOK, ResultOK

\* When the method has run the response is empty.
LEMMA ResultsStart ==
    ASSUME NEW m \in Methods, NEW F, Paired(m, F), NEW e
    PROVE  ResultsOK(m, F, e, Message(m), Len(F))
<1>1. Len(F) \in Nat /\ \A k \in 1..Len(F) : ~(k > Len(F))
  BY CountsType
<1>2. \A k \in 1..Len(F) : k <= Len(F) /\ ~(k > Len(F))
  BY <1>1
<1>3. QED
  BY <1>2, EmptyMessage DEF ResultsOK

\* What Unwind makes of the response at the n-th field.
Unwound(F, e, msg, n, th) ==
    IF IsException(F[n])
    THEN IF Catches(F[n].decl.name, th) THEN BuildField(msg, F[n], <<0>>) ELSE msg
    ELSE IF th # "none" \/ ~Out(F[n]) THEN msg
    ELSE IF F[n].retval THEN BuildField(msg, F[n], e.result)
    ELSE BuildField(msg, F[n], Split(e.after, n, Counts(F)))

\* The field that is built.
LEMMA UnwoundIs ==
    ASSUME NEW m \in Methods, NEW F, Paired(m, F), NEW e,
           e.after \in Seq(Slots), Len(e.after) = Len(CxxParams(m)),
           NEW msg, NEW n \in 1..Len(F), ~F[n].skip, IsMessage(m, msg), Blank(msg, F[n])
    PROVE  /\ Differ(m, msg, Unwound(F, e, msg, n, Flying(F, e.thrown, n)), Own(F[n]))
           /\ ResultOK(F, e, Unwound(F, e, msg, n, Flying(F, e.thrown, n)), n, TRUE)
<1> DEFINE f == F[n]
           th == Flying(F, e.thrown, n)
           new == Unwound(F, e, msg, n, th)
<1>1. Has(f.name) # f.name
  BY NamesApart
<1>2. ASSUME NEW v, new = BuildField(msg, f, v) PROVE Differ(m, msg, new, Own(f)) /\ Carried(new, f, v)
  <2>1. Differ(m, msg, new, {f.name, Has(f.name)}) /\ Carried(new, f, v)
    BY <1>1, <1>2, BuildIs
  <2>2. QED
    BY <2>1 DEF Differ, Own
<1>3. Differ(m, msg, msg, Own(f))
  BY DEF Differ
<1>4. CASE IsException(f)
  <2>1. Catches(f.decl.name, th) <=> Caught(F, e.thrown, n)
    BY <1>4, FlyingIs
  <2>2. CASE Catches(f.decl.name, th)
    <3>1. new = BuildField(msg, f, <<0>>)
      BY <1>4, <2>2 DEF Unwound
    <3>2. Differ(m, msg, new, Own(f)) /\ Carried(new, f, <<0>>)
      <4> HIDE DEF new, f
      <4>1. QED
        BY <1>2, <3>1
    <3>3. 0 # Null
      BY SampleAssumption
    <3>4. <<0>> # <<Null>>
      BY <3>3
    <3>5. new[f.name] = [set |-> TRUE, val |-> [j \in DOMAIN <<0>> |-> BuildPrimitive(<<0>>[j], f.decl.wire)]]
      BY <3>2, <3>4 DEF Carried
    <3>6. new[f.name].set
      BY <3>5
    <3>7. ResultOK(F, e, new, n, TRUE)
      <4> HIDE DEF new
      <4>1. QED
        BY <1>4, <2>1, <2>2, <3>6 DEF ResultOK
    <3>8. QED
      BY <3>2, <3>7
  <2>3. CASE ~Catches(f.decl.name, th)
    <3>1. new = msg
      BY <1>4, <2>3 DEF Unwound
    <3>2. ~new[f.name].set
      BY <3>1 DEF Blank
    <3>3. ResultOK(F, e, new, n, TRUE)
      <4> HIDE DEF new
      <4>1. QED
        BY <1>4, <2>1, <2>3, <3>2 DEF ResultOK
    <3>4. QED
      BY <1>3, <3>1, <3>3
  <2>4. QED
    BY <2>2, <2>3
<1>5. CASE ~IsException(f) /\ (th # "none" \/ ~Out(f))
  <2>1. new = msg
    BY <1>5 DEF Unwound
  <2>2. ResultOK(F, e, new, n, TRUE)
    <3> HIDE DEF new
    <3>1. QED
      BY <1>5 DEF ResultOK
  <2>3. QED
    BY <1>3, <2>1, <2>2
<1>6. CASE ~IsException(f) /\ th = "none" /\ Out(f)
  <2>1. new = BuildField(msg, f, OutValue(F, e, n))
    <3>1. CASE f.retval
      <4>1. new = BuildField(msg, f, e.result)
        BY <1>6, <3>1 DEF Unwound
      <4>2. OutValue(F, e, n) = e.result
        BY <3>1 DEF OutValue
      <4>3. QED
        BY <4>1, <4>2
    <3>2. CASE ~f.retval
      <4>1. IsArgument(f)
        BY <1>6, <3>2 DEF IsArgument, IsException
      <4>2. Split(e.after, n, Counts(F)) = Part(e.after, n, Counts(F))
        BY <4>1, PartHeld
      <4>3. new = BuildField(msg, f, Split(e.after, n, Counts(F)))
        BY <1>6, <3>2 DEF Unwound
      <4>4. OutValue(F, e, n) = Part(e.after, n, Counts(F))
        BY <3>2 DEF OutValue
      <4>5. QED
        BY <4>2, <4>3, <4>4
    <3>3. QED
      BY <3>1, <3>2
  <2>2. Differ(m, msg, new, Own(f)) /\ Carried(new, f, OutValue(F, e, n))
    <3> HIDE DEF new, f
    <3>1. QED
      BY <1>2, <2>1
  <2>3. ResultOK(F, e, new, n, TRUE)
    <3> HIDE DEF new
    <3>1. QED
      BY <1>6, <2>2 DEF ResultOK
  <2>4. QED
    BY <2>2, <2>3
<1>7. QED
  BY <1>4, <1>5, <1>6

\* Leaving the code of the n-th field: its output is built, or its exception caught.
LEMMA UnwindStep ==
    ASSUME NEW m \in Methods, NEW F, Paired(m, F), NEW e,
           e.after \in Seq(Slots), Len(e.after) = Len(CxxParams(m)),
           NEW msg, NEW n \in 1..Len(F), ResultsOK(m, F, e, msg, n)
    PROVE  ResultsOK(m, F, e, Unwound(F, e, msg, n, Flying(F, e.thrown, n)), n - 1)
<1> DEFINE f == F[n]
           new == Unwound(F, e, msg, n, Flying(F, e.thrown, n))
<1>1. IsMessage(m, msg) /\ \A k \in 1..Len(F) : ~F[k].skip => ResultOK(F, e, msg, k, k > n)
  <2>1. n \in Nat
    BY CountsType
  <2>2. QED
    BY <2>1, ResultsAre
<1>2. SUFFICES IsMessage(m, new) /\ \A k \in 1..Len(F) : ~F[k].skip => ResultOK(F, e, new, k, k > n - 1)
  <2>1. n - 1 \in Nat
    BY CountsType
  <2> HIDE DEF new
  <2>2. QED
    BY <2>1, ResultsAre DEF new
<1>3. \A k \in 1..Len(F) : k # n => (k > n - 1 <=> k > n)
  BY CountsType
<1>4. CASE f.skip
  <2>1. new = msg
    <3>1. ~IsException(f) /\ ~Out(f)
      BY <1>4 DEF IsException, Out
    <3>2. QED
      BY <3>1 DEF Unwound
  <2> HIDE DEF new
  <2>2. ASSUME NEW k \in 1..Len(F), ~F[k].skip PROVE ResultOK(F, e, new, k, k > n - 1)
    <3>1. k # n
      BY <1>4, <2>2
    <3>2. (k > n - 1) = (k > n)
      BY <1>3, <3>1
    <3>3. ResultOK(F, e, msg, k, k > n)
      BY <1>1, <2>2
    <3>4. QED
      BY Zenon, <2>1, <3>2, <3>3
  <2>3. QED
    BY <1>1, <2>1, <2>2
<1>5. CASE ~f.skip
  <2>1. Blank(msg, f)
    <3>1. ResultOK(F, e, msg, n, n > n) /\ ~(n > n)
      BY <1>1, <1>5, CountsType
    <3>2. QED
      BY <3>1 DEF ResultOK
  <2>2. Differ(m, msg, new, Own(f)) /\ ResultOK(F, e, new, n, TRUE)
    BY <1>1, <1>5, <2>1, UnwoundIs
  <2> HIDE DEF new
  <2>3. ASSUME NEW k \in 1..Len(F), ~F[k].skip PROVE ResultOK(F, e, new, k, k > n - 1)
    <3>1. CASE k = n
      <4>1. (n > n - 1) = TRUE
        BY CountsType
      <4>2. QED
        BY Zenon, <2>2, <3>1, <4>1
    <3>2. CASE k # n
      <4>1. (k > n - 1) = (k > n)
        BY <1>3, <3>2
      <4>2. Stays(msg, new, F[k])
        BY <1>5, <2>2, <2>3, <3>2, OthersStay
      <4>3. ResultOK(F, e, msg, k, k > n)
        BY <1>1, <2>3
      <4>4. ResultOK(F, e, new, k, k > n)
        BY <4>2, <4>3 DEF ResultOK, Stays
      <4>5. QED
        BY Zenon, <4>1, <4>4
    <3>3. QED
      BY <3>1, <3>2
  <2>4. QED
    BY <2>2, <2>3 DEF Differ
<1>6. QED
  BY <1>4, <1>5

----------------------------------------------------------------------------
(* The client reads the response.                                          *)

\* Its flag tells whether an exception was caught.
LEMMA HasException ==
    ASSUME NEW m \in Methods, NEW F, Paired(m, F), NEW e, NEW msg, ResultsOK(m, F, e, msg, 0),
           NEW k \in 1..Len(F), IsException(F[k])
    PROVE  HasField(msg, F[k]) <=> Caught(F, e.thrown, k)
<1>1. ExceptionFacts(m, F, k)
  BY ExceptionFieldIs
<1>2. ~F[k].optional /\ F[k].decl.boxed = TRUE
  BY <1>1 DEF ExceptionFacts
<1>3. ~F[k].skip /\ k > 0
  BY CountsType DEF IsException
<1>4. ResultOK(F, e, msg, k, k > 0)
  BY <1>3, ResultsAre
<1>5. msg[F[k].name].set <=> Caught(F, e.thrown, k)
  BY <1>3, <1>4 DEF ResultOK
<1>6. QED
  BY <1>2, <1>5 DEF HasField, Boxed

\* Fields that are read before anything that was caught carry their value.
LEMMA CarriedResult ==
    ASSUME NEW m \in Methods, NEW F, Paired(m, F), NEW e, NEW msg, ResultsOK(m, F, e, msg, 0),
           SomeCaught(F, e.thrown, 0), NEW k \in 1..Len(F),
           \A l \in 1..(k - 1) : ~Caught(F, e.thrown, l),
           Out(F[k]), ~IsException(F[k])
    PROVE  Carried(msg, F[k], OutValue(F, e, k))
<1> DEFINE x == e.thrown
<1>1. Flying(F, x, k) = "none"
  <2>1. SUFFICES ASSUME Flying(F, x, k) # "none" PROVE FALSE
    OBVIOUS
  <2>2. x # "none" /\ ~\E l \in (k + 1)..Len(F) : Handles(F, x, l)
    BY <2>1 DEF Flying
  <2>3. PICK l \in (0 + 1)..Len(F) : Caught(F, x, l)
    BY <2>2 DEF SomeCaught
  <2>4. l \in 1..(k - 1) \/ l = k \/ l \in (k + 1)..Len(F)
    BY CountsType
  <2>5. Handles(F, x, l)
    BY <2>3 DEF Caught
  <2>6. l # k
    BY <2>5 DEF Handles
  <2>7. QED
    BY <2>2, <2>3, <2>4, <2>5, <2>6
<1>2. ~F[k].skip /\ k > 0
  BY CountsType DEF Out
<1>3. ResultOK(F, e, msg, k, k > 0)
  BY <1>2, ResultsAre
<1>4. QED
  BY <1>1, <1>2, <1>3 DEF ResultOK

\* What the method leaves for a field is a value of its type on the server.
LEMMA OutHeld ==
    ASSUME NEW m \in Methods, NEW F, Paired(m, F), NEW g, GivenOK(m, g), NEW msg, NEW s, NEW e,
           ParamsOK(m, F, g, msg, Len(F) + 1), MethodOK(m, F, msg, s, e),
           NEW k \in 1..Len(F), IsArgument(F[k]) \/ IsResult(F[k])
    PROVE  Held(F[k].decl, OutValue(F, e, k), F[k].decl.server)
<1>1. CASE IsArgument(F[k])
  <2>1. ~F[k].retval
    BY <1>1 DEF IsArgument
  <2>2. In(F[k]) => Carried(msg, F[k], Part(g, k, Counts(F)))
    <3>1. k < Len(F) + 1 /\ Len(F) + 1 \in Nat
      BY CountsType
    <3>2. ParamOK(F, g, msg, k, k < Len(F) + 1)
      BY <1>1, <3>1, ParamsAre
    <3>3. QED
      BY <3>1, <3>2 DEF ParamOK
  <2>3. OutValue(F, e, k) = Part(e.after, k, Counts(F))
    BY <2>1 DEF OutValue
  <2>4. Held(F[k].decl, Part(e.after, k, Counts(F)), F[k].decl.server)
    BY <1>1, <2>2, AfterHeld
  <2>5. QED
    BY <2>3, <2>4
<1>2. CASE IsResult(F[k])
  <2>1. OutValue(F, e, k) = e.result
    BY <1>2 DEF OutValue, IsResult
  <2>2. e.result \in Results(m)
    BY DEF MethodOK
  <2>3. QED
    BY <1>2, <2>1, <2>2, ReturnHeld
<1>3. QED
  BY <1>1, <1>2

----------------------------------------------------------------------------
(* Reading the response, one field at a time.                              *)

\* What is to hold of a variable of the client while the response is read.
VariableOK(m, F, g, msg, loc, k, read) ==
    LET v == Part(Initial(m, g), k, ClientCounts(F))
        now == Part(loc, k, ClientCounts(F))
    IN /\ read /\ Out(F[k]) => /\ ~ReadThrows(msg, F[k], v, F[k].decl.client)
                               /\ now = ReadField(msg, F[k], v, F[k].decl.client)
       /\ ~(read /\ Out(F[k])) => now = v

\* What holds of the variables of the client, field by field.
LEMMA VariablesAre ==
    ASSUME NEW m, NEW F, NEW g, NEW msg, NEW loc, NEW n
    PROVE  ReadOK(m, F, g, msg, loc, n) <=>
               /\ loc \in Seq(Slots) /\ Len(loc) = Len(Initial(m, g))
               /\ \A k \in 1..Len(F) : IsArgument(F[k]) \/ IsResult(F[k]) =>
                     VariableOK(m, F, g, msg, loc, k, k < n)
BY DEF ReadOK, VariableOK

\* Before the first field is read the variables are as they were passed.
LEMMA ReadStart ==
    ASSUME NEW m \in Methods, NEW F, Paired(m, F), NEW g, GivenOK(m, g), NEW msg
    PROVE  ReadOK(m, F, g, msg, Initial(m, g), 1)
<1> DEFINE s == Initial(m, g)
<1>1. s \in Seq(Slots)
  BY InitialIs
<1>2. \A k \in 1..Len(F) : ~(k < 1)
  BY CountsType
<1>3. \A k \in 1..Len(F) : VariableOK(m, F, g, msg, s, k, k < 1)
  BY <1>2 DEF VariableOK
<1>4. QED
  BY <1>1, <1>3, VariablesAre

\* The place of a variable.
LEMMA VariableAt ==
    ASSUME NEW m \in Methods, NEW F, Paired(m, F), NEW g, GivenOK(m, g), NEW k \in 1..Len(F),
           IsArgument(F[k]) \/ IsResult(F[k])
    PROVE  /\ k \in 1..Len(ClientCounts(F)) /\ ClientCounts(F) \in Seq(Nat)
           /\ First(k, ClientCounts(F)) + ClientCounts(F)[k] - 1 <= Len(Initial(m, g))
           /\ ClientCounts(F)[k] = F[k].decl.count
<1>1. /\ ClientCounts(F) \in Seq(Nat) /\ Len(ClientCounts(F)) = Len(F)
  BY ClientIs
<1>2. First(k, ClientCounts(F)) + ClientCounts(F)[k] - 1 <= Len(Initial(m, g))
  BY InitialIs
<1>3. ClientCounts(F)[k] = IF IsResult(F[k]) THEN 1 ELSE Counts(F)[k]
  BY DEF ClientCounts
<1>4. CASE IsArgument(F[k])
  <2>1. Counts(F)[k] = F[k].decl.count /\ ~IsResult(F[k])
    BY <1>4, ArgumentPassable
  <2>2. QED
    BY <1>1, <1>2, <1>3, <2>1
<1>5. CASE IsResult(F[k])
  <2>1. F[k].decl.count = 1
    BY <1>5, ResultPassable
  <2>2. QED
    BY <1>1, <1>2, <1>3, <1>5, <2>1
<1>6. QED
  BY <1>4, <1>5

\* A field that is not read yet has the values it was passed.
LEMMA ReadSplit ==
    ASSUME NEW m \in Methods, NEW F, Paired(m, F), NEW g, GivenOK(m, g), NEW msg, NEW loc,
           NEW n \in 1..Len(F), ReadOK(m, F, g, msg, loc, n), IsArgument(F[n]) \/ IsResult(F[n])
    PROVE  Split(loc, n, ClientCounts(F)) = Part(Initial(m, g), n, ClientCounts(F))
<1>1. loc \in Seq(Slots) /\ Len(loc) = Len(Initial(m, g)) /\ VariableOK(m, F, g, msg, loc, n, n < n)
  BY VariablesAre
<1>2. ~(n < n)
  BY CountsType
<1>3. Part(loc, n, ClientCounts(F)) = Part(Initial(m, g), n, ClientCounts(F))
  BY <1>1, <1>2 DEF VariableOK
<1>4. /\ n \in 1..Len(ClientCounts(F)) /\ ClientCounts(F) \in Seq(Nat)
      /\ First(n, ClientCounts(F)) + ClientCounts(F)[n] - 1 <= Len(loc)
  BY <1>1, VariableAt
<1>5. Split(loc, n, ClientCounts(F)) = Part(loc, n, ClientCounts(F))
  BY <1>1, <1>4, PartIs
<1>6. QED
  BY <1>3, <1>5

\* Reading the n-th field of the response.
LEMMA ReadStep ==
    ASSUME NEW m \in Methods, NEW F, Paired(m, F), NEW g, GivenOK(m, g), NEW msg, NEW loc,
           NEW n \in 1..Len(F), ReadOK(m, F, g, msg, loc, n), IsArgument(F[n]) \/ IsResult(F[n]),
           NEW v, v = Part(Initial(m, g), n, ClientCounts(F)),
           ~ReadThrows(msg, F[n], v, F[n].decl.client),
           NEW r, r = ReadField(msg, F[n], v, F[n].decl.client),
           Held(F[n].decl, r, F[n].decl.client), Out(F[n])
    PROVE  ReadOK(m, F, g, msg, Replace(loc, n, ClientCounts(F), r), n + 1)
<1> DEFINE c == ClientCounts(F)
           new == Replace(loc, n, c, r)
           L == Len(Initial(m, g))
<1>1. /\ loc \in Seq(Slots) /\ Len(loc) = L
      /\ \A k \in 1..Len(F) : IsArgument(F[k]) \/ IsResult(F[k]) =>
            VariableOK(m, F, g, msg, loc, k, k < n)
  BY VariablesAre
<1>2. /\ n \in 1..Len(c) /\ c \in Seq(Nat) /\ First(n, c) + c[n] - 1 <= L
      /\ c[n] = F[n].decl.count
  BY VariableAt
<1>3. r \in Seq(Slots) /\ Len(r) = c[n]
  BY <1>2 DEF Held
<1>4. Replaced(new, Slots, loc, r, n, c)
  BY <1>1, <1>2, <1>3, PartReplace
<1> HIDE DEF new
<1>5. /\ new \in Seq(Slots) /\ Len(new) = L
      /\ Part(new, n, c) = r
      /\ \A l \in 1..Len(c) : l # n /\ First(l, c) + c[l] - 1 <= L => Part(new, l, c) = Part(loc, l, c)
  BY <1>1, <1>4 DEF Replaced
<1>6. ASSUME NEW k \in 1..Len(F), IsArgument(F[k]) \/ IsResult(F[k])
      PROVE  VariableOK(m, F, g, msg, new, k, k < n + 1)
  <2>1. CASE k = n
    <3>1. n < n + 1
      BY CountsType
    <3>2. QED
      BY <1>5, <2>1, <3>1 DEF VariableOK
  <2>2. CASE k # n
    <3>1. (k < n + 1) = (k < n)
      BY <2>2, CountsType
    <3>2. k \in 1..Len(c) /\ First(k, c) + c[k] - 1 <= L
      BY <1>6, VariableAt
    <3>3. Part(new, k, c) = Part(loc, k, c)
      BY <1>5, <2>2, <3>2
    <3>4. VariableOK(m, F, g, msg, loc, k, k < n)
      BY <1>1, <1>6
    <3>5. VariableOK(m, F, g, msg, new, k, k < n)
      BY <3>3, <3>4 DEF VariableOK
    <3>6. QED
      BY Zenon, <3>1, <3>5
  <2>3. QED
    BY <2>1, <2>2
<1>7. QED
  BY <1>5, <1>6, VariablesAre DEF new

\* A field that is no output is not read.
LEMMA ReadSkip ==
    ASSUME NEW m \in Methods, NEW F, Paired(m, F), NEW g, NEW msg, NEW loc,
           NEW n \in 1..Len(F), ReadOK(m, F, g, msg, loc, n), ~(Out(F[n]) /\ ~F[n].exception)
    PROVE  ReadOK(m, F, g, msg, loc, n + 1)
<1>1. /\ loc \in Seq(Slots) /\ Len(loc) = Len(Initial(m, g))
      /\ \A k \in 1..Len(F) : IsArgument(F[k]) \/ IsResult(F[k]) =>
            VariableOK(m, F, g, msg, loc, k, k < n)
  BY VariablesAre
<1>2. ASSUME NEW k \in 1..Len(F), IsArgument(F[k]) \/ IsResult(F[k])
      PROVE  VariableOK(m, F, g, msg, loc, k, k < n + 1)
  <2>1. VariableOK(m, F, g, msg, loc, k, k < n)
    BY <1>1, <1>2
  <2>2. CASE k = n
    <3>1. ~F[n].exception
      <4>1. CASE IsArgument(F[n])
        BY <4>1 DEF IsArgument
      <4>2. CASE IsResult(F[n])
        <5>1. ResultFacts(m, F, n)
          BY <4>2, RetvalIs
        <5>2. QED
          BY <5>1 DEF ResultFacts
      <4>3. QED
        BY <1>2, <2>2, <4>1, <4>2
    <3>2. ~Out(F[n]) /\ ~(n < n)
      BY <3>1, CountsType
    <3>3. QED
      BY <2>1, <2>2, <3>2 DEF VariableOK
  <2>3. CASE k # n
    <3>1. (k < n + 1) = (k < n)
      BY <2>3, CountsType
    <3>2. QED
      BY Zenon, <2>1, <3>1
  <2>4. QED
    BY <2>2, <2>3
<1>3. QED
  BY <1>1, <1>2, VariablesAre

----------------------------------------------------------------------------
\* The choices of one value for each parameter.
LEMMA TuplesAre ==
    ASSUME NEW N \in Nat, NEW S, NEW sets, DOMAIN sets = 1..N, \A n \in 1..N : sets[n] \subseteq S,
           NEW v \in Tuples(sets)
    PROVE  v \in Seq(S) /\ Len(v) = N /\ \A n \in 1..N : v[n] \in sets[n]
<1>1. v \in [1..N -> UNION {sets[n] : n \in DOMAIN sets}] /\ \A n \in 1..N : v[n] \in sets[n]
  BY DEF Tuples
<1>2. v = [n \in 1..N |-> v[n]] /\ \A n \in 1..N : v[n] \in S
  BY <1>1
<1>3. [n \in 1..N |-> v[n]] \in Seq(S) /\ Len([n \in 1..N |-> v[n]]) = N
  BY <1>2
<1>4. v \in Seq(S) /\ Len(v) = N
  BY Zenon, <1>2, <1>3
<1>5. QED
  BY <1>1, <1>4

\* The values the model has programs pass and methods leave.
LEMMA LocalSlots ==
    ASSUME NEW d \in Declaration
    PROVE  LocalValues(d, d.client) \subseteq Slots /\ LocalValues(d, d.server) \subseteq Slots
           /\ Sample(d.server) \subseteq Slots
<1>1. d.client \in IntType /\ d.server \in IntType
  BY DeclarationType
<1>2. \A t \in IntType : Sample(t) \subseteq Values(t) /\ Values(t) \subseteq Int
  BY SampleAssumption, Limits
<1>3. QED
  BY <1>1, <1>2 DEF LocalValues, Slots

\* What the caller may pass.
LEMMA GivenStart ==
    ASSUME NEW m \in Methods, NEW F, Paired(m, F),
           NEW v \in Tuples([n \in DOMAIN CxxParams(m) |-> LocalValues(CxxParams(m)[n], CxxParams(m)[n].client)])
    PROVE  GivenOK(m, v)
<1> DEFINE P == CxxParams(m)
           N == Len(P)
           sets == [n \in DOMAIN P |-> LocalValues(P[n], P[n].client)]
<1>1. P \in Seq(Declaration) /\ N \in Nat /\ DOMAIN P = 1..N
  BY ParamAt
<1>2. \A n \in 1..N : P[n] \in Declaration
  BY <1>1, ElementOfSeq
<1>3. v \in Tuples(sets) /\ sets = [n \in 1..N |-> LocalValues(P[n], P[n].client)]
  BY <1>1
<1> HIDE DEF P, N, sets
<1>4. DOMAIN sets = 1..N /\ \A n \in 1..N : sets[n] = LocalValues(P[n], P[n].client)
  BY <1>3
<1>5. \A n \in 1..N : sets[n] \subseteq Slots
  BY <1>2, <1>4, LocalSlots
<1>6. v \in Seq(Slots) /\ Len(v) = N /\ \A n \in 1..N : v[n] \in sets[n]
  <2>1. N \in Nat /\ DOMAIN sets = 1..N /\ v \in Tuples(sets)
    BY <1>1, <1>3, <1>4
  <2>2. QED
    BY <1>5, <2>1, TuplesAre
<1>7. \A n \in 1..Len(v) : v[n] \in LocalValues(P[n], P[n].client)
  BY <1>4, <1>6
<1>8. QED
  BY <1>6, <1>7 DEF GivenOK, P, N

\* What the method may do.
LEMMA MethodStart ==
    ASSUME NEW m \in Methods, NEW F, Paired(m, F), NEW msg, NEW s, PassedOK(F, msg, s, Len(F) + 1),
           NEW after \in Tuples([n \in DOMAIN s |-> Writes(CxxParams(m)[n], s[n])]),
           NEW result \in Results(m), NEW e \in Exceptions(m) \union {"none"}
    PROVE  MethodOK(m, F, msg, s, [after |-> after, result |-> result, thrown |-> e])
<1> DEFINE P == CxxParams(m)
           N == Len(P)
           sets == [n \in DOMAIN s |-> Writes(P[n], s[n])]
<1>1. P \in Seq(Declaration) /\ N \in Nat /\ First(Len(F) + 1, Counts(F)) = N + 1
  BY ParamAt
<1>2. s \in Seq(Slots) /\ Len(s) = N
  BY <1>1 DEF PassedOK
<1>3. \A n \in 1..N : P[n] \in Declaration /\ s[n] \in Slots
  BY <1>1, <1>2, ElementOfSeq
<1>4. after \in Tuples(sets) /\ DOMAIN s = 1..N
  BY <1>2, LenProperties
<1> HIDE DEF P, N
<1>5. DOMAIN sets = 1..N /\ \A n \in 1..N : sets[n] = Writes(P[n], s[n])
  BY <1>4
<1> HIDE DEF sets
<1>6. ASSUME NEW n \in 1..N PROVE sets[n] \subseteq Slots
  <2>1. P[n] \in Declaration /\ s[n] \in Slots /\ sets[n] = Writes(P[n], s[n])
    BY <1>3, <1>5
  <2>2. LocalValues(P[n], P[n].server) \subseteq Slots /\ Sample(P[n].server) \subseteq Slots
    BY <2>1, LocalSlots
  <2>3. QED
    BY <2>1, <2>2 DEF Writes
<1>7. after \in Seq(Slots) /\ Len(after) = N /\ \A n \in 1..N : after[n] \in sets[n]
  BY <1>1, <1>4, <1>5, <1>6, TuplesAre
<1>8. \A n \in 1..N : after[n] \in Writes(P[n], s[n])
  BY <1>5, <1>7
<1>9. QED
  BY <1>7, <1>8 DEF MethodOK, P, N

----------------------------------------------------------------------------
(* The steps of mpgen and of the client, up to the request.                *)

\* A phase holds where the call is not in it.
LEMMA Elsewhere ==
    /\ pc' # "generate" => InGenerate'
    /\ pc' # "declared" => InDeclared'
    /\ pc' # "build" => InBuild'
    /\ pc' # "pass" => InPass'
    /\ pc' # "unwind" => InUnwind'
    /\ pc' # "read" => InRead'
    /\ pc' # "returned" => InReturned'
BY DEF InGenerate, InDeclared, InBuild, InPass, InUnwind, InRead, InReturned, ReadUpTo, StoppedAt,
       Refused

\* The invariant of a call holds at first.
LEMMA InvInit == Init => CallInv
<1> SUFFICES ASSUME Init PROVE CallInv
  OBVIOUS
<1>1. method \in Methods /\ Compiles(method) /\ fields = <<>> /\ pc = "generate" /\ at = 1
  BY DEF Init
<1>2. given = <<>> /\ passed = <<>> /\ Idle
  BY DEF Init, Idle, Called
<1>3. Generating(method, fields, at - 1)
  <2>1. Len(Schema(method)) \in Nat
    BY <1>1, SchemaIs, LenProperties
  <2>2. fields \in Seq(FieldRec(method)) /\ Len(fields) = 0
    BY <1>1
  <2>3. at - 1 = 0 /\ 0 \in 0..Len(Schema(method)) /\ 1..0 = {}
    BY <1>1, <2>1
  <2>4. Generating(method, fields, 0)
    BY <2>2, <2>3 DEF Generating
  <2>5. QED
    BY <2>3, <2>4
<1>4. InGenerate
  BY <1>2, <1>3 DEF InGenerate
<1>5. InDeclared /\ InBuild /\ InPass /\ InUnwind /\ InRead /\ InReturned
  BY <1>1 DEF InDeclared, InBuild, InPass, InUnwind, InRead, InReturned
<1>6. QED
  BY <1>1, <1>4, <1>5 DEF CallInv

\* Generator::Generate adds the next field of the schema to the list.
LEMMA StepAddField == CallInv /\ AddField => CallInv'
<1> SUFFICES ASSUME CallInv, AddField PROVE CallInv'
  OBVIOUS
<1>1. /\ method \in Methods /\ Compiles(method) /\ at \in Nat /\ pc = "generate"
      /\ Generating(method, fields, at - 1) /\ given = <<>> /\ passed = <<>> /\ Idle
  BY DEF CallInv, AddField, InGenerate
<1>2. /\ method' = method /\ pc' = "generate" /\ at' = at + 1
      /\ given' = <<>> /\ passed' = <<>> /\ Idle'
  BY <1>1 DEF AddField, Idle, Called
<1>3. at + 1 - 1 = at /\ Generating(method, fields', at)
  BY <1>1, AddFieldGathers
<1>4. Generating(method', fields', at' - 1)
  <2>1. at' - 1 = at
    BY <1>1, <1>2
  <2>2. QED
    BY <1>2, <1>3, <2>1
<1>5. InGenerate'
  BY <1>2, <1>4 DEF InGenerate
<1>6. InDeclared' /\ InBuild' /\ InPass' /\ InUnwind' /\ InRead' /\ InReturned'
  BY <1>2, Elsewhere
<1>7. QED
  BY <1>1, <1>2, <1>5, <1>6 DEF CallInv

\* Generator::Generate has listed all the fields.
LEMMA StepMergeFields == CallInv /\ MergeFields => CallInv'
<1> SUFFICES ASSUME CallInv, MergeFields PROVE CallInv'
  OBVIOUS
<1>1. /\ method \in Methods /\ Compiles(method) /\ at \in Nat /\ pc = "generate"
      /\ Generating(method, fields, at - 1) /\ given = <<>> /\ passed = <<>> /\ Idle
  BY DEF CallInv, MergeFields, InGenerate
<1>2. /\ method' = method /\ pc' = "declared" /\ at' = at
      /\ given' = <<>> /\ passed' = <<>> /\ Idle'
  BY <1>1 DEF MergeFields, Idle, Called
<1>3. Paired(method, fields')
  BY <1>1, MergePairs
<1>4. InDeclared'
  BY <1>2 DEF InDeclared
<1>5. InGenerate' /\ InBuild' /\ InPass' /\ InUnwind' /\ InRead' /\ InReturned'
  BY <1>2, Elsewhere
<1>6. QED
  BY <1>1, <1>2, <1>3, <1>4, <1>5 DEF CallInv

\* A program calls the method of the proxy.
LEMMA StepInvoke == CallInv /\ Invoke => CallInv'
<1> SUFFICES ASSUME CallInv, Invoke PROVE CallInv'
  OBVIOUS
<1>1. /\ method \in Methods /\ Compiles(method) /\ pc = "declared"
      /\ Paired(method, fields) /\ passed = <<>> /\ Idle
  BY DEF CallInv, Invoke, InDeclared
<1>2. /\ method' = method /\ fields' = fields /\ pc' = "build" /\ at' = 1 /\ passed' = <<>> /\ Idle'
      /\ outcome' = "none"
      /\ params' = Message(method) /\ results' = Message(method)
  BY <1>1 DEF Invoke, Idle, Called
<1>3. PICK v \in Tuples([n \in DOMAIN CxxParams(method) |-> LocalValues(CxxParams(method)[n], CxxParams(method)[n].client)]) :
          given' = v /\ locals' = v \o ResultSlot(method)
  BY DEF Invoke
<1>4. GivenOK(method, given')
  BY <1>1, <1>3, GivenStart
<1>5. locals' = Initial(method, given')
  BY <1>3 DEF Initial
<1>6. ParamsOK(method, fields, given', Message(method), 1)
  BY <1>1, ParamsStart
<1>7. at' \in 1..(Len(fields) + 1) /\ at' \in Nat
  BY <1>1, <1>2, CountsType
<1>8. InBuild'
  <2>1. GivenOK(method', given') /\ locals' = Initial(method', given')
    BY <1>2, <1>4, <1>5
  <2>2. ParamsOK(method', fields', given', params', at') /\ results' = Message(method')
    BY <1>2, <1>6
  <2>3. at' \in 1..(Len(fields') + 1)
    BY <1>2, <1>7
  <2>4. QED
    BY <1>2, <2>1, <2>2, <2>3 DEF InBuild, NotRead
<1>9. InGenerate' /\ InDeclared' /\ InPass' /\ InUnwind' /\ InRead' /\ InReturned'
  BY <1>2, Elsewhere
<1>10. QED
  BY <1>1, <1>2, <1>7, <1>8, <1>9 DEF CallInv

\* The counts of the code are those of the fields.
LEMMA CountsAre ==
    ASSUME method \in Methods, Paired(method, fields)
    PROVE  /\ ServerArgs = Counts(fields) /\ ClientArgs = ClientCounts(fields)
           /\ Len(fields) \in Nat
<1>1. fields \in Seq(FieldRec(method)) /\ DOMAIN fields = 1..Len(fields) /\ Len(fields) \in Nat
  BY LenProperties DEF Paired
<1>2. ServerArgs = Counts(fields)
  BY <1>1 DEF ServerArgs, Counts
<1>3. \A k \in 1..Len(fields) :
          (IF ~fields[k].skip /\ fields[k].retval THEN 1 ELSE ServerArgs[k])
              = IF IsResult(fields[k]) THEN 1 ELSE Counts(fields)[k]
  BY <1>2 DEF IsResult
<1>4. ClientArgs = ClientCounts(fields)
  BY <1>1, <1>3 DEF ClientArgs, ClientCounts
<1>5. QED
  BY <1>1, <1>2, <1>4

\* clientInvoke builds the next field of the request.
LEMMA StepBuildParams == CallInv /\ BuildParams => CallInv'
<1> SUFFICES ASSUME CallInv, BuildParams PROVE CallInv'
  OBVIOUS
<1>1. /\ method \in Methods /\ Compiles(method) /\ pc = "build"
      /\ Paired(method, fields) /\ passed = <<>> /\ Idle
      /\ at \in 1..(Len(fields) + 1) /\ at <= Len(fields)
      /\ GivenOK(method, given) /\ locals = Initial(method, given) /\ outcome = "none"
      /\ ParamsOK(method, fields, given, params, at) /\ results = Message(method)
  BY DEF CallInv, BuildParams, InBuild, NotRead
<1>2. /\ method' = method /\ fields' = fields /\ pc' = "build" /\ at' = at + 1 /\ passed' = <<>> /\ Idle'
      /\ outcome' = "none" /\ given' = given /\ locals' = locals /\ results' = results
  BY <1>1 DEF BuildParams, Idle, Called
<1> DEFINE f == fields[at]
           v == Split(Initial(method, given), at, ClientCounts(fields))
           w == WantSet(params, f, v)
<1>3. params' = IF f.skip THEN params ELSE IF In(f) THEN BuildField(w, f, v) ELSE w
  <2>1. ClientArgs = ClientCounts(fields)
    BY <1>1, CountsAre
  <2>2. v = Split(locals, at, ClientArgs)
    BY <1>1, <2>1
  <2> HIDE DEF v
  <2>3. QED
    BY <2>2 DEF BuildParams, WantSet
<1>4. at \in 1..Len(fields) /\ at' \in 1..(Len(fields) + 1) /\ at' \in Nat
  <2>1. Len(fields) \in Nat
    BY <1>1, CountsType
  <2>2. QED
    BY <1>1, <1>2, <2>1
<1>5. ParamsOK(method, fields, given, params', at + 1)
  <2> DEFINE new == params'
  <2>1. new = IF f.skip THEN params ELSE IF In(f) THEN BuildField(w, f, v) ELSE w
    BY <1>3
  <2> HIDE DEF new
  <2>2. ParamsOK(method, fields, given, new, at + 1)
    BY <1>1, <1>4, <2>1, ParamsStep
  <2>3. QED
    BY <2>2 DEF new
<1>6. InBuild'
  <2>1. GivenOK(method', given') /\ locals' = Initial(method', given')
    BY <1>1, <1>2
  <2>2. ParamsOK(method', fields', given', params', at') /\ results' = Message(method')
    BY <1>1, <1>2, <1>5
  <2>3. at' \in 1..(Len(fields') + 1)
    BY <1>2, <1>4
  <2>4. QED
    BY <1>2, <2>1, <2>2, <2>3 DEF InBuild, NotRead
<1>7. InGenerate' /\ InDeclared' /\ InPass' /\ InUnwind' /\ InRead' /\ InReturned'
  BY <1>2, Elsewhere
<1>8. QED
  BY <1>1, <1>2, <1>4, <1>6, <1>7 DEF CallInv

\* clientInvoke has built them all and sends the request.
LEMMA StepSend == CallInv /\ Send => CallInv'
<1> SUFFICES ASSUME CallInv, Send PROVE CallInv'
  OBVIOUS
<1>1. /\ method \in Methods /\ Compiles(method) /\ pc = "build"
      /\ Paired(method, fields) /\ passed = <<>> /\ Idle
      /\ at \in 1..(Len(fields) + 1) /\ at > Len(fields)
      /\ GivenOK(method, given) /\ locals = Initial(method, given) /\ outcome = "none"
      /\ ParamsOK(method, fields, given, params, at) /\ results = Message(method)
  BY DEF CallInv, Send, InBuild, NotRead
<1>2. /\ method' = method /\ fields' = fields /\ pc' = "pass" /\ at' = 1 /\ passed' = <<>> /\ Idle'
      /\ outcome' = "none" /\ given' = given /\ locals' = locals /\ results' = results
      /\ params' = params
  BY <1>1 DEF Send, Idle, Called
<1>3. Len(fields) \in Nat /\ at = Len(fields) + 1
  <2>1. Len(fields) \in Nat
    BY <1>1, CountsType
  <2>2. QED
    BY <1>1, <2>1
<1>4. PassedOK(fields, params, <<>>, 1)
  BY <1>1, PassStart
<1>5. InPass'
  <2>1. GivenOK(method', given') /\ locals' = Initial(method', given') /\ results' = Message(method')
    BY <1>1, <1>2
  <2>2. ParamsOK(method', fields', given', params', Len(fields') + 1)
    BY <1>1, <1>2, <1>3
  <2>3. at' \in 1..(Len(fields') + 1)
    BY <1>2, <1>3
  <2>4. PassedOK(fields', params', passed', at')
    BY <1>2, <1>4
  <2>5. QED
    BY <1>2, <2>1, <2>2, <2>3, <2>4 DEF InPass, NotRead, Sent
<1>6. InGenerate' /\ InDeclared' /\ InBuild' /\ InUnwind' /\ InRead' /\ InReturned'
  BY <1>2, Elsewhere
<1>7. QED
  BY <1>1, <1>2, <1>5, <1>6 DEF CallInv

----------------------------------------------------------------------------
(* The steps of the server.                                                *)

\* What an argument is passed as.
LEMMA GotIs ==
    ASSUME NEW m \in Methods, NEW F, Paired(m, F), NEW g, GivenOK(m, g), NEW msg,
           ParamsOK(m, F, g, msg, Len(F) + 1), NEW k \in 1..Len(F), IsArgument(F[k])
    PROVE  /\ In(F[k]) => Carried(msg, F[k], Part(g, k, Counts(F)))
           /\ \A u \in Gets(msg, F[k]) : Held(F[k].decl, u, F[k].decl.server)
<1>1. k < Len(F) + 1 /\ Len(F) + 1 \in Nat
  BY CountsType
<1>2. ParamOK(F, g, msg, k, k < Len(F) + 1)
  BY <1>1, ParamsAre
<1>3. In(F[k]) => Carried(msg, F[k], Part(g, k, Counts(F)))
  BY <1>1, <1>2 DEF ParamOK
<1>4. QED
  BY <1>3, GotHeld

\* serverInvoke reads the next argument, or refuses it.
LEMMA StepPassField == CallInv /\ PassField => CallInv'
<1> SUFFICES ASSUME CallInv, PassField PROVE CallInv'
  OBVIOUS
<1>1. /\ method \in Methods /\ Compiles(method) /\ pc = "pass" /\ Paired(method, fields) /\ Idle
      /\ at \in 1..(Len(fields) + 1) /\ at <= Len(fields)
      /\ GivenOK(method, given) /\ ParamsOK(method, fields, given, params, Len(fields) + 1)
      /\ locals = Initial(method, given) /\ outcome = "none" /\ results = Message(method)
      /\ PassedOK(fields, params, passed, at)
  BY DEF CallInv, PassField, InPass, NotRead, Sent
<1>2. /\ method' = method /\ fields' = fields /\ ~Called' /\ outcome' = "none"
      /\ given' = given /\ locals' = locals /\ results' = results /\ params' = params
  BY <1>1 DEF PassField, Idle, Called
<1>3. Len(fields) \in Nat /\ at \in 1..Len(fields)
  <2>1. Len(fields) \in Nat
    BY <1>1, CountsType
  <2>2. QED
    BY <1>1, <2>1
<1>4. Sent' /\ NotRead'
  BY <1>1, <1>2 DEF Sent, NotRead
<1> DEFINE f == fields[at]
<1>5. NullPassed(f) <=> NullSent(params, f)
  BY DEF NullPassed, NullSent, Wanted
<1>6. thrown = "none"
  BY <1>1 DEF Idle
<1>61. PICK v \in Fresh(f.decl) :
      \/ /\ ~IsArgument(f) /\ at' = at + 1 /\ pc' = pc /\ passed' = passed /\ thrown' = thrown
      \/ /\ IsArgument(f) /\ NullPassed(f) /\ passed' = Append(passed, Null)
         /\ at' = at + 1 /\ pc' = pc /\ thrown' = thrown
      \/ /\ IsArgument(f) /\ ~NullPassed(f) /\ (In(f) => ~ReadThrows(params, f, v, f.decl.server))
         /\ passed' = passed \o (IF In(f) THEN ReadField(params, f, v, f.decl.server) ELSE v)
         /\ at' = at + 1 /\ pc' = pc /\ thrown' = thrown
      \/ /\ IsArgument(f) /\ ~NullPassed(f) /\ In(f) /\ ReadThrows(params, f, v, f.decl.server)
         /\ thrown' = "range_error" /\ pc' = "unwind" /\ at' = at - 1
  BY DEF PassField
<1> DEFINE u == IF In(f) THEN ReadField(params, f, v, f.decl.server) ELSE v
<1>7. IsArgument(f) => /\ ReadThrows(params, f, v, f.decl.server)
                            <=> ReadThrows(params, f, Default(f.decl), f.decl.server)
                       /\ ReadField(params, f, v, f.decl.server)
                            = ReadField(params, f, Default(f.decl), f.decl.server)
  <2>1. ASSUME IsArgument(f) PROVE Passable(f.decl)
    BY <1>1, <1>3, <2>1, ArgumentPassable
  <2>2. QED
    BY <2>1, FreshReads
<1>8. ASSUME at' = at + 1, pc' = pc, thrown' = thrown, PassedOK(fields, params, passed', at + 1)
      PROVE  CallInv'
  <2>1. pc' = "pass" /\ Idle'
    BY <1>1, <1>2, <1>6, <1>8 DEF Idle
  <2>2. at' \in 1..(Len(fields') + 1) /\ at' \in Nat
    BY <1>2, <1>3, <1>8
  <2>3. PassedOK(fields', params', passed', at') /\ results' = Message(method')
    BY <1>1, <1>2, <1>8
  <2>4. InPass'
    BY <1>4, <2>1, <2>2, <2>3 DEF InPass
  <2>5. InGenerate' /\ InDeclared' /\ InBuild' /\ InUnwind' /\ InRead' /\ InReturned'
    BY <2>1, Elsewhere
  <2>6. QED
    BY <1>1, <1>2, <2>1, <2>2, <2>4, <2>5 DEF CallInv
<1>9. CASE ~IsArgument(f) /\ at' = at + 1 /\ pc' = pc /\ passed' = passed /\ thrown' = thrown
  <2>1. PassedOK(fields, params, passed, at + 1)
    BY <1>1, <1>3, <1>9, PassSkip
  <2>2. QED
    BY <1>8, <1>9, <2>1
<1>10. ASSUME IsArgument(f), ~Refuses(params, f), NEW w \in Gets(params, f), passed' = passed \o w
       PROVE  PassedOK(fields, params, passed', at + 1)
  <2>1. Held(f.decl, w, f.decl.server)
    BY <1>1, <1>3, <1>10, GotIs
  <2>2. w \in Seq(Slots) /\ Len(w) = f.decl.count
    BY <2>1 DEF Held
  <2>3. QED
    BY <1>1, <1>3, <1>10, <2>2, PassStep
<1>11. CASE /\ IsArgument(f) /\ NullPassed(f) /\ passed' = Append(passed, Null)
            /\ at' = at + 1 /\ pc' = pc /\ thrown' = thrown
  <2>1. <<Null>> \in Gets(params, f) /\ ~Refuses(params, f)
    BY <1>5, <1>11 DEF Gets, Refuses
  <2>2. Append(passed, Null) = passed \o <<Null>>
    <3>1. passed \in Seq(Slots) /\ Null \in Slots
      BY <1>1 DEF PassedOK, Slots
    <3>2. QED
      BY <3>1, AppendIsConcat
  <2>3. PassedOK(fields, params, passed', at + 1)
    BY <1>10, <1>11, <2>1, <2>2
  <2>4. QED
    BY <1>8, <1>11, <2>3
<1>12. CASE /\ IsArgument(f) /\ ~NullPassed(f) /\ (In(f) => ~ReadThrows(params, f, v, f.decl.server))
            /\ passed' = passed \o u
            /\ at' = at + 1 /\ pc' = pc /\ thrown' = thrown
  <2>1. u \in Gets(params, f)
    BY <1>5, <1>7, <1>12 DEF Gets
  <2>2. ~Refuses(params, f)
    BY <1>5, <1>7, <1>12 DEF Refuses
  <2>3. PassedOK(fields, params, passed', at + 1)
    BY <1>10, <1>12, <2>1, <2>2
  <2>4. QED
    BY <1>8, <1>12, <2>3
<1>13. CASE /\ IsArgument(f) /\ ~NullPassed(f) /\ In(f) /\ ReadThrows(params, f, v, f.decl.server)
            /\ thrown' = "range_error" /\ pc' = "unwind" /\ at' = at - 1
  <2>1. Refuses(params, fields[at])
    BY <1>5, <1>7, <1>13 DEF Refuses
  <2>2. at' \in 0..Len(fields) /\ at' \in Nat
    BY <1>3, <1>13
  <2>3. \E k \in 1..Len(fields') : Refuses(params', fields'[k])
    BY <1>2, <1>3, <2>1
  <2>4. Refused'
    BY <1>2, <1>13, <2>3 DEF Refused
  <2>5. InUnwind'
    BY <1>2, <1>4, <2>2, <2>4 DEF InUnwind
  <2>6. InGenerate' /\ InDeclared' /\ InBuild' /\ InPass' /\ InRead' /\ InReturned'
    BY <1>13, Elsewhere
  <2>7. QED
    BY <1>1, <1>2, <1>13, <2>2, <2>5, <2>6 DEF CallInv
<1>14. QED
  BY <1>61, <1>9, <1>11, <1>12, <1>13

\* serverInvoke runs the method.
LEMMA StepCall == CallInv /\ Call => CallInv'
<1> SUFFICES ASSUME CallInv, Call PROVE CallInv'
  OBVIOUS
<1>1. /\ method \in Methods /\ Compiles(method) /\ pc = "pass" /\ Paired(method, fields)
      /\ at \in 1..(Len(fields) + 1) /\ at > Len(fields)
      /\ GivenOK(method, given) /\ ParamsOK(method, fields, given, params, Len(fields) + 1)
      /\ locals = Initial(method, given) /\ outcome = "none" /\ results = Message(method)
      /\ PassedOK(fields, params, passed, at)
  BY DEF CallInv, Call, InPass, NotRead, Sent
<1>2. /\ method' = method /\ fields' = fields /\ outcome' = "none"
      /\ given' = given /\ locals' = locals /\ results' = results /\ params' = params
      /\ pc' = "unwind" /\ at' = Len(fields) /\ seen' = passed
  BY <1>1 DEF Call
<1>3. Len(fields) \in Nat /\ at = Len(fields) + 1
  <2>1. Len(fields) \in Nat
    BY <1>1, CountsType
  <2>2. QED
    BY <1>1, <2>1
<1>4. Sent' /\ NotRead'
  BY <1>1, <1>2 DEF Sent, NotRead
<1>5. PICK after \in Tuples([n \in DOMAIN passed |-> Writes(CxxParams(method)[n], passed[n])]),
           result \in Results(method), e \in Exceptions(method) \union {"none"} :
          /\ effect' = [after |-> after, result |-> result, thrown |-> e]
          /\ passed' = after
          /\ thrown' = e
  BY DEF Call
<1> DEFINE eff == [after |-> after, result |-> result, thrown |-> e]
<1>6. MethodOK(method, fields, params, passed, eff)
  BY <1>1, <1>3, MethodStart
<1>7. eff.after = after /\ eff.thrown = e
  OBVIOUS
<1>8. e # "not_called"
  BY DEF Exceptions
<1>9. ResultsOK(method, fields, eff, Message(method), Len(fields))
  BY <1>1, ResultsStart
<1>10. Flying(fields, e, Len(fields)) = e /\ (e = "none" => SomeCaught(fields, e, Len(fields)))
  <2>1. (Len(fields) + 1)..Len(fields) = {}
    BY <1>3
  <2>2. QED
    BY <2>1 DEF Flying, SomeCaught
<1>11. effect' = eff
  BY <1>5
<1> HIDE DEF eff
<1>12. Ran'
  <2>1. Called'
    BY <1>7, <1>8, <1>11 DEF Called
  <2>2. MethodOK(method', fields', params', seen', effect')
    BY <1>2, <1>6, <1>11
  <2>3. QED
    BY <2>1, <2>2 DEF Ran
<1>13. InUnwind'
  <2>1. passed' = effect'.after /\ thrown' = Flying(fields', effect'.thrown, at')
    BY <1>2, <1>5, <1>7, <1>10, <1>11
  <2>2. thrown' = "none" => SomeCaught(fields', effect'.thrown, at')
    BY <1>2, <1>5, <1>7, <1>10, <1>11
  <2>3. ResultsOK(method', fields', effect', results', at')
    BY <1>1, <1>2, <1>9, <1>11
  <2>4. at' \in 0..Len(fields')
    BY <1>2, <1>3
  <2>5. QED
    BY <1>4, <1>12, <2>1, <2>2, <2>3, <2>4 DEF InUnwind
<1>14. InGenerate' /\ InDeclared' /\ InBuild' /\ InPass' /\ InRead' /\ InReturned'
  BY <1>2, Elsewhere
<1>15. QED
  BY <1>1, <1>2, <1>3, <1>13, <1>14 DEF CallInv

\* The code of a field is left on the way out of serverInvoke.
LEMMA StepUnwind == CallInv /\ Unwind => CallInv'
<1> SUFFICES ASSUME CallInv, Unwind PROVE CallInv'
  OBVIOUS
<1>1. /\ method \in Methods /\ Compiles(method) /\ pc = "unwind" /\ Paired(method, fields)
      /\ at \in 0..Len(fields) /\ at > 0 /\ Sent /\ NotRead
      /\ \/ Refused
         \/ /\ Ran /\ passed = effect.after
            /\ thrown = Flying(fields, effect.thrown, at)
            /\ thrown = "none" => SomeCaught(fields, effect.thrown, at)
            /\ ResultsOK(method, fields, effect, results, at)
  BY DEF CallInv, Unwind, InUnwind
<1>2. /\ method' = method /\ fields' = fields /\ outcome' = outcome /\ effect' = effect
      /\ given' = given /\ locals' = locals /\ params' = params /\ passed' = passed /\ seen' = seen
      /\ pc' = "unwind" /\ at' = at - 1
  BY <1>1 DEF Unwind
<1>3. Len(fields) \in Nat /\ at \in 1..Len(fields) /\ at - 1 \in 0..Len(fields) /\ at - 1 \in Nat
  <2>1. Len(fields) \in Nat
    BY <1>1, CountsType
  <2>2. QED
    BY <1>1, <2>1
<1>4. Sent' /\ NotRead'
  BY <1>1, <1>2 DEF Sent, NotRead
<1> DEFINE f == fields[at]
<1>5. /\ results' = Unwound(fields, effect, results, at, thrown) \/ ~Ran \/ passed # effect.after
      /\ thrown' = IF IsException(f) /\ Catches(f.decl.name, thrown) THEN "none" ELSE thrown
  <2>1. ServerArgs = Counts(fields)
    BY <1>1, CountsAre
  <2>2. CASE IsException(f)
    BY <2>2 DEF Unwind, Unwound
  <2>3. CASE ~IsException(f)
    <3>1. /\ thrown' = thrown
          /\ results' = IF ~BuildsOutput(f) \/ ~Out(f) THEN results
                        ELSE IF f.retval THEN BuildField(results, f, effect.result)
                        ELSE BuildField(results, f, Split(passed, at, ServerArgs))
      BY <2>3 DEF Unwind
    <3>2. BuildsOutput(f) <=> thrown = "none"
      BY DEF BuildsOutput
    <3>3. passed = effect.after => results' = Unwound(fields, effect, results, at, thrown)
      BY <2>1, <2>3, <3>1, <3>2 DEF Unwound
    <3>4. QED
      BY <2>3, <3>1, <3>3
  <2>4. QED
    BY <2>2, <2>3
<1>6. InUnwind'
  <2>1. CASE Refused
    <3>1. ~Called /\ thrown = "range_error" /\ \E k \in 1..Len(fields) : Refuses(params, fields[k])
      BY <2>1 DEF Refused
    <3>2. thrown' = "range_error"
      <4>1. ASSUME IsException(f) PROVE ~Catches(f.decl.name, "range_error")
        <5>1. ExceptionFacts(method, fields, at)
          BY <1>1, <1>3, <4>1, ExceptionFieldIs
        <5>2. f.decl.name \in {"base", "derived"}
          BY <5>1 DEF ExceptionFacts
        <5>3. QED
          BY <5>2 DEF Catches
      <4>2. QED
        BY <1>5, <3>1, <4>1
    <3>3. Refused'
      BY <1>2, <3>1, <3>2 DEF Refused, Called
    <3>4. QED
      BY <1>2, <1>3, <1>4, <3>3 DEF InUnwind
  <2>2. CASE /\ Ran /\ passed = effect.after
             /\ thrown = Flying(fields, effect.thrown, at)
             /\ thrown = "none" => SomeCaught(fields, effect.thrown, at)
             /\ ResultsOK(method, fields, effect, results, at)
    <3> DEFINE x == effect.thrown
    <3>1. results' = Unwound(fields, effect, results, at, Flying(fields, x, at))
      BY <1>5, <2>2
    <3>2. effect.after \in Seq(Slots) /\ Len(effect.after) = Len(CxxParams(method))
      BY <2>2 DEF Ran, MethodOK
    <3>3. ResultsOK(method, fields, effect, results', at - 1)
      <4>1. ResultsOK(method, fields, effect, Unwound(fields, effect, results, at, Flying(fields, effect.thrown, at)), at - 1)
        BY <1>1, <1>3, <2>2, <3>2, UnwindStep
      <4>2. QED
        BY <3>1, <4>1
    <3>4. /\ IsException(fields[at]) => (Catches(fields[at].decl.name, Flying(fields, x, at)) <=> Caught(fields, x, at))
          /\ Flying(fields, x, at - 1) = IF Caught(fields, x, at) THEN "none" ELSE Flying(fields, x, at)
          /\ SomeCaught(fields, x, at) => SomeCaught(fields, x, at - 1)
          /\ Caught(fields, x, at) => SomeCaught(fields, x, at - 1)
          /\ Caught(fields, x, at) => IsException(fields[at])
      BY <1>1, <1>3, FlyingIs
    <3>5. thrown' = Flying(fields, x, at - 1)
      <4>1. IsException(f) /\ Catches(f.decl.name, thrown) <=> Caught(fields, x, at)
        BY <2>2, <3>4
      <4>2. QED
        BY <1>5, <2>2, <3>4, <4>1
    <3>6. thrown' = "none" => SomeCaught(fields, x, at - 1)
      BY <2>2, <3>4, <3>5
    <3>7. Ran'
      BY <1>2, <2>2 DEF Ran, Called
    <3>8. passed' = effect'.after /\ thrown' = Flying(fields', effect'.thrown, at')
      BY <1>2, <2>2, <3>5
    <3>9. thrown' = "none" => SomeCaught(fields', effect'.thrown, at')
      BY <1>2, <3>6
    <3>10. ResultsOK(method', fields', effect', results', at')
      BY <1>2, <3>3
    <3>11. at' \in 0..Len(fields')
      BY <1>2, <1>3
    <3>12. QED
      BY <1>4, <3>7, <3>8, <3>9, <3>10, <3>11 DEF InUnwind
  <2>3. QED
    BY <1>1, <2>1, <2>2
<1>7. InGenerate' /\ InDeclared' /\ InBuild' /\ InPass' /\ InRead' /\ InReturned'
  BY <1>2, Elsewhere
<1>8. QED
  BY <1>1, <1>2, <1>3, <1>6, <1>7 DEF CallInv

----------------------------------------------------------------------------
(* The response, and the invariant as a whole.                             *)

\* serverInvoke has left the code of every field.
LEMMA StepRespond == CallInv /\ Respond => CallInv'
<1> SUFFICES ASSUME CallInv, Respond PROVE CallInv'
  OBVIOUS
<1>1. /\ method \in Methods /\ Compiles(method) /\ pc = "unwind" /\ Paired(method, fields)
      /\ at = 0 /\ Sent /\ NotRead
      /\ \/ Refused
         \/ /\ Ran /\ thrown = Flying(fields, effect.thrown, at)
            /\ thrown = "none" => SomeCaught(fields, effect.thrown, at)
            /\ ResultsOK(method, fields, effect, results, at)
  BY DEF CallInv, Respond, InUnwind
<1>2. /\ method' = method /\ fields' = fields /\ effect' = effect
      /\ given' = given /\ locals' = locals /\ params' = params /\ seen' = seen /\ thrown' = thrown
      /\ results' = results
  BY DEF Respond
<1>3. Sent'
  BY <1>1, <1>2 DEF Sent
<1>4. Len(fields) \in Nat
  BY <1>1, CountsType
<1>5. CASE thrown = "none" /\ pc' = "read" /\ at' = 1 /\ outcome' = outcome
  <2>1. Answered'
    <3>1. ~Refused
      BY <1>5 DEF Refused
    <3>2. Ran' /\ SomeCaught(fields', effect'.thrown, 0) /\ ResultsOK(method', fields', effect', results', 0)
      BY <1>1, <1>2, <1>5, <3>1 DEF Ran, Called
    <3>3. QED
      BY <1>2, <1>5, <3>2 DEF Answered
  <2>2. ReadOK(method, fields, given, results, locals, 1)
    <3>1. locals = Initial(method, given) /\ GivenOK(method, given)
      BY <1>1 DEF NotRead, Sent
    <3>2. QED
      BY <1>1, <3>1, ReadStart
  <2>3. ReadOK(method', fields', given', results', locals', at')
    BY <1>2, <1>5, <2>2
  <2>4. at' \in 1..(Len(fields') + 1) /\ outcome' = "none"
    BY <1>1, <1>2, <1>4, <1>5 DEF NotRead
  <2>5. \A k \in 1..(at' - 1) : FALSE
    BY <1>5
  <2>6. InRead'
    BY <1>3, <2>1, <2>3, <2>4, <2>5 DEF InRead, ReadUpTo
  <2>7. InGenerate' /\ InDeclared' /\ InBuild' /\ InPass' /\ InUnwind' /\ InReturned'
    BY <1>5, Elsewhere
  <2>8. QED
    BY <1>1, <1>2, <1>5, <2>6, <2>7 DEF CallInv
<1>6. CASE thrown # "none" /\ pc' = "returned" /\ at' = 0 /\ outcome' = "error"
  <2>1. InReturned'
    <3>1. CASE Refused
      <4>1. Refused'
        BY <1>2, <3>1 DEF Refused, Called
      <4>2. QED
        BY <1>3, <1>6, <4>1 DEF InReturned
    <3>2. CASE Ran /\ thrown = Flying(fields, effect.thrown, at)
      <4>1. Ran' /\ locals' = Initial(method', given')
        BY <1>1, <1>2, <3>2 DEF Ran, Called, NotRead
      <4>2. thrown' = Flying(fields', effect'.thrown, 0) /\ thrown' # "none"
        BY <1>1, <1>2, <1>6, <3>2
      <4>3. QED
        BY <1>3, <1>6, <4>1, <4>2 DEF InReturned
    <3>3. QED
      BY <1>1, <3>1, <3>2
  <2>2. InGenerate' /\ InDeclared' /\ InBuild' /\ InPass' /\ InUnwind' /\ InRead'
    BY <1>6, Elsewhere
  <2>3. QED
    BY <1>1, <1>2, <1>6, <2>1, <2>2 DEF CallInv
<1>7. QED
  BY <1>5, <1>6 DEF Respond

\* What a step that reads leaves alone.
LEMMA ReadingIs ==
    ASSUME CallInv, pc = "read", method' = method, fields' = fields, effect' = effect,
           given' = given, params' = params, seen' = seen, thrown' = thrown, results' = results
    PROVE  /\ method \in Methods /\ Compiles(method) /\ Paired(method, fields)
           /\ at \in 1..(Len(fields) + 1) /\ Len(fields) \in Nat
           /\ GivenOK(method, given) /\ ParamsOK(method, fields, given, params, Len(fields) + 1)
           /\ MethodOK(method, fields, params, seen, effect)
           /\ SomeCaught(fields, effect.thrown, 0)
           /\ ResultsOK(method, fields, effect, results, 0)
           /\ \A k \in 1..(at - 1) : ~Caught(fields, effect.thrown, k)
           /\ ReadOK(method, fields, given, results, locals, at)
           /\ outcome = "none"
           /\ Sent' /\ Answered'
<1>1. /\ method \in Methods /\ Compiles(method) /\ Paired(method, fields)
      /\ at \in 1..(Len(fields) + 1) /\ Sent /\ Answered /\ ReadUpTo(at) /\ outcome = "none"
  BY DEF CallInv, InRead
<1>2. Len(fields) \in Nat
  BY <1>1, CountsType
<1>3. Sent' /\ Answered'
  BY <1>1 DEF Sent, Answered, Ran, Called
<1>4. QED
  BY <1>1, <1>2, <1>3 DEF Sent, Answered, Ran, ReadUpTo

\* clientInvoke reads the next output, or throws.
LEMMA StepReadResults == CallInv /\ ReadResults => CallInv'
<1> SUFFICES ASSUME CallInv, ReadResults PROVE CallInv'
  OBVIOUS
<1>1. /\ pc = "read" /\ at <= Len(fields)
      /\ method' = method /\ fields' = fields /\ effect' = effect
      /\ given' = given /\ params' = params /\ seen' = seen /\ thrown' = thrown /\ results' = results
  BY DEF ReadResults
<1>2. /\ method \in Methods /\ Compiles(method) /\ Paired(method, fields)
      /\ at \in 1..(Len(fields) + 1) /\ Len(fields) \in Nat
      /\ GivenOK(method, given) /\ ParamsOK(method, fields, given, params, Len(fields) + 1)
      /\ MethodOK(method, fields, params, seen, effect)
      /\ SomeCaught(fields, effect.thrown, 0)
      /\ ResultsOK(method, fields, effect, results, 0)
      /\ \A k \in 1..(at - 1) : ~Caught(fields, effect.thrown, k)
      /\ ReadOK(method, fields, given, results, locals, at)
      /\ outcome = "none"
      /\ Sent' /\ Answered'
  BY <1>1, ReadingIs
<1>3. at \in 1..Len(fields)
  BY <1>1, <1>2
<1> DEFINE f == fields[at]
           v == Split(locals, at, ClientArgs)
           i == Part(Initial(method, given), at, ClientCounts(fields))
           reads == Out(f) /\ ~f.exception
<1>4. \/ /\ IsException(f) /\ HasField(results, f)
         /\ outcome' = f.decl.name /\ pc' = "returned" /\ at' = 0 /\ locals' = locals
      \/ /\ reads /\ ReadThrows(results, f, v, f.decl.client)
         /\ outcome' = "error" /\ pc' = "returned" /\ at' = 0 /\ locals' = locals
      \/ /\ ~(IsException(f) /\ HasField(results, f))
         /\ ~(reads /\ ReadThrows(results, f, v, f.decl.client))
         /\ locals' = IF ~reads THEN locals
                      ELSE Replace(locals, at, ClientArgs, ReadField(results, f, v, f.decl.client))
         /\ at' = at + 1 /\ pc' = pc /\ outcome' = outcome
  BY DEF ReadResults
<1>5. ClientArgs = ClientCounts(fields)
  BY <1>2, CountsAre
<1>6. reads => (IsArgument(f) \/ IsResult(f)) /\ ~IsException(f)
  BY DEF Out, IsArgument, IsResult, IsException
<1>7. reads => v = i
  <2>1. ASSUME reads PROVE Split(locals, at, ClientCounts(fields)) = i
    BY <1>2, <1>3, <1>6, <2>1, ReadSplit
  <2>2. QED
    BY <1>5, <2>1
<1>8. IsException(f) => (HasField(results, f) <=> Caught(fields, effect.thrown, at))
  BY <1>2, <1>3, HasException
<1>9. ASSUME pc' = "returned", at' = 0, locals' = locals,
             \/ Caught(fields, effect.thrown, at) /\ outcome' = f.decl.name
             \/ /\ outcome' = "error" /\ Out(f) /\ ~IsException(f)
                /\ ReadThrows(results, f, i, f.decl.client)
      PROVE  CallInv'
  <2>1. /\ \A k \in 1..(at - 1) : ~Caught(fields', effect'.thrown, k)
        /\ ReadOK(method', fields', given', results', locals', at)
        /\ at \in 1..(Len(fields') + 1) /\ at <= Len(fields')
    BY <1>1, <1>2, <1>9
  <2>2. \/ Caught(fields', effect'.thrown, at) /\ outcome' = fields'[at].decl.name
        \/ /\ outcome' = "error" /\ Out(fields'[at]) /\ ~IsException(fields'[at])
           /\ ReadThrows(results', fields'[at], Part(Initial(method', given'), at, ClientCounts(fields')), fields'[at].decl.client)
    BY <1>1, <1>9
  <2>3. InReturned'
    BY <1>2, <2>1, <2>2 DEF InReturned, ReadUpTo, StoppedAt
  <2>4. InGenerate' /\ InDeclared' /\ InBuild' /\ InPass' /\ InUnwind' /\ InRead'
    BY <1>9, Elsewhere
  <2>5. QED
    BY <1>1, <1>2, <1>9, <2>3, <2>4 DEF CallInv
<1>10. ASSUME pc' = pc, at' = at + 1, outcome' = outcome, ~Caught(fields, effect.thrown, at),
              ReadOK(method, fields, given, results, locals', at + 1)
       PROVE  CallInv'
  <2>1. at' \in 1..(Len(fields') + 1) /\ at' \in Nat /\ pc' = "read" /\ outcome' = "none"
    BY <1>1, <1>2, <1>3, <1>10
  <2>2. ReadOK(method', fields', given', results', locals', at')
    BY <1>1, <1>10
  <2>3. \A k \in 1..(at' - 1) : ~Caught(fields', effect'.thrown, k)
    <3>1. \A k \in 1..(at' - 1) : k = at \/ k \in 1..(at - 1)
      BY <1>3, <1>10
    <3>2. QED
      BY <1>1, <1>2, <1>10, <3>1
  <2>4. InRead'
    BY <1>2, <2>1, <2>2, <2>3 DEF InRead, ReadUpTo
  <2>5. InGenerate' /\ InDeclared' /\ InBuild' /\ InPass' /\ InUnwind' /\ InReturned'
    BY <2>1, Elsewhere
  <2>6. QED
    BY <1>1, <1>2, <2>1, <2>4, <2>5 DEF CallInv
<1>11. Caught(fields, effect.thrown, at) => IsException(f)
  BY <1>2, <1>3, FlyingIs
<1>12. CASE /\ IsException(f) /\ HasField(results, f)
            /\ outcome' = f.decl.name /\ pc' = "returned" /\ at' = 0 /\ locals' = locals
  BY <1>8, <1>9, <1>12
<1>13. CASE /\ reads /\ ReadThrows(results, f, v, f.decl.client)
            /\ outcome' = "error" /\ pc' = "returned" /\ at' = 0 /\ locals' = locals
  <2>1. Out(f) /\ ~IsException(f) /\ ReadThrows(results, f, i, f.decl.client)
    BY <1>6, <1>7, <1>13
  <2>2. QED
    BY <1>9, <1>13, <2>1
<1>14. CASE /\ ~(IsException(f) /\ HasField(results, f))
            /\ ~(reads /\ ReadThrows(results, f, v, f.decl.client))
            /\ locals' = IF ~reads THEN locals
                         ELSE Replace(locals, at, ClientArgs, ReadField(results, f, v, f.decl.client))
            /\ at' = at + 1 /\ pc' = pc /\ outcome' = outcome
  <2>1. ~Caught(fields, effect.thrown, at)
    BY <1>8, <1>11, <1>14
  <2>2. CASE ~reads
    <3>1. ReadOK(method, fields, given, results, locals, at + 1)
      BY <1>2, <1>3, <2>2, ReadSkip
    <3>2. locals' = locals
      BY <1>14, <2>2
    <3>3. QED
      BY <1>10, <1>14, <2>1, <3>1, <3>2
  <2>3. CASE reads
    <3> DEFINE r == ReadField(results, f, i, f.decl.client)
               w == OutValue(fields, effect, at)
    <3>1. IsArgument(f) \/ IsResult(f)
      BY <1>6, <2>3
    <3>2. Out(f) /\ ~IsException(f)
      BY <1>6, <2>3
    <3>3. Carried(results, f, w)
      BY <1>2, <1>3, <3>2, CarriedResult
    <3>4. Held(f.decl, w, f.decl.server)
      BY <1>2, <1>3, <3>1, OutHeld
    <3>5. Held(f.decl, i, f.decl.client)
      BY <1>2, <1>3, <3>1, InitialHeld
    <3>6. Passable(f.decl) /\ f.decl.client \in IntType /\ f.decl.server \in IntType
      <4>1. CASE IsArgument(f)
        BY <1>2, <1>3, <4>1, ArgumentPassable
      <4>2. CASE IsResult(f)
        BY <1>2, <1>3, <4>2, ResultPassable
      <4>3. QED
        BY <3>1, <4>1, <4>2
    <3>7. Held(f.decl, r, f.decl.client)
      <4> DEFINE d == f.decl
      <4>1. /\ Passable(d) /\ d.client \in IntType /\ d.server \in IntType /\ f.decl = d
            /\ Carried(results, f, w) /\ Held(d, w, d.server) /\ Held(d, i, d.client)
        BY <3>3, <3>4, <3>5, <3>6
      <4> HIDE DEF d, f, w, i
      <4>2. Held(d, ReadField(results, f, i, d.client), d.client)
        BY <4>1, ReadHeld
      <4>3. QED
        BY <4>1, <4>2 DEF d
    <3>8. ~ReadThrows(results, f, i, f.decl.client)
      BY <1>7, <1>14, <2>3
    <3>9. ReadOK(method, fields, given, results, Replace(locals, at, ClientCounts(fields), r), at + 1)
      BY <1>2, <1>3, <3>1, <3>2, <3>7, <3>8, ReadStep
    <3>10. locals' = Replace(locals, at, ClientCounts(fields), r)
      BY <1>5, <1>7, <1>14, <2>3
    <3>11. ReadOK(method, fields, given, results, locals', at + 1)
      BY <3>9, <3>10
    <3>12. QED
      BY <1>10, <1>14, <2>1, <3>11
  <2>4. QED
    BY <2>2, <2>3
<1>15. QED
  BY <1>4, <1>12, <1>13, <1>14

\* clientInvoke has read every output.
LEMMA StepReturn == CallInv /\ Return => CallInv'
<1> SUFFICES ASSUME CallInv, Return PROVE CallInv'
  OBVIOUS
<1>1. /\ pc = "read" /\ at > Len(fields)
      /\ method' = method /\ fields' = fields /\ effect' = effect
      /\ given' = given /\ params' = params /\ seen' = seen /\ thrown' = thrown /\ results' = results
      /\ locals' = locals /\ pc' = "returned" /\ at' = 0 /\ outcome' = "returned"
  BY DEF Return
<1>2. /\ method \in Methods /\ Compiles(method) /\ Paired(method, fields)
      /\ at \in 1..(Len(fields) + 1) /\ Len(fields) \in Nat
      /\ \A k \in 1..(at - 1) : ~Caught(fields, effect.thrown, k)
      /\ ReadOK(method, fields, given, results, locals, at)
      /\ Sent' /\ Answered'
  BY <1>1, ReadingIs
<1>3. at = Len(fields) + 1
  BY <1>1, <1>2
<1>4. /\ \A k \in 1..(at - 1) : ~Caught(fields', effect'.thrown, k)
      /\ ReadOK(method', fields', given', results', locals', at)
      /\ at \in 1..(Len(fields') + 1) /\ at = Len(fields') + 1 /\ outcome' = "returned"
  BY <1>1, <1>2, <1>3
<1>5. InReturned'
  BY <1>2, <1>4 DEF InReturned, ReadUpTo, StoppedAt
<1>6. InGenerate' /\ InDeclared' /\ InBuild' /\ InPass' /\ InUnwind' /\ InRead'
  BY <1>1, Elsewhere
<1>7. QED
  BY <1>1, <1>2, <1>5, <1>6 DEF CallInv

\* The invariant is about the variables of the call only.
LEMMA StepNothing == CallInv /\ UNCHANGED vars => CallInv'
BY DEF CallInv, vars, InGenerate, InDeclared, InBuild, InPass, InUnwind, InRead, InReturned,
       ReadUpTo, StoppedAt, Refused, Sent, Idle, NotRead, Ran, Answered, Called

\* Every step keeps the invariant of a call.
LEMMA InvNext == CallInv /\ [Next]_vars => CallInv'
BY StepAddField, StepMergeFields, StepInvoke, StepBuildParams, StepSend, StepPassField, StepCall,
   StepUnwind, StepRespond, StepReadResults, StepReturn, StepNothing DEF Next, Terminated

\* The invariant of a call, from which the rest follows.
THEOREM CallInvariant == Spec => []CallInv
<1>1. QED
  BY InvInit, InvNext, PTL DEF Spec

----------------------------------------------------------------------------
(* The types of the variables.                                             *)

\* The method has as many arguments as its signature.
LEMMA SeenAll ==
    ASSUME NEW m \in Methods, NEW F, Paired(m, F), NEW g, GivenOK(m, g), NEW msg, NEW s, NEW e,
           MethodOK(m, F, msg, s, e)
    PROVE  /\ Len(s) = Len(g) /\ Len(s) = Len(CxxParams(m)) /\ Len(e.after) = Len(g)
           /\ s \in Seq(Slots) /\ g \in Seq(Slots) /\ e.after \in Seq(Slots) /\ Len(g) \in Nat
           /\ e.thrown \in {"none", "other", "base", "derived"}
<1>1. Len(s) = First(Len(F) + 1, Counts(F)) - 1 /\ Len(g) = Len(CxxParams(m))
      /\ s \in Seq(Slots) /\ g \in Seq(Slots) /\ e.after \in Seq(Slots) /\ Len(e.after) = Len(CxxParams(m))
  BY DEF MethodOK, PassedOK, GivenOK
<1>2. First(Len(F) + 1, Counts(F)) = Len(CxxParams(m)) + 1 /\ Len(CxxParams(m)) \in Nat
  BY ParamAt
<1>3. e.thrown \in {"none", "other", "base", "derived"}
  BY DEF MethodOK, Exceptions
<1>4. QED
  BY <1>1, <1>2, <1>3

\* Where the method has been called, it has run.
LEMMA CalledRan ==
    ASSUME CallInv, Called
    PROVE  /\ Sent /\ Ran /\ Paired(method, fields) /\ method \in Methods
           /\ pc \in {"unwind", "read", "returned"}
<1>1. pc \notin {"generate", "declared", "build", "pass"}
  BY DEF CallInv, InGenerate, InDeclared, InBuild, InPass, Idle
<1>2. method \in Methods /\ Paired(method, fields) /\ pc \in {"unwind", "read", "returned"}
  BY <1>1 DEF CallInv
<1>3. ~Refused
  BY DEF Refused
<1>4. CASE pc = "unwind"
  BY <1>2, <1>3, <1>4 DEF CallInv, InUnwind
<1>5. CASE pc = "read"
  BY <1>2, <1>5 DEF CallInv, InRead, Answered
<1>6. CASE pc = "returned"
  BY <1>2, <1>3, <1>6 DEF CallInv, InReturned, Answered
<1>7. QED
  BY <1>2, <1>4, <1>5, <1>6

\* What is left of an exception is one, or none.
LEMMA FlyingType ==
    ASSUME NEW F, NEW x, x \in {"none", "other", "base", "derived"}, NEW k
    PROVE  Flying(F, x, k) \in {"none", "other", "base", "derived"}
BY DEF Flying

\* The exceptions in the server.
LEMMA ThrownType ==
    ASSUME CallInv
    PROVE  thrown \in {"none", "other", "base", "derived", "range_error"}
<1>1. CASE pc \in {"generate", "declared", "build", "pass"}
  BY <1>1 DEF CallInv, InGenerate, InDeclared, InBuild, InPass, Idle
<1>2. CASE Refused
  BY <1>2 DEF Refused
<1>3. CASE thrown = "none"
  BY <1>3
<1>4. ASSUME Ran, Sent, method \in Methods, Paired(method, fields), NEW k,
             thrown = Flying(fields, effect.thrown, k)
      PROVE  thrown \in {"none", "other", "base", "derived"}
  <2>1. effect.thrown \in {"none", "other", "base", "derived"}
    <3>1. GivenOK(method, given) /\ MethodOK(method, fields, params, seen, effect)
      BY <1>4 DEF Sent, Ran
    <3>2. QED
      BY <1>4, <3>1, SeenAll
  <2>2. QED
    BY <1>4, <2>1, FlyingType
<1>5. CASE pc \in {"unwind", "read", "returned"}
  <2>1. method \in Methods /\ Paired(method, fields)
    BY <1>5 DEF CallInv
  <2>2. CASE pc = "unwind"
    <3>1. Refused \/ (Ran /\ Sent /\ thrown = Flying(fields, effect.thrown, at))
      BY <2>2 DEF CallInv, InUnwind
    <3>2. QED
      BY <1>2, <1>4, <2>1, <3>1
  <2>3. CASE pc = "read"
    BY <2>3 DEF CallInv, InRead, Answered
  <2>4. CASE pc = "returned"
    <3>1. Refused \/ (Ran /\ Sent /\ thrown = Flying(fields, effect.thrown, 0)) \/ thrown = "none"
      BY <2>4 DEF CallInv, InReturned, Answered
    <3>2. QED
      BY <1>2, <1>4, <2>1, <3>1
  <2>5. QED
    BY <1>5, <2>2, <2>3, <2>4
<1>6. QED
  BY <1>1, <1>5 DEF CallInv

\* How a call ends.
LEMMA OutcomeType ==
    ASSUME CallInv
    PROVE  outcome \in {"none", "returned", "error", "base", "derived"}
<1>1. CASE pc # "returned"
  BY <1>1 DEF CallInv, InGenerate, InDeclared, InBuild, InPass, InUnwind, InRead, Idle, NotRead
<1>2. CASE pc = "returned"
  <2>1. outcome = "error" \/ \E k \in 1..(Len(fields) + 1) : StoppedAt(k)
    BY <1>2 DEF CallInv, InReturned
  <2>2. ASSUME NEW k \in 1..(Len(fields) + 1), StoppedAt(k)
        PROVE  outcome \in {"returned", "error", "base", "derived"}
    <3>1. CASE k <= Len(fields) /\ Caught(fields, effect.thrown, k) /\ outcome = fields[k].decl.name
      <4>1. method \in Methods /\ Paired(method, fields) /\ Len(fields) \in Nat
        BY <1>2, CountsType DEF CallInv
      <4>2. k \in 1..Len(fields) /\ IsException(fields[k])
        BY <3>1, <4>1 DEF Caught, Handles
      <4>3. ExceptionFacts(method, fields, k)
        BY <4>1, <4>2, ExceptionFieldIs
      <4>4. QED
        BY <3>1, <4>3 DEF ExceptionFacts
    <3>2. QED
      BY <2>2, <3>1 DEF StoppedAt
  <2>3. QED
    BY <2>1, <2>2
<1>3. QED
  BY <1>1, <1>2

\* The invariant of a call gives the type of every variable.
LEMMA CallTypeOK == CallInv => TypeOK
<1> SUFFICES ASSUME CallInv PROVE TypeOK
  OBVIOUS
<1>1. pc \in {"generate", "declared", "build", "pass", "unwind", "read", "returned"} /\ at \in Nat
  BY DEF CallInv
<1>2. ASSUME pc # "generate"
      PROVE  CxxParams(method) =
                 FlattenSeq([k \in DOMAIN fields |-> [j \in 1..ServerArgs[k] |-> fields[k].decl]])
  <2>1. method \in Methods /\ Paired(method, fields)
    BY <1>2 DEF CallInv
  <2>2. ServerArgs = Counts(fields) /\ DOMAIN fields = 1..Len(fields)
    BY <2>1, CountsAre, LenProperties DEF Paired
  <2>3. [k \in DOMAIN fields |-> [j \in 1..ServerArgs[k] |-> fields[k].decl]] = DeclLists(fields)
    BY <2>2 DEF DeclLists
  <2>4. QED
    BY <2>1, <2>3, ArgsPaired
<1>3. ASSUME Called PROVE Len(seen) = Len(given)
  <2>1. Sent /\ Ran /\ Paired(method, fields) /\ method \in Methods
    BY <1>3, CalledRan
  <2>2. GivenOK(method, given) /\ MethodOK(method, fields, params, seen, effect)
    BY <2>1 DEF Sent, Ran
  <2>3. QED
    BY <2>1, <2>2, SeenAll
<1>4. QED
  BY <1>1, <1>2, <1>3, ThrownType, OutcomeType DEF TypeOK

\* The values of every variable; the fields that mpgen pairs are all the
\* parameters of the C++ method, each once and in order (FieldList::addField and
\* mergeFields), and the method is called with as many values as were passed.
THEOREM FieldsTypeOK == Spec => []TypeOK
<1>1. QED
  BY CallInvariant, CallTypeOK, PTL

----------------------------------------------------------------------------
(* What arrives.                                                           *)

\* The n-th parameter is the j-th value of the k-th field.
At(m, F, n, k, j) ==
    /\ k \in 1..Len(F) /\ IsArgument(F[k]) /\ j \in 1..F[k].decl.count
    /\ CxxParams(m)[n] = F[k].decl
    /\ \A s : Part(s, k, Counts(F))[j] = s[n]

\* Every parameter of the method is a value of a field.
LEMMA ParamOf ==
    ASSUME NEW m \in Methods, NEW F, Paired(m, F), NEW n \in 1..Len(CxxParams(m))
    PROVE  \E k, j : At(m, F, n, k, j)
<1> DEFINE c == Counts(F)
<1>1. PICK k \in 1..Len(F) : n - First(k, c) + 1 \in 1..c[k]
  BY ParamAt
<1>2. /\ First(k, c) \in Nat /\ c[k] \in Nat /\ n \in Nat
      /\ \A i \in 1..c[k] : CxxParams(m)[First(k, c) + i - 1] = F[k].decl
  <2>1. k \in 1..(Len(F) + 1)
    BY CountsType
  <2>2. QED
    BY <2>1, ParamAt
<1>3. IsArgument(F[k])
  <2>1. c[k] # 0
    BY <1>1, <1>2
  <2>2. QED
    BY <2>1, FieldCases
<1>4. c[k] = F[k].decl.count
  BY <1>3, ArgumentPassable
<1> DEFINE j == n - First(k, c) + 1
<1>5. First(k, c) + j - 1 = n /\ j \in 1..c[k]
  BY <1>1, <1>2
<1> HIDE DEF j
<1>6. \A s : Part(s, k, c)[j] = s[n]
  BY <1>5 DEF Part
<1>7. CxxParams(m)[n] = F[k].decl
  BY <1>2, <1>5
<1>8. At(m, F, n, k, j)
  BY <1>3, <1>4, <1>5, <1>6, <1>7 DEF At
<1>9. QED
  BY <1>8

\* The integer types of a declaration.
LEMMA CompiledTypes ==
    ASSUME NEW m \in Methods, Compiles(m), NEW F, Paired(m, F), NEW k \in 1..Len(F),
           IsArgument(F[k]) \/ IsResult(F[k])
    PROVE  /\ Accepted(F[k].decl.wire, F[k].decl.client) /\ Accepted(F[k].decl.wire, F[k].decl.server)
           /\ F[k].decl \in ToSet(m.args) \union ToSet(m.returns)
<1>1. F[k].decl \in ToSet(m.args) \union ToSet(m.returns)
  <2>1. CASE IsArgument(F[k])
    BY <2>1, ArgumentIs
  <2>2. CASE IsResult(F[k])
    <3>1. ResultFacts(m, F, k)
      BY <2>2, RetvalIs
    <3>2. QED
      BY <3>1 DEF ResultFacts
  <2>3. QED
    BY <2>1, <2>2
<1>2. QED
  BY <1>1 DEF Compiles

\* Integers of which none is refused are read as they were built.
LEMMA ReadUnaltered ==
    ASSUME NEW d, Passable(d), d.kind = "value", NEW f, f.decl = d, NEW s \in IntType, NEW t \in IntType,
           d.wire \in IntType, Accepted(d.wire, s), Accepted(d.wire, t), ~Unreadable(d.wire, s),
           NEW msg, NEW w, Carried(msg, f, w), Held(d, w, s), NEW v, ~ReadThrows(msg, f, v, t)
    PROVE  ReadField(msg, f, v, t) = w
<1> DEFINE W == Wire(msg, f)
<1>1. ReadsValue(msg, f, v)
  BY DEF ReadsValue
<1>2. w # <<Null>> /\ DOMAIN w = 1..d.count /\ w = [j \in 1..d.count |-> w[j]]
      /\ \A j \in 1..d.count : w[j] \in Values(s)
  BY HeldIs
<1>3. DOMAIN W = 1..d.count /\ \A j \in 1..d.count : W[j] = BuildPrimitive(w[j], d.wire)
  <2>1. /\ DOMAIN W = 1..d.count
        /\ w # <<Null>> => \A j \in 1..d.count : W[j] = BuildPrimitive(w[j], d.wire)
    BY WireIs
  <2> HIDE DEF W
  <2>2. QED
    BY <1>2, <2>1
<1>4. \A j \in 1..d.count : ~OutOfBound(W[j], d.wire, t)
  BY <1>1, <1>3 DEF ReadThrows
<1>5. ReadField(msg, f, v, t) = [j \in 1..d.count |-> ReadPrimitive(W[j], t)]
  BY <1>1, <1>3 DEF ReadField
<1> HIDE DEF W
<1>6. ASSUME NEW j \in 1..d.count PROVE ReadPrimitive(W[j], t) = w[j]
  <2>1. ~OutOfBound(BuildPrimitive(w[j], d.wire), d.wire, t) /\ w[j] \in Values(s)
    BY <1>2, <1>3, <1>4
  <2>2. ReadPrimitive(BuildPrimitive(w[j], d.wire), t) = w[j]
    BY <2>1, ReadIsBuiltOrRefused
  <2>3. QED
    BY <1>3, <2>2
<1>7. QED
  BY <1>2, <1>5, <1>6

\* Where the method was called no argument was refused.
LEMMA SeenIs ==
    ASSUME NEW m \in Methods, NEW F, Paired(m, F), NEW g, GivenOK(m, g), NEW msg, NEW s, NEW e,
           ParamsOK(m, F, g, msg, Len(F) + 1), MethodOK(m, F, msg, s, e),
           NEW n \in 1..Len(CxxParams(m)), NEW k, NEW j, At(m, F, n, k, j)
    PROVE  /\ ~Refuses(msg, F[k]) /\ \E u \in Gets(msg, F[k]) : s[n] = u[j]
           /\ e.after[n] \in Writes(F[k].decl, s[n])
<1>1. k \in 1..Len(F) /\ IsArgument(F[k]) /\ j \in 1..F[k].decl.count
      /\ CxxParams(m)[n] = F[k].decl /\ \A r : Part(r, k, Counts(F))[j] = r[n]
  BY DEF At
<1>2. k \in 1..((Len(F) + 1) - 1)
  BY <1>1, CountsType
<1>3. PassedOK(F, msg, s, Len(F) + 1) /\ e.after[n] \in Writes(CxxParams(m)[n], s[n])
  BY DEF MethodOK
<1>4. ~Refuses(msg, F[k]) /\ Part(s, k, Counts(F)) \in Gets(msg, F[k])
  BY <1>1, <1>2, <1>3 DEF PassedOK
<1>5. QED
  BY <1>1, <1>3, <1>4

\* The caller's variables, after a response without exceptions or errors.
LEMMA ReturnedIs ==
    ASSUME CallInv, outcome = "returned"
    PROVE  /\ Answered /\ Sent /\ Paired(method, fields) /\ method \in Methods
           /\ ReadUpTo(Len(fields) + 1)
           /\ pc = "returned" /\ Len(fields) \in Nat
<1>1. pc = "returned"
  BY DEF CallInv, InGenerate, InDeclared, InBuild, InPass, InUnwind, InRead, Idle, NotRead
<1>2. method \in Methods /\ Paired(method, fields) /\ Sent /\ Len(fields) \in Nat
  BY <1>1, CountsType DEF CallInv, InReturned
<1>3. Answered /\ \E k \in 1..(Len(fields) + 1) : ReadUpTo(k) /\ StoppedAt(k)
  BY <1>1 DEF CallInv, InReturned
<1>4. PICK k \in 1..(Len(fields) + 1) : ReadUpTo(k) /\ StoppedAt(k)
  BY <1>3
<1>5. k = Len(fields) + 1
  <2>1. CASE k <= Len(fields) /\ Caught(fields, effect.thrown, k) /\ outcome = fields[k].decl.name
    <3>1. k \in 1..Len(fields) /\ IsException(fields[k])
      BY <1>2, <2>1 DEF Caught, Handles
    <3>2. ExceptionFacts(method, fields, k)
      BY <1>2, <3>1, ExceptionFieldIs
    <3>3. QED
      BY <2>1, <3>2 DEF ExceptionFacts
  <2>2. QED
    BY <1>4, <2>1 DEF StoppedAt
<1>6. QED
  BY <1>1, <1>2, <1>3, <1>4, <1>5

\* What the caller finds in the variables for an argument that is read.
LEMMA LocalIs ==
    ASSUME NEW m \in Methods, NEW F, Paired(m, F), NEW g, GivenOK(m, g), NEW msg, NEW loc,
           NEW i, ReadOK(m, F, g, msg, loc, i),
           NEW n \in 1..Len(CxxParams(m)), NEW k, NEW j, At(m, F, n, k, j)
    PROVE  /\ k < i /\ Out(F[k]) =>
                  /\ ~ReadThrows(msg, F[k], Part(g, k, Counts(F)), F[k].decl.client)
                  /\ loc[n] = ReadField(msg, F[k], Part(g, k, Counts(F)), F[k].decl.client)[j]
           /\ ~(k < i /\ Out(F[k])) => loc[n] = g[n]
<1> DEFINE v == Part(g, k, Counts(F))
           E == ClientCounts(F)
<1>1. /\ k \in 1..Len(F) /\ IsArgument(F[k]) /\ j \in 1..F[k].decl.count
      /\ \A r : Part(r, k, Counts(F))[j] = r[n]
  BY DEF At
<1>2. Part(Initial(m, g), k, E) = v
  BY <1>1, InitialIs
<1>3. First(k, E) = First(k, Counts(F)) /\ E[k] = Counts(F)[k]
  <2>1. ~F[k].skip /\ ~IsResult(F[k])
    BY <1>1, ArgumentPassable
  <2>2. QED
    BY <1>1, <2>1, ClientIs
<1>4. Part(loc, k, E) = Part(loc, k, Counts(F))
  BY <1>3 DEF Part
<1>5. Part(loc, k, E)[j] = loc[n] /\ v[j] = g[n]
  BY <1>1, <1>4
<1>6. VariableOK(m, F, g, msg, loc, k, k < i)
  BY <1>1, VariablesAre
<1>7. QED
  BY <1>2, <1>5, <1>6 DEF VariableOK

----------------------------------------------------------------------------
\* The invariant of a call gives that no integer is altered.
LEMMA CallNeverAltered == CallInv => NeverAltered
<1> SUFFICES ASSUME CallInv,
                    NEW n \in DOMAIN given, NEW d, d = CxxParams(method)[n],
                    d.kind = "value", Carries(d)
             PROVE  /\ Called /\ d.dir # "out" => seen[n] = given[n]
                    /\ outcome = "returned" /\ d.dir # "in" => locals[n] = effect.after[n]
  BY DEF NeverAltered
<1>1. SUFFICES ASSUME Called \/ outcome = "returned"
               PROVE  /\ Called /\ d.dir # "out" => seen[n] = given[n]
                      /\ outcome = "returned" /\ d.dir # "in" => locals[n] = effect.after[n]
  OBVIOUS
<1>2. Called /\ Sent /\ Ran /\ Paired(method, fields) /\ method \in Methods
  BY <1>1, CalledRan, ReturnedIs DEF Answered, Ran
<1>3. /\ GivenOK(method, given) /\ ParamsOK(method, fields, given, params, Len(fields) + 1)
      /\ MethodOK(method, fields, params, seen, effect) /\ Compiles(method)
  BY <1>2 DEF Sent, Ran, CallInv
<1>4. n \in 1..Len(CxxParams(method))
  <2>1. given \in Seq(Slots) /\ Len(given) = Len(CxxParams(method))
    BY <1>3 DEF GivenOK
  <2>2. QED
    BY <2>1, LenProperties
<1>5. PICK k, j : At(method, fields, n, k, j)
  BY <1>2, <1>4, ParamOf
<1> DEFINE f == fields[k]
           v == Part(given, k, Counts(fields))
           w == Part(effect.after, k, Counts(fields))
<1>6. /\ k \in 1..Len(fields) /\ IsArgument(f) /\ j \in 1..f.decl.count /\ f.decl = d
      /\ v[j] = given[n] /\ w[j] = effect.after[n]
  BY <1>5 DEF At
<1>7. /\ Passable(d) /\ d.client \in IntType /\ d.server \in IntType /\ d.wire \in IntType
      /\ ~IsException(f) /\ ~IsResult(f)
  BY <1>2, <1>6, ArgumentPassable
<1>8. (In(f) <=> d.dir # "out") /\ (Out(f) <=> d.dir # "in")
  BY <1>2, <1>6, ArgumentIs
<1>9. /\ Accepted(d.wire, d.client) /\ Accepted(d.wire, d.server)
      /\ ~Unreadable(d.wire, d.client) /\ ~Unreadable(d.wire, d.server)
  BY <1>2, <1>3, <1>6, CompiledTypes DEF Carries
<1>10. ASSUME d.dir # "out" PROVE seen[n] = given[n]
  <2>1. Carried(params, f, v)
    BY <1>2, <1>3, <1>6, <1>8, <1>10, GotIs
  <2>2. Held(d, v, d.client)
    BY <1>2, <1>3, <1>6, GivenHeld
  <2>3. ~Refuses(params, f) /\ \E u \in Gets(params, f) : seen[n] = u[j]
    BY <1>2, <1>3, <1>4, <1>5, SeenIs
  <2>4. ~NullSent(params, f)
    BY <1>6 DEF NullSent
  <2>5. /\ ~ReadThrows(params, f, Default(d), d.server)
        /\ Gets(params, f) = {ReadField(params, f, Default(d), d.server)}
    BY <1>6, <1>8, <1>10, <2>3, <2>4 DEF Refuses, Gets
  <2> HIDE DEF f, v, w
  <2>6. ReadField(params, f, Default(d), d.server) = v
    BY <1>6, <1>7, <1>9, <2>1, <2>2, <2>5, ReadUnaltered
  <2>7. QED
    BY <1>6, <2>3, <2>5, <2>6
<1>11. ASSUME outcome = "returned", d.dir # "in" PROVE locals[n] = effect.after[n]
  <2>1. Answered /\ ReadUpTo(Len(fields) + 1) /\ Len(fields) \in Nat
    BY <1>11, ReturnedIs
  <2>2. /\ ResultsOK(method, fields, effect, results, 0) /\ SomeCaught(fields, effect.thrown, 0)
        /\ ReadOK(method, fields, given, results, locals, Len(fields) + 1)
        /\ \A l \in 1..((Len(fields) + 1) - 1) : ~Caught(fields, effect.thrown, l)
    BY <2>1 DEF Answered, ReadUpTo
  <2>3. \A l \in 1..(k - 1) : ~Caught(fields, effect.thrown, l)
    BY <1>6, <2>1, <2>2
  <2>4. Carried(results, f, OutValue(fields, effect, k))
    BY <1>2, <1>6, <1>7, <1>8, <1>11, <2>2, <2>3, CarriedResult
  <2>5. OutValue(fields, effect, k) = w
    BY <1>6 DEF OutValue, IsArgument
  <2>6. Held(d, w, d.server)
    BY <1>2, <1>3, <1>6, <2>5, OutHeld
  <2>7. k < Len(fields) + 1 /\ Out(f)
    BY <1>6, <1>8, <1>11, <2>1
  <2>8. /\ ~ReadThrows(results, f, v, d.client)
        /\ locals[n] = ReadField(results, f, v, d.client)[j]
    BY <1>2, <1>3, <1>4, <1>5, <1>6, <2>2, <2>7, LocalIs
  <2>9. Carried(results, f, w)
    BY <2>4, <2>5
  <2> HIDE DEF f, v, w
  <2>10. ReadField(results, f, v, d.client) = w
    BY <1>6, <1>7, <1>9, <2>6, <2>8, <2>9, ReadUnaltered
  <2>11. QED
    BY <1>6, <2>8, <2>10
<1>12. QED
  BY <1>10, <1>11

\* An integer that the method is given is the one the caller passed, and one that
\* the caller finds the one the method left, whatever integer types the processes
\* use: CustomReadField throws for all others ("out of bound int received").
THEOREM IntegersNeverAltered == Spec => []NeverAltered
<1>1. QED
  BY CallInvariant, CallNeverAltered, PTL

----------------------------------------------------------------------------
(* A call to a proxy is a local call.                                      *)

\* Every declared exception has a field, after those of the arguments.
LEMMA ExceptionFieldOf ==
    ASSUME NEW m \in Methods, NEW F, Paired(m, F), NEW j \in 1..Len(m.throws)
    PROVE  \E k \in 1..Len(F) : IsException(F[k]) /\ F[k].decl.name = m.throws[j]
<1> DEFINE D == Decls(m)
           i == Len(m.args) + j
<1>1. i \in 1..Len(D) /\ D[i] = Exception(m.throws[j])
  <2>1. /\ Len(m.args) \in Nat /\ Len(m.throws) \in Nat /\ Len(m.returns) \in {0, 1}
        /\ Len(D) = Len(m.args) + Len(m.throws) + Len(m.returns)
        /\ D[Len(m.args) + j] = Exception(m.throws[j])
    BY DeclsAre
  <2> DEFINE a == Len(m.args)
             x == Len(m.throws)
             r == Len(m.returns)
             n == Len(D)
  <2>2. a \in Nat /\ x \in Nat /\ r \in Nat /\ n = a + x + r /\ j \in 1..x
    BY <2>1
  <2> HIDE DEF a, x, r, n
  <2>3. a + j \in 1..n
    BY <2>2
  <2>4. QED
    BY <2>1, <2>3 DEF a, n
<1>2. m.throws[j] \in {"base", "derived"} /\ D[i].name = m.throws[j] /\ D[i].kind = "value"
  <2>1. m.throws[j] \in {"base", "derived"} /\ Exception(m.throws[j]).name = m.throws[j]
    BY Thrown
  <2>2. Exception(m.throws[j]).kind = "value"
    BY Zenon, ExceptionIs
  <2>3. QED
    BY <1>1, <2>1, <2>2
<1>3. PICK k \in 1..Len(F) : F[k].name = D[i].name
  BY <1>1 DEF Paired
<1>4. Declared(m, F[k], i)
  BY <1>1, <1>3 DEF Paired
<1> DEFINE f == F[k]
<1>5. f.decl = D[i] /\ (f.exception <=> f.name \in {"base", "derived"}) /\ (f.skip <=> D[i].kind = "skipped")
  BY <1>4 DEF Declared
<1>6. f.name = D[i].name
  BY <1>3
<1> HIDE DEF f, D, i
<1>7. IsException(f) /\ f.decl.name = m.throws[j]
  BY <1>2, <1>5, <1>6 DEF IsException
<1>8. QED
  BY <1>7 DEF f

\* The fields are in the order of the declarations.
LEMMA ExceptionOrder ==
    ASSUME NEW m \in Methods, NEW F, Paired(m, F), NEW l \in 1..Len(F), IsException(F[l])
    PROVE  /\ \A k \in 1..Len(F) : IsArgument(F[k]) /\ F[k].decl.count # 0 => k < l
           /\ \A k \in 1..Len(F) : IsResult(F[k]) => l < k
           /\ \E b \in 1..Len(m.throws) : F[l].decl.name = m.throws[b]
           /\ \A k \in 1..Len(F), a, b \in 1..Len(m.throws) :
                 IsException(F[k]) /\ F[k].decl.name = m.throws[a] /\ F[l].decl.name = m.throws[b] /\ a < b
                     => k < l
<1> DEFINE D == Decls(m)
           La == Len(m.args)
<1>0. La \in Nat /\ Len(D) \in Nat /\ La <= Len(D)
  <2>1. /\ Len(m.args) \in Nat /\ Len(m.throws) \in Nat /\ Len(m.returns) \in {0, 1}
        /\ Len(D) = Len(m.args) + Len(m.throws) + Len(m.returns)
    BY DeclsAre
  <2> DEFINE a == Len(m.args)
             x == Len(m.throws)
             r == Len(m.returns)
  <2>2. a \in Nat /\ x \in Nat /\ r \in Nat /\ Len(D) = a + x + r
    BY <2>1
  <2> HIDE DEF a, x, r
  <2>3. Len(D) \in Nat /\ a <= Len(D)
    BY <2>2
  <2>4. QED
    BY <2>2, <2>3 DEF a
<1>1. \A k \in 1..Len(F) : \A x, y \in 1..Len(D) :
          x < y /\ Sequenced(D[x], D[y]) /\ F[k].name = D[x].name /\ F[l].name = D[y].name => k < l
  BY DEF Paired
<1>2. ExceptionFacts(m, F, l)
  BY ExceptionFieldIs
<1>3. PICK b \in 1..Len(m.throws) :
          F[l].name = m.throws[b] /\ F[l].name = D[La + b].name /\ La + b \in 1..Len(D)
  BY <1>2 DEF ExceptionFacts
<1>4. F[l].decl.name = F[l].name
  BY <1>2 DEF ExceptionFacts
<1>41. Role(D[La + b]) = "exception"
  BY <1>2, <1>3 DEF ExceptionFacts, Role
<1>5. ASSUME NEW k \in 1..Len(F), IsArgument(F[k]), F[k].decl.count # 0 PROVE k < l
  <2>1. PICK i \in 1..La : F[k].name = D[i].name /\ F[k].decl = m.args[i]
    BY <1>5, ArgumentIs
  <2>2. i \in 1..Len(D) /\ i < La + b
    BY <1>0
  <2>3. Sequenced(D[i], D[La + b])
    <3>1. D[i] = F[k].decl
      BY <2>1, DeclsAre
    <3>2. F[k].decl.kind # "skipped"
      BY <1>5, ArgumentIs
    <3>3. CxxCount(D[i]) # 0
      BY <1>5, <3>1, <3>2 DEF CxxCount
    <3>4. Role(D[i]) = "argument"
      BY <2>1, <3>1, MethodFacts DEF Role
    <3>5. QED
      BY <1>41, <3>3, <3>4 DEF Sequenced, Wraps
  <2>4. QED
    BY <1>1, <1>3, <2>1, <2>2, <2>3
<1>6. ASSUME NEW k \in 1..Len(F), IsException(F[k]), NEW a \in 1..Len(m.throws), NEW c \in 1..Len(m.throws),
             F[k].decl.name = m.throws[a], F[l].decl.name = m.throws[c], a < c
      PROVE  k < l
  <2>1. ExceptionFacts(m, F, k)
    BY <1>6, ExceptionFieldIs
  <2>2. F[k].decl.name = F[k].name
    BY <2>1 DEF ExceptionFacts
  <2>3. PICK x \in 1..Len(m.throws) :
            F[k].name = m.throws[x] /\ F[k].name = D[La + x].name /\ La + x \in 1..Len(D)
    BY <2>1 DEF ExceptionFacts
  <2>4. x = a /\ b = c
    <3>1. \A y, z \in 1..Len(m.throws) : m.throws[y] = m.throws[z] => y = z
      BY MethodFacts
    <3>2. m.throws[x] = m.throws[a] /\ m.throws[b] = m.throws[c]
      BY <1>3, <1>4, <1>6, <2>2, <2>3
    <3>3. QED
      BY <3>1, <3>2
  <2>5. La + x < La + b
    BY <1>0, <1>6, <2>4
  <2>6. Sequenced(D[La + x], D[La + b])
    <3>1. Role(D[La + x]) = "exception"
      BY <2>1, <2>3 DEF ExceptionFacts, Role
    <3>2. QED
      BY <1>41, <3>1 DEF Sequenced
  <2>7. QED
    BY <1>1, <1>3, <2>3, <2>5, <2>6
<1>7. ASSUME NEW k \in 1..Len(F), IsResult(F[k]) PROVE l < k
  <2>1. l <= k
    <3>1. ~F[l].skip
      BY DEF IsException
    <3>2. QED
      BY <1>7, <3>1, ResultLast
  <2>2. l # k
    BY <1>7, ResultPassable
  <2>3. QED
    BY <2>1, <2>2, CountsType
<1>8. QED
  BY <1>3, <1>4, <1>5, <1>6, <1>7

\* A result has a field.
LEMMA ResultFieldOf ==
    ASSUME NEW m \in Methods, NEW F, Paired(m, F), Len(m.returns) = 1
    PROVE  \E k \in 1..Len(F) : IsResult(F[k])
<1> DEFINE D == Decls(m)
           i == Len(m.args) + Len(m.throws) + 1
<1>1. i \in 1..Len(D) /\ D[i] = m.returns[1]
  <2>1. /\ Len(m.args) \in Nat /\ Len(m.throws) \in Nat
        /\ Len(D) = Len(m.args) + Len(m.throws) + Len(m.returns)
        /\ D[i] = m.returns[1]
    BY DeclsAre
  <2> DEFINE a == Len(m.args)
             x == Len(m.throws)
  <2>2. a \in Nat /\ x \in Nat /\ Len(D) = a + x + 1 /\ i = a + x + 1
    BY <2>1
  <2> HIDE DEF a, x, i
  <2>3. i \in 1..Len(D)
    BY <2>2
  <2>4. QED
    BY <2>1, <2>3
<1>2. m.returns[1].name = "result" /\ m.returns[1].kind \in {"value", "optional", "shared"}
  BY MethodFacts
<1>3. PICK k \in 1..Len(F) : F[k].name = D[i].name
  BY <1>1 DEF Paired
<1>4. Declared(m, F[k], i)
  BY <1>1, <1>3 DEF Paired
<1> DEFINE f == F[k]
<1>5. (f.retval <=> f.name = "result") /\ (f.skip <=> D[i].kind = "skipped") /\ f.name = D[i].name
  BY <1>3, <1>4 DEF Declared
<1> HIDE DEF f, D, i
<1>6. IsResult(f)
  BY <1>1, <1>2, <1>5 DEF IsResult
<1>7. QED
  BY <1>6 DEF f

----------------------------------------------------------------------------
\* What can be carried is read as it was built; a pointer that is null is left.
ReadsBack(msg, f, v, t, w) ==
    /\ ~ReadThrows(msg, f, v, t)
    /\ ReadField(msg, f, v, t) = IF f.decl.kind = "pointer" /\ v = <<Null>> THEN v ELSE w

\* A value of a type that carries everything is read back as it was built.
LEMMA ReadBack ==
    ASSUME NEW d, Passable(d), Carries(d), NEW f, f.decl = d, f.optional <=> d.has,
           NEW t \in IntType, t = d.client \/ t = d.server, Accepted(d.wire, t),
           NEW msg, NEW w, Carried(msg, f, w), Held(d, w, t), NEW v,
           d.kind = "pointer" => v = <<Null>> \/ w # <<Null>>
    PROVE  ReadsBack(msg, f, v, t, w)
<1>1. d.wire \in IntType /\ ~Unreadable(d.wire, t)
  BY DEF Passable, Argument, Carries
<1>2. /\ d.kind = "value" => w # <<Null>>
      /\ w # <<Null>> => \A j \in 1..d.count : w[j] \in Values(t)
      /\ DOMAIN w = 1..d.count /\ w = [j \in 1..d.count |-> w[j]]
  BY HeldIs
<1> DEFINE W == Wire(msg, f)
<1>3. /\ DOMAIN W = 1..d.count
      /\ w # <<Null>> => \A j \in 1..d.count : W[j] = BuildPrimitive(w[j], d.wire)
  BY WireIs
<1>4. d.kind \in {"optional", "shared"} => (ReadsValue(msg, f, v) <=> w # <<Null>>)
  <2>1. CASE d.kind = "optional" /\ d.has
    BY <2>1 DEF ReadsValue, HasField, Carried
  <2>2. CASE d.kind = "optional" /\ ~d.has
    <3>1. d.boxed
      BY <2>2 DEF Carries
    <3>2. HasField(msg, f) <=> msg[f.name].set
      BY <2>2, <3>1 DEF HasField, Boxed
    <3>3. msg[f.name].set <=> w # <<Null>>
      <4>1. w # <<Null>> => msg[f.name].set
        BY DEF Carried
      <4>2. QED
        BY <4>1 DEF Carried
    <3>4. QED
      BY <2>2, <3>2, <3>3 DEF ReadsValue
  <2>3. CASE d.kind = "shared"
    <3>1. d.boxed /\ ~d.has
      BY <2>3 DEF Carries
    <3>2. HasField(msg, f) <=> msg[f.name].set
      BY <3>1 DEF HasField, Boxed
    <3>3. msg[f.name].set <=> w # <<Null>>
      <4>1. w # <<Null>> => msg[f.name].set
        BY DEF Carried
      <4>2. QED
        BY <4>1 DEF Carried
    <3>4. QED
      BY <2>3, <3>2, <3>3 DEF ReadsValue
  <2>4. QED
    BY <2>1, <2>2, <2>3
<1>5. /\ d.kind = "value" => ReadsValue(msg, f, v)
      /\ d.kind = "pointer" => (ReadsValue(msg, f, v) <=> v # <<Null>>)
      /\ d.kind \in {"value", "optional", "shared", "pointer"}
  BY DEF ReadsValue, Passable
<1>6. CASE ReadsValue(msg, f, v)
  <2>1. w # <<Null>>
    BY <1>2, <1>4, <1>5, <1>6
  <2>2. ReadField(msg, f, v, t) = [j \in 1..d.count |-> ReadPrimitive(W[j], t)]
    BY <1>3, <1>6 DEF ReadField
  <2>3. (\A j \in 1..d.count : ~OutOfBound(W[j], d.wire, t)) => ~ReadThrows(msg, f, v, t)
    BY <1>3 DEF ReadThrows
  <2> HIDE DEF W
  <2>4. ASSUME NEW j \in 1..d.count
        PROVE  ~OutOfBound(W[j], d.wire, t) /\ ReadPrimitive(W[j], t) = w[j]
    <3>1. W[j] = BuildPrimitive(w[j], d.wire) /\ w[j] \in Values(t)
      BY <1>2, <1>3, <2>1
    <3>2. QED
      BY <1>1, <3>1, SameTypeArrives
  <2>5. ReadField(msg, f, v, t) = w
    BY <1>2, <2>2, <2>4
  <2>6. ~(d.kind = "pointer" /\ v = <<Null>>)
    BY <1>5, <1>6
  <2>7. QED
    BY <2>3, <2>4, <2>5, <2>6 DEF ReadsBack
<1>7. CASE ~ReadsValue(msg, f, v)
  <2>1. ~ReadThrows(msg, f, v, t)
    BY <1>7 DEF ReadThrows
  <2>2. CASE d.kind = "pointer"
    <3>1. v = <<Null>> /\ ReadField(msg, f, v, t) = v
      BY <1>5, <1>7, <2>2 DEF ReadField
    <3>2. QED
      BY <2>1, <2>2, <3>1 DEF ReadsBack
  <2>3. CASE d.kind # "pointer"
    <3>1. w = <<Null>>
      BY <1>4, <1>5, <1>7, <2>3
    <3>2. ReadField(msg, f, v, t) = <<Null>>
      BY <1>7, <2>3 DEF ReadField
    <3>3. QED
      BY <2>1, <2>3, <3>1, <3>2 DEF ReadsBack
  <2>4. QED
    BY <2>2, <2>3
<1>8. QED
  BY <1>6, <1>7

\* A value is null where all the variable is.
LEMMA NullAt ==
    ASSUME NEW d, Passable(d), NEW t \in IntType, NEW v, Held(d, v, t), NEW j \in 1..d.count
    PROVE  /\ v[j] = Null <=> v = <<Null>>
           /\ v[j] = Null => j = 1 /\ d.count = 1 /\ d.kind # "value"
<1>1. /\ d.kind = "value" => v # <<Null>>
      /\ v # <<Null>> => v[j] \in Int
  BY HeldIs
<1>2. Null \notin Int
  BY SampleAssumption
<1>3. v[j] = Null => v = <<Null>>
  BY <1>1, <1>2
<1>4. v = <<Null>> => d.kind # "value" /\ d.count = 1 /\ j = 1 /\ v[j] = Null
  BY <1>1 DEF Passable
<1>5. QED
  BY <1>3, <1>4

----------------------------------------------------------------------------
(* What the method sees.                                                   *)

\* What a transparent call asks of a field.
LEMMA TransparentAt ==
    ASSUME Transparent, method \in Methods, Compiles(method), Paired(method, fields),
           GivenOK(method, given),
           NEW k \in 1..Len(fields), IsArgument(fields[k]) \/ IsResult(fields[k])
    PROVE  /\ Carries(fields[k].decl) /\ fields[k].decl.client = fields[k].decl.server
           /\ IsArgument(fields[k]) /\ fields[k].decl.kind = "pointer"
              /\ Part(given, k, Counts(fields)) = <<Null>> => fields[k].decl.want
<1> DEFINE d == fields[k].decl
           v == Part(given, k, Counts(fields))
<1>1. Carries(d) /\ d.client = d.server
  <2>1. d \in ToSet(method.args) \union ToSet(method.returns)
    BY CompiledTypes
  <2>2. QED
    BY <2>1 DEF Transparent
<1>2. ASSUME IsArgument(fields[k]), d.kind = "pointer", v = <<Null>> PROVE d.want
  <2>1. given \in Seq(Slots) /\ Len(given) = Len(CxxParams(method))
    BY DEF GivenOK
  <2>2. Passable(d)
    BY <1>2, ArgumentPassable
  <2>3. 1 \in 1..d.count
    BY <1>2, <2>2 DEF Passable
  <2> DEFINE n == First(k, Counts(fields)) + 1 - 1
  <2>4. v[1] = given[n] /\ n \in 1..Len(CxxParams(method)) /\ CxxParams(method)[n] = d
    BY <1>2, <2>1, <2>3, PartHeld
  <2>5. n \in DOMAIN given /\ given[n] = Null
    <3>1. DOMAIN given = 1..Len(given)
      BY <2>1, LenProperties
    <3>2. v[1] = Null
      BY <1>2
    <3> HIDE DEF n, v
    <3>3. QED
      BY <2>1, <2>4, <3>1, <3>2
  <2> HIDE DEF n, v, d
  <2>6. QED
    BY <1>2, <2>4, <2>5 DEF Transparent
<1>3. QED
  BY <1>1, <1>2

\* The method is given w for the caller's value v.
PassedLocally(f, v, w) == IF In(f) \/ v = <<Null>> THEN w = v ELSE w \in Fresh(f.decl)

\* What the method is given for an argument that can be carried.
LEMMA GotLocally ==
    ASSUME NEW m \in Methods, Compiles(m), NEW F, Paired(m, F), NEW g, GivenOK(m, g), NEW msg,
           ParamsOK(m, F, g, msg, Len(F) + 1), NEW k \in 1..Len(F), IsArgument(F[k]),
           Carries(F[k].decl), F[k].decl.client = F[k].decl.server,
           F[k].decl.kind = "pointer" /\ Part(g, k, Counts(F)) = <<Null>> => F[k].decl.want
    PROVE  /\ ~Refuses(msg, F[k])
           /\ \A w \in Gets(msg, F[k]) : PassedLocally(F[k], Part(g, k, Counts(F)), w)
<1> DEFINE f == F[k]
           d == F[k].decl
           v == Part(g, k, Counts(F))
           u == Default(d)
<1>1. /\ Passable(d) /\ d.client \in IntType /\ d.server \in IntType /\ d.wire \in IntType
      /\ d.kind \in {"value", "optional", "shared", "pointer"}
  BY ArgumentPassable DEF Passable
<1>2. (f.optional <=> d.has) /\ (f.requested <=> d.want)
  BY ArgumentIs
<1>3. Accepted(d.wire, d.server)
  BY CompiledTypes
<1>4. Held(d, v, d.server)
  BY GivenHeld
<1>5. In(f) => Carried(msg, f, v)
  BY GotIs
<1>6. f.requested => (msg[Want(f.name)].set <=> d.kind = "pointer" /\ v # <<Null>>)
  <2>1. k < Len(F) + 1 /\ Len(F) + 1 \in Nat
    BY CountsType
  <2>2. ParamOK(F, g, msg, k, k < Len(F) + 1)
    BY <2>1, ParamsAre
  <2>3. QED
    BY <2>1, <2>2 DEF ParamOK
<1>7. d.kind = "pointer" => u # <<Null>>
  <2>1. ASSUME d.kind = "pointer" PROVE u[1] = 0 /\ 0 # Null
    <3>1. d.count = 1 /\ u = [j \in 1..d.count |-> 0]
      BY <1>1, <2>1 DEF Passable, Default
    <3>2. QED
      BY <3>1, SampleAssumption
  <2>2. <<Null>>[1] = Null
    OBVIOUS
  <2> HIDE DEF u, d
  <2>3. QED
    BY <2>1, <2>2
<1>8. d.kind = "pointer" /\ v = <<Null>> => d.want
  OBVIOUS
<1>9. Refuses(msg, f) <=> IsArgument(f) /\ In(f) /\ ~NullSent(msg, f) /\ ReadThrows(msg, f, u, d.server)
  BY DEF Refuses
<1>10. Gets(msg, f) = IF NullSent(msg, f) THEN {<<Null>>}
                      ELSE IF In(f) THEN {ReadField(msg, f, u, d.server)} ELSE Fresh(d)
  BY DEF Gets
<1>11. NullSent(msg, f) <=> d.kind = "pointer" /\ f.requested /\ ~msg[Want(f.name)].set
  BY DEF NullSent
<1>12. d.kind \in {"optional", "shared"} => u = <<Null>>
  BY DEF Default
<1>121. d.kind # "pointer" => Fresh(d) = {u}
  BY DEF Fresh
<1>13. d.kind = "value" => v # <<Null>>
  BY <1>1, <1>4, HeldIs
<1>14. f.decl = d /\ d.client = d.server /\ Carries(d)
  OBVIOUS
<1> HIDE DEF f, d, v, u
<1>15. NullSent(msg, f) <=> d.kind = "pointer" /\ v = <<Null>>
  BY <1>2, <1>6, <1>8, <1>11
<1>16. ASSUME In(f), ~NullSent(msg, f)
       PROVE  ~ReadThrows(msg, f, u, d.server) /\ ReadField(msg, f, u, d.server) = v
  <2>1. Carried(msg, f, v)
    BY <1>5, <1>16
  <2>2. d.kind = "pointer" => u = <<Null>> \/ v # <<Null>>
    BY <1>15, <1>16
  <2>3. ReadsBack(msg, f, u, d.server, v)
    BY <1>1, <1>2, <1>3, <1>4, <1>14, <2>1, <2>2, ReadBack
  <2>4. QED
    BY <1>7, <1>14, <2>3 DEF ReadsBack
<1>17. ~Refuses(msg, f)
  BY <1>9, <1>16
<1>18. ASSUME NEW w \in Gets(msg, f) PROVE PassedLocally(f, v, w)
  <2>1. CASE NullSent(msg, f)
    BY <1>10, <1>15, <1>18, <2>1 DEF PassedLocally
  <2>2. CASE ~NullSent(msg, f) /\ In(f)
    BY <1>10, <1>16, <1>18, <2>2 DEF PassedLocally
  <2>3. CASE ~NullSent(msg, f) /\ ~In(f)
    <3>1. v = <<Null>> => w = v
      BY <1>1, <1>10, <1>12, <1>121, <1>13, <1>15, <1>18, <2>3
    <3>2. QED
      BY <1>10, <1>14, <1>18, <2>3, <3>1 DEF PassedLocally
  <2>4. QED
    BY <2>1, <2>2, <2>3
<1>19. QED
  BY <1>17, <1>18 DEF f, d, v, u

\* The method may be given s for the parameter d, for which the caller has g.
SeenAs(d, g, s) ==
    IF d.dir # "out" \/ g = Null THEN s = g
    ELSE IF d.kind = "pointer" THEN s # Null ELSE s = Default(d)[1]

\* A transparent call is not refused, and the method is given what a local call
\* would give it.
LEMMA TransparentSeen ==
    ASSUME CallInv, Transparent, pc \in {"unwind", "read", "returned"}
    PROVE  Called /\ SeenLocally
<1>1. method \in Methods /\ Compiles(method) /\ Paired(method, fields) /\ Sent
  BY DEF CallInv, InUnwind, InRead, InReturned
<1>2. GivenOK(method, given) /\ ParamsOK(method, fields, given, params, Len(fields) + 1)
  BY <1>1 DEF Sent
<1>3. ASSUME NEW k \in 1..Len(fields), IsArgument(fields[k])
      PROVE  /\ ~Refuses(params, fields[k])
             /\ \A w \in Gets(params, fields[k]) :
                    PassedLocally(fields[k], Part(given, k, Counts(fields)), w)
  <2>1. /\ Carries(fields[k].decl) /\ fields[k].decl.client = fields[k].decl.server
        /\ IsArgument(fields[k]) /\ fields[k].decl.kind = "pointer"
           /\ Part(given, k, Counts(fields)) = <<Null>> => fields[k].decl.want
    BY <1>1, <1>2, <1>3, TransparentAt
  <2>2. fields[k].decl.kind = "pointer" /\ Part(given, k, Counts(fields)) = <<Null>> => fields[k].decl.want
    BY <1>3, <2>1
  <2>3. QED
    BY <1>1, <1>2, <1>3, <2>1, <2>2, GotLocally
<1>4. ~Refused
  BY <1>3 DEF Refused, Refuses
<1>5. Called /\ Ran
  BY <1>4 DEF CallInv, InUnwind, InRead, InReturned, Answered, Ran
<1>6. MethodOK(method, fields, params, seen, effect)
  BY <1>5 DEF Ran
<1>7. Len(seen) = Len(given) /\ Len(seen) = Len(CxxParams(method)) /\ seen \in Seq(Slots)
      /\ given \in Seq(Slots)
  BY <1>1, <1>2, <1>6, SeenAll
<1>8. DOMAIN given = 1..Len(CxxParams(method)) /\ DOMAIN seen = DOMAIN given
  BY <1>7, LenProperties
<1>9. ASSUME NEW n \in 1..Len(CxxParams(method)), NEW d, d = CxxParams(method)[n]
      PROVE  SeenAs(d, given[n], seen[n])
  <2>1. PICK k, j : At(method, fields, n, k, j)
    BY <1>1, ParamOf
  <2> DEFINE f == fields[k]
             v == Part(given, k, Counts(fields))
  <2>2. /\ k \in 1..Len(fields) /\ IsArgument(f) /\ j \in 1..d.count /\ f.decl = d
        /\ v[j] = given[n]
    BY <1>9, <2>1 DEF At
  <2>3. PICK u \in Gets(params, f) : seen[n] = u[j]
    BY <1>1, <1>2, <1>6, <2>1, SeenIs
  <2>4. PassedLocally(f, v, u)
    BY <1>3, <2>2, <2>3
  <2>5. In(f) <=> d.dir # "out"
    BY <1>1, <2>2, ArgumentIs
  <2>6. Passable(d) /\ d.client \in IntType /\ d.server \in IntType
    BY <1>1, <2>2, ArgumentPassable
  <2>7. Held(d, v, d.client)
    BY <1>1, <1>2, <2>2, GivenHeld
  <2> HIDE DEF f, v
  <2>8. v[j] = Null <=> v = <<Null>>
    BY <2>2, <2>6, <2>7, NullAt
  <2>9. CASE In(f) \/ v = <<Null>>
    BY <2>2, <2>3, <2>4, <2>5, <2>8, <2>9 DEF PassedLocally, SeenAs
  <2>10. CASE ~(In(f) \/ v = <<Null>>)
    <3>1. u \in Fresh(d) /\ d.dir = "out" /\ given[n] # Null
      BY <2>2, <2>4, <2>5, <2>8, <2>10 DEF PassedLocally
    <3>2. Held(d, u, d.server) /\ (d.kind = "pointer" => u # <<Null>>)
          /\ (d.kind # "pointer" => u = Default(d))
      BY <2>6, <3>1, FreshHeld
    <3>3. CASE d.kind = "pointer"
      <4>1. u[j] # Null
        BY <2>2, <2>6, <3>2, <3>3, NullAt
      <4>2. QED
        BY <2>3, <3>1, <3>3, <4>1 DEF SeenAs
    <3>4. CASE d.kind # "pointer"
      <4>1. Default(d)[j] = Default(d)[1]
        <5>1. CASE d.kind \in {"optional", "shared"}
          BY <2>2, <2>6, <5>1 DEF Passable
        <5>2. CASE d.kind \notin {"optional", "shared"}
          <6>1. Default(d) = [i \in 1..d.count |-> 0]
            BY <5>2 DEF Default
          <6>2. 1 \in 1..d.count
            BY <2>2, <2>6 DEF Passable, Argument
          <6>3. QED
            BY <2>2, <6>1, <6>2
        <5>3. QED
          BY <5>1, <5>2
      <4>2. QED
        BY <2>3, <3>1, <3>2, <3>4, <4>1 DEF SeenAs
    <3>5. QED
      BY <3>3, <3>4
  <2>11. QED
    BY <2>9, <2>10
<1>10. ASSUME NEW n \in DOMAIN given PROVE SeenAs(CxxParams(method)[n], given[n], seen[n])
  BY <1>8, <1>9
<1>11. SeenLocally
  BY <1>8, <1>10 DEF SeenLocally, SeenAs
<1>12. QED
  BY <1>5, <1>11

----------------------------------------------------------------------------
(* What the call leaves.                                                   *)

\* The field that catches an exception is that of the class itself, if it is
\* declared, and else that of its base class.
LEMMA CatcherIs ==
    ASSUME NEW m \in Methods, NEW F, Paired(m, F), DerivedLast(m), NEW x, NEW k \in 1..Len(F),
           Caught(F, x, k)
    PROVE  /\ x # "none" /\ F[k].decl.name = IF x \in ToSet(m.throws) THEN x ELSE "base"
           /\ F[k].decl.name \in ToSet(m.throws) /\ Catches(F[k].decl.name, x)
<1>0. DOMAIN m.throws = 1..Len(m.throws) /\ m.throws \in Seq({"base", "derived"})
  BY MethodFacts, LenProperties
<1>1. IsException(F[k]) /\ Catches(F[k].decl.name, x) /\ Flying(F, x, k) # "none"
  BY DEF Caught, Handles
<1>2. x # "none" /\ \A l \in (k + 1)..Len(F) : ~Handles(F, x, l)
  BY <1>1 DEF Flying
<1>3. PICK b \in 1..Len(m.throws) : F[k].decl.name = m.throws[b]
  BY <1>1, ExceptionOrder
<1>4. m.throws[b] \in ToSet(m.throws)
  BY <1>0 DEF ToSet
<1>5. ASSUME F[k].decl.name # x, x \in ToSet(m.throws) PROVE FALSE
  <2>1. m.throws[b] = "base" /\ x = "derived"
    BY <1>1, <1>3, <1>5 DEF Catches
  <2>2. PICK a \in 1..Len(m.throws) : m.throws[a] = x
    BY <1>0, <1>5 DEF ToSet
  <2>3. b < a
    BY <1>0, <2>1, <2>2 DEF DerivedLast
  <2>4. PICK l \in 1..Len(F) : IsException(F[l]) /\ F[l].decl.name = m.throws[a]
    BY ExceptionFieldOf
  <2>5. k < l
    BY <1>1, <1>3, <2>3, <2>4, ExceptionOrder
  <2>6. Handles(F, x, l)
    BY <2>2, <2>4 DEF Handles, Catches
  <2>7. l \in (k + 1)..Len(F)
    BY <2>5, CountsType
  <2>8. QED
    BY <1>2, <2>6, <2>7
<1>6. x \notin ToSet(m.throws) => F[k].decl.name = "base"
  BY <1>1, <1>3, <1>4 DEF Catches
<1>7. QED
  BY <1>1, <1>2, <1>3, <1>4, <1>5, <1>6

\* An exception that no field catches is not declared.
LEMMA NotDeclared ==
    ASSUME NEW m \in Methods, NEW F, Paired(m, F), NEW x, Flying(F, x, 0) # "none"
    PROVE  x # "none" /\ \A e \in ToSet(m.throws) : ~Catches(e, x)
<1>0. DOMAIN m.throws = 1..Len(m.throws)
  BY MethodFacts, LenProperties
<1>1. x # "none" /\ \A l \in (0 + 1)..Len(F) : ~Handles(F, x, l)
  BY DEF Flying
<1>2. ASSUME NEW e \in ToSet(m.throws), Catches(e, x) PROVE FALSE
  <2>1. PICK a \in 1..Len(m.throws) : m.throws[a] = e
    BY <1>0 DEF ToSet
  <2>2. PICK l \in 1..Len(F) : IsException(F[l]) /\ F[l].decl.name = m.throws[a]
    BY ExceptionFieldOf
  <2>3. Handles(F, x, l)
    BY <1>2, <2>1, <2>2 DEF Handles
  <2>4. QED
    BY <1>1, <2>3
<1>3. QED
  BY <1>1, <1>2

\* What is read of the response.
LEMMA ResultReadBack ==
    ASSUME Transparent, method \in Methods, Compiles(method), Paired(method, fields), Sent, Answered,
           NEW k \in 1..Len(fields), IsArgument(fields[k]) \/ IsResult(fields[k]), Out(fields[k]),
           \A l \in 1..(k - 1) : ~Caught(fields, effect.thrown, l)
    PROVE  ReadsBack(results, fields[k], Part(Initial(method, given), k, ClientCounts(fields)),
                     fields[k].decl.client, OutValue(fields, effect, k))
<1> DEFINE f == fields[k]
           d == fields[k].decl
           v == Part(Initial(method, given), k, ClientCounts(fields))
           w == OutValue(fields, effect, k)
<1>1. /\ GivenOK(method, given) /\ ParamsOK(method, fields, given, params, Len(fields) + 1)
      /\ MethodOK(method, fields, params, seen, effect)
      /\ ResultsOK(method, fields, effect, results, 0) /\ SomeCaught(fields, effect.thrown, 0)
  BY DEF Sent, Answered, Ran
<1>2. /\ Passable(d) /\ d.client \in IntType /\ d.server \in IntType /\ ~IsException(f)
  <2>1. CASE IsArgument(f)
    BY <2>1, ArgumentPassable
  <2>2. CASE IsResult(f)
    BY <2>2, ResultPassable
  <2>3. QED
    BY <2>1, <2>2
<1>3. /\ Carries(d) /\ d.client = d.server
      /\ IsArgument(f) /\ d.kind = "pointer" /\ Part(given, k, Counts(fields)) = <<Null>> => d.want
  BY <1>1, TransparentAt
<1>4. Accepted(d.wire, d.client)
  BY CompiledTypes
<1>5. f.optional <=> d.has
  <2>1. CASE IsArgument(f)
    BY <2>1, ArgumentIs
  <2>2. CASE IsResult(f)
    <3>1. ResultFacts(method, fields, k)
      BY <2>2, RetvalIs
    <3>2. QED
      BY <3>1 DEF ResultFacts
  <2>3. QED
    BY <2>1, <2>2
<1>6. Carried(results, f, w)
  BY <1>1, <1>2, CarriedResult
<1>7. Held(d, w, d.client)
  <2>1. Held(d, w, d.server)
    BY <1>1, OutHeld
  <2>2. QED
    BY <1>3, <2>1
<1>8. ASSUME d.kind = "pointer", v # <<Null>> PROVE w # <<Null>>
  <2>1. IsArgument(f)
    BY <1>8, ResultPassable
  <2> DEFINE g == Part(given, k, Counts(fields))
  <2>2. v = g /\ w = Part(effect.after, k, Counts(fields))
    <3>1. v = g
      BY <1>1, <2>1, InitialIs
    <3>2. w = Part(effect.after, k, Counts(fields))
      BY <2>1 DEF OutValue, IsArgument
    <3>3. QED
      BY <3>1, <3>2
  <2>3. d.kind = "pointer" /\ Part(given, k, Counts(fields)) = <<Null>> => d.want
    BY <1>3, <2>1
  <2> DEFINE u == Part(seen, k, Counts(fields))
  <2>31. (In(f) => Carried(params, f, g)) /\ MethodOK(method, fields, params, seen, effect)
    BY <1>1, <2>1, GotIs DEF Ran
  <2>32. u \in Gets(params, f) /\ \A j \in 1..d.count : Part(effect.after, k, Counts(fields))[j] \in Writes(d, u[j])
    BY <1>1, <2>1, <2>31, AfterHeld
  <2>4. PassedLocally(f, g, u)
    BY <1>1, <1>3, <2>1, <2>3, <2>32, GotLocally
  <2>5. d.count = 1 /\ 1 \in 1..d.count
    BY <1>2, <1>8 DEF Passable
  <2>6. u[1] # Null
    <3>1. Held(d, g, d.client)
      BY <1>1, <2>1, GivenHeld
    <3> DEFINE h == g
    <3>2. Held(d, h, d.client) /\ h # <<Null>>
      BY <1>8, <2>2, <3>1
    <3>3. h[1] # Null
      <4> HIDE DEF h, d
      <4>1. QED
        BY <1>2, <2>5, <3>2, NullAt
    <3>4. u \in Fresh(d) => u[1] # Null
      <4> HIDE DEF u, d
      <4>1. ASSUME u \in Fresh(d) PROVE Held(d, u, d.server) /\ u # <<Null>>
        BY <1>2, <1>8, <4>1, FreshHeld
      <4>2. d.server \in IntType
        BY <1>2 DEF Passable, Argument
      <4>3. QED
        BY <1>2, <2>5, <4>1, <4>2, NullAt
    <3>5. QED
      BY <2>4, <3>2, <3>3, <3>4 DEF PassedLocally
  <2>7. w[1] \in Writes(d, u[1])
    BY <2>2, <2>5, <2>32
  <2>8. d.dir # "in"
    BY <2>1, ArgumentIs
  <2>9. w[1] \in Sample(d.server)
    BY <1>8, <2>6, <2>7, <2>8 DEF Writes
  <2>10. w[1] # Null
    BY <1>2, <2>9, SampleAssumption, Limits
  <2>11. <<Null>>[1] = Null
    OBVIOUS
  <2> HIDE DEF w
  <2>12. QED
    BY <2>10, <2>11
<1>9. f.decl = d
  OBVIOUS
<1> HIDE DEF f, d, v, w
<1>10. ReadsBack(results, f, v, d.client, w)
  BY <1>2, <1>3, <1>4, <1>5, <1>6, <1>7, <1>8, <1>9, ReadBack
<1>11. QED
  BY <1>10 DEF f, d, v, w

\* How a transparent call ends: the method has thrown something that is not
\* declared, or the caller has read all the fields before the one that caught.
Ending(k) ==
    /\ Answered /\ ReadUpTo(k) /\ k \in 1..(Len(fields) + 1)
    /\ \/ k = Len(fields) + 1 /\ outcome = "returned" /\ effect.thrown = "none"
       \/ /\ k <= Len(fields) /\ Caught(fields, effect.thrown, k)
          /\ outcome = fields[k].decl.name /\ outcome \in {"base", "derived"}

\* How a call that can be told from no local one ends.
LEMMA EndingIs ==
    ASSUME CallInv, Transparent, pc = "returned"
    PROVE  /\ Ran /\ Sent /\ method \in Methods /\ Compiles(method) /\ Paired(method, fields)
           /\ \/ /\ outcome = "error" /\ locals = Initial(method, given)
                 /\ Flying(fields, effect.thrown, 0) # "none"
              \/ \E k : Ending(k)
<1>1. Called
  BY TransparentSeen
<1>2. /\ Ran /\ Sent /\ method \in Methods /\ Paired(method, fields) /\ Compiles(method)
      /\ Len(fields) \in Nat
  BY <1>1, CalledRan, CountsType DEF CallInv
<1>3. ~Refused
  BY <1>1 DEF Refused
<1>4. \/ /\ outcome = "error" /\ locals = Initial(method, given)
         /\ Flying(fields, effect.thrown, 0) # "none"
      \/ Answered /\ \E k \in 1..(Len(fields) + 1) : ReadUpTo(k) /\ StoppedAt(k)
  BY <1>3 DEF CallInv, InReturned
<1>5. ASSUME Answered, NEW k \in 1..(Len(fields) + 1), ReadUpTo(k), StoppedAt(k) PROVE Ending(k)
  <2>1. CASE k = Len(fields) + 1 /\ outcome = "returned"
    <3>1. \A l \in 1..(k - 1) : ~Caught(fields, effect.thrown, l)
      BY <1>5 DEF ReadUpTo
    <3>2. \A l \in (0 + 1)..Len(fields) : ~Caught(fields, effect.thrown, l)
      BY <1>2, <2>1, <3>1
    <3>3. effect.thrown = "none"
      BY <1>5, <3>2 DEF Answered, SomeCaught
    <3>4. QED
      BY <1>5, <2>1, <3>3 DEF Ending
  <2>2. CASE k <= Len(fields) /\ Caught(fields, effect.thrown, k) /\ outcome = fields[k].decl.name
    <3>1. k \in 1..Len(fields) /\ IsException(fields[k])
      BY <1>2, <2>2 DEF Caught, Handles
    <3>2. ExceptionFacts(method, fields, k)
      BY <1>2, <3>1, ExceptionFieldIs
    <3>3. outcome \in {"base", "derived"}
      BY <2>2, <3>2 DEF ExceptionFacts
    <3>4. QED
      BY <1>5, <2>2, <3>3 DEF Ending
  <2>3. CASE /\ k <= Len(fields) /\ outcome = "error"
             /\ Out(fields[k]) /\ ~IsException(fields[k])
             /\ ReadThrows(results, fields[k],
                           Part(Initial(method, given), k, ClientCounts(fields)), fields[k].decl.client)
    <3>1. k \in 1..Len(fields)
      BY <1>2, <2>3
    <3>2. IsArgument(fields[k]) \/ IsResult(fields[k])
      BY <1>2, <2>3, <3>1, FieldCases DEF Out
    <3>3. \A l \in 1..(k - 1) : ~Caught(fields, effect.thrown, l)
      BY <1>5 DEF ReadUpTo
    <3>4. ReadsBack(results, fields[k], Part(Initial(method, given), k, ClientCounts(fields)),
                    fields[k].decl.client, OutValue(fields, effect, k))
      BY <1>2, <1>5, <2>3, <3>1, <3>2, <3>3, ResultReadBack
    <3>5. QED
      BY <2>3, <3>4 DEF ReadsBack
  <2>4. QED
    BY <1>5, <2>1, <2>2, <2>3 DEF StoppedAt
<1>6. QED
  BY <1>2, <1>4, <1>5

\* The caller of a transparent call catches what the caller of the method would.
LEMMA TransparentOutcome ==
    ASSUME CallInv, Transparent, pc = "returned"
    PROVE  outcome = CaughtLocally
<1> DEFINE x == effect.thrown
           T == ToSet(method.throws)
<1>1. method \in Methods /\ Paired(method, fields) /\ DerivedLast(method)
  BY EndingIs DEF Transparent
<1>2. CASE outcome = "error" /\ Flying(fields, x, 0) # "none"
  <2>1. x # "none" /\ \A e \in T : ~Catches(e, x)
    BY <1>1, <1>2, NotDeclared
  <2>2. x \notin T
    BY <2>1 DEF Catches
  <2>3. QED
    BY <1>2, <2>1, <2>2 DEF CaughtLocally
<1>3. ASSUME NEW k, Ending(k) PROVE outcome = CaughtLocally
  <2>1. CASE outcome = "returned" /\ x = "none"
    BY <2>1 DEF CaughtLocally
  <2>2. CASE k <= Len(fields) /\ Caught(fields, x, k) /\ outcome = fields[k].decl.name
    <3>1. k \in 1..Len(fields)
      BY <1>1, <1>3, <2>2, CountsType DEF Ending
    <3>2. /\ x # "none" /\ outcome = IF x \in T THEN x ELSE "base"
          /\ outcome \in T /\ Catches(outcome, x)
      BY <1>1, <2>2, <3>1, CatcherIs
    <3>3. QED
      BY <3>2 DEF CaughtLocally
  <2>3. QED
    BY <1>3, <2>1, <2>2 DEF Ending
<1>4. QED
  BY <1>2, <1>3, EndingIs

----------------------------------------------------------------------------
(* The end of the call.                                                    *)

\* Where a transparent call ends in the fields, the arguments have been read.
LEMMA ReadBefore ==
    ASSUME method \in Methods, Paired(method, fields), NEW k, Ending(k),
           NEW l \in 1..Len(fields), IsArgument(fields[l]), fields[l].decl.count # 0
    PROVE  l < k /\ \A i \in 1..(l - 1) : ~Caught(fields, effect.thrown, i)
<1>1. Len(fields) \in Nat /\ k \in 1..(Len(fields) + 1)
  BY CountsType DEF Ending
<1>2. l < k
  <2>1. CASE k = Len(fields) + 1
    BY <1>1, <2>1
  <2>2. CASE k <= Len(fields)
    <3>1. k \in 1..Len(fields)
      BY <1>1, <2>2
    <3>2. IsException(fields[k])
      BY <1>1, <2>2 DEF Ending, Caught, Handles
    <3>3. QED
      BY <3>1, <3>2, ExceptionOrder
  <2>3. QED
    BY <1>1, <2>1, <2>2
<1>3. \A i \in 1..(k - 1) : ~Caught(fields, effect.thrown, i)
  BY DEF Ending, ReadUpTo
<1>4. QED
  BY <1>1, <1>2, <1>3

\* The value of the n-th parameter after a transparent call.
LEMMA LeftAt ==
    ASSUME CallInv, Transparent, pc = "returned", NEW k, Ending(k),
           NEW n \in 1..Len(CxxParams(method)), n \in DOMAIN given
    PROVE  locals[n] = LeftLocally[n]
<1>1. /\ Ran /\ Sent /\ method \in Methods /\ Compiles(method) /\ Paired(method, fields)
      /\ Answered /\ ReadOK(method, fields, given, results, locals, k)
  BY EndingIs DEF Ending, ReadUpTo
<1>2. /\ GivenOK(method, given) /\ ParamsOK(method, fields, given, params, Len(fields) + 1)
      /\ MethodOK(method, fields, params, seen, effect)
  BY <1>1 DEF Sent, Ran
<1>3. PICK l, j : At(method, fields, n, l, j)
  BY <1>1, ParamOf
<1> DEFINE f == fields[l]
           d == CxxParams(method)[n]
           v == Part(given, l, Counts(fields))
           w == Part(effect.after, l, Counts(fields))
<1>4. /\ l \in 1..Len(fields) /\ IsArgument(f) /\ j \in 1..d.count /\ f.decl = d
      /\ v[j] = given[n] /\ w[j] = effect.after[n]
  BY <1>3 DEF At
<1>5. LeftLocally[n] = IF Writes(d, given[n]) = {given[n]} THEN given[n] ELSE effect.after[n]
  BY DEF LeftLocally
<1>6. SeenAs(d, given[n], seen[n])
  BY TransparentSeen DEF SeenLocally, SeenAs
<1>7. effect.after[n] \in Writes(d, seen[n])
  <2>1. effect.after[n] \in Writes(fields[l].decl, seen[n])
    BY <1>1, <1>2, <1>3, SeenIs
  <2>2. QED
    BY <1>4, <2>1
<1>8. Passable(d) /\ d.client \in IntType /\ (Out(f) <=> d.dir # "in")
  BY <1>1, <1>4, ArgumentPassable, ArgumentIs
<1>9. d.kind = "pointer" => (v = <<Null>> <=> given[n] = Null)
  <2>1. Held(d, v, d.client)
    BY <1>1, <1>2, <1>4, GivenHeld
  <2> HIDE DEF v, d
  <2>2. QED
    BY <1>4, <1>8, <2>1, NullAt
<1>10. l < k /\ \A i \in 1..(l - 1) : ~Caught(fields, effect.thrown, i)
  <2>1. f.decl.count # 0
    <3>1. f.decl.count \in Nat
      BY <1>4, <1>8 DEF Passable, Argument
    <3> HIDE DEF f, d
    <3>2. QED
      BY <1>4, <3>1
  <2>2. QED
    BY <1>1, <1>4, <2>1, ReadBefore
<1>11. /\ l < k /\ Out(f) => locals[n] = ReadField(results, f, v, f.decl.client)[j]
       /\ ~(l < k /\ Out(f)) => locals[n] = given[n]
  BY <1>1, <1>2, <1>3, LocalIs
<1>12. ASSUME Out(f) PROVE locals[n] = IF d.kind = "pointer" /\ given[n] = Null THEN given[n] ELSE effect.after[n]
  <2>1. ReadsBack(results, fields[l], Part(Initial(method, given), l, ClientCounts(fields)),
                  fields[l].decl.client, OutValue(fields, effect, l))
    BY <1>1, <1>4, <1>10, <1>12, ResultReadBack
  <2>2. Part(Initial(method, given), l, ClientCounts(fields)) = v
    BY <1>1, <1>2, <1>4, InitialIs
  <2>3. OutValue(fields, effect, l) = w
    BY <1>4 DEF OutValue, IsArgument
  <2>4. ReadsBack(results, f, v, f.decl.client, w)
    BY <2>1, <2>2, <2>3
  <2> HIDE DEF f, v, w, d
  <2>5. ReadField(results, f, v, f.decl.client) = IF d.kind = "pointer" /\ v = <<Null>> THEN v ELSE w
    BY <1>4, <2>4 DEF ReadsBack
  <2>6. QED
    BY <1>4, <1>9, <1>10, <1>11, <1>12, <2>5
<1> HIDE DEF f, v, w, d
<1>13. CASE ~Out(f)
  <2>1. Writes(d, given[n]) = {given[n]}
    BY <1>8, <1>13 DEF Writes
  <2>2. QED
    BY <1>5, <1>11, <1>13, <2>1
<1>14. CASE Out(f) /\ d.kind = "pointer" /\ given[n] = Null
  <2>1. Writes(d, given[n]) = {given[n]}
    BY <1>14 DEF Writes
  <2>2. QED
    BY <1>5, <1>12, <1>14, <2>1
<1>15. CASE Out(f) /\ ~(d.kind = "pointer" /\ given[n] = Null)
  <2>1. locals[n] = effect.after[n]
    BY <1>12, <1>15
  <2>2. d.kind = "pointer" => seen[n] # Null
    BY <1>6, <1>15 DEF SeenAs
  <2>3. Writes(d, seen[n]) = Writes(d, given[n])
    BY <1>8, <1>15, <2>2 DEF Writes
  <2>4. QED
    BY <1>5, <1>7, <2>1, <2>3
<1>16. QED
  BY <1>13, <1>14, <1>15

\* The caller's result after a transparent call.
LEMMA ResultAt ==
    ASSUME CallInv, Transparent, pc = "returned", NEW k, Ending(k), Len(method.returns) = 1
    PROVE  /\ locals[Len(CxxParams(method)) + 1] =
                  (IF outcome = "returned" THEN effect.result ELSE ResultSlot(method))[1]
           /\ (IF outcome = "returned" THEN effect.result ELSE ResultSlot(method)) \in Seq(Slots)
           /\ Len(IF outcome = "returned" THEN effect.result ELSE ResultSlot(method)) = 1
<1> DEFINE N == Len(CxxParams(method))
           E == ClientCounts(fields)
<1>1. /\ Ran /\ Sent /\ method \in Methods /\ Compiles(method) /\ Paired(method, fields)
      /\ Answered /\ ReadOK(method, fields, given, results, locals, k)
      /\ \A i \in 1..(k - 1) : ~Caught(fields, effect.thrown, i)
  BY EndingIs DEF Ending, ReadUpTo
<1>2. GivenOK(method, given) /\ MethodOK(method, fields, params, seen, effect)
  BY <1>1 DEF Sent, Ran
<1>3. Len(fields) \in Nat /\ k \in 1..(Len(fields) + 1)
  BY <1>1, CountsType DEF Ending
<1>4. PICK r \in 1..Len(fields) : IsResult(fields[r])
  BY <1>1, ResultFieldOf
<1> DEFINE f == fields[r]
           v == Part(Initial(method, given), r, E)
<1>5. First(r, E) = N + 1 /\ E[r] = 1
  <2>1. ~f.skip
    BY <1>4 DEF IsResult
  <2>2. First(r, E) = First(r, Counts(fields)) /\ First(r, Counts(fields)) = N + 1
    BY <1>1, <1>4, <2>1, ClientIs
  <2>3. E[r] = IF IsResult(fields[r]) THEN 1 ELSE Counts(fields)[r]
    BY DEF ClientCounts
  <2>4. QED
    BY <1>4, <2>2, <2>3
<1>6. N \in Nat
  BY <1>1, ParamAt
<1>7. Part(locals, r, E)[1] = locals[N + 1]
  <2>1. Part(locals, r, E) = [j \in 1..E[r] |-> locals[First(r, E) + j - 1]]
    BY DEF Part
  <2> HIDE DEF N, E
  <2>2. 1 \in 1..E[r] /\ First(r, E) + 1 - 1 = N + 1
    BY <1>5, <1>6
  <2>3. QED
    BY <2>1, <2>2
<1>8. VariableOK(method, fields, given, results, locals, r, r < k)
  BY <1>1, <1>4, VariablesAre
<1>9. v = Default(f.decl)
  BY <1>1, <1>2, <1>4, InitialIs
<1>10. f.decl = method.returns[1] /\ Out(f) /\ f.decl.kind # "pointer"
  BY <1>1, <1>4, ResultPassable
<1>11. CASE k = Len(fields) + 1 /\ outcome = "returned"
  <2>1. r < k /\ \A i \in 1..(r - 1) : ~Caught(fields, effect.thrown, i)
    BY <1>1, <1>3, <1>11
  <2>2. ReadsBack(results, fields[r], Part(Initial(method, given), r, ClientCounts(fields)),
                  fields[r].decl.client, OutValue(fields, effect, r))
    BY <1>1, <1>4, <1>10, <2>1, ResultReadBack
  <2>3. OutValue(fields, effect, r) = effect.result
    BY <1>4 DEF OutValue, IsResult
  <2>4. ReadField(results, f, v, f.decl.client) = effect.result
    BY <1>10, <2>2, <2>3 DEF ReadsBack
  <2>5. Part(locals, r, E) = ReadField(results, f, v, f.decl.client)
    BY <1>8, <1>10, <2>1 DEF VariableOK
  <2>6. effect.result \in Seq(Slots) /\ Len(effect.result) = 1
    <3>1. effect.result \in Results(method)
      BY <1>2 DEF MethodOK
    <3>2. Held(f.decl, effect.result, f.decl.server) /\ f.decl.count = 1
      BY <1>1, <1>4, <3>1, ReturnHeld, ResultPassable
    <3>3. QED
      BY <3>2 DEF Held
  <2>7. QED
    BY <1>7, <1>11, <2>4, <2>5, <2>6
<1>12. CASE k <= Len(fields) /\ Caught(fields, effect.thrown, k) /\ outcome \in {"base", "derived"}
  <2>1. k \in 1..Len(fields) /\ IsException(fields[k])
    BY <1>3, <1>12 DEF Caught, Handles
  <2>2. k < r
    BY <1>1, <1>4, <2>1, ExceptionOrder
  <2>3. ~(r < k)
    BY <1>3, <2>2
  <2>4. Part(locals, r, E) = v
    BY <1>8, <2>3 DEF VariableOK
  <2>5. /\ ResultSlot(method) = Default(method.returns[1]) /\ ResultSlot(method) \in Seq(Slots)
        /\ Len(ResultSlot(method)) = 1
    BY <1>1, SlotIs
  <2>6. QED
    BY <1>7, <1>9, <1>10, <1>12, <2>4, <2>5
<1>13. QED
  BY <1>11, <1>12 DEF Ending

\* What the caller's variables hold.
LEMMA TransparentLocals ==
    ASSUME CallInv, Transparent, pc = "returned"
    PROVE  locals = (IF outcome = "error" THEN given ELSE LeftLocally)
                    \o (IF outcome = "returned" THEN effect.result ELSE ResultSlot(method))
<1>1. CASE outcome = "error" /\ locals = Initial(method, given)
  BY <1>1 DEF Initial
<1>2. ASSUME NEW k, Ending(k)
      PROVE  /\ outcome # "error"
             /\ locals = LeftLocally \o (IF outcome = "returned" THEN effect.result ELSE ResultSlot(method))
  <2> DEFINE N == Len(CxxParams(method))
             L == [n \in 1..N |-> locals[n]]
             R == IF outcome = "returned" THEN effect.result ELSE ResultSlot(method)
             s == locals
             h == Len(method.returns)
  <2>1. /\ Ran /\ Sent /\ method \in Methods /\ Paired(method, fields)
        /\ ReadOK(method, fields, given, results, locals, k)
    BY <1>2, EndingIs DEF Ending, ReadUpTo
  <2>2. GivenOK(method, given) /\ MethodOK(method, fields, params, seen, effect)
    BY <2>1 DEF Sent, Ran
  <2>3. s \in Seq(Slots) /\ Len(s) = N + h
    <3>1. locals \in Seq(Slots) /\ Len(locals) = Len(Initial(method, given))
      BY <2>1 DEF ReadOK
    <3>2. Len(Initial(method, given)) = N + h
      BY <2>1, <2>2, InitialIs
    <3>3. QED
      BY <3>1, <3>2
  <2>4. N \in Nat /\ h \in {0, 1}
    BY <2>1, ParamAt, SlotIs
  <2>5. DOMAIN given = 1..N
    <3>1. given \in Seq(Slots) /\ Len(given) = N
      BY <2>2 DEF GivenOK
    <3>2. QED
      BY <3>1, LenProperties
  <2>6. LeftLocally = L
    <3>1. LeftLocally = [n \in 1..N |-> LeftLocally[n]]
      BY <2>5 DEF LeftLocally
    <3>2. \A n \in 1..N : locals[n] = LeftLocally[n]
      BY <1>2, <2>5, LeftAt
    <3>3. QED
      BY <3>1, <3>2
  <2>7. R \in Seq(Slots) /\ Len(R) = h /\ (h = 1 => s[N + 1] = R[1])
    <3>1. CASE h = 1
      BY <1>2, <3>1, ResultAt
    <3>2. CASE h = 0
      <4>1. ResultSlot(method) \in Seq(Slots) /\ Len(ResultSlot(method)) = 0
        BY <2>1, <3>2, SlotIs
      <4>2. method.returns = <<>>
        <5>1. method.returns \in Seq(Argument)
          BY <2>1, MethodFacts
        <5>2. QED
          BY <3>2, <5>1
      <4>3. effect.result = <<>>
        BY <2>2, <4>2 DEF MethodOK, Results
      <4>4. QED
        BY <3>2, <4>1, <4>3
    <3>3. QED
      BY <2>4, <3>1, <3>2
  <2>8. outcome # "error"
    BY <1>2 DEF Ending
  <2> HIDE DEF N, R, s, h
  <2>9. \A n \in 1..N : s[n] \in Slots
    BY <2>3, <2>4
  <2>10. [n \in 1..N |-> s[n]] \in Seq(Slots) /\ Len([n \in 1..N |-> s[n]]) = N
    BY <2>4, <2>9
  <2>11. s = [n \in 1..N |-> s[n]] \o R
    <3> DEFINE l == [n \in 1..N |-> s[n]]
    <3>1. l \in Seq(Slots) /\ Len(l) = N /\ \A n \in 1..N : l[n] = s[n]
      BY <2>10
    <3> HIDE DEF l
    <3>2. l \o R \in Seq(Slots) /\ Len(l \o R) = N + h
      BY <2>4, <2>7, <3>1
    <3>3. \A n \in 1..(N + h) : (l \o R)[n] = s[n]
      BY <2>3, <2>4, <2>7, <3>1
    <3>4. s = l \o R
      BY <2>3, <2>4, <3>2, <3>3, SeqEqual
    <3>5. QED
      BY <3>4 DEF l
  <2>12. locals = LeftLocally \o R
    BY <2>6, <2>11 DEF s
  <2>13. QED
    BY <2>8, <2>12 DEF R
<1>3. QED
  BY <1>1, <1>2, EndingIs

----------------------------------------------------------------------------
\* The invariant of a call gives that it can be told from no local call.
LEMMA CallLikeLocal == CallInv => LikeLocalCall
<1> SUFFICES ASSUME CallInv, Transparent, pc \in {"unwind", "read", "returned"}
             PROVE  /\ Called /\ SeenLocally
                    /\ pc = "returned" =>
                          /\ outcome = CaughtLocally
                          /\ locals = (IF outcome = "error" THEN given ELSE LeftLocally)
                                      \o (IF outcome = "returned" THEN effect.result ELSE ResultSlot(method))
  BY DEF LikeLocalCall
<1>1. Called /\ SeenLocally
  BY TransparentSeen
<1>2. ASSUME pc = "returned"
      PROVE  /\ outcome = CaughtLocally
             /\ locals = (IF outcome = "error" THEN given ELSE LeftLocally)
                         \o (IF outcome = "returned" THEN effect.result ELSE ResultSlot(method))
  BY <1>2, TransparentOutcome, TransparentLocals
<1>3. QED
  BY <1>1, <1>2

\* A call whose arguments can be carried, between processes that use the same
\* types, is a call of the method: it is given the caller's arguments, and what it
\* writes, returns or throws reaches the caller (clientInvoke, PassField,
\* ServerRet, ServerExcept, ReadResults).
THEOREM CallsLikeLocalCalls == Spec => []LikeLocalCall
<1>1. QED
  BY CallInvariant, CallLikeLocal, PTL
=============================================================================
