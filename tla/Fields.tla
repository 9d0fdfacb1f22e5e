-------------------------------- MODULE Fields --------------------------------
(***************************************************************************)
(* One method of an interface, from its declaration to the return of a     *)
(* call: mpgen pairs the parameters and results of the schema with the     *)
(* arguments of the C++ method (gen.cpp), the client builds the request    *)
(* from its arguments, the server turns it into arguments again, calls the *)
(* method and builds the response, and the client reads that into its      *)
(* arguments, its result or an exception (proxy-types.h, type-*.h).        *)
(*                                                                         *)
(* A method is a record of its arguments `args', the exceptions it         *)
(* declares `throws', its result `returns' (a sequence of at most one),    *)
(* and the `order' in which the Results struct has these.  Values are      *)
(* integers, or Null for a pointer or an empty std::optional.              *)
(***************************************************************************)
EXTENDS Numbers, Sequences, SequencesExt

CONSTANTS Methods,    \* the methods whose calls are looked at
          Null,
          Sample(_)   \* values tried of each integer type

Kinds == {"value",    \* an integer, or `count' of them packed into one field
          "optional", "shared",    \* std::optional, std::shared_ptr
          "pointer",  \* a raw pointer
          "skipped"}  \* a field annotated with skip

\* wire is the type in the message; client and server are the C++ types, which
\* differ if the processes were built with different headers.  has and want say
\* that the schema has fields has<Name> and want<Name>.
Argument == [name : STRING, kind : Kinds, dir : {"in", "out", "inout"}, count : Nat,
             wire : IntType, client : IntType, server : IntType,
             boxed : BOOLEAN, has : BOOLEAN, want : BOOLEAN]

MethodType == [args : Seq(Argument), throws : Seq({"base", "derived"}), returns : Seq(Argument),
               order : Seq(Nat)]

\* An exception is a struct or a string.
Exception(e) ==
    LET int == [signed |-> TRUE, width |-> "int"]
    IN [name |-> e, kind |-> "value", dir |-> "out", count |-> 1, wire |-> int,
        client |-> int, server |-> int, boxed |-> TRUE, has |-> FALSE, want |-> FALSE]

\* Everything the method declares.
Decls(m) == m.args \o [i \in 1..Len(m.throws) |-> Exception(m.throws[i])] \o m.returns

Role(d) == IF d.name \in {"base", "derived"} THEN "exception"
           ELSE IF d.name = "result" THEN "result" ELSE "argument"

\* The i-th output of the Results struct.
Output(m, i) == Decls(m)[m.order[i]]

\* The names of the fields has<Name> and want<Name>.
Has(n) == "has" \o n
Want(n) == "want" \o n
FlagNames(names) == {Has(n) : n \in names} \union {Want(n) : n \in names}
Names(m) == {d.name : d \in ToSet(m.args) \union ToSet(m.returns)} \union ToSet(m.throws)

\* capnp refuses two fields of a struct with the same name, and a field with a
\* name that is another's with has or want in front is taken for its flag.
WellNamed(m) ==
    /\ IsInjective([i \in DOMAIN m.args |-> m.args[i].name]) /\ IsInjective(m.throws)
    /\ \A d \in ToSet(m.args) : d.name \notin {"result", "base", "derived"}
    /\ \A d \in ToSet(m.returns) : d.name = "result"
    /\ Names(m) \intersect FlagNames(Names(m) \union FlagNames(Names(m))) = {}
    /\ \A a, b \in Names(m) : /\ Has(a) = Has(b) \/ Want(a) = Want(b) => a = b
                              /\ Has(a) # Want(b)

\* The Results struct has the declarations in any order, which is that of `throws'
\* for the exceptions and that of `args' for the arguments that have no parameter.
WellOrdered(m) ==
    /\ m.order \in Bijection(DOMAIN Decls(m), DOMAIN Decls(m))
    /\ \A i, j \in DOMAIN m.order :
           /\ i < j /\ Role(Output(m, i)) = Role(Output(m, j))
           /\ Output(m, i).dir = "out" /\ Output(m, j).dir = "out"
           => m.order[i] < m.order[j]

ASSUME MethodsAssumption ==
    \A m \in Methods :
        /\ m \in MethodType /\ WellNamed(m) /\ WellOrdered(m)
        /\ \A d \in ToSet(m.args) : d.kind \in {"optional", "shared", "pointer"} => d.count = 1
        /\ Len(m.returns) <= 1
        /\ \A d \in ToSet(m.returns) :
               d.dir = "out" /\ d.count = 1 /\ d.kind \in {"value", "optional", "shared"}

ASSUME SampleAssumption == Null \notin Int /\ \A t \in IntType : Sample(t) \subseteq Values(t)

VARIABLES
    method,    \* the method, chosen initially
    fields,    \* FieldList::fields
    pc, at,    \* the phase of the call, and a position in it
    given,     \* the caller's arguments as it passed them
    locals,    \* its arguments, and at the end its result
    params, results,    \* the two messages
    passed,    \* the server's variables for the arguments
    seen,      \* the arguments the method was called with
    effect,    \* what the method did
    thrown,    \* the exception in flight on the server
    outcome    \* how the call ended for the caller

vars == <<method, fields, pc, at, given, locals, params, results, passed, seen, effect,
          thrown, outcome>>

Called == effect.thrown # "not_called"

----------------------------------------------------------------------------
(* The schema of the method.                                               *)

\* Fields of the parameter and result structs, in the order of declaration.
SchemaField(n, d, isParam, isException) ==
    [name |-> n, decl |-> d, param |-> isParam, exception |-> isException]

ParamFields(d) ==
    LET Fld(n) == SchemaField(n, d, TRUE, FALSE)
    IN (IF d.dir # "out" THEN <<Fld(d.name)>> ELSE <<>>)
       \o (IF d.dir # "out" /\ d.has THEN <<Fld(Has(d.name))>> ELSE <<>>)
       \o (IF d.want THEN <<Fld(Want(d.name))>> ELSE <<>>)

ResultFields(d) ==
    LET Fld(n) == SchemaField(n, d, FALSE, Role(d) = "exception")
    IN IF d.dir = "in" THEN <<>>
       ELSE <<Fld(d.name)>> \o (IF d.has THEN <<Fld(Has(d.name))>> ELSE <<>>)

Schema(m) ==
    FlattenSeq([i \in DOMAIN m.args |-> ParamFields(m.args[i])]
               \o [i \in DOMAIN m.order |-> ResultFields(Output(m, i))])

Message(m) == [n \in {Schema(m)[i].name : i \in DOMAIN Schema(m)} |->
                  [set |-> FALSE, val |-> <<>>]]

\* The parameters of the C++ method.
CxxCount(d) == IF d.kind = "skipped" THEN 0 ELSE d.count
CxxParams(m) == FlattenSeq([i \in DOMAIN m.args |-> [j \in 1..CxxCount(m.args[i]) |-> m.args[i]]])

----------------------------------------------------------------------------
(* mpgen.                                                                  *)

\* Variant of CountArgs: a field that is in the results too is counted again.
CountAlways(old, s, retval) == IF retval \/ s.exception THEN old.args ELSE old.args + s.decl.count

\* FieldList::addField counts the arguments when it first meets the name.
CountArgs(old, s, retval) ==
    IF old.param \/ old.result \/ retval \/ s.exception THEN old.args ELSE s.decl.count

NewField(n, d) ==
    [name |-> n, decl |-> d, param |-> FALSE, result |-> FALSE, args |-> 0,
     retval |-> FALSE, optional |-> FALSE, requested |-> FALSE, skip |-> FALSE,
     exception |-> FALSE]

\* The field f with what is added for the field s of a struct.
Added(f, s) ==
    LET retval == ~s.param /\ s.name = "result"
    IN [f EXCEPT !.param = @ \/ s.param,
                 !.result = @ \/ ~s.param,
                 !.retval = @ \/ retval,
                 !.skip = @ \/ s.decl.kind = "skipped",
                 !.exception = @ \/ s.exception,
                 !.args = CountArgs(f, s, retval)]

Listed(n) == \E i \in DOMAIN fields : fields[i].name = n
ListedParam(n) == \E i \in DOMAIN fields : fields[i].name = n /\ fields[i].param

AddField ==
    /\ pc = "generate" /\ at <= Len(Schema(method))
    /\ LET s == Schema(method)[at]
       IN \/ /\ ~Listed(s.name)
             /\ fields' = Append(fields, Added(NewField(s.name, s.decl), s))
          \/ \E i \in DOMAIN fields :
                /\ fields[i].name = s.name
                /\ fields' = [fields EXCEPT ![i] = Added(fields[i], s)]
    /\ at' = at + 1
    /\ UNCHANGED <<method, pc, given, locals, params, results, passed, seen, effect, thrown,
                   outcome>>

\* Variant of Flags: no field is taken for a flag of another.
NoFlags(f) == FALSE

\* The fields has<Name> and want<Name> of another field.
Flags(f) ==
    \E i \in DOMAIN fields :
        f.name = Has(fields[i].name) \/ (f.name = Want(fields[i].name) /\ f.param)

MergeFields ==
    /\ pc = "generate" /\ at > Len(Schema(method))
    /\ fields' = [i \in DOMAIN fields |->
           [fields[i] EXCEPT !.skip = @ \/ Flags(fields[i]),
                             !.optional = Listed(Has(fields[i].name)),
                             !.requested = ListedParam(Want(fields[i].name))]]
    /\ pc' = "declared"
    /\ UNCHANGED <<method, at, given, locals, params, results, passed, seen, effect, thrown,
                   outcome>>

----------------------------------------------------------------------------
(* The code of the client and the server, which is generated for the       *)
(* fields that are not skipped: their flags (AccessorType), and their      *)
(* arguments among those of the method.                                    *)

In(f) == ~f.skip /\ f.param
Out(f) == ~f.skip /\ (~f.param \/ f.result)
Boxed(f) == f.decl.boxed

IsException(f) == ~f.skip /\ f.exception
IsArgument(f) == ~f.skip /\ ~f.retval /\ ~f.exception

\* The number of C++ values each field stands for in the lists that are split
\* between the fields: sizeof...(Types) for the client, argc for the server.
ServerArgs == [k \in DOMAIN fields |-> IF fields[k].skip THEN 0 ELSE fields[k].args]
ClientArgs == [k \in DOMAIN fields |->
                  IF ~fields[k].skip /\ fields[k].retval THEN 1 ELSE ServerArgs[k]]

\* Split<N>: the values of the k-th field among those of all fields.
First(k, counts) ==
    LET first[i \in 1..(Len(counts) + 1)] == IF i = 1 THEN 1 ELSE first[i - 1] + counts[i - 1]
    IN first[k]
Split(s, k, counts) == SubSeq(s, First(k, counts), First(k, counts) + counts[k] - 1)
Replace(s, k, counts, v) ==
    [n \in DOMAIN s |-> LET j == n - First(k, counts) + 1
                        IN IF j \in DOMAIN v THEN v[j] ELSE s[n]]

----------------------------------------------------------------------------
(* Reading and building a field.                                           *)

\* StructField::has and want.  Integers have no `has' of their own.
HasField(msg, f) ==
    IF f.optional THEN msg[Has(f.name)].set ELSE Boxed(f) => msg[f.name].set
Wanted(f) == f.requested => params[Want(f.name)].set

\* Variant of SetHas: std::optional does not set the flag.
SetHasNever(f) == {}

\* The flags that building a value sets.  std::shared_ptr sets none.
SetHas(f) == IF f.decl.kind = "optional" /\ f.optional THEN {Has(f.name)} ELSE {}

\* BuildField: nothing is built for null.
BuildField(msg, f, v) ==
    IF v = <<Null>> THEN msg
    ELSE [n \in DOMAIN msg |->
             IF n = f.name
             THEN [set |-> TRUE, val |-> [j \in DOMAIN v |-> BuildPrimitive(v[j], f.decl.wire)]]
             ELSE IF n \in SetHas(f) THEN [set |-> TRUE, val |-> <<>>] ELSE msg[n]]

\* An integer that has not been built reads as zero.
Wire(msg, f) == IF msg[f.name].set THEN msg[f.name].val ELSE [j \in 1..f.decl.count |-> 0]

\* Whether ReadField into a variable with the value v reads a value at all.
ReadsValue(msg, f, v) ==
    CASE f.decl.kind = "pointer" -> v # <<Null>>
      [] f.decl.kind \in {"optional", "shared"} -> HasField(msg, f)
      [] OTHER -> TRUE

ReadThrows(msg, f, v, local) ==
    ReadsValue(msg, f, v) /\ \E j \in DOMAIN Wire(msg, f) :
                                 OutOfBound(Wire(msg, f)[j], f.decl.wire, local)

\* std::optional and std::shared_ptr are reset where there is no value.
ReadField(msg, f, v, local) ==
    IF ReadsValue(msg, f, v)
    THEN [j \in DOMAIN Wire(msg, f) |-> ReadPrimitive(Wire(msg, f)[j], local)]
    ELSE IF f.decl.kind = "pointer" THEN v ELSE <<Null>>

\* A value-initialised variable.
Default(d) == IF d.kind \in {"optional", "shared"} THEN <<Null>> ELSE [j \in 1..d.count |-> 0]

----------------------------------------------------------------------------
(* The client: clientInvoke.                                               *)

\* Values a variable of the type t may have.
LocalValues(d, t) == Sample(t) \union (IF d.kind = "value" THEN {} ELSE {Null})

\* The sequences whose n-th value is in the n-th of the sets.
Tuples(sets) == {t \in [DOMAIN sets -> UNION {sets[n] : n \in DOMAIN sets}] :
                    \A n \in DOMAIN sets : t[n] \in sets[n]}

\* The result.  An integer is not initialised here, but is always read before it is
\* returned: 0 stands for what it holds until then.
ResultSlot(m) == FlattenSeq([i \in DOMAIN m.returns |-> Default(m.returns[i])])

Invoke ==
    /\ pc = "declared"
    /\ \E v \in Tuples([n \in DOMAIN CxxParams(method) |-> LocalValues(CxxParams(method)[n], CxxParams(method)[n].client)]) :
          /\ given' = v
          /\ locals' = v \o ResultSlot(method)
    /\ params' = Message(method)
    /\ results' = Message(method)
    /\ pc' = "build" /\ at' = 1
    /\ UNCHANGED <<method, fields, passed, seen, effect, thrown, outcome>>

\* Variant of SetWant: the flag is set for a null pointer too.
SetWantAlways(f, v) == IF f.requested THEN {Want(f.name)} ELSE {}

\* MaybeSetWant
SetWant(f, v) ==
    IF f.requested /\ f.decl.kind = "pointer" /\ v # <<Null>> THEN {Want(f.name)} ELSE {}

\* ClientParam::BuildParams of one field; ClientException has nothing to build.
BuildParams ==
    /\ pc = "build" /\ at <= Len(fields)
    /\ LET f == fields[at]
           v == Split(locals, at, ClientArgs)
           wanted == [n \in DOMAIN params |->
                         IF n \in SetWant(f, v) THEN [set |-> TRUE, val |-> <<>>] ELSE params[n]]
       IN params' = IF f.skip THEN params ELSE IF In(f) THEN BuildField(wanted, f, v) ELSE wanted
    /\ at' = at + 1
    /\ UNCHANGED <<method, fields, pc, given, locals, results, passed, seen, effect, thrown,
                   outcome>>

Send ==
    /\ pc = "build" /\ at > Len(fields)
    /\ pc' = "pass" /\ at' = 1
    /\ UNCHANGED <<method, fields, given, locals, params, results, passed, seen, effect,
                   thrown, outcome>>

----------------------------------------------------------------------------
(* The server: PassField and the wrappers of the call, inside each other.  *)

\* What a variable the server makes for an argument may hold.  The one a pointer
\* points to is not initialised.
Fresh(d) == IF d.kind = "pointer" THEN {<<x>> : x \in Sample(d.server)} ELSE {Default(d)}

NullPassed(f) == f.decl.kind = "pointer" /\ ~Wanted(f)

\* From the outside in.  An exception here unwinds the fields around it.
PassField ==
    /\ pc = "pass" /\ at <= Len(fields)
    /\ LET f == fields[at]
       IN \E v \in Fresh(f.decl) :
          \/ /\ ~IsArgument(f)
             /\ at' = at + 1
             /\ UNCHANGED <<pc, passed, thrown>>
          \/ /\ IsArgument(f) /\ NullPassed(f)
             /\ passed' = Append(passed, Null)
             /\ at' = at + 1
             /\ UNCHANGED <<pc, thrown>>
          \/ /\ IsArgument(f) /\ ~NullPassed(f) /\ (In(f) => ~ReadThrows(params, f, v, f.decl.server))
             /\ passed' = passed \o (IF In(f) THEN ReadField(params, f, v, f.decl.server) ELSE v)
             /\ at' = at + 1
             /\ UNCHANGED <<pc, thrown>>
          \/ /\ IsArgument(f) /\ ~NullPassed(f) /\ In(f) /\ ReadThrows(params, f, v, f.decl.server)
             /\ thrown' = "range_error"
             /\ pc' = "unwind" /\ at' = at - 1
             /\ UNCHANGED passed
    /\ UNCHANGED <<method, fields, given, locals, params, results, seen, effect, outcome>>

\* What the method may leave in a variable it was passed.
Writes(d, v) == IF d.dir = "in" \/ (d.kind = "pointer" /\ v = Null) THEN {v}
                ELSE IF d.kind = "pointer" THEN Sample(d.server) ELSE LocalValues(d, d.server)

Exceptions(m) == IF m.throws = <<>> THEN {"other"} ELSE {"base", "derived", "other"}
Results(m) == IF m.returns = <<>> THEN {<<>>}
              ELSE {<<v>> : v \in LocalValues(m.returns[1], m.returns[1].server)}

\* ServerCall: the method, which writes to its arguments, and returns a result
\* or throws.
Call ==
    /\ pc = "pass" /\ at > Len(fields)
    /\ seen' = passed
    /\ \E after \in Tuples([n \in DOMAIN passed |-> Writes(CxxParams(method)[n], passed[n])]) :
       \E result \in Results(method), e \in Exceptions(method) \union {"none"} :
          /\ effect' = [after |-> after, result |-> result, thrown |-> e]
          /\ passed' = after
          /\ thrown' = e
    /\ pc' = "unwind" /\ at' = Len(fields)
    /\ UNCHANGED <<method, fields, given, locals, params, results, outcome>>

\* catch (const Exception&) catches classes derived from it.
Catches(e, x) == x = e \/ (e = "base" /\ x = "derived")

\* Variant of BuildsOutput: arguments are not built once something was thrown.
BuildsUntilCaught(f) == thrown = "none" /\ effect.thrown = "none"

\* The rest of PassField and of ServerRet runs unless an exception is in flight.
BuildsOutput(f) == thrown = "none"

\* From the inside out: the rest of PassField, ServerRet and ServerExcept.
Unwind ==
    /\ pc = "unwind" /\ at > 0
    /\ LET f == fields[at]
       IN \/ /\ IsException(f)
             /\ IF Catches(f.decl.name, thrown)
                THEN thrown' = "none" /\ results' = BuildField(results, f, <<0>>)
                ELSE UNCHANGED <<thrown, results>>
          \/ /\ ~IsException(f)
             /\ results' = IF ~BuildsOutput(f) \/ ~Out(f) THEN results
                           ELSE IF f.retval THEN BuildField(results, f, effect.result)
                           ELSE BuildField(results, f, Split(passed, at, ServerArgs))
             /\ UNCHANGED thrown
    /\ at' = at - 1
    /\ UNCHANGED <<method, fields, pc, given, locals, params, passed, seen, effect, outcome>>

\* The response, or an error.
Respond ==
    /\ pc = "unwind" /\ at = 0
    /\ \/ /\ thrown = "none"
          /\ pc' = "read" /\ at' = 1
          /\ UNCHANGED outcome
       \/ /\ thrown # "none"
          /\ pc' = "returned" /\ at' = 0
          /\ outcome' = "error"
    /\ UNCHANGED <<method, fields, given, locals, params, results, passed, seen, effect, thrown>>

----------------------------------------------------------------------------
(* The client again: ReadResults, of each field in turn.                   *)

ReadResults ==
    /\ pc = "read" /\ at <= Len(fields)
    /\ LET f == fields[at]
           v == Split(locals, at, ClientArgs)
           reads == Out(f) /\ ~f.exception
       IN \/ /\ IsException(f) /\ HasField(results, f)
             /\ outcome' = f.decl.name
             /\ pc' = "returned" /\ at' = 0
             /\ UNCHANGED locals
          \/ /\ reads /\ ReadThrows(results, f, v, f.decl.client)
             /\ outcome' = "error"
             /\ pc' = "returned" /\ at' = 0
             /\ UNCHANGED locals
          \/ /\ ~(IsException(f) /\ HasField(results, f))
             /\ ~(reads /\ ReadThrows(results, f, v, f.decl.client))
             /\ locals' = IF ~reads THEN locals
                          ELSE Replace(locals, at, ClientArgs, ReadField(results, f, v, f.decl.client))
             /\ at' = at + 1
             /\ UNCHANGED <<pc, outcome>>
    /\ UNCHANGED <<method, fields, given, params, results, passed, seen, effect, thrown>>

Return ==
    /\ pc = "read" /\ at > Len(fields)
    /\ pc' = "returned" /\ at' = 0
    /\ outcome' = "returned"
    /\ UNCHANGED <<method, fields, given, locals, params, results, passed, seen, effect, thrown>>

----------------------------------------------------------------------------

\* Variant of Wraps: the code for an exception can be around that for an argument.
WrapsArguments(a, b) == a.dir = "out" /\ b.dir = "out" /\ Role(a) = "result" => b.kind = "skipped"

\* Whether the server's code for the output a may be around that for b.  The invoke
\* of ServerExcept and of ServerRet takes no types that would be left to split for
\* arguments, and ServerRet needs the value that only the call of the method has.
Wraps(a, b) ==
    a.dir = "out" /\ b.dir = "out" =>
        /\ Role(a) = "exception" /\ Role(b) = "argument" => CxxCount(b) = 0
        /\ Role(a) = "result" => b.kind = "skipped"

\* Whether the generated code compiles: integer types fit, arguments that have no
\* parameter come last, as their fields do, and the wrappers fit in each other.
Compiles(m) ==
    /\ \A d \in ToSet(m.args) \union ToSet(m.returns) :
           Accepted(d.wire, d.client) /\ Accepted(d.wire, d.server)
    /\ \A i, j \in DOMAIN m.args : i < j /\ m.args[i].dir = "out" => m.args[j].dir = "out"
    /\ \A i, j \in DOMAIN m.order : i < j => Wraps(Output(m, i), Output(m, j))

Init ==
    /\ method \in Methods /\ Compiles(method)
    /\ fields = <<>>
    /\ pc = "generate" /\ at = 1
    /\ given = <<>> /\ locals = <<>>
    /\ params = <<>> /\ results = <<>>
    /\ passed = <<>>
    /\ seen = <<>>
    /\ effect = [after |-> <<>>, result |-> <<>>, thrown |-> "not_called"]
    /\ thrown = "none" /\ outcome = "none"

Terminated == pc = "returned" /\ UNCHANGED vars

Next ==
    \/ AddField \/ MergeFields
    \/ Invoke \/ BuildParams \/ Send
    \/ PassField \/ Call \/ Unwind \/ Respond
    \/ ReadResults \/ Return
    \/ Terminated

Spec == Init /\ [][Next]_vars

----------------------------------------------------------------------------
(* Properties.                                                             *)

\* The values the variables range over.  Every parameter of the C++ method is in
\* exactly one field that code is generated for.
TypeOK ==
    /\ pc \in {"generate", "declared", "build", "pass", "unwind", "read", "returned"}
    /\ at \in Nat
    /\ thrown \in {"none", "other", "base", "derived", "range_error"}
    /\ outcome \in {"none", "returned", "error", "base", "derived"}
    /\ pc # "generate" =>
           CxxParams(method) =
               FlattenSeq([k \in DOMAIN fields |-> [j \in 1..ServerArgs[k] |-> fields[k].decl]])
    /\ Called => Len(seen) = Len(given)

\* Declarations that can carry every value of the argument: a flag or a boxed
\* field for std::optional, a boxed field for std::shared_ptr, and for integers
\* a field that can be read.
Carries(d) ==
    /\ ~Unreadable(d.wire, d.client) /\ ~Unreadable(d.wire, d.server)
    /\ d.kind = "optional" => d.has \/ d.boxed
    /\ d.kind = "shared" => d.boxed /\ ~d.has

\* A declared exception hides those declared before it that are derived from it.
DerivedLast(m) == \A i, j \in DOMAIN m.throws :
                      m.throws[i] = "derived" /\ m.throws[j] = "base" => j < i

\* Calls for which both processes use the same types, every argument can be
\* carried, and null pointers are passed only where there is a want field.
Transparent ==
    /\ \A d \in ToSet(method.args) \union ToSet(method.returns) :
           Carries(d) /\ d.client = d.server
    /\ \A n \in DOMAIN given :
           CxxParams(method)[n].kind = "pointer" /\ given[n] = Null => CxxParams(method)[n].want
    /\ DerivedLast(method)

\* The method is given what a local call would give it, except that variables for
\* output are new: value-initialised, or with any contents behind a pointer.
SeenLocally ==
    /\ DOMAIN seen = DOMAIN given
    /\ \A n \in DOMAIN given :
          LET d == CxxParams(method)[n]
          IN IF d.dir # "out" \/ given[n] = Null THEN seen[n] = given[n]
             ELSE IF d.kind = "pointer" THEN seen[n] # Null ELSE seen[n] = Default(d)[1]

\* What the caller of a local call finds in its variables afterwards.
LeftLocally ==
    [n \in DOMAIN given |->
        IF Writes(CxxParams(method)[n], given[n]) = {given[n]} THEN given[n] ELSE effect.after[n]]

\* What it catches, of the exceptions that the method declares.
CaughtLocally ==
    LET x == effect.thrown
    IN IF x = "none" THEN "returned"
       ELSE IF x \in ToSet(method.throws) THEN x
       ELSE IF \E e \in ToSet(method.throws) : Catches(e, x) THEN "base" ELSE "error"

\* A call to a proxy is a call to the method: it is given the caller's arguments,
\* and what it writes, returns or throws reaches the caller.  An exception that
\* is not declared changes nothing.
LikeLocalCall ==
    pc \in {"unwind", "read", "returned"} /\ Transparent =>
        /\ Called /\ SeenLocally
        /\ pc = "returned" =>
              /\ outcome = CaughtLocally
              /\ locals = (IF outcome = "error" THEN given ELSE LeftLocally)
                          \o (IF outcome = "returned" THEN effect.result ELSE ResultSlot(method))

\* An integer arrives as the integer that was sent or the call fails, whatever
\* integer types the two processes use for it ("out of bound int received").
NeverAltered ==
    \A n \in DOMAIN given :
        LET d == CxxParams(method)[n]
        IN d.kind = "value" /\ Carries(d) =>
              /\ Called /\ d.dir # "out" => seen[n] = given[n]
              /\ outcome = "returned" /\ d.dir # "in" => locals[n] = effect.after[n]
=============================================================================
