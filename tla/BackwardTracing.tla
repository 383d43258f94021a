--------------------------- MODULE BackwardTracing ---------------------------
(* From a scale variable to the places its storage is referred to through:
   followBwd and analyseTrace of lib/Analysis/ScaleVariableTracing.cpp, with
   the comparison of GEPs and of their indices.

   followBwd walks back from the scale variable to where its storage comes
   from; at an argument it goes on once, in every caller.  analyseTrace then
   walks forward from the root of such a trace and unrolls its GEPs: it looks
   for GEPs that look like those of the trace.

   A program is a record b: m as ScaleIR has it, whose operands are now those
   of every instruction (a GEP's pointer and then its indices, a store's value
   and then its pointer, a call's arguments), and
     start   the scale variable
     kind    of a value; "malloc" is a call of malloc
     access  what MemorySSA says of a load: "must", "may", or "none" when
             there is no instruction to go to
     def     the instruction a "must" load reads from
     opcode  of a binary operator                                          *)
EXTENDS ScaleIR, SequencesExt

CONSTANT Programs   \* the programs that may be traced

Kind == {"bitcast", "gep", "load", "store", "argument", "alloca", "global", "malloc",
         "call", "binop", "constant", "other"}
Opcode == {"add", "sub", "shl", "lshr", "ashr", "mul", "other"}

Program == [m : IRModule, start : Value, kind : [Value -> Kind],
            access : [Value -> {"must", "may", "none"}], def : [Value -> Value],
            opcode : [Value -> Opcode]]

(* What LLVM promises of a module: what is followed back has an operand, a
   binary operator two; use lists are what the operands say; a store is
   nobody's operand; and a load that MemorySSA has go to a store is in the use
   list of that.                                                            *)
WellFormed(d) ==
    /\ d.m.calls = {v \in Value : d.kind[v] \in {"call", "malloc"}}
    /\ \A v \in Value :
          /\ d.kind[v] \in {"bitcast", "gep", "load", "store"} => d.m.operands[v] # <<>>
          /\ d.kind[v] = "binop" => Len(d.m.operands[v]) = 2
          /\ \A o \in ToSet(d.m.operands[v]) : d.kind[o] # "store" /\ v \in d.m.users[o]
          /\ d.kind[v] = "load" /\ d.access[v] = "must" =>
                \/ d.kind[d.def[v]] = "store" /\ v \in d.m.memUses[d.def[v]]
                \/ d.kind[d.def[v]] = "call"

ASSUME ProgramsAssumption == Programs \subseteq {d \in Program : WellFormed(d)}

VARIABLES
    b,           \* the program; never changes
    phase,
    vt,          \* the trace that followBwdUpToArg extends
    Visited,     \* its Visited set
    vt2,         \* the trace up to the argument, once it is at one
    calls,       \* the calls of that function that are left
    results,     \* the traces followBwd returns
    left,        \* those that analyseTrace has not looked at yet
    trace,       \* the one it looks at
    traceGeps,   \* the places in it of the GEPs that are still to unroll
    traceRoots,  \* where to unroll the next one from
    pending,     \* the values findGEPs has still to be called on
    visited,     \* its visited set
    geps,        \* the GEPs it has found
    refs         \* what the analysed traces have contributed

vars == <<b, phase, vt, Visited, vt2, calls, results, left, trace, traceGeps, traceRoots,
          pending, visited, geps, refs>>
back == <<vt, Visited, vt2, calls, results>>
forth == <<left, trace, traceGeps, traceRoots, pending, visited, geps, refs>>

Phase == {"follow", "callers", "traces", "unroll", "find", "done", "undefined"}

Init ==
    /\ b \in Programs
    /\ phase = "follow"
    /\ vt = <<b.start>> /\ Visited = {b.start} /\ vt2 = <<>> /\ calls = {} /\ results = {}
    /\ left = {} /\ trace = <<>> /\ traceGeps = {} /\ traceRoots = {} /\ pending = {} /\ visited = {}
    /\ geps = {} /\ refs = {}

-----------------------------------------------------------------------------
(* One step back, inside a function. *)

getStore(d, v) == IF d.access[v] = "must" THEN d.def[v] ELSE d.m.operands[v][1]
NoStore(v) == b.kind[v] = "load" /\ b.access[v] = "none"

StepBack(d, v) ==
    IF d.kind[v] \in {"bitcast", "gep", "store"} THEN d.m.operands[v][1]
    ELSE IF d.kind[v] = "load" THEN getStore(d, v)
    ELSE v

(* followBwdUpToArg: back until a value comes up again.  getStore's null
   pointer is not looked at before dyn_cast is given it.                    *)
followBwdUpToArg ==
    LET V == StepBack(b, Last(vt)) IN
    /\ phase = "follow" /\ ~NoStore(Last(vt)) /\ V \notin Visited
    /\ vt' = Append(vt, V)
    /\ Visited' = Visited \cup {V}
    /\ UNCHANGED <<b, phase, vt2, calls, results, forth>>

NullStore ==
    /\ phase = "follow" /\ NoStore(Last(vt))
    /\ phase' = "undefined"
    /\ UNCHANGED <<b, back, forth>>

AtEnd == phase = "follow" /\ ~NoStore(Last(vt)) /\ StepBack(b, Last(vt)) \in Visited
AtArgument == vt2 = <<>> /\ b.kind[Last(vt)] = "argument"

(* The trace is complete. *)
EndTrace ==
    /\ AtEnd /\ ~AtArgument
    /\ results' = results \cup {vt}
    /\ phase' = "callers"
    /\ UNCHANGED <<b, vt, Visited, vt2, calls, forth>>

(* Mutant of Callers: only calls of functions that are not variadic. *)
Callers_Fixed(a) == {c \in b.m.calls : b.m.callee[c] = "defined" /\ a \in ToSet(b.m.formals[c])}

(* followArg: the calls of the function that argument a belongs to. *)
Callers(a) ==
    {c \in b.m.calls : b.m.callee[c] \in {"defined", "variadic"} /\ a \in ToSet(b.m.formals[c])}

ThroughPointer == \E c \in b.m.calls : b.m.callee[c] = "unknown"

followArg ==
    /\ AtEnd /\ AtArgument
    /\ vt2' = vt
    /\ calls' = Callers(Last(vt))
    /\ phase' = "callers"
    /\ UNCHANGED <<b, vt, Visited, results, forth>>

(* CallInstVisitor visits every call of the module: cast<Function> on what
   is none fails its assertion, or goes unnoticed without assertions.       *)
CastFails ==
    /\ AtEnd /\ AtArgument /\ ThroughPointer
    /\ phase' = "undefined"
    /\ UNCHANGED <<b, back, forth>>

(* Mutant of ArgNo: off by one. *)
ArgNo_Next(c, a) == SelectInSeq(b.m.formals[c], LAMBDA f : f = a) + 1

ArgNo(c, a) == SelectInSeq(b.m.formals[c], LAMBDA f : f = a)

(* Mutant of TakeCall: what another caller's trace has visited stays visited. *)
TakeCall_KeepsVisited(c) ==
    LET n == ArgNo(c, Last(vt2)) IN
    /\ phase = "callers" /\ c \in calls
    /\ n \in DOMAIN b.m.operands[c]
    /\ calls' = calls \ {c}
    /\ vt' = vt2 \o <<c, b.m.operands[c][n]>>
    /\ Visited' = Visited \cup {b.m.operands[c][n]}
    /\ phase' = "follow"
    /\ UNCHANGED <<b, vt2, results, forth>>

(* followBwd goes on at the argument that call c passes; the arguments of a
   call through a cast may be too few.                                      *)
TakeCall(c) ==
    LET n == ArgNo(c, Last(vt2)) IN
    /\ phase = "callers" /\ c \in calls
    /\ n \in DOMAIN b.m.operands[c]
    /\ calls' = calls \ {c}
    /\ vt' = vt2 \o <<c, b.m.operands[c][n]>>
    /\ Visited' = {b.m.operands[c][n]}
    /\ phase' = "follow"
    /\ UNCHANGED <<b, vt2, results, forth>>

TooFewArguments(c) ==
    /\ phase = "callers" /\ c \in calls
    /\ ArgNo(c, Last(vt2)) \notin DOMAIN b.m.operands[c]
    /\ phase' = "undefined"
    /\ UNCHANGED <<b, back, forth>>

EndCallers ==
    /\ phase = "callers" /\ calls = {}
    /\ left' = results
    /\ phase' = "traces"
    /\ UNCHANGED <<b, back, trace, traceGeps, traceRoots, pending, visited, geps, refs>>

-----------------------------------------------------------------------------
(* analyseTrace *)

IsRoot(v) == b.kind[v] \in {"alloca", "global", "malloc"}
RootAt(t) == SelectInSeq(t, IsRoot)
ReadPart(t) == IF RootAt(t) = 0 THEN t ELSE SubSeq(t, 1, RootAt(t))
GepsOf(t) == {i \in DOMAIN ReadPart(t) : b.kind[t[i]] = "gep"}

(* The name of a called function that is none is asked for. *)
NameOfNull(t) == \E v \in ToSet(ReadPart(t)) : v \in b.m.calls /\ b.m.callee[v] = "unknown"

(* A trace without a root contributes nothing. *)
DropTrace(t) ==
    /\ phase = "traces" /\ t \in left
    /\ RootAt(t) = 0 /\ ~NameOfNull(t)
    /\ left' = left \ {t}
    /\ UNCHANGED <<b, phase, back, trace, traceGeps, traceRoots, pending, visited, geps, refs>>

TakeTrace(t) ==
    /\ phase = "traces" /\ t \in left
    /\ RootAt(t) # 0 /\ ~NameOfNull(t)
    /\ left' = left \ {t}
    /\ trace' = t /\ traceGeps' = GepsOf(t)
    /\ traceRoots' = {t[RootAt(t)]}
    /\ visited' = {}
    /\ phase' = "unroll"
    /\ UNCHANGED <<b, back, pending, geps, refs>>

TraceUndefined(t) ==
    /\ phase = "traces" /\ t \in left /\ NameOfNull(t)
    /\ phase' = "undefined"
    /\ UNCHANGED <<b, back, forth>>

(* Mutant of nextGep: the GEPs are unrolled from the scale variable's side. *)
nextGep_First == Min(traceGeps)

(* The GEP to unroll next is the last one, next to the root. *)
nextGep == Max(traceGeps)
gep == trace[nextGep]

TakeGep ==
    /\ phase = "unroll" /\ traceGeps # {}
    /\ pending' = traceRoots /\ geps' = {}
    /\ phase' = "find"
    /\ UNCHANGED <<b, back, left, trace, traceGeps, traceRoots, visited, refs>>

(* findGEPs(v): a GEP among the users of v is found and not gone beyond; a
   store is left through the loads that may read it, a call through the
   formals v becomes, any other user is looked at in turn.                  *)
UsersOf(v, kinds) == {u \in b.m.users[v] : b.kind[u] \in kinds}
CallUsers(v) == b.m.users[v] \cap b.m.calls
Below(v) ==
    (UsersOf(v, Kind \ {"gep", "store"}) \ b.m.calls)
    \cup (UNION {b.m.memUses[s] : s \in UsersOf(v, {"store"})})
    \cup (UNION {getCallArgs(b.m, c, v) : c \in CallUsers(v)})

(* Mutant of findGEPs: a call is passed over. *)
findGEPs_NotCalls(v) ==
    /\ phase = "find" /\ v \in pending /\ v \notin visited
    /\ visited' = visited \cup {v}
    /\ geps' = geps \cup UsersOf(v, {"gep"})
    /\ pending' = (pending \ {v}) \cup (UsersOf(v, Kind \ {"gep", "store"}) \ b.m.calls)
                  \cup (UNION {b.m.memUses[s] : s \in UsersOf(v, {"store"})})
    /\ UNCHANGED <<b, phase, back, left, trace, traceGeps, traceRoots, refs>>

(* Mutant of findGEPs: the value is not entered into visited. *)
findGEPs_NotVisited(v) ==
    /\ phase = "find" /\ v \in pending /\ v \notin visited
    /\ \A c \in CallUsers(v) : ~CallArgsUndefined(b.m, c, v)
    /\ geps' = geps \cup UsersOf(v, {"gep"})
    /\ pending' = (pending \ {v}) \cup Below(v)
    /\ UNCHANGED <<b, phase, back, left, trace, traceGeps, traceRoots, visited, refs>>

findGEPs(v) ==
    /\ phase = "find" /\ v \in pending /\ v \notin visited
    /\ \A c \in CallUsers(v) : ~CallArgsUndefined(b.m, c, v)
    /\ visited' = visited \cup {v}
    /\ geps' = geps \cup UsersOf(v, {"gep"})
    /\ pending' = (pending \ {v}) \cup Below(v)
    /\ UNCHANGED <<b, phase, back, left, trace, traceGeps, traceRoots, refs>>

Skip(v) ==
    /\ phase = "find" /\ v \in pending /\ v \in visited
    /\ pending' = pending \ {v}
    /\ UNCHANGED <<b, phase, back, left, trace, traceGeps, traceRoots, visited, geps, refs>>

FindUndefined(v) ==
    /\ phase = "find" /\ v \in pending /\ v \notin visited
    /\ \E c \in CallUsers(v) : CallArgsUndefined(b.m, c, v)
    /\ phase' = "undefined"
    /\ UNCHANGED <<b, back, forth>>

-----------------------------------------------------------------------------
(* Do two GEPs look the same?                                              *)

IsConstant(d, v) == d.kind[v] \in {"constant", "global"}

(* One step back through arithmetic: of a binary operator of interest the
   first operand that is not constant is followed.                          *)
StepArithmetic(d, v) ==
    IF d.kind[v] = "binop" /\ d.opcode[v] # "other"
    THEN LET op == SelectInSeq(d.m.operands[v], LAMBDA o : ~IsConstant(d, o))
         IN  IF op = 0 THEN v ELSE d.m.operands[v][op]
    ELSE StepBack(d, v)

followArithmeticBwd(d, v) ==
    LET follow[t \in Seq(Value)] ==
            LET V == StepArithmetic(d, Last(t))
            IN  IF V \in ToSet(t) THEN t ELSE follow[Append(t, V)]
    IN  follow[<<v>>]

(* What stands at the same place of two traces. *)
Beside(t, u) == {<<t[n], u[n]>> : n \in DOMAIN t} \cap (Value \X Value)

(* naiveCompare, where equal tells of the operands. *)
naiveCompare(d, equal, x, y) ==
    \/ /\ d.kind[x] = "load" /\ d.kind[y] = "load"
       /\ d.m.operands[x][1] = d.m.operands[y][1]
    \/ /\ d.kind[x] = "binop" /\ d.kind[y] = "binop"
       /\ d.opcode[x] = d.opcode[y]
       /\ \A i \in 1..2 : equal[<<d.m.operands[x][i], d.m.operands[y][i]>>]

(* indicesAreEqual and naiveCompare call each other.  Traces of different
   lengths are not compared, and the indices taken for equal.               *)
indicesAreEqual(d) ==
    LET equal[q \in Value \X Value] ==
            LET back1 == followArithmeticBwd(d, q[1])
                back2 == followArithmeticBwd(d, q[2])
            IN  IF IsConstant(d, q[1]) \/ IsConstant(d, q[2])
                THEN q[1] = q[2]
                ELSE Len(back1) = Len(back2) =>
                        \A xy \in Beside(back1, back2) :
                            xy[1] = xy[2] \/ naiveCompare(d, equal, xy[1], xy[2])
    IN  equal

Indices(d, g) == Tail(d.m.operands[g])

gepsAreEqual(d, g, h) ==
    /\ Len(Indices(d, g)) = Len(Indices(d, h))
    /\ \A i \in DOMAIN Indices(d, g) : indicesAreEqual(d)[<<Indices(d, g)[i], Indices(d, h)[i]>>]

(* The pairs of operands that naiveCompare asks for: the second only when the
   first ones are equal.                                                    *)
OperandsAsked(d, x, y) ==
    {<<d.m.operands[x][i], d.m.operands[y][i]>> :
        i \in {i \in 1..2 : /\ x # y /\ d.kind[x] = "binop" /\ d.kind[y] = "binop"
                            /\ d.opcode[x] = d.opcode[y]
                            /\ i = 2 => indicesAreEqual(d)[<<d.m.operands[x][1], d.m.operands[y][1]>>]}}

(* The values that comparing two indices goes back to.  Places are compared
   from the last to the first, until two are not equal.                     *)
comparisonFollows(d) ==
    LET all[q \in Value \X Value] ==
            LET back1 == followArithmeticBwd(d, q[1])
                back2 == followArithmeticBwd(d, q[2])
                same(n) == \/ back1[n] = back2[n]
                           \/ naiveCompare(d, indicesAreEqual(d), back1[n], back2[n])
                places == {n \in DOMAIN back1 : /\ Len(back1) = Len(back2)
                                                /\ \A o \in n + 1..Len(back1) : same(o)}
            IN  IF IsConstant(d, q[1]) \/ IsConstant(d, q[2])
                THEN {}
                ELSE ToSet(back1) \cup ToSet(back2)
                     \cup UNION {all[xy] : xy \in UNION {OperandsAsked(d, back1[n], back2[n]) : n \in places}}
    IN  all

(* What comparing GEPs g and h goes back to: an index only when all before it
   are equal.                                                               *)
ComparingFollows(d, g, h) ==
    UNION {comparisonFollows(d)[<<Indices(d, g)[n], Indices(d, h)[n]>>] :
              n \in {n \in DOMAIN Indices(d, g) :
                        /\ Len(Indices(d, g)) = Len(Indices(d, h))
                        /\ \A i \in 1..n - 1 :
                              indicesAreEqual(d)[<<Indices(d, g)[i], Indices(d, h)[i]>>]}}

(* followArithmeticBwd, too, has getStore's null pointer looked at. *)
ComparesNull == \E v \in Value : NoStore(v) /\ \E h \in geps : v \in ComparingFollows(b, gep, h)

CompareUndefined ==
    /\ phase = "find" /\ pending = {} /\ ComparesNull
    /\ phase' = "undefined"
    /\ UNCHANGED <<b, back, forth>>

(* The GEPs that look like the one of the trace are the next roots. *)
EndFind ==
    /\ phase = "find" /\ pending = {} /\ ~ComparesNull
    /\ traceRoots' = {h \in geps : gepsAreEqual(b, gep, h)}
    /\ traceGeps' = traceGeps \ {nextGep}
    /\ phase' = "unroll"
    /\ UNCHANGED <<b, back, left, trace, pending, visited, geps, refs>>

EndUnroll ==
    /\ phase = "unroll" /\ traceGeps = {}
    /\ refs' = refs \cup traceRoots
    /\ phase' = "traces"
    /\ UNCHANGED <<b, back, left, trace, traceGeps, traceRoots, pending, visited, geps>>

EndTraces ==
    /\ phase = "traces" /\ left = {}
    /\ phase' = "done"
    /\ UNCHANGED <<b, back, forth>>

Step ==
    \/ followBwdUpToArg \/ NullStore \/ EndTrace \/ followArg \/ CastFails \/ EndCallers
    \/ \E c \in calls : TakeCall(c) \/ TooFewArguments(c)
    \/ \E t \in left : DropTrace(t) \/ TakeTrace(t) \/ TraceUndefined(t)
    \/ TakeGep \/ CompareUndefined \/ EndFind \/ EndUnroll \/ EndTraces
    \/ \E v \in pending : findGEPs(v) \/ Skip(v) \/ FindUndefined(v)

Terminated == phase \in {"done", "undefined"} /\ UNCHANGED vars

Next == Step \/ Terminated

Spec == Init /\ [][Next]_vars

(* The pass is one thread that runs as long as it has something to do. *)
FairSpec == Spec /\ WF_vars(Step)

-----------------------------------------------------------------------------
(* Types: the references, the origins and the local work of one run of the backward tracer. *)
TypeOK ==
    /\ b \in Programs
    /\ phase \in Phase
    /\ vt \in Seq(Value) \ {<<>>} /\ vt2 \in Seq(Value)
    /\ Visited \subseteq ToSet(vt)
    /\ calls \subseteq b.m.calls
    /\ results \subseteq Seq(Value) /\ left \subseteq results
    /\ trace \in Seq(Value) /\ traceGeps \subseteq DOMAIN trace
    /\ traceRoots \subseteq Value /\ pending \subseteq Value /\ visited \subseteq Value
    /\ geps \subseteq Value /\ refs \subseteq Value

(* What v can be used through without a GEP: all that every set with v that is
   closed under Below has.                                                  *)
Reached(v) ==
    LET All == {v} \cup UNION {Below(u) : u \in Value}
        Closed == {S \in SUBSET All : v \in S /\ \A u \in S : Below(u) \subseteq S}
    IN  {u \in All : \A S \in Closed : u \in S}

(* A place in the program for each GEP of a trace, at ps: each looks like its
   GEP, and is reached from the one for the next GEP to the root, or from it. *)
Root(t) == t[RootAt(t)]
Outer(t, p) == {q \in GepsOf(t) : p < q}
Base(t, ch, p) == IF Outer(t, p) = {} THEN Root(t) ELSE ch[Min(Outer(t, p))]
Chains(t, ps) ==
    {ch \in [ps -> {v \in Value : b.kind[v] = "gep"}] :
        \A p \in ps : /\ gepsAreEqual(b, t[p], ch[p])
                      /\ \E v \in Reached(Base(t, ch, p)) : ch[p] \in b.m.users[v]}

(* Unrolling all GEPs of t. *)
Unrolled(t) ==
    IF GepsOf(t) = {} THEN {Root(t)} ELSE {ch[Min(GepsOf(t))] : ch \in Chains(t, GepsOf(t))}

(* From where the GEP at place p of t is looked for. *)
Level(t, p) == {Base(t, ch, p) : ch \in Chains(t, Outer(t, p))}

Rooted == {t \in results : RootAt(t) # 0}

(* The searches for the GEPs of t do not meet. *)
Apart(t) ==
    \A p \in GepsOf(t) : \A q \in Outer(t, p) :
        \A v \in Level(t, p) : \A w \in Level(t, q) : Reached(v) \cap Reached(w) = {}

(* The references are those that unrolling the traces of all callers gives;
   as one visited set serves all levels, of a trace with several GEPs some
   may be missing where a level reaches values of an earlier one.           *)
RefsExact ==
    phase = "done" =>
        /\ refs \subseteq UNION {Unrolled(t) : t \in Rooted}
        /\ \A t \in Rooted : Apart(t) => Unrolled(t) \subseteq refs

(* A trace leaves functions only through calls that findGEPs enters. *)
Followed(t) ==
    \A v \in ToSet(t) \cap b.m.calls : b.m.callee[v] = IF IsRoot(v) THEN "declaration" ELSE "defined"

(* The root of a trace without GEPs, or its first GEP: where its storage is. *)
Origin(t) == IF GepsOf(t) = {} THEN Root(t) ELSE t[Min(GepsOf(t))]

(* Going back and forth again comes back: the storage of the scale variable is
   among its references, unless a trace leaves a function whose arguments are
   not followed, or its levels meet.                                        *)
OriginFound ==
    phase = "done" => \A t \in Rooted : Followed(t) /\ Apart(t) => Origin(t) \in refs

(* followBwd goes back through every call of the scale variable's function,
   also of a variadic one, and has one trace for each.                      *)
EveryCallerTraced ==
    phase = "done" /\ vt2 # <<>> =>
        \A c \in b.m.calls :
            LET through == {t \in results : Len(t) > Len(vt2) /\ t[Len(vt2) + 1] = c}
            IN  Cardinality(through) =
                    IF b.m.callee[c] \in {"defined", "variadic"} /\ Last(vt2) \in ToSet(b.m.formals[c])
                    THEN 1 ELSE 0

(* Tracing runs into undefined behaviour only at a load without a store, a
   call through a pointer, or a call through a cast whose arguments do not
   fit the function.                                                        *)
UndefinedOnlyForReason ==
    phase = "undefined" =>
        \/ \E v \in Value : NoStore(v)
        \/ \E c \in b.m.calls :
              \/ b.m.callee[c] = "unknown"
              \/ Len(b.m.operands[c]) # Len(b.m.formals[c])

Termination == <>(phase \in {"done", "undefined"})

-----------------------------------------------------------------------------
(* What the comment says and the code does not do: "Test whether two GEP calls
   *look* the same, i.e. the same target and offsets." (gepsAreEqual,
   ScaleVariableTracing.cpp:510).                                           *)
LooksSame ==
    LET same[q \in Value \X Value] ==
            \/ q[1] = q[2]
            \/ /\ b.kind[q[1]] = b.kind[q[2]]
               /\ b.opcode[q[1]] = b.opcode[q[2]]
               /\ Len(b.m.operands[q[1]]) = Len(b.m.operands[q[2]])
               /\ b.m.operands[q[1]] # <<>>
               /\ \A i \in DOMAIN b.m.operands[q[1]] :
                     same[<<b.m.operands[q[1]][i], b.m.operands[q[2]][i]>>]
    IN  same

EqualGepsLookSame ==
    phase = "find" /\ pending = {} =>
        \A h \in geps : gepsAreEqual(b, gep, h) =>
            \A i \in DOMAIN Indices(b, h) : LooksSame[<<Indices(b, gep)[i], Indices(b, h)[i]>>]
=============================================================================
