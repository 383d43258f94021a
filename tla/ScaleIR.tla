------------------------------- MODULE ScaleIR -------------------------------
(* What the tracing passes of OFT read of an LLVM module.

   A program is a record m over a set Value of LLVM values.  Only the facts
   the passes look at are kept:
     scale     the scale variables that library detection and the manual
               annotations hand to the tracing
     refs      for a scale variable, the values followBwd and analyseTrace
               return for it: the places its storage is referred to through
     users     the use list of a value (Value::users)
     memUses   for a store, the loads MemorySSA says may read it
     calls     the CallInst values
     callee    what is known about the function a call calls
     operands  the actual arguments of a call, in order
     formals   the Arguments of the function a call calls, in order        *)
EXTENDS Naturals, Sequences, FiniteSets

CONSTANT Value     \* the values (instructions, arguments, globals) of a module

(* "defined": a function with a body; "declaration": without one;
   "variadic": a variadic function with a body; "unknown": not a Function
   (a call through a pointer).                                             *)
CalleeKind == {"defined", "declaration", "variadic", "unknown"}

IRModule == [scale    : SUBSET Value,
             refs     : [Value -> SUBSET Value],
             users    : [Value -> SUBSET Value],
             memUses  : [Value -> SUBSET Value],
             calls    : SUBSET Value,
             callee   : [Value -> CalleeKind],
             operands : [Value -> Seq(Value)],
             formals  : [Value -> Seq(Value)]]

(* The values a value flows to directly inside its function: its users and,
   for a store, the loads that may read what it stored.                    *)
Children(m, v) == m.users[v] \cup m.memUses[v]

(* Positions at which argument a is passed by call c. *)
Positions(m, c, a) == {i \in DOMAIN m.operands[c] : m.operands[c][i] = a}

(* The formals that argument a of call c becomes in the body of the callee:
   a value passed several times has several, and calls of functions without
   a body or of variadic functions are not followed.                       *)
getCallArgs(m, c, a) ==
    IF m.callee[c] = "defined"
    THEN {m.formals[c][i] : i \in Positions(m, c, a) \cap DOMAIN m.formals[c]}
    ELSE {}

(* getCallArgs has no defined result: fp is a null pointer when the callee
   is not a Function, and arg_begin() + i is past the formals when a call
   through a cast passes more actuals than the callee has formals.         *)
CallArgsUndefined(m, c, a) ==
    \/ m.callee[c] = "unknown"
    \/ m.callee[c] = "defined" /\ ~(Positions(m, c, a) \subseteq DOMAIN m.formals[c])

-----------------------------------------------------------------------------
(* Reference definitions: what a set of values reaches.                    *)

FlowClosed(m, S) == \A v \in S : m.users[v] \cup m.memUses[v] \subseteq S

(* The least set that contains R and is closed under direct flow. *)
Closure(m, R) ==
    LET Closed == {S \in SUBSET Value : R \subseteq S /\ FlowClosed(m, S)}
    IN  {v \in Value : \A S \in Closed : v \in S}

(* The values edges lead to. *)
Ends(E) == {e[2] : e \in E}

(* The edges out of the values of S inside their functions. *)
FlowEdges(m, S) == UNION {{v} \X (m.users[v] \cup m.memUses[v]) : v \in S}

(* From the scale variables to their references, and all references. *)
RefEdges(m) == UNION {{v} \X m.refs[v] : v \in m.scale}
AllRefs(m) == UNION {m.refs[v] : v \in m.scale}

(* From a call to the formals that arguments the graph E passes it become. *)
CallEdges(m, E) ==
    UNION {{e[2]} \X getCallArgs(m, e[2], e[1]) : e \in {d \in E : d[2] \in m.calls}}
=============================================================================
