------------------------ MODULE ScaleVariableTracing ------------------------
(* The tracing of scale variables through a module: createScaleGraph and
   trace of lib/Analysis/ScaleVariableTracing.cpp with the scale graph of
   lib/ScaleGraph.cpp that they build.

   The recursion of traceScaleInstructionsUpToCalls is a stack of frames, a
   frame being the children of a call of the function that it has still to
   recurse into.  The order of use lists, of the pointer-ordered map and of
   the pointer-ordered sets is left open: any child of a frame, any scale
   variable and any call may be next.                                      *)
EXTENDS ScaleIR

CONSTANT Modules   \* the programs that may be analysed

ASSUME ModulesAssumption == Modules \subseteq IRModule
ASSUME ValueAssumption == IsFiniteSet(Value)

VARIABLES
    ir,         \* the program; never changes
    phase,      \* the point of perform/trace that is reached
    nodes,      \* scale_graph::graph
    edges,      \* scale_node::children and ::parents, as pairs
    scale_vars, \* scale_graph::scale_vars
    todo,       \* the scale variables the first loop of trace has left
    cur,        \* V of that loop ({} outside an iteration, else {V})
    refs,       \* the references of V it has left
    stack,      \* the recursion of traceScaleInstructionsUpToCalls
    visited,    \* its visited set
    toFollow,   \* to_follow
    prevSize    \* prevSize

vars == <<ir, phase, nodes, edges, scale_vars, todo, cur, refs, stack, visited,
          toFollow, prevSize>>

Phase == {"create", "vars", "refs", "test", "collect", "follow", "done", "undefined"}

Init ==
    /\ ir \in Modules
    /\ phase = "create"
    /\ nodes = {} /\ edges = {} /\ scale_vars = {}
    /\ todo = {} /\ cur = {} /\ refs = {}
    /\ stack = <<>> /\ visited = {}
    /\ toFollow = {} /\ prevSize = 0

-----------------------------------------------------------------------------
(* createScaleGraph: every scale variable is a root of the graph. *)
CreateScaleGraph ==
    /\ phase = "create"
    /\ nodes' = ir.scale
    /\ scale_vars' = ir.scale
    /\ todo' = ir.scale
    /\ phase' = "vars"
    /\ UNCHANGED <<ir, edges, cur, refs, stack, visited, toFollow, prevSize>>

(* An iteration over scale_variables begins: find the references of v. *)
TakeScaleVar(v) ==
    /\ phase = "vars" /\ v \in todo
    /\ todo' = todo \ {v}
    /\ cur' = {v}
    /\ refs' = ir.refs[v]
    /\ visited' = {}
    /\ phase' = "refs"
    /\ UNCHANGED <<ir, nodes, edges, scale_vars, stack, toFollow, prevSize>>

(* A reference joins the graph below its scale variable and is traced. *)
TakeRef(r) ==
    /\ phase = "refs" /\ stack = <<>> /\ r \in refs
    /\ refs' = refs \ {r}
    /\ nodes' = nodes \cup {r}
    /\ edges' = edges \cup (cur \X {r})
    /\ stack' = <<{r}>>
    /\ UNCHANGED <<ir, phase, scale_vars, todo, cur, visited, toFollow, prevSize>>

EndRefs ==
    /\ phase = "refs" /\ stack = <<>> /\ refs = {}
    /\ cur' = {}
    /\ phase' = "vars"
    /\ UNCHANGED <<ir, nodes, edges, scale_vars, todo, refs, stack, visited,
                   toFollow, prevSize>>

EndVars ==
    /\ phase = "vars" /\ todo = {}
    /\ prevSize' = 0
    /\ phase' = "test"
    /\ UNCHANGED <<ir, nodes, edges, scale_vars, todo, cur, refs, stack, visited,
                   toFollow>>

(* traceScaleInstructionsUpToCalls(v): a visited value returns at once, a new
   one adds all its children to the graph before it recurses into them.     *)
Skip(v) ==
    /\ stack # <<>> /\ v \in Head(stack) /\ v \in visited
    /\ stack' = <<Head(stack) \ {v}>> \o Tail(stack)
    /\ UNCHANGED <<ir, phase, nodes, edges, scale_vars, todo, cur, refs, visited,
                   toFollow, prevSize>>

(* Mutant of Visit: memory uses are not looked at. *)
Visit_NoMemUses(v) ==
    /\ stack # <<>> /\ v \in Head(stack) /\ v \notin visited
    /\ visited' = visited \cup {v}
    /\ nodes' = nodes \cup ir.users[v]
    /\ edges' = edges \cup ({v} \X ir.users[v])
    /\ stack' = <<ir.users[v], Head(stack) \ {v}>> \o Tail(stack)
    /\ UNCHANGED <<ir, phase, scale_vars, todo, cur, refs, toFollow, prevSize>>

(* Mutant of Visit: the recursion follows the first child and does not come
   back to the others.                                                      *)
Visit_NoSiblings(v) ==
    /\ stack # <<>> /\ v \in Head(stack) /\ v \notin visited
    /\ visited' = visited \cup {v}
    /\ nodes' = nodes \cup Children(ir, v)
    /\ edges' = edges \cup ({v} \X Children(ir, v))
    /\ stack' = <<Children(ir, v)>> \o Tail(stack)
    /\ UNCHANGED <<ir, phase, scale_vars, todo, cur, refs, toFollow, prevSize>>

Visit(v) ==
    /\ stack # <<>> /\ v \in Head(stack) /\ v \notin visited
    /\ visited' = visited \cup {v}
    /\ nodes' = nodes \cup Children(ir, v)
    /\ edges' = edges \cup ({v} \X Children(ir, v))
    /\ stack' = <<Children(ir, v), Head(stack) \ {v}>> \o Tail(stack)
    /\ UNCHANGED <<ir, phase, scale_vars, todo, cur, refs, toFollow, prevSize>>

Return ==
    /\ stack # <<>> /\ Head(stack) = {}
    /\ stack' = Tail(stack)
    /\ UNCHANGED <<ir, phase, nodes, edges, scale_vars, todo, cur, refs, visited,
                   toFollow, prevSize>>

(* The condition of the while loop: has the graph grown since prevSize? *)
WhileTest ==
    /\ phase = "test"
    /\ phase' = IF Cardinality(nodes) # prevSize THEN "collect" ELSE "done"
    /\ UNCHANGED <<ir, nodes, edges, scale_vars, todo, cur, refs, stack, visited,
                   toFollow, prevSize>>

(* The arguments of calls that are in the graph: the parents of a call node. *)
ScaleArgs == {e \in edges : e[2] \in ir.calls}

(* Mutant of CollectCalls: the formals join the graph but not to_follow. *)
CollectCalls_NotFollowed ==
    LET entered == UNION {getCallArgs(ir, e[2], e[1]) : e \in ScaleArgs} IN
    /\ phase = "collect"
    /\ \A e \in ScaleArgs : ~CallArgsUndefined(ir, e[2], e[1])
    /\ nodes' = nodes \cup entered
    /\ edges' = edges \cup UNION {{e[2]} \X getCallArgs(ir, e[2], e[1]) : e \in ScaleArgs}
    /\ phase' = "follow"
    /\ UNCHANGED <<ir, scale_vars, todo, cur, refs, stack, visited, toFollow, prevSize>>

(* Mutant of CollectCalls: all formals of a called function are followed,
   whatever the position of the scale dependent argument.                   *)
CollectCalls_AllFormals ==
    LET Formals(c) == {ir.formals[c][i] : i \in DOMAIN ir.formals[c]} IN
    /\ phase = "collect"
    /\ \A e \in ScaleArgs : ~CallArgsUndefined(ir, e[2], e[1])
    /\ toFollow' = UNION {Formals(e[2]) : e \in ScaleArgs}
    /\ nodes' = nodes \cup toFollow'
    /\ edges' = edges \cup UNION {{e[2]} \X Formals(e[2]) : e \in ScaleArgs}
    /\ phase' = "follow"
    /\ UNCHANGED <<ir, scale_vars, todo, cur, refs, stack, visited, prevSize>>

(* The loop over sg.graph with traceCallInstruction for every call node.  The
   nodes it adds are Arguments, which it would pass over, so the order in
   which the map yields the calls does not matter.                          *)
CollectCalls ==
    /\ phase = "collect"
    /\ \A e \in ScaleArgs : ~CallArgsUndefined(ir, e[2], e[1])
    /\ toFollow' = UNION {getCallArgs(ir, e[2], e[1]) : e \in ScaleArgs}
    /\ nodes' = nodes \cup toFollow'
    /\ edges' = edges \cup UNION {{e[2]} \X getCallArgs(ir, e[2], e[1]) : e \in ScaleArgs}
    /\ phase' = "follow"
    /\ UNCHANGED <<ir, scale_vars, todo, cur, refs, stack, visited, prevSize>>

(* traceCallInstruction dereferences a null pointer or reads past the formals
   of the callee: what happens afterwards is not defined.                   *)
CollectUndefined ==
    /\ phase = "collect"
    /\ \E e \in ScaleArgs : CallArgsUndefined(ir, e[2], e[1])
    /\ phase' = "undefined"
    /\ UNCHANGED <<ir, nodes, edges, scale_vars, todo, cur, refs, stack, visited,
                   toFollow, prevSize>>

(* The loop over to_follow: each continuation is traced with a fresh visited. *)
Follow(c) ==
    /\ phase = "follow" /\ stack = <<>> /\ c \in toFollow
    /\ toFollow' = toFollow \ {c}
    /\ visited' = {}
    /\ stack' = <<{c}>>
    /\ UNCHANGED <<ir, phase, nodes, edges, scale_vars, todo, cur, refs, prevSize>>

(* Mutant of EndFollow: the difference of the sizes is kept. *)
EndFollow_Difference ==
    /\ phase = "follow" /\ stack = <<>> /\ toFollow = {}
    /\ prevSize' = prevSize - Cardinality(nodes)
    /\ phase' = "test"
    /\ UNCHANGED <<ir, nodes, edges, scale_vars, todo, cur, refs, stack, visited,
                   toFollow>>

(* Mutant of EndFollow: the size of the graph is not remembered. *)
EndFollow_NoSize ==
    /\ phase = "follow" /\ stack = <<>> /\ toFollow = {}
    /\ phase' = "test"
    /\ UNCHANGED <<ir, nodes, edges, scale_vars, todo, cur, refs, stack, visited,
                   toFollow, prevSize>>

EndFollow ==
    /\ phase = "follow" /\ stack = <<>> /\ toFollow = {}
    /\ prevSize' = Cardinality(nodes)
    /\ phase' = "test"
    /\ UNCHANGED <<ir, nodes, edges, scale_vars, todo, cur, refs, stack, visited,
                   toFollow>>

Terminated == phase \in {"done", "undefined"} /\ UNCHANGED vars

Step ==
    \/ CreateScaleGraph
    \/ \E v \in Value : TakeScaleVar(v)
    \/ \E v \in Value : TakeRef(v)
    \/ EndRefs
    \/ EndVars
    \/ \E v \in Value : Skip(v)
    \/ \E v \in Value : Visit(v)
    \/ Return
    \/ WhileTest
    \/ CollectCalls
    \/ CollectUndefined
    \/ \E v \in Value : Follow(v)
    \/ EndFollow

Next == Step \/ Terminated

(* One thread runs the pass and nothing it does can block: while a step is
   possible the program takes one.                                         *)
Spec == Init /\ [][Next]_vars
FairSpec == Spec /\ WF_vars(Step)
-----------------------------------------------------------------------------
(* What the graph says of the module. *)

(* The graph the pass builds: what flows from the references of the scale
   variables, one level of calls, and what flows from the formals of these. *)
FirstEdges == RefEdges(ir) \cup FlowEdges(ir, Closure(ir, AllRefs(ir)))
EntryEdges == CallEdges(ir, FirstEdges)
Entries == Ends(EntryEdges)
ScaleEdges == FirstEdges \cup EntryEdges \cup FlowEdges(ir, Closure(ir, Entries))

(* The values that frames of the recursion have still to visit, and whether
   all that a value flows to hangs below it in the graph.                   *)
Pending(st) == UNION {st[i] : i \in DOMAIN st}
Expanded(v) == \A w \in ir.users[v] \cup ir.memUses[v] : <<v, w>> \in edges

(* Types: the graph, the stack of the tracer's work and its memo of visited values. *)
TypeOK ==
    /\ ir \in IRModule
    /\ phase \in Phase
    /\ nodes \subseteq Value /\ scale_vars \subseteq Value
    /\ edges \subseteq Value \X Value
    /\ todo \subseteq Value /\ cur \subseteq Value /\ refs \subseteq Value
    /\ stack \in Seq(SUBSET Value)
    /\ visited \subseteq Value /\ toFollow \subseteq Value
    /\ prevSize \in Nat

(* The result depends on the program alone, not on the order in which use
   lists, pointer-keyed maps and scale variables are walked, and is exactly
   the flow of the references closed under users and memory uses, one level
   of calls, and the flow of the formals these calls pass values to.  The
   visited set is shared by the references of one scale variable and fresh
   for each continuation; neither may cut a trace short.                    *)
ExactGraph ==
    phase = "done" => /\ edges = ScaleEdges
                      /\ nodes = ir.scale \cup Ends(edges)

(* No user of a traced value is missed: when tracing is over everything a
   traced value flows to inside its function is below it in the graph.      *)
DirectFlowComplete ==
    phase = "done" =>
        /\ \A v \in ir.scale : \A r \in ir.refs[v] : <<v, r>> \in edges
        /\ \A e \in edges : \A w \in ir.users[e[2]] \cup ir.memUses[e[2]] :
               w \in nodes /\ <<e[2], w>> \in edges

(* While a trace is running, a value it has already expanded and every value
   whose expansion is still owed are told apart: a target of an edge is
   expanded, or on the recursion stack, or waiting in to_follow.            *)
NothingForgotten ==
    \A e \in edges : e[2] \in toFollow \cup Pending(stack) \/ Expanded(e[2])

(* A call that cannot be expanded for the argument it has from e: one through
   a pointer, or one that passes it behind the last formal of its callee.    *)
BadCall(e) ==
    /\ e[2] \in ir.calls
    /\ \/ ir.callee[e[2]] = "unknown"
       \/ /\ ir.callee[e[2]] = "defined"
          /\ \E i \in DOMAIN ir.operands[e[2]] :
                ir.operands[e[2]][i] = e[1] /\ i > Len(ir.formals[e[2]])

(* Whether tracing runs into undefined behaviour is decided by the program and
   not by the order of use lists and maps: it does just when a reference of a
   scale variable flows, inside its function, to a call that cannot be
   expanded.  Such a call in the body of a called function does no harm.     *)
UndefinedByProgram ==
    /\ phase = "undefined" => \E e \in FirstEdges : BadCall(e)
    /\ phase = "done" => \A e \in FirstEdges : ~BadCall(e)

(* "expand call instructions iteratively until no more changes occur"
   (the comment on the while loop of trace): when tracing is over, every call
   in the graph is connected to the formals its scale arguments become.     *)
CallsExpandedToFixpoint ==
    phase = "done" =>
        \A e \in edges : e[2] \in ir.calls =>
            \A f \in getCallArgs(ir, e[2], e[1]) : <<e[2], f>> \in edges

(* Tracing implements ScaleFlow: every step of the work list, the recursion
   and the expansion of calls adds only what some flow of the program
   justifies, and the graph that is handed on is complete.                 *)
Flow == INSTANCE ScaleFlow WITH affected <- nodes, finished <- (phase = "done")
ImplementsScaleFlow == Flow!Spec

(* Tracing ends: recursion in a cyclic use graph and the loop over call sites
   come to an end, whatever the program.                                   *)
Termination == <>(phase \in {"done", "undefined"})
-----------------------------------------------------------------------------
(* The inductive invariant behind ExactGraph.  A graph is built in two rounds:
   up to the loop over call sites, and with the bodies of called functions.  *)

Targets == Ends(edges)

FirstRound == phase \notin {"follow", "undefined"} /\ prevSize = 0
SecondRound == phase = "follow" \/ (phase \in {"test", "done"} /\ prevSize # 0)

(* Which variables are in use at which point of the program. *)
ControlInv ==
    /\ phase \notin {"refs", "follow"} => stack = <<>>
    /\ phase # "follow" => toFollow = {}
    /\ phase # "refs" => cur = {}
    /\ phase = "refs" => \E v \in ir.scale : cur = {v} /\ refs \subseteq ir.refs[v]
    /\ phase \notin {"vars", "refs"} => todo = {}
    /\ todo \subseteq ir.scale
    /\ phase = "create" => nodes = {} /\ edges = {} /\ scale_vars = {}
    /\ phase # "create" => nodes = ir.scale \cup Targets /\ scale_vars = ir.scale

(* prevSize is 0 until the graph has been expanded once, its size after. *)
PrevSizeInv ==
    /\ phase \in {"create", "vars", "refs", "collect", "follow"} => prevSize = 0
    /\ phase \in {"collect", "follow"} => nodes # {}
    /\ phase \in {"test", "done"} /\ prevSize # 0 => nodes # {} /\ prevSize = Cardinality(nodes)
    /\ phase = "done" /\ prevSize = 0 => nodes = {}

(* What is visited is expanded; what is owed is a target of an edge. *)
OwedInv ==
    /\ NothingForgotten
    /\ \A v \in visited : Expanded(v)
    /\ Pending(stack) \cup toFollow \subseteq Targets

(* The references of the scale variables that are done are in the graph. *)
RefsInv ==
    phase # "create" =>
        \A v \in ir.scale \ todo : \A r \in ir.refs[v] :
            <<v, r>> \in edges \/ (v \in cur /\ r \in refs)

(* No edge is in the graph that ScaleEdges does not have. *)
BoundInv ==
    /\ FirstRound =>
           /\ edges \subseteq FirstEdges
           /\ Pending(stack) \subseteq Closure(ir, AllRefs(ir))
    /\ SecondRound =>
           /\ FirstEdges \cup EntryEdges \subseteq edges
           /\ edges \subseteq ScaleEdges
           /\ Pending(stack) \cup toFollow \subseteq Closure(ir, Entries)

IInv == TypeOK /\ ControlInv /\ PrevSizeInv /\ OwedInv /\ RefsInv /\ BoundInv
=============================================================================
