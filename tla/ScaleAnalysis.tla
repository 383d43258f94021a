---------------------------- MODULE ScaleAnalysis ----------------------------
(* The passes of OFT one behind the other, over one scale graph: tracing
   builds it, loop tracing extends it, printTraces and overflow detection
   walk it from its roots, the instrumentation takes what detection found,
   and printBwdTraces walks it back from there.

   An application is a record a:
     ir       the module as tracing reads it
     loops    its loops, as loop tracing reads them; the graph in it is empty
     target   its code and operations, as detection and instrumentation read
              them; the graph in it is empty
     traceLoops, printTraces, printBwdTraces
              the options -oft-trace-loops, -oft-print-scale-defuse and
              -oft-print-bwd-traces                                         *)
EXTENDS LoopTracing, Sequences

CONSTANTS Function,
          OverflowBitsThreshold,
          Apps   \* the applications that may be analysed

VARIABLES
    app,        \* the application; never changes
    stage,      \* the pass that runs
    tphase, tnodes, tedges, scale_vars, todo, cur, refs, stack, tvisited,
    toFollow, prevSize,                                      \* of tracing
    dphase, dtodo, pending, dvisited, overflowable, queue,
    instr_id, code,                     \* of detection and instrumentation
    starts, pstack, pvisited, lines                          \* of printing

tracingVars == <<tphase, tnodes, tedges, scale_vars, todo, cur, refs, stack, tvisited,
                 toFollow, prevSize>>
passVars == <<dphase, dtodo, pending, dvisited, overflowable, queue, instr_id, code>>
printVars == <<starts, pstack, pvisited, lines>>
analysisVars == <<app, stage, vars, tracingVars, passVars, printVars>>

(* The members of scale_node. *)
children(v) == {e[2] : e \in {d \in edges : d[1] = v}}

(* Mutant of parents: printBwdTraces is a copy of printTraces that still
   goes to the children.                                                    *)
parents_Children(v) == {e[2] : e \in {d \in edges : d[1] = v}}

parents(v) == {e[1] : e \in {d \in edges : d[2] = v}}

Tracing == INSTANCE ScaleVariableTracing WITH
               Modules <- {a.ir : a \in Apps}, ir <- app.ir, phase <- tphase,
               nodes <- tnodes, edges <- tedges, visited <- tvisited

(* The programs that detection may be given: any graph in any target. *)
Graph == [nodes : SUBSET Value, edges : SUBSET (Value \X Value), roots : SUBSET Value]
WithGraph(a, g) == [a.target EXCEPT !.nodes = g.nodes, !.edges = g.edges, !.roots = g.roots]
Detected == {WithGraph(a, g) : a \in Apps, g \in Graph}

Pass == INSTANCE OverflowInstrumentation WITH
            Programs <- Detected,
            p <- [app.target EXCEPT !.nodes = nodes, !.edges = edges, !.roots = scale_vars],
            phase <- dphase, todo <- dtodo, visited <- dvisited

Printing == INSTANCE TracePrinting WITH
                succ <- [v \in Value |-> IF stage \in {"histories", "finished"} THEN parents(v) ELSE children(v)],
                stack <- pstack, visited <- pvisited

Application == [ir : Tracing!IRModule, loops : Programs, target : Pass!Program,
                traceLoops : BOOLEAN, printTraces : BOOLEAN, printBwdTraces : BOOLEAN]

ASSUME AppsAssumption == Apps \subseteq Application /\ \A a \in Apps : Pass!WellFormed(a.target)
ASSUME ThresholdAssumption == OverflowBitsThreshold \in 0..Pass!ParamWidth
ASSUME ValueAssumption == IsFiniteSet(Value)

AnalysisInit ==
    /\ app \in Apps
    /\ stage = "tracing"
    /\ Tracing!Init
    /\ m = app.loops /\ phase = "off" /\ nodes = {} /\ edges = {}
    /\ worklist = {} /\ visited = {} /\ newNodes = {}
    /\ dphase = "roots" /\ dtodo = {} /\ pending = {} /\ dvisited = {}
    /\ overflowable = {} /\ queue = {} /\ instr_id = 0 /\ code = Pass!Original
    /\ starts = {} /\ pstack = <<>> /\ pvisited = {} /\ lines = <<>>

-----------------------------------------------------------------------------
Trace ==
    /\ stage = "tracing"
    /\ UNCHANGED <<app, stage, vars, passVars, printVars>>
    /\ Tracing!Step

(* perform goes on with traceLoops, from the roots of the same graph. *)
EndTracing ==
    /\ stage = "tracing" /\ tphase = "done"
    /\ stage' = "loops"
    /\ phase' = IF app.traceLoops THEN "traverse" ELSE "off"
    /\ nodes' = tnodes /\ edges' = tedges
    /\ worklist' = IF app.traceLoops THEN scale_vars ELSE {}
    /\ m' = [m EXCEPT !.nodes = tnodes, !.edges = tedges, !.roots = scale_vars]
    /\ tvisited' = {}
    /\ UNCHANGED <<app, visited, newNodes, passVars, printVars, tphase, tnodes, tedges,
                   scale_vars, todo, cur, refs, stack, toFollow, prevSize>>

TraceLoops ==
    /\ stage = "loops" /\ phase = "traverse"
    /\ UNCHANGED <<app, stage, tracingVars, passVars, printVars>>
    /\ Step

(* Mutant of EndLoops: the result is a copy of the graph taken before. *)
EndLoops_CopiedBefore ==
    /\ stage = "loops" /\ phase \in {"done", "off"}
    /\ stage' = "traces" /\ phase' = "off"
    /\ nodes' = tnodes /\ edges' = tedges
    /\ starts' = IF app.printTraces THEN scale_vars ELSE {}
    /\ UNCHANGED <<app, m, worklist, visited, newNodes, tracingVars, passVars,
                   pstack, pvisited, lines>>

(* perform returns, and the trace of every scale variable is printed, where
   that is asked for.                                                       *)
EndLoops ==
    /\ stage = "loops" /\ phase \in {"done", "off"}
    /\ stage' = "traces" /\ phase' = "off"
    /\ starts' = IF app.printTraces THEN scale_vars ELSE {}
    /\ UNCHANGED <<app, m, nodes, edges, worklist, visited, newNodes, tracingVars, passVars,
                   pstack, pvisited, lines>>

PrintLines ==
    /\ stage \in {"traces", "histories"}
    /\ UNCHANGED <<app, stage, vars, tracingVars, passVars>>
    /\ Printing!Step

(* The detection is given the graph of the tracing. *)
EndTraces ==
    /\ stage = "traces" /\ starts = {} /\ pstack = <<>>
    /\ stage' = "pass"
    /\ dtodo' = scale_vars
    /\ pvisited' = {} /\ lines' = <<>>
    /\ UNCHANGED <<app, vars, tracingVars, dphase, pending, dvisited, overflowable, queue,
                   instr_id, code, starts, pstack>>

DetectAndInstrument ==
    /\ stage = "pass"
    /\ UNCHANGED <<app, stage, vars, tracingVars, printVars>>
    /\ Pass!Step

(* The history of every overflowable instruction, where that is asked for. *)
EndPass ==
    /\ stage = "pass" /\ dphase = "done"
    /\ stage' = "histories"
    /\ starts' = IF app.printBwdTraces THEN overflowable ELSE {}
    /\ UNCHANGED <<app, vars, tracingVars, passVars, pstack, pvisited, lines>>

EndHistories ==
    /\ stage = "histories" /\ starts = {} /\ pstack = <<>>
    /\ stage' = "finished"
    /\ UNCHANGED <<app, vars, tracingVars, passVars, printVars>>

Over == stage = "finished" \/ tphase = "undefined" \/ dphase = "broken"

AnalysisStep ==
    \/ Trace \/ EndTracing
    \/ TraceLoops \/ EndLoops
    \/ PrintLines \/ EndTraces
    \/ DetectAndInstrument \/ EndPass
    \/ EndHistories

AnalysisNext == AnalysisStep \/ (Over /\ UNCHANGED analysisVars)

(* opt runs the passes in one thread, each to its end. *)
AnalysisSpec == AnalysisInit /\ [][AnalysisNext]_analysisVars /\ WF_analysisVars(AnalysisStep)
-----------------------------------------------------------------------------
(* Types: what the passes have handed to each other, and the printed traces. *)
AnalysisTypeOK ==
    /\ stage \in {"tracing", "loops", "traces", "pass", "histories", "finished"}
    /\ tphase \in Tracing!Phase /\ prevSize \in Nat
    /\ phase \in {"off", "traverse", "done"}
    /\ dphase \in {"roots", "store", "final", "done", "broken"}
    /\ \A S \in {tnodes, scale_vars, todo, cur, refs, tvisited, toFollow,
                  nodes, worklist, visited, dtodo, pending, dvisited, overflowable, queue,
                  starts, pvisited} : S \subseteq Value
    /\ \A E \in {tedges, edges, newNodes} : E \subseteq Value \X Value
    /\ stack \in Seq(SUBSET Value) /\ pstack \in Seq(SUBSET Value)
    /\ instr_id = Cardinality(Pass!Of("store"))
    /\ lines \in Seq(Printing!Line)

(* Whatever the passes walk from the roots later, they find all of the graph:
   the references, the formals of called functions and the instructions of
   marked loops all hang below a scale variable.                            *)
GraphRooted ==
    stage = "traces" /\ lines = <<>> => nodes \subseteq Reach(edges, app.ir.scale)

(* What the program depends on at scale, read off the program: the flow of
   its scale variables, and the loops that conditional branches in it decide. *)
ScaleDependent ==
    LET Traced == Tracing!ScaleEdges
        InGraph == app.ir.scale \cup Tracing!Ends(Traced)
        Decided == IF app.traceLoops
                   THEN {L \in m.loops : \E bi \in InGraph \cap m.branches : Decides(bi, L)}
                   ELSE {}
    IN  InGraph \cup UNION {Instructions(L) : L \in Decided}

(* The instructions that are handed to the instrumentation are exactly the
   overflowable operations the program depends on at scale, through all
   passes and whatever the order in which each walks the graph.             *)
DetectionExact ==
    dphase = "store" /\ instr_id = 0 =>
        overflowable = {v \in ScaleDependent : Pass!canIntegerOverflow(v)}

(* A printed trace is a tree of the graph that leaves no node out. *)
TraceIsTree == Printing!IsTree

(* The history of an overflowable instruction leads back to a scale variable. *)
HistoryReachesScale ==
    stage = "histories" /\ pstack = <<>> /\ lines # <<>> =>
        \E i \in DOMAIN lines : lines[i].value \in app.ir.scale

(* The analysis comes to an end. *)
AnalysisTermination == <>Over
=============================================================================
