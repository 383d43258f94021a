------------------------- MODULE ScaleAnalysis_proofs -------------------------
(* For every application: what the instrumentation is given is exactly what
   may overflow among all that the program depends on at scale.  The proofs
   of tracing, loop tracing and instrumentation are put together over the
   one graph these passes share.                                            *)
EXTENDS ScaleAnalysis, FiniteSetTheorems, TLAPS

-----------------------------------------------------------------------------
(* Loop tracing by itself marks the loops that scale-dependent branches decide,
   for every program and every order of the work list.  The invariant is that
   of a graph search: what was visited or is in the work list is reached from
   the roots, and what a visited node has an edge to was visited or is in the
   work list.                                                              *)

(* Reach is the least set that contains the roots and follows the edges. *)
LEMMA ReachLeast ==
    ASSUME NEW E \in SUBSET (Value \X Value), NEW R \in SUBSET Value
    PROVE  /\ R \subseteq Reach(E, R) /\ Reach(E, R) \subseteq Value
           /\ EdgeClosed(E, Reach(E, R))
           /\ \A S \in SUBSET Value : R \subseteq S /\ EdgeClosed(E, S) => Reach(E, R) \subseteq S
<1> DEFINE Closed == {S \in SUBSET Value : R \subseteq S /\ EdgeClosed(E, S)}
<1>1. Reach(E, R) = {v \in Value : \A S \in Closed : v \in S}
    BY DEF Reach
<1>2. R \subseteq Reach(E, R) /\ Reach(E, R) \subseteq Value
    BY <1>1
<1>3. EdgeClosed(E, Reach(E, R))
    <2> SUFFICES ASSUME NEW e \in E, e[1] \in Reach(E, R)
                 PROVE  e[2] \in Reach(E, R)
        BY DEF EdgeClosed
    <2>1. e[2] \in Value
        OBVIOUS
    <2>2. ASSUME NEW S \in Closed PROVE e[2] \in S
        BY <1>1 DEF EdgeClosed
    <2> QED BY <1>1, <2>1, <2>2
<1>4. \A S \in SUBSET Value : R \subseteq S /\ EdgeClosed(E, S) => Reach(E, R) \subseteq S
    BY <1>1
<1> QED BY <1>2, <1>3, <1>4

(* A larger graph reaches at least as much. *)
LEMMA ReachGrows ==
    ASSUME NEW E \in SUBSET (Value \X Value), NEW F \in SUBSET (Value \X Value),
           E \subseteq F, NEW R \in SUBSET Value
    PROVE  Reach(E, R) \subseteq Reach(F, R)
<1>1. EdgeClosed(E, Reach(F, R)) /\ R \subseteq Reach(F, R) /\ Reach(F, R) \in SUBSET Value
    BY ReachLeast DEF EdgeClosed
<1> QED BY <1>1, ReachLeast

-----------------------------------------------------------------------------
(* The program is one of those that loop tracing may meet. *)
ProgramOK == m \in LoopProgram /\ LoopNest(m)

(* getLoopFor and the preheaders find the loops that a branch decides. *)
LEMMA LoopsEnteredDecided ==
    ASSUME ProgramOK, NEW b \in Block
    PROVE  LoopsEntered(b) = {L \in m.loops : DecidesAt(b, L)}
<1> DEFINE Around == {K \in m.loops : b \in m.blocks[K]}
<1> USE DEF ProgramOK
<1>1. \A K, L \in m.loops : m.blocks[K] = m.blocks[L] => K = L
    BY DEF LoopNest
<1>2. m.top \subseteq m.loops
    BY DEF LoopNest
<1>3. CASE Around = {}
    <2>1. getLoopFor(b) = {}
        BY <1>3 DEF getLoopFor
    <2>2. LoopsEntered(b) = {L \in m.top : b \in m.preheader[L]}
        BY <2>1 DEF LoopsEntered
    <2>3. \A L \in m.loops : DecidesAt(b, L) <=> L \in m.top /\ b \in m.preheader[L]
        BY <1>3 DEF DecidesAt
    <2> QED BY <1>2, <2>2, <2>3
<1>4. CASE Around # {}
    <2>1. PICK I \in m.loops : /\ b \in m.blocks[I]
                               /\ \A K \in m.loops : b \in m.blocks[K] => m.blocks[I] \subseteq m.blocks[K]
        BY <1>4 DEF LoopNest
    <2>2. getLoopFor(b) = {I}
        BY <1>1, <2>1 DEF getLoopFor
    <2>3. LoopsEntered(b) = {I}
        BY <2>2 DEF LoopsEntered
    <2>4. \A L \in m.loops : DecidesAt(b, L) <=>
              L \in Around /\ \A K \in Around : ~(m.blocks[K] \subseteq m.blocks[L]) \/ K = L
        BY <1>4 DEF DecidesAt
    <2>5. DecidesAt(b, I)
        <3>1. ASSUME NEW K \in Around, m.blocks[K] \subseteq m.blocks[I] PROVE K = I
            <4>1. m.blocks[K] = m.blocks[I]
                BY <2>1, <3>1
            <4> QED BY <1>1, <4>1
        <3> QED BY <2>1, <2>4, <3>1
    <2>6. ASSUME NEW L \in m.loops, DecidesAt(b, L) PROVE L = I
        <3>1. I \in Around /\ m.blocks[I] \subseteq m.blocks[L]
            BY <2>1, <2>4, <2>6
        <3> QED BY <2>4, <2>6, <3>1
    <2> QED BY <2>3, <2>5, <2>6
<1> QED BY <1>3, <1>4

(* What a conditional branch marks is all of the loops it decides. *)
LEMMA MarkedDecided ==
    ASSUME ProgramOK, NEW bi \in m.branches
    PROVE  Marked(bi) = {v \in Value : \E L \in m.loops : Decides(bi, L) /\ \E b \in m.blocks[L] : v \in m.body[b]}
<1> USE DEF ProgramOK
<1>1. bi \in Value /\ m.succs[bi] \subseteq Block
    BY DEF LoopProgram
<1>2. \A L \in m.loops : m.blocks[L] \subseteq Block
    BY DEF LoopProgram
<1>3. \A b \in Block : m.body[b] \subseteq Value
    BY DEF LoopProgram
<1>4. UNION {LoopsEntered(b) : b \in m.succs[bi]} = {L \in m.loops : Decides(bi, L)}
    BY <1>1, LoopsEnteredDecided DEF Decides
<1>5. Marked(bi) = UNION {Instructions(L) : L \in {K \in m.loops : Decides(bi, K)}}
    BY <1>4 DEF Marked
<1>6. \A L \in m.loops : Instructions(L) = {v \in Value : \E b \in m.blocks[L] : v \in m.body[b]}
    BY <1>2, <1>3 DEF Instructions
<1> QED BY <1>5, <1>6

(* What is marked are values of the program. *)
LEMMA MarkedValues ==
    ASSUME ProgramOK, NEW n \in Value
    PROVE  Marked(n) \subseteq Value
<1>1. CASE n \in m.branches
    BY <1>1, MarkedDecided
<1>2. CASE n \notin m.branches
    BY <1>2 DEF Marked
<1> QED BY <1>1, <1>2

-----------------------------------------------------------------------------
Reached == Reach(m.edges, m.roots)

(* Types: the work list, the visited and marked values and the new edges. *)
LoopTypeOK ==
    /\ ProgramOK
    /\ phase \in {"traverse", "done"}
    /\ worklist \subseteq Value /\ visited \subseteq Value

(* The search: nothing is lost, and nothing is found that is not reached. *)
SearchInv ==
    /\ m.roots \subseteq visited \cup worklist
    /\ \A e \in m.edges : e[1] \in visited => e[2] \in visited \cup worklist
    /\ visited \cup worklist \subseteq Reached

(* The edges owed are those from the visited branches to what they mark. *)
MarkInv == newNodes = {e \in Value \X Value : e[1] \in visited /\ e[2] \in Marked(e[1])}

GraphInv ==
    /\ phase = "traverse" => nodes = m.nodes /\ edges = m.edges
    /\ phase = "done" => /\ worklist = {}
                         /\ edges = m.edges \cup newNodes
                         /\ nodes = m.nodes \cup {e[2] : e \in newNodes}

LoopInv == LoopTypeOK /\ SearchInv /\ MarkInv /\ GraphInv

(* The graph and the roots of the program are of values. *)
LEMMA ProgramValues ==
    ASSUME ProgramOK
    PROVE  m.edges \in SUBSET (Value \X Value) /\ m.roots \in SUBSET Value /\ m.nodes \in SUBSET Value
BY DEF ProgramOK, LoopProgram

Start ==
    /\ ProgramOK /\ phase = "traverse" /\ nodes = m.nodes /\ edges = m.edges
    /\ worklist = m.roots /\ visited = {} /\ newNodes = {}

LEMMA LoopInvStart == Start => LoopInv
<1> SUFFICES ASSUME Start PROVE LoopInv
    OBVIOUS
<1>1. LoopTypeOK
    BY ProgramValues DEF Start, LoopTypeOK
<1>2. SearchInv
    BY ProgramValues, ReachLeast DEF Start, SearchInv, Reached
<1>3. MarkInv /\ GraphInv
    BY DEF Start, MarkInv, GraphInv
<1> QED BY <1>1, <1>2, <1>3 DEF LoopInv

LEMMA LoopInvInit == Init => LoopInv
BY LoopInvStart, ProgramsAssumption DEF Init, Start, ProgramOK

(* A node that was visited may be dropped. *)
LEMMA DropPreserves ==
    ASSUME LoopInv, NEW n \in Value, Drop(n)
    PROVE  LoopInv'
<1> USE DEF LoopInv
<1>1. LoopTypeOK'
    BY DEF Drop, LoopTypeOK, ProgramOK
<1>2. SearchInv'
    BY DEF Drop, SearchInv, Reached
<1>3. MarkInv' /\ GraphInv'
    BY DEF Drop, MarkInv, GraphInv, Marked, LoopsEntered, getLoopFor, Instructions
<1> QED BY <1>1, <1>2, <1>3

(* A visit puts the children of the node into the work list. *)
LEMMA VisitPreserves ==
    ASSUME LoopInv, NEW n \in Value, Visit(n)
    PROVE  LoopInv'
<1> USE DEF LoopInv
<1>1. m.edges \in SUBSET (Value \X Value) /\ m.roots \in SUBSET Value /\ edges = m.edges /\ phase = "traverse"
    BY ProgramValues DEF LoopTypeOK, GraphInv, Visit
<1> DEFINE Kids == {e[2] : e \in {d \in edges : d[1] = n}}
<1>2. Kids \subseteq Value
    BY <1>1
<1>3. LoopTypeOK'
    BY <1>2 DEF Visit, LoopTypeOK, ProgramOK
<1>4. SearchInv'
    <2>1. n \in Reached /\ EdgeClosed(m.edges, Reached)
        BY <1>1, ReachLeast DEF SearchInv, Visit, Reached
    <2>2. Kids \subseteq Reached
        BY <1>1, <2>1 DEF EdgeClosed
    <2>3. (visited \cup worklist)' = visited \cup worklist \cup Kids
        BY DEF Visit
    <2>4. Reached' = Reached /\ m' = m
        BY DEF Visit, Reached
    <2>5. ASSUME NEW e \in m.edges, e[1] \in visited' PROVE e[2] \in visited \cup worklist \cup Kids
        BY <1>1, <2>5 DEF Visit, SearchInv
    <2> QED BY <2>2, <2>3, <2>4, <2>5 DEF SearchInv
<1>5. MarkInv'
    <2>1. Marked(n) \subseteq Value
        BY MarkedValues DEF LoopTypeOK
    <2>2. \A v \in Value : Marked(v)' = Marked(v)
        BY DEF Visit, Marked, LoopsEntered, getLoopFor, Instructions
    <2>3. newNodes' = newNodes \cup ({n} \X Marked(n)) /\ visited' = visited \cup {n}
        BY DEF Visit
    <2> QED BY <2>1, <2>2, <2>3 DEF MarkInv
<1>6. GraphInv'
    BY <1>1 DEF Visit, GraphInv
<1> QED BY <1>3, <1>4, <1>5, <1>6

(* The graph is extended when the work list is empty. *)
LEMMA AddPreserves ==
    ASSUME LoopInv, AddNewNodes
    PROVE  LoopInv'
<1> USE DEF LoopInv
<1>1. LoopTypeOK' /\ SearchInv'
    BY DEF AddNewNodes, LoopTypeOK, ProgramOK, SearchInv, Reached
<1>2. MarkInv'
    BY DEF AddNewNodes, MarkInv, Marked, LoopsEntered, getLoopFor, Instructions
<1>3. GraphInv'
    BY DEF AddNewNodes, GraphInv
<1> QED BY <1>1, <1>2, <1>3

LEMMA StutterPreserves ==
    ASSUME LoopInv, UNCHANGED vars
    PROVE  LoopInv'
<1> USE DEF LoopInv, vars
<1>1. LoopTypeOK' /\ SearchInv'
    BY DEF LoopTypeOK, ProgramOK, SearchInv, Reached
<1>2. MarkInv'
    BY DEF MarkInv, Marked, LoopsEntered, getLoopFor, Instructions
<1>3. GraphInv'
    BY DEF GraphInv
<1> QED BY <1>1, <1>2, <1>3

LEMMA LoopInvNext == LoopInv /\ [Next]_vars => LoopInv'
<1> SUFFICES ASSUME LoopInv, [Next]_vars PROVE LoopInv'
    OBVIOUS
<1>1. ASSUME NEW n \in Value, Drop(n) PROVE LoopInv'
    BY <1>1, DropPreserves
<1>2. ASSUME NEW n \in Value, Visit(n) PROVE LoopInv'
    BY <1>2, VisitPreserves
<1>3. CASE AddNewNodes
    BY <1>3, AddPreserves
<1>4. CASE UNCHANGED vars
    BY <1>4, StutterPreserves
<1> QED BY <1>1, <1>2, <1>3, <1>4 DEF Next, Step, Terminated

(* The work list of traceLoops, what it has visited, marked and added to the
   graph agree at every step, whatever the program and the order of the visits:
   the inductive invariant that the two results below follow from.           *)
THEOREM LoopInvariant == Spec => []LoopInv
BY LoopInvInit, LoopInvNext, PTL DEF Spec

(* The search is over: what was visited is what the roots reach. *)
LEMMA VisitedIsReached ==
    ASSUME LoopInv, phase = "done"
    PROVE  visited = Reached
<1>1. m.edges \in SUBSET (Value \X Value) /\ m.roots \in SUBSET Value
    BY ProgramValues DEF LoopInv, LoopTypeOK
<1>2. m.roots \subseteq visited /\ EdgeClosed(m.edges, visited) /\ visited \in SUBSET Value
    BY DEF LoopInv, LoopTypeOK, SearchInv, GraphInv, EdgeClosed
<1>3. Reached \subseteq visited
    BY <1>1, <1>2, ReachLeast DEF Reached
<1> QED BY <1>3 DEF LoopInv, SearchInv

LEMMA LoopInvImpliesExact == LoopInv => LoopsMarkedExactly
<1> SUFFICES ASSUME LoopInv, phase = "done" PROVE LoopsMarkedExactly
    BY DEF LoopsMarkedExactly
<1> DEFINE Branches == Reach(m.edges, m.roots) \cap m.branches
           Found == {e \in Branches \X Value :
                        \E L \in m.loops : Decides(e[1], L) /\ \E b \in m.blocks[L] : e[2] \in m.body[b]}
<1>1. visited = Reach(m.edges, m.roots) /\ visited \subseteq Value
    BY VisitedIsReached DEF Reached, LoopInv, LoopTypeOK
<1>2. ProgramOK /\ newNodes = {e \in Value \X Value : e[1] \in visited /\ e[2] \in Marked(e[1])}
    BY DEF LoopInv, LoopTypeOK, MarkInv
<1>3. \A v \in Value, w \in Value :
          v \in visited /\ w \in Marked(v) <=>
              v \in Branches /\ \E L \in m.loops : Decides(v, L) /\ \E b \in m.blocks[L] : w \in m.body[b]
    <2> SUFFICES ASSUME NEW v \in Value, NEW w \in Value
                 PROVE  v \in visited /\ w \in Marked(v) <=>
                            v \in Branches /\ \E L \in m.loops : Decides(v, L) /\ \E b \in m.blocks[L] : w \in m.body[b]
        OBVIOUS
    <2>1. CASE v \in m.branches
        BY <1>1, <1>2, <2>1, MarkedDecided
    <2>2. CASE v \notin m.branches
        BY <2>2 DEF Marked
    <2> QED BY <2>1, <2>2
<1>4. newNodes = Found
    BY <1>1, <1>2, <1>3
<1>5. edges = m.edges \cup Found /\ nodes = m.nodes \cup {e[2] : e \in Found}
    BY <1>4 DEF LoopInv, GraphInv
<1> QED BY <1>5 DEF LoopsMarkedExactly

(* For every program and every order of the traversal, the loops that
   conditional branches below a root decide are marked whole, and nothing
   else is: what traceLoops returns does not depend on the order of its
   work list.                                                               *)
THEOREM LoopTracingExact == Spec => []LoopsMarkedExactly
BY LoopInvariant, LoopInvImpliesExact, PTL

-----------------------------------------------------------------------------
(* All nodes of the graph hang below its roots. *)
Rooted == nodes \subseteq Reach(edges, m.roots)

LEMMA LoopInvKeepsRooted == LoopInv /\ m.nodes \subseteq Reached => Rooted
<1> SUFFICES ASSUME LoopInv, m.nodes \subseteq Reached PROVE Rooted
    OBVIOUS
<1>1. m.edges \in SUBSET (Value \X Value) /\ m.roots \in SUBSET Value
    BY ProgramValues DEF LoopInv, LoopTypeOK
<1>2. CASE phase = "traverse"
    BY <1>2 DEF LoopInv, GraphInv, Rooted, Reached
<1>3. CASE phase = "done"
    <2>1. edges = m.edges \cup newNodes /\ nodes = m.nodes \cup {e[2] : e \in newNodes}
        BY <1>3 DEF LoopInv, GraphInv
    <2>2. newNodes \subseteq Value \X Value /\ \A e \in newNodes : e[1] \in visited
        BY DEF LoopInv, MarkInv
    <2>3. edges \in SUBSET (Value \X Value)
        BY <1>1, <2>1, <2>2
    <2>4. Reached \subseteq Reach(edges, m.roots)
        BY <1>1, <2>1, <2>3, ReachGrows DEF Reached
    <2>5. EdgeClosed(edges, Reach(edges, m.roots))
        BY <1>1, <2>3, ReachLeast
    <2>6. \A e \in newNodes : e[2] \in Reach(edges, m.roots)
        BY <1>3, <2>1, <2>2, <2>4, <2>5, VisitedIsReached DEF EdgeClosed
    <2> QED BY <2>1, <2>4, <2>6 DEF Rooted
<1> QED BY <1>2, <1>3 DEF LoopInv, LoopTypeOK

(* Loop tracing leaves no node behind that a search from the roots misses,
   when it is given a graph that has none: overflow detection, which comes
   next, finds every instruction that was marked.                           *)
THEOREM LoopTracingKeepsRooted == Spec => [](m.nodes \subseteq Reached => Rooted)
<1>1. LoopInv => (m.nodes \subseteq Reached => Rooted)
    BY LoopInvKeepsRooted
<1> QED BY LoopInvariant, <1>1, PTL

-----------------------------------------------------------------------------
(* The passes as their own proofs know them. *)

TracingP == INSTANCE ScaleVariableTracing_proofs WITH
               Modules <- {a.ir : a \in Apps}, ir <- app.ir, phase <- tphase,
               nodes <- tnodes, edges <- tedges, visited <- tvisited

PassP == INSTANCE OverflowInstrumentation_proofs WITH
            Programs <- Detected,
            p <- [app.target EXCEPT !.nodes = nodes, !.edges = edges, !.roots = scale_vars],
            phase <- dphase, todo <- dtodo, visited <- dvisited

PrintingP == INSTANCE TracePrinting_proofs WITH
                succ <- [v \in Value |-> IF stage \in {"histories", "finished"} THEN parents(v) ELSE children(v)],
                stack <- pstack, visited <- pvisited

LEMMA TracingSteps ==
    /\ Tracing!Init <=> TracingP!Init
    /\ Tracing!Step <=> TracingP!Step
    /\ Tracing!Phase = TracingP!Phase /\ Tracing!IRModule = TracingP!IRModule
BY DEF Tracing!Init, TracingP!Init, Tracing!Phase, TracingP!Phase,
       Tracing!IRModule, TracingP!IRModule, Tracing!CalleeKind, TracingP!CalleeKind,
       Tracing!Step, TracingP!Step,
       Tracing!CreateScaleGraph, TracingP!CreateScaleGraph,
       Tracing!TakeScaleVar, TracingP!TakeScaleVar, Tracing!TakeRef, TracingP!TakeRef,
       Tracing!EndRefs, TracingP!EndRefs, Tracing!EndVars, TracingP!EndVars,
       Tracing!Skip, TracingP!Skip, Tracing!Visit, TracingP!Visit,
       Tracing!Return, TracingP!Return, Tracing!WhileTest, TracingP!WhileTest,
       Tracing!CollectCalls, TracingP!CollectCalls,
       Tracing!CollectUndefined, TracingP!CollectUndefined,
       Tracing!Follow, TracingP!Follow, Tracing!EndFollow, TracingP!EndFollow,
       Tracing!ScaleArgs, TracingP!ScaleArgs, Tracing!Children, TracingP!Children,
       Tracing!getCallArgs, TracingP!getCallArgs, Tracing!Positions, TracingP!Positions,
       Tracing!CallArgsUndefined, TracingP!CallArgsUndefined,
       Tracing!Cardinality, TracingP!Cardinality, Tracing!IsFiniteSet, TracingP!IsFiniteSet

LEMMA TracingGraph ==
    /\ Tracing!ScaleEdges = TracingP!ScaleEdges
    /\ \A E : Tracing!Ends(E) = TracingP!Ends(E)
<1>1. \A k, R : Tracing!Closure(k, R) = TracingP!Closure(k, R)
  BY DEF Tracing!Closure, TracingP!Closure, Tracing!FlowClosed, TracingP!FlowClosed
<1>2. \A k, S : Tracing!FlowEdges(k, S) = TracingP!FlowEdges(k, S)
  BY DEF Tracing!FlowEdges, TracingP!FlowEdges
<1>3. Tracing!FirstEdges = TracingP!FirstEdges
  BY <1>1, <1>2 DEF Tracing!FirstEdges, TracingP!FirstEdges, Tracing!RefEdges, TracingP!RefEdges,
                    Tracing!AllRefs, TracingP!AllRefs
<1>4. \A k, c, a : Tracing!getCallArgs(k, c, a) = TracingP!getCallArgs(k, c, a)
  BY DEF Tracing!getCallArgs, TracingP!getCallArgs, Tracing!Positions, TracingP!Positions
<1>5. Tracing!EntryEdges = TracingP!EntryEdges
  BY <1>3, <1>4 DEF Tracing!EntryEdges, TracingP!EntryEdges, Tracing!CallEdges, TracingP!CallEdges
<1>6. \A E : Tracing!Ends(E) = TracingP!Ends(E)
  BY DEF Tracing!Ends, TracingP!Ends
<1>7. Tracing!Entries = TracingP!Entries
  BY <1>5, <1>6 DEF Tracing!Entries, TracingP!Entries
<1> QED
  BY <1>1, <1>2, <1>3, <1>5, <1>6, <1>7 DEF Tracing!ScaleEdges, TracingP!ScaleEdges

LEMMA PassOperators ==
    /\ Pass!Original = PassP!Original
    /\ \A k : Pass!Of(k) = PassP!Of(k)
    /\ \A v : Pass!canIntegerOverflow(v) <=> PassP!canIntegerOverflow(v)
    /\ Pass!Program = PassP!Program /\ Pass!ParamWidth = PassP!ParamWidth
    /\ \A q : Pass!WellFormed(q) <=> PassP!WellFormed(q)
<1>1. Pass!Original = PassP!Original
  BY DEF Pass!Original, PassP!Original, Pass!Inst, PassP!Inst
<1>2. \A k : Pass!Of(k) = PassP!Of(k)
  BY DEF Pass!Of, PassP!Of, Pass!Items, PassP!Items
<1>3. \A v : Pass!canIntegerOverflow(v) <=> PassP!canIntegerOverflow(v)
  BY DEF Pass!canIntegerOverflow, PassP!canIntegerOverflow, Pass!OverflowOps, PassP!OverflowOps,
         Pass!AllOps, PassP!AllOps
<1>4. Pass!Program = PassP!Program /\ Pass!ParamWidth = PassP!ParamWidth
  BY DEF Pass!Program, PassP!Program, Pass!ParamWidth, PassP!ParamWidth, Pass!Opcode, PassP!Opcode
<1>5. \A q : Pass!WellFormed(q) <=> PassP!WellFormed(q)
  BY DEF Pass!WellFormed, PassP!WellFormed, Pass!ToSet, PassP!ToSet
<1> QED
  BY <1>1, <1>2, <1>3, <1>4, <1>5

LEMMA PassSteps == Pass!Step <=> PassP!Step
<1>1. \A s, i, e : Pass!InsertAt(s, i, e) = PassP!InsertAt(s, i, e)
  BY DEF Pass!InsertAt, PassP!InsertAt
<1>2. \A s, i, e : Pass!ReplaceAt(s, i, e) = PassP!ReplaceAt(s, i, e)
  BY DEF Pass!ReplaceAt, PassP!ReplaceAt
<1>3. Pass!Items = PassP!Items
  BY DEF Pass!Items, PassP!Items
<1>4. \A v, i : Pass!Inst(v) = PassP!Inst(v) /\ Pass!StoreOf(v, i) = PassP!StoreOf(v, i)
  BY DEF Pass!Inst, PassP!Inst, Pass!StoreOf, PassP!StoreOf
<1>5. \A n : Pass!InitCall(n) = PassP!InitCall(n)
  BY DEF Pass!InitCall, PassP!InitCall
<1>6. Pass!PrintCall = PassP!PrintCall
  BY DEF Pass!PrintCall, PassP!PrintCall
<1>7. \A s : Pass!FirstNonDbg(s) = PassP!FirstNonDbg(s)
  BY DEF Pass!FirstNonDbg, PassP!FirstNonDbg
<1>8. Pass!FirstMain = PassP!FirstMain
  BY DEF Pass!FirstMain, PassP!FirstMain
<1>9. \A s, i, n : Pass!WithInit(s, i, n) = PassP!WithInit(s, i, n)
  BY <1>1, <1>2, <1>5 DEF Pass!WithInit, PassP!WithInit
<1>10. Pass!mpi_finalize_calls = PassP!mpi_finalize_calls
  BY <1>3, <1>6 DEF Pass!mpi_finalize_calls, PassP!mpi_finalize_calls
<1>11. \A v : Pass!canIntegerOverflow(v) <=> PassP!canIntegerOverflow(v)
  BY PassOperators
<1>12. /\ \A v : Pass!TakeRoot(v) <=> PassP!TakeRoot(v)
       /\ \A v : Pass!Skip(v) <=> PassP!Skip(v)
       /\ \A v : Pass!findInstructions(v) <=> PassP!findInstructions(v)
       /\ Pass!EndDetection <=> PassP!EndDetection
  BY <1>11 DEF Pass!TakeRoot, PassP!TakeRoot, Pass!Skip, PassP!Skip, Pass!findInstructions,
               PassP!findInstructions, Pass!EndDetection, PassP!EndDetection
<1>13. /\ \A v : Pass!instrumentInstruction(v) <=> PassP!instrumentInstruction(v)
       /\ \A v : Pass!instrumentInstructionFails(v) <=> PassP!instrumentInstructionFails(v)
  BY <1>1, <1>3, <1>4, PassOperators
     DEF Pass!instrumentInstruction, PassP!instrumentInstruction,
         Pass!instrumentInstructionFails, PassP!instrumentInstructionFails
<1>14. /\ Pass!initInstrumentation <=> PassP!initInstrumentation
       /\ Pass!finaliseInstrumentation <=> PassP!finaliseInstrumentation
       /\ Pass!EndInstrumentation <=> PassP!EndInstrumentation
  BY <1>1, <1>6, <1>7, <1>8, <1>9, <1>10
     DEF Pass!initInstrumentation, PassP!initInstrumentation,
         Pass!finaliseInstrumentation, PassP!finaliseInstrumentation,
         Pass!EndInstrumentation, PassP!EndInstrumentation
<1> QED
  BY <1>12, <1>13, <1>14 DEF Pass!Step, PassP!Step

-----------------------------------------------------------------------------
(* What their proofs assume holds here. *)

LEMMA TracingAssumptions ==
    /\ TracingP!ModulesAssumption /\ TracingP!ValueAssumption
    /\ \A a \in Apps : a.ir \in TracingP!IRModule
<1>1. \A a \in Apps : a.ir \in TracingP!IRModule
  BY AppsAssumption, TracingSteps DEF Application
<1>2. TracingP!ValueAssumption
  BY ValueAssumption DEF TracingP!ValueAssumption, TracingP!IsFiniteSet, IsFiniteSet
<1> QED
  BY <1>1, <1>2 DEF TracingP!ModulesAssumption

LEMMA PassAssumptions ==
    PassP!ProgramsAssumption /\ PassP!ThresholdAssumption /\ PassP!ValueAssumption
<1>1. PassP!ValueAssumption
  BY ValueAssumption DEF PassP!ValueAssumption, PassP!IsFiniteSet, IsFiniteSet
<1>2. PassP!ThresholdAssumption
  BY ThresholdAssumption, PassOperators DEF PassP!ThresholdAssumption
<1>3. ASSUME NEW a \in Apps, NEW g \in Graph
      PROVE  WithGraph(a, g) \in PassP!Program /\ PassP!WellFormed(WithGraph(a, g))
  <2>1. a.target \in PassP!Program /\ PassP!WellFormed(a.target)
    BY AppsAssumption, PassOperators DEF Application
  <2>2. WithGraph(a, g) \in PassP!Program
    BY <2>1 DEF PassP!Program, WithGraph, Graph
  <2>3. PassP!WellFormed(WithGraph(a, g))
    BY <2>1 DEF PassP!WellFormed, PassP!Program, WithGraph
  <2> QED
    BY <2>2, <2>3
<1>4. PassP!ProgramsAssumption
  BY <1>3 DEF PassP!ProgramsAssumption, Detected
<1> QED
  BY <1>1, <1>2, <1>4

-----------------------------------------------------------------------------
(* The inductive invariant.  While a pass runs its own invariant holds; when
   it is over what it hands on is described by the application alone.        *)

InGraph == app.ir.scale \cup TracingP!Ends(TracingP!ScaleEdges)

(* The loop program with the graph of the tracing in it. *)
Traced == [app.loops EXCEPT !.nodes = InGraph, !.edges = TracingP!ScaleEdges, !.roots = app.ir.scale]

(* Before they run, the later passes have nothing; afterwards the earlier ones
   are left as they are.                                                    *)
LoopsIdle ==
    m = app.loops /\ phase = "off" /\ nodes = {} /\ edges = {}
    /\ worklist = {} /\ visited = {} /\ newNodes = {}

PassIdle ==
    /\ dphase = "roots" /\ dtodo = {} /\ pending = {} /\ dvisited = {}
    /\ overflowable = {} /\ queue = {} /\ instr_id = 0 /\ code = Pass!Original

TracingPart ==
    /\ TracingP!TypeOK
    /\ stage = "tracing" => TracingP!IInv /\ LoopsIdle
    /\ stage # "tracing" => scale_vars = app.ir.scale /\ m = Traced

LoopsPart ==
    /\ worklist \subseteq Value /\ visited \subseteq Value /\ newNodes \subseteq Value \X Value
    /\ stage = "loops" => IF app.traceLoops THEN LoopInv
                          ELSE phase = "off" /\ nodes = m.nodes /\ edges = m.edges

(* The graph that is handed on is all below its roots, and is what the program
   depends on at scale.                                                     *)
GraphPart ==
    stage \notin {"tracing", "loops"} =>
        /\ phase = "off" /\ edges \subseteq Value \X Value
        /\ nodes = ScaleDependent
        /\ nodes = Reach(edges, app.ir.scale)

PassPart ==
    IF stage \in {"tracing", "loops", "traces"} THEN PassIdle
    ELSE PassP!PassInv /\ dphase # "running"

AnalysisInv ==
    /\ app \in Apps
    /\ stage \in {"tracing", "loops", "traces", "pass", "histories", "finished"}
    /\ TracingPart /\ LoopsPart /\ GraphPart /\ PassPart

-----------------------------------------------------------------------------
(* The graph of the tracing hangs together. *)

LEMMA AppFields ==
    ASSUME AnalysisInv
    PROVE  /\ app.ir \in TracingP!IRModule /\ app.ir.scale \subseteq Value
           /\ app.loops \in Programs /\ app.target \in Pass!Program
           /\ app.traceLoops \in BOOLEAN
<1>1. app \in Application /\ app.ir \in TracingP!IRModule
  BY AppsAssumption, TracingAssumptions DEF AnalysisInv
<1> QED
  BY <1>1 DEF Application, TracingP!IRModule

LEMMA TracedFields ==
    ASSUME AnalysisInv
    PROVE  /\ InGraph \in SUBSET Value /\ TracingP!ScaleEdges \in SUBSET (Value \X Value)
           /\ InGraph = Reach(TracingP!ScaleEdges, app.ir.scale)
           /\ Traced \in LoopProgram /\ LoopNest(Traced)
           /\ Traced.nodes = InGraph /\ Traced.edges = TracingP!ScaleEdges /\ Traced.roots = app.ir.scale
<1> DEFINE E == TracingP!ScaleEdges
           S == app.ir.scale
<1>1. /\ E \in SUBSET (Value \X Value) /\ S \in SUBSET Value
      /\ \A R \in SUBSET Value :
            S \subseteq R /\ (\A e \in E : e[1] \in R => e[2] \in R) => TracingP!Ends(E) \subseteq R
  BY TracingP!ScaleEdgesHang, TracingAssumptions, AppFields
<1> HIDE DEF E, S
<1>2. TracingP!Ends(E) = {e[2] : e \in E}
  BY DEF TracingP!Ends
<1>3. InGraph = S \cup TracingP!Ends(E) /\ InGraph \in SUBSET Value
  BY <1>1, <1>2 DEF InGraph, E, S
<1>4. Reach(E, S) \in SUBSET Value /\ S \subseteq Reach(E, S) /\ EdgeClosed(E, Reach(E, S))
  BY <1>1, ReachLeast
<1>5. InGraph \subseteq Reach(E, S)
  BY <1>1, <1>3, <1>4 DEF EdgeClosed
<1>6. EdgeClosed(E, InGraph)
  BY <1>2, <1>3 DEF EdgeClosed
<1>7. Reach(E, S) \subseteq InGraph
  BY <1>1, <1>3, <1>6, ReachLeast
<1>8. app.loops \in LoopProgram /\ LoopNest(app.loops)
  BY AppFields, ProgramsAssumption
<1>9. Traced \in LoopProgram
  BY <1>1, <1>3, <1>8 DEF Traced, LoopProgram, E, S
<1>10. LoopNest(Traced)
  BY <1>8 DEF Traced, LoopProgram, LoopNest
<1>11. Traced.nodes = InGraph /\ Traced.edges = E /\ Traced.roots = S
  BY <1>8 DEF Traced, LoopProgram, E, S
<1> QED
  BY <1>1, <1>3, <1>5, <1>7, <1>9, <1>10, <1>11 DEF E, S

(* What is defined by the application stays as it is. *)
LEMMA AppKept ==
    ASSUME app' = app
    PROVE  InGraph' = InGraph /\ TracingP!ScaleEdges' = TracingP!ScaleEdges /\ Traced' = Traced
<1>1. TracingP!FirstEdges' = TracingP!FirstEdges
  BY DEF TracingP!FirstEdges
<1>2. TracingP!EntryEdges' = TracingP!EntryEdges
  BY <1>1 DEF TracingP!EntryEdges
<1>3. TracingP!Entries' = TracingP!Entries
  BY <1>2 DEF TracingP!Entries
<1>4. TracingP!ScaleEdges' = TracingP!ScaleEdges
  BY <1>1, <1>2, <1>3 DEF TracingP!ScaleEdges
<1> QED
  BY <1>4 DEF InGraph, Traced

LEMMA DependentKept ==
    ASSUME app' = app, m' = m
    PROVE  ScaleDependent' = ScaleDependent
<1>1. Tracing!ScaleEdges' = Tracing!ScaleEdges
  <2>1. Tracing!FirstEdges' = Tracing!FirstEdges
    BY DEF Tracing!FirstEdges
  <2>2. Tracing!EntryEdges' = Tracing!EntryEdges
    BY <2>1 DEF Tracing!EntryEdges
  <2>3. Tracing!Entries' = Tracing!Entries
    BY <2>2 DEF Tracing!Entries
  <2> QED
    BY <2>1, <2>2, <2>3 DEF Tracing!ScaleEdges
<1>2. \A L : Instructions(L)' = Instructions(L)
  BY DEF Instructions
<1>3. \A bi, L : Decides(bi, L)' = Decides(bi, L)
  BY DEF Decides, DecidesAt
<1> QED
  BY <1>1, <1>2, <1>3 DEF ScaleDependent

-----------------------------------------------------------------------------
(* The graph when loop tracing is over. *)

LEMMA DependentIs ==
    ASSUME AnalysisInv, m = Traced
    PROVE  ScaleDependent =
             InGraph \cup UNION {Instructions(L) : L \in
                 IF app.traceLoops THEN {L \in m.loops : \E bi \in InGraph \cap m.branches : Decides(bi, L)} ELSE {}}
<1>1. Tracing!ScaleEdges = TracingP!ScaleEdges
  BY TracingGraph
<1>2. app.ir.scale \cup Tracing!Ends(Tracing!ScaleEdges) = InGraph
  BY <1>1, TracingGraph DEF InGraph
<1> QED
  BY <1>2 DEF ScaleDependent

LEMMA GraphWhenDone ==
    ASSUME AnalysisInv, stage = "loops", phase \in {"done", "off"}
    PROVE  /\ edges \subseteq Value \X Value
           /\ nodes = ScaleDependent
           /\ nodes = Reach(edges, app.ir.scale)
<1>1. m = Traced
  BY DEF AnalysisInv, TracingPart
<1>2. /\ InGraph \in SUBSET Value /\ m.edges \in SUBSET (Value \X Value)
      /\ InGraph = Reach(m.edges, m.roots) /\ m.roots = app.ir.scale /\ m.roots \in SUBSET Value
      /\ m \in LoopProgram /\ m.nodes = InGraph
  BY <1>1, TracedFields, AppFields
<1>3. CASE ~app.traceLoops
  <2>1. nodes = m.nodes /\ edges = m.edges
    BY <1>3 DEF AnalysisInv, LoopsPart
  <2>2. ScaleDependent = InGraph
    BY <1>1, <1>3, DependentIs
  <2> QED
    BY <1>2, <2>1, <2>2
<1>4. CASE app.traceLoops
  <2>1. LoopInv /\ phase = "done"
    BY <1>4 DEF AnalysisInv, LoopsPart, LoopInv, LoopTypeOK
  <2> DEFINE Branches == Reach(m.edges, m.roots) \cap m.branches
             Found == {e \in Branches \X Value :
                          \E L \in m.loops : Decides(e[1], L) /\ \E b \in m.blocks[L] : e[2] \in m.body[b]}
  <2>2. edges = m.edges \cup Found /\ nodes = m.nodes \cup {e[2] : e \in Found}
    BY <2>1, LoopInvImpliesExact DEF LoopsMarkedExactly
  <2>3. Found \subseteq Value \X Value
    BY <1>2
  <2>4. edges \in SUBSET (Value \X Value) /\ nodes \in SUBSET Value
    BY <1>2, <2>2, <2>3
  <2>5. nodes \subseteq Reach(edges, m.roots)
    BY <1>2, <2>1, LoopInvKeepsRooted DEF Rooted, Reached
  <2>6. m.roots \subseteq nodes /\ EdgeClosed(edges, nodes)
    <3>1. m.roots \subseteq InGraph /\ EdgeClosed(m.edges, InGraph)
      BY <1>2, ReachLeast
    <3>2. \A e \in m.edges : e[2] \in InGraph
      BY <1>1, TracedFields DEF InGraph, TracingP!Ends
    <3> HIDE DEF Found
    <3> QED
      BY <1>2, <2>2, <3>1, <3>2 DEF EdgeClosed
  <2>7. nodes = Reach(edges, m.roots)
    BY <1>2, <2>4, <2>5, <2>6, ReachLeast
  <2>8. {e[2] : e \in Found} =
          UNION {Instructions(L) : L \in {K \in m.loops : \E bi \in InGraph \cap m.branches : Decides(bi, K)}}
    <3>1. \A L \in m.loops : m.blocks[L] \subseteq Block /\ \A b \in m.blocks[L] : m.body[b] \subseteq Value
      BY <1>2 DEF LoopProgram
    <3>2. ASSUME NEW v, NEW e \in Found, v = e[2]
          PROVE  v \in UNION {Instructions(L) : L \in {K \in m.loops : \E bi \in InGraph \cap m.branches : Decides(bi, K)}}
      <4>1. PICK L \in m.loops : Decides(e[1], L) /\ \E b \in m.blocks[L] : e[2] \in m.body[b]
        BY <3>2
      <4>2. v \in Instructions(L)
        BY <3>2, <4>1 DEF Instructions
      <4>3. e[1] \in InGraph \cap m.branches
        BY <1>2, <3>2
      <4> QED
        BY <4>1, <4>2, <4>3
    <3>3. ASSUME NEW L \in m.loops, NEW bi \in InGraph \cap m.branches, Decides(bi, L), NEW v \in Instructions(L)
          PROVE  v \in {e[2] : e \in Found}
      <4>1. PICK b \in m.blocks[L] : v \in m.body[b]
        BY DEF Instructions
      <4>2. v \in Value /\ bi \in Branches
        BY <1>2, <3>1, <4>1
      <4>3. <<bi, v>> \in Found /\ <<bi, v>>[2] = v
        BY <3>3, <4>1, <4>2
      <4> QED
        BY <4>3
    <3> QED
      BY <3>2, <3>3
  <2>9. ScaleDependent = nodes
    BY <1>1, <1>2, <1>4, <2>2, <2>8, DependentIs
  <2> QED
    BY <1>2, <2>4, <2>7, <2>9
<1> QED
  BY <1>3, <1>4

-----------------------------------------------------------------------------
(* What a pass leaves alone. *)

LEMMA TracingKept ==
    ASSUME TracingP!TypeOK, UNCHANGED <<app, tracingVars>>
    PROVE  TracingP!TypeOK'
BY DEF TracingP!TypeOK, tracingVars

LEMMA PassIdleKept ==
    ASSUME app.target \in Pass!Program, PassIdle, UNCHANGED <<app, passVars>>
    PROVE  PassIdle'
<1>1. Pass!Original = [f \in Function |-> [b \in DOMAIN app.target.code[f] |->
                          [i \in DOMAIN app.target.code[f][b] |-> Pass!Inst(app.target.code[f][b][i])]]]
  <2>1. [app.target EXCEPT !.nodes = nodes, !.edges = edges, !.roots = scale_vars].code = app.target.code
    BY DEF Pass!Program
  <2> QED
    BY <2>1 DEF Pass!Original
<1>2. Pass!Original' = [f \in Function |-> [b \in DOMAIN app.target.code[f] |->
                          [i \in DOMAIN app.target.code[f][b] |-> Pass!Inst(app.target.code[f][b][i])]]]
  <2>1. [app.target EXCEPT !.nodes = nodes', !.edges = edges', !.roots = scale_vars'].code = app.target.code
    BY DEF Pass!Program
  <2> QED
    BY <2>1 DEF Pass!Original
<1> QED
  BY <1>1, <1>2 DEF PassIdle, passVars

LEMMA PassKept ==
    ASSUME PassP!PassInv, UNCHANGED <<app, nodes, edges, scale_vars, passVars>>
    PROVE  PassP!PassInv'
<1>1. UNCHANGED PassP!vars
  BY DEF PassP!vars, passVars
<1> QED
  BY <1>1, PassP!StutterPass, PassAssumptions

LEMMA LoopsKept ==
    ASSUME LoopsPart, UNCHANGED <<app, stage, vars>>
    PROVE  LoopsPart'
<1>1. CASE stage = "loops" /\ app.traceLoops
  <2>1. LoopInv'
    BY <1>1, StutterPreserves DEF LoopsPart
  <2> QED
    BY <1>1, <2>1 DEF LoopsPart, vars
<1>2. CASE ~(stage = "loops" /\ app.traceLoops)
  BY <1>2 DEF LoopsPart, vars
<1> QED
  BY <1>1, <1>2

LEMMA GraphKept ==
    ASSUME GraphPart, UNCHANGED <<app, stage, vars>>
    PROVE  GraphPart'
<1>1. ScaleDependent' = ScaleDependent
  BY DependentKept DEF vars
<1> QED
  BY <1>1 DEF GraphPart, vars

-----------------------------------------------------------------------------
(* The steps. *)

LEMMA InitAnalysis == AnalysisInit => AnalysisInv
<1> SUFFICES ASSUME AnalysisInit
             PROVE  AnalysisInv
  OBVIOUS
<1>1. TracingP!IInv
  BY TracingSteps, TracingP!IInvNext, TracingAssumptions DEF AnalysisInit
<1>2. TracingPart
  BY <1>1 DEF AnalysisInit, TracingPart, LoopsIdle, TracingP!IInv
<1>3. LoopsPart /\ GraphPart /\ PassPart
  BY DEF AnalysisInit, LoopsPart, GraphPart, PassPart, PassIdle
<1> QED
  BY <1>2, <1>3 DEF AnalysisInit, AnalysisInv

LEMMA TraceStep ==
    ASSUME AnalysisInv, Trace
    PROVE  AnalysisInv'
<1>0. /\ stage = "tracing" /\ Tracing!Step
      /\ UNCHANGED <<app, stage, vars, passVars, printVars>>
  BY DEF Trace
<1>1. TracingP!IInv'
  <2>1. TracingP!IInv /\ TracingP!Next
    BY <1>0, TracingSteps DEF AnalysisInv, TracingPart, TracingP!Next
  <2> QED
    BY <2>1, TracingP!IInvNext, TracingAssumptions
<1>2. TracingPart'
  BY <1>0, <1>1 DEF AnalysisInv, TracingPart, LoopsIdle, vars, TracingP!IInv
<1>3. LoopsPart' /\ GraphPart'
  BY <1>0, LoopsKept, GraphKept DEF AnalysisInv
<1>4. PassPart'
  BY <1>0, PassIdleKept, AppFields DEF AnalysisInv, PassPart
<1> QED
  BY <1>0, <1>2, <1>3, <1>4 DEF AnalysisInv

LEMMA EndTracingStep ==
    ASSUME AnalysisInv, EndTracing
    PROVE  AnalysisInv'
<1>0. /\ stage = "tracing" /\ tphase = "done" /\ stage' = "loops"
      /\ phase' = IF app.traceLoops THEN "traverse" ELSE "off"
      /\ nodes' = tnodes /\ edges' = tedges
      /\ worklist' = IF app.traceLoops THEN scale_vars ELSE {}
      /\ m' = [m EXCEPT !.nodes = tnodes, !.edges = tedges, !.roots = scale_vars]
      /\ tvisited' = {}
      /\ UNCHANGED <<app, visited, newNodes, passVars, printVars, tphase, tnodes, tedges,
                     scale_vars, todo, cur, refs, stack, toFollow, prevSize>>
  BY DEF EndTracing
<1>1. TracingP!IInv /\ LoopsIdle /\ TracingP!TypeOK
  BY <1>0 DEF AnalysisInv, TracingPart
<1>2. tedges = TracingP!ScaleEdges /\ tnodes = InGraph
  <2>1. TracingP!ExactGraph
    BY <1>1, TracingP!IInvExact, TracingAssumptions
  <2> QED
    BY <1>0, <2>1 DEF TracingP!ExactGraph, InGraph
<1>3. scale_vars = app.ir.scale
  BY <1>0, <1>1 DEF TracingP!IInv, TracingP!ControlInv
<1>4. m' = Traced /\ Traced' = Traced
  BY <1>0, <1>1, <1>2, <1>3, AppKept DEF LoopsIdle, Traced
<1>5. TracingP!TypeOK'
  BY <1>0, <1>1 DEF TracingP!TypeOK
<1>6. TracingPart'
  BY <1>0, <1>3, <1>4, <1>5 DEF TracingPart
<1>7. /\ m' \in LoopProgram /\ LoopNest(m') /\ nodes' = m'.nodes /\ edges' = m'.edges
      /\ m'.roots = app.ir.scale
  BY <1>0, <1>2, <1>4, TracedFields
<1>8. ASSUME app.traceLoops
      PROVE  LoopInv'
  <2>1. Start'
    BY <1>0, <1>1, <1>3, <1>7, <1>8 DEF Start, ProgramOK, LoopsIdle
  <2>2. Start' => LoopInv'
    BY LoopInvStart, PTL
  <2> QED
    BY <2>1, <2>2
<1>9. LoopsPart'
  <2>1. worklist' \subseteq Value /\ visited' \subseteq Value /\ newNodes' \subseteq Value \X Value
    BY <1>0, <1>1, <1>3, AppFields DEF LoopsIdle
  <2> QED
    BY <1>0, <1>7, <1>8, <2>1 DEF LoopsPart
<1>10. GraphPart'
  BY <1>0 DEF GraphPart
<1>11. PassPart'
  BY <1>0, PassIdleKept, AppFields DEF AnalysisInv, PassPart
<1> QED
  BY <1>0, <1>6, <1>9, <1>10, <1>11 DEF AnalysisInv

LEMMA TraceLoopsStep ==
    ASSUME AnalysisInv, TraceLoops
    PROVE  AnalysisInv'
<1>0. /\ stage = "loops" /\ phase = "traverse" /\ Step
      /\ UNCHANGED <<app, stage, tracingVars, passVars, printVars>>
  BY DEF TraceLoops
<1>1. app.traceLoops /\ LoopInv
  BY <1>0 DEF AnalysisInv, LoopsPart
<1>2. LoopInv'
  BY <1>0, <1>1, LoopInvNext DEF Next
<1>3. m' = m
  BY <1>0 DEF Step, Drop, Visit, AddNewNodes
<1>4. LoopsPart'
  <2>1. worklist' \subseteq Value /\ visited' \subseteq Value /\ newNodes' \subseteq Value \X Value
    BY <1>2 DEF LoopInv, LoopTypeOK, MarkInv
  <2> QED
    BY <1>0, <1>1, <1>2, <2>1 DEF LoopsPart
<1>5. TracingPart'
  BY <1>0, <1>3, TracingKept, AppKept DEF AnalysisInv, TracingPart, tracingVars
<1>6. GraphPart'
  BY <1>0 DEF GraphPart
<1>7. PassPart'
  BY <1>0, PassIdleKept, AppFields DEF AnalysisInv, PassPart
<1> QED
  BY <1>0, <1>4, <1>5, <1>6, <1>7 DEF AnalysisInv

LEMMA EndLoopsStep ==
    ASSUME AnalysisInv, EndLoops
    PROVE  AnalysisInv'
<1>0. /\ stage = "loops" /\ phase \in {"done", "off"} /\ stage' = "traces" /\ phase' = "off"
      /\ starts' = IF app.printTraces THEN scale_vars ELSE {}
      /\ UNCHANGED <<app, m, nodes, edges, worklist, visited, newNodes, tracingVars, passVars,
                     pstack, pvisited, lines>>
  BY DEF EndLoops
<1>1. edges \subseteq Value \X Value /\ nodes = ScaleDependent /\ nodes = Reach(edges, app.ir.scale)
  BY <1>0, GraphWhenDone
<1>2. GraphPart'
  BY <1>0, <1>1, DependentKept DEF GraphPart
<1>3. TracingPart'
  BY <1>0, TracingKept, AppKept DEF AnalysisInv, TracingPart, tracingVars
<1>4. LoopsPart'
  BY <1>0 DEF AnalysisInv, LoopsPart
<1>5. PassPart'
  BY <1>0, PassIdleKept, AppFields DEF AnalysisInv, PassPart
<1> QED
  BY <1>0, <1>2, <1>3, <1>4, <1>5 DEF AnalysisInv

LEMMA PrintLinesStep ==
    ASSUME AnalysisInv, PrintLines
    PROVE  AnalysisInv'
<1>0. /\ stage \in {"traces", "histories"} /\ Printing!Step
      /\ UNCHANGED <<app, stage, vars, tracingVars, passVars>>
  BY DEF PrintLines
<1>2. TracingPart'
  BY <1>0, TracingKept, AppKept DEF AnalysisInv, TracingPart, vars, tracingVars
<1>3. LoopsPart' /\ GraphPart'
  BY <1>0, LoopsKept, GraphKept DEF AnalysisInv
<1>4. PassPart'
  BY <1>0, PassIdleKept, PassKept, AppFields DEF AnalysisInv, PassPart, vars, tracingVars, passVars
<1> QED
  BY <1>0, <1>2, <1>3, <1>4 DEF AnalysisInv

(* The program that detection is given. *)
LEMMA ProgramGiven ==
    ASSUME AnalysisInv, stage \notin {"tracing", "loops"}
    PROVE  [app.target EXCEPT !.nodes = nodes, !.edges = edges, !.roots = scale_vars] \in Detected
<1> DEFINE g == [nodes |-> nodes, edges |-> edges, roots |-> scale_vars]
<1>1. /\ edges \in SUBSET (Value \X Value) /\ scale_vars \in SUBSET Value /\ nodes = Reach(edges, app.ir.scale)
      /\ scale_vars = app.ir.scale
  BY AppFields DEF AnalysisInv, GraphPart, TracingPart
<1>2. nodes \in SUBSET Value
  BY <1>1, ReachLeast
<1>3. g \in Graph
  BY <1>1, <1>2 DEF Graph
<1>4. WithGraph(app, g) = [app.target EXCEPT !.nodes = nodes, !.edges = edges, !.roots = scale_vars]
  BY DEF WithGraph
<1> QED
  BY <1>3, <1>4 DEF Detected, AnalysisInv

LEMMA PassStart == PassP!Init => PassP!PassInv
BY PassP!InitPass, PassAssumptions

LEMMA EndTracesStep ==
    ASSUME AnalysisInv, EndTraces
    PROVE  AnalysisInv'
<1>0. /\ stage = "traces" /\ starts = {} /\ pstack = <<>> /\ stage' = "pass" /\ dtodo' = scale_vars
      /\ pvisited' = {} /\ lines' = <<>>
      /\ UNCHANGED <<app, vars, tracingVars, dphase, pending, dvisited, overflowable, queue,
                     instr_id, code, starts, pstack>>
  BY DEF EndTraces
<1>1. TracingPart'
  BY <1>0, TracingKept, AppKept DEF AnalysisInv, TracingPart, vars, tracingVars
<1>2. LoopsPart'
  BY <1>0 DEF AnalysisInv, LoopsPart, vars
<1>3. GraphPart'
  BY <1>0, DependentKept DEF AnalysisInv, GraphPart, vars
<1>4. PassPart'
  <2>1. PassIdle
    BY <1>0 DEF AnalysisInv, PassPart
  <2>2. UNCHANGED <<app, nodes, edges, scale_vars>>
    BY <1>0 DEF vars, tracingVars
  <2>3. [app.target EXCEPT !.nodes = nodes, !.edges = edges, !.roots = scale_vars] \in Detected
    BY <1>0, ProgramGiven
  <2>4. [app.target EXCEPT !.nodes = nodes, !.edges = edges, !.roots = scale_vars].roots = scale_vars
    BY AppFields DEF Pass!Program
  <2>5. PassP!Original' = PassP!Original /\ code = PassP!Original
    BY <2>1, <2>2, PassOperators DEF PassP!Original, PassIdle
  <2>6. PassP!Init'
    BY <1>0, <2>1, <2>2, <2>3, <2>4, <2>5 DEF PassP!Init, PassIdle
  <2>7. PassP!Init' => PassP!PassInv'
    BY PassStart, PTL
  <2> QED
    BY <1>0, <2>1, <2>6, <2>7 DEF PassPart, PassIdle
<1> QED
  BY <1>0, <1>1, <1>2, <1>3, <1>4 DEF AnalysisInv

LEMMA DetectStep ==
    ASSUME AnalysisInv, DetectAndInstrument
    PROVE  AnalysisInv'
<1>0. /\ stage = "pass" /\ Pass!Step
      /\ UNCHANGED <<app, stage, vars, tracingVars, printVars>>
  BY DEF DetectAndInstrument
<1>1. PassP!Step /\ PassP!PassInv
  BY <1>0, PassSteps DEF AnalysisInv, PassPart
<1>2. PassP!PassInv'
  BY <1>0, <1>1, PassP!StepPass, PassAssumptions, ProgramGiven
<1>3. dphase' # "running"
  BY <1>0, <1>1 DEF AnalysisInv, PassPart, PassP!Step, PassP!TakeRoot, PassP!Skip, PassP!findInstructions,
         PassP!EndDetection, PassP!instrumentInstruction, PassP!instrumentInstructionFails,
         PassP!initInstrumentation, PassP!finaliseInstrumentation, PassP!EndInstrumentation
<1>4. PassPart'
  BY <1>0, <1>2, <1>3 DEF PassPart
<1>5. TracingPart'
  BY <1>0, TracingKept, AppKept DEF AnalysisInv, TracingPart, vars, tracingVars
<1>6. LoopsPart' /\ GraphPart'
  BY <1>0, LoopsKept, GraphKept DEF AnalysisInv
<1> QED
  BY <1>0, <1>4, <1>5, <1>6 DEF AnalysisInv

(* The pass is over, or the histories are: the graph stays. *)
LEMMA StageKept ==
    ASSUME AnalysisInv, stage \in {"pass", "histories"}, stage' \in {"histories", "finished"},
           UNCHANGED <<app, vars, tracingVars, passVars>>
    PROVE  AnalysisInv'
<1>1. TracingPart'
  BY TracingKept, AppKept DEF AnalysisInv, TracingPart, vars, tracingVars
<1>2. LoopsPart'
  BY DEF AnalysisInv, LoopsPart, vars
<1>3. GraphPart'
  BY DependentKept DEF AnalysisInv, GraphPart, vars
<1>4. PassPart'
  BY PassKept DEF AnalysisInv, PassPart, vars, tracingVars, passVars
<1> QED
  BY <1>1, <1>2, <1>3, <1>4 DEF AnalysisInv

LEMMA EndPassStep ==
    ASSUME AnalysisInv, EndPass \/ EndHistories
    PROVE  AnalysisInv'
BY StageKept DEF EndPass, EndHistories

LEMMA StutterAnalysis ==
    ASSUME AnalysisInv, UNCHANGED analysisVars
    PROVE  AnalysisInv'
<1>0. UNCHANGED <<app, stage, vars, tracingVars, passVars, printVars>>
  BY DEF analysisVars
<1>1. TracingPart'
  <2>1. stage = "tracing" => TracingP!IInv'
    <3>1. UNCHANGED TracingP!vars
      BY <1>0 DEF TracingP!vars, tracingVars
    <3> QED
      BY <3>1, TracingP!IInvNext, TracingAssumptions DEF AnalysisInv, TracingPart
  <2> QED
    BY <1>0, <2>1, TracingKept, AppKept DEF AnalysisInv, TracingPart, LoopsIdle, vars, tracingVars
<1>2. LoopsPart' /\ GraphPart'
  BY <1>0, LoopsKept, GraphKept DEF AnalysisInv
<1>3. PassPart'
  BY <1>0, PassIdleKept, PassKept, AppFields DEF AnalysisInv, PassPart, vars, tracingVars, passVars
<1> QED
  BY <1>0, <1>1, <1>2, <1>3 DEF AnalysisInv

LEMMA AnalysisInvariant == AnalysisSpec => []AnalysisInv
<1>1. AnalysisInv /\ [AnalysisNext]_analysisVars => AnalysisInv'
  BY TraceStep, EndTracingStep, TraceLoopsStep, EndLoopsStep, PrintLinesStep, EndTracesStep,
     DetectStep, EndPassStep, StutterAnalysis DEF AnalysisNext, AnalysisStep
<1> QED
  BY <1>1, InitAnalysis, PTL DEF AnalysisSpec

LEMMA GraphTyped ==
    ASSUME AnalysisInv
    PROVE  /\ nodes \subseteq Value /\ edges \subseteq Value \X Value /\ phase \in {"off", "traverse", "done"}
           /\ worklist \subseteq Value /\ visited \subseteq Value /\ newNodes \subseteq Value \X Value
<1>1. worklist \subseteq Value /\ visited \subseteq Value /\ newNodes \subseteq Value \X Value
  BY DEF AnalysisInv, LoopsPart
<1>2. CASE stage = "tracing"
  BY <1>1, <1>2 DEF AnalysisInv, TracingPart, LoopsIdle
<1>3. CASE stage = "loops"
  <2>1. /\ m.nodes \in SUBSET Value /\ m.edges \in SUBSET (Value \X Value)
        /\ m = Traced
    BY <1>3, TracedFields DEF AnalysisInv, TracingPart
  <2>2. CASE app.traceLoops
    BY <1>1, <1>3, <2>1, <2>2 DEF AnalysisInv, LoopsPart, LoopInv, LoopTypeOK, GraphInv
  <2>3. CASE ~app.traceLoops
    BY <1>1, <1>3, <2>1, <2>3 DEF AnalysisInv, LoopsPart
  <2> QED
    BY <2>2, <2>3
<1>4. CASE stage \notin {"tracing", "loops"}
  <2>1. edges \in SUBSET (Value \X Value) /\ nodes = Reach(edges, app.ir.scale) /\ phase = "off"
    BY <1>4 DEF AnalysisInv, GraphPart
  <2> QED
    BY <1>1, <2>1, AppFields, ReachLeast
<1> QED
  BY <1>2, <1>3, <1>4

-----------------------------------------------------------------------------
(* The printing, on top of what the passes do. *)

LEMMA PrintingSteps ==
    /\ Printing!Step <=> PrintingP!Step
    /\ Printing!IsTree <=> PrintingP!IsTree
<1>1. /\ \A v : Printing!Begin(v) <=> PrintingP!Begin(v)
      /\ \A v : Printing!Skip(v) <=> PrintingP!Skip(v)
      /\ \A v : Printing!PrintNode(v) <=> PrintingP!PrintNode(v)
      /\ Printing!Return <=> PrintingP!Return
  BY DEF Printing!Begin, PrintingP!Begin, Printing!Skip, PrintingP!Skip, Printing!printValue, PrintingP!printValue,
         Printing!PrintNode, PrintingP!PrintNode, Printing!Return, PrintingP!Return
<1>2. /\ \A i : Printing!Above(i) = PrintingP!Above(i)
      /\ \A v : Printing!Reached(v) = PrintingP!Reached(v)
  BY DEF Printing!Above, PrintingP!Above, Printing!Reached, PrintingP!Reached
<1> QED
  BY <1>1, <1>2 DEF Printing!Step, PrintingP!Step, Printing!IsTree, PrintingP!IsTree

(* What is printed follows the graph that printing is called with; a history
   starts within that graph.                                                *)
PrintedInv ==
    /\ PrintingP!PrintInv
    /\ stage \in {"tracing", "loops", "pass"} => lines = <<>>
    /\ stage = "histories" => /\ starts \subseteq nodes
                              /\ lines # <<>> => lines[1].value \in nodes

NothingPrinted ==
    /\ edges \subseteq Value \X Value /\ starts \subseteq Value
    /\ pstack = <<>> /\ pvisited = {} /\ lines = <<>>

LEMMA NothingPrintedInv == NothingPrinted => PrintingP!PrintInv
<1> SUFFICES ASSUME NothingPrinted
             PROVE  PrintingP!PrintInv
  OBVIOUS
<1>1. \A v \in Value : parents(v) \in SUBSET Value /\ children(v) \in SUBSET Value
  BY DEF NothingPrinted, parents, children
<1>2. PrintingP!Init
  BY <1>1 DEF NothingPrinted, PrintingP!Init
<1> QED
  BY <1>2, PrintingP!InitPrint

LEMMA PrintedTyped ==
    ASSUME PrintedInv
    PROVE  /\ starts \subseteq Value /\ lines \in Seq(PrintingP!Line)
           /\ lines = <<>> => pstack = <<>> /\ pvisited = {}
BY DEF PrintedInv, PrintingP!PrintInv, PrintingP!PrintType, PrintingP!FoundInv

(* What detection found are the operations in the graph that may overflow. *)
LEMMA OverflowableIs ==
    ASSUME AnalysisInv, stage \notin {"tracing", "loops", "traces"}, dphase # "roots"
    PROVE  /\ overflowable = {v \in ScaleDependent : Pass!canIntegerOverflow(v)}
           /\ nodes = ScaleDependent
<1> DEFINE q == [app.target EXCEPT !.nodes = nodes, !.edges = edges, !.roots = scale_vars]
<1>1. /\ edges \subseteq Value \X Value /\ nodes = ScaleDependent /\ nodes = Reach(edges, app.ir.scale)
      /\ scale_vars = app.ir.scale
  BY DEF AnalysisInv, GraphPart, TracingPart
<1>2. q.edges = edges /\ q.roots = scale_vars
  BY AppFields DEF Pass!Program
<1>3. overflowable = PassP!ScaleOperations
  BY DEF AnalysisInv, PassPart, PassP!PassInv, PassP!FoundInv
<1>4. PassP!ReachedFromRoots = Reach(edges, app.ir.scale)
  BY <1>1, <1>2 DEF PassP!ReachedFromRoots, Reach, EdgeClosed
<1>5. PassP!ScaleOperations = {v \in PassP!ReachedFromRoots : PassP!canIntegerOverflow(v)}
  BY DEF PassP!ScaleOperations, PassP!canIntegerOverflow
<1> QED
  BY <1>1, <1>3, <1>4, <1>5, PassOperators

LEMMA PrintedInit == AnalysisInit => PrintedInv
<1> SUFFICES ASSUME AnalysisInit
             PROVE  PrintedInv
  OBVIOUS
<1>1. NothingPrinted
  BY DEF AnalysisInit, NothingPrinted
<1> QED
  BY <1>1, NothingPrintedInv DEF AnalysisInit, PrintedInv

(* Nothing is printed before, in or between the passes. *)
LEMMA PrintedFresh ==
    ASSUME AnalysisInv', PrintedInv, stage' # "finished", lines' = <<>>,
           pstack' = <<>>, pvisited' = {}, starts' \subseteq Value,
           stage' = "histories" => starts' \subseteq nodes'
    PROVE  PrintedInv'
<1>1. AnalysisInv' => (edges \subseteq Value \X Value)'
  BY GraphTyped, PTL
<1>2. NothingPrinted'
  BY <1>1 DEF NothingPrinted
<1>3. NothingPrinted' => PrintingP!PrintInv'
  BY NothingPrintedInv, PTL
<1> QED
  BY <1>2, <1>3 DEF PrintedInv

LEMMA PrintedPrint ==
    ASSUME AnalysisInv, PrintedInv, PrintLines
    PROVE  PrintedInv'
<1>0. /\ stage \in {"traces", "histories"} /\ stage' = stage /\ nodes' = nodes
      /\ PrintingP!Step /\ PrintingP!PrintInv
  BY PrintingSteps DEF PrintLines, PrintedInv, vars
<1>1. PrintingP!PrintInv'
  BY <1>0, PrintingP!StepPrint
<1>2. ASSUME stage = "histories"
      PROVE  starts' \subseteq nodes /\ (lines' # <<>> => lines'[1].value \in nodes)
  <2>0. starts \subseteq nodes /\ (lines # <<>> => lines[1].value \in nodes)
    BY <1>2 DEF PrintedInv
  <2>1. ASSUME NEW v \in Value, PrintingP!Begin(v)
        PROVE  starts' \subseteq nodes /\ lines'[1].value \in nodes
    BY <2>0, <2>1 DEF PrintingP!Begin
  <2>2. ASSUME NEW v \in Value, PrintingP!PrintNode(v)
        PROVE  starts' = starts /\ lines # <<>> /\ lines'[1] = lines[1]
    <3>1. lines # <<>> /\ lines \in Seq(PrintingP!Line)
      BY <2>2, PrintedTyped DEF PrintingP!PrintNode
    <3>2. starts' = starts /\ \E e : lines' = Append(lines, e)
      BY <2>2 DEF PrintingP!PrintNode, PrintingP!printValue
    <3>3. PICK e : lines' = Append(lines, e)
      BY <3>2
    <3>4. lines'[1] = lines[1]
      BY <3>1, <3>3
    <3> QED
      BY <3>1, <3>2, <3>4
  <2>3. ASSUME NEW v \in Value, PrintingP!Skip(v)
        PROVE  starts' = starts /\ lines' = lines
    BY <2>3 DEF PrintingP!Skip
  <2>4. CASE PrintingP!Return
    BY <2>0, <2>4 DEF PrintingP!Return
  <2> QED
    BY <1>0, <2>0, <2>1, <2>2, <2>3, <2>4 DEF PrintingP!Step
<1> QED
  BY <1>0, <1>1, <1>2 DEF PrintedInv

LEMMA PrintedKept ==
    ASSUME PrintedInv, UNCHANGED <<app, vars, printVars>>, stage' = stage \/ EndHistories
    PROVE  PrintedInv'
<1>1. UNCHANGED PrintingP!vars
  BY DEF PrintingP!vars, printVars, vars, parents, children, EndHistories
<1>2. PrintingP!PrintInv'
  BY <1>1, PrintingP!StutterPrint DEF PrintedInv
<1> QED
  BY <1>2 DEF PrintedInv, vars, printVars, EndHistories

LEMMA PrintedNext ==
    ASSUME AnalysisInv, AnalysisInv', PrintedInv, [AnalysisNext]_analysisVars
    PROVE  PrintedInv'
<1>0. starts \subseteq Value /\ (lines = <<>> => pstack = <<>> /\ pvisited = {})
  BY PrintedTyped
<1>1. CASE Trace \/ EndTracing \/ TraceLoops \/ DetectAndInstrument
  <2>1. lines = <<>> /\ UNCHANGED printVars /\ stage' \in {"tracing", "loops", "pass"}
    BY <1>1 DEF Trace, EndTracing, TraceLoops, DetectAndInstrument, PrintedInv, printVars
  <2> QED
    BY <1>0, <2>1, PrintedFresh DEF printVars
<1>4. CASE EndLoops
  <2>1. scale_vars \subseteq Value
    BY <1>4, AppFields DEF EndLoops, AnalysisInv, TracingPart
  <2> QED
    BY <1>0, <1>4, <2>1, PrintedFresh DEF EndLoops, PrintedInv
<1>5. CASE EndTraces
  BY <1>0, <1>5, PrintedFresh DEF EndTraces
<1>6. CASE EndPass
  <2>1. overflowable \subseteq nodes /\ nodes \subseteq Value
    BY <1>6, OverflowableIs, GraphTyped DEF EndPass
  <2> QED
    BY <1>0, <1>6, <2>1, PrintedFresh DEF EndPass, PrintedInv, vars
<1>2. CASE PrintLines
  BY <1>2, PrintedPrint
<1>3. CASE EndHistories \/ UNCHANGED analysisVars
  BY <1>3, PrintedKept DEF EndHistories, analysisVars
<1> QED
  BY <1>1, <1>2, <1>3, <1>4, <1>5, <1>6 DEF AnalysisNext, AnalysisStep

LEMMA PrintedInvariant == AnalysisSpec => []PrintedInv
<1>1. AnalysisInv /\ AnalysisInv' /\ PrintedInv /\ [AnalysisNext]_analysisVars => PrintedInv'
  BY PrintedNext
<1> QED
  BY <1>1, PrintedInit, AnalysisInvariant, PTL DEF AnalysisSpec

-----------------------------------------------------------------------------
(* What the passes together do. *)

LEMMA TypesFrom == AnalysisInv /\ PrintedInv => AnalysisTypeOK
<1> SUFFICES ASSUME AnalysisInv, PrintedInv
             PROVE  AnalysisTypeOK
  OBVIOUS
<1>1. /\ tphase \in Tracing!Phase /\ prevSize \in Nat /\ stack \in Seq(SUBSET Value)
      /\ \A S \in {tnodes, scale_vars, todo, cur, refs, tvisited, toFollow} : S \subseteq Value
      /\ tedges \subseteq Value \X Value
  BY TracingSteps DEF AnalysisInv, TracingPart, TracingP!TypeOK
<1>2. /\ nodes \subseteq Value /\ edges \subseteq Value \X Value /\ phase \in {"off", "traverse", "done"}
      /\ worklist \subseteq Value /\ visited \subseteq Value /\ newNodes \subseteq Value \X Value
  BY GraphTyped
<1>3. /\ dphase \in {"roots", "store", "final", "done", "broken"}
      /\ \A S \in {dtodo, pending, dvisited, overflowable, queue} : S \subseteq Value
      /\ instr_id = Cardinality(Pass!Of("store"))
  <2>1. CASE stage \in {"tracing", "loops", "traces"}
    <3>1. PassIdle
      BY <2>1 DEF AnalysisInv, PassPart
    <3>2. \A f \in Function : \A b \in DOMAIN code[f] : \A i \in DOMAIN code[f][b] : code[f][b][i].kind = "inst"
      BY <3>1 DEF PassIdle, Pass!Original, Pass!Inst
    <3>3. Pass!Of("store") = {}
      BY <3>2 DEF Pass!Of, Pass!Items
    <3> QED
      BY <3>1, <3>3, FS_EmptySet DEF PassIdle
  <2>2. CASE stage \notin {"tracing", "loops", "traces"}
    <3>1. PassP!PassInv /\ dphase # "running"
      BY <2>2 DEF AnalysisInv, PassPart
    <3>2. PassP!Typed /\ PassP!StoreInv /\ PassP!TypeOK
      BY <3>1 DEF PassP!PassInv, PassP!Typed
    <3>3. PassP!Cardinality(PassP!Of("store")) = instr_id
      BY <3>2, PassP!StoresCounted, PassAssumptions
    <3>4. Pass!Of("store") = PassP!Of("store")
      BY PassOperators
    <3>5. PassP!Cardinality(PassP!Of("store")) = Cardinality(Pass!Of("store"))
      BY <3>4 DEF PassP!Cardinality, Cardinality, PassP!IsFiniteSet, IsFiniteSet
    <3> QED
      BY <3>1, <3>2, <3>3, <3>5 DEF PassP!TypeOK
  <2> QED
    BY <2>1, <2>2
<1>4. /\ starts \subseteq Value /\ pvisited \subseteq Value
      /\ pstack \in Seq(SUBSET Value) /\ lines \in Seq(Printing!Line)
  BY DEF PrintedInv, PrintingP!PrintInv, PrintingP!PrintType, PrintingP!Line, Printing!Line
<1>5. stage \in {"tracing", "loops", "traces", "pass", "histories", "finished"}
  BY DEF AnalysisInv
<1> QED
  BY <1>1, <1>2, <1>3, <1>4, <1>5 DEF AnalysisTypeOK

(* What the passes hand to each other keeps its type: in particular the IDs
   count the stores in the code at every moment.                            *)
THEOREM AnalysisTypeCorrect == AnalysisSpec => []AnalysisTypeOK
BY AnalysisInvariant, PrintedInvariant, TypesFrom, PTL

LEMMA MarkedFrom == AnalysisInv => LoopsMarkedExactly
<1> SUFFICES ASSUME AnalysisInv, phase = "done"
             PROVE  LoopsMarkedExactly
  BY DEF LoopsMarkedExactly
<1>1. LoopInv
  BY DEF AnalysisInv, TracingPart, LoopsIdle, LoopsPart, GraphPart
<1> QED
  BY <1>1, LoopInvImpliesExact

(* In the graph that tracing hands on, loop tracing marks the loops that
   conditional branches below a scale variable decide, and no others.       *)
THEOREM MarkedExactly == AnalysisSpec => []LoopsMarkedExactly
BY AnalysisInvariant, MarkedFrom, PTL

LEMMA RootedFrom == AnalysisInv => GraphRooted
BY DEF AnalysisInv, GraphPart, GraphRooted

(* The graph that the later passes walk from its roots has nothing that they
   would pass over.                                                         *)
THEOREM GraphIsRooted == AnalysisSpec => []GraphRooted
BY AnalysisInvariant, RootedFrom, PTL

LEMMA DetectionFrom == AnalysisInv => DetectionExact
<1> SUFFICES ASSUME AnalysisInv, dphase = "store"
             PROVE  overflowable = {v \in ScaleDependent : Pass!canIntegerOverflow(v)}
  BY DEF DetectionExact
<1>1. stage \notin {"tracing", "loops", "traces"}
  BY DEF AnalysisInv, PassPart, PassIdle
<1> QED
  BY <1>1, OverflowableIs

(* Through all passes, and whatever the order in which each walks what it is
   given: exactly the overflowable operations that the program depends on at
   scale are handed to the instrumentation.                                 *)
THEOREM DetectionIsExact == AnalysisSpec => []DetectionExact
BY AnalysisInvariant, DetectionFrom, PTL

LEMMA TreeFrom == PrintedInv => TraceIsTree
BY PrintingSteps, PrintingP!PrintInvTree DEF PrintedInv, TraceIsTree

(* What is printed of the graph, forwards and backwards, is a tree of it at
   every moment and in the end all that can be reached.                     *)
THEOREM PrintedIsTree == AnalysisSpec => []TraceIsTree
BY PrintedInvariant, TreeFrom, PTL

LEMMA HistoryFrom == AnalysisInv /\ PrintedInv => HistoryReachesScale
<1> SUFFICES ASSUME AnalysisInv, PrintedInv, stage = "histories", pstack = <<>>, lines # <<>>
             PROVE  \E i \in DOMAIN lines : lines[i].value \in app.ir.scale
  BY DEF HistoryReachesScale
<1>1. /\ lines[1].value \in Reach(edges, app.ir.scale) /\ edges \in SUBSET (Value \X Value)
      /\ app.ir.scale \in SUBSET Value
  BY AppFields DEF AnalysisInv, GraphPart, PrintedInv
<1>2. lines[1].value \in pvisited /\ \A v \in pvisited : parents(v) \subseteq pvisited
  <2>1. pvisited \subseteq Value
    BY DEF PrintedInv, PrintingP!PrintInv, PrintingP!PrintType
  <2> QED
    BY <2>1, PrintingP!FinishedClosed DEF PrintedInv
<1>3. pvisited = {lines[i].value : i \in DOMAIN lines}
  BY DEF PrintedInv, PrintingP!PrintInv, PrintingP!FoundInv
<1> SUFFICES ASSUME app.ir.scale \cap pvisited = {}
             PROVE  FALSE
  BY <1>3
<1>4. EdgeClosed(edges, Value \ pvisited)
  BY <1>1, <1>2 DEF EdgeClosed, parents
<1>5. Reach(edges, app.ir.scale) \subseteq Value \ pvisited
  BY <1>1, <1>4, ReachLeast
<1> QED
  BY <1>1, <1>2, <1>5

(* Whatever is found overflowable, its history leads back to a scale variable. *)
THEOREM HistoriesReachScale == AnalysisSpec => []HistoryReachesScale
BY AnalysisInvariant, PrintedInvariant, HistoryFrom, PTL
=============================================================================
