----------------------------- MODULE LoopTracing -----------------------------
(* traceLoops of lib/Analysis/ScaleVariableTracing.cpp: every instruction of
   a loop is made scale dependent when a scale-dependent conditional branch
   goes into the loop or to its preheader.

   The scale graph and the loops of the program are the record m:
     nodes, edges, roots   the scale graph that tracing built
     branches              the conditional BranchInsts
     succs                 the blocks a branch goes to
     body                  the instructions of a block
     loops, blocks         the natural loops of LoopInfo and their blocks
     top                   the loops that are in no other loop
     preheader             the preheader of a loop, as a set (at most one)

   The vector `nodes` of the traversal is a set here: which entry is taken
   next, and how often a node is in it, makes no difference to what a step
   does, since a node that was visited is dropped when it is taken.        *)
EXTENDS Naturals, FiniteSets

CONSTANTS Value, Block, Loop,
          Programs   \* the graphs with loops that may be analysed

LoopProgram == [nodes     : SUBSET Value,
                edges     : SUBSET (Value \X Value),
                roots     : SUBSET Value,
                branches  : SUBSET Value,
                succs     : [Value -> SUBSET Block],
                body      : [Block -> SUBSET Value],
                loops     : SUBSET Loop,
                blocks    : [Loop -> SUBSET Block],
                top       : SUBSET Loop,
                preheader : [Loop -> SUBSET Block]]

(* What LoopInfo promises: different loops have different blocks, of the
   loops around a block one is inside all others, and the top ones are loops. *)
LoopNest(q) ==
    /\ \A K, L \in q.loops : q.blocks[K] = q.blocks[L] => K = L
    /\ \A L \in q.loops : \A b \in q.blocks[L] :
          \E I \in q.loops : /\ b \in q.blocks[I]
                            /\ \A K \in q.loops : b \in q.blocks[K] => q.blocks[I] \subseteq q.blocks[K]
    /\ q.top \subseteq q.loops

ASSUME ProgramsAssumption == Programs \subseteq LoopProgram /\ \A q \in Programs : LoopNest(q)

VARIABLES
    m,          \* the program; never changes
    phase,
    nodes,      \* scale_graph::graph
    edges,      \* the edges of the scale graph
    worklist,   \* `nodes` of traceLoops
    visited,    \* `visited` of traceLoops
    newNodes    \* `newNodes`: edges to add when the traversal is over

vars == <<m, phase, nodes, edges, worklist, visited, newNodes>>

(* Mutant of getLoopFor: the outermost loop instead of the innermost. *)
getLoopFor_Outermost(b) == {L \in m.top : b \in m.blocks[L]}

(* LoopInfo::getLoopFor: the innermost loop a block is in. *)
getLoopFor(b) ==
    {L \in m.loops : /\ b \in m.blocks[L]
                     /\ \A K \in m.loops : b \in m.blocks[K] => m.blocks[L] \subseteq m.blocks[K]}

(* The loops a branch to block b leads into: the innermost loop b is in, or
   else the outermost loops it is the preheader of.                        *)
LoopsEntered(b) ==
    IF getLoopFor(b) # {} THEN getLoopFor(b)
    ELSE {L \in m.top : b \in m.preheader[L]}

Instructions(L) == UNION {m.body[b] : b \in m.blocks[L]}

(* What the branch bi makes scale dependent. *)
Marked(bi) ==
    IF bi \in m.branches
    THEN UNION {Instructions(L) : L \in UNION {LoopsEntered(b) : b \in m.succs[bi]}}
    ELSE {}

Init ==
    /\ m \in Programs
    /\ phase = "traverse"
    /\ nodes = m.nodes /\ edges = m.edges
    /\ worklist = m.roots
    /\ visited = {} /\ newNodes = {}

Drop(n) ==
    /\ phase = "traverse" /\ n \in worklist /\ n \in visited
    /\ worklist' = worklist \ {n}
    /\ UNCHANGED <<m, phase, nodes, edges, visited, newNodes>>

(* Mutant of Visit: the node is not entered into visited. *)
Visit_NotVisited(n) ==
    /\ phase = "traverse" /\ n \in worklist /\ n \notin visited
    /\ worklist' = (worklist \ {n}) \cup {e[2] : e \in {d \in edges : d[1] = n}}
    /\ newNodes' = newNodes \cup ({n} \X Marked(n))
    /\ UNCHANGED <<m, phase, nodes, edges, visited>>

Visit(n) ==
    /\ phase = "traverse" /\ n \in worklist /\ n \notin visited
    /\ visited' = visited \cup {n}
    /\ worklist' = (worklist \ {n}) \cup {e[2] : e \in {d \in edges : d[1] = n}}
    /\ newNodes' = newNodes \cup ({n} \X Marked(n))
    /\ UNCHANGED <<m, phase, nodes, edges>>

(* Mutant of AddNewNodes: the marked instructions get no edge. *)
AddNewNodes_NoEdges ==
    /\ phase = "traverse" /\ worklist = {}
    /\ nodes' = nodes \cup {e[2] : e \in newNodes}
    /\ phase' = "done"
    /\ UNCHANGED <<m, edges, worklist, visited, newNodes>>

(* Mutant of AddNewNodes: the entries of the map join the graph, not the
   instructions they name.                                                  *)
AddNewNodes_Entries ==
    /\ phase = "traverse" /\ worklist = {}
    /\ nodes' = nodes \cup newNodes
    /\ edges' = edges \cup newNodes
    /\ phase' = "done"
    /\ UNCHANGED <<m, worklist, visited, newNodes>>

(* The graph is extended after the traversal. *)
AddNewNodes ==
    /\ phase = "traverse" /\ worklist = {}
    /\ nodes' = nodes \cup {e[2] : e \in newNodes}
    /\ edges' = edges \cup newNodes
    /\ phase' = "done"
    /\ UNCHANGED <<m, worklist, visited, newNodes>>

Terminated == phase = "done" /\ UNCHANGED vars

Step == (\E n \in Value : Drop(n) \/ Visit(n)) \/ AddNewNodes

Next == Step \/ Terminated

Spec == Init /\ [][Next]_vars
-----------------------------------------------------------------------------
(* The least set that contains R and follows the edges E. *)
EdgeClosed(E, S) == \A e \in E : e[1] \in S => e[2] \in S

Reach(E, R) ==
    LET Closed == {S \in SUBSET Value : R \subseteq S /\ EdgeClosed(E, S)}
    IN  {v \in Value : \A S \in Closed : v \in S}

(* A branch to b decides whether loop L is run or left: b is a block of L that
   is in no loop inside L, or L is outermost and b its preheader outside all
   loops.  A branch decides L when one of its successors does.              *)
DecidesAt(b, L) ==
    LET Around == {K \in m.loops : b \in m.blocks[K]} IN
    \/ L \in Around /\ \A K \in Around : ~(m.blocks[K] \subseteq m.blocks[L]) \/ K = L
    \/ Around = {} /\ L \in m.top /\ b \in m.preheader[L]

Decides(bi, L) == \E b \in m.succs[bi] : DecidesAt(b, L)

(* However the cyclic graph is walked, the loops that a conditional branch
   below a scale variable decides are marked, whole, and nothing else is.   *)
LoopsMarkedExactly ==
    phase = "done" =>
        LET Reached == Reach(m.edges, m.roots) \cap m.branches
            Found == {e \in Reached \X Value :
                         \E L \in m.loops : Decides(e[1], L) /\ \E b \in m.blocks[L] : e[2] \in m.body[b]}
        IN  edges = m.edges \cup Found /\ nodes = m.nodes \cup {e[2] : e \in Found}

(* "all instructions within a loop L will be marked as scale dependent if a
   scale instruction affects a branch instruction which conditionally
   branches into a basic block belonging to L [...] or the preheader of L"
   (the comment in traceLoops), of the graph that is handed on.             *)
LoopsMarkedToFixpoint ==
    phase = "done" => \A bi \in nodes : Marked(bi) \subseteq nodes
=============================================================================
