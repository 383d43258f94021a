---------------------------- MODULE TracePrinting ----------------------------
(* printTraces and printBwdTraces of lib/UtilFuncs.cpp: the scale graph is
   written as an indented list, by a search that goes to the children of a
   node, or to its parents, and prints a node when it comes to it first.

   The recursion is a stack: a frame is what a call of the function has still
   to recurse into, and the depth of a call is the number of frames below it.
   The order of the vectors children and parents is left open.              *)
EXTENDS Naturals, Sequences

CONSTANT Value

VARIABLES
    succ,      \* scale_node::children of each node, or ::parents
    starts,    \* the nodes a trace has still to be printed of
    stack,     \* the recursion of printTraces
    visited,   \* its visited set
    lines      \* the lines of the trace that is printed, or was last

vars == <<succ, starts, stack, visited, lines>>

Line == [value : Value, depth : Nat]

(* printValue: the depth is the number of dashes before the value. *)
printValue(v) == Append(lines, [value |-> v, depth |-> Len(stack)])

Init ==
    /\ succ \in [Value -> SUBSET Value] /\ starts \in SUBSET Value
    /\ stack = <<>> /\ visited = {} /\ lines = <<>>

(* A trace is begun with a visited set of its own. *)
Begin(v) ==
    /\ stack = <<>> /\ v \in starts
    /\ starts' = starts \ {v}
    /\ visited' = {v}
    /\ lines' = <<[value |-> v, depth |-> 0]>>
    /\ stack' = <<succ[v]>>
    /\ UNCHANGED succ

Skip(v) ==
    /\ stack # <<>> /\ v \in Head(stack) /\ v \in visited
    /\ stack' = <<Head(stack) \ {v}>> \o Tail(stack)
    /\ UNCHANGED <<succ, starts, visited, lines>>

(* Mutant of PrintNode: a node is visited when its subtree has been printed. *)
PrintNode_VisitedLate(v) ==
    /\ stack # <<>> /\ v \in Head(stack) /\ v \notin visited
    /\ visited' = IF succ[v] = {} THEN visited \cup {v} ELSE visited
    /\ lines' = printValue(v)
    /\ stack' = <<succ[v], Head(stack) \ {v}>> \o Tail(stack)
    /\ UNCHANGED <<succ, starts>>

PrintNode(v) ==
    /\ stack # <<>> /\ v \in Head(stack) /\ v \notin visited
    /\ visited' = visited \cup {v}
    /\ lines' = printValue(v)
    /\ stack' = <<succ[v], Head(stack) \ {v}>> \o Tail(stack)
    /\ UNCHANGED <<succ, starts>>

Return ==
    /\ stack # <<>> /\ Head(stack) = {}
    /\ stack' = Tail(stack)
    /\ UNCHANGED <<succ, starts, visited, lines>>

Step == (\E v \in Value : Begin(v) \/ Skip(v) \/ PrintNode(v)) \/ Return

Spec == Init /\ [][Step]_vars
-----------------------------------------------------------------------------
(* The line a line hangs below, for a reader: the last one before it whose
   indentation is less.                                                     *)
Above(i) ==
    CHOOSE j \in 1..(i - 1) : /\ lines[j].depth < lines[i].depth
                              /\ \A k \in (j + 1)..(i - 1) : lines[k].depth >= lines[i].depth

(* All that v leads to: the least set that contains v and follows succ. *)
Reached(v) ==
    LET Closed == {S \in SUBSET Value : v \in S /\ \A u \in S : succ[u] \subseteq S}
    IN  {u \in Value : \A S \in Closed : u \in S}

(* A trace can be read as a tree of the graph: its lines are different nodes,
   the first is where it starts, any other hangs one level below the line it
   is indented under and is a child (backwards: a parent) of that; and when
   it is finished no node that can be reached is missing, although nodes that
   were printed before are left out below all their other parents.          *)
IsTree ==
    /\ \A i, j \in DOMAIN lines : lines[i].value = lines[j].value => i = j
    /\ \A i \in DOMAIN lines \ {1} :
          /\ lines[i].depth > 0
          /\ LET up == lines[Above(i)] IN
             lines[i].depth = up.depth + 1 /\ lines[i].value \in succ[up.value]
    /\ lines # <<>> /\ stack = <<>> =>
          {lines[i].value : i \in DOMAIN lines} = Reached(lines[1].value)
=============================================================================
