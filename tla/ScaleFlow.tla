------------------------------ MODULE ScaleFlow ------------------------------
(* What tracing promises, without saying how: a set of affected values grows
   from the scale variables along the flows of the program, never by a value
   that no flow justifies, and is handed on only when it is complete: closed
   under direct flow, with the bodies of the functions that values affected
   inside the functions of the scale variables are passed to.              *)
EXTENDS ScaleIR

CONSTANT Modules

VARIABLES ir, affected, finished

vars == <<ir, affected, finished>>

(* A value is justified by a set S of affected values when it is a scale
   variable, a reference of one, or follows from S by a use, a memory use or
   by being passed to a call.                                              *)
Justified(S, w) ==
    \/ w \in ir.scale \cup AllRefs(ir)
    \/ \E v \in S : w \in ir.users[v] \cup ir.memUses[v]
    \/ \E c \in S \cap ir.calls : \E p \in S : w \in getCallArgs(ir, c, p)

(* The calls reached without entering a callee. *)
DirectEdges == RefEdges(ir) \cup FlowEdges(ir, Closure(ir, AllRefs(ir)))

Complete(S) ==
    /\ ir.scale \cup AllRefs(ir) \subseteq S
    /\ \A v \in S \ ir.scale : ir.users[v] \cup ir.memUses[v] \subseteq S
    /\ \A e \in CallEdges(ir, DirectEdges) : e[2] \in S

Init ==
    /\ ir \in Modules
    /\ affected = {}
    /\ finished = FALSE

Grow ==
    /\ ~finished
    /\ affected \subseteq affected'
    /\ \A w \in affected' \ affected : Justified(affected, w)
    /\ UNCHANGED <<ir, finished>>

Finish ==
    /\ ~finished
    /\ Complete(affected)
    /\ finished' = TRUE
    /\ UNCHANGED <<ir, affected>>

Next == Grow \/ Finish

Spec == Init /\ [][Next]_vars
=============================================================================
