----------------------------- MODULE MCAnalysis -----------------------------
(* An application for TLC.  Function M has three loops: L1, with a nested
   loop L2, and after it L3, entered through its preheader p3 from the exit
   branch b1 of L1.  A branch b0 before them may skip L1 or enter it at its
   preheader; b3 is a condition inside L2, whose body has an operation i2 and
   a call c of function G; L3 has an operation i3.  The formal f of G is used
   by its operation g.  s is a scale variable and x a phi.  What uses what is
   every choice of the candidate edges.                                     *)
EXTENDS ScaleAnalysis

CONSTANTS s, x, b0, b1, b3, i2, i3, c, f, g,        \* values
          e0, p1, h1, p2, h2, u2, t2, p3, h3, q,        \* blocks
          L1, L2, L3, M, G                          \* loops and functions

MCValue == {s, x, b0, b1, b3, i2, i3, c, f, g}
MCBlock == {e0, p1, h1, p2, h2, u2, t2, p3, h3, q}
MCLoop == {L1, L2, L3}
MCFunction == {M, G}

Succs == [v \in MCValue |-> CASE v = b0 -> {p1, e0}
                              [] v = b1 -> {p2, p3}
                              [] v = b3 -> {u2, t2}
                              [] OTHER  -> {}]
Body == [b \in MCBlock |-> CASE b = e0 -> {x, b0} [] b = h1 -> {b1} [] b = h2 -> {i2, b3}
                             [] b = u2 -> {c} [] b = h3 -> {i3} [] b = q -> {g} [] OTHER -> {}]
Blocks == [L \in MCLoop |-> CASE L = L1 -> {h1, p2, h2, u2, t2} [] L = L2 -> {h2, u2, t2} [] L = L3 -> {h3}]
Preheader == [L \in MCLoop |-> CASE L = L1 -> {p1} [] L = L2 -> {p2} [] L = L3 -> {p3}]

LoopsOfM == [nodes |-> {}, edges |-> {}, roots |-> {},
             branches |-> {b0, b1, b3}, succs |-> Succs, body |-> Body,
             loops |-> MCLoop, blocks |-> Blocks, top |-> {L1, L3}, preheader |-> Preheader]
MCPrograms == {LoopsOfM}

Target == [nodes |-> {}, edges |-> {}, roots |-> {},
           opcode |-> [v \in MCValue |-> CASE v = i2 -> "mul" [] v = i3 -> "sub" [] v = g -> "shl" [] OTHER -> "none"],
           width |-> [v \in MCValue |-> IF v \in {x, i2, i3, f, g} THEN 32 ELSE 0],
           mode |-> "all", funcs |-> <<M, G>>, mains |-> {M},
           code |-> [h \in MCFunction |-> IF h = M THEN <<<<x, b0>>, <<b1>>, <<i2, b3>>, <<c>>, <<i3>>>>
                                          ELSE <<<<g>>>>],
           dbg |-> {}, finalizes |-> {}, callee |-> [v \in {c} |-> G], start |-> <<M>>]

Candidates == {<<s, x>>, <<s, b0>>, <<x, b1>>, <<x, i2>>, <<x, c>>, <<i2, x>>, <<i2, b3>>}

NoSeq == [v \in MCValue |-> <<>>]

IR(E, S) ==
    LET To(v) == {e[2] : e \in {d \in E \cup {<<f, g>>} : d[1] = v}} IN
    [scale    |-> S,
     refs     |-> [v \in MCValue |-> To(v)],
     users    |-> [v \in MCValue |-> IF v = s THEN {} ELSE To(v)],
     memUses  |-> [v \in MCValue |-> {}],
     calls    |-> {c},
     callee   |-> [v \in MCValue |-> "defined"],
     operands |-> [NoSeq EXCEPT ![c] = IF c \in To(x) THEN <<x>> ELSE <<i3>>],
     formals  |-> [NoSeq EXCEPT ![c] = <<f>>]]

MCApp(E, S, tl, pt, pb) ==
    [ir |-> IR(E, S), loops |-> LoopsOfM, target |-> Target,
     traceLoops |-> tl, printTraces |-> pt, printBwdTraces |-> pb]

Printed == {{<<s, b0>>, <<s, x>>, <<x, i2>>, <<i2, x>>},
            {<<s, x>>, <<x, i2>>, <<i2, b3>>, <<x, c>>}}

MCApps == {MCApp(E, S, TRUE, FALSE, FALSE) : E \in SUBSET Candidates, S \in {{s}, {s, x}}}
    \cup {MCApp(E, {s}, tl, TRUE, FALSE) : E \in Printed, tl \in BOOLEAN}
    \cup {MCApp(E, {s, x}, TRUE, FALSE, TRUE) : E \in Printed}

(* The scale variable decides only whether L1 is entered. *)
GuardedApps == {MCApp({<<s, b0>>}, {s}, TRUE, FALSE, FALSE)}
=============================================================================
