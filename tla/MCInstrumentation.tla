-------------------------- MODULE MCInstrumentation --------------------------
(* A module of two functions for TLC.  F begins with a debug intrinsic d, an
   operation a and a call k of G; it has a block with an operation b and a
   call of MPI_Finalize, and one with another such call.  G has an operation
   c, and a block with a call of MPI_Finalize of its own.
   Libraries: all choices of scale graph edges, operations and modes; nothing
   is run.  Applications: which function is a main program, which comes first
   in the module, and whether G is run before F, as a constructor.          *)
EXTENDS InstrumentedExecution

CONSTANTS d, a, k, b, fin1, fin2, c, fin3, r, F, G

MCValue == {d, a, k, b, fin1, fin2, c, fin3, r}
MCFunction == {F, G}

Candidates == {<<r, a>>, <<r, c>>, <<a, b>>, <<b, a>>, <<b, c>>}

(* The operations of a, b and c: opcode and width. *)
Mixed == [a |-> <<"mul", 32>>, b |-> <<"add", 32>>, c |-> <<"ashr", 32>>]
Operations == {Mixed,
               [a |-> <<"add", 32>>, b |-> <<"none", 32>>, c |-> <<"mul", 64>>],
               [a |-> <<"and", 32>>, b |-> <<"mul", 32>>, c |-> <<"add", 0>>],
               [a |-> <<"mul", 16>>, b |-> <<"sub", 64>>, c |-> <<"shl", 8>>]}

Prog(E, R, op, md, fs, ms, st) ==
    [nodes  |-> R \cup UNION {{e[1], e[2]} : e \in E}, edges |-> E, roots |-> R,
     opcode |-> [v \in MCValue |-> CASE v = a -> op.a[1] [] v = b -> op.b[1]
                                     [] v = c -> op.c[1] [] OTHER -> "none"],
     width  |-> [v \in MCValue |-> CASE v = a -> op.a[2] [] v = b -> op.b[2]
                                     [] v = c -> op.c[2] [] OTHER -> 0],
     mode   |-> md,
     funcs  |-> fs, mains |-> ms,
     code   |-> [h \in MCFunction |-> IF h = F THEN <<<<d, a, k>>, <<b, fin1>>, <<fin2>>>>
                                      ELSE <<<<c>>, <<fin3>>>>],
     dbg    |-> {d}, finalizes |-> {fin1, fin2, fin3},
     callee |-> [h \in {k} |-> G], start |-> st]

Libraries == {Prog(E, R, op, md, <<F, G>>, ms, <<>>) :
                 E \in SUBSET Candidates, R \in {{}, {r}, {a, c}},
                 op \in Operations, md \in {"all", "mul-only"}, ms \in {{}, {F}}}

Applications == {Prog(E, {r}, Mixed, "all", fs, ms, st) :
                    E \in {{<<r, a>>}, {<<r, c>>}, {<<r, a>>, <<a, b>>, <<b, c>>}},
                    fs \in {<<F, G>>, <<G, F>>}, ms \in SUBSET MCFunction,
                    st \in {<<F>>, <<G, F>>}}

AllPrograms == Libraries \cup {q \in Applications : G \in q.mains => q.start = <<F>>}
=============================================================================
