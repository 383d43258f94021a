----------------------------- MODULE MCSelection -----------------------------
(* Annotation files and modules for TLC.  AllPrograms: two files, the first
   of up to two lines, and one or two calls: of an annotated function with
   one argument or none, of an MPI function, of oft_mark_, through a pointer.
   Unsigned numbers wrap at 4.                                              *)
EXTENDS ScaleVariableSelection

CONSTANTS c1, c2, fn, gn, a, b,        \* values
          scanf, mark, rank, init, main  \* names

Values == {c1, c2, fn, gn, a, b}
Names == {scanf, mark, rank, init, main}

Lines(kind, fs, rets, args) ==
    [kind : {kind}, fn : fs, ret : rets, n : args]
Other == UNION {Lines(k, {scanf}, {FALSE}, {<<>>}) : k \in {"blank", "bad", "number"}}
EntryLines == Lines("entry", {scanf}, BOOLEAN, {<<>>, <<0>>, <<1>>, <<4>>})

Texts(n) == UNION {[1..k -> Other \cup EntryLines] : k \in 0..n}
FirstFiles == [opens : {TRUE}, lines : Texts(2), newline : BOOLEAN]
SecondFiles == [opens : BOOLEAN, lines : [1..1 -> EntryLines], newline : {TRUE}]

FirstCalls ==
    [inst : {c1}, caller : {main}, callee : {fn}, name : {scanf}, direct : BOOLEAN, args : {<<a>>, <<>>}]
SecondCalls ==
    [inst : {c2}, caller : {main, init}, callee : {gn}, name : {rank}, direct : {TRUE}, args : {<<a, b>>, <<>>}]
    \cup [inst : {c2}, caller : {main}, callee : {gn}, name : {mark}, direct : {TRUE}, args : {<<b>>, <<b, a>>}]

AllPrograms ==
    [files : {<<>>} \cup {<<f>> : f \in FirstFiles}, calls : {<<c>> : c \in FirstCalls}]
    \cup [files : {<<f, g>> : f \in {h \in FirstFiles : Len(h.lines) < 2}, g \in SecondFiles},
          calls : {<<c, d>> : c \in FirstCalls, d \in SecondCalls}]

(* share/config/linux_libc_io.cfg: "__isoc99_scanf false 1", and a call
   scanf("text") of one argument.                                           *)
ShippedProgram ==
    [files |-> <<[opens |-> TRUE, newline |-> TRUE,
                  lines |-> <<[kind |-> "entry", fn |-> scanf, ret |-> FALSE, n |-> <<1>>]>>]>>,
     calls |-> <<[inst |-> c1, caller |-> main, callee |-> fn, name |-> scanf,
                  direct |-> TRUE, args |-> <<a>>]>>]
ShippedPrograms == {ShippedProgram}
RankSet == {rank}
InitSet == {init}
=============================================================================
