----------------------------- MODULE MCBackward -----------------------------
(* Programs for TLC: an object r whose address goes through a variable q (the
   store s and the load l) and the value x to a call c of a function with the
   formal f, which uses it in g; h is another use, i and j are indices, k a
   constant, and d is a second call of the function, with r.                *)
EXTENDS BackwardTracing

CONSTANTS r, q, s, l, x, c, d, f, g, h, i, j, k

MCValue == {r, q, s, l, x, c, d, f, g, h, i, j, k}

None == [v \in MCValue |-> {}]
NoSeq == [v \in MCValue |-> <<>>]

(* A program from the operands of its values. *)
Build(start, op, kind, access, callees) ==
    [m |-> [scale    |-> {},
            refs     |-> None,
            users    |-> [v \in MCValue |-> {u \in MCValue : v \in ToSet(op[u])}],
            memUses  |-> [None EXCEPT ![s] = {l}],
            calls    |-> {c, d} \cup {v \in {r} : kind[v] = "malloc"},
            callee   |-> [v \in MCValue |-> IF v \in {c, d} THEN callees[v] ELSE "declaration"],
            operands |-> op,
            formals  |-> [NoSeq EXCEPT ![c] = <<f>>,
                                     ![d] = IF callees[d] = "unknown" THEN <<>> ELSE <<f>>]],
     start  |-> start,
     kind   |-> kind,
     access |-> [v \in MCValue |-> IF v = l THEN access ELSE "may"],
     def    |-> [v \in MCValue |-> s],
     opcode |-> [v \in MCValue |-> "add"]]

(* sv is stored at qq, c passes cs and d passes dv. *)
OperandsOf(sv, qq, dv, xs, cs, gs, hs, js) ==
    [v \in MCValue |->
        CASE v = s -> <<sv, qq>>  [] v = l -> <<qq>>  [] v = x -> xs  [] v = c -> cs
          [] v = d -> <<dv>>  [] v = g -> gs  [] v = h -> hs  [] v = j -> js  [] OTHER -> <<>>]
Operands(sv, xs, cs, gs, hs, js) == OperandsOf(sv, q, r, xs, cs, gs, hs, js)

Kinds(rk, xk, gk, hk) ==
    [v \in MCValue |->
        CASE v = r -> rk  [] v = x -> xk  [] v = g -> gk  [] v = h -> hk  [] v = q -> "alloca"
          [] v = s -> "store"  [] v = l -> "load"  [] v \in {c, d} -> "call"  [] v = f -> "argument"
          [] v = j -> "binop"  [] v = k -> "constant"  [] OTHER -> "other"]

(* An address computation: its kind and its operands. *)
Bitcast(v) == <<"bitcast", <<v>>>>
Gep(v, n) == <<"gep", <<v, n>>>>

(* c and d call the same function, d maybe something unknown. *)
Callees(kc, kd) == [v \in {c, d} |-> IF v = c THEN kc ELSE kd]

Uses == {Gep(r, k), Gep(x, j), Gep(x, k), Gep(f, k)}
Ways == {Bitcast(r), Bitcast(l), Gep(l, k), Gep(l, i)}

(* Every way of the object to the call and of the formal to g.  A store of x
   itself is what a load in a loop may read.                                *)
WaysPrograms ==
    {Build(start, Operands(sv, xx[2], <<x>>, gg[2], hh[2], <<i, k>>),
           Kinds(rk, xx[1], gg[1], hh[1]), IF sv = x THEN "may" ELSE access, Callees(kc, kc))
     : start \in {f, g}, sv \in {r, x}, rk \in {"alloca", "malloc", "other"}, xx \in Ways,
       gg \in {Bitcast(f), Gep(f, k), Gep(f, j)}, hh \in Uses, access \in {"must", "may"},
       kc \in {"defined", "variadic"}}

(* Loads without a store, calls of too few and too many arguments, and calls
   through a pointer.                                                       *)
Odd ==
    {<<start, Operands(r, xx[2], cs, gg[2], <<r, k>>, <<i, k>>), Kinds("alloca", xx[1], gg[1], "gep"),
       access, Callees("defined", kd)>>
     : start \in {d, g}, xx \in Ways, cs \in {<<>>, <<x>>, <<x, x>>}, gg \in {Bitcast(f), Gep(f, k), Gep(f, l)},
       access \in {"must", "none"}, kd \in {"defined", "unknown"}}

(* Nested GEPs: x is an element of the object, and g an element of what the
   load or the formal has of x.                                             *)
Nested ==
    {<<g, OperandsOf(x, qq, dv, xx[2], <<x>>, gg[2], hh[2], <<i, k>>),
       Kinds("malloc", xx[1], gg[1], hh[1]), "must", Callees("defined", "defined")>>
     : qq \in {q, r}, dv \in {r, k}, xx \in {Gep(r, k), Gep(r, j)},
       gg \in {Gep(f, k), Gep(f, j), Gep(l, k), Gep(l, j)}, hh \in Uses}

MorePrograms == {Build(p[1], p[2], p[3], p[4], p[5]) : p \in Odd \cup Nested}

AllPrograms == WaysPrograms \cup MorePrograms

(* void callee(int *f, long i) { ... }  marks f[i], and h is x[i + 1]. *)
ShiftedPrograms ==
    {Build(g, Operands(r, <<r>>, <<x>>, <<f, i>>, <<x, j>>, <<i, k>>),
           Kinds("alloca", "bitcast", "gep", "gep"), "must", Callees("defined", "defined"))}
=============================================================================
