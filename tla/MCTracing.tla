------------------------------ MODULE MCTracing ------------------------------
(* Programs for TLC to trace.  AllModules is every way of wiring a small
   program: two scale variables, a variable a and an instruction x of the
   caller, a store y that may be read back by x, a call c of a function with
   formals f and g, whose body may use f in the same instructions and pass it
   on in a recursive call, for every kind of callee.                        *)
EXTENDS ScaleVariableTracing, SequencesExt

CONSTANTS s, t, a, x, y, c, f, g

MCValue == {s, t, a, x, y, c, f, g}

None == [v \in MCValue |-> {}]
NoSeq == [v \in MCValue |-> <<>>]

(* Who passes itself to the call is who uses it, in a fixed order. *)
Passed(u) == SelectSeq(<<a, x, f>>, LAMBDA v : c \in u[v])

Wiring == {[None EXCEPT ![a] = ua, ![x] = ux, ![f] = uf] :
              ua \in SUBSET {x, c}, ux \in SUBSET {y, c}, uf \in SUBSET {y, c}}

AllModules ==
    {[scale    |-> sc,
      refs     |-> [None EXCEPT ![s] = {a}, ![t] = {y, t}],
      users    |-> u,
      memUses  |-> [None EXCEPT ![y] = mem],
      calls    |-> {c},
      callee   |-> [v \in MCValue |-> k],
      operands |-> [NoSeq EXCEPT ![c] = Passed(u)],
      formals  |-> [NoSeq EXCEPT ![c] = <<f, g>>]]
     : sc \in {{}, {s}, {s, t}}, u \in Wiring, mem \in SUBSET {x}, k \in CalleeKind}

(* int inner(int g) { return y(g); }   int outer(int f) { return inner(f); }
   the caller passes the scale-dependent a to outer.                        *)
NestedModule ==
    [scale    |-> {s},
     refs     |-> [None EXCEPT ![s] = {a}],
     users    |-> [None EXCEPT ![a] = {c}, ![f] = {x}, ![g] = {y}],
     memUses  |-> None,
     calls    |-> {c, x},
     callee   |-> [v \in MCValue |-> "defined"],
     operands |-> [NoSeq EXCEPT ![c] = <<a>>, ![x] = <<f>>],
     formals  |-> [NoSeq EXCEPT ![c] = <<f>>, ![x] = <<g>>]]

NestedModules == {NestedModule}
=============================================================================
