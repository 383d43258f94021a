----------------------- MODULE OverflowInstrumentation -----------------------
(* From the scale graph to the instrumented program: the detection of
   overflowable instructions (ScaleOverflowIntegerDetection) and the calls
   that OverflowInstrumentation inserts into the code.

   A program is a record p:
     nodes, edges, roots   the scale graph; roots is scale_graph::scale_vars
     opcode, width         of a value; opcode "none" for what is not a
                           BinaryOperator, width 0 for no integer type
     mode                  the option -oft-detect-operations
     funcs                 the functions of the module, in order
     mains                 those named main or MAIN_
     code                  the blocks of a function, the entry block first,
                           and the instructions of each, in order
     dbg                   the debug intrinsics among the instructions
     finalizes             the calls of MPI_Finalize, mpi_finalize_ and
                           mpi_finalize_f08_
     callee                the function of the module a call calls
     start                 the functions a process is started in, one after
                           the other; the pass knows nothing of it

   Sets ordered by pointers are walked in any order, so which instruction
   gets which ID is open.                                                  *)
EXTENDS Naturals, SequencesExt

CONSTANTS Value, Function,
          Programs,                \* the programs that may be instrumented
          OverflowBitsThreshold    \* 32 in the code

Opcode == {"mul", "add", "sub", "shl", "lshr", "ashr", "and", "none"}

Program == [nodes : SUBSET Value, edges : SUBSET (Value \X Value), roots : SUBSET Value,
            opcode : [Value -> Opcode], width : [Value -> Nat],
            mode : {"all", "mul-only"},
            funcs : Seq(Function), mains : SUBSET Function,
            code : [Function -> Seq(Seq(Value))],
            dbg : SUBSET Value, finalizes : SUBSET Value,
            callee : UNION {[C -> Function] : C \in SUBSET Value},
            start : Seq(Function)]

(* What holds of a module: an instruction stands in one place; a call is no
   BinaryOperator, and is of a debug intrinsic, of MPI or of a function of the
   module; a main program is a function with a body, whose first block has an
   instruction that is no debug intrinsic, at least the terminator; what is
   entered has a body.                                                      *)
WellFormed(q) ==
    /\ \A f, g \in Function : \A b \in DOMAIN q.code[f] : \A c \in DOMAIN q.code[g] :
          \A i \in DOMAIN q.code[f][b] : \A j \in DOMAIN q.code[g][c] :
             q.code[f][b][i] = q.code[g][c][j] => f = g /\ b = c /\ i = j
    /\ \A v \in q.dbg \cup q.finalizes \cup DOMAIN q.callee : q.opcode[v] = "none"
    /\ q.dbg \cap q.finalizes = {} /\ (q.dbg \cup q.finalizes) \cap DOMAIN q.callee = {}
    /\ q.mains \subseteq ToSet(q.funcs)
    /\ \A f \in q.mains : /\ q.code[f] # <<>>
                         /\ \E i \in DOMAIN q.code[f][1] : q.code[f][1][i] \notin q.dbg
    /\ \A f \in ToSet(q.start) : q.code[f] # <<>>
    /\ \A v \in DOMAIN q.callee : q.code[q.callee[v]] # <<>>

(* The second parameter of oft_store_max_val is an i32. *)
ParamWidth == 32

ASSUME ProgramsAssumption == Programs \subseteq Program /\ \A q \in Programs : WellFormed(q)
ASSUME ThresholdAssumption == OverflowBitsThreshold \in 0..ParamWidth
ASSUME ValueAssumption == IsFiniteSet(Value)

AllOps == {"mul", "add", "sub", "shl", "lshr", "ashr"}

VARIABLES
    p,             \* the program; never changes
    phase,
    todo,          \* the roots the loop of perform has left
    pending,       \* the nodes findInstructions has still to be called on
    visited,       \* its visited set
    overflowable,  \* the overflowable nodes found so far
    queue,         \* those that are not instrumented yet
    instr_id,      \* the next ID
    code           \* the code of the module: functions, blocks, items

vars == <<p, phase, todo, pending, visited, overflowable, queue, instr_id, code>>

(* What a function's code consists of. *)
Inst(v)      == [kind |-> "inst",  val |-> v, id |-> 0]
StoreOf(v,i) == [kind |-> "store", val |-> v, id |-> i]   \* oft_store_max_val(i, v)
InitCall(n)  == [kind |-> "init",  val |-> "none", id |-> n]   \* oft_init_vals(n)
PrintCall    == [kind |-> "print", val |-> "none", id |-> 0]   \* oft_print_max_vals()

OverflowOps == IF p.mode = "all" THEN AllOps ELSE {"mul"}

(* Mutant of canIntegerOverflow: < in place of <=. *)
canIntegerOverflow_Narrower(v) ==
    p.opcode[v] \in OverflowOps /\ p.width[v] \in 1..(OverflowBitsThreshold - 1)

canIntegerOverflow(v) ==
    p.opcode[v] \in OverflowOps /\ p.width[v] \in 1..OverflowBitsThreshold

(* The code before anything is inserted. *)
Original == [f \in Function |-> [b \in DOMAIN p.code[f] |->
                                   [i \in DOMAIN p.code[f][b] |-> Inst(p.code[f][b][i])]]]

Init ==
    /\ p \in Programs
    /\ phase = "roots"
    /\ todo = p.roots /\ pending = {} /\ visited = {}
    /\ overflowable = {} /\ queue = {} /\ instr_id = 0
    /\ code = Original

-----------------------------------------------------------------------------
(* ScaleOverflowIntegerDetection::perform *)

TakeRoot(v) ==
    /\ phase = "roots" /\ pending = {} /\ v \in todo
    /\ todo' = todo \ {v}
    /\ visited' = {}
    /\ pending' = {v}
    /\ UNCHANGED <<p, phase, overflowable, queue, instr_id, code>>

(* findInstructions returns at once from a node it has visited. *)
Skip(v) ==
    /\ phase = "roots" /\ v \in pending /\ v \in visited
    /\ pending' = pending \ {v}
    /\ UNCHANGED <<p, phase, todo, visited, overflowable, queue, instr_id, code>>

(* Mutant of findInstructions: the node is not entered into visited. *)
findInstructions_NotVisited(v) ==
    /\ phase = "roots" /\ v \in pending /\ v \notin visited
    /\ overflowable' = IF canIntegerOverflow(v) THEN overflowable \cup {v} ELSE overflowable
    /\ pending' = (pending \ {v}) \cup {e[2] : e \in {d \in p.edges : d[1] = v}}
    /\ UNCHANGED <<p, phase, todo, visited, queue, instr_id, code>>

findInstructions(v) ==
    /\ phase = "roots" /\ v \in pending /\ v \notin visited
    /\ visited' = visited \cup {v}
    /\ overflowable' = IF canIntegerOverflow(v) THEN overflowable \cup {v} ELSE overflowable
    /\ pending' = (pending \ {v}) \cup {e[2] : e \in {d \in p.edges : d[1] = v}}
    /\ UNCHANGED <<p, phase, todo, queue, instr_id, code>>

(* Mutant of EndDetection: the whole graph is handed to the instrumentation. *)
EndDetection_WholeGraph ==
    /\ phase = "roots" /\ pending = {} /\ todo = {}
    /\ queue' = p.nodes
    /\ phase' = "store"
    /\ UNCHANGED <<p, todo, pending, visited, overflowable, instr_id, code>>

EndDetection ==
    /\ phase = "roots" /\ pending = {} /\ todo = {}
    /\ queue' = overflowable
    /\ phase' = "store"
    /\ UNCHANGED <<p, todo, pending, visited, overflowable, instr_id, code>>

-----------------------------------------------------------------------------
(* OverflowInstrumentation::instrument *)

(* Every item of the code and where it is. *)
Items == UNION {UNION {{[fn |-> f, blk |-> b, pos |-> i, it |-> code[f][b][i]]
                            : i \in DOMAIN code[f][b]} : b \in DOMAIN code[f]} : f \in Function}

(* Mutant of instrumentInstruction: the call goes to the end of the block. *)
instrumentInstruction_AtEnd(v) ==
    /\ phase = "store" /\ v \in queue /\ p.width[v] = ParamWidth
    /\ \E x \in Items :
          /\ x.it = Inst(v)
          /\ code' = [code EXCEPT ![x.fn][x.blk] = Append(@, StoreOf(v, instr_id))]
    /\ instr_id' = instr_id + 1
    /\ queue' = queue \ {v}
    /\ UNCHANGED <<p, phase, todo, pending, visited, overflowable>>

(* A call of oft_store_max_val goes right behind the instruction. *)
instrumentInstruction(v) ==
    /\ phase = "store" /\ v \in queue /\ p.width[v] = ParamWidth
    /\ \E x \in Items :
          /\ x.it = Inst(v)
          /\ code' = [code EXCEPT ![x.fn][x.blk] = InsertAt(@, x.pos + 1, StoreOf(v, instr_id))]
    /\ instr_id' = instr_id + 1
    /\ queue' = queue \ {v}
    /\ UNCHANGED <<p, phase, todo, pending, visited, overflowable>>

(* A narrower result is no argument for that parameter: CallInst::Create
   asserts so, and without assertions the verifier refuses the module; no
   instrumented program comes out.                                          *)
instrumentInstructionFails(v) ==
    /\ phase = "store" /\ v \in queue /\ p.width[v] # ParamWidth
    /\ phase' = "broken"
    /\ UNCHANGED <<p, todo, pending, visited, overflowable, queue, instr_id, code>>

(* The position getFirstNonPHIOrDbg finds in a block. *)
FirstNonDbg(s) ==
    CHOOSE i \in DOMAIN s : /\ s[i].val \notin p.dbg
                            /\ \A j \in 1..(i - 1) : s[j].val \in p.dbg

(* The first function of the module that is a main program. *)
FirstMain == {p.funcs[i] : i \in {k \in DOMAIN p.funcs : /\ p.funcs[k] \in p.mains
                                                         /\ \A j \in 1..(k - 1) : p.funcs[j] \notin p.mains}}

(* Its entry block with the call of oft_init_vals before item i. *)
WithInit(s, i, n) == ReplaceAt(s, 1, InsertAt(s[1], i, InitCall(n)))

(* Mutant of initInstrumentation: the table ends at the last ID. *)
initInstrumentation_LastId ==
    /\ phase = "store" /\ queue = {}
    /\ code' = [f \in Function |-> IF f \in FirstMain
                                   THEN WithInit(code[f], FirstNonDbg(code[f][1]), instr_id - 1)
                                   ELSE code[f]]
    /\ phase' = "final"
    /\ UNCHANGED <<p, todo, pending, visited, overflowable, queue, instr_id>>

(* Mutant of initInstrumentation: at the end of the entry block. *)
initInstrumentation_Behind ==
    /\ phase = "store" /\ queue = {}
    /\ code' = [f \in Function |-> IF f \in FirstMain
                                   THEN WithInit(code[f], Len(code[f][1]) + 1, instr_id)
                                   ELSE code[f]]
    /\ phase' = "final"
    /\ UNCHANGED <<p, todo, pending, visited, overflowable, queue, instr_id>>

initInstrumentation ==
    /\ phase = "store" /\ queue = {}
    /\ code' = [f \in Function |-> IF f \in FirstMain
                                   THEN WithInit(code[f], FirstNonDbg(code[f][1]), instr_id)
                                   ELSE code[f]]
    /\ phase' = "final"
    /\ UNCHANGED <<p, todo, pending, visited, overflowable, queue, instr_id>>

(* Mutant of mpi_finalize_calls: only the main program is searched. *)
mpi_finalize_calls_InMain ==
    {x \in Items : /\ x.it.kind = "inst" /\ x.it.val \in p.finalizes /\ x.fn \in FirstMain
                   /\ x.pos = 1 \/ code[x.fn][x.blk][x.pos - 1] # PrintCall}

(* The calls that finalize MPI, as far as nothing is printed before them yet. *)
mpi_finalize_calls ==
    {x \in Items : /\ x.it.kind = "inst" /\ x.it.val \in p.finalizes
                   /\ x.pos = 1 \/ code[x.fn][x.blk][x.pos - 1] # PrintCall}

(* A call of oft_print_max_vals goes right before each of them. *)
finaliseInstrumentation ==
    /\ phase = "final"
    /\ \E x \in mpi_finalize_calls :
          code' = [code EXCEPT ![x.fn][x.blk] = InsertAt(@, x.pos, PrintCall)]
    /\ UNCHANGED <<p, phase, todo, pending, visited, overflowable, queue, instr_id>>

EndInstrumentation ==
    /\ phase = "final" /\ mpi_finalize_calls = {}
    /\ phase' = "done"
    /\ UNCHANGED <<p, todo, pending, visited, overflowable, queue, instr_id, code>>

Terminated == phase \in {"done", "broken"} /\ UNCHANGED vars

Step ==
    \/ \E v \in Value : TakeRoot(v)
    \/ \E v \in Value : Skip(v)
    \/ \E v \in Value : findInstructions(v)
    \/ EndDetection
    \/ \E v \in Value : instrumentInstruction(v)
    \/ \E v \in Value : instrumentInstructionFails(v)
    \/ initInstrumentation
    \/ finaliseInstrumentation
    \/ EndInstrumentation

Next == Step \/ Terminated

Spec == Init /\ [][Next]_vars
FairSpec == Spec /\ WF_vars(Step)
-----------------------------------------------------------------------------
ItemKind == {"inst", "store", "init", "print"}
Of(kind) == {x \in Items : x.it.kind = kind}

(* The least set that contains the roots and follows the edges. *)
ReachedFromRoots ==
    LET Closed == {S \in SUBSET Value : p.roots \subseteq S /\ \A e \in p.edges : e[1] \in S => e[2] \in S}
    IN  {v \in Value : \A S \in Closed : v \in S}

(* The operations that a scale variable reaches and that may overflow. *)
ScaleOperations == {v \in ReachedFromRoots : p.opcode[v] \in OverflowOps /\ p.width[v] \in 1..OverflowBitsThreshold}

(* Types: the blocks, globals and calls of a module while the pass rewrites it. *)
TypeOK ==
    /\ p \in Program
    /\ phase \in {"roots", "store", "final", "done", "broken", "running"}
    /\ todo \subseteq Value /\ pending \subseteq Value /\ visited \subseteq Value
    /\ overflowable \subseteq Value /\ queue \subseteq overflowable
    /\ instr_id \in 0..Cardinality(Value)
    /\ DOMAIN code = Function
    /\ \A x \in Items : x.it.kind \in ItemKind /\ x.it.id \in Nat

(* All and only: an instruction gets a store exactly when it is
   an overflowable operation that hangs below a scale variable, it gets one,
   and the call stands right behind it, so that it sees the value computed.
   Nothing is instrumented at all only where one of them is narrower than
   the parameter of oft_store_max_val.                                      *)
StoresExact ==
    /\ phase = "done" =>
          /\ {x.it.val : x \in Of("store")} = ScaleOperations
          /\ \A x, y \in Of("store") : x.it.val = y.it.val => x = y
          /\ \A x \in Of("store") : x.pos > 1 /\ code[x.fn][x.blk][x.pos - 1] = Inst(x.it.val)
    /\ phase = "broken" => \E v \in ScaleOperations : p.width[v] < ParamWidth

(* The contract with the runtime, which indexes values[id] unchecked: the
   IDs in the code are exactly 0 .. n-1, each in one place, and the table is
   created with n entries, in one place.                                    *)
IdsFitTable ==
    phase = "done" =>
        /\ {x.it.id : x \in Of("store")} = 0..(instr_id - 1)
        /\ Cardinality(Of("store")) = instr_id
        /\ \A x \in Of("init") : x.it.id = instr_id
        /\ Cardinality(Of("init")) = IF p.mains = {} THEN 0 ELSE 1

(* The pass comes to an end. *)
Termination == <>(phase \in {"done", "broken"})
=============================================================================
