------------------------ MODULE InstrumentedExecution ------------------------
(* The program that OverflowInstrumentation leaves, run by one thread of one
   process.  A run enters the functions of p.start one after the other:
   constructors, then the main program.  At the end of a block it goes to any
   block but the entry block, or returns: every control flow that the blocks
   may have is among these.  A call whose function is p.callee[v] enters it.

   Of the runtime (runtime/src/instrumentation_functions.c) only what the
   order of its calls decides is kept.                                      *)
EXTENDS OverflowInstrumentation

CONSTANT MaxDepth   \* bound: the depth of the call stack

VARIABLES
    frames,     \* the call stack, innermost first: function, block, position
    started,    \* the functions of p.start that were entered
    created,    \* does `values` point to a table?
    TABLE_LEN,  \* TABLE_LEN
    recorded,   \* the IDs stored since the table was created
    reported,   \* the IDs that were recorded when the table was last gathered
    mpi,        \* "up" or "finalized"
    last,       \* the last call of the runtime or of MPI_Finalize
    computed,   \* history: the instructions that were executed
    outcome     \* "running", "exited", "undefined" or "error": an error in MPI

rvars == <<frames, started, created, TABLE_LEN, recorded, reported, mpi, last, computed, outcome>>

RunInit ==
    /\ Init
    /\ frames = <<>> /\ started = 0
    /\ created = FALSE /\ TABLE_LEN = 0 /\ recorded = {} /\ reported = {}
    /\ mpi = "up" /\ last = [op |-> "none", arg |-> 0]
    /\ computed = {} /\ outcome = "running"

top == Head(frames)
Block == code[top.fn][top.blk]
Entry(f) == [fn |-> f, blk |-> 1, pos |-> 1]
Behind == <<[top EXCEPT !.pos = @ + 1]>> \o Tail(frames)

AtItem(kind) ==
    /\ phase = "running" /\ outcome = "running" /\ frames # <<>>
    /\ top.pos \in DOMAIN Block /\ Block[top.pos].kind = kind
AtEnd == phase = "running" /\ outcome = "running" /\ frames # <<>> /\ top.pos > Len(Block)
item == Block[top.pos]

-----------------------------------------------------------------------------
(* The process enters the next function of p.start, or exits. *)
EnterFunction ==
    /\ phase \in {"done", "running"} /\ outcome = "running" /\ frames = <<>>
    /\ started < Len(p.start)
    /\ phase' = "running"
    /\ frames' = <<Entry(p.start[started + 1])>>
    /\ started' = started + 1
    /\ UNCHANGED <<created, TABLE_LEN, recorded, reported, mpi, last, computed, outcome>>

ExitProcess ==
    /\ phase = "running" /\ outcome = "running" /\ frames = <<>> /\ started = Len(p.start)
    /\ outcome' = "exited"
    /\ UNCHANGED <<phase, frames, started, created, TABLE_LEN, recorded, reported, mpi, last, computed>>

(* An instruction of the program that calls no function of the module. *)
Execute ==
    /\ AtItem("inst") /\ item.val \notin DOMAIN p.callee \cup p.finalizes
    /\ computed' = computed \cup {item.val}
    /\ frames' = Behind
    /\ UNCHANGED <<phase, started, created, TABLE_LEN, recorded, reported, mpi, last, outcome>>

CallFunction ==
    /\ AtItem("inst") /\ item.val \in DOMAIN p.callee /\ Len(frames) < MaxDepth
    /\ frames' = <<Entry(p.callee[item.val])>> \o Behind
    /\ UNCHANGED <<phase, started, created, TABLE_LEN, recorded, reported, mpi, last, computed, outcome>>

FinalizeMPI ==
    /\ AtItem("inst") /\ item.val \in p.finalizes
    /\ IF mpi = "up"
       THEN mpi' = "finalized" /\ outcome' = outcome /\ frames' = Behind
       ELSE mpi' = mpi /\ outcome' = "error" /\ frames' = frames
    /\ last' = [op |-> "finalize", arg |-> 0]
    /\ UNCHANGED <<phase, started, created, TABLE_LEN, recorded, reported, computed>>

(* oft_init_vals(n): a new table of n entries. *)
oft_init_vals ==
    /\ AtItem("init")
    /\ created' = TRUE /\ TABLE_LEN' = item.id /\ recorded' = {}
    /\ last' = [op |-> "init", arg |-> item.id]
    /\ frames' = Behind
    /\ UNCHANGED <<phase, started, reported, mpi, computed, outcome>>

(* oft_store_max_val(id, v): values[id] is read and written, unchecked. *)
oft_store_max_val ==
    /\ AtItem("store")
    /\ IF created /\ item.id < TABLE_LEN
       THEN recorded' = recorded \cup {item.id} /\ outcome' = outcome /\ frames' = Behind
       ELSE recorded' = recorded /\ outcome' = "undefined" /\ frames' = frames
    /\ last' = [op |-> "store", arg |-> item.id]
    /\ UNCHANGED <<phase, started, created, TABLE_LEN, reported, mpi, computed>>

(* oft_print_max_vals(): without a table TABLE_LEN is 0 and nothing is
   gathered; behind MPI_Finalize its first call of MPI is an error.         *)
oft_print_max_vals ==
    /\ AtItem("print")
    /\ IF mpi = "up"
       THEN reported' = recorded /\ outcome' = outcome /\ frames' = Behind
       ELSE reported' = reported /\ outcome' = "error" /\ frames' = frames
    /\ last' = [op |-> "print", arg |-> 0]
    /\ UNCHANGED <<phase, started, created, TABLE_LEN, recorded, mpi, computed>>

Branch ==
    /\ AtEnd
    /\ \E b \in DOMAIN code[top.fn] \ {1} :
          frames' = <<[fn |-> top.fn, blk |-> b, pos |-> 1]>> \o Tail(frames)
    /\ UNCHANGED <<phase, started, created, TABLE_LEN, recorded, reported, mpi, last, computed, outcome>>

Return ==
    /\ AtEnd
    /\ frames' = Tail(frames)
    /\ UNCHANGED <<phase, started, created, TABLE_LEN, recorded, reported, mpi, last, computed, outcome>>

Pass == Step /\ UNCHANGED rvars

Run ==
    /\ \/ EnterFunction \/ ExitProcess
       \/ Execute \/ CallFunction \/ FinalizeMPI
       \/ oft_init_vals \/ oft_store_max_val \/ oft_print_max_vals
       \/ Branch \/ Return
    /\ UNCHANGED <<p, todo, pending, visited, overflowable, queue, instr_id, code>>

Stopped == (phase \in {"done", "broken"} \/ outcome # "running" \/ Len(frames) = MaxDepth)
           /\ UNCHANGED <<vars, rvars>>

RunNext == Pass \/ Run \/ Stopped

(* The pass is one thread that computes as long as it can. *)
RunSpec == RunInit /\ [][RunNext]_<<vars, rvars>> /\ WF_<<vars, rvars>>(Pass)
-----------------------------------------------------------------------------
(* The process begins in the function that creates the table. *)
StartsInMain == p.start # <<>> /\ FirstMain = {Head(p.start)}

IdsOf(V) == {x.it.id : x \in {y \in Of("store") : y.it.val \in V}}

(* The runtime is never made to store outside its table, except before the
   table exists: in a constructor, or in a main program that is not the first
   in the module.                                                           *)
UndefinedOnlyBeforeTable ==
    outcome = "undefined" => ~created /\ ~StartsInMain

(* Nothing that was computed is missing in the report: wherever MPI is about
   to be finalized, the table was gathered with an entry for each
   overflowable operation below a scale variable that was executed so far,
   along every path, and with no other.                                     *)
ReportComplete ==
    AtItem("inst") /\ item.val \in p.finalizes /\ mpi = "up"
        => reported = IdsOf(computed \cap ScaleOperations)

(* The instrumented program is a client the runtime can serve, when the
   process begins in the first main program and, as finaliseInstrumentation
   assumes, MPI is finalized only once.                                     *)
Client == INSTANCE RuntimeClient WITH
              point <- IF ~created THEN "start" ELSE IF mpi = "finalized" THEN "finalized"
                       ELSE IF last.op = "print" THEN "gathered" ELSE "running"
KeepsContract ==
    [][StartsInMain /\ outcome' # "error" => [Client!Next]_Client!vars]_<<vars, rvars>>
=============================================================================
