---------------------------- MODULE RuntimeClient ----------------------------
(* What the runtime may expect of the main thread of an instrumented process:
   the table is created once, before anything is stored; a stored ID is in
   the table; the table is gathered when MPI is about to be finalized, and
   the next thing that happens is the finalization.  These are the calls
   that OftRuntime lets an application make.                                *)
EXTENDS Naturals

VARIABLES point,      \* "start", "running", "gathered" or "finalized"
          TABLE_LEN,  \* the length of the table
          last        \* the last call: its name and the ID or length it was given

vars == <<point, TABLE_LEN, last>>

Init == point = "start" /\ TABLE_LEN = 0 /\ last = [op |-> "none", arg |-> 0]

Call(op, n) == last' = [op |-> op, arg |-> n]

oft_init_vals ==
    /\ point = "start" /\ point' = "running"
    /\ Call("init", TABLE_LEN')

oft_store_max_val ==
    /\ point \in {"running", "finalized"}
    /\ \E id \in 0..(TABLE_LEN - 1) : Call("store", id)
    /\ UNCHANGED <<point, TABLE_LEN>>

oft_print_max_vals ==
    /\ point = "running" /\ point' = "gathered"
    /\ Call("print", 0)
    /\ UNCHANGED TABLE_LEN

MPI_Finalize ==
    /\ point = "gathered" /\ point' = "finalized"
    /\ Call("finalize", 0)
    /\ UNCHANGED TABLE_LEN

Next == oft_init_vals \/ oft_store_max_val \/ oft_print_max_vals \/ MPI_Finalize

Spec == Init /\ [][Next]_vars
=============================================================================
