------------------------------ MODULE OftRuntime ------------------------------
(* runtime/src/instrumentation_functions.c on the ranks of an MPI job: the
   table of maxima of every rank, oft_store_max_val from several threads,
   the gathering of the tables in oft_print_max_vals and the exit handler.

   Every rank is a process with globals of its own.  The application is
   anything that keeps to the places where the instrumentation puts calls:
   oft_init_vals first, oft_store_max_val anywhere after that, by any
   thread, and oft_print_max_vals once, by the main thread, right before
   MPI_Finalize; a rank may exit without it, or be killed.  stores bounds
   the calls of oft_store_max_val of a rank.                                *)
EXTENDS Integers, Sequences

CONSTANTS
    N,           \* world_size
    TableLen,    \* TABLE_LEN: the number of instrumented instructions
    Val,         \* the values instrumented instructions may compute
    Thread,      \* the threads of a rank
    Main,        \* the one that runs main
    MaxInt,      \* the largest int: 2^31 - 1 on every platform OFT runs on
    MaxStores    \* bound: calls of oft_store_max_val by a rank

ASSUME SizeAssumption == N \in Nat \ {0} /\ TableLen \in Nat /\ MaxInt \in Nat
ASSUME ValAssumption == Val \subseteq Int
ASSUME MainAssumption == Main \in Thread
ASSUME MaxStoresAssumption == MaxStores \in Nat

Rank == 0..(N - 1)
Id == 0..(TableLen - 1)
Untouched == -1
Fresh == [j \in Id |-> Untouched]

(* "start": before oft_init_vals; "running": the application;
   "alloc", "gather", "sent", "write", "mark": inside oft_print_max_vals;
   "finalized": it has returned; "exited", "killed": the process is gone;
   "undefined": the process has run into undefined behaviour.              *)
Stage == {"start", "running", "alloc", "gather", "sent", "write", "mark",
          "finalized", "exited", "killed", "undefined"}
Alive == Stage \ {"start", "exited", "killed", "undefined"}

VARIABLES
    stage,        \* where the main thread of a rank is
    values,       \* values
    finalized,    \* mpi_finalize_has_been_called
    mpi_rank,     \* mpi_rank
    active,       \* instr_active_after_finalize
    pc, arg,      \* for each thread: the step of oft_store_max_val, its arguments
    sent,         \* the rows MPI_Gather has taken from the ranks
    gathered,     \* the ranks it has taken them from
    wi, wj,       \* i and j of the loops that write oft_output.txt
    output,       \* the lines of oft_output.txt
    debug,        \* does oft_debug.txt exist?
    stores,       \* calls of oft_store_max_val made so far
    seen,         \* history: values recorded before the rank's row was taken
    late          \* history: ranks that stored after their finalization

globals == <<values, finalized, mpi_rank, active>>
files == <<wi, wj, output, debug>>
vars == <<stage, globals, pc, arg, sent, gathered, files, stores, seen, late>>

(* Between two calls of oft_store_max_val a thread has no arguments. *)
NoArg == [id |-> 0, v |-> Untouched]

Line == [rank : Rank, id : Id, max : Val \cup {Untouched}]

Init ==
    /\ stage = [r \in Rank |-> "start"]
    /\ values = [r \in Rank |-> Fresh]
    /\ finalized = [r \in Rank |-> FALSE]
    /\ mpi_rank = [r \in Rank |-> 0]
    /\ active = [r \in Rank |-> FALSE]
    /\ pc = [r \in Rank |-> [t \in Thread |-> "idle"]]
    /\ arg = [r \in Rank |-> [t \in Thread |-> NoArg]]
    /\ sent = [r \in Rank |-> Fresh] /\ gathered = {}
    /\ wi = 0 /\ wj = 0 /\ output = <<>> /\ debug = FALSE
    /\ stores = [r \in Rank |-> 0]
    /\ seen = [r \in Rank |-> [j \in Id |-> {}]]
    /\ late = {}

-----------------------------------------------------------------------------
(* Mutant of InitVals: the table starts with zeros. *)
InitVals_Zeros(r) ==
    /\ stage[r] = "start"
    /\ values' = [values EXCEPT ![r] = [j \in Id |-> 0]]
    /\ finalized' = [finalized EXCEPT ![r] = FALSE]
    /\ mpi_rank' = [mpi_rank EXCEPT ![r] = -1]
    /\ active' = [active EXCEPT ![r] = FALSE]
    /\ stage' = [stage EXCEPT ![r] = "running"]
    /\ UNCHANGED <<pc, arg, sent, gathered, files, stores, seen, late>>

(* oft_init_vals: a table of -1, the exit handler, the flags. *)
InitVals(r) ==
    /\ stage[r] = "start"
    /\ values' = [values EXCEPT ![r] = Fresh]
    /\ finalized' = [finalized EXCEPT ![r] = FALSE]
    /\ mpi_rank' = [mpi_rank EXCEPT ![r] = -1]
    /\ active' = [active EXCEPT ![r] = FALSE]
    /\ stage' = [stage EXCEPT ![r] = "running"]
    /\ UNCHANGED <<pc, arg, sent, gathered, files, stores, seen, late>>

(* atexit fails and the process exits with status 1, without the handler. *)
InitFails(r) ==
    /\ stage[r] = "start"
    /\ values' = [values EXCEPT ![r] = Fresh]
    /\ stage' = [stage EXCEPT ![r] = "exited"]
    /\ UNCHANGED <<finalized, mpi_rank, active, pc, arg, sent, gathered, files,
                   stores, seen, late>>

(* A thread computes an instrumented instruction j with result v and calls
   oft_store_max_val(j, v).  The main thread does so outside
   oft_print_max_vals, other threads whenever the process exists.          *)
CallStore(r, t, j, v) ==
    /\ stage[r] \in IF t = Main THEN {"running", "finalized"} ELSE Alive
    /\ pc[r][t] = "idle" /\ stores[r] < MaxStores
    /\ pc' = [pc EXCEPT ![r][t] = "compare"]
    /\ arg' = [arg EXCEPT ![r][t] = [id |-> j, v |-> v]]
    /\ stores' = [stores EXCEPT ![r] = @ + 1]
    /\ UNCHANGED <<stage, globals, sent, gathered, files, seen, late>>

(* A value counts for the report when it is in before the row is taken. *)
Counted(r, a) ==
    IF r \in gathered THEN seen ELSE [seen EXCEPT ![r][a.id] = @ \cup {a.v}]

(* Mutant of Compare: every value is written. *)
Compare_Always(r, t) ==
    /\ stage[r] \in Alive /\ pc[r][t] = "compare"
    /\ pc' = [pc EXCEPT ![r][t] = "write"]
    /\ UNCHANGED <<stage, globals, arg, sent, gathered, files, stores, seen, late>>

(* if (v > values[id]): nothing synchronises the threads between this ... *)
Compare(r, t) ==
    LET a == arg[r][t] IN
    /\ stage[r] \in Alive /\ pc[r][t] = "compare"
    /\ IF a.v > values[r][a.id]
       THEN pc' = [pc EXCEPT ![r][t] = "write"] /\ seen' = seen
       ELSE pc' = [pc EXCEPT ![r][t] = "flag"] /\ seen' = Counted(r, a)
    /\ UNCHANGED <<stage, globals, arg, sent, gathered, files, stores, late>>

(* ... and values[id] = v. *)
Write(r, t) ==
    LET a == arg[r][t] IN
    /\ stage[r] \in Alive /\ pc[r][t] = "write"
    /\ values' = [values EXCEPT ![r][a.id] = a.v]
    /\ seen' = Counted(r, a)
    /\ pc' = [pc EXCEPT ![r][t] = "flag"]
    /\ UNCHANGED <<stage, finalized, mpi_rank, active, arg, sent, gathered, files,
                   stores, late>>

(* if (mpi_finalize_has_been_called == 1) instr_active_after_finalize = 1; *)
Flag(r, t) ==
    /\ stage[r] \in Alive /\ pc[r][t] = "flag"
    /\ active' = [active EXCEPT ![r] = @ \/ finalized[r]]
    /\ late' = IF finalized[r] THEN late \cup {r} ELSE late
    /\ pc' = [pc EXCEPT ![r][t] = "idle"]
    /\ arg' = [arg EXCEPT ![r][t] = NoArg]
    /\ UNCHANGED <<stage, values, finalized, mpi_rank, sent, gathered, files,
                   stores, seen>>

-----------------------------------------------------------------------------
(* oft_print_max_vals, by the main thread. *)

(* Mutant of EnterPrint: the size of the world for the rank. *)
EnterPrint_Size(r) ==
    /\ stage[r] = "running" /\ pc[r][Main] = "idle"
    /\ mpi_rank' = [mpi_rank EXCEPT ![r] = N]
    /\ stage' = [stage EXCEPT ![r] = "alloc"]
    /\ UNCHANGED <<values, finalized, active, pc, arg, sent, gathered, files, stores,
                   seen, late>>

EnterPrint(r) ==
    /\ stage[r] = "running" /\ pc[r][Main] = "idle"
    /\ mpi_rank' = [mpi_rank EXCEPT ![r] = r]
    /\ stage' = [stage EXCEPT ![r] = "alloc"]
    /\ UNCHANGED <<values, finalized, active, pc, arg, sent, gathered, files, stores,
                   seen, late>>

(* malloc(world_size * TABLE_LEN * sizeof(int)): the first product is of two
   ints.                                                                    *)
Alloc(r) ==
    /\ stage[r] = "alloc"
    /\ stage' = [stage EXCEPT ![r] = IF N * TableLen <= MaxInt THEN "gather" ELSE "undefined"]
    /\ UNCHANGED <<globals, pc, arg, sent, gathered, files, stores, seen, late>>

(* Mutant of Gather: all ranks contribute the table of the root. *)
Gather_RootTable(r) ==
    /\ stage[r] = "gather"
    /\ sent' = [sent EXCEPT ![r] = values[0]]
    /\ gathered' = gathered \cup {r}
    /\ stage' = [stage EXCEPT ![r] = IF r = 0 THEN "sent" ELSE "mark"]
    /\ UNCHANGED <<globals, pc, arg, files, stores, seen, late>>

(* Mutant of Gather: the root contributes nothing. *)
Gather_NotRoot(r) ==
    /\ stage[r] = "gather"
    /\ sent' = [sent EXCEPT ![r] = values[r]]
    /\ gathered' = gathered \cup ({r} \ {0})
    /\ stage' = [stage EXCEPT ![r] = IF r = 0 THEN "sent" ELSE "mark"]
    /\ UNCHANGED <<globals, pc, arg, files, stores, seen, late>>

(* MPI_Gather takes the row of a rank; the root then waits for all rows, any
   other rank goes on.                                                      *)
Gather(r) ==
    /\ stage[r] = "gather"
    /\ sent' = [sent EXCEPT ![r] = values[r]]
    /\ gathered' = gathered \cup {r}
    /\ stage' = [stage EXCEPT ![r] = IF r = 0 THEN "sent" ELSE "mark"]
    /\ UNCHANGED <<globals, pc, arg, files, stores, seen, late>>

(* Mutant of OpenOutput: the root does not wait for the rows. *)
OpenOutput_NoWait ==
    /\ stage[0] = "sent"
    /\ output' = <<>> /\ wi' = 0 /\ wj' = 0
    /\ stage' = [stage EXCEPT ![0] = "write"]
    /\ UNCHANGED <<globals, pc, arg, sent, gathered, debug, stores, seen, late>>

(* MPI_Gather returns at the root, which creates oft_output.txt. *)
OpenOutput ==
    /\ stage[0] = "sent" /\ gathered = Rank
    /\ output' = <<>> /\ wi' = 0 /\ wj' = 0
    /\ stage' = [stage EXCEPT ![0] = "write"]
    /\ UNCHANGED <<globals, pc, arg, sent, gathered, debug, stores, seen, late>>

(* The body of the inner loop: a line for instruction j of rank i. *)
WriteLine ==
    /\ stage[0] = "write" /\ wi < N /\ wj < TableLen
    /\ output' = Append(output, [rank |-> wi, id |-> wj, max |-> sent[wi][wj]])
    /\ wj' = wj + 1
    /\ UNCHANGED <<stage, globals, pc, arg, sent, gathered, wi, debug, stores, seen, late>>

(* Mutant of NextRank: the inner loop starts at 1. *)
NextRank_FromOne ==
    /\ stage[0] = "write" /\ wi < N /\ wj = TableLen
    /\ wi' = wi + 1 /\ wj' = 1
    /\ UNCHANGED <<stage, globals, pc, arg, sent, gathered, output, debug, stores, seen, late>>

NextRank ==
    /\ stage[0] = "write" /\ wi < N /\ wj = TableLen
    /\ wi' = wi + 1 /\ wj' = 0
    /\ UNCHANGED <<stage, globals, pc, arg, sent, gathered, output, debug, stores, seen, late>>

CloseOutput ==
    /\ stage[0] = "write" /\ wi = N
    /\ stage' = [stage EXCEPT ![0] = "mark"]
    /\ UNCHANGED <<globals, pc, arg, sent, gathered, files, stores, seen, late>>

(* Mutant of MarkFinalized: the table is cleared. *)
MarkFinalized_Clears(r) ==
    /\ stage[r] = "mark"
    /\ values' = [values EXCEPT ![r] = Fresh]
    /\ finalized' = [finalized EXCEPT ![r] = TRUE]
    /\ stage' = [stage EXCEPT ![r] = "finalized"]
    /\ UNCHANGED <<mpi_rank, active, pc, arg, sent, gathered, files, stores, seen, late>>

(* mpi_finalize_has_been_called = 1; the call of MPI_Finalize follows. *)
MarkFinalized(r) ==
    /\ stage[r] = "mark"
    /\ finalized' = [finalized EXCEPT ![r] = TRUE]
    /\ stage' = [stage EXCEPT ![r] = "finalized"]
    /\ UNCHANGED <<values, mpi_rank, active, pc, arg, sent, gathered, files, stores,
                   seen, late>>

-----------------------------------------------------------------------------
(* Mutant of Exit: every rank reports. *)
Exit_EveryRank(r) ==
    /\ stage[r] \in {"running", "finalized"} /\ pc[r][Main] = "idle"
    /\ debug' = (debug \/ active[r])
    /\ stage' = [stage EXCEPT ![r] = "exited"]
    /\ UNCHANGED <<globals, pc, arg, sent, gathered, wi, wj, output, stores, seen, late>>

(* The process exits, before or after oft_print_max_vals, and the exit
   handler oft_final_check runs.                                            *)
Exit(r) ==
    /\ stage[r] \in {"running", "finalized"} /\ pc[r][Main] = "idle"
    /\ debug' = (debug \/ (active[r] /\ mpi_rank[r] \in {0, -1}))
    /\ stage' = [stage EXCEPT ![r] = "exited"]
    /\ UNCHANGED <<globals, pc, arg, sent, gathered, wi, wj, output, stores, seen, late>>

(* A signal or MPI_Abort: nothing more of the process runs. *)
Kill(r) ==
    /\ stage[r] \in Alive \cup {"start"}
    /\ stage' = [stage EXCEPT ![r] = "killed"]
    /\ UNCHANGED <<globals, pc, arg, sent, gathered, files, stores, seen, late>>

(* Nothing has to happen any more once a rank has left; a root that waits for
   a row that will never come stays where it is.                            *)
Idle == (\E r \in Rank : stage[r] \in {"exited", "killed", "undefined"}) /\ UNCHANGED vars

PrintStep(r) == \/ Alloc(r) \/ Gather(r) \/ MarkFinalized(r)
                \/ r = 0 /\ (OpenOutput \/ WriteLine \/ NextRank \/ CloseOutput)

Next ==
    \/ \E r \in Rank :
          \/ InitVals(r) \/ InitFails(r)
          \/ \E t \in Thread : \E j \in Id : \E v \in Val : CallStore(r, t, j, v)
          \/ \E t \in Thread : Compare(r, t) \/ Write(r, t) \/ Flag(r, t)
          \/ EnterPrint(r) \/ Alloc(r) \/ Gather(r) \/ MarkFinalized(r)
          \/ Exit(r) \/ Kill(r)
    \/ OpenOutput \/ WriteLine \/ NextRank \/ CloseOutput
    \/ Idle

Spec == Init /\ [][Next]_vars

(* The operating system runs every process that is not blocked; MPI delivers
   a row that was sent.  Nothing makes an application call anything.        *)
FairSpec == Spec /\ \A r \in Rank : WF_vars(PrintStep(r))
-----------------------------------------------------------------------------
(* Types: the tables, counters, files and what each rank has sent and rank 0 has written. *)
TypeOK ==
    /\ stage \in [Rank -> Stage]
    /\ values \in [Rank -> [Id -> Val \cup {Untouched}]]
    /\ finalized \in [Rank -> BOOLEAN] /\ active \in [Rank -> BOOLEAN]
    /\ mpi_rank \in [Rank -> Rank \cup {-1, 0}]
    /\ pc \in [Rank -> [Thread -> {"idle", "compare", "write", "flag"}]]
    /\ arg \in [Rank -> [Thread -> [id : Id \cup {0}, v : Val \cup {Untouched}]]]
    /\ sent \in [Rank -> [Id -> Val \cup {Untouched}]]
    /\ gathered \subseteq Rank
    /\ wi \in 0..N /\ wj \in 0..TableLen
    /\ output \in Seq(Line) /\ debug \in BOOLEAN
    /\ stores \in [Rank -> 0..MaxStores]
    /\ seen \in [Rank -> [Id -> SUBSET Val]]
    /\ late \subseteq Rank

(* x is the maximum of a finite or infinite set of integers. *)
IsMax(x, S) == x \in S /\ \A y \in S : y <= x

(* "The inserted functions keep track of the maximum value of the detected
   potentially overflowable scale instructions" (README.md:155): a table
   holds the maxima of the values recorded so far, and -1 where all of them
   were smaller.  It needs the compare and the write of
   oft_store_max_val not to be interleaved with another thread's.           *)
MaximumKept ==
    \A r \in Rank \ gathered : \A j \in Id : IsMax(values[r][j], seen[r][j] \cup {Untouched})

(* The lines of oft_output.txt: what rank i reports of instruction j is the
   maximum over everything rank i computed before it entered the gathering,
   whatever other ranks did or stored meanwhile or later; and -1, which the
   table starts with, where i computed nothing greater.                     *)
ReportIsMaximum ==
    \A k \in DOMAIN output :
        /\ output[k].rank \in gathered
        /\ IsMax(output[k].max, seen[output[k].rank][output[k].id] \cup {Untouched})

(* With any number of threads a reported value is one that was computed: a
   lost update loses a maximum but never invents one.                       *)
ReportWasComputed ==
    \A k \in DOMAIN output :
        output[k].max \in seen[output[k].rank][output[k].id] \cup {Untouched}

(* At any moment, whether the root goes on or is killed, oft_output.txt is the
   beginning of a report with one line for each instruction of each rank, rank
   by rank; and a root that comes to MPI_Finalize has written all of it.      *)
ReportWhole ==
    /\ Len(output) <= N * TableLen
    /\ \A k \in DOMAIN output : output[k].rank * TableLen + output[k].id = k - 1
    /\ finalized[0] => Len(output) = N * TableLen

(* oft_debug.txt tells of stores after the finalization, but of those of rank
   0 alone, and only when rank 0 leaves through its exit handler.           *)
DebugTellsOfRankZero == debug <=> (0 \in late /\ stage[0] = "exited")

(* A maximum never gets smaller again. *)
NoMaximumLost ==
    [][\A r \in Rank : \A j \in Id : stage[r] # "start" => values'[r][j] >= values[r][j]]_vars

(* The ranks implement MaxRecorder. *)
Recorder == INSTANCE MaxRecorder WITH best <- values, submitted <- gathered, row <- sent,
                                      report <- output
ImplementsMaxRecorder == Recorder!Spec

(* When every rank has come to the gathering, the report is written to the
   end, unless the root dies or a rank dies before its row is taken.        *)
Arrived(r) == r \in gathered \/ stage[r] \in {"alloc", "gather"}
ReportEventuallyWritten ==
    (\A r \in Rank : Arrived(r))
        ~> (wi = N \/ \E r \in Rank : /\ stage[r] \in {"killed", "undefined"}
                                      /\ r = 0 \/ r \notin gathered)

-----------------------------------------------------------------------------
(* The inductive invariants of the proofs.                                 *)

(* A thread that is inside oft_store_max_val has its arguments. *)
ArgInv ==
    \A r \in Rank : \A t \in Thread :
        pc[r][t] # "idle" => arg[r][t].id \in Id /\ arg[r][t].v \in Val

(* How far a rank, and the root with its file, has come. *)
StageInv ==
    /\ \A r \in Rank :
          /\ stage[r] = "start" => values[r] = Fresh
          /\ stage[r] \in {"start", "running", "alloc", "gather"} => r \notin gathered
    /\ stage[0] = "write" => gathered = Rank
    /\ stage[0] \in {"start", "running", "alloc", "gather", "sent"}
          => output = <<>> /\ wi = 0 /\ wj = 0

(* The lines copy the gathered rows, in the order of the two loops. *)
OutputInv ==
    /\ wi = N => wj = 0
    /\ Len(output) = wi * TableLen + wj
    /\ \A k \in DOMAIN output :
          LET l == output[k] IN
          /\ l.rank \in gathered /\ l.max = sent[l.rank][l.id]
          /\ l.rank * TableLen + l.id = k - 1

(* The root leaves oft_print_max_vals only behind both loops. *)
WholeInv ==
    /\ stage[0] = "mark" \/ finalized[0] => wi = N
    /\ finalized[0] => stage[0] \in {"finalized", "exited", "killed"}

(* Tables, before and after they are taken, hold values that were computed. *)
Taken(r) == IF r \in gathered THEN sent[r] ELSE values[r]
ComputedInv == \A r \in Rank : \A j \in Id : Taken(r)[j] \in seen[r][j] \cup {Untouched}

(* With one thread they hold the maxima: no other store comes between the
   comparison and the write.                                                *)
MaxInv ==
    /\ \A r \in Rank : \A j \in Id : IsMax(Taken(r)[j], seen[r][j] \cup {Untouched})
    /\ \A r \in Rank : \A t \in Thread :
          pc[r][t] = "write" => arg[r][t].v > values[r][arg[r][t].id]

(* What the exit handler of a rank is going to read: a store is late when the
   rank's flag is set, and a rank with its flag set knows its number.       *)
DebugInv ==
    /\ \A r \in Rank :
          /\ stage[r] \in {"alloc", "gather", "sent", "write", "mark"} => mpi_rank[r] = r
          /\ finalized[r] => /\ mpi_rank[r] = r
                             /\ stage[r] \notin {"start", "running"}
          /\ active[r] => finalized[r]
          /\ r \in late <=> active[r]
    /\ DebugTellsOfRankZero
=============================================================================
