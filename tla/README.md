# OFT in TLA+

OFT finds the places of an MPI program where 32-bit integers may overflow when
the program is run at a larger scale. This directory holds TLA+ models of its
two halves: the LLVM passes that trace *scale variables* (the number of ranks
and what depends on it) through a program and instrument what may overflow, and
the C runtime that records the maxima of the instrumented instructions on every
rank and gathers them. TLC checks the models on small instances; TLAPS checks,
for all values of the constants, the proofs about the passes from the annotation
files to the instrumented code, about the program that is instrumented, and about
the runtime.

Run everything from this directory: `tlc -config MCTracing.cfg MCTracing`,
`tlapm ScaleVariableTracing_proofs.tla`. `PROJECT.json` lists the runs, the
lines each definition stands for, the hazards and the theorems.

## 1. The system

| Component | Source | State | Operations | Module |
|---|---|---|---|---|
| Scale variable selection | `lib/Analysis/LibraryScaleVariableDetection.cpp`, `ManualAnnotationSelection.cpp` and their passes | annotation entries, annotated values, library scale variables | read a file, parse a line, match a call, run again | `ScaleVariableSelection` |
| Backward tracing | `ScaleVariableTracing.cpp:222-678` | traces back to the storage, roots, GEPs found | follow back, follow an argument into the callers, unroll GEPs, compare GEPs | `BackwardTracing` |
| Scale graph and forward tracing | `ScaleVariableTracing.cpp:1-222`, `ScaleGraph.cpp` | the scale graph, the visited set, the recursion, `to_follow`, `prevSize` | create the graph, trace a reference, expand calls, follow their formals | `ScaleVariableTracing` |
| Loop tracing | `ScaleVariableTracing.cpp:686-794` | work list, visited set, `newNodes` | visit a node, mark loops, extend the graph | `LoopTracing` |
| Overflow detection | `ScaleOverflowIntegerDetection.cpp` | visited set, overflowable nodes | search from each root | `OverflowInstrumentation` |
| Overflow instrumentation | `lib/Transform/OverflowInstrumentation.cpp` | the code of the module, the next ID | insert stores, table creation, gathering | `OverflowInstrumentation`, `InstrumentedExecution` |
| Printed traces | `UtilFuncs.cpp:77-214` | the recursion, the visited set, the lines | print the trace of a scale variable, the history of an instruction | `TracePrinting` |
| The passes together | `perform` and the `run` methods in `lib/*/Passes` | the scale graph they share | one pass after the other | `ScaleAnalysis` |
| Runtime | `runtime/src/instrumentation_functions.c` | per rank: table, flags; the report files | store, gather and print, exit handler | `OftRuntime` |

Data flows down this table. Selection yields the scale variables; backward
tracing finds the places a scale variable's storage is referred to through;
forward tracing turns them into the scale graph; loop tracing extends the graph;
detection picks overflowable instructions of the graph; instrumentation gives
each an ID and inserts calls of the runtime. The contract between the static
half and the runtime is: IDs are `0 .. TABLE_LEN - 1`, the table is created before
anything is stored, and the table is gathered before MPI is finalized.

What is hard here:

- *Order.* The passes walk LLVM use lists, `std::map`s and `std::set`s keyed by
  pointers, whose order differs between two runs over the same program.
- *Visited sets* that are shared between some searches and fresh for others:
  what one search visited, another one skips.
- *Cycles*, through memory (a store read by a load of an earlier iteration),
  through calls, and in scale graphs: every search ends only through its
  visited set or a loop condition on the size of the graph.
- *Calls that do not fit*: through pointers, through casts with too few or too
  many arguments, variadic.
- *Concurrency at run time*: ranks that reach the gathering at different times
  or never, threads that store without synchronisation, processes that exit
  early or are killed.
- *Files* that cannot be opened, parsed, or do not end with a newline.

What makes each component correct is stated as its properties (section 3).

## 2. The modules and the code

Names follow the source. A step of a model is a loop iteration or a call of a
function of the code; recursion is a stack or a pending set. An order that
pointers decide is left open.

**`ScaleIR`** is the part of LLVM that tracing looks at: a program as a record of
use lists, memory uses (MemorySSA), calls, callees, operands and formals, with
`getCallArgs`, and the flow relations (`Closure`, `RefEdges`, `FlowEdges`,
`CallEdges`) that the properties of the graph are stated with.

**`ScaleVariableTracing`** models `createScaleGraph` and `trace`.
`traceScaleInstructionsUpToCalls` is the variable `stack`: a frame holds the
children that a call of the function has still to recurse into. `TakeRef` is an
iteration over the references of a scale variable, `WhileTest`, `CollectCalls`,
`Follow` and `EndFollow` are the `while` loop, and `CollectUndefined` is where
`traceCallInstruction` dereferences a null `Function*` or runs past the formals.
The references `ir.refs` of a scale variable are data here, and what
`BackwardTracing` computes; `ir.scale` is what `ScaleVariableSelection` computes.

**`ScaleFlow`** is what tracing promises: a set of affected values that grows only
by what a flow of the program justifies and is handed on only when it is
complete.

**`BackwardTracing`** models `followBwd` with `followArg` and `followBwdUpToArg`,
then `analyseTrace` with `findGEPs`. The trace of a scale variable goes back to
where its storage comes from; at an argument it goes on, once, in every caller.
`findGEPs`, which recurses over users, is the pending set `pending`; what it does
to a value does not depend on when it comes to it. `trace` is the trace that is
analysed, `traceGeps` the places in it of the GEPs still to unroll, `nextGep` the one
next to the root. `visited` is one set for all GEPs of a trace, as in the code.
`WellFormed` is what LLVM promises: casts, GEPs, loads and stores have operands,
binary operators two of them, the use lists agree with the operands, and the
store MemorySSA gives for a load has the load among its memory uses. The
comparison of GEPs (`gepsAreEqual`, `indicesAreEqual`, `naiveCompare`,
`followArithmeticBwd`) is a recursive function; so is `comparisonFollows`, what
a comparison goes back to before it is decided, which says when it meets a load
without a store (`CompareUndefined`). `access` is what MemorySSA says
about a load.

**`LoopTracing`** models `traceLoops` over the loops, blocks and preheaders that
LoopInfo gives; `LoopNest` is what LoopInfo promises of them. The vector of
nodes is a set: a node that is in it twice is dropped when it is taken again.

**`TracePrinting`** models `printTraces` and `printBwdTraces`: one search, over
children or over parents, that prints a line with its depth for each node it
comes to first. What a line says besides the value is left out.

**`OverflowInstrumentation`** models detection (`findInstructions` from each root)
and instrumentation. The code of a function is a sequence of blocks, a block a
sequence of items; stores, `oft_init_vals` and `oft_print_max_vals` are inserted
where `insertAfter` and `insertBefore` put them. Which instruction gets which ID
is open, since the set is ordered by pointers. `instrumentInstructionFails` is
the call that cannot be built because the operand is no `i32` (`ParamWidth`).
`finaliseInstrumentation` is one call of `MPI_Finalize` at a time, in any order;
`EndInstrumentation` ends the pass when all are done. `WellFormed` is what LLVM
promises of a module: an instruction stands in one place, a call is no binary
operator, a main program has a first block that is not all debug intrinsics.

**`InstrumentedExecution`** runs the code that `OverflowInstrumentation` leaves:
a call stack of functions, blocks and positions. The end of a block leads to any
block but the entry block or out of the function, so every control flow the
blocks may have is among the paths. `p.start` lists the functions the process is
started in: constructors first. Of the runtime it keeps whether there is a
table, its length, the IDs recorded and reported, and the state of MPI.

**`RuntimeClient`** is the contract of the two halves: which calls of the runtime
the main thread of an instrumented process makes, in which order. They are what
`OftRuntime` lets an application do.

**`ScaleAnalysis`** puts the passes together. The variables of
`ScaleVariableTracing`, `LoopTracing`, `OverflowInstrumentation` and
`TracePrinting` are side by side; `stage` says which of them runs, and the
actions between the stages (`EndTracing`, `EndLoops`, `EndTraces`, `EndPass`)
hand on what `perform` and the `run` methods hand on: the one graph, its roots,
the overflowable instructions. The options for loop tracing and for the printed
traces belong to the application.

**`ScaleVariableSelection`** models the search for MPI's rank and size calls, the
reading of annotation files line by line, and the visitor that matches calls
with entries. A line is abstracted to what `parseAnnotationEntry` makes of its
words: blank, bad, a number `std::stoul` throws on, or an entry. An entry's
numbers go through the conversion of `unsigned long` to `unsigned` (`% UIntSize`).
`RunAgain` is the pass manager running the analysis a second time.

**`OftRuntime`** models the runtime on `N` ranks with the set `Thread` of threads
each. `oft_store_max_val` is three steps (`Compare`, `Write`, `Flag`), since no lock
joins them; `oft_print_max_vals` is `EnterPrint`, `Alloc`, `Gather`, then at the
root `OpenOutput`, `WriteLine`, `NextRank`, `CloseOutput`, and `MarkFinalized`.
`Exit` runs the handler `oft_final_check`. `seen` and `late` are history variables:
what counted before a rank's row was taken, and the ranks that stored after
their finalization. The application is the environment: it calls the runtime
where the instrumentation puts calls, and a rank may leave at any time.

**`MaxRecorder`** is what the runtime promises: maxima, each table submitted once,
and a report that lists the submitted tables in order.

`MC*.tla` give the programs and values for TLC; `*_proofs.tla` hold the proofs,
each about the module it is named after and what that extends: the facts about
`ScaleIR` are in `ScaleVariableTracing_proofs`, the proof of `LoopTracing` is the first
part of `ScaleAnalysis_proofs`, which instantiates those of the other passes.
The definitions named `X_Something` behind a comment *Mutant of X* are variants
of an action with a plausible bug; each property is violated by one of them.

## 3. The runs

| Run | What it asks | Size |
|---|---|---|
| `tracing` | every wiring of a small program (1,536 of them: up to two scale variables, a store that may be read back, a call of five kinds of callee, recursion) in every order | 48,832 states |
| `analysis` | all passes on every choice of seven uses in a function with three loops, nested and consecutive, that calls another; one or two scale variables; with and without loop tracing and printed traces | 96,678 states |
| `instrumentation` | every graph over five candidate edges, four assignments of opcodes and widths and both operation modes; and programs that are run: which of two functions is a main program, which comes first in the module, which is a constructor | 35,393 states |
| `selection` | 10,284 programs: up to two files of up to two lines, with one or two calls, the pass run once or twice | 113,440 |
| `backward` | an object whose address goes through a cast, a GEP or memory to a call, in every combination; nested GEPs, and objects that hold pointers into themselves; calls that do not fit, loads without a store on the trace and in an index | 101,239 |
| `runtime` | 2 ranks, 1 thread each, 2 instructions, values -2, 0 and 1, 2 stores per rank | 996,106 |
| `runtime_threads` | 2 ranks, 2 threads each, 1 instruction, values 0 and 1, 2 stores per rank; with fairness | 749,088 |

What the passing runs show:

- `tracing`: the finished graph is exactly the closure of the references under
  uses and memory uses, one level of calls, and the closure of the formals of
  these (`ExactGraph`), whatever the order; no traced value is forgotten at any
  moment (`NothingForgotten`) nor a user missed (`DirectFlowComplete`);
  the program, and not the order, decides whether undefined behaviour is met
  (`UndefinedByProgram`): it is when a reference of a scale variable flows,
  without entering a call, to a call through a pointer or to one that passes it
  behind the last formal; calls in called functions, never expanded, do no harm;
  `ScaleFlow` is implemented and tracing ends.
- `analysis`: the loops that scale-dependent conditional branches decide are
  marked, whole, and nothing else (`LoopsMarkedExactly`, with a definition of
  *decides* that does not use the code's `getLoopFor`); the graph that is handed
  on hangs below the scale variables (`GraphRooted`), which every later search
  relies on; and so the instructions that reach the instrumentation are exactly
  the overflowable ones among what the program, as tracing reads it, depends on
  (`DetectionExact`). Printed traces can be read as trees and leave nothing out
  (`TraceIsTree`), and the history of an instruction comes back to a scale
  variable (`HistoryReachesScale`), which needs `parents` to mirror `children`
  through all passes.
- `instrumentation`: exactly the overflowable instructions below a scale variable
  get one store right behind them, unless one is narrower than the parameter
  of `oft_store_max_val` (`StoresExact`); the IDs are those of the table
  (`IdsFitTable`). Of the program that is run: whenever MPI is about to be
  finalized the report has all that was computed, on every path
  (`ReportComplete`); a store without a table happens only in code that runs
  before the first main program (`UndefinedOnlyBeforeTable`); and a program that
  starts in that and finalizes MPI once keeps the contract `RuntimeClient`
  (`KeepsContract`).
- `selection`: the scale variables are what the first line that asks for a call
  wants of it, what `oft_mark_` is given and what MPI's calls write
  (`SelectionExact`); running again changes nothing though the entries are read
  again into the same vector (`EntriesComplete`); bad files stop the run with the
  one exception of an unterminated last line, and what stops it has a reason
  (`FailsForReason`).
- `backward`: the references are those that unrolling the GEPs from the roots of
  all callers' traces gives, and all of them unless the searches for the GEPs of
  one trace meet (`RefsExact`, `Apart`); the storage of the scale variable is
  found again from its own root where tracing forth enters the calls that tracing
  back has left (`OriginFound`, `Followed`); each caller is traced once
  (`EveryCallerTraced`).
- `runtime`: each table and each reported line holds a maximum over exactly what
  counted (`MaximumKept`, `ReportIsMaximum`); what a root has written is at any
  moment, also when it is killed, the beginning of the right report, and all of
  it when it comes to `MPI_Finalize` (`ReportWhole`), maxima never shrink, and `MaxRecorder` is implemented.
- `runtime_threads`: with racing threads a reported value is still one that was
  computed; `oft_debug.txt` tells of rank 0 alone; and when all ranks have come to
  the gathering the report is written unless the root or a rank that has not
  contributed dies.

Runs that end with a violation show where the code departs from what its
comments or its README say:

| Run | The text | The code |
|---|---|---|
| `tracing_nested` | "expand call instructions iteratively until no more changes occur" | `prevSize` is set at the end of the body, so the body runs at most once: a call inside a called function is not expanded |
| `loops_fixpoint` | "all instructions within a loop L will be marked as scale dependent if a scale instruction affects a branch instruction [...]" | branches that are marked themselves are not looked at |
| `backward_offsets` | two GEPs look the same with "the same target and offsets" | index traces of different lengths are taken for equal |
| `selection_arguments` | "the function matches if: [...] any of its arguments" | argument numbers, from 0, are compared with `<=` to the number of arguments |
| `runtime_lost_update` | the functions "keep track of the maximum value" | two threads of a rank lose the greater value |

### Bounds, and why they are enough

Every bound is a constant or a set in an MC module. Programs have eight to
thirteen values: enough for two scale variables that share a user, a value below
a call and a call below a call, a cycle through memory and one through a
call, and a GEP behind another. A second instance of any of these adds only
more of the same interleaving, because a step of a pass looks at one value, its
users and the visited set. Two ranks are a root and another; two threads
and two stores are the least that race; two instructions and two ranks make
every off-by-one in the order of the lines visible; `Val` lies below, at and
above the initial -1. `MaxStores` bounds the calls of `oft_store_max_val`, `MaxRuns`
the runs of the annotation pass, `MaxDepth` the
call stack of the instrumented program (its call graph has depth two); `UIntSize` = 4 makes the number 4 wrap to 0
as 2^32 does. `MaxInt` is above `N * TableLen` in the runs: with a smaller one
`Alloc` models the overflow of `world_size * TABLE_LEN` and the job ends undefined.

### Fairness

The passes are one thread that computes as long as it can: weak fairness of
`Step`, the disjunction of all their actions (`AnalysisStep` in the composition,
`Pass` where the instrumented program is run afterwards), is all they get. The
instrumented program itself need not go on. In the runtime, weak
fairness of `PrintStep(r)`, the code inside `oft_print_max_vals`: a process that is
not blocked is scheduled and a row that was sent arrives. The root's wait for the
rows is a guard, so nothing is promised when a rank never comes. Nothing makes
an application call anything, return or stay alive.

## 4. The proofs

**Selection** (`ScaleVariableSelection_proofs`), for any annotation files and calls,
any number of runs and any range of `unsigned`. Assumed: `ProgramsAssumption`,
`UIntSizeAssumption`, `MaxRunsAssumption`. Proved: `SelectionTypeCorrect`,
`SelectionIsExact` (`SelectionExact`), `NoEntryIsLost` (`EntriesComplete`),
`FailureHasReason` (`FailsForReason`). `Said` is what the files say: the places, file
and line, of the entries that stand before the first line that cannot be
parsed. The invariant `SelectionInv`:

- `EntryInv`: there is a function `at` from the parsed annotations to the places they
  come from and the run they were read in, which is onto all that has been read
  so far (`Reads`) and in the order of reading. So it is one-to-one, and counting what
  is read sooner gives the place of each entry (`PlaceOf`); and the first entry that
  matches a call comes from the first line that asks for it, however many copies
  later runs have appended (`FoundIsFirst`), because `Matches` on the converted
  numbers is `Asks` on the line (`MatchesIffAsks`);
- `FileInv`: the files behind are good ones, the lines behind in this one blank or
  entries, which is why no entry of a file that ended at a bad last line is lost;
- `CallInv`: `library` and `Annotated` are what the calls so far have contributed.

**Backward tracing** (`BackwardTracing_proofs`), for any set of values and every
program that is `WellFormed` (`ProgramsAssumption`). Proved: `BackwardTypeCorrect`,
`CallersAreTraced` (`EveryCallerTraced`), `UndefinedForReason`
(`UndefinedOnlyForReason`), `ReferencesAreExact` (`RefsExact`) and `OriginIsFound`
(`OriginFound`). `CallersInv`: once a trace has left its function, each call of that
is still to come, the one the current trace goes through, or that of exactly one
finished trace. That only calls of this function are in `calls`
is also what makes an argument number beyond the actuals a call that does not
fit.

For the references, `ForthInv`: behind the places of a trace that are already
unrolled, every root ends a chain of places, one for each GEP (`UnrollInv`), and
one search adds a link, as all it finds is reached from one of its roots
(`FindInv`, `ChainGrows`), whatever an earlier level left in `visited`. For the other
inclusion a search must not be stopped by what an earlier one has visited. What
is in `visited` is reached from a root of this level or of one behind it
(`MetBehind`), and levels that are `Apart` share nothing; so all that can be
reached from the roots of this level is visited when nothing is pending
(`Searched`, `LevelComplete`), each chain of a level ends at one of its roots, and
cutting off the last link of a chain leaves a chain of the level before
(`ChainShrinks`).

`OriginIsFound` (`OriginFound`) says that going back and forth comes back. The
invariant `WalkInv` says of a trace that each value is one `StepBack` from the
one before it, except where the trace leaves a function: there an argument is
followed by a call of the function and by what that passes (`Walked`, `Leap`).
Read from the root, every such step is one that `findGEPs` takes: a use, a load of
what was stored, a formal of a call it enters (`BelowUse`, `BelowStore`,
`BelowCall`). Hence between two GEPs of a trace each value is reached from the one nearer to the root (`OnTheWay`), and the trace itself is a
chain (`OwnChain`), if only each GEP looks like itself. That is
`GepEqualsItself`. `indicesAreEqual` is a recursive function, and in a loop the
arithmetic of an index may be cyclic, where recursion alone does not say that
there is such a function. `ComparisonExists` says that there is: the definition is
monotone in the pairs that are
taken for equal, so the union of all sets of pairs that follow from themselves
satisfies it. Whichever solution `CHOOSE` takes then, an index is equal to itself
(`IndexEqualsItself`), because `Beside` pairs a trace with itself value by value.

**Scale graph** (`ScaleVariableTracing_proofs`), for every finite
set `Value` and every set `Modules` of programs. Assumed: `ModulesAssumption`,
`ValueAssumption`. Proved: `TypeCorrect`, `TracingExact` (`ExactGraph`),
`TracingComplete` (`DirectFlowComplete`), `TracingForgetsNothing`
(`NothingForgotten`), `TracingImplementsFlow` (the refinement of `ScaleFlow`) and
`UndefinedIsDecided` (`UndefinedByProgram`).
The argument: `IInv` has, besides types,

- `ControlInv`: which variables are in use in which phase, and that the nodes are
  the scale variables and the targets of edges;
- `PrevSizeInv`: `prevSize` is 0 until the one round of expansion and the size of
  the graph after it, which is why the loop runs once;
- `OwedInv`: a target of an edge is expanded, on the stack or in `to_follow`; what
  is visited is expanded. This is what makes skipping a visited value harmless,
  although `visited` is shared by the references of a scale variable;
- `RefsInv`: the references of finished scale variables are in the graph;
- `BoundInv`: no edge is in the graph that `ScaleEdges` does not have.

At the end nothing is owed, so the graph is closed under flow and contains the
closure; `BoundInv` is the other inclusion. Both need that `Closure` is closed, and
the least such set (`ClosureClosed`, `ClosureLeast`).
`UndefinedInv` needs the same exactness in the middle of a run: the call sites are
looked at once, and the graph is then `FirstEdges`, so that a bad call is met in
every order or in none.

**Loop tracing** (the first part of `ScaleAnalysis_proofs`), for all sets of values, blocks and loops
and every program whose loops nest as `LoopNest` says (`ProgramsAssumption`; the
sets need not be finite). `LoopTracingExact` (`LoopsMarkedExactly`): the
invariant `LoopInv` is that of a graph search, that what was visited or is in
the work list is reached from the roots and closed up to the work list, with
`newNodes` holding what the visited branches mark. When the work list is empty
the visited set is `Reach`, the least closed set; `LoopsEnteredDecided` shows that
innermost loop and preheaders give just the loops that a branch decides.
`LoopTracingKeepsRooted`: a graph that hangs below its roots still does
afterwards, which the composition uses for `GraphRooted`.

**Instrumentation** (`OverflowInstrumentation_proofs`), for every program, any set of
values and any threshold up to the width of the parameter. Assumed:
`ProgramsAssumption` (the programs are `WellFormed`), `ThresholdAssumption`,
`ValueAssumption` (`Value` is finite). Proved: `InstrumentationTypeCorrect`,
`StoresAreExact` (`StoresExact`), `IdsFit` (`IdsFitTable`). The invariant `PassInv`:

- `SearchInv`: what the search has visited is closed up to what is pending, and
  below the roots; so what it has found when it ends is all there is;
- `FoundInv`: the next ID is the number of instructions taken from the queue;
- `StoreInv`: a store is right behind its instruction, and instruction and ID each
  determine the store. It needs that `InsertAt` moves other items without parting
  an instruction from its store, and that an instruction occurs once;
- `InitInv`: the table is created at one place, with the number of IDs, in the
  first block of the first main program, and nothing that stores or calls
  stands before it.

**The instrumented program** (`InstrumentedExecution_proofs`), for the same programs and
every `MaxDepth`. `UndefinedIsBeforeTable` (`UndefinedOnlyBeforeTable`): `RunInv` says
that every function on the stack stands at a place of its code and all but the
innermost behind a call, and that a process that is started in the first main
program and has no table yet is still in its first block, in front of
`oft_init_vals`, where there are only debug intrinsics. `ReportComplete` and `KeepsContract` need
that the table is not created twice: C allows a program to call `main` again,
which starts a new table and forgets the old one. `ReportWhileTableStays` has just
this as its hypothesis, in its weakest form (`TableOnce`), and `ReportIsComplete`
and `ContractIsKept` a property of the program that suffices for it (`MainOnce`: the
first main program is not called and started at most once, which C++ and
Fortran guarantee). `RecordInv`: the table has an entry for all that
was computed, but for an instruction whose store is the next item, and behind a
call that gathers the report has what the table has.

**The passes together** (`ScaleAnalysis_proofs`), for every set of applications whose
programs are what the single proofs assume (`AppsAssumption`,
`ThresholdAssumption`, `ValueAssumption`). The proof modules of tracing,
instrumentation and printing are instantiated with the variables of the
composition, their assumptions are shown to hold there, and `AnalysisInv` says
which of their invariants holds in which stage and what a finished pass has left:

- while tracing runs, `IInv` holds and the others are untouched; afterwards the
  graph is `ScaleEdges` of the module, whatever became of the local variables;
- while loops are traced, `LoopInv` holds of that graph; afterwards its nodes are
  `ScaleDependent` and are all reached from the scale variables (`GraphPart`);
- from detection on, `PassInv` holds of the program with that graph (`PassPart`);
- `PrintedInv`: the printing invariant holds of the graph printing is called
  with, nothing is printed elsewhere, and a history starts in the graph.

From it `AnalysisTypeCorrect`, `MarkedExactly` (`LoopsMarkedExactly` in the graph that
tracing really hands on), `GraphIsRooted`, and `DetectionIsExact`: end to end, the
instrumentation is given the overflowable ones among the instructions that the
application's text says depend on scale. `HistoriesReachScale` uses a complement:
a finished history is closed under parents, so if it had no scale variable what
is not in it would be closed under children and contain them all, and with them
the whole graph.

**Printing** (`TracePrinting_proofs`), for every graph, finite or not.
`PrintingIsTree` (`IsTree`, and with it `PrintedIsTree`, which is `TraceIsTree`). `PrintInv`:
the frame at depth `d` belongs to a line of depth `d - 1` behind which all lines
are at depth `d` or deeper (`Owner`), so that the next line printed hangs below it
for a reader too (`Hangs`); what is printed has its successors printed or owed
by a frame (`FoundInv`).

**Runtime** (`OftRuntime_proofs`), for every number of ranks, instructions and
stores and every set of values. Assumed: the named assumptions of `OftRuntime`.
With any number of threads: `RuntimeTypeCorrect` (which includes that stores stay
inside the table), `ReportComputed`, `ReportIsWhole`, `DebugTells`. With one thread per rank,
`Thread = {Main}` as an assumption of the theorem: `TableMaximum`,
`ReportMaximum`, `MaximaGrow`, `RuntimeImplementsRecorder`; `runtime_lost_update`
shows that they need it. The argument: a thread inside `oft_store_max_val` has
its arguments (`ArgInv`); the stages of the ranks and the gathered set agree
(`StageInv`); the lines written so far copy the gathered rows in the order of
the two loops (`OutputInv`), which the root leaves only at their end
(`WholeInv`); tables hold values that were computed
(`ComputedInv`) and, with one thread, their maxima, because nothing comes between
comparison and write (`MaxInv`).
For `oft_debug.txt`, `DebugInv`: the file is there just when rank 0 has left by
`exit` with its flag set, and the flag is set by a store of its own behind its
finalization.

**Only model-checked:** the termination of the passes and `ReportEventuallyWritten`, as
liveness and fairness are beyond the prover. Every safety invariant and every
action property that a run checks is also a theorem.

## 5. Abstractions and what is not modelled

- Use lists, maps and lists of uses are sets; `scale_graph` is `nodes` and `edges`,
  with `addvertex` and `addedge` as unions, both idempotent in the code.
- The called function is an operand of a call in LLVM; `ScaleIR` leaves it out of
  the operands, since a function is never below a scale variable by use.
- `MPI_Gather` takes the row of a rank in one step. A thread that stores while
  the row is being copied is counted before or behind it.
- Index arithmetic in the programs of the run `backward` is acyclic. On a cyclic
  one, a variable of a loop, the code's comparison may recur without end; the
  theorems hold for every function that satisfies its definition.
- The stack of the machine, failing `malloc` and `fopen`, and the wording and
  layout of the output are left out.
- The instrumented program has one thread and one process in
  `InstrumentedExecution`; races and ranks are `OftRuntime`'s. Its instructions
  compute nothing: that a value is recorded is kept, not which.
- An instruction that loop tracing marks in the code of another scale variable's
  trace is in the graph once; `could_overflow`, which only printing reads, and
  the raw print of the graph are left out.
- `findFunction` is taken to find or create the runtime's functions; a function
  of the same name with another type (a `TODO` in the code) is not modelled.

### Not modelled

The marker `oft_mark.c` (it does nothing), `InstCountPass` (nothing registers or
runs it), pass registration (glue without state), debug output, path handling
and the opening of output files (I/O; `createTextFile` drops the error code, see
the hazards), and the driver scripts.

Observations from reading that no run states yet:

- `README.md:144` says that instrumented instructions operate on 32-bit integers;
  the detection takes every width up to 32 (`OverflowBitsThreshold`), and with a
  narrower one the instrumentation fails: the phase `broken`, which `StoresExact`
  allows only then.
- The comment on `finaliseInstrumentation` assumes one finalization; a program
  with several on one path ends in an error of MPI, on its own account.
- "Values that have maxed at -1 have not been touched" (`README.md:173`) is not so
  for a value that was computed and never above -1.
- `oft_debug.txt` (`README.md:175`) is written by rank 0 only, of its own stores.
- `functions_to_ignore` holds names without the prefix `oft_`.
- "find geps fwd and 'unroll' all the sequential geps that were marked in the
  trace" (`ScaleVariableTracing.cpp:421`) is not so where an object holds a pointer into
  itself: `findGEPs` is given one visited set for all GEPs of a trace (line 419)
  and returns at once at what an earlier level has visited. With the address of
  an element `x` of `r` stored in `r`, the load `l` of it is visited on the level
  of `r`, and an element `l[i]` that was marked is not found on the level of `x`:
  the scale variable has no references at all. Without `Apart`, `RefsExact` and
  `OriginFound` fail in the run `backward` on such a program.

## 6. Plan

Written first, because the result of the tool depends on it most: the scale graph
(`ScaleIR`, `ScaleFlow`, `ScaleVariableTracing`), then the runtime (`MaxRecorder`,
`OftRuntime`), then `LoopTracing`, `OverflowInstrumentation`,
`ScaleVariableSelection`, `BackwardTracing`, then the compositions:
`ScaleAnalysis` with `TracePrinting`, and `InstrumentedExecution` with
`RuntimeClient`. Left:

1. An abstract specification of selection: the set of scale variables as a
   function of files and calls, with a refinement.
2. `ScaleVariableSelection` and `BackwardTracing` in front of `ScaleAnalysis`, so
   that `ir.scale` and `ir.refs` are computed and not given.
