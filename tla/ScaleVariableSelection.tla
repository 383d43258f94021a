----------------------- MODULE ScaleVariableSelection -----------------------
(* Where tracing starts: the scale variables of a module.  The library pass
   takes what MPI's rank and size functions write; the annotation pass reads
   the annotation files and takes what they name, and what oft_mark_ marks.

   A program is a record p:
     files  the option -oft-annotation-files: the files in order, each with
            its lines, whether it can be opened, and whether its last line
            ends with a newline
     calls  the CallInsts of the module, in order
   The words of a line are abstracted to what parseAnnotationEntry makes of
   them: "blank", "bad" (less than two words, or the second one is neither
   true nor false), "number" (std::stoul throws on an argument) or "entry".
   Of the name of a called value only its equality with other names counts. *)
EXTENDS Naturals, SequencesExt

CONSTANTS
    Value, Name,
    ManualAnnotationFnName,  \* "oft_mark_"
    mpi_scale_functions,     \* the names of MPI's rank and size functions
    functions_to_ignore,     \* functions the library pass does not look into
    UIntSize,                \* 2^32: one more than the largest unsigned
    Programs,                \* the programs that may be analysed
    MaxRuns                  \* bound: how often the annotation pass is run

Entry == [fnName : Name, retVal : BOOLEAN, fnArgs : Seq(0..(UIntSize - 1))]

(* n holds the numbers of an entry as std::stoul returns them. *)
LineType == [kind : {"blank", "bad", "number", "entry"}, fn : Name, ret : BOOLEAN,
             n : Seq(Nat)]
File == [opens : BOOLEAN, lines : Seq(LineType), newline : BOOLEAN]
Call == [inst : Value,      \* the CallInst itself
         caller : Name,     \* the function it is in
         callee : Value,    \* the called value, its last operand
         name : Name,       \* the name of that, pointer casts stripped
         direct : BOOLEAN,  \* is it a Function?
         args : Seq(Value)]

ASSUME UIntSizeAssumption == UIntSize \in Nat \ {0}
ASSUME MaxRunsAssumption == MaxRuns \in Nat \ {0}
ASSUME ProgramsAssumption == Programs \subseteq [files : Seq(File), calls : Seq(Call)]

VARIABLES
    p,                  \* the program; never changes
    phase,
    next,               \* the index of the next file or call
    line,               \* the lines read of the current file
    ParsedAnnotations,  \* ParsedAnnotations, and the copy of it AnnotationDB
    library,            \* LibraryScaleVariableDetection's scale_variables
    Annotated,          \* Annotated, as a set
    runs                \* runs of the annotation pass so far

vars == <<p, phase, next, line, ParsedAnnotations, library, Annotated, runs>>

(* "fatal": report_fatal_error or a failed assertion; "thrown": an exception
   nobody catches; "undefined": undefined behaviour.                        *)
Phase == {"library", "files", "lines", "calls", "done", "fatal", "thrown", "undefined"}

Init ==
    /\ p \in Programs
    /\ phase = "library" /\ next = 1 /\ line = 0
    /\ ParsedAnnotations = <<>> /\ library = {} /\ Annotated = {} /\ runs = 1

-----------------------------------------------------------------------------
(* LibraryScaleVariableDetection: a look at every call.                    *)

Operands(c) == Append(c.args, c.callee)
IsScaleCall(c) == c.caller \notin functions_to_ignore /\ c.name \in mpi_scale_functions

(* "the scale variable is always the 2nd operand": of a call of one argument
   that is the called function.                                            *)
findMPIScaleVariables ==
    LET c == p.calls[next] IN
    /\ phase = "library" /\ next <= Len(p.calls)
    /\ IF IsScaleCall(c) /\ Len(Operands(c)) < 2
       THEN phase' = "undefined" /\ library' = library
       ELSE /\ library' = library \cup (IF IsScaleCall(c) THEN {Operands(c)[2]} ELSE {})
            /\ phase' = phase
    /\ next' = next + 1
    /\ UNCHANGED <<p, line, ParsedAnnotations, Annotated, runs>>

EndLibrary ==
    /\ phase = "library" /\ next > Len(p.calls)
    /\ phase' = "files" /\ next' = 1
    /\ UNCHANGED <<p, line, ParsedAnnotations, library, Annotated, runs>>

-----------------------------------------------------------------------------
(* ManualAnnotationSelectionPass::run, first part: processFile on each file. *)

(* Mutant of OpenFile: a file starts over with the annotations. *)
OpenFile_Clears ==
    /\ phase = "files" /\ next <= Len(p.files)
    /\ phase' = IF p.files[next].opens THEN "lines" ELSE "fatal"
    /\ line' = 0
    /\ ParsedAnnotations' = <<>>
    /\ UNCHANGED <<p, next, library, Annotated, runs>>

OpenFile ==
    /\ phase = "files" /\ next <= Len(p.files)
    /\ phase' = IF p.files[next].opens THEN "lines" ELSE "fatal"
    /\ line' = 0
    /\ UNCHANGED <<p, next, ParsedAnnotations, library, Annotated, runs>>

EndFiles ==
    /\ phase = "files" /\ next > Len(p.files)
    /\ phase' = "calls" /\ next' = 1
    /\ UNCHANGED <<p, line, ParsedAnnotations, library, Annotated, runs>>

file == p.files[next]
ThisLine == file.lines[line + 1]
AtLine(kinds) == phase = "lines" /\ line < Len(file.lines) /\ ThisLine.kind \in kinds

(* getline sets eofbit on a last line that no newline ends. *)
AtEof == line + 1 = Len(file.lines) /\ ~file.newline

ReadBlank ==
    /\ AtLine({"blank"})
    /\ line' = line + 1
    /\ UNCHANGED <<p, phase, next, ParsedAnnotations, library, Annotated, runs>>

(* Mutant of parseAnnotationEntry: the numbers are kept as they are. *)
parseAnnotationEntry_Unconverted(l) == [fnName |-> l.fn, retVal |-> l.ret, fnArgs |-> l.n]

(* The numbers of an entry are converted from unsigned long to unsigned. *)
parseAnnotationEntry(l) ==
    [fnName |-> l.fn, retVal |-> l.ret,
     fnArgs |-> [i \in DOMAIN l.n |-> l.n[i] % UIntSize]]

ReadEntry ==
    /\ AtLine({"entry"})
    /\ ParsedAnnotations' = Append(ParsedAnnotations, parseAnnotationEntry(ThisLine))
    /\ line' = line + 1
    /\ UNCHANGED <<p, phase, next, library, Annotated, runs>>

(* Mutant of ReadBad: a line that cannot be parsed is passed over. *)
ReadBad_Skips ==
    /\ AtLine({"bad"})
    /\ line' = line + 1
    /\ UNCHANGED <<p, phase, next, ParsedAnnotations, library, Annotated, runs>>

(* A line that cannot be parsed ends the file, and the run, unless eofbit is
   set already: processFile then returns true.                              *)
ReadBad ==
    /\ AtLine({"bad"})
    /\ IF AtEof
       THEN phase' = "files" /\ next' = next + 1
       ELSE phase' = "fatal" /\ next' = next
    /\ UNCHANGED <<p, line, ParsedAnnotations, library, Annotated, runs>>

ReadNumber ==
    /\ AtLine({"number"})
    /\ phase' = "thrown"
    /\ UNCHANGED <<p, next, line, ParsedAnnotations, library, Annotated, runs>>

EndFile ==
    /\ phase = "lines" /\ line = Len(file.lines)
    /\ phase' = "files" /\ next' = next + 1
    /\ UNCHANGED <<p, line, ParsedAnnotations, library, Annotated, runs>>

-----------------------------------------------------------------------------
(* Second part: ManualAnnotationSelection visits the calls.                *)

call == p.calls[next]
AtCall(c) == phase = "calls" /\ next <= Len(p.calls) /\ c = call
Annotate(V) ==
    /\ Annotated' = Annotated \cup V
    /\ next' = next + 1
    /\ UNCHANGED <<p, phase, line, ParsedAnnotations, library, runs>>
Stop(where) ==
    /\ phase' = where
    /\ UNCHANGED <<p, next, line, ParsedAnnotations, library, Annotated, runs>>

(* cast<Function> on something else: a failed assertion, or without
   assertions a Function* that is used for its name alone.                  *)
CastFails == \E c \in ToSet(p.calls) : AtCall(c) /\ ~c.direct /\ Stop("fatal")

(* oft_mark_, called with one argument if the assertions are in the build:
   its first operand is taken.                                              *)
visitDefaultAnnotationFunc ==
    \E c \in ToSet(p.calls) :
        /\ AtCall(c) /\ c.name = ManualAnnotationFnName
        /\ \/ Annotate({Operands(c)[1]})
           \/ Len(c.args) # 1 /\ Stop("fatal")

(* An entry matches when the return value is asked for, or an argument that
   is not beyond the number of arguments.                                   *)
Matches(e, c) ==
    /\ e.fnName = c.name
    /\ e.retVal \/ (e.fnArgs # <<>> /\ \A i \in ToSet(e.fnArgs) : i <= Len(c.args))

(* Mutant of FoundEntry: the last match counts. *)
FoundEntry_Last(c) == SelectLastInSeq(ParsedAnnotations, LAMBDA e : Matches(e, c))
FoundEntry(c) == SelectInSeq(ParsedAnnotations, LAMBDA e : Matches(e, c))
ArgumentsOf(e, c) == {c.args[i + 1] : i \in ToSet(e.fnArgs)}

visitCustomFunc ==
    \E c \in ToSet(p.calls) :
        LET found == FoundEntry(c)
            e     == ParsedAnnotations[found]
        IN  /\ AtCall(c) /\ c.name # ManualAnnotationFnName
            /\ \/ found = 0 /\ Annotate({})
               \/ /\ found # 0
                  /\ IF \E i \in ToSet(e.fnArgs) : i >= Len(c.args)
                     THEN Stop("undefined")
                     ELSE Annotate(ArgumentsOf(e, c) \cup (IF e.retVal THEN {c.inst} ELSE {}))

getAnnotated ==
    /\ phase = "calls" /\ next > Len(p.calls)
    /\ phase' = "done"
    /\ UNCHANGED <<p, next, line, ParsedAnnotations, library, Annotated, runs>>

(* The pass is run again when its result was invalidated: with a selection of
   its own, but the files are read into the same ParsedAnnotations.         *)
RunAgain ==
    /\ phase = "done" /\ runs < MaxRuns
    /\ phase' = "files" /\ next' = 1 /\ line' = 0
    /\ Annotated' = {} /\ runs' = runs + 1
    /\ UNCHANGED <<p, ParsedAnnotations, library>>

(* perform collates both; scale_graph::addvertex lets a value in once. *)
scale_variables == library \cup Annotated

Stopped == phase \in {"done", "fatal", "thrown", "undefined"} /\ UNCHANGED vars

Next ==
    \/ findMPIScaleVariables \/ EndLibrary
    \/ OpenFile \/ ReadBlank \/ ReadEntry \/ ReadBad \/ ReadNumber \/ EndFile \/ EndFiles
    \/ CastFails \/ visitDefaultAnnotationFunc \/ visitCustomFunc \/ getAnnotated
    \/ RunAgain
    \/ Stopped

Spec == Init /\ [][Next]_vars

-----------------------------------------------------------------------------
(* Types: the files, the entries read from them and the selected variables. *)
TypeOK ==
    /\ p \in Programs
    /\ phase \in Phase
    /\ next \in Nat \ {0} /\ line \in Nat
    /\ ParsedAnnotations \in Seq(Entry)
    /\ library \subseteq Value /\ Annotated \subseteq Value
    /\ runs \in 1..MaxRuns

(* What the files say: the places of the entries, each a file and a line of
   it, up to the first line of a file that cannot be parsed.                *)
Said ==
    UNION {{<<i, k>> : k \in {l \in DOMAIN p.files[i].lines :
                                 /\ p.files[i].lines[l].kind = "entry"
                                 /\ \A j \in 1..l : p.files[i].lines[j].kind \in {"blank", "entry"}}}
           : i \in DOMAIN p.files}
LineAt(w) == p.files[w[1]].lines[w[2]]
Before(w, x) == w[1] < x[1] \/ (w[1] = x[1] /\ w[2] < x[2])

(* A line asks for a call: it names the function, and wants its return value
   or arguments of which none lies beyond the number of arguments.          *)
Asks(l, c) ==
    /\ l.fn = c.name
    /\ l.ret \/ (l.n # <<>> /\ {k % UIntSize : k \in ToSet(l.n)} \subseteq 0..Len(c.args))

Asking(c) == {w \in Said : Asks(LineAt(w), c)}
First(c) == LineAt(CHOOSE w \in Asking(c) : \A x \in Asking(c) : x = w \/ Before(w, x))

(* What a line wants of a call, as far as the call has it. *)
Wanted(l, c) ==
    {c.args[k + 1] : k \in {n % UIntSize : n \in ToSet(l.n)} \cap 0..(Len(c.args) - 1)}
    \cup (IF l.ret THEN {c.inst} ELSE {})

(* The scale variables are exactly the second operands of MPI's rank and size
   calls, what oft_mark_ is given, and what the first line that asks for a
   call wants of it.  Reading the files again, which appends their entries to
   those of the first run, changes nothing.                                 *)
SelectionExact ==
    phase = "done" =>
        scale_variables =
            {Operands(c)[2] : c \in {d \in ToSet(p.calls) : IsScaleCall(d)}}
            \cup {Operands(c)[1] : c \in {d \in ToSet(p.calls) : d.name = ManualAnnotationFnName}}
            \cup UNION {IF Asking(c) = {} \/ c.name = ManualAnnotationFnName THEN {} ELSE Wanted(First(c), c)
                        : c \in ToSet(p.calls)}

(* No entry of a file is lost or comes from nowhere: after n runs the parsed
   annotations are n times what the files say, in order.                    *)
EntriesComplete ==
    phase = "done" =>
        /\ Len(ParsedAnnotations) = runs * Cardinality(Said)
        /\ \A r \in 1..runs, w \in Said :
              LET before == (r - 1) * Cardinality(Said) + Cardinality({x \in Said : Before(x, w)})
                  e      == ParsedAnnotations[before + 1]
              IN  /\ e.fnName = LineAt(w).fn
                  /\ e.retVal = LineAt(w).ret
                  /\ Len(e.fnArgs) = Len(LineAt(w).n)

(* A run that goes on to the calls has read good files to their ends, but for
   one thing: a bad last line that no newline ends is passed over in silence.
   A run that fails does so for a reason: a file does not open or has a bad
   line that a newline ends, or the program has a call through a pointer or a
   misused oft_mark_.                                                       *)
FailsForReason ==
    /\ phase \in {"calls", "done"} =>
           \A i \in DOMAIN p.files :
               LET f == p.files[i] IN
               /\ f.opens
               /\ \A k \in DOMAIN f.lines : f.lines[k].kind \in {"bad", "number"} =>
                     f.lines[k].kind = "bad" /\ k = Len(f.lines) /\ ~f.newline
    /\ phase = "fatal" =>
           \/ \E f \in ToSet(p.files) :
                 \/ ~f.opens
                 \/ \E k \in DOMAIN f.lines : f.lines[k].kind = "bad" /\ (k < Len(f.lines) \/ f.newline)
           \/ \E c \in ToSet(p.calls) :
                 ~c.direct \/ (c.name = ManualAnnotationFnName /\ Len(c.args) # 1)

(* What the comment on the matching of entries says and the code does not do:
   "the function matches if: [...] b. if specified, any of its arguments"
   (ManualAnnotationSelection.cpp:62): what is taken is an argument.        *)
ArgumentsExist == phase = "undefined" => \E c \in ToSet(p.calls) : IsScaleCall(c)
=============================================================================
