--------------------- MODULE InstrumentedExecution_proofs ---------------------
(* For every program and every run of it, to any depth of calls: the runtime
   is not made to store outside its table once the table exists, the report
   misses nothing, and the program keeps the contract with the runtime.      *)
EXTENDS InstrumentedExecution, OverflowInstrumentation_proofs

-----------------------------------------------------------------------------
(* What the pass leaves for a run to rely on: the blocks of the functions are
   those of the program, an instruction still stands in one place, and the
   reports are printed right before the calls that finalize MPI and nowhere
   else.                                                                     *)

Finalizes(e) == e.kind = "inst" /\ e.val \in p.finalizes

CodeInv ==
    /\ \A f \in Function : DOMAIN code[f] = DOMAIN p.code[f]
    /\ \A x, y \in Of("inst") : x.it.val = y.it.val => x = y
    /\ \A x \in Of("print") :
          /\ x.it = PrintCall
          /\ \E y \in Items : y.fn = x.fn /\ y.blk = x.blk /\ y.pos = x.pos + 1 /\ Finalizes(y.it)
    /\ phase \in {"done", "running"} => mpi_finalize_calls = {}

(* An item that is no instruction of the program is inserted. *)
LEMMA InstAfterInsert ==
    ASSUME code \in Code, CodeInv, NEW n, Inserts(n), n.it.kind # "inst"
    PROVE  \A x, y \in Of("inst")' : x.it.val = y.it.val => x = y
<1>1. \A x \in Of("inst")' : \E z \in Of("inst") : x = Shift(z, n)
  <2>1. \A x \in Of("inst")' : \/ x = n /\ n.it.kind = "inst"
                              \/ \E z \in Of("inst") : x = Shift(z, n)
    BY OfAfterInsert
  <2> QED
    BY <2>1
<1>2. \A z \in Of("inst") : Shift(z, n).it = z.it
  BY BeforeAfterInsert DEF Of
<1>3. \A x, y \in Of("inst") : x.it.val = y.it.val => x = y
  BY DEF CodeInv
<1> QED
  BY <1>1, <1>2, <1>3

(* A step that keeps the code, or inserts something while nothing is printed. *)
LEMMA CodeInvKept ==
    ASSUME CodeInv, UNCHANGED <<p, code>>, phase' \in {"done", "running"} => mpi_finalize_calls = {}
    PROVE  CodeInv'
<1>1. Items' = Items /\ \A kind : Of(kind)' = Of(kind)
  BY CodeKept DEF Of
<1>2. mpi_finalize_calls' = mpi_finalize_calls
  BY <1>1 DEF mpi_finalize_calls, PrintCall
<1> QED
  BY <1>1, <1>2 DEF CodeInv, Finalizes, PrintCall

LEMMA CodeInvInserted ==
    ASSUME code \in Code, CodeInv, Of("print") = {}, UNCHANGED p, phase' \notin {"done", "running"},
           NEW n, Inserts(n), n.it.kind \notin {"inst", "print"}
    PROVE  CodeInv'
<1>1. \A f \in Function : DOMAIN code'[f] = DOMAIN p'.code[f]
  <2>1. \A f \in Function : DOMAIN code'[f] = DOMAIN code[f]
    BY CodeAfterInsert
  <2> QED
    BY <2>1 DEF CodeInv
<1>2. \A x, y \in Of("inst")' : x.it.val = y.it.val => x = y
  BY InstAfterInsert
<1>3. Of("print")' = {}
  <2>1. \A y \in Of("print")' : \/ y = n /\ n.it.kind = "print"
                               \/ \E x \in Of("print") : y = Shift(x, n)
    BY OfAfterInsert
  <2> QED
    BY <2>1
<1> QED
  BY <1>1, <1>2, <1>3 DEF CodeInv

LEMMA CodeInvPrint ==
    ASSUME PassInv, CodeInv, finaliseInstrumentation
    PROVE  CodeInv'
<1>0. phase = "final" /\ phase' = "final" /\ UNCHANGED p /\ code \in Code
  BY DEF finaliseInstrumentation, PassInv, Typed
<1>1. PICK x \in mpi_finalize_calls : \E n :
         Inserts(n) /\ n.fn = x.fn /\ n.blk = x.blk /\ n.pos = x.pos /\ n.it = PrintCall
  BY <1>0, PrintCallInserted
<1>2. PICK n : Inserts(n) /\ n.fn = x.fn /\ n.blk = x.blk /\ n.pos = x.pos /\ n.it = PrintCall
  BY <1>1
<1>3. /\ x \in Items /\ Finalizes(x.it) /\ n.it.kind = "print"
      /\ x.pos = 1 \/ code[x.fn][x.blk][x.pos - 1] # PrintCall
  BY <1>2 DEF mpi_finalize_calls, Finalizes, PrintCall
<1>4. \A f \in Function : DOMAIN code'[f] = DOMAIN p'.code[f]
  <2>1. \A f \in Function : DOMAIN code'[f] = DOMAIN code[f]
    BY <1>0, <1>2, CodeAfterInsert
  <2> QED
    BY <1>0, <2>1 DEF CodeInv
<1>5. \A y, z \in Of("inst")' : y.it.val = z.it.val => y = z
  BY <1>0, <1>2, <1>3, InstAfterInsert
<1>6. /\ \A y \in Items : /\ Shift(y, n) \in Items' /\ Shift(y, n).it = y.it
                          /\ Shift(y, n).fn = y.fn /\ Shift(y, n).blk = y.blk
      /\ \A y \in Of("print")' : y = n \/ \E z \in Of("print") : y = Shift(z, n)
  <2>1. \A y \in Items : Shift(y, n) \in Items'
    BY <1>0, <1>2, ItemsAfterInsert
  <2>2. \A y \in Items : /\ Shift(y, n).it = y.it
                         /\ Shift(y, n).fn = y.fn /\ Shift(y, n).blk = y.blk
    BY <1>0, <1>2, BeforeAfterInsert
  <2>3. \A y \in Of("print")' : \/ y = n /\ n.it.kind = "print"
                               \/ \E z \in Of("print") : y = Shift(z, n)
    BY <1>0, <1>2, OfAfterInsert
  <2> QED
    BY <2>1, <2>2, <2>3
<1>7. ASSUME NEW y \in Of("print")'
      PROVE  /\ y.it = PrintCall
             /\ \E z \in Items' : z.fn = y.fn /\ z.blk = y.blk /\ z.pos = y.pos + 1 /\ Finalizes(z.it)
  <2>1. CASE y = n
    <3>1. Shift(x, n) = Place(x.fn, x.blk, x.pos + 1, x.it) /\ Shift(x, n) \in Items'
      <4>1. x.pos >= n.pos
        BY <1>0, <1>2, <1>3, ItemsType
      <4> QED
        BY <1>2, <1>3, <1>6, <4>1 DEF Shift
    <3>2. PICK z \in Items' : z = Place(x.fn, x.blk, x.pos + 1, x.it)
      BY <3>1
    <3>3. z.fn = y.fn /\ z.blk = y.blk /\ z.pos = y.pos + 1 /\ Finalizes(z.it)
      BY <1>2, <1>3, <2>1, <3>2 DEF Place
    <3> QED
      BY <1>2, <2>1, <3>3
  <2>2. CASE y # n
    <3>1. PICK u \in Of("print") : y = Shift(u, n)
      BY <1>6, <2>2
    <3>2. /\ u \in Items /\ u.it = PrintCall
          /\ \E w \in Items : w.fn = u.fn /\ w.blk = u.blk /\ w.pos = u.pos + 1 /\ Finalizes(w.it)
      BY <3>1 DEF CodeInv, Of
    <3>3. PICK w \in Items : w.fn = u.fn /\ w.blk = u.blk /\ w.pos = u.pos + 1 /\ Finalizes(w.it)
      BY <3>2
    <3>4. u.pos \in Nat \ {0} /\ w.pos \in Nat /\ x.pos \in Nat /\ u.it = code[u.fn][u.blk][u.pos]
      <4>1. \A q \in Items : q.pos \in Nat \ {0}
        BY <1>0, ItemsType
      <4> QED
        BY <1>3, <3>2, <3>3, <4>1, ItemsAt
    <3>5. ~(u.fn = n.fn /\ u.blk = n.blk /\ u.pos + 1 = n.pos)
      <4> SUFFICES ASSUME u.fn = x.fn, u.blk = x.blk, u.pos + 1 = x.pos
                   PROVE  FALSE
        BY <1>2
      <4>1. x.pos # 1 /\ x.pos - 1 = u.pos
        BY <3>4
      <4> QED
        BY <1>3, <3>2, <3>4, <4>1
    <3>6. Shift(w, n).pos = Shift(u, n).pos + 1
      BY <1>2, <3>3, <3>4, <3>5 DEF Shift, Place
    <3>7. PICK z \in Items' : z = Shift(w, n)
      BY <1>6, <3>3
    <3>8. z.fn = y.fn /\ z.blk = y.blk /\ z.pos = y.pos + 1 /\ Finalizes(z.it)
      BY <1>6, <3>1, <3>2, <3>3, <3>6, <3>7
    <3> QED
      BY <1>6, <3>1, <3>2, <3>8
  <2> QED
    BY <2>1, <2>2
<1>8. \A e : Finalizes(e)' <=> Finalizes(e)
  BY <1>0 DEF Finalizes
<1> QED
  BY <1>0, <1>4, <1>5, <1>7, <1>8 DEF CodeInv, PrintCall, Finalizes

LEMMA CodeInvInit == Init => CodeInv
<1> SUFFICES ASSUME Init
             PROVE  CodeInv
  OBVIOUS
<1>1. p \in Programs /\ code = Original /\ phase = "roots"
  BY DEF Init
<1>2. Of("print") = {} /\ \A f \in Function : DOMAIN code[f] = DOMAIN p.code[f]
  BY <1>1, OriginalCode DEF Original
<1>3. ASSUME NEW x \in Items
      PROVE  /\ x.fn \in Function /\ x.blk \in DOMAIN p.code[x.fn]
             /\ x.pos \in DOMAIN p.code[x.fn][x.blk] /\ x.it.val = p.code[x.fn][x.blk][x.pos]
             /\ x = Place(x.fn, x.blk, x.pos, Inst(p.code[x.fn][x.blk][x.pos]))
  <2>1. /\ x.fn \in Function /\ x.blk \in DOMAIN code[x.fn] /\ x.pos \in DOMAIN code[x.fn][x.blk]
        /\ x.it = code[x.fn][x.blk][x.pos] /\ x = Place(x.fn, x.blk, x.pos, x.it)
    BY ItemsAt
  <2>2. code[x.fn][x.blk] = [i \in DOMAIN p.code[x.fn][x.blk] |-> Inst(p.code[x.fn][x.blk][i])]
    BY <1>1, <1>2, <2>1 DEF Original
  <2> QED
    BY <1>2, <2>1, <2>2 DEF Inst
<1>4. ASSUME NEW x \in Items, NEW y \in Items, x.it.val = y.it.val
      PROVE  x = y
  <2>1. /\ x.fn \in Function /\ x.blk \in DOMAIN p.code[x.fn] /\ x.pos \in DOMAIN p.code[x.fn][x.blk]
        /\ y.fn \in Function /\ y.blk \in DOMAIN p.code[y.fn] /\ y.pos \in DOMAIN p.code[y.fn][y.blk]
        /\ p.code[x.fn][x.blk][x.pos] = p.code[y.fn][y.blk][y.pos]
    BY <1>3, <1>4
  <2>2. WellFormed(p)
    BY <1>1, ProgramFields
  <2>3. x.fn = y.fn /\ x.blk = y.blk /\ x.pos = y.pos
    BY <2>1, <2>2 DEF WellFormed
  <2> QED
    BY <1>3, <2>3
<1> QED
  BY <1>1, <1>2, <1>4 DEF CodeInv, Of

LEMMA StepCode ==
    ASSUME PassInv, p \in Programs, CodeInv, Step
    PROVE  CodeInv'
<1>0. /\ code \in Code /\ instr_id \in Nat
      /\ phase = "store" => Of("print") = {}
  <2>1. Cardinality(Value) \in Nat
    BY ValueAssumption, FS_CardinalityType
  <2> QED
    BY <2>1 DEF PassInv, Typed, TypeOK, InitInv, NoneYet
<1>1. CASE \E v \in Value : TakeRoot(v) \/ Skip(v) \/ findInstructions(v)
  BY <1>1, CodeInvKept DEF TakeRoot, Skip, findInstructions, CodeInv
<1>2. CASE EndDetection
  BY <1>2, CodeInvKept DEF EndDetection
<1>3. ASSUME NEW v \in Value, instrumentInstruction(v)
      PROVE  CodeInv'
  <2>1. phase = "store" /\ UNCHANGED <<p, phase>>
    BY <1>3 DEF instrumentInstruction
  <2>2. PICK n : Inserts(n) /\ n.it = StoreOf(v, instr_id)
    BY <1>0, <1>3, StoreCallInserted
  <2>3. n.it.kind \notin {"inst", "print"}
    BY <2>2 DEF StoreOf
  <2> QED
    BY <1>0, <2>1, <2>2, <2>3, CodeInvInserted
<1>4. CASE \E v \in Value : instrumentInstructionFails(v)
  BY <1>4, CodeInvKept DEF instrumentInstructionFails
<1>5. CASE initInstrumentation
  <2>1. phase = "store" /\ phase' = "final" /\ UNCHANGED p
    BY <1>5 DEF initInstrumentation
  <2>2. CASE p.mains = {}
    <3>1. FirstMain = {}
      BY <2>2, FirstMainIs
    <3>2. code' = code
      BY <1>0, <1>5, <3>1 DEF initInstrumentation, Code
    <3> QED
      BY <2>1, <3>2, CodeInvKept
  <2>3. CASE p.mains # {}
    <3>1. PICK f \in p.mains : FirstMain = {f}
      BY <2>3, FirstMainIs
    <3>2. PICK n : Inserts(n) /\ n.it = InitCall(instr_id)
      BY <1>5, <3>1, InitCallInserted
    <3>3. n.it.kind \notin {"inst", "print"}
      BY <3>2 DEF InitCall
    <3> QED
      BY <1>0, <2>1, <3>2, <3>3, CodeInvInserted
  <2> QED
    BY <2>2, <2>3
<1>6. CASE finaliseInstrumentation
  BY <1>6, CodeInvPrint
<1>7. CASE EndInstrumentation
  BY <1>7, CodeInvKept DEF EndInstrumentation
<1> QED
  BY <1>1, <1>2, <1>3, <1>4, <1>5, <1>6, <1>7 DEF Step

-----------------------------------------------------------------------------
(* The invariant of a run.                                                   *)

Frame == [fn : Function, blk : Nat, pos : Nat]

Placed(fr) == fr.blk \in DOMAIN code[fr.fn] /\ fr.pos \in 1..(Len(code[fr.fn][fr.blk]) + 1)

(* The item that a function has left behind last. *)
Passed(fr) == code[fr.fn][fr.blk][fr.pos - 1]

Waits(fr) == fr.pos > 1 /\ Passed(fr).kind = "inst" /\ Passed(fr).val \in DOMAIN p.callee
Printed(fr) == fr.pos > 1 /\ Passed(fr).kind = "print"

(* All functions but the innermost wait for one that they have called. *)
Stack(s) ==
    /\ s \in Seq(Frame)
    /\ \A i \in 1..Len(s) : Placed(s[i])
    /\ \A i \in 2..Len(s) : Waits(s[i])

(* Before the run, and the table of a run. *)
Begins ==
    /\ frames = <<>> /\ started = 0
    /\ created = FALSE /\ recorded = {} /\ mpi = "up" /\ last.op = "none"
    /\ computed = {} /\ outcome = "running"

StateInv ==
    /\ started \in 0..Len(p.start)
    /\ created \in BOOLEAN /\ mpi \in {"up", "finalized"}
    /\ phase # "running" => Begins
    /\ created => TABLE_LEN = instr_id
    /\ outcome = "undefined" => ~created /\ ~StartsInMain

(* A process that begins in the first main program does nothing there until
   oft_init_vals is called.                                                  *)
MainInv ==
    phase = "running" /\ outcome = "running" /\ StartsInMain /\ ~created =>
        /\ mpi = "up" /\ last.op = "none"
        /\ Len(frames) = 1
        /\ \E x \in Of("init") : top.fn = x.fn /\ top.blk = 1 /\ top.pos \in 1..x.pos

RunInv == PassInv /\ CodeInv /\ Stack(frames) /\ StateInv /\ MainInv

(* The ID that a function is about to store, and that the process is. *)
DueAt(fr) == {x.it.id : x \in {y \in Of("store") : y.fn = fr.fn /\ y.blk = fr.blk /\ y.pos = fr.pos}}
Due == IF frames = <<>> THEN {} ELSE DueAt(top)

(* The table has an entry for all that was executed, but for the last
   instruction while its store is due; it is gathered where it is printed.   *)
RecordInv ==
    outcome = "running" =>
        /\ recorded \cup Due = IdsOf(computed \cap ScaleOperations)
        /\ ~created => recorded = {}
        /\ frames # <<>> /\ Printed(top) => last.op = "print" /\ reported = recorded
        /\ last.op = "print" /\ mpi = "up" => frames # <<>> /\ Printed(top)

(* The table is not created a second time. *)
TableOnce == created => ~AtItem("init")

(* The first main program is not called in the module, and a process is
   started in it once.                                                       *)
MainOnce ==
    \A f \in FirstMain :
        /\ \A v \in DOMAIN p.callee : p.callee[v] # f
        /\ \A i, j \in DOMAIN p.start : p.start[i] = f /\ p.start[j] = f => i = j

(* So only the outermost function is the main program, and it is behind
   oft_init_vals when the table exists.                                      *)
BehindInit(fr) ==
    fr.blk = 1 => \A x \in Of("init") : x.fn = fr.fn => fr.pos > x.pos

OnceStack(s, n, c) ==
    \A i \in 1..Len(s) : s[i].fn \in FirstMain =>
        /\ i = Len(s) /\ \E m \in 1..n : p.start[m] = s[i].fn
        /\ c => BehindInit(s[i])

OnceInv ==
    /\ OnceStack(frames, started, created)
    /\ created => \E m \in 1..started : p.start[m] \in FirstMain

-----------------------------------------------------------------------------
(* The call stack.                                                           *)

LEMMA PushIs ==
    ASSUME NEW S, NEW x \in S, NEW t \in Seq(S)
    PROVE  /\ <<x>> \o t \in Seq(S) /\ Len(<<x>> \o t) = Len(t) + 1
           /\ (<<x>> \o t)[1] = x
           /\ \A i \in 2..(Len(t) + 1) : (<<x>> \o t)[i] = t[i - 1]
<1>1. <<x>> \in Seq(S) /\ Len(<<x>>) = 1 /\ <<x>>[1] = x /\ Len(t) \in Nat
  OBVIOUS
<1> QED
  BY <1>1, ConcatProperties

LEMMA PopIs ==
    ASSUME NEW S, NEW s \in Seq(S), s # <<>>
    PROVE  /\ Len(s) \in Nat \ {0} /\ Head(s) = s[1] /\ Head(s) \in S
           /\ Tail(s) \in Seq(S) /\ Len(Tail(s)) = Len(s) - 1
           /\ \A i \in 1..(Len(s) - 1) : Tail(s)[i] = s[i + 1]
OBVIOUS

LEMMA TopIs ==
    ASSUME Stack(frames), frames # <<>>
    PROVE  /\ Len(frames) \in Nat \ {0} /\ top = frames[1] /\ top \in Frame /\ Placed(top)
           /\ Tail(frames) \in Seq(Frame) /\ Len(Tail(frames)) = Len(frames) - 1
           /\ \A i \in 1..(Len(frames) - 1) : Tail(frames)[i] = frames[i + 1]
           /\ \A i \in 2..Len(frames) : frames[i] \in Frame /\ Placed(frames[i]) /\ Waits(frames[i])
<1>1. /\ frames \in Seq(Frame)
      /\ \A i \in 1..Len(frames) : Placed(frames[i])
      /\ \A i \in 2..Len(frames) : Waits(frames[i])
  BY DEF Stack
<1>2. /\ Len(frames) \in Nat \ {0} /\ Head(frames) = frames[1] /\ Head(frames) \in Frame
      /\ Tail(frames) \in Seq(Frame) /\ Len(Tail(frames)) = Len(frames) - 1
      /\ \A i \in 1..(Len(frames) - 1) : Tail(frames)[i] = frames[i + 1]
  BY <1>1, PopIs
<1>3. \A i \in 2..Len(frames) : frames[i] \in Frame /\ i \in 1..Len(frames)
  BY <1>1, <1>2
<1>4. 1 \in 1..Len(frames)
  BY <1>2
<1> QED
  BY <1>1, <1>2, <1>3, <1>4 DEF top

(* The function on top goes on, at another place. *)
LEMMA ReplaceTop ==
    ASSUME Stack(frames), frames # <<>>, NEW fr \in Frame, Placed(fr)
    PROVE  /\ Stack(<<fr>> \o Tail(frames))
           /\ Len(<<fr>> \o Tail(frames)) = Len(frames) /\ (<<fr>> \o Tail(frames))[1] = fr
           /\ \A i \in 2..Len(frames) : (<<fr>> \o Tail(frames))[i] = frames[i]
<1>1. /\ Tail(frames) \in Seq(Frame) /\ Len(Tail(frames)) = Len(frames) - 1 /\ Len(frames) \in Nat \ {0}
      /\ \A i \in 1..(Len(frames) - 1) : Tail(frames)[i] = frames[i + 1]
      /\ \A i \in 2..Len(frames) : frames[i] \in Frame /\ Placed(frames[i]) /\ Waits(frames[i])
  BY TopIs
<1>2. PICK s : s = <<fr>> \o Tail(frames)
  OBVIOUS
<1>3. /\ s \in Seq(Frame) /\ Len(s) = Len(Tail(frames)) + 1 /\ s[1] = fr
      /\ \A i \in 2..(Len(Tail(frames)) + 1) : s[i] = Tail(frames)[i - 1]
  BY <1>1, <1>2, PushIs
<1>4. Len(s) = Len(frames)
  BY <1>1, <1>3
<1>5. ASSUME NEW i \in 2..Len(frames)
      PROVE  s[i] = frames[i]
  <2>1. i \in 2..(Len(Tail(frames)) + 1) /\ i - 1 \in 1..(Len(frames) - 1) /\ (i - 1) + 1 = i
    BY <1>1
  <2> QED
    BY <1>1, <1>3, <2>1
<1>6. \A i \in 1..Len(frames) : i = 1 \/ i \in 2..Len(frames)
  BY <1>1
<1>7. Stack(s)
  BY <1>1, <1>3, <1>4, <1>5, <1>6 DEF Stack
<1> QED
  BY <1>2, <1>3, <1>4, <1>5, <1>7

LEMMA PushStack ==
    ASSUME NEW s, Stack(s), s # <<>> => Waits(s[1]), NEW fr \in Frame, Placed(fr)
    PROVE  /\ Stack(<<fr>> \o s) /\ Len(<<fr>> \o s) = Len(s) + 1 /\ (<<fr>> \o s)[1] = fr
           /\ \A i \in 2..(Len(s) + 1) : (<<fr>> \o s)[i] = s[i - 1]
<1>1. /\ s \in Seq(Frame) /\ Len(s) \in Nat
      /\ \A i \in 1..Len(s) : Placed(s[i])
      /\ \A i \in 2..Len(s) : Waits(s[i])
  BY DEF Stack
<1>2. PICK t : t = <<fr>> \o s
  OBVIOUS
<1>3. /\ t \in Seq(Frame) /\ Len(t) = Len(s) + 1 /\ t[1] = fr
      /\ \A i \in 2..(Len(s) + 1) : t[i] = s[i - 1]
  BY <1>1, <1>2, PushIs
<1>4. \A i \in 2..(Len(s) + 1) : i - 1 \in 1..Len(s) /\ (i - 1 = 1 \/ i - 1 \in 2..Len(s))
  BY <1>1
<1>5. s # <<>> <=> Len(s) > 0
  BY <1>1
<1>6. \A i \in 2..(Len(s) + 1) : Placed(t[i]) /\ Waits(t[i])
  BY <1>1, <1>3, <1>4, <1>5
<1>7. \A i \in 1..Len(t) : i = 1 \/ i \in 2..(Len(s) + 1)
  BY <1>1, <1>3
<1>8. Stack(t)
  BY <1>1, <1>3, <1>6, <1>7 DEF Stack
<1> QED
  BY <1>2, <1>3, <1>8

LEMMA PopStack ==
    ASSUME Stack(frames), frames # <<>>
    PROVE  Stack(Tail(frames))
<1>1. /\ Tail(frames) \in Seq(Frame) /\ Len(Tail(frames)) = Len(frames) - 1 /\ Len(frames) \in Nat \ {0}
      /\ \A i \in 1..(Len(frames) - 1) : Tail(frames)[i] = frames[i + 1]
      /\ \A i \in 2..Len(frames) : frames[i] \in Frame /\ Placed(frames[i]) /\ Waits(frames[i])
  BY TopIs
<1>2. \A i \in 1..(Len(frames) - 1) : i + 1 \in 2..Len(frames)
  BY <1>1
<1>3. \A i \in 1..(Len(frames) - 1) : Placed(Tail(frames)[i]) /\ Waits(Tail(frames)[i])
  BY <1>1, <1>2
<1> QED
  BY <1>1, <1>3 DEF Stack

(* What stands where a function is. *)
LEMMA ItemIs ==
    ASSUME code \in Code, Stack(frames), NEW kind, AtItem(kind)
    PROVE  /\ phase = "running" /\ outcome = "running" /\ frames # <<>>
           /\ top \in Frame /\ top.blk \in DOMAIN code[top.fn] /\ top.pos \in Nat \ {0}
           /\ top.pos \in 1..Len(Block) /\ Len(Block) \in Nat
           /\ item \in Item /\ item.kind = kind
           /\ Place(top.fn, top.blk, top.pos, item) \in Of(kind)
<1>1. /\ phase = "running" /\ outcome = "running" /\ frames # <<>>
      /\ top.pos \in DOMAIN Block /\ item.kind = kind
  BY DEF AtItem, item
<1>2. top \in Frame /\ Placed(top)
  BY <1>1, TopIs
<1>3. top.fn \in Function /\ top.blk \in DOMAIN code[top.fn] /\ top.pos \in Nat
  BY <1>2 DEF Frame, Placed
<1>4. PICK x \in Items : x = Place(top.fn, top.blk, top.pos, item)
  BY <1>1, <1>3, ItemAt DEF Block, item
<1>5. x.it = item /\ x.fn = top.fn /\ x.blk = top.blk /\ x.pos = top.pos
  BY <1>4 DEF Place
<1>6. item \in Item /\ Block \in Seq(Item)
  BY <1>5, ItemsType DEF Block
<1>7. top.pos \in 1..Len(Block) /\ Len(Block) \in Nat
  BY <1>1, <1>6
<1> QED
  BY <1>1, <1>2, <1>3, <1>4, <1>5, <1>6, <1>7 DEF Of

OneOn(fr) == [fn |-> fr.fn, blk |-> fr.blk, pos |-> fr.pos + 1]

LEMMA BehindIs ==
    ASSUME code \in Code, Stack(frames), NEW kind, AtItem(kind)
    PROVE  /\ Stack(Behind) /\ Len(Behind) = Len(frames) /\ Behind[1] = OneOn(top)
           /\ Behind # <<>>
           /\ \A i \in 2..Len(frames) : Behind[i] = frames[i]
           /\ OneOn(top) \in Frame /\ Placed(OneOn(top))
           /\ OneOn(top).pos > 1 /\ Passed(OneOn(top)) = item
<1>1. /\ top \in Frame /\ top.blk \in DOMAIN code[top.fn] /\ top.pos \in Nat \ {0}
      /\ top.pos \in 1..Len(Block) /\ Len(Block) \in Nat /\ frames # <<>>
  BY ItemIs
<1>2. [top EXCEPT !.pos = @ + 1] = OneOn(top) /\ OneOn(top) \in Frame
  BY <1>1 DEF Frame, OneOn
<1>3. Behind = <<OneOn(top)>> \o Tail(frames)
  BY <1>2 DEF Behind
<1>4. Placed(OneOn(top)) /\ OneOn(top).pos > 1 /\ Passed(OneOn(top)) = item
  <2>1. OneOn(top).pos = top.pos + 1 /\ (top.pos + 1) - 1 = top.pos
    BY <1>1 DEF OneOn
  <2>2. top.pos + 1 \in 1..(Len(Block) + 1) /\ top.pos + 1 > 1
    BY <1>1
  <2> QED
    BY <1>1, <2>1, <2>2 DEF Placed, Passed, Block, item, OneOn
<1>5. /\ Stack(Behind) /\ Len(Behind) = Len(frames) /\ Behind[1] = OneOn(top)
      /\ \A i \in 2..Len(frames) : Behind[i] = frames[i]
  BY <1>1, <1>2, <1>3, <1>4, ReplaceTop
<1>6. Behind # <<>>
  <2>1. Len(frames) \in Nat \ {0}
    BY <1>1, TopIs
  <2> QED
    BY <1>5, <2>1
<1> QED
  BY <1>2, <1>4, <1>5, <1>6

(* A function that is entered has a body. *)
LEMMA EntryIs ==
    ASSUME p \in Programs, CodeInv,
           NEW f, f \in ToSet(p.start) \/ \E v \in DOMAIN p.callee : f = p.callee[v], code \in Code
    PROVE  /\ f \in Function /\ Entry(f) \in Frame /\ Placed(Entry(f))
           /\ Entry(f).fn = f /\ Entry(f).blk = 1 /\ Entry(f).pos = 1
<1>1. /\ WellFormed(p) /\ p.code \in [Function -> Seq(Seq(Value))] /\ p.start \in Seq(Function)
      /\ p.callee \in UNION {[C -> Function] : C \in SUBSET Value}
  BY ProgramFields DEF Program
<1>2. f \in Function /\ p.code[f] # <<>>
  <2>1. CASE f \in ToSet(p.start)
    BY <1>1, <2>1 DEF WellFormed, ToSet
  <2>2. ASSUME NEW v \in DOMAIN p.callee, f = p.callee[v]
        PROVE  f \in Function /\ p.code[f] # <<>>
    BY <1>1, <2>2 DEF WellFormed
  <2> QED
    BY <2>1, <2>2
<1>3. 1 \in DOMAIN code[f]
  <2>1. p.code[f] \in Seq(Seq(Value))
    BY <1>1, <1>2
  <2>2. 1 \in DOMAIN p.code[f]
    BY <1>2, <2>1
  <2> QED
    BY <1>2, <2>2 DEF CodeInv
<1>4. Len(code[f][1]) \in Nat
  BY <1>2, <1>3 DEF Code
<1>5. 1 \in 1..(Len(code[f][1]) + 1)
  BY <1>4
<1> QED
  BY <1>2, <1>3, <1>5 DEF Entry, Frame, Placed

-----------------------------------------------------------------------------
(* A step of the run.                                                        *)

LEMMA RunFacts ==
    ASSUME Run
    PROVE  /\ outcome = "running" /\ phase \in {"done", "running"} /\ phase' = "running"
           /\ UNCHANGED <<p, todo, pending, visited, overflowable, queue, instr_id, code>>
           /\ phase = "running" \/ EnterFunction
           /\ created' = created \/ oft_init_vals
BY DEF Run, EnterFunction, ExitProcess, Execute, CallFunction, FinalizeMPI, oft_init_vals,
       oft_store_max_val, oft_print_max_vals, Branch, Return, AtItem, AtEnd

(* The run only reads what the pass has left. *)
LEMMA RunPass ==
    ASSUME PassInv, CodeInv, p \in Programs, Run
    PROVE  PassInv' /\ CodeInv' /\ p' \in Programs
<1>1. /\ phase \in {"done", "running"} /\ phase' = "running"
      /\ UNCHANGED <<p, todo, pending, visited, overflowable, queue, instr_id, code>>
  BY RunFacts
<1>2. FoundInv' /\ InitInv'
  <2>1. \A x : InitAt(x)' <=> InitAt(x)
    BY <1>1, CodeKept DEF InitAt, Harmless
  <2> QED
    BY <1>1, <2>1, CodeKept DEF PassInv, FoundInv, InitInv
<1>3. PassInv'
  BY <1>1, <1>2, PhaseStep
<1>4. CodeInv'
  BY <1>1, CodeInvKept DEF CodeInv
<1> QED
  BY <1>1, <1>3, <1>4

(* The frames after a step. *)
LEMMA CallIs ==
    ASSUME PassInv, CodeInv, p \in Programs, Stack(frames), AtItem("inst"), item.val \in DOMAIN p.callee
    PROVE  /\ Stack(<<Entry(p.callee[item.val])>> \o Behind)
           /\ Len(<<Entry(p.callee[item.val])>> \o Behind) = Len(frames) + 1
           /\ (<<Entry(p.callee[item.val])>> \o Behind)[1] = Entry(p.callee[item.val])
           /\ (<<Entry(p.callee[item.val])>> \o Behind)[2] = OneOn(top)
           /\ \A i \in 3..(Len(frames) + 1) :
                 (<<Entry(p.callee[item.val])>> \o Behind)[i] = frames[i - 1]
<1>0. code \in Code
  BY DEF PassInv, Typed
<1>1. PICK fr : fr = Entry(p.callee[item.val])
  OBVIOUS
<1>2. fr \in Frame /\ Placed(fr)
  BY <1>0, <1>1, EntryIs
<1>3. /\ Stack(Behind) /\ Len(Behind) = Len(frames) /\ Behind[1] = OneOn(top) /\ Behind # <<>>
      /\ \A i \in 2..Len(frames) : Behind[i] = frames[i]
      /\ OneOn(top).pos > 1 /\ Passed(OneOn(top)) = item
  BY <1>0, BehindIs
<1>4. item.kind = "inst" /\ Len(frames) \in Nat \ {0}
  BY <1>0, ItemIs, TopIs
<1>5. Waits(Behind[1])
  BY <1>3, <1>4 DEF Waits
<1>6. /\ Stack(<<fr>> \o Behind) /\ Len(<<fr>> \o Behind) = Len(Behind) + 1
      /\ (<<fr>> \o Behind)[1] = fr
      /\ \A i \in 2..(Len(Behind) + 1) : (<<fr>> \o Behind)[i] = Behind[i - 1]
  BY <1>2, <1>3, <1>5, PushStack
<1>7. /\ 2 \in 2..(Len(Behind) + 1) /\ 2 - 1 = 1
      /\ \A i \in 3..(Len(frames) + 1) : i \in 2..(Len(Behind) + 1) /\ i - 1 \in 2..Len(frames)
  BY <1>3, <1>4
<1> QED
  BY <1>1, <1>3, <1>6, <1>7

LEMMA BranchIs ==
    ASSUME code \in Code, Stack(frames), AtEnd, NEW b \in DOMAIN code[top.fn] \ {1}
    PROVE  /\ Stack(<<[fn |-> top.fn, blk |-> b, pos |-> 1]>> \o Tail(frames))
           /\ Len(<<[fn |-> top.fn, blk |-> b, pos |-> 1]>> \o Tail(frames)) = Len(frames)
           /\ (<<[fn |-> top.fn, blk |-> b, pos |-> 1]>> \o Tail(frames))[1] =
                 [fn |-> top.fn, blk |-> b, pos |-> 1]
           /\ \A i \in 2..Len(frames) :
                 (<<[fn |-> top.fn, blk |-> b, pos |-> 1]>> \o Tail(frames))[i] = frames[i]
<1>1. frames # <<>> /\ top \in Frame
  BY TopIs DEF AtEnd
<1>2. PICK fr : fr = [fn |-> top.fn, blk |-> b, pos |-> 1]
  OBVIOUS
<1>3. top.fn \in Function /\ code[top.fn] \in Seq(Seq(Item))
  BY <1>1 DEF Frame, Code
<1>4. b \in Nat /\ code[top.fn][b] \in Seq(Item)
  BY <1>3
<1>5. 1 \in 1..(Len(code[top.fn][b]) + 1)
  BY <1>4
<1>6. fr \in Frame /\ Placed(fr)
  BY <1>2, <1>3, <1>4, <1>5 DEF Frame, Placed
<1> QED
  BY <1>1, <1>2, <1>6, ReplaceTop

LEMMA StackStep ==
    ASSUME RunInv, p \in Programs, Run
    PROVE  Stack(frames)'
<1>0. /\ PassInv /\ CodeInv /\ Stack(frames) /\ StateInv /\ code \in Code
      /\ UNCHANGED <<p, code>>
  BY RunFacts DEF RunInv, PassInv, Typed
<1>1. ASSUME NEW s, Stack(s), frames' = s
      PROVE  Stack(frames)'
  BY <1>0, <1>1 DEF Stack, Placed, Waits, Passed
<1>2. CASE EnterFunction
  <2>1. started + 1 \in DOMAIN p.start /\ frames' = <<Entry(p.start[started + 1])>>
    <3>1. p.start \in Seq(Function)
      BY ProgramFields DEF Program
    <3>2. started \in Nat /\ started < Len(p.start)
      BY <1>0, <1>2, <3>1 DEF EnterFunction, StateInv
    <3> QED
      BY <1>2, <3>1, <3>2 DEF EnterFunction
  <2>2. PICK fr : fr = Entry(p.start[started + 1])
    OBVIOUS
  <2>3. fr \in Frame /\ Placed(fr)
    <3>1. p.start[started + 1] \in ToSet(p.start)
      BY <2>1 DEF ToSet
    <3> QED
      BY <1>0, <2>2, <3>1, EntryIs
  <2>4. Stack(<<fr>>)
    BY <2>3 DEF Stack
  <2> QED
    BY <1>1, <2>1, <2>2, <2>4
<1>3. CASE frames' = frames
  BY <1>0, <1>1, <1>3
<1>4. ASSUME NEW kind, AtItem(kind), frames' = Behind
      PROVE  Stack(frames)'
  <2>1. PICK s : s = Behind
    OBVIOUS
  <2> QED
    BY <1>0, <1>1, <1>4, <2>1, BehindIs
<1>5. CASE CallFunction
  <2>1. PICK s : s = <<Entry(p.callee[item.val])>> \o Behind
    OBVIOUS
  <2>2. AtItem("inst") /\ item.val \in DOMAIN p.callee /\ frames' = s
    BY <1>5, <2>1 DEF CallFunction
  <2>3. Stack(s)
    BY <1>0, <2>1, <2>2, CallIs
  <2> QED
    BY <1>1, <2>2, <2>3
<1>6. CASE Branch
  <2>1. PICK b \in DOMAIN code[top.fn] \ {1} :
           frames' = <<[fn |-> top.fn, blk |-> b, pos |-> 1]>> \o Tail(frames)
    BY <1>6 DEF Branch
  <2>2. PICK s : s = <<[fn |-> top.fn, blk |-> b, pos |-> 1]>> \o Tail(frames)
    OBVIOUS
  <2>3. Stack(s)
    BY <1>0, <1>6, <2>2, BranchIs DEF Branch
  <2> QED
    BY <1>1, <2>1, <2>2, <2>3
<1>7. CASE Return
  <2>1. PICK s : s = Tail(frames)
    OBVIOUS
  <2>2. Stack(s)
    BY <1>0, <1>7, <2>1, PopStack DEF Return, AtEnd
  <2> QED
    BY <1>1, <1>7, <2>1, <2>2 DEF Return
<1>8. CASE Execute \/ FinalizeMPI \/ oft_init_vals \/ oft_store_max_val \/ oft_print_max_vals
  <2>1. frames' = frames \/ \E kind \in ItemKind : AtItem(kind) /\ frames' = Behind
    BY <1>8 DEF Execute, FinalizeMPI, oft_init_vals, oft_store_max_val, oft_print_max_vals, ItemKind
  <2> QED
    BY <1>3, <1>4, <2>1
<1>9. CASE ExitProcess
  BY <1>3, <1>9 DEF ExitProcess
<1> QED
  BY <1>2, <1>5, <1>6, <1>7, <1>8, <1>9 DEF Run

-----------------------------------------------------------------------------
(* The table.                                                                *)

(* What a process that begins in the main program finds before oft_init_vals. *)
LEMMA BeforeInit ==
    ASSUME RunInv, p \in Programs, phase = "running", outcome = "running", StartsInMain, ~created
    PROVE  \E x \in Of("init") :
              /\ top.fn = x.fn /\ top.blk = 1 /\ x.pos \in Nat /\ top.pos \in 1..x.pos
              /\ Len(frames) = 1 /\ frames # <<>> /\ top.pos \in DOMAIN Block
              /\ \/ top.pos = x.pos /\ item.kind = "init"
                 \/ top.pos < x.pos /\ item.kind = "inst" /\ item.val \in p.dbg
<1>0. /\ PassInv /\ CodeInv /\ Stack(frames) /\ MainInv /\ InitInv /\ code \in Code
      /\ WellFormed(p)
  BY ProgramFields DEF RunInv, PassInv, Typed
<1>1. PICK x \in Of("init") : /\ Len(frames) = 1 /\ top.fn = x.fn /\ top.blk = 1
                             /\ top.pos \in 1..x.pos
  BY <1>0 DEF MainInv
<1>2. /\ x \in Items /\ x.it.kind = "init" /\ InitAt(x)
  BY <1>0, <1>1 DEF Of, InitInv
<1>3. /\ x.fn \in Function /\ x.blk = 1 /\ 1 \in DOMAIN code[x.fn]
      /\ code[x.fn][1] \in Seq(Item) /\ x.pos \in 1..Len(code[x.fn][1])
      /\ x.it = code[x.fn][1][x.pos]
  BY <1>0, <1>2, ItemsAt, ItemsType DEF InitAt
<1>4. Block = code[x.fn][1] /\ Len(Block) \in Nat /\ DOMAIN Block = 1..Len(Block)
  BY <1>1, <1>3 DEF Block
<1>5. top.pos \in 1..Len(Block) /\ x.pos \in Nat /\ top.pos \in Nat
  BY <1>1, <1>3, <1>4
<1>6. frames # <<>>
  <2>1. Len(<<>>) = 0
    OBVIOUS
  <2> QED
    BY <1>1, <2>1
<1>7. CASE top.pos = x.pos
  BY <1>1, <1>2, <1>3, <1>4, <1>5, <1>6, <1>7 DEF item
<1>8. CASE top.pos # x.pos
  <2>1. top.pos < x.pos /\ top.pos \in 1..(x.pos - 1)
    BY <1>1, <1>5, <1>8
  <2>2. Harmless(item)
    BY <1>2, <1>4, <2>1 DEF InitAt, item
  <2>3. item.kind # "print"
    <3> SUFFICES ASSUME item.kind = "print"
                 PROVE  FALSE
      OBVIOUS
    <3>1. PICK y \in Items : y = Place(x.fn, 1, top.pos, code[x.fn][1][top.pos])
      BY <1>3, <1>4, <1>5, ItemAt
    <3>2. y.fn = x.fn /\ y.blk = 1 /\ y.pos = top.pos /\ y.it = item
      BY <1>4, <3>1 DEF Place, item
    <3>3. y \in Of("print")
      BY <3>2 DEF Of
    <3>4. PICK z \in Items : z.fn = y.fn /\ z.blk = y.blk /\ z.pos = y.pos + 1 /\ Finalizes(z.it)
      BY <1>0, <3>3 DEF CodeInv
    <3>5. z.it = code[x.fn][1][top.pos + 1]
      BY <3>2, <3>4, ItemsAt
    <3>6. top.pos + 1 = x.pos \/ top.pos + 1 \in 1..(x.pos - 1)
      BY <1>5, <2>1
    <3>7. z.it.kind = "init" \/ Harmless(z.it)
      BY <1>2, <1>3, <3>5, <3>6 DEF InitAt
    <3> QED
      BY <1>0, <3>4, <3>7 DEF Finalizes, Harmless, WellFormed
  <2> QED
    BY <1>1, <1>4, <1>5, <1>6, <2>1, <2>2, <2>3 DEF Harmless
<1> QED
  BY <1>7, <1>8

LEMMA StateStep ==
    ASSUME RunInv, p \in Programs, Run
    PROVE  StateInv'
<1>0. /\ PassInv /\ CodeInv /\ Stack(frames) /\ StateInv /\ MainInv /\ InitInv /\ StoreInv /\ code \in Code
      /\ instr_id \in Nat
  <2>1. Cardinality(Value) \in Nat
    BY ValueAssumption, FS_CardinalityType
  <2> QED
    BY <2>1 DEF RunInv, PassInv, Typed, TypeOK
<1>1. /\ outcome = "running" /\ phase' = "running" /\ UNCHANGED <<p, code, instr_id>>
      /\ created' = created \/ oft_init_vals
  BY RunFacts
<1>2. started' \in 0..Len(p.start)
  <2>1. Len(p.start) \in Nat
    BY ProgramFields DEF Program
  <2> QED
    BY <1>0, <2>1 DEF StateInv, Run, EnterFunction, ExitProcess, Execute, CallFunction, FinalizeMPI,
           oft_init_vals, oft_store_max_val, oft_print_max_vals, Branch, Return
<1>3. created' \in BOOLEAN
  BY <1>0, <1>1 DEF StateInv, oft_init_vals
<1>4. created' => TABLE_LEN' = instr_id
  <2>1. CASE oft_init_vals
    <3>1. PICK x \in Of("init") : x = Place(top.fn, top.blk, top.pos, item)
      BY <1>0, <2>1, ItemIs DEF oft_init_vals
    <3>2. x.it = item /\ InitAt(x)
      BY <1>0, <2>1, <3>1, ItemIs DEF InitInv, Place, oft_init_vals
    <3> QED
      BY <2>1, <3>2 DEF oft_init_vals, InitAt
  <2>2. CASE UNCHANGED <<created, TABLE_LEN>>
    BY <1>0, <2>2 DEF StateInv
  <2> QED
    BY <2>1, <2>2 DEF Run, EnterFunction, ExitProcess, Execute, CallFunction, FinalizeMPI,
           oft_store_max_val, oft_print_max_vals, Branch, Return
<1>5. StartsInMain' = StartsInMain
  BY <1>1 DEF StartsInMain, FirstMain
<1>6. ASSUME outcome' = "undefined"
      PROVE  ~created' /\ ~StartsInMain
  <2>1. /\ oft_store_max_val /\ ~(created /\ item.id < TABLE_LEN) /\ created' = created
    BY <1>1, <1>6 DEF Run, EnterFunction, ExitProcess, Execute, CallFunction, FinalizeMPI,
           oft_init_vals, oft_store_max_val, oft_print_max_vals, Branch, Return
  <2>2. AtItem("store") /\ phase = "running" /\ item.kind = "store"
    BY <2>1 DEF oft_store_max_val, AtItem, item
  <2>3. PICK x \in Of("store") : x = Place(top.fn, top.blk, top.pos, item)
    BY <1>0, <2>2, ItemIs
  <2>4. x.it = item /\ StoreAt(x)
    BY <1>0, <2>3 DEF StoreInv, Place
  <2>5. ~created
    BY <1>0, <2>1, <2>4 DEF StoreAt, StateInv
  <2>6. ~StartsInMain
    BY <1>1, <2>2, <2>5, BeforeInit
  <2> QED
    BY <2>1, <2>5, <2>6
<1>7. mpi' \in {"up", "finalized"}
  <2>1. mpi' = mpi \/ mpi' = "finalized"
    BY DEF Run, EnterFunction, ExitProcess, Execute, CallFunction, FinalizeMPI,
           oft_init_vals, oft_store_max_val, oft_print_max_vals, Branch, Return
  <2> QED
    BY <1>0, <2>1 DEF StateInv
<1> QED
  BY <1>1, <1>2, <1>3, <1>4, <1>5, <1>6, <1>7 DEF StateInv

LEMMA MainStep ==
    ASSUME RunInv, p \in Programs, Run
    PROVE  MainInv'
<1>0. /\ PassInv /\ CodeInv /\ Stack(frames) /\ StateInv /\ MainInv /\ InitInv /\ code \in Code
      /\ WellFormed(p)
  BY ProgramFields DEF RunInv, PassInv, Typed
<1>1. /\ outcome = "running" /\ phase \in {"done", "running"} /\ phase' = "running"
      /\ UNCHANGED <<p, code>>
      /\ phase = "running" \/ EnterFunction
      /\ created' = created \/ oft_init_vals
  BY RunFacts
<1>2. StartsInMain' = StartsInMain /\ Of("init")' = Of("init")
  BY <1>1, CodeKept DEF StartsInMain
<1> SUFFICES ASSUME StartsInMain, ~created', outcome' = "running"
             PROVE  /\ mpi' = "up" /\ last'.op = "none" /\ Len(frames') = 1
                    /\ \E x \in Of("init") : top'.fn = x.fn /\ top'.blk = 1 /\ top'.pos \in 1..x.pos
  BY <1>1, <1>2 DEF MainInv
<1>3. ~created
  BY <1>1 DEF oft_init_vals
<1>4. CASE phase # "running"
  <2>1. /\ EnterFunction /\ started = 0 /\ mpi = "up" /\ last.op = "none"
    BY <1>0, <1>1, <1>4 DEF StateInv, Begins
  <2>2. frames' = <<Entry(p.start[1])>> /\ UNCHANGED <<mpi, last>>
    BY <2>1 DEF EnterFunction
  <2>3. top' = Entry(p.start[1]) /\ Len(frames') = 1
    BY <2>2 DEF top
  <2>4. p.start[1] \in FirstMain
    BY DEF StartsInMain
  <2>5. PICK x \in Of("init") : x.fn = p.start[1]
    BY <1>0, <1>1, <1>4, <2>4 DEF InitInv
  <2>6. 1 \in 1..x.pos
    <3>1. x.pos \in Nat \ {0}
      BY <1>0, ItemsType DEF Of
    <3> QED
      BY <3>1
  <2> QED
    BY <2>1, <2>2, <2>3, <2>5, <2>6 DEF Entry
<1>5. CASE phase = "running"
  <2>1. PICK x \in Of("init") :
              /\ top.fn = x.fn /\ top.blk = 1 /\ x.pos \in Nat /\ top.pos \in 1..x.pos
              /\ Len(frames) = 1 /\ frames # <<>> /\ top.pos \in DOMAIN Block
              /\ \/ top.pos = x.pos /\ item.kind = "init"
                 \/ top.pos < x.pos /\ item.kind = "inst" /\ item.val \in p.dbg
    BY <1>1, <1>3, <1>5, BeforeInit
  <2>2. ~AtEnd
    <3>1. code[top.fn] \in Seq(Seq(Item)) /\ top.blk \in DOMAIN code[top.fn]
      BY <1>0, <2>1, TopIs DEF Frame, Placed, Code
    <3>2. Block \in Seq(Item)
      BY <3>1 DEF Block
    <3> QED
      BY <2>1, <3>2 DEF AtEnd
  <2>3. ~oft_init_vals
    BY <1>3 DEF oft_init_vals
  <2>4. item.kind # "init"
    BY <1>1, <2>1, <2>2, <2>3 DEF Run, EnterFunction, ExitProcess, Execute, CallFunction, FinalizeMPI,
           oft_store_max_val, oft_print_max_vals, Branch, Return, AtItem, item
  <2>5. item.val \notin DOMAIN p.callee \cup p.finalizes
    BY <1>0, <2>1, <2>4 DEF WellFormed
  <2>6. Execute
    BY <1>1, <2>1, <2>2, <2>3, <2>4, <2>5 DEF Run, EnterFunction, ExitProcess, CallFunction, FinalizeMPI,
           oft_store_max_val, oft_print_max_vals, Branch, Return, AtItem, item
  <2>7. AtItem("inst") /\ frames' = Behind /\ UNCHANGED <<mpi, last>>
    BY <2>6 DEF Execute
  <2>8. Behind[1] = OneOn(top) /\ Len(Behind) = 1
    BY <1>0, <2>1, <2>7, BehindIs
  <2>9. top' = OneOn(top) /\ Len(frames') = 1
    <3>1. frames'[1] = OneOn(top) /\ Len(frames') = 1
      BY <2>7, <2>8
    <3>2. Stack(frames)'
      BY StackStep
    <3>3. top' = Head(frames') /\ frames' \in Seq(Frame)
      BY <3>2 DEF top, Stack
    <3>4. Head(frames') = frames'[1]
      BY <3>3
    <3> QED
      BY <3>1, <3>3, <3>4
  <2>10. OneOn(top).pos \in 1..x.pos /\ OneOn(top).fn = x.fn /\ OneOn(top).blk = 1
    <3>1. top.pos \in Nat /\ top.pos < x.pos
      BY <2>1, <2>4
    <3> QED
      BY <2>1, <3>1 DEF OneOn
  <2>11. mpi = "up" /\ last.op = "none"
    BY <1>0, <1>1, <1>3, <1>5 DEF MainInv
  <2> QED
    BY <2>7, <2>9, <2>10, <2>11
<1> QED
  BY <1>4, <1>5

LEMMA RunBegins == RunInit => RunInv /\ p \in Programs
<1> SUFFICES ASSUME RunInit
             PROVE  RunInv
  BY DEF RunInit, Init
<1>1. /\ Init /\ frames = <<>> /\ started = 0 /\ created = FALSE /\ recorded = {}
      /\ mpi = "up" /\ last.op = "none" /\ computed = {} /\ outcome = "running" /\ phase = "roots"
      /\ p \in Programs
  BY DEF RunInit, Init
<1>2. PassInv /\ CodeInv
  BY <1>1, InitPass, CodeInvInit
<1>3. Stack(frames)
  BY <1>1 DEF Stack
<1>4. StateInv /\ MainInv
  <2>1. Len(p.start) \in Nat
    BY <1>1, ProgramFields DEF Program
  <2> QED
    <3>1. MainInv
      BY <1>1 DEF MainInv
    <3>2. Begins
      BY <1>1 DEF Begins
    <3>3. started \in 0..Len(p.start)
      BY <1>1, <2>1
    <3> QED
      BY <1>1, <3>1, <3>2, <3>3 DEF StateInv
<1> QED
  BY <1>2, <1>3, <1>4 DEF RunInv

(* While the pass works, nothing runs. *)
LEMMA PassKeeps ==
    ASSUME RunInv, p \in Programs, Pass
    PROVE  RunInv' /\ p' \in Programs
<1>1. Step /\ UNCHANGED rvars
  BY DEF Pass
<1>2. PassInv' /\ CodeInv' /\ p' \in Programs
  BY <1>1, StepPass, StepCode DEF RunInv
<1>3. /\ phase # "running" /\ phase' # "running" /\ p' = p
  BY <1>1 DEF Step, TakeRoot, Skip, findInstructions, EndDetection, instrumentInstruction,
         instrumentInstructionFails, initInstrumentation, finaliseInstrumentation, EndInstrumentation
<1>4. Begins /\ frames' = <<>> /\ Begins' /\ started' = started
  BY <1>1, <1>3 DEF rvars, RunInv, StateInv, Begins
<1>5. Stack(frames)'
  BY <1>4 DEF Stack
<1>6. StateInv' /\ MainInv'
  BY <1>3, <1>4 DEF RunInv, StateInv, MainInv, Begins
<1> QED
  BY <1>2, <1>5, <1>6 DEF RunInv

LEMMA RunStays ==
    ASSUME RunInv, UNCHANGED <<vars, rvars>>
    PROVE  RunInv'
<1>0. /\ UNCHANGED <<p, phase, todo, pending, visited, overflowable, queue, instr_id, code>>
      /\ UNCHANGED <<frames, started, created, TABLE_LEN, recorded, reported, mpi, last, computed, outcome>>
  BY DEF vars, rvars
<1>1. PassInv' /\ CodeInv'
  BY <1>0, StutterPass, CodeInvKept DEF RunInv, CodeInv
<1>2. Stack(frames)'
  BY <1>0 DEF RunInv, Stack, Placed, Waits, Passed
<1>3. StateInv' /\ MainInv'
  BY <1>0, CodeKept DEF RunInv, StateInv, MainInv, Begins, StartsInMain, top
<1> QED
  BY <1>1, <1>2, <1>3 DEF RunInv

RunOK == RunInv /\ p \in Programs

LEMMA RunOKStep == RunOK /\ [RunNext]_<<vars, rvars>> => RunOK'
<1> SUFFICES ASSUME RunInv, p \in Programs, [RunNext]_<<vars, rvars>>
             PROVE  RunInv' /\ p' \in Programs
  BY DEF RunOK
<1>1. CASE Pass
  BY <1>1, PassKeeps
<1>2. CASE Run
  BY <1>2, RunPass, StackStep, StateStep, MainStep DEF RunInv
<1>3. CASE UNCHANGED <<vars, rvars>>
  BY <1>3, RunStays DEF vars
<1> QED
  BY <1>1, <1>2, <1>3 DEF RunNext, Stopped

LEMMA RunInvariant == RunSpec => []RunOK
BY RunBegins, RunOKStep, PTL DEF RunSpec, RunOK

(* The instrumented program makes the runtime store outside its table only
   where the table does not exist yet, and never when the process begins in
   the first main program: every path to a store passes oft_init_vals there. *)
THEOREM UndefinedIsBeforeTable == RunSpec => []UndefinedOnlyBeforeTable
<1>1. RunOK => UndefinedOnlyBeforeTable
  BY DEF RunOK, RunInv, StateInv, UndefinedOnlyBeforeTable
<1> QED
  BY <1>1, RunInvariant, PTL

-----------------------------------------------------------------------------
(* The report.                                                               *)

(* A store is due right behind the operation it is for, and nowhere else. *)
LEMMA StoreIsBehind ==
    ASSUME RunInv, p \in Programs, phase = "running", NEW y \in Of("store")
    PROVE  /\ y \in Items /\ y.pos \in Nat /\ y.pos > 1 /\ Before(y) = Inst(y.it.val)
           /\ y.it.val \in ScaleOperations /\ p.opcode[y.it.val] # "none"
           /\ y.it.val \notin p.finalizes /\ y.it.val \notin DOMAIN p.callee
<1>1. /\ FoundInv /\ StoreInv /\ code \in Code /\ WellFormed(p)
  BY ProgramFields DEF RunInv, PassInv, Typed
<1>2. StoreAt(y) /\ y \in Items /\ y.it.val \in ScaleOperations
  BY <1>1 DEF StoreInv, StoreAt, FoundInv, Of
<1>3. p.opcode[y.it.val] # "none"
  BY <1>2 DEF ScaleOperations, OverflowOps, AllOps
<1>4. y.pos \in Nat
  BY <1>1, <1>2, ItemsType
<1> QED
  BY <1>1, <1>2, <1>3, <1>4 DEF StoreAt, WellFormed

LEMMA NoneDue ==
    ASSUME RunInv, p \in Programs, phase = "running", NEW fr \in Frame,
           \/ fr.pos = 1
           \/ Passed(fr).kind # "inst"
           \/ Passed(fr).val \in DOMAIN p.callee \cup p.finalizes
    PROVE  DueAt(fr) = {}
<1> SUFFICES ASSUME NEW y \in Of("store"), y.fn = fr.fn, y.blk = fr.blk, y.pos = fr.pos
             PROVE  FALSE
  BY DEF DueAt
<1>1. /\ y.pos > 1 /\ Before(y) = Inst(y.it.val)
      /\ y.it.val \notin p.finalizes /\ y.it.val \notin DOMAIN p.callee
  BY StoreIsBehind
<1>2. Passed(fr) = Inst(y.it.val)
  BY <1>1 DEF Passed, Before
<1> QED
  BY <1>1, <1>2 DEF Inst

LEMMA DueAtItem ==
    ASSUME RunInv, p \in Programs, NEW kind, AtItem(kind)
    PROVE  DueAt(top) = IF kind = "store" THEN {item.id} ELSE {}
<1>1. /\ item.kind = kind /\ Place(top.fn, top.blk, top.pos, item) \in Of(kind)
  BY ItemIs DEF RunInv, PassInv, Typed
<1>2. PICK x \in Of(kind) : x = Place(top.fn, top.blk, top.pos, item)
  BY <1>1
<1>3. x.fn = top.fn /\ x.blk = top.blk /\ x.pos = top.pos /\ x.it = item
  BY <1>2 DEF Place
<1>4. ASSUME NEW y \in Of("store"), y.fn = top.fn, y.blk = top.blk, y.pos = top.pos
      PROVE  y = x /\ kind = "store"
  <2>1. y.it = item /\ y = Place(y.fn, y.blk, y.pos, y.it)
    BY <1>4, ItemsAt DEF Of, item, Block
  <2> QED
    BY <1>1, <1>2, <1>4, <2>1 DEF Of
<1> QED
  BY <1>3, <1>4 DEF DueAt

LEMMA NoneDueAtEnd ==
    ASSUME RunInv, p \in Programs, AtEnd
    PROVE  DueAt(top) = {}
<1> SUFFICES ASSUME NEW y \in Of("store"), y.fn = top.fn, y.blk = top.blk, y.pos = top.pos
             PROVE  FALSE
  BY DEF DueAt
<1>1. y.pos \in 1..Len(Block) /\ Block \in Seq(Item)
  BY ItemsType DEF Of, Block, RunInv, PassInv, Typed
<1> QED
  BY <1>1 DEF AtEnd

(* The store of an operation is due when the operation was executed. *)
LEMMA DueAfterExecute ==
    ASSUME RunInv, p \in Programs, AtItem("inst")
    PROVE  DueAt(OneOn(top)) = IdsOf({item.val} \cap ScaleOperations)
<1>1. /\ phase = "running" /\ item.kind = "inst" /\ top.pos \in Nat \ {0}
      /\ Place(top.fn, top.blk, top.pos, item) \in Of("inst")
      /\ OneOn(top).pos > 1 /\ Passed(OneOn(top)) = item
  BY ItemIs, BehindIs DEF RunInv, PassInv, Typed
<1>2. OneOn(top).fn = top.fn /\ OneOn(top).blk = top.blk /\ OneOn(top).pos = top.pos + 1
  BY DEF OneOn
<1>3. ASSUME NEW y \in Of("store"), y.fn = top.fn, y.blk = top.blk, y.pos = top.pos + 1
      PROVE  y.it.val \in {item.val} \cap ScaleOperations
  <2>1. Before(y) = Inst(y.it.val) /\ y.it.val \in ScaleOperations
    BY <1>1, StoreIsBehind
  <2>2. Before(y) = item
    BY <1>1, <1>2, <1>3 DEF Before, Passed
  <2> QED
    BY <2>1, <2>2 DEF Inst
<1>4. ASSUME NEW y \in Of("store"), y.it.val = item.val
      PROVE  y.fn = top.fn /\ y.blk = top.blk /\ y.pos = top.pos + 1
  <2>1. y \in Items /\ y.pos \in Nat /\ y.pos > 1 /\ Before(y) = Inst(y.it.val)
    BY <1>1, StoreIsBehind
  <2>2. /\ y.fn \in Function /\ y.blk \in DOMAIN code[y.fn] /\ y.pos \in 1..Len(code[y.fn][y.blk])
        /\ code[y.fn][y.blk] \in Seq(Item)
    BY <2>1, ItemsAt, ItemsType DEF RunInv, PassInv, Typed
  <2>3. y.pos - 1 \in DOMAIN code[y.fn][y.blk]
    BY <2>1, <2>2
  <2>4. PICK z \in Items : z = Place(y.fn, y.blk, y.pos - 1, Before(y))
    BY <2>2, <2>3, ItemAt DEF Before
  <2>5. z.fn = y.fn /\ z.blk = y.blk /\ z.pos = y.pos - 1 /\ z.it = Inst(item.val)
    BY <1>4, <2>1, <2>4 DEF Place
  <2>6. z \in Of("inst") /\ z.it.val = item.val
    BY <2>5 DEF Of, Inst
  <2>7. PICK x \in Of("inst") : x = Place(top.fn, top.blk, top.pos, item)
    BY <1>1
  <2>8. x.fn = top.fn /\ x.blk = top.blk /\ x.pos = top.pos /\ x.it.val = item.val
    BY <2>7 DEF Place
  <2>9. z = x
    BY <2>6, <2>8 DEF RunInv, CodeInv
  <2> QED
    BY <1>1, <2>1, <2>5, <2>8, <2>9
<1>5. ASSUME NEW y \in Of("store"), y.it.val \in {item.val} \cap ScaleOperations
      PROVE  y.fn = top.fn /\ y.blk = top.blk /\ y.pos = top.pos + 1
  BY <1>4, <1>5
<1>6. {y \in Of("store") : y.fn = top.fn /\ y.blk = top.blk /\ y.pos = top.pos + 1}
         = {y \in Of("store") : y.it.val \in {item.val} \cap ScaleOperations}
  BY <1>3, <1>5
<1> QED
  BY <1>2, <1>6 DEF DueAt, IdsOf

(* Behind a call of oft_print_max_vals, MPI is finalized. *)
LEMMA FinalizeNext ==
    ASSUME RunInv, p \in Programs, phase = "running", outcome = "running", frames # <<>>, Printed(top)
    PROVE  AtItem("inst") /\ item.val \in p.finalizes
<1>1. /\ code \in Code /\ CodeInv /\ top \in Frame /\ Placed(top)
  BY TopIs DEF RunInv, PassInv, Typed
<1>2. top.fn \in Function /\ top.blk \in DOMAIN code[top.fn] /\ Block \in Seq(Item)
  BY <1>1 DEF Frame, Placed, Code, Block
<1>3. top.pos - 1 \in DOMAIN Block /\ top.pos \in Nat /\ (top.pos - 1) + 1 = top.pos
  BY <1>1, <1>2 DEF Placed, Printed, Block
<1>4. PICK x \in Items : x = Place(top.fn, top.blk, top.pos - 1, Passed(top))
  BY <1>2, <1>3, ItemAt DEF Passed, Block
<1>5. x.fn = top.fn /\ x.blk = top.blk /\ x.pos = top.pos - 1 /\ x.it.kind = "print"
  BY <1>4 DEF Place, Printed
<1>6. x \in Of("print")
  BY <1>5 DEF Of
<1>7. PICK y \in Items : y.fn = x.fn /\ y.blk = x.blk /\ y.pos = x.pos + 1 /\ Finalizes(y.it)
  BY <1>1, <1>6 DEF CodeInv
<1>8. top.pos \in DOMAIN Block /\ y.it = item
  BY <1>3, <1>5, <1>7, ItemsAt DEF Block, item
<1> QED
  BY <1>7, <1>8 DEF AtItem, Finalizes, item

(* The place of the process after a step: where nothing is due, or behind an
   operation.                                                                *)
LEMMA TopAfter ==
    ASSUME NEW s, s \in Seq(Frame), s # <<>>, frames' = s, UNCHANGED <<p, code>>
    PROVE  /\ Due' = DueAt(s[1])
           /\ frames' # <<>> /\ (Printed(top)' <=> Printed(s[1]))
<1>1. top' = s[1]
  BY DEF top
<1>2. DueAt(top)' = DueAt(s[1])
  BY <1>1, CodeKept DEF DueAt
<1>3. Printed(top)' <=> Printed(s[1])
  BY <1>1 DEF Printed, Passed
<1> QED
  BY <1>2, <1>3 DEF Due

LEMMA NothingDue ==
    ASSUME RunInv, p \in Programs, RecordInv, phase = "running", UNCHANGED <<p, code>>, outcome = "running",
           last.op = "print" => mpi # "up",
           UNCHANGED <<recorded, reported, created, last, mpi, computed>>, Due = {},
           \/ frames' = <<>>
           \/ \E s : /\ s \in Seq(Frame) /\ s # <<>> /\ frames' = s
                     /\ s[1].pos = 1 \/ Waits(s[1])
    PROVE  RecordInv'
<1>1. IdsOf(computed \cap ScaleOperations)' = IdsOf(computed \cap ScaleOperations)
  BY CodeKept DEF IdsOf
<1>2. CASE frames' = <<>>
  BY <1>1, <1>2 DEF RecordInv, Due
<1>3. ASSUME NEW s, s \in Seq(Frame), s # <<>>, frames' = s, s[1].pos = 1 \/ Waits(s[1])
      PROVE  RecordInv'
  <2>1. DueAt(s[1]) = {}
    BY <1>3, NoneDue DEF Waits
  <2>2. ~Printed(s[1])
    BY <1>3 DEF Waits, Printed
  <2>3. Due' = {} /\ ~Printed(top)'
    BY <1>3, <2>1, <2>2, TopAfter
  <2> QED
    BY <1>1, <2>3 DEF RecordInv
<1> QED
  BY <1>2, <1>3

LEMMA RecordStep ==
    ASSUME RunInv, p \in Programs, RecordInv, TableOnce, Run
    PROVE  RecordInv'
<1>0. /\ PassInv /\ CodeInv /\ Stack(frames) /\ StateInv /\ code \in Code /\ WellFormed(p)
      /\ outcome = "running" /\ UNCHANGED <<p, code>>
  BY RunFacts, ProgramFields DEF RunInv, PassInv, Typed
<1>1. /\ recorded \cup Due = IdsOf(computed \cap ScaleOperations)
      /\ ~created => recorded = {}
      /\ frames # <<>> /\ Printed(top) => last.op = "print" /\ reported = recorded
      /\ last.op = "print" /\ mpi = "up" => frames # <<>> /\ Printed(top)
  BY <1>0 DEF RecordInv
<1>2. /\ IdsOf(computed \cap ScaleOperations)' = IdsOf(computed' \cap ScaleOperations)
      /\ \A V, W : IdsOf(V \cup W) = IdsOf(V) \cup IdsOf(W)
  BY <1>0, CodeKept DEF IdsOf
<1>3. phase = "running" /\ last.op = "print" /\ mpi = "up" => AtItem("inst") /\ item.val \in p.finalizes
  BY <1>0, <1>1, FinalizeNext
<1>4. ASSUME NEW kind, AtItem(kind), frames' = Behind
      PROVE  /\ Due' = DueAt(OneOn(top)) /\ frames' # <<>>
             /\ Printed(top)' <=> kind = "print"
             /\ Due = IF kind = "store" THEN {item.id} ELSE {}
             /\ kind # "inst" => Due' = {}
             /\ item.val \in p.finalizes => Due' = {}
  <2>1. /\ Behind \in Seq(Frame) /\ Behind # <<>> /\ Behind[1] = OneOn(top) /\ OneOn(top) \in Frame
        /\ OneOn(top).pos > 1 /\ Passed(OneOn(top)) = item
    BY <1>0, <1>4, BehindIs DEF Stack
  <2>2. phase = "running" /\ item.kind = kind /\ frames # <<>>
    BY <1>0, <1>4, ItemIs
  <2>3. PICK s : s = Behind
    OBVIOUS
  <2>4. /\ Due' = DueAt(s[1]) /\ frames' # <<>> /\ (Printed(top)' <=> Printed(s[1]))
    BY <1>0, <1>4, <2>1, <2>3, TopAfter
  <2>5. Printed(s[1]) <=> kind = "print"
    BY <2>1, <2>2, <2>3 DEF Printed
  <2>6. kind # "inst" \/ item.val \in p.finalizes => DueAt(OneOn(top)) = {}
    BY <2>1, <2>2, NoneDue
  <2>7. Due = IF kind = "store" THEN {item.id} ELSE {}
    BY <1>4, <2>2, DueAtItem DEF Due
  <2> QED
    BY <2>1, <2>3, <2>4, <2>5, <2>6, <2>7
<1>5. CASE EnterFunction
  <2>1. frames = <<>> /\ UNCHANGED <<recorded, reported, created, last, mpi, computed, outcome>>
    BY <1>5 DEF EnterFunction
  <2>2. Due = {} /\ ~(last.op = "print" /\ mpi = "up")
    BY <1>1, <2>1 DEF Due
  <2>3. Stack(frames)'
    BY StackStep
  <2>4. PICK s : s = <<Entry(p.start[started + 1])>>
    OBVIOUS
  <2>5. frames' = s /\ s # <<>> /\ s[1].pos = 1 /\ s \in Seq(Frame)
    BY <1>5, <2>3, <2>4 DEF EnterFunction, Entry, Stack
  <2>6. Due' = DueAt(s[1]) /\ (Printed(top)' <=> Printed(s[1])) /\ ~Printed(s[1])
    BY <1>0, <2>5, TopAfter DEF Printed
  <2>7. DueAt(s[1]) = {}
    <3> SUFFICES ASSUME NEW y \in Of("store"), y.pos = 1
                 PROVE  FALSE
      BY <2>5 DEF DueAt
    <3> QED
      BY DEF RunInv, PassInv, StoreInv, StoreAt
  <2> QED
    BY <1>1, <1>2, <2>1, <2>2, <2>6, <2>7 DEF RecordInv
<1>6. CASE Execute
  <2>1. /\ AtItem("inst") /\ item.val \notin p.finalizes /\ frames' = Behind
        /\ computed' = computed \cup {item.val}
        /\ UNCHANGED <<recorded, reported, created, last, mpi, outcome>>
    BY <1>6 DEF Execute
  <2>2. ~(last.op = "print" /\ mpi = "up")
    BY <1>3, <2>1 DEF AtItem
  <2>3. Due = {} /\ Due' = IdsOf({item.val} \cap ScaleOperations) /\ ~Printed(top)'
    <3>1. Due = {} /\ Due' = DueAt(OneOn(top)) /\ ~Printed(top)'
      BY <1>4, <2>1
    <3>2. DueAt(OneOn(top)) = IdsOf({item.val} \cap ScaleOperations)
      BY <2>1, DueAfterExecute
    <3> QED
      BY <3>1, <3>2
  <2>4. computed' \cap ScaleOperations = (computed \cap ScaleOperations) \cup ({item.val} \cap ScaleOperations)
    BY <2>1
  <2> QED
    BY <1>1, <1>2, <2>1, <2>2, <2>3, <2>4 DEF RecordInv
<1>7. CASE CallFunction
  <2>1. /\ AtItem("inst") /\ item.val \in DOMAIN p.callee
        /\ frames' = <<Entry(p.callee[item.val])>> \o Behind
        /\ UNCHANGED <<recorded, reported, created, last, mpi, computed>>
    BY <1>7 DEF CallFunction
  <2>2. phase = "running" /\ Due = {} /\ item.val \notin p.finalizes
    BY <1>0, <2>1, ItemIs, DueAtItem DEF Due, WellFormed
  <2>3. PICK s : s = <<Entry(p.callee[item.val])>> \o Behind
    OBVIOUS
  <2>4. s \in Seq(Frame) /\ Len(s) = Len(frames) + 1 /\ s[1] = Entry(p.callee[item.val])
    BY <1>0, <2>1, <2>3, CallIs DEF Stack
  <2>5. s # <<>> /\ s[1].pos = 1
    <3>1. Len(frames) \in Nat /\ Len(<<>>) = 0
      BY <1>0 DEF Stack
    <3> QED
      BY <2>4, <3>1 DEF Entry
  <2>6. last.op = "print" => mpi # "up"
    BY <1>3, <2>2
  <2>7. \E t : t \in Seq(Frame) /\ t # <<>> /\ frames' = t /\ (t[1].pos = 1 \/ Waits(t[1]))
    BY <2>1, <2>3, <2>4, <2>5
  <2> QED
    BY <1>0, <2>1, <2>2, <2>6, <2>7, NothingDue
<1>8. CASE FinalizeMPI
  <2>1. CASE outcome' # "running"
    BY <2>1 DEF RecordInv
  <2>2. CASE outcome' = "running"
    <3>1. /\ AtItem("inst") /\ item.val \in p.finalizes /\ frames' = Behind /\ last'.op = "finalize"
          /\ UNCHANGED <<recorded, reported, created, computed>>
      BY <1>0, <1>8, <2>2 DEF FinalizeMPI
    <3>2. Due = {} /\ Due' = {} /\ ~Printed(top)'
      BY <1>4, <3>1
    <3> QED
      BY <1>1, <1>2, <3>1, <3>2 DEF RecordInv
  <2> QED
    BY <2>1, <2>2
<1>9. CASE oft_init_vals
  <2>1. /\ AtItem("init") /\ recorded' = {} /\ created' = TRUE /\ last'.op = "init" /\ frames' = Behind
        /\ UNCHANGED <<computed, outcome>>
    BY <1>9 DEF oft_init_vals
  <2>2. Due = {} /\ Due' = {} /\ ~Printed(top)'
    BY <1>4, <2>1
  <2>3. recorded = {}
    BY <1>1, <2>1 DEF TableOnce
  <2> QED
    BY <1>1, <1>2, <2>1, <2>2, <2>3 DEF RecordInv
<1>10. CASE oft_store_max_val
  <2>1. CASE outcome' # "running"
    BY <2>1 DEF RecordInv
  <2>2. CASE outcome' = "running"
    <3>1. /\ AtItem("store") /\ recorded' = recorded \cup {item.id} /\ created /\ frames' = Behind
          /\ last'.op = "store" /\ UNCHANGED <<reported, created, computed>>
      BY <1>0, <1>10, <2>2 DEF oft_store_max_val
    <3>2. Due = {item.id} /\ Due' = {} /\ ~Printed(top)'
      BY <1>4, <3>1
    <3> QED
      BY <1>1, <1>2, <3>1, <3>2 DEF RecordInv
  <2> QED
    BY <2>1, <2>2
<1>11. CASE oft_print_max_vals
  <2>1. CASE outcome' # "running"
    BY <2>1 DEF RecordInv
  <2>2. CASE outcome' = "running"
    <3>1. /\ AtItem("print") /\ reported' = recorded /\ frames' = Behind /\ last'.op = "print"
          /\ UNCHANGED <<recorded, created, computed>>
      BY <1>0, <1>11, <2>2 DEF oft_print_max_vals
    <3>2. Due = {} /\ Due' = {} /\ Printed(top)' /\ frames' # <<>>
      BY <1>4, <3>1
    <3> QED
      BY <1>1, <1>2, <3>1, <3>2 DEF RecordInv
  <2> QED
    BY <2>1, <2>2
<1>12. CASE Branch
  <2>1. PICK b \in DOMAIN code[top.fn] \ {1} :
           frames' = <<[fn |-> top.fn, blk |-> b, pos |-> 1]>> \o Tail(frames)
    BY <1>12 DEF Branch
  <2>2. AtEnd /\ UNCHANGED <<recorded, reported, created, last, mpi, computed>>
    BY <1>12 DEF Branch
  <2>3. phase = "running" /\ frames # <<>> /\ Due = {} /\ ~AtItem("inst")
    <3>1. Block \in Seq(Item)
      BY <1>0, <2>2, TopIs DEF Frame, Placed, Code, Block, AtEnd
    <3> QED
      BY <1>0, <2>2, <3>1, NoneDueAtEnd DEF AtEnd, Due, AtItem
  <2>4. PICK s : s = <<[fn |-> top.fn, blk |-> b, pos |-> 1]>> \o Tail(frames)
    OBVIOUS
  <2>5. s \in Seq(Frame) /\ Len(s) = Len(frames) /\ s[1].pos = 1
    BY <1>0, <2>2, <2>4, BranchIs DEF Stack
  <2>6. s # <<>>
    <3>1. Len(frames) \in Nat \ {0} /\ Len(<<>>) = 0
      BY <1>0, <2>3, TopIs
    <3> QED
      BY <2>5, <3>1
  <2>7. \E t : t \in Seq(Frame) /\ t # <<>> /\ frames' = t /\ (t[1].pos = 1 \/ Waits(t[1]))
    BY <2>1, <2>4, <2>5, <2>6
  <2> QED
    BY <1>0, <1>3, <2>2, <2>3, <2>7, NothingDue
<1>13. CASE Return
  <2>2. AtEnd /\ frames' = Tail(frames) /\ UNCHANGED <<recorded, reported, created, last, mpi, computed>>
    BY <1>13 DEF Return
  <2>3. phase = "running" /\ frames # <<>> /\ Due = {} /\ ~AtItem("inst")
    <3>1. Block \in Seq(Item)
      BY <1>0, <2>2, TopIs DEF Frame, Placed, Code, Block, AtEnd
    <3> QED
      BY <1>0, <2>2, <3>1, NoneDueAtEnd DEF AtEnd, Due, AtItem
  <2>4. PICK s : s = Tail(frames)
    OBVIOUS
  <2>5. s \in Seq(Frame) /\ (s # <<>> => Waits(s[1]))
    <3>1. /\ s \in Seq(Frame) /\ Len(s) = Len(frames) - 1 /\ Len(frames) \in Nat \ {0}
          /\ \A i \in 1..(Len(frames) - 1) : s[i] = frames[i + 1]
          /\ \A i \in 2..Len(frames) : Waits(frames[i])
      BY <1>0, <2>3, <2>4, TopIs
    <3>2. s # <<>> => 1 \in 1..(Len(frames) - 1) /\ 1 + 1 = 2 /\ 2 \in 2..Len(frames)
      BY <3>1
    <3> QED
      BY <3>1, <3>2
  <2>7. frames' = <<>> \/ \E t : t \in Seq(Frame) /\ t # <<>> /\ frames' = t /\ (t[1].pos = 1 \/ Waits(t[1]))
    BY <2>2, <2>4, <2>5
  <2> QED
    BY <1>0, <1>3, <2>2, <2>3, <2>7, NothingDue
<1>14. CASE ExitProcess
  BY <1>14 DEF ExitProcess, RecordInv
<1> QED
  BY <1>5, <1>6, <1>7, <1>8, <1>9, <1>10, <1>11, <1>12, <1>13, <1>14 DEF Run

(* At a call that finalizes MPI, the report has been printed. *)
LEMMA CompleteFrom ==
    ASSUME RunInv, p \in Programs, RecordInv
    PROVE  ReportComplete
<1> SUFFICES ASSUME AtItem("inst"), item.val \in p.finalizes
             PROVE  reported = IdsOf(computed \cap ScaleOperations)
  BY DEF ReportComplete
<1>1. /\ phase = "running" /\ outcome = "running" /\ frames # <<>> /\ item.kind = "inst"
      /\ top.pos \in Nat \ {0} /\ Place(top.fn, top.blk, top.pos, item) \in Of("inst")
  BY ItemIs DEF RunInv, PassInv, Typed
<1>2. PICK x \in Items : x = Place(top.fn, top.blk, top.pos, item)
  BY <1>1 DEF Of
<1>3. x.fn = top.fn /\ x.blk = top.blk /\ x.pos = top.pos /\ x.it = item
  BY <1>2 DEF Place
<1>4. x \notin mpi_finalize_calls
  BY <1>1 DEF RunInv, CodeInv
<1>5. top.pos # 1 /\ Passed(top) = PrintCall
  BY <1>1, <1>3, <1>4 DEF mpi_finalize_calls, Passed
<1>6. Printed(top)
  BY <1>1, <1>5 DEF Printed, PrintCall
<1>7. Due = {}
  BY <1>1, DueAtItem DEF Due
<1> QED
  BY <1>1, <1>6, <1>7 DEF RecordInv

ReportOK == RunOK /\ RecordInv

LEMMA ReportInvariant == RunSpec /\ []TableOnce => []ReportOK
<1>1. RunInit => ReportOK
  <2> SUFFICES ASSUME RunInit
               PROVE  RecordInv
    BY RunBegins DEF ReportOK, RunOK
  <2>1. frames = <<>> /\ recorded = {} /\ last.op = "none" /\ computed = {}
    BY DEF RunInit
  <2>2. IdsOf({}) = {}
    <3>1. PICK T : T = {y \in Of("store") : y.it.val \in {}}
      OBVIOUS
    <3> QED
      BY <3>1 DEF IdsOf
  <2>3. computed \cap ScaleOperations = {}
    BY <2>1
  <2> QED
    BY <2>1, <2>2, <2>3 DEF RecordInv, Due
<1>2. ReportOK /\ TableOnce /\ [RunNext]_<<vars, rvars>> => ReportOK'
  <2> SUFFICES ASSUME RunInv, p \in Programs, RecordInv, TableOnce, [RunNext]_<<vars, rvars>>
               PROVE  RecordInv'
    BY RunOKStep DEF ReportOK, RunOK
  <2>1. CASE Pass
    <3>1. Step /\ UNCHANGED rvars
      BY <2>1 DEF Pass
    <3>2. phase # "running"
      BY <3>1 DEF Step, TakeRoot, Skip, findInstructions, EndDetection, instrumentInstruction,
             instrumentInstructionFails, initInstrumentation, finaliseInstrumentation, EndInstrumentation
    <3>3. /\ frames = <<>> /\ recorded = {} /\ last.op = "none" /\ computed = {}
          /\ UNCHANGED <<frames, recorded, last, computed>>
      BY <3>1, <3>2 DEF rvars, RunInv, StateInv, Begins
    <3>4. (IdsOf(computed \cap ScaleOperations) = {})'
      BY <3>3 DEF IdsOf
    <3> QED
      BY <3>3, <3>4 DEF RecordInv, Due
  <2>2. CASE Run
    BY <2>2, RecordStep
  <2>3. CASE UNCHANGED <<vars, rvars>>
    <3>1. UNCHANGED <<p, code, frames, created, recorded, reported, mpi, last, computed, outcome>>
      BY <2>3 DEF vars, rvars
    <3>2. /\ Due' = Due /\ (Printed(top)' <=> Printed(top))
          /\ IdsOf(computed \cap ScaleOperations)' = IdsOf(computed \cap ScaleOperations)
      BY <3>1, CodeKept DEF Due, DueAt, Printed, Passed, top, IdsOf
    <3> QED
      BY <3>1, <3>2 DEF RecordInv
  <2> QED
    BY <2>1, <2>2, <2>3 DEF RunNext, Stopped
<1> QED
  BY <1>1, <1>2, PTL DEF RunSpec

(* As long as the table is not created a second time, nothing is missing in
   the report, whatever the program computes, calls and branches to.         *)
THEOREM ReportWhileTableStays == RunSpec /\ []TableOnce => []ReportComplete
<1>1. ReportOK => ReportComplete
  BY CompleteFrom DEF ReportOK, RunOK
<1> QED
  BY <1>1, ReportInvariant, PTL

-----------------------------------------------------------------------------
(* The table is created once.                                                *)

LEMMA OnceTop ==
    ASSUME RunInv, OnceInv, frames # <<>>, top.fn \in FirstMain
    PROVE  Len(frames) = 1 /\ (created => BehindInit(top)) /\ \E m \in 1..started : p.start[m] = top.fn
<1>1. Len(frames) \in Nat \ {0} /\ top = frames[1]
  BY TopIs DEF RunInv
<1>2. 1 \in 1..Len(frames)
  BY <1>1
<1> QED
  BY <1>1, <1>2 DEF OnceInv, OnceStack

LEMMA OnceFrom ==
    ASSUME RunInv, OnceInv
    PROVE  TableOnce
<1> SUFFICES ASSUME created, AtItem("init")
             PROVE  FALSE
  BY DEF TableOnce
<1>1. /\ phase = "running" /\ frames # <<>> /\ top.pos \in Nat \ {0}
      /\ Place(top.fn, top.blk, top.pos, item) \in Of("init")
  BY ItemIs DEF RunInv, PassInv, Typed
<1>2. PICK x \in Of("init") : x = Place(top.fn, top.blk, top.pos, item)
  BY <1>1
<1>3. /\ x.fn = top.fn /\ x.blk = top.blk /\ x.pos = top.pos /\ InitAt(x)
  BY <1>1, <1>2 DEF Place, RunInv, PassInv, InitInv
<1>4. top.fn \in FirstMain /\ top.blk = 1
  BY <1>3 DEF InitAt
<1>5. top.pos > x.pos
  BY <1>1, <1>2, <1>3, <1>4, OnceTop DEF BehindInit
<1> QED
  BY <1>1, <1>3, <1>5

(* The function on top goes on behind oft_init_vals if it was behind it. *)
LEMMA OnceReplace ==
    ASSUME RunInv, OnceInv, frames # <<>>, NEW s, Len(s) = Len(frames),
           s[1].fn = top.fn, \A i \in 2..Len(frames) : s[i] = frames[i],
           NEW c, top.fn \in FirstMain /\ c => BehindInit(s[1]),
           c => created \/ top.fn \in FirstMain
    PROVE  OnceStack(s, started, c)
<1> SUFFICES ASSUME NEW i \in 1..Len(s), s[i].fn \in FirstMain
             PROVE  /\ i = Len(s) /\ \E m \in 1..started : p.start[m] = s[i].fn
                    /\ c => BehindInit(s[i])
  BY DEF OnceStack
<1>1. Len(frames) \in Nat \ {0} /\ top = frames[1]
  BY TopIs DEF RunInv
<1>2. CASE i = 1
  BY <1>1, <1>2, OnceTop
<1>3. CASE i # 1
  <2>1. i \in 2..Len(frames) /\ i \in 1..Len(frames) /\ s[i] = frames[i]
    BY <1>1, <1>3
  <2>2. /\ i = Len(frames) /\ (created => BehindInit(frames[i]))
        /\ \E m \in 1..started : p.start[m] = frames[i].fn
    BY <2>1 DEF OnceInv, OnceStack
  <2>3. top.fn \notin FirstMain
    BY <1>1, <1>3, <2>2, OnceTop
  <2> QED
    BY <2>1, <2>2, <2>3
<1> QED
  BY <1>2, <1>3

LEMMA OnceStep ==
    ASSUME RunInv, p \in Programs, MainOnce, OnceInv, Run
    PROVE  OnceInv'
<1>0. /\ PassInv /\ CodeInv /\ Stack(frames) /\ StateInv /\ InitInv /\ code \in Code
      /\ phase \in {"done", "running"} /\ UNCHANGED <<p, code>>
      /\ p.start \in Seq(Function) /\ started \in 0..Len(p.start)
      /\ created' = created \/ oft_init_vals
      /\ started' = started \/ EnterFunction
  BY RunFacts, ProgramFields DEF RunInv, PassInv, Typed, StateInv, Program, Run, EnterFunction, ExitProcess,
         Execute, CallFunction, FinalizeMPI, oft_init_vals, oft_store_max_val, oft_print_max_vals, Branch, Return
<1>1. FirstMain' = FirstMain /\ Of("init")' = Of("init")
  BY <1>0, CodeKept
<1>2. ASSUME NEW s, frames' = s, OnceStack(s, started', created'),
             created' => \E m \in 1..started' : p.start[m] \in FirstMain
      PROVE  OnceInv'
  BY <1>0, <1>1, <1>2 DEF OnceInv, OnceStack, BehindInit
<1>3. CASE EnterFunction
  <2>1. /\ started < Len(p.start) /\ started' = started + 1 /\ created' = created
        /\ frames' = <<Entry(p.start[started + 1])>>
    BY <1>3 DEF EnterFunction
  <2>2. started + 1 \in DOMAIN p.start /\ started + 1 \in 1..(started + 1)
        /\ \A m \in 1..started : m \in DOMAIN p.start /\ m # started + 1 /\ m \in 1..(started + 1)
    BY <1>0, <2>1
  <2>3. ASSUME p.start[started + 1] \in FirstMain, created
        PROVE  FALSE
    <3>1. PICK m \in 1..started : p.start[m] \in FirstMain
      BY <2>3 DEF OnceInv
    <3>2. p.start[m] = p.start[started + 1]
      BY <2>3, <3>1, FirstMainIs
    <3> QED
      BY <2>2, <2>3, <3>1, <3>2 DEF MainOnce
  <2>4. PICK s : s = <<Entry(p.start[started + 1])>>
    OBVIOUS
  <2>5. Len(s) = 1 /\ s[1].fn = p.start[started + 1]
    BY <2>4 DEF Entry
  <2>6. OnceStack(s, started + 1, created)
    BY <2>2, <2>3, <2>5 DEF OnceStack
  <2>7. created => \E m \in 1..(started + 1) : p.start[m] \in FirstMain
    BY <2>2 DEF OnceInv
  <2> QED
    BY <1>2, <2>1, <2>4, <2>6, <2>7
<1>4. CASE UNCHANGED <<frames, started, created>>
  BY <1>2, <1>4 DEF OnceInv
<1>5. ASSUME NEW kind, AtItem(kind), frames' = Behind, UNCHANGED <<started, created>>
      PROVE  OnceInv'
  <2>1. PICK s : s = Behind
    OBVIOUS
  <2>2. /\ Len(s) = Len(frames) /\ s[1] = OneOn(top) /\ \A i \in 2..Len(frames) : s[i] = frames[i]
        /\ frames # <<>> /\ top.pos \in Nat
    BY <1>0, <1>5, <2>1, BehindIs, ItemIs
  <2>3. top.fn \in FirstMain /\ created => BehindInit(s[1])
    <3>1. \A x \in Of("init") : x.pos \in Nat
      BY <1>0, ItemsType DEF Of
    <3> QED
      BY <2>2, <3>1, OnceTop DEF BehindInit, OneOn
  <2>4. OnceStack(s, started, created)
    BY <2>2, <2>3, OnceReplace DEF OneOn
  <2> QED
    BY <1>2, <1>5, <2>1, <2>4 DEF OnceInv
<1>6. CASE oft_init_vals
  <2>1. AtItem("init") /\ frames' = Behind /\ created' /\ started' = started
    BY <1>6 DEF oft_init_vals
  <2>2. PICK s : s = Behind
    OBVIOUS
  <2>3. /\ Len(s) = Len(frames) /\ s[1] = OneOn(top) /\ \A i \in 2..Len(frames) : s[i] = frames[i]
        /\ frames # <<>> /\ top.pos \in Nat /\ phase = "running"
        /\ Place(top.fn, top.blk, top.pos, item) \in Of("init")
    BY <1>0, <2>1, <2>2, BehindIs, ItemIs
  <2>4. PICK x \in Of("init") : x = Place(top.fn, top.blk, top.pos, item)
    BY <2>3
  <2>5. /\ x.pos = top.pos /\ x.fn = top.fn /\ x.fn \in FirstMain
        /\ \A y \in Of("init") : y = x
    BY <1>0, <2>3, <2>4 DEF InitInv, InitAt, Place
  <2>6. BehindInit(s[1])
    BY <2>3, <2>5 DEF BehindInit, OneOn
  <2>7. OnceStack(s, started, TRUE)
    <3>1. s[1].fn = top.fn /\ top.fn \in FirstMain
      BY <2>3, <2>5 DEF OneOn
    <3>2. PICK c : c = TRUE
      OBVIOUS
    <3>3. OnceStack(s, started, c)
      BY <2>3, <2>6, <3>1, OnceReplace
    <3> QED
      BY <3>2, <3>3
  <2>8. created' = TRUE
    BY <1>6 DEF oft_init_vals
  <2>9. \E m \in 1..started : p.start[m] \in FirstMain
    BY <2>3, <2>5, OnceTop
  <2> QED
    BY <1>2, <2>1, <2>2, <2>7, <2>8, <2>9
<1>7. CASE CallFunction
  <2>1. /\ AtItem("inst") /\ item.val \in DOMAIN p.callee /\ UNCHANGED <<started, created>>
        /\ frames' = <<Entry(p.callee[item.val])>> \o Behind
    BY <1>7 DEF CallFunction
  <2>2. PICK s : s = <<Entry(p.callee[item.val])>> \o Behind
    OBVIOUS
  <2>3. /\ Len(s) = Len(frames) + 1 /\ s[1] = Entry(p.callee[item.val])
        /\ s[2] = OneOn(top) /\ \A i \in 3..(Len(frames) + 1) : s[i] = frames[i - 1]
        /\ frames # <<>> /\ top.pos \in Nat /\ Len(frames) \in Nat \ {0} /\ top = frames[1]
    BY <1>0, <2>1, <2>2, CallIs, ItemIs, TopIs
  <2>4. s[1].fn \notin FirstMain
    BY <2>1, <2>3 DEF MainOnce, Entry
  <2>5. ASSUME NEW i \in 1..Len(s), s[i].fn \in FirstMain
        PROVE  /\ i = Len(s) /\ \E m \in 1..started : p.start[m] = s[i].fn
               /\ created => BehindInit(s[i])
    <3>1. CASE i = 2
      <4>1. top.fn \in FirstMain /\ s[i].fn = top.fn /\ s[i].blk = top.blk /\ s[i].pos = top.pos + 1
        BY <2>3, <2>5, <3>1 DEF OneOn
      <4>2. \A x \in Of("init") : x.pos \in Nat
        BY <1>0, ItemsType DEF Of
      <4> QED
        BY <2>3, <3>1, <4>1, <4>2, OnceTop DEF BehindInit
    <3>2. CASE i # 2
      <4>1. i \in 3..(Len(frames) + 1) /\ i - 1 \in 1..Len(frames)
        BY <2>3, <2>4, <2>5, <3>2
      <4>2. s[i] = frames[i - 1]
        BY <2>3, <4>1
      <4>3. /\ i - 1 = Len(frames) /\ (created => BehindInit(frames[i - 1]))
            /\ \E m \in 1..started : p.start[m] = frames[i - 1].fn
        BY <2>5, <4>1, <4>2 DEF OnceInv, OnceStack
      <4> QED
        BY <2>3, <4>1, <4>2, <4>3
    <3> QED
      BY <3>1, <3>2
  <2>6. OnceStack(s, started, created)
    BY <2>5 DEF OnceStack
  <2> QED
    BY <1>2, <2>1, <2>2, <2>6 DEF OnceInv
<1>8. CASE Branch
  <2>1. PICK b \in DOMAIN code[top.fn] \ {1} :
           frames' = <<[fn |-> top.fn, blk |-> b, pos |-> 1]>> \o Tail(frames)
    BY <1>8 DEF Branch
  <2>2. PICK s : s = <<[fn |-> top.fn, blk |-> b, pos |-> 1]>> \o Tail(frames)
    OBVIOUS
  <2>3. /\ Len(s) = Len(frames) /\ s[1] = [fn |-> top.fn, blk |-> b, pos |-> 1]
        /\ \A i \in 2..Len(frames) : s[i] = frames[i]
        /\ frames # <<>> /\ UNCHANGED <<started, created>>
    BY <1>0, <1>8, <2>2, BranchIs DEF Branch, AtEnd
  <2>4. BehindInit(s[1])
    BY <2>3 DEF BehindInit
  <2>5. OnceStack(s, started, created)
    BY <2>3, <2>4, OnceReplace
  <2> QED
    BY <1>2, <2>1, <2>2, <2>3, <2>5 DEF OnceInv
<1>9. CASE Return
  <2>1. PICK s : s = Tail(frames)
    OBVIOUS
  <2>2. frames' = s /\ frames # <<>> /\ UNCHANGED <<started, created>>
    BY <1>9, <2>1 DEF Return, AtEnd
  <2>3. /\ Len(s) = Len(frames) - 1 /\ Len(frames) \in Nat \ {0}
        /\ \A i \in 1..(Len(frames) - 1) : s[i] = frames[i + 1]
    BY <1>0, <2>1, <2>2, TopIs
  <2>4. ASSUME NEW i \in 1..Len(s), s[i].fn \in FirstMain
        PROVE  /\ i = Len(s) /\ \E m \in 1..started : p.start[m] = s[i].fn
               /\ created => BehindInit(s[i])
    <3>1. i + 1 \in 1..Len(frames) /\ s[i] = frames[i + 1] /\ (i + 1 = Len(frames) => i = Len(s))
      BY <2>3, <2>4
    <3> QED
      BY <2>4, <3>1 DEF OnceInv, OnceStack
  <2>5. OnceStack(s, started, created)
    BY <2>4 DEF OnceStack
  <2> QED
    BY <1>2, <2>2, <2>5 DEF OnceInv
<1>10. CASE Execute \/ FinalizeMPI \/ oft_store_max_val \/ oft_print_max_vals
  <2>1. /\ UNCHANGED <<started, created>>
        /\ frames' = frames \/ \E kind \in ItemKind : AtItem(kind) /\ frames' = Behind
    BY <1>10 DEF Execute, FinalizeMPI, oft_store_max_val, oft_print_max_vals, ItemKind
  <2> QED
    BY <1>4, <1>5, <2>1
<1>11. CASE ExitProcess
  BY <1>4, <1>11 DEF ExitProcess
<1> QED
  BY <1>3, <1>6, <1>7, <1>8, <1>9, <1>10, <1>11 DEF Run

OnceOK == RunOK /\ MainOnce /\ OnceInv

LEMMA OnceInvariant == RunSpec /\ MainOnce => []OnceOK
<1>1. RunInit /\ MainOnce => OnceOK
  <2> SUFFICES ASSUME RunInit
               PROVE  OnceInv
    BY RunBegins DEF OnceOK, RunOK
  <2>1. frames = <<>> /\ created = FALSE
    BY DEF RunInit
  <2> QED
    BY <2>1 DEF OnceInv, OnceStack
<1>2. OnceOK /\ [RunNext]_<<vars, rvars>> => OnceOK'
  <2> SUFFICES ASSUME RunInv, p \in Programs, MainOnce, OnceInv, [RunNext]_<<vars, rvars>>
               PROVE  MainOnce' /\ OnceInv'
    BY RunOKStep DEF OnceOK, RunOK
  <2>1. p' = p
    <3>1. Step => p' = p
      BY DEF Step, TakeRoot, Skip, findInstructions, EndDetection, instrumentInstruction,
         instrumentInstructionFails, initInstrumentation, finaliseInstrumentation, EndInstrumentation
    <3> QED
      BY <3>1 DEF RunNext, Pass, Run, Stopped, vars
  <2>2. MainOnce'
    BY <2>1 DEF MainOnce, FirstMain
  <2>3. CASE Run
    BY <2>3, OnceStep, <2>2
  <2>4. CASE Pass
    <3>1. Step /\ UNCHANGED rvars
      BY <2>4 DEF Pass
    <3>2. phase # "running"
      BY <3>1 DEF Step, TakeRoot, Skip, findInstructions, EndDetection, instrumentInstruction,
             instrumentInstructionFails, initInstrumentation, finaliseInstrumentation, EndInstrumentation
    <3>3. frames' = <<>> /\ created' = FALSE
      BY <3>1, <3>2 DEF rvars, RunInv, StateInv, Begins
    <3> QED
      BY <2>2, <3>3 DEF OnceInv, OnceStack
  <2>5. CASE UNCHANGED <<vars, rvars>>
    <3>1. UNCHANGED <<p, code, frames, started, created>>
      BY <2>5 DEF vars, rvars
    <3> QED
      BY <2>2, <3>1, CodeKept DEF OnceInv, OnceStack, BehindInit
  <2> QED
    BY <2>3, <2>4, <2>5 DEF RunNext, Stopped
<1> QED
  BY <1>1, <1>2, PTL DEF RunSpec

LEMMA TableCreatedOnce == RunSpec /\ MainOnce => []TableOnce
<1>1. OnceOK => TableOnce
  BY OnceFrom DEF OnceOK, RunOK
<1> QED
  BY <1>1, OnceInvariant, PTL

(* Nothing that was computed is missing in the report: wherever MPI is about
   to be finalized, the table was gathered with an entry for each overflowable
   operation below a scale variable that was executed, and with no other.    *)
THEOREM ReportIsComplete == RunSpec /\ MainOnce => []ReportComplete
BY TableCreatedOnce, ReportWhileTableStays, PTL

-----------------------------------------------------------------------------
(* The contract with the runtime.                                            *)

LEMMA ContractStep ==
    ASSUME RunInv, RunInv', p \in Programs, RecordInv, TableOnce, Run, StartsInMain, outcome' # "error"
    PROVE  Client!Next \/ UNCHANGED Client!vars
<1>0. /\ PassInv /\ StateInv /\ InitInv /\ Stack(frames) /\ code \in Code
      /\ outcome = "running" /\ created \in BOOLEAN /\ mpi \in {"up", "finalized"}
      /\ WellFormed(p) /\ StartsInMain' /\ StateInv'
  <2>1. UNCHANGED p
    BY RunFacts
  <2>2. StartsInMain' = StartsInMain
    BY <2>1 DEF StartsInMain, FirstMain
  <2> QED
    BY <2>2, RunFacts, ProgramFields DEF RunInv, PassInv, Typed, StateInv
<1>1. ASSUME NEW kind, AtItem(kind), ~created
      PROVE  kind = "init" \/ (kind = "inst" /\ item.val \in p.dbg)
  <2>1. phase = "running" /\ item.kind = kind
    BY <1>1 DEF AtItem, item
  <2> QED
    BY <1>0, <1>1, <2>1, BeforeInit
<1>2. phase = "running" /\ last.op = "print" /\ mpi = "up" => AtItem("inst") /\ item.val \in p.finalizes
  BY <1>0, FinalizeNext DEF RecordInv
<1>3. CASE UNCHANGED <<created, TABLE_LEN, mpi, last>>
  BY <1>3 DEF Client!vars
<1>4. CASE FinalizeMPI
  <2>1. /\ AtItem("inst") /\ item.val \in p.finalizes /\ mpi = "up" /\ mpi' = "finalized"
        /\ last' = [op |-> "finalize", arg |-> 0] /\ UNCHANGED <<created, TABLE_LEN>>
    BY <1>4 DEF FinalizeMPI
  <2>2. created
    BY <1>0, <1>1, <2>1 DEF WellFormed
  <2>3. last.op = "print"
    <3>1. frames # <<>> /\ item.kind = "inst" /\ top.pos \in Nat \ {0} /\ phase = "running"
          /\ Place(top.fn, top.blk, top.pos, item) \in Of("inst")
      BY <1>0, <2>1, ItemIs
    <3>2. PICK x \in Items : x = Place(top.fn, top.blk, top.pos, item)
      BY <3>1 DEF Of
    <3>3. x.fn = top.fn /\ x.blk = top.blk /\ x.pos = top.pos /\ x.it = item
      BY <3>2 DEF Place
    <3>4. x \notin mpi_finalize_calls
      BY <3>1 DEF RunInv, CodeInv
    <3>5. Printed(top)
      BY <2>1, <3>1, <3>3, <3>4 DEF mpi_finalize_calls, Passed, Printed, PrintCall
    <3> QED
      BY <1>0, <3>1, <3>5 DEF RecordInv
  <2>4. Client!MPI_Finalize
    BY <2>1, <2>2, <2>3 DEF Client!MPI_Finalize, Client!Call
  <2> QED
    BY <2>4 DEF Client!Next
<1>5. CASE oft_init_vals
  <2>1. /\ AtItem("init") /\ created' = TRUE /\ TABLE_LEN' = item.id /\ mpi' = mpi
        /\ last' = [op |-> "init", arg |-> item.id]
    BY <1>5 DEF oft_init_vals
  <2>2. ~created /\ phase = "running"
    BY <2>1 DEF TableOnce, AtItem
  <2>3. mpi = "up"
    BY <1>0, <2>2 DEF RunInv, MainInv
  <2>4. Client!oft_init_vals
    BY <2>1, <2>2, <2>3 DEF Client!oft_init_vals, Client!Call
  <2> QED
    BY <2>4 DEF Client!Next
<1>6. CASE oft_store_max_val
  <2>1. /\ AtItem("store") /\ last' = [op |-> "store", arg |-> item.id]
        /\ UNCHANGED <<created, TABLE_LEN, mpi>>
        /\ (created /\ item.id < TABLE_LEN) \/ outcome' = "undefined"
    BY <1>6 DEF oft_store_max_val
  <2>2. created /\ item.id < TABLE_LEN
    BY <1>0, <2>1 DEF StateInv
  <2>3. phase = "running" /\ item.kind = "store" /\ item.id \in Nat
    BY <1>0, <2>1, ItemIs DEF Item
  <2>4. mpi = "finalized" \/ last.op # "print"
    BY <1>0, <1>2, <2>1, <2>3 DEF AtItem, item
  <2>5. item.id \in 0..(TABLE_LEN - 1)
    <3>1. TABLE_LEN \in Nat
      <4>1. Cardinality(Value) \in Nat
        BY ValueAssumption, FS_CardinalityType
      <4> QED
        BY <1>0, <2>2, <4>1 DEF StateInv, PassInv, Typed, TypeOK
    <3> QED
      BY <2>2, <2>3, <3>1
  <2>6. Client!oft_store_max_val
    BY <1>0, <2>1, <2>2, <2>4, <2>5 DEF Client!oft_store_max_val, Client!Call
  <2> QED
    BY <2>6 DEF Client!Next
<1>7. CASE oft_print_max_vals
  <2>1. /\ AtItem("print") /\ mpi = "up" /\ mpi' = "up" /\ last' = [op |-> "print", arg |-> 0]
        /\ UNCHANGED <<created, TABLE_LEN>>
    BY <1>7 DEF oft_print_max_vals
  <2>2. created
    BY <1>1, <2>1
  <2>3. last.op # "print"
    BY <1>2, <2>1 DEF AtItem
  <2>4. Client!oft_print_max_vals
    BY <2>1, <2>2, <2>3 DEF Client!oft_print_max_vals, Client!Call
  <2> QED
    BY <2>4 DEF Client!Next
<1>8. CASE EnterFunction \/ ExitProcess \/ Execute \/ CallFunction \/ Branch \/ Return
  BY <1>3, <1>8 DEF EnterFunction, ExitProcess, Execute, CallFunction, Branch, Return
<1> QED
  BY <1>4, <1>5, <1>6, <1>7, <1>8 DEF Run

(* The instrumented program calls the runtime as the runtime expects: it
   creates the table once, stores only IDs of the table, and gathers it as the
   last thing before MPI is finalized; unless it finalizes MPI twice.        *)
THEOREM ContractIsKept == RunSpec /\ MainOnce => KeepsContract
<1>1. /\ ReportOK /\ ReportOK' /\ TableOnce /\ [RunNext]_<<vars, rvars>>
      => [StartsInMain /\ outcome' # "error" => [Client!Next]_Client!vars]_<<vars, rvars>>
  <2> SUFFICES ASSUME RunInv, RunInv', p \in Programs, RecordInv, TableOnce, [RunNext]_<<vars, rvars>>,
                      StartsInMain, outcome' # "error"
               PROVE  Client!Next \/ UNCHANGED Client!vars
    BY DEF ReportOK, RunOK
  <2>1. CASE Run
    BY <2>1, ContractStep
  <2>2. CASE Pass \/ UNCHANGED <<vars, rvars>>
    BY <2>2 DEF Pass, rvars, Client!vars
  <2> QED
    BY <2>1, <2>2 DEF RunNext, Stopped
<1> QED
  BY <1>1, TableCreatedOnce, ReportInvariant, PTL DEF RunSpec, KeepsContract
==============================================================================
