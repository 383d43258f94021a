------------------------ MODULE BackwardTracing_proofs ------------------------
(* For every module, however its casts, GEPs, memory and calls are wired:
   followBwd goes back through every caller once, the references are what
   unrolling its traces gives, and tracing back and forth comes to undefined
   behaviour only where the module gives a reason.                           *)
EXTENDS BackwardTracing, FiniteSetTheorems, WellFoundedInduction, NaturalsInduction, TLAPS

-----------------------------------------------------------------------------
(* Programs. *)

LEMMA Fields ==
    ASSUME b \in Programs
    PROVE  /\ b.start \in Value /\ b.m.calls \subseteq Value
           /\ \A v \in Value : /\ b.m.users[v] \subseteq Value /\ b.m.memUses[v] \subseteq Value
                               /\ b.m.callee[v] \in CalleeKind
                               /\ b.m.operands[v] \in Seq(Value) /\ b.m.formals[v] \in Seq(Value)
                               /\ b.def[v] \in Value
                               /\ b.kind[v] \in {"bitcast", "gep", "load", "store"} => b.m.operands[v] # <<>>
<1>1. b \in Program /\ WellFormed(b)
  BY ProgramsAssumption
<1>2. b.start \in Value /\ b.def \in [Value -> Value] /\ b.m \in IRModule
  BY <1>1 DEF Program
<1>3. /\ b.m.calls \subseteq Value
      /\ \A v \in Value : /\ b.m.users[v] \subseteq Value /\ b.m.memUses[v] \subseteq Value
                          /\ b.m.callee[v] \in CalleeKind
                          /\ b.m.operands[v] \in Seq(Value) /\ b.m.formals[v] \in Seq(Value)
  <2> DEFINE m == b.m
  <2>1. m \in IRModule
    BY <1>2
  <2> HIDE DEF m
  <2>2. /\ m.calls \subseteq Value
        /\ \A v \in Value : /\ m.users[v] \subseteq Value /\ m.memUses[v] \subseteq Value
                            /\ m.callee[v] \in CalleeKind
                            /\ m.operands[v] \in Seq(Value) /\ m.formals[v] \in Seq(Value)
    BY <2>1 DEF IRModule
  <2> QED
    BY <2>2 DEF m
<1> QED
  BY <1>1, <1>2, <1>3 DEF WellFormed

LEMMA StepBackType ==
    ASSUME b \in Programs, NEW v \in Value
    PROVE  StepBack(b, v) \in Value
<1>1. b.m.operands[v] \in Seq(Value) /\ b.def[v] \in Value
  BY Fields
<1>2. ASSUME b.kind[v] \in {"bitcast", "gep", "load", "store"}
      PROVE  b.m.operands[v][1] \in Value
  BY <1>1, <1>2, Fields
<1> QED
  BY <1>1, <1>2 DEF StepBack, getStore

LEMMA BelowType ==
    ASSUME b \in Programs, NEW v \in Value
    PROVE  Below(v) \subseteq Value
<1>1. b.m.users[v] \subseteq Value
  BY Fields
<1>2. \A s \in UsersOf(v, {"store"}) : b.m.memUses[s] \subseteq Value
  BY <1>1, Fields DEF UsersOf
<1>3. \A c \in CallUsers(v) : getCallArgs(b.m, c, v) \subseteq Value
  <2> SUFFICES ASSUME NEW c \in CallUsers(v)
               PROVE  getCallArgs(b.m, c, v) \subseteq Value
    OBVIOUS
  <2>1. b.m.formals[c] \in Seq(Value)
    BY <1>1, Fields DEF CallUsers
  <2>2. \A i \in DOMAIN b.m.formals[c] : b.m.formals[c][i] \in Value
    BY <2>1
  <2> QED
    BY <2>2 DEF getCallArgs
<1>4. UsersOf(v, Kind \ {"gep", "store"}) \subseteq Value
  BY <1>1 DEF UsersOf
<1>5. UNION {b.m.memUses[s] : s \in UsersOf(v, {"store"})} \subseteq Value
  BY <1>2
<1>6. UNION {getCallArgs(b.m, c, v) : c \in CallUsers(v)} \subseteq Value
  BY <1>3
<1> QED
  BY <1>4, <1>5, <1>6 DEF Below

-----------------------------------------------------------------------------
(* The first place in a sequence. *)

LEMMA MinIs ==
    ASSUME NEW S \in SUBSET Nat, S # {}
    PROVE  Min(S) \in S /\ \A i \in S : Min(S) <= i
<1> DEFINE Less == {ss \in Nat \X Nat : ss[1] < ss[2]}
<1>1. IsWellFoundedOn(Less, Nat)
  BY NatLessThanWellFounded DEF OpToRel
<1> HIDE DEF Less
<1>2. PICK i \in S : \A j \in S : <<j, i>> \notin Less
  BY <1>1, WFMin
<1>3. \A j \in S : ~(j < i)
  BY <1>2 DEF Less
<1>4. \A j \in S : i <= j
  BY <1>3
<1> QED
  BY <1>4 DEF Min

LEMMA ArgNoIs ==
    ASSUME b \in Programs, NEW c \in Value, NEW a, a \in ToSet(b.m.formals[c])
    PROVE  ArgNo(c, a) \in 1..Len(b.m.formals[c])
<1> DEFINE I == {i \in 1..Len(b.m.formals[c]) : b.m.formals[c][i] = a}
<1>1. b.m.formals[c] \in Seq(Value)
  BY Fields
<1>2. I # {} /\ I \in SUBSET Nat
  BY <1>1 DEF ToSet
<1>3. ArgNo(c, a) = IF I # {} THEN Min(I) ELSE 0
  BY DEF ArgNo, SelectInSeq
<1>4. I \subseteq 1..Len(b.m.formals[c])
  OBVIOUS
<1> HIDE DEF I
<1> QED
  BY <1>2, <1>3, <1>4, MinIs

LEMMA RootAtIs ==
    ASSUME NEW t \in Seq(Value)
    PROVE  RootAt(t) = 0 \/ RootAt(t) \in 1..Len(t)
<1> DEFINE I == {i \in 1..Len(t) : IsRoot(t[i])}
<1>1. I \in SUBSET Nat /\ I \subseteq 1..Len(t)
  OBVIOUS
<1>2. RootAt(t) = IF I # {} THEN Min(I) ELSE 0
  BY DEF RootAt, SelectInSeq
<1> HIDE DEF I
<1> QED
  BY <1>1, <1>2, MinIs

LEMMA ReadPartIs ==
    ASSUME NEW t \in Seq(Value)
    PROVE  GepsOf(t) \subseteq DOMAIN t /\ ToSet(ReadPart(t)) \subseteq Value
<1>1. RootAt(t) = 0 \/ RootAt(t) \in 1..Len(t)
  BY RootAtIs
<1>2. ReadPart(t) \in Seq(Value) /\ Len(ReadPart(t)) <= Len(t) /\ Len(ReadPart(t)) \in Nat
  <2>1. CASE RootAt(t) = 0
    BY <2>1 DEF ReadPart
  <2>2. CASE RootAt(t) \in 1..Len(t)
    <3> DEFINE n == RootAt(t)
    <3>1. n \in 1..Len(t) /\ ReadPart(t) = SubSeq(t, 1, n)
      BY <2>2 DEF ReadPart
    <3> HIDE DEF n
    <3> QED
      BY <3>1
  <2> QED
    BY <1>1, <2>1, <2>2
<1>3. DOMAIN ReadPart(t) \subseteq DOMAIN t
  BY <1>2
<1> QED
  BY <1>2, <1>3 DEF GepsOf, ToSet

-----------------------------------------------------------------------------
(* The inductive invariant. *)

(* The call through which a trace left the function of the scale variable. *)
Through(t) == t[Len(vt2) + 1]
Leaves(t) == Len(t) > Len(vt2) /\ Through(t) \in Callers(Last(vt2)) \ calls

(* Each caller is still to come, the one the trace is in, or that of exactly
   one finished trace.                                                      *)
CallersInv ==
    /\ vt2 = <<>> => calls = {} /\ (phase = "follow" => results = {})
    /\ vt2 # <<>> =>
          /\ calls \subseteq Callers(Last(vt2))
          /\ \A t \in results : Leaves(t)
          /\ \A t, u \in results : Through(t) = Through(u) => t = u
          /\ phase = "follow" => Leaves(vt) /\ \A t \in results : Through(t) # Through(vt)
          /\ phase # "undefined" =>
                \A c \in Callers(Last(vt2)) \ calls :
                   (phase = "follow" /\ c = Through(vt)) \/ \E t \in results : c = Through(t)
    /\ phase \in {"traces", "unroll", "find", "done"} => calls = {}

BackInv == TypeOK /\ CallersInv /\ UndefinedOnlyForReason

LEMMA InitBack == Init => BackInv
<1> SUFFICES ASSUME Init
             PROVE  BackInv
  OBVIOUS
<1>1. b.start \in Value
  BY Fields DEF Init
<1>2. TypeOK
  BY <1>1 DEF Init, TypeOK, Phase, ToSet
<1>3. CallersInv
  BY DEF Init, CallersInv
<1>4. UndefinedOnlyForReason
  BY DEF Init, UndefinedOnlyForReason
<1> QED
  BY <1>2, <1>3, <1>4 DEF BackInv

-----------------------------------------------------------------------------
(* Going back. *)

LEMMA VtLast ==
    ASSUME TypeOK
    PROVE  b \in Programs /\ Len(vt) \in Nat \ {0} /\ Last(vt) \in Value
<1>1. vt \in Seq(Value) /\ vt # <<>> /\ b \in Programs
  BY DEF TypeOK
<1> QED
  BY <1>1 DEF Last

LEMMA CallersAre ==
    ASSUME b \in Programs, NEW a
    PROVE  \A c \in Callers(a) : c \in b.m.calls /\ c \in Value /\ a \in ToSet(b.m.formals[c])
BY Fields DEF Callers

LEMMA FollowStep ==
    ASSUME BackInv, followBwdUpToArg
    PROVE  BackInv'
<1> DEFINE V == StepBack(b, Last(vt))
<1>1. /\ phase = "follow" /\ vt' = Append(vt, V) /\ Visited' = Visited \cup {V}
      /\ UNCHANGED <<b, phase, vt2, calls, results, left, trace, traceGeps, traceRoots, pending, visited, geps, refs>>
  BY DEF followBwdUpToArg, forth
<1>2. TypeOK /\ CallersInv /\ vt \in Seq(Value) /\ vt # <<>> /\ vt2 \in Seq(Value) /\ Visited \subseteq ToSet(vt)
  BY DEF BackInv, TypeOK
<1>3. V \in Value
  BY <1>2, VtLast, StepBackType
<1> HIDE DEF V
<1>4. /\ vt' \in Seq(Value) /\ vt' # <<>> /\ Len(vt') = Len(vt) + 1 /\ Len(vt) \in Nat
      /\ \A i \in 1..Len(vt) : vt'[i] = vt[i]
      /\ vt'[Len(vt) + 1] = V
  BY <1>1, <1>2, <1>3
<1>5. TypeOK'
  <2>1. ToSet(vt) \cup {V} \subseteq ToSet(vt')
    <3>1. 1..Len(vt) \subseteq DOMAIN vt' /\ Len(vt) + 1 \in DOMAIN vt' /\ DOMAIN vt = 1..Len(vt)
      BY <1>2, <1>4
    <3> QED
      BY <1>4, <3>1 DEF ToSet
  <2> QED
    BY <1>1, <1>2, <1>4, <2>1 DEF TypeOK
<1>6. CallersInv'
  <2>1. ASSUME vt2 # <<>>
        PROVE  Leaves(vt)' /\ Through(vt)' = Through(vt)
    <3>1. Leaves(vt)
      BY <1>1, <1>2, <2>1 DEF CallersInv
    <3>2. Len(vt2) + 1 \in 1..Len(vt) /\ Len(vt2) \in Nat
      BY <1>2, <3>1 DEF Leaves
    <3>3. Len(vt') > Len(vt2) /\ vt'[Len(vt2) + 1] = vt[Len(vt2) + 1]
      BY <1>4, <3>2
    <3> QED
      BY <1>1, <3>1, <3>3 DEF Leaves, Through, Callers, Last
  <2>2. \A t : Leaves(t)' <=> Leaves(t)
    BY <1>1 DEF Leaves, Through, Callers, Last
  <2> QED
    BY <1>1, <1>2, <2>1 DEF CallersInv, Leaves, Through, Callers, Last
<1>7. UndefinedOnlyForReason'
  BY <1>1 DEF UndefinedOnlyForReason
<1> QED
  BY <1>5, <1>6, <1>7 DEF BackInv

(* The trace of one caller, or the only one, is done. *)
LEMMA EndTraceStep ==
    ASSUME BackInv, EndTrace
    PROVE  BackInv'
<1>1. /\ phase = "follow" /\ results' = results \cup {vt} /\ phase' = "callers"
      /\ UNCHANGED <<b, vt, Visited, vt2, calls, left, trace, traceGeps, traceRoots, pending, visited, geps, refs>>
  BY DEF EndTrace, AtEnd, forth
<1>2. TypeOK /\ CallersInv
  BY DEF BackInv
<1>3. TypeOK'
  BY <1>1, <1>2 DEF TypeOK, Phase
<1>4. CallersInv'
  <2>1. \A t : Leaves(t)' = Leaves(t) /\ Through(t)' = Through(t)
    BY <1>1 DEF Leaves, Through, Callers, Last
  <2>2. (Callers(Last(vt2)))' = Callers(Last(vt2))
    BY <1>1 DEF Callers, Last
  <2>3. CASE vt2 = <<>>
    BY <1>1, <1>2, <2>3 DEF CallersInv
  <2>4. CASE vt2 # <<>>
    <3>1. /\ calls \subseteq Callers(Last(vt2))
          /\ \A t \in results : Leaves(t)
          /\ \A t, u \in results : Through(t) = Through(u) => t = u
          /\ Leaves(vt) /\ \A t \in results : Through(t) # Through(vt)
          /\ \A c \in Callers(Last(vt2)) \ calls : c = Through(vt) \/ \E t \in results : c = Through(t)
      BY <1>1, <1>2, <2>4 DEF CallersInv
    <3>2. \A t \in results' : Leaves(t)'
      BY <1>1, <2>1, <3>1
    <3>3. \A t, u \in results' : Through(t)' = Through(u)' => t = u
      BY <1>1, <2>1, <3>1
    <3>4. \A c \in Callers(Last(vt2)) \ calls : \E t \in results' : c = Through(t)'
      BY <1>1, <2>1, <3>1
    <3> HIDE DEF Leaves, Through
    <3> QED
      BY <1>1, <2>2, <2>4, <3>1, <3>2, <3>3, <3>4 DEF CallersInv
  <2> QED
    BY <2>3, <2>4
<1>5. UndefinedOnlyForReason'
  BY <1>1 DEF UndefinedOnlyForReason
<1> QED
  BY <1>3, <1>4, <1>5 DEF BackInv

LEMMA FollowArgStep ==
    ASSUME BackInv, followArg
    PROVE  BackInv'
<1>1. /\ phase = "follow" /\ vt2 = <<>> /\ vt2' = vt /\ calls' = Callers(Last(vt)) /\ phase' = "callers"
      /\ UNCHANGED <<b, vt, Visited, results, left, trace, traceGeps, traceRoots, pending, visited, geps, refs>>
  BY DEF followArg, AtEnd, AtArgument, forth
<1>2. TypeOK /\ CallersInv /\ b \in Programs /\ results = {} /\ vt \in Seq(Value) /\ vt # <<>>
  BY <1>1 DEF BackInv, TypeOK, CallersInv
<1>3. TypeOK'
  <2>1. calls' \subseteq b.m.calls
    BY <1>1 DEF Callers
  <2> QED
    BY <1>1, <1>2, <2>1 DEF TypeOK, Phase
<1>4. CallersInv'
  <2>1. calls' = Callers(Last(vt2))'
    BY <1>1 DEF Callers, Last
  <2> QED
    BY <1>1, <1>2, <2>1 DEF CallersInv
<1>5. UndefinedOnlyForReason'
  BY <1>1 DEF UndefinedOnlyForReason
<1> QED
  BY <1>3, <1>4, <1>5 DEF BackInv

(* One caller more: the trace that is followed from here leaves through it. *)
LEMMA TakeCallStep ==
    ASSUME BackInv, NEW c \in calls, TakeCall(c)
    PROVE  BackInv'
<1> DEFINE n == ArgNo(c, Last(vt2))
           a == b.m.operands[c][n]
<1>1. /\ phase = "callers" /\ n \in DOMAIN b.m.operands[c]
      /\ calls' = calls \ {c} /\ vt' = vt2 \o <<c, a>> /\ Visited' = {a} /\ phase' = "follow"
      /\ UNCHANGED <<b, vt2, results, left, trace, traceGeps, traceRoots, pending, visited, geps, refs>>
  BY DEF TakeCall, forth
<1>2. TypeOK /\ CallersInv /\ b \in Programs /\ calls \subseteq b.m.calls /\ vt2 \in Seq(Value) /\ c \in b.m.calls
  BY DEF BackInv, TypeOK
<1>3. c \in Value /\ b.m.operands[c] \in Seq(Value)
  BY <1>2, Fields
<1>4. a \in Value
  <2> HIDE DEF n
  <2> QED
    BY <1>1, <1>3
<1> HIDE DEF a, n
<1>5. /\ vt' \in Seq(Value) /\ vt' # <<>> /\ Len(vt') = Len(vt2) + 2 /\ Len(vt2) \in Nat
      /\ vt'[Len(vt2) + 1] = c /\ vt'[Len(vt2) + 2] = a
  BY <1>1, <1>2, <1>3, <1>4
<1>6. TypeOK'
  <2>1. a \in ToSet(vt')
    BY <1>5 DEF ToSet
  <2> QED
    BY <1>1, <1>2, <1>5, <2>1 DEF TypeOK, Phase
<1>7. CallersInv'
  <2>1. vt2 # <<>>
    BY <1>2 DEF CallersInv
  <2>2. /\ calls \subseteq Callers(Last(vt2))
        /\ \A t \in results : Leaves(t)
        /\ \A t, u \in results : Through(t) = Through(u) => t = u
        /\ \A d \in Callers(Last(vt2)) \ calls : \E t \in results : d = Through(t)
    BY <1>1, <1>2, <2>1 DEF CallersInv
  <2>3. (Callers(Last(vt2)))' = Callers(Last(vt2)) /\ \A t : Through(t)' = Through(t)
    BY <1>1 DEF Callers, Last, Through
  <2>4. \A t : Leaves(t)' <=> Len(t) > Len(vt2) /\ Through(t) \in Callers(Last(vt2)) \ calls'
    BY <1>1, <2>3 DEF Leaves
  <2>5. Through(vt)' = c
    BY <1>1, <1>5 DEF Through
  <2>6. Leaves(vt)'
    <3>1. Len(vt') > Len(vt2) /\ c \in Callers(Last(vt2)) \ calls'
      BY <1>1, <1>5, <2>2
    <3> QED
      BY <1>1, <2>3, <2>5, <3>1 DEF Leaves
  <2>7. \A t \in results : Leaves(t)' /\ Through(t) # c
    BY <1>1, <2>2, <2>4 DEF Leaves
  <2>8. \A d \in Callers(Last(vt2)) \ calls' : d = c \/ \E t \in results : d = Through(t)
    BY <1>1, <2>2
  <2>9. calls' \subseteq Callers(Last(vt2))
    BY <1>1, <2>2
  <2> HIDE DEF Leaves, Through
  <2> QED
    BY <1>1, <2>1, <2>2, <2>3, <2>5, <2>6, <2>7, <2>8, <2>9 DEF CallersInv
<1>8. UndefinedOnlyForReason'
  BY <1>1 DEF UndefinedOnlyForReason
<1> QED
  BY <1>6, <1>7, <1>8 DEF BackInv

(* What the steps behind followBwd keep. *)
LEMMA CallersKept ==
    ASSUME CallersInv, phase \notin {"follow", "undefined"}, phase' # "follow", UNCHANGED <<b, back>>,
           phase' \in {"traces", "unroll", "find", "done"} => calls = {}
    PROVE  CallersInv'
<1>1. UNCHANGED <<b, vt, Visited, vt2, calls, results>>
  BY DEF back
<1>2. \A t : Leaves(t)' = Leaves(t) /\ Through(t)' = Through(t)
  BY <1>1 DEF Leaves, Through, Callers, Last
<1>3. (Callers(Last(vt2)))' = Callers(Last(vt2))
  BY <1>1 DEF Callers, Last
<1> HIDE DEF Leaves, Through
<1> QED
  BY <1>1, <1>2, <1>3 DEF CallersInv

LEMMA UndefinedStep ==
    ASSUME BackInv, phase' = "undefined", UNCHANGED <<b, back, forth>>,
           \/ \E v \in Value : NoStore(v)
           \/ \E c \in b.m.calls : b.m.callee[c] = "unknown" \/ Len(b.m.operands[c]) # Len(b.m.formals[c])
    PROVE  BackInv'
<1>1. UNCHANGED <<b, vt, Visited, vt2, calls, results, left, trace, traceGeps, traceRoots, pending, visited, geps, refs>>
  BY DEF back, forth
<1>2. TypeOK'
  BY <1>1 DEF BackInv, TypeOK, Phase
<1>3. UndefinedOnlyForReason'
  BY <1>1 DEF UndefinedOnlyForReason, NoStore
<1>4. CallersInv'
  <2>1. \A t : Leaves(t)' = Leaves(t) /\ Through(t)' = Through(t)
    BY <1>1 DEF Leaves, Through, Callers, Last
  <2>2. (Callers(Last(vt2)))' = Callers(Last(vt2))
    BY <1>1 DEF Callers, Last
  <2> HIDE DEF Leaves, Through
  <2> QED
    BY <1>1, <2>1, <2>2 DEF BackInv, CallersInv
<1> QED
  BY <1>2, <1>3, <1>4 DEF BackInv

LEMMA NullStoreStep ==
    ASSUME BackInv, NullStore
    PROVE  BackInv'
<1>1. NoStore(Last(vt)) /\ Last(vt) \in Value /\ phase' = "undefined" /\ UNCHANGED <<b, back, forth>>
  BY VtLast DEF NullStore, BackInv
<1> QED
  BY <1>1, UndefinedStep

LEMMA CompareUndefinedStep ==
    ASSUME BackInv, CompareUndefined
    PROVE  BackInv'
BY UndefinedStep DEF CompareUndefined, ComparesNull

LEMMA CastFailsStep ==
    ASSUME BackInv, CastFails
    PROVE  BackInv'
BY UndefinedStep DEF CastFails, ThroughPointer

LEMMA TooFewStep ==
    ASSUME BackInv, NEW c \in calls, TooFewArguments(c)
    PROVE  BackInv'
<1> DEFINE n == ArgNo(c, Last(vt2))
<1>1. /\ n \notin DOMAIN b.m.operands[c] /\ phase' = "undefined" /\ UNCHANGED <<b, back, forth>>
  BY DEF TooFewArguments
<1>2. b \in Programs /\ c \in b.m.calls
  BY DEF BackInv, TypeOK
<1>3. vt2 # <<>> /\ c \in Callers(Last(vt2))
  BY DEF BackInv, CallersInv
<1>4. c \in Value /\ Last(vt2) \in ToSet(b.m.formals[c])
  BY <1>2, <1>3, CallersAre
<1>5. n \in 1..Len(b.m.formals[c])
  BY <1>2, <1>4, ArgNoIs
<1>6. b.m.operands[c] \in Seq(Value) /\ b.m.formals[c] \in Seq(Value)
  BY <1>2, <1>4, Fields
<1> HIDE DEF n
<1>7. Len(b.m.operands[c]) # Len(b.m.formals[c])
  BY <1>1, <1>5, <1>6
<1> QED
  BY <1>1, <1>2, <1>7, UndefinedStep

LEMMA EndCallersStep ==
    ASSUME BackInv, EndCallers
    PROVE  BackInv'
<1>1. /\ phase = "callers" /\ calls = {} /\ left' = results /\ phase' = "traces"
      /\ UNCHANGED <<b, vt, Visited, vt2, calls, results, trace, traceGeps, traceRoots, pending, visited, geps, refs>>
  BY DEF EndCallers, back
<1>2. TypeOK'
  BY <1>1 DEF BackInv, TypeOK, Phase
<1>3. CallersInv'
  BY <1>1, CallersKept DEF BackInv, back
<1>4. UndefinedOnlyForReason'
  BY <1>1 DEF UndefinedOnlyForReason
<1> QED
  BY <1>2, <1>3, <1>4 DEF BackInv

-----------------------------------------------------------------------------
(* Going forth. *)

Forth == {"traces", "unroll", "find"}

(* A step of analyseTrace: it keeps types if it keeps those of its own variables. *)
LEMMA ForthStep ==
    ASSUME BackInv, phase \in Forth, phase' \in Forth \cup {"done"}, UNCHANGED <<b, back>>,
           left' \subseteq left, trace' \in Seq(Value), traceGeps' \subseteq DOMAIN trace',
           traceRoots' \subseteq Value, pending' \subseteq Value, visited' \subseteq Value,
           geps' \subseteq Value, refs' \subseteq Value
    PROVE  BackInv'
<1>1. UNCHANGED <<b, vt, Visited, vt2, calls, results>>
  BY DEF back
<1>2. TypeOK'
  BY <1>1 DEF BackInv, TypeOK, Phase, Forth
<1>3. CallersInv'
  <2>1. CallersInv /\ calls = {} /\ phase \notin {"follow", "undefined"} /\ phase' # "follow"
    BY DEF BackInv, CallersInv, Forth
  <2> QED
    BY <2>1, CallersKept
<1>4. UndefinedOnlyForReason'
  BY DEF UndefinedOnlyForReason, Forth
<1> QED
  BY <1>2, <1>3, <1>4 DEF BackInv

LEMMA ForthTypes ==
    ASSUME BackInv
    PROVE  /\ b \in Programs /\ left \subseteq results /\ results \subseteq Seq(Value)
           /\ trace \in Seq(Value) /\ traceGeps \subseteq DOMAIN trace
           /\ traceRoots \subseteq Value /\ pending \subseteq Value /\ visited \subseteq Value
           /\ geps \subseteq Value /\ refs \subseteq Value
BY DEF BackInv, TypeOK

LEMMA TraceSteps ==
    ASSUME BackInv, NEW t \in left, DropTrace(t) \/ TakeTrace(t) \/ TraceUndefined(t)
    PROVE  BackInv'
<1>1. t \in Seq(Value)
  BY ForthTypes
<1>2. CASE DropTrace(t)
  <2>1. /\ phase = "traces" /\ left' = left \ {t}
        /\ UNCHANGED <<b, phase, back, trace, traceGeps, traceRoots, pending, visited, geps, refs>>
    BY <1>2 DEF DropTrace
  <2> QED
    BY <2>1, ForthTypes, ForthStep DEF Forth
<1>3. CASE TakeTrace(t)
  <2>1. /\ phase = "traces" /\ RootAt(t) # 0 /\ left' = left \ {t}
        /\ trace' = t /\ traceGeps' = GepsOf(t) /\ traceRoots' = {t[RootAt(t)]} /\ visited' = {}
        /\ phase' = "unroll" /\ UNCHANGED <<b, back, pending, geps, refs>>
    BY <1>3 DEF TakeTrace
  <2>2. RootAt(t) \in 1..Len(t)
    BY <1>1, <2>1, RootAtIs
  <2>3. t[RootAt(t)] \in Value
    <3> DEFINE n == RootAt(t)
    <3>1. n \in 1..Len(t)
      BY <2>2
    <3> HIDE DEF n
    <3>2. t[n] \in Value
      BY <1>1, <3>1
    <3> QED
      BY <3>2 DEF n
  <2>4. traceGeps' \subseteq DOMAIN trace' /\ trace' \in Seq(Value)
    BY <1>1, <2>1, ReadPartIs
  <2> QED
    BY <2>1, <2>3, <2>4, ForthTypes, ForthStep DEF Forth
<1>4. CASE TraceUndefined(t)
  <2>1. NameOfNull(t) /\ phase' = "undefined" /\ UNCHANGED <<b, back, forth>>
    BY <1>4 DEF TraceUndefined
  <2>2. \E c \in b.m.calls : b.m.callee[c] = "unknown"
    BY <2>1 DEF NameOfNull
  <2> QED
    BY <2>1, <2>2, UndefinedStep
<1> QED
  BY <1>2, <1>3, <1>4

LEMMA FindSteps ==
    ASSUME BackInv, NEW v \in pending, findGEPs(v) \/ Skip(v) \/ FindUndefined(v)
    PROVE  BackInv'
<1>1. v \in Value /\ b \in Programs
  BY ForthTypes
<1>2. CASE findGEPs(v)
  <2>1. /\ phase = "find" /\ visited' = visited \cup {v} /\ geps' = geps \cup UsersOf(v, {"gep"})
        /\ pending' = (pending \ {v}) \cup Below(v)
        /\ UNCHANGED <<b, phase, back, left, trace, traceGeps, traceRoots, refs>>
    BY <1>2 DEF findGEPs
  <2>2. UsersOf(v, {"gep"}) \subseteq Value /\ Below(v) \subseteq Value
    BY <1>1, Fields, BelowType DEF UsersOf
  <2>3. visited' \subseteq Value /\ geps' \subseteq Value /\ pending' \subseteq Value
    BY <1>1, <2>1, <2>2, ForthTypes
  <2> QED
    BY <2>1, <2>3, ForthTypes, ForthStep DEF Forth
<1>3. CASE Skip(v)
  <2>1. /\ phase = "find" /\ pending' = pending \ {v}
        /\ UNCHANGED <<b, phase, back, left, trace, traceGeps, traceRoots, visited, geps, refs>>
    BY <1>3 DEF Skip
  <2>2. pending' \subseteq Value
    BY <2>1, ForthTypes
  <2> QED
    BY <2>1, <2>2, ForthTypes, ForthStep DEF Forth
<1>4. CASE FindUndefined(v)
  <2>1. phase' = "undefined" /\ UNCHANGED <<b, back, forth>>
    BY <1>4 DEF FindUndefined
  <2>2. PICK c \in CallUsers(v) : CallArgsUndefined(b.m, c, v)
    BY <1>4 DEF FindUndefined
  <2>3. c \in b.m.calls /\ c \in Value
    BY <1>1, <2>2, Fields DEF CallUsers
  <2>4. b.m.callee[c] = "unknown" \/ Len(b.m.operands[c]) # Len(b.m.formals[c])
    <3>1. b.m.operands[c] \in Seq(Value) /\ b.m.formals[c] \in Seq(Value)
      BY <1>1, <2>3, Fields
    <3>2. ASSUME ~(Positions(b.m, c, v) \subseteq DOMAIN b.m.formals[c])
          PROVE  Len(b.m.operands[c]) # Len(b.m.formals[c])
      BY <3>1, <3>2 DEF Positions
    <3> QED
      BY <2>2, <3>2 DEF CallArgsUndefined
  <2> QED
    BY <2>1, <2>3, <2>4, UndefinedStep
<1> QED
  BY <1>2, <1>3, <1>4

LEMMA UnrollSteps ==
    ASSUME BackInv, TakeGep \/ EndFind \/ EndUnroll \/ EndTraces
    PROVE  BackInv'
<1>1. CASE TakeGep
  <2>1. /\ phase = "unroll" /\ pending' = traceRoots /\ geps' = {} /\ phase' = "find"
        /\ UNCHANGED <<b, back, left, trace, traceGeps, traceRoots, visited, refs>>
    BY <1>1 DEF TakeGep
  <2> QED
    BY <2>1, ForthTypes, ForthStep DEF Forth
<1>2. CASE EndFind
  <2>1. /\ phase = "find" /\ traceRoots' \subseteq geps /\ traceGeps' \subseteq traceGeps /\ phase' = "unroll"
        /\ UNCHANGED <<b, back, left, trace, pending, visited, geps, refs>>
    BY <1>2 DEF EndFind
  <2>2. traceGeps' \subseteq DOMAIN trace' /\ traceRoots' \subseteq Value
    BY <2>1, ForthTypes
  <2> QED
    BY <2>1, <2>2, ForthTypes, ForthStep DEF Forth
<1>3. CASE EndUnroll
  <2>1. /\ phase = "unroll" /\ refs' = refs \cup traceRoots /\ phase' = "traces"
        /\ UNCHANGED <<b, back, left, trace, traceGeps, traceRoots, pending, visited, geps>>
    BY <1>3 DEF EndUnroll
  <2>2. refs' \subseteq Value
    BY <2>1, ForthTypes
  <2> QED
    BY <2>1, <2>2, ForthTypes, ForthStep DEF Forth
<1>4. CASE EndTraces
  <2>1. /\ phase = "traces" /\ phase' = "done" /\ UNCHANGED <<b, back, forth>>
    BY <1>4 DEF EndTraces
  <2> QED
    BY <2>1, ForthTypes, ForthStep DEF Forth, forth
<1> QED
  BY <1>1, <1>2, <1>3, <1>4

LEMMA StutterBack ==
    ASSUME BackInv, UNCHANGED vars
    PROVE  BackInv'
<1>1. UNCHANGED <<b, phase, vt, Visited, vt2, calls, results, left, trace, traceGeps, traceRoots,
                  pending, visited, geps, refs>>
  BY DEF vars
<1>2. TypeOK' /\ UndefinedOnlyForReason'
  BY <1>1 DEF BackInv, TypeOK, UndefinedOnlyForReason, NoStore
<1>3. CallersInv'
  <2>1. \A t : Leaves(t)' = Leaves(t) /\ Through(t)' = Through(t)
    BY <1>1 DEF Leaves, Through, Callers, Last
  <2>2. (Callers(Last(vt2)))' = Callers(Last(vt2)) /\ Leaves(vt)' = Leaves(vt) /\ Through(vt)' = Through(vt)
    BY <1>1 DEF Leaves, Through, Callers, Last
  <2> HIDE DEF Leaves, Through
  <2> QED
    BY <1>1, <2>1, <2>2 DEF BackInv, CallersInv
<1> QED
  BY <1>2, <1>3 DEF BackInv

LEMMA NextBack == BackInv /\ [Next]_vars => BackInv'
<1> SUFFICES ASSUME BackInv, [Next]_vars
             PROVE  BackInv'
  OBVIOUS
<1>1. CASE followBwdUpToArg \/ EndTrace \/ followArg \/ EndCallers
  BY <1>1, FollowStep, EndTraceStep, FollowArgStep, EndCallersStep
<1>2. CASE NullStore \/ CastFails \/ CompareUndefined
  BY <1>2, NullStoreStep, CastFailsStep, CompareUndefinedStep
<1>3. CASE \E c \in calls : TakeCall(c) \/ TooFewArguments(c)
  BY <1>3, TakeCallStep, TooFewStep
<1>4. CASE \E t \in left : DropTrace(t) \/ TakeTrace(t) \/ TraceUndefined(t)
  BY <1>4, TraceSteps
<1>5. CASE TakeGep \/ EndFind \/ EndUnroll \/ EndTraces
  BY <1>5, UnrollSteps
<1>6. CASE \E v \in pending : findGEPs(v) \/ Skip(v) \/ FindUndefined(v)
  BY <1>6, FindSteps
<1>7. CASE UNCHANGED vars
  BY <1>7, StutterBack
<1> QED
  BY <1>1, <1>2, <1>3, <1>4, <1>5, <1>6, <1>7 DEF Next, Step, Terminated

LEMMA BackInvHolds == Spec => []BackInv
BY InitBack, NextBack, PTL DEF Spec

-----------------------------------------------------------------------------
(* The references.  Behind the places that are already unrolled every root
   ends a chain of places, and what a search has found is reached from its
   roots.  If the searches for the GEPs do not meet, then all such ends are
   roots, as what a search comes to nothing before it has visited.            *)

Unrolling == phase \in {"unroll", "find"}
Behind == GepsOf(trace) \ traceGeps
EndsChain(h) ==
    IF Behind = {} THEN h = Root(trace)
    ELSE \E ch \in Chains(trace, Behind) : ch[Min(Behind)] = h

(* v is in reach of a search for a GEP that is unrolled. *)
MetBehind(v) == \E q \in Behind : \E w \in Level(trace, q) : v \in Reached(w)

UnrollInv ==
    Unrolling =>
        /\ trace \in Rooted /\ traceGeps \subseteq GepsOf(trace)
        /\ \A p \in traceGeps : \A q \in Behind : p < q
        /\ \A h \in traceRoots : EndsChain(h)
        /\ Apart(trace) => /\ \A h : EndsChain(h) => h \in traceRoots
                           /\ phase = "unroll" => \A v \in visited : MetBehind(v)

(* v is in reach of the search that is under way. *)
Searched(v) == \E h \in traceRoots : v \in Reached(h)

FindInv ==
    phase = "find" =>
        /\ traceGeps # {}
        /\ \A v \in pending : Searched(v)
        /\ \A g \in geps : b.kind[g] = "gep" /\ \E v \in Value : Searched(v) /\ g \in b.m.users[v]
        /\ Apart(trace) =>
              /\ traceRoots \subseteq visited \cup pending
              /\ \A v \in visited : MetBehind(v) \/ Searched(v)
              /\ \A v \in visited : Searched(v) => /\ Below(v) \subseteq visited \cup pending
                                                  /\ UsersOf(v, {"gep"}) \subseteq geps

RefsInv ==
    /\ phase \in {"follow", "callers"} => refs = {}
    /\ phase \in {"traces", "unroll", "find", "done"} =>
          /\ refs \subseteq UNION {Unrolled(t) : t \in Rooted}
          /\ \A t \in Rooted \ left : Apart(t) => Unrolled(t) \subseteq refs \/ (Unrolling /\ t = trace)
    /\ phase = "done" => left = {}

ForthInv == UnrollInv /\ FindInv /\ RefsInv

(* What is reached from a value, and by what. *)

LEMMA ReachedFrom ==
    ASSUME b \in Programs, NEW v \in Value
    PROVE  /\ v \in Reached(v) /\ Reached(v) \subseteq Value
           /\ \A u \in Reached(v) : Below(u) \subseteq Reached(v)
<1> DEFINE All == {v} \cup UNION {Below(u) : u \in Value}
           Closed == {S \in SUBSET All : v \in S /\ \A u \in S : Below(u) \subseteq S}
<1>1. Reached(v) = {u \in All : \A S \in Closed : u \in S}
  BY DEF Reached
<1>2. All \subseteq Value
  BY BelowType
<1>3. \A u \in Value : Below(u) \subseteq All
  OBVIOUS
<1>4. \A S \in Closed : v \in S /\ \A u \in S : Below(u) \subseteq S
  OBVIOUS
<1>5. v \in All
  OBVIOUS
<1> HIDE DEF All, Closed
<1> QED
  BY <1>1, <1>2, <1>3, <1>4, <1>5

LEMMA ReachedLeast ==
    ASSUME b \in Programs, NEW v \in Value, NEW V,
           v \in V, \A u \in V : Below(u) \subseteq V
    PROVE  Reached(v) \subseteq V
<1> DEFINE All == {v} \cup UNION {Below(u) : u \in Value}
           Closed == {S \in SUBSET All : v \in S /\ \A u \in S : Below(u) \subseteq S}
           S0 == V \cap All
<1>1. Reached(v) = {u \in All : \A S \in Closed : u \in S}
  BY DEF Reached
<1>2. All \subseteq Value
  BY BelowType
<1>3. \A u \in Value : Below(u) \subseteq All
  OBVIOUS
<1>4. S0 \in Closed
  <2>1. \A u \in S0 : Below(u) \subseteq S0
    BY <1>2, <1>3
  <2> QED
    BY <2>1
<1> HIDE DEF All, Closed
<1> QED
  BY <1>1, <1>4

(* The last place of a set of places. *)
LEMMA MaxIn ==
    ASSUME NEW n \in Nat, NEW S \in SUBSET (1..n), S # {}
    PROVE  Max(S) \in S /\ \A i \in S : i <= Max(S)
<1> DEFINE T == {n - i : i \in S}
           k == Min(T)
<1>1. T \in SUBSET Nat /\ T # {}
  <2>1. \A i \in S : i \in Nat /\ i <= n
    OBVIOUS
  <2>2. \A i \in S : n - i \in Nat
    BY <2>1
  <2> QED
    BY <2>2
<1>2. k \in T /\ \A j \in T : k <= j
  BY <1>1, MinIs
<1> HIDE DEF k
<1>3. PICK i \in S : k = n - i
  BY <1>2
<1>4. \A j \in S : j <= i
  <2> SUFFICES ASSUME NEW j \in S
               PROVE  j <= i
    OBVIOUS
  <2>1. k <= n - j
    BY <1>2
  <2> QED
    BY <1>3, <2>1
<1>5. \A j \in S : i >= j
  BY <1>4
<1> HIDE DEF T
<1> QED
  BY <1>5 DEF Max

LEMMA GepsOfIs ==
    ASSUME NEW t \in Seq(Value)
    PROVE  GepsOf(t) \subseteq 1..Len(t) /\ Len(t) \in Nat
BY ReadPartIs

(* While a trace is unrolled its places, roots and the program stay what they are. *)
LEMMA SameProgram ==
    ASSUME UNCHANGED b
    PROVE  /\ \A v : Reached(v)' = Reached(v) /\ Below(v)' = Below(v)
           /\ \A v, k : UsersOf(v, k)' = UsersOf(v, k)
           /\ \A t : Root(t)' = Root(t) /\ RootAt(t)' = RootAt(t) /\ GepsOf(t)' = GepsOf(t)
<1>1. \A v : Below(v)' = Below(v)
  BY DEF Below, UsersOf, CallUsers, getCallArgs, Positions
<1>2. \A v : Reached(v)' = Reached(v)
  BY DEF Reached, Below, UsersOf, CallUsers, getCallArgs, Positions
<1>3. \A v, k : UsersOf(v, k)' = UsersOf(v, k)
  BY DEF UsersOf
<1>4. \A t : Root(t)' = Root(t) /\ RootAt(t)' = RootAt(t) /\ GepsOf(t)' = GepsOf(t)
  BY DEF Root, RootAt, GepsOf, ReadPart, SelectInSeq, IsRoot
<1> QED
  BY <1>1, <1>2, <1>3, <1>4

LEMMA SameChains ==
    ASSUME UNCHANGED b
    PROVE  /\ \A t, ps : Chains(t, ps)' = Chains(t, ps)
           /\ \A t : Unrolled(t)' = Unrolled(t) /\ Apart(t)' = Apart(t)
           /\ \A t, p : Level(t, p)' = Level(t, p)
<1>1. \A t, p : Outer(t, p)' = Outer(t, p)
  BY SameProgram DEF Outer
<1>2. \A t, ch, p : Base(t, ch, p)' = Base(t, ch, p)
  BY <1>1, SameProgram DEF Base
<1>3. \A t, ps : Chains(t, ps)' = Chains(t, ps)
  BY <1>2, SameProgram DEF Chains
<1>4. \A t : Unrolled(t)' = Unrolled(t)
  BY <1>3, SameProgram DEF Unrolled
<1>5. \A t, p : Level(t, p)' = Level(t, p)
  BY <1>1, <1>2, <1>3 DEF Level
<1>6. \A t : Apart(t)' = Apart(t)
  BY <1>1, <1>5, SameProgram DEF Apart
<1> QED
  BY <1>3, <1>4, <1>5, <1>6

(* The same of the trace that is unrolled. *)
LEMMA SameTrace ==
    ASSUME UNCHANGED <<b, trace>>
    PROVE  /\ Unrolled(trace)' = Unrolled(trace) /\ GepsOf(trace)' = GepsOf(trace)
           /\ Root(trace)' = Root(trace) /\ Apart(trace)' = Apart(trace)
           /\ \A ps : Chains(trace, ps)' = Chains(trace, ps)
           /\ \A p : Level(trace, p)' = Level(trace, p)
<1>1. PICK t : t = trace
  OBVIOUS
<1>2. /\ Unrolled(t)' = Unrolled(t) /\ GepsOf(t)' = GepsOf(t) /\ Root(t)' = Root(t) /\ Apart(t)' = Apart(t)
      /\ \A ps : Chains(t, ps)' = Chains(t, ps)
      /\ \A p : Level(t, p)' = Level(t, p)
  BY SameProgram, SameChains
<1> QED
  BY <1>1, <1>2

LEMMA SameBehind ==
    ASSUME UNCHANGED <<b, trace, traceGeps>>
    PROVE  /\ Behind' = Behind
           /\ \A h : EndsChain(h)' = EndsChain(h)
           /\ \A v : MetBehind(v)' = MetBehind(v)
<1>1. Behind' = Behind
  BY SameTrace DEF Behind
<1>2. \A h : EndsChain(h)' = EndsChain(h)
  BY <1>1, SameTrace DEF EndsChain
<1>3. \A v : MetBehind(v)' = MetBehind(v)
  BY <1>1, SameTrace, SameProgram DEF MetBehind
<1> QED
  BY <1>1, <1>2, <1>3

LEMMA SameSearch ==
    ASSUME UNCHANGED <<b, traceRoots>>
    PROVE  \A v : Searched(v)' = Searched(v)
BY SameProgram DEF Searched

(* The roots of a trace whose GEPs are all unrolled. *)
LEMMA EndsUnrolled ==
    ASSUME traceGeps = {}, NEW h
    PROVE  h \in Unrolled(trace) <=> EndsChain(h)
<1>1. Behind = GepsOf(trace)
  BY DEF Behind
<1> QED
  BY <1>1 DEF EndsChain, Unrolled

FullInv == BackInv /\ ForthInv

LEMMA FullTypes ==
    ASSUME FullInv
    PROVE  /\ b \in Programs /\ left \subseteq results /\ results \subseteq Seq(Value)
           /\ trace \in Seq(Value) /\ traceRoots \subseteq Value /\ pending \subseteq Value
           /\ visited \subseteq Value /\ geps \subseteq Value
BY ForthTypes DEF FullInv

LEMMA InitForth == Init => ForthInv
BY DEF Init, ForthInv, UnrollInv, Unrolling, FindInv, RefsInv

(* Steps before analyseTrace, and into undefined behaviour. *)
LEMMA BeforeForth ==
    ASSUME FullInv, phase' \in {"follow", "callers", "undefined"}, UNCHANGED refs,
           phase' = "undefined" \/ phase \in {"follow", "callers"}
    PROVE  ForthInv'
BY DEF FullInv, ForthInv, UnrollInv, Unrolling, FindInv, RefsInv

LEMMA EndCallersForth ==
    ASSUME FullInv, EndCallers
    PROVE  ForthInv'
<1>1. phase = "callers" /\ phase' = "traces" /\ left' = results /\ results' = results /\ refs' = refs
  BY DEF EndCallers, back
<1>2. refs = {}
  BY <1>1 DEF FullInv, ForthInv, RefsInv
<1>3. Rooted' \subseteq left'
  BY <1>1 DEF Rooted
<1> QED
  BY <1>1, <1>2, <1>3 DEF ForthInv, UnrollInv, Unrolling, FindInv, RefsInv

(* What analyseTrace has to keep of the references it has contributed. *)
LEMMA RefsKept ==
    ASSUME FullInv, phase \in Forth, UNCHANGED <<b, back>>, refs \subseteq refs',
           refs' \subseteq UNION {Unrolled(t) : t \in Rooted},
           phase' \in Forth \cup {"done"}, phase' = "done" => left' = {},
           \A t \in Rooted \ left' : Apart(t) => Unrolled(t) \subseteq refs' \/ (Unrolling' /\ t = trace')
    PROVE  RefsInv'
<1>1. results' = results
  BY DEF back
<1>2. Rooted' = Rooted
  BY <1>1, SameProgram DEF Rooted
<1>3. \A t : Unrolled(t)' = Unrolled(t) /\ Apart(t)' = Apart(t)
  BY SameChains
<1> QED
  BY <1>2, <1>3 DEF RefsInv, Forth

LEMMA RefsSoFar ==
    ASSUME FullInv, phase \in Forth
    PROVE  /\ refs \subseteq UNION {Unrolled(t) : t \in Rooted}
           /\ \A t \in Rooted \ left : Apart(t) => Unrolled(t) \subseteq refs \/ (Unrolling /\ t = trace)
BY DEF FullInv, ForthInv, RefsInv, Forth

LEMMA TracesForth ==
    ASSUME FullInv, NEW t \in left, DropTrace(t) \/ TakeTrace(t)
    PROVE  ForthInv'
<1>1. t \in results /\ t \in Seq(Value)
  BY FullTypes
<1>2. CASE DropTrace(t)
  <2>1. /\ phase = "traces" /\ phase' = "traces" /\ RootAt(t) = 0 /\ left' = left \ {t}
        /\ UNCHANGED <<b, back, refs, trace>>
    BY <1>2 DEF DropTrace
  <2>2. \A u \in Rooted \ left' : u \in Rooted \ left
    BY <2>1 DEF Rooted
  <2>3. RefsInv'
    BY <2>1, <2>2, RefsSoFar, RefsKept DEF Forth, Unrolling
  <2> QED
    BY <2>1, <2>3 DEF ForthInv, UnrollInv, Unrolling, FindInv
<1>3. CASE TakeTrace(t)
  <2>1. /\ phase = "traces" /\ phase' = "unroll" /\ RootAt(t) # 0 /\ left' = left \ {t}
        /\ trace' = t /\ traceGeps' = GepsOf(t) /\ traceRoots' = {Root(t)} /\ visited' = {}
        /\ UNCHANGED <<b, back, refs, results>>
    BY <1>3 DEF TakeTrace, back, Root
  <2>2. \A u \in Rooted \ left' : u \in Rooted \ left \/ u = t
    BY <2>1
  <2>3. RefsInv'
    BY <2>1, <2>2, RefsSoFar, RefsKept DEF Forth, Unrolling
  <2>4. GepsOf(trace)' = GepsOf(t) /\ Root(trace)' = Root(t) /\ RootAt(trace)' = RootAt(t)
    BY <2>1 DEF GepsOf, ReadPart, Root, RootAt, SelectInSeq, IsRoot
  <2>5. Behind' = {}
    BY <2>1, <2>4 DEF Behind
  <2>6. trace' \in Rooted'
    BY <1>1, <2>1, SameProgram DEF Rooted
  <2>7. \A h : EndsChain(h)' <=> h \in traceRoots'
    BY <2>1, <2>4, <2>5 DEF EndsChain
  <2>8. UnrollInv'
    BY <2>1, <2>4, <2>5, <2>6, <2>7 DEF UnrollInv, Unrolling
  <2> QED
    BY <2>1, <2>3, <2>8 DEF ForthInv, FindInv
<1> QED
  BY <1>2, <1>3

(* What the steps on a trace may keep. *)
LEMMA UnrollKept ==
    ASSUME FullInv, Unrolling, Unrolling', UNCHANGED <<b, back, trace, traceGeps, traceRoots>>,
           phase' = "unroll" => phase = "unroll" /\ UNCHANGED visited
    PROVE  UnrollInv'
<1>1. results' = results
  BY DEF back
<1>2. Rooted' = Rooted
  BY <1>1, SameProgram DEF Rooted
<1> QED
  BY <1>2, SameTrace, SameBehind DEF FullInv, ForthInv, UnrollInv

(* The places that are unrolled are those outside the next one, so that its
   roots are looked for from the ends of the chains.                          *)
LEMMA NextLevel ==
    ASSUME FullInv, Unrolling, traceGeps # {}
    PROVE  /\ nextGep \in traceGeps /\ nextGep \in GepsOf(trace)
           /\ GepsOf(trace) \in SUBSET Nat /\ Behind \in SUBSET Nat
           /\ \A p \in traceGeps : p <= nextGep
           /\ \A q \in Behind : nextGep < q
           /\ Outer(trace, nextGep) = Behind
           /\ \A p \in Behind : Outer(trace, p) \subseteq Behind
           /\ \A h : h \in Level(trace, nextGep) <=> EndsChain(h)
<1> DEFINE n == nextGep
           G == GepsOf(trace)
<1>1. /\ traceGeps \subseteq G /\ G \subseteq 1..Len(trace) /\ Len(trace) \in Nat
      /\ \A p \in traceGeps : \A q \in Behind : p < q
      /\ Behind = G \ traceGeps
  <2>1. trace \in Seq(Value)
    BY FullTypes
  <2>2. G \subseteq 1..Len(trace) /\ Len(trace) \in Nat
    BY <2>1, GepsOfIs
  <2> QED
    BY <2>2 DEF FullInv, ForthInv, UnrollInv, Behind
<1>2. n \in traceGeps /\ \A p \in traceGeps : p <= n
  BY <1>1, MaxIn DEF nextGep
<1> HIDE DEF n, G
<1>3. Outer(trace, n) = Behind
  BY <1>1, <1>2 DEF Outer, G
<1>4. \A p \in Behind : Outer(trace, p) \subseteq Behind
  BY <1>1, <1>2 DEF Outer, G
<1>5. \A h : h \in Level(trace, n) <=> \E ch \in Chains(trace, Behind) : h = Base(trace, ch, n)
  BY <1>3 DEF Level
<1>6. CASE Behind = {}
  <2> DEFINE none == [p \in {} |-> 0]
  <2>1. none \in [{} -> {v \in Value : b.kind[v] = "gep"}]
    OBVIOUS
  <2>2. none \in Chains(trace, {})
    BY <2>1 DEF Chains
  <2>3. \A ch : Base(trace, ch, n) = Root(trace)
    BY <1>3, <1>6 DEF Base
  <2>4. \A h : h \in Level(trace, n) <=> EndsChain(h)
    BY <1>5, <1>6, <2>2, <2>3 DEF EndsChain
  <2> QED
    BY <1>1, <1>2, <1>3, <1>4, <2>4 DEF n, G
<1>7. CASE Behind # {}
  <2>1. \A ch : Base(trace, ch, n) = ch[Min(Behind)]
    BY <1>3, <1>7 DEF Base
  <2>2. \A h : h \in Level(trace, n) <=> EndsChain(h)
    BY <1>5, <1>7, <2>1 DEF EndsChain
  <2> QED
    BY <1>1, <1>2, <1>3, <1>4, <2>2 DEF n, G
<1> QED
  BY <1>6, <1>7

LEMMA TakeGepForth ==
    ASSUME FullInv, TakeGep
    PROVE  ForthInv'
<1>1. /\ phase = "unroll" /\ phase' = "find" /\ traceGeps # {} /\ pending' = traceRoots /\ geps' = {}
      /\ UNCHANGED <<b, back, left, trace, traceGeps, traceRoots, visited, refs>>
  BY DEF TakeGep
<1>2. UnrollInv'
  BY <1>1, UnrollKept DEF Unrolling
<1>3. RefsInv'
  BY <1>1, RefsSoFar, RefsKept DEF Forth, Unrolling
<1>4. FindInv'
  <2>1. /\ Apart(trace)' = Apart(trace)
        /\ \A v : Searched(v)' = Searched(v) /\ MetBehind(v)' = MetBehind(v)
    BY <1>1, SameTrace, SameBehind, SameSearch
  <2>2. \A v \in traceRoots : Searched(v)
    BY FullTypes, ReachedFrom DEF Searched
  <2>3. Apart(trace) => \A v \in visited : MetBehind(v)
    BY <1>1 DEF FullInv, ForthInv, UnrollInv, Unrolling
  <2>4. ASSUME Apart(trace), NEW v \in visited, Searched(v)
        PROVE  FALSE
    <3>1. PICK h \in traceRoots : v \in Reached(h)
      BY <2>4 DEF Searched
    <3>2. EndsChain(h)
      BY <1>1 DEF FullInv, ForthInv, UnrollInv, Unrolling
    <3>3. /\ nextGep \in GepsOf(trace) /\ Outer(trace, nextGep) = Behind
          /\ h \in Level(trace, nextGep)
      BY <1>1, <3>2, NextLevel DEF Unrolling
    <3>4. PICK q \in Behind : \E w \in Level(trace, q) : v \in Reached(w)
      BY <2>3, <2>4 DEF MetBehind
    <3>5. PICK w \in Level(trace, q) : v \in Reached(w)
      BY <3>4
    <3>6. Reached(h) \cap Reached(w) = {}
      BY <2>4, <3>3, <3>4, <3>5 DEF Apart
    <3> QED
      BY <3>1, <3>5, <3>6
  <2> QED
    BY <1>1, <2>1, <2>2, <2>3, <2>4 DEF FindInv
<1> QED
  BY <1>2, <1>3, <1>4 DEF ForthInv

LEMMA FindForth ==
    ASSUME FullInv, NEW v \in pending, findGEPs(v) \/ Skip(v)
    PROVE  ForthInv'
<1>1. /\ phase = "find" /\ phase' = "find"
      /\ UNCHANGED <<b, back, left, trace, traceGeps, traceRoots, refs>>
  BY DEF findGEPs, Skip
<1>2. UnrollInv'
  BY <1>1, UnrollKept DEF Unrolling
<1>3. RefsInv'
  BY <1>1, RefsSoFar, RefsKept DEF Forth, Unrolling
<1>4. FindInv'
  <2>1. FindInv
    BY DEF FullInv, ForthInv
  <2>2. /\ visited' = visited \cup {v} /\ pending \subseteq pending' \cup {v} /\ geps \subseteq geps'
        /\ pending' \subseteq pending \cup Below(v)
        /\ \A g \in geps' \ geps : g \in UsersOf(v, {"gep"})
        /\ v \in visited \/ (Below(v) \subseteq pending' /\ UsersOf(v, {"gep"}) \subseteq geps')
    BY DEF findGEPs, Skip
  <2>3. /\ Apart(trace)' = Apart(trace)
        /\ \A u : Searched(u)' = Searched(u) /\ MetBehind(u)' = MetBehind(u)
    BY <1>1, SameTrace, SameBehind, SameSearch
  <2>4. \A u \in pending' : Searched(u)
    <3>1. \A u \in Below(v) : Searched(u)
      <4>1. PICK h \in traceRoots : v \in Reached(h)
        BY <1>1, <2>1 DEF FindInv, Searched
      <4>2. Below(v) \subseteq Reached(h)
        BY <4>1, FullTypes, ReachedFrom
      <4> QED
        BY <4>2 DEF Searched
    <3> QED
      BY <1>1, <2>1, <2>2, <3>1 DEF FindInv
  <2>5. \A g \in geps' : b.kind[g] = "gep" /\ \E u \in Value : Searched(u) /\ g \in b.m.users[u]
    <3>1. \A g \in UsersOf(v, {"gep"}) : b.kind[g] = "gep" /\ g \in b.m.users[v]
      BY DEF UsersOf
    <3>2. v \in Value /\ Searched(v)
      BY <1>1, <2>1, FullTypes DEF FindInv
    <3> QED
      BY <1>1, <2>1, <2>2, <3>1, <3>2 DEF FindInv
  <2>6. ASSUME Apart(trace)
        PROVE  /\ traceRoots \subseteq visited' \cup pending'
               /\ \A u \in visited' : MetBehind(u) \/ Searched(u)
               /\ \A u \in visited' : Searched(u) => /\ Below(u) \subseteq visited' \cup pending'
                                                    /\ UsersOf(u, {"gep"}) \subseteq geps'
    <3> HIDE DEF Below, UsersOf
    <3>1. /\ traceRoots \subseteq visited \cup pending /\ Searched(v)
          /\ \A u \in visited : MetBehind(u) \/ Searched(u)
          /\ \A u \in visited : Searched(u) => /\ Below(u) \subseteq visited \cup pending
                                              /\ UsersOf(u, {"gep"}) \subseteq geps
      BY <1>1, <2>1, <2>6 DEF FindInv
    <3>2. visited \cup pending \subseteq visited' \cup pending'
      BY <2>2
    <3>3. Below(v) \subseteq visited' \cup pending' /\ UsersOf(v, {"gep"}) \subseteq geps'
      BY <2>2, <3>1, <3>2
    <3> HIDE DEF Searched, MetBehind
    <3> QED
      BY <2>2, <3>1, <3>2, <3>3
  <2>7. traceGeps' # {}
    BY <1>1, <2>1 DEF FindInv
  <2> QED
    BY <1>1, <2>3, <2>4, <2>5, <2>6, <2>7, SameProgram DEF FindInv
<1> QED
  BY <1>2, <1>3, <1>4 DEF ForthInv

(* Chains that agree outside a place look for its GEP from the same value. *)
LEMMA SameBase ==
    ASSUME NEW t, NEW S \in SUBSET Nat, NEW ch, NEW co, \A p \in S : ch[p] = co[p],
           NEW p, Outer(t, p) \subseteq S
    PROVE  Base(t, ch, p) = Base(t, co, p)
<1> DEFINE O == Outer(t, p)
<1> HIDE DEF O
<1>1. CASE O = {}
  BY <1>1 DEF Base, O
<1>2. CASE O # {}
  <2>1. O \subseteq S /\ O \in SUBSET Nat
    BY DEF O
  <2>2. Min(O) \in O
    BY <1>2, <2>1, MinIs
  <2>3. ch[Min(O)] = co[Min(O)]
    BY <2>1, <2>2
  <2> QED
    BY <1>2, <2>3 DEF Base, O
<1> QED
  BY <1>1, <1>2

(* One place more: what is found and looks the same extends a chain. *)
LEMMA ChainGrows ==
    ASSUME FullInv, phase = "find", NEW h \in geps, gepsAreEqual(b, gep, h)
    PROVE  \E ch \in Chains(trace, Behind \cup {nextGep}) : ch[nextGep] = h
<1> DEFINE n == nextGep
           Gep == {v \in Value : b.kind[v] = "gep"}
<1>1. traceGeps # {} /\ Unrolling
  BY DEF FullInv, ForthInv, FindInv, Unrolling
<1>2. /\ Behind \in SUBSET Nat /\ n \notin Behind
      /\ Outer(trace, n) = Behind
      /\ \A p \in Behind : Outer(trace, p) \subseteq Behind
      /\ \A r : r \in Level(trace, n) <=> EndsChain(r)
  BY <1>1, NextLevel DEF Behind
<1>3. PICK v \in Value : Searched(v) /\ h \in b.m.users[v]
  BY DEF FullInv, ForthInv, FindInv
<1>4. PICK r \in traceRoots : v \in Reached(r)
  BY <1>3 DEF Searched
<1>5. EndsChain(r) /\ b.kind[h] = "gep" /\ h \in Value
  BY FullTypes DEF FullInv, ForthInv, FindInv, UnrollInv, Unrolling
<1>6. gepsAreEqual(b, trace[n], h)
  BY DEF gep
<1> HIDE DEF n
<1>7. PICK co \in Chains(trace, Behind) : r = Base(trace, co, n)
  BY <1>2, <1>5 DEF Level
<1> DEFINE ch == [p \in Behind \cup {n} |-> IF p = n THEN h ELSE co[p]]
<1>8. /\ co \in [Behind -> Gep]
      /\ \A p \in Behind : /\ gepsAreEqual(b, trace[p], co[p])
                           /\ \E u \in Reached(Base(trace, co, p)) : co[p] \in b.m.users[u]
  BY <1>7 DEF Chains
<1>9. /\ ch \in [Behind \cup {n} -> Gep] /\ ch[n] = h
      /\ \A p \in Behind : ch[p] = co[p]
  BY <1>2, <1>5, <1>8
<1> HIDE DEF ch
<1>10. ASSUME NEW p \in Behind \cup {n}
       PROVE  Base(trace, ch, p) = Base(trace, co, p)
  <2>1. Outer(trace, p) \subseteq Behind
    BY <1>2
  <2>2. Behind \in SUBSET Nat /\ \A q \in Behind : ch[q] = co[q]
    BY <1>2, <1>9
  <2> QED
    BY <2>1, <2>2, SameBase
<1>11. \A p \in Behind \cup {n} : /\ gepsAreEqual(b, trace[p], ch[p])
                                 /\ \E u \in Reached(Base(trace, ch, p)) : ch[p] \in b.m.users[u]
  BY <1>3, <1>4, <1>6, <1>7, <1>8, <1>9, <1>10
<1>12. ch \in Chains(trace, Behind \cup {n})
  BY <1>9, <1>11 DEF Chains
<1> QED
  BY <1>9, <1>12 DEF n

(* One place less: its last value is found from the end of a chain. *)
LEMMA ChainShrinks ==
    ASSUME FullInv, Unrolling, traceGeps # {}, NEW ch \in Chains(trace, Behind \cup {nextGep})
    PROVE  /\ gepsAreEqual(b, gep, ch[nextGep]) /\ ch[nextGep] \in Value /\ b.kind[ch[nextGep]] = "gep"
           /\ \E r : EndsChain(r) /\ \E v \in Reached(r) : ch[nextGep] \in b.m.users[v]
<1> DEFINE n == nextGep
           Gep == {v \in Value : b.kind[v] = "gep"}
           co == [p \in Behind |-> ch[p]]
<1>1. /\ Behind \in SUBSET Nat
      /\ Outer(trace, n) = Behind
      /\ \A p \in Behind : Outer(trace, p) \subseteq Behind
      /\ \A r : r \in Level(trace, n) <=> EndsChain(r)
  BY NextLevel
<1>2. gep = trace[n]
  BY DEF gep
<1> HIDE DEF n
<1>3. /\ ch \in [Behind \cup {n} -> Gep]
      /\ \A p \in Behind \cup {n} : /\ gepsAreEqual(b, trace[p], ch[p])
                                   /\ \E u \in Reached(Base(trace, ch, p)) : ch[p] \in b.m.users[u]
  BY DEF Chains, n
<1>4. co \in [Behind -> Gep] /\ \A p \in Behind : co[p] = ch[p]
  BY <1>3
<1> HIDE DEF co
<1>5. ASSUME NEW p \in Behind \cup {n}
      PROVE  Base(trace, co, p) = Base(trace, ch, p)
  <2>1. Outer(trace, p) \subseteq Behind
    BY <1>1
  <2>2. Behind \in SUBSET Nat /\ \A q \in Behind : ch[q] = co[q]
    BY <1>1, <1>4
  <2>3. Base(trace, ch, p) = Base(trace, co, p)
    BY <2>1, <2>2, SameBase
  <2> QED
    BY <2>3
<1>6. co \in Chains(trace, Behind)
  BY <1>3, <1>4, <1>5 DEF Chains
<1>7. EndsChain(Base(trace, ch, n))
  BY <1>1, <1>5, <1>6 DEF Level
<1>8. ch[n] \in Gep
  BY <1>3
<1> QED
  BY <1>2, <1>3, <1>7, <1>8 DEF n

(* If the searches do not meet, one that comes to an end has been everywhere. *)
LEMMA LevelComplete ==
    ASSUME FullInv, phase = "find", pending = {}, Apart(trace), NEW r \in traceRoots, NEW v \in Reached(r)
    PROVE  UsersOf(v, {"gep"}) \subseteq geps
<1> DEFINE S == {u \in visited : u \in Reached(r)}
<1>1. /\ traceRoots \subseteq visited
      /\ \A u \in visited : Searched(u) => Below(u) \subseteq visited /\ UsersOf(u, {"gep"}) \subseteq geps
  BY DEF FullInv, ForthInv, FindInv
<1>2. r \in Value /\ visited \subseteq Value /\ b \in Programs
  BY FullTypes
<1>3. r \in Reached(r) /\ \A u \in Reached(r) : Below(u) \subseteq Reached(r)
  BY <1>2, ReachedFrom
<1>4. \A u \in S : Searched(u)
  BY DEF Searched
<1>5. r \in S /\ \A u \in S : Below(u) \subseteq S
  BY <1>1, <1>3, <1>4
<1> HIDE DEF S
<1>6. Reached(r) \subseteq S
  BY <1>2, <1>5, ReachedLeast
<1>7. v \in S
  BY <1>6
<1> QED
  BY <1>1, <1>4, <1>7 DEF S

(* The least place that is unrolled once the next one is. *)
LEMMA NextBehind ==
    ASSUME FullInv, phase = "find", EndFind
    PROVE  /\ Behind' = Behind \cup {nextGep}
           /\ \A h : EndsChain(h)' <=> \E ch \in Chains(trace, Behind \cup {nextGep}) : ch[nextGep] = h
           /\ traceGeps' \subseteq GepsOf(trace)
           /\ \A p \in traceGeps' : \A q \in Behind' : p < q
<1> DEFINE n == nextGep
           G == GepsOf(trace)
<1>1. /\ traceGeps' = traceGeps \ {n} /\ UNCHANGED <<b, trace>>
  BY DEF EndFind
<1>2. traceGeps # {} /\ traceGeps \subseteq G
  BY DEF FullInv, ForthInv, FindInv, UnrollInv, Unrolling
<1>3. /\ n \in traceGeps /\ n \in G /\ G \in SUBSET Nat /\ Behind \in SUBSET Nat
      /\ \A p \in traceGeps : p <= n
      /\ \A q \in Behind : n < q
      /\ Behind = G \ traceGeps
  BY <1>2, NextLevel DEF Unrolling, Behind
<1>4. /\ GepsOf(trace)' = G
      /\ \A ps : Chains(trace, ps)' = Chains(trace, ps)
  BY <1>1, SameTrace
<1> HIDE DEF n, G
<1>5. Behind' = Behind \cup {n}
  BY <1>1, <1>2, <1>3, <1>4 DEF Behind
<1>6. Min(Behind \cup {n}) = n
  <2> DEFINE B == Behind \cup {n}
  <2>1. B \in SUBSET Nat /\ B # {} /\ n \in B /\ \A q \in B : n <= q
    BY <1>3
  <2> HIDE DEF B
  <2>2. Min(B) \in B /\ Min(B) <= n
    BY <2>1, MinIs
  <2>3. Min(B) \in Nat /\ n \in Nat /\ n <= Min(B) /\ Min(B) <= n
    BY <2>1, <2>2
  <2>4. Min(B) = n
    BY <2>3
  <2> QED
    BY <2>4 DEF B
<1>7. \A h : EndsChain(h)' <=> \E ch \in Chains(trace, Behind \cup {n}) : ch[n] = h
  BY <1>4, <1>5, <1>6 DEF EndsChain
<1>8. \A p \in traceGeps' : \A q \in Behind' : p < q
  <2>1. \A p \in traceGeps' : p \in Nat /\ p <= n /\ p # n /\ n \in Nat
    BY <1>1, <1>2, <1>3
  <2>2. \A q \in Behind' : q \in Nat /\ n <= q
    BY <1>3, <1>5
  <2> QED
    BY <2>1, <2>2
<1> QED
  BY <1>1, <1>2, <1>5, <1>7, <1>8 DEF n, G

LEMMA EndFindForth ==
    ASSUME FullInv, EndFind
    PROVE  ForthInv'
<1> DEFINE n == nextGep
<1>1. /\ phase = "find" /\ phase' = "unroll" /\ pending = {}
      /\ traceRoots' = {h \in geps : gepsAreEqual(b, gep, h)} /\ traceGeps' = traceGeps \ {n}
      /\ UNCHANGED <<b, back, left, trace, pending, visited, geps, refs>>
  BY DEF EndFind
<1>2. /\ Unrolling /\ traceGeps # {} /\ trace \in Rooted /\ FindInv
      /\ \A h \in traceRoots : EndsChain(h)
      /\ Apart(trace) => \A h : EndsChain(h) => h \in traceRoots
  BY <1>1 DEF FullInv, ForthInv, UnrollInv, FindInv, Unrolling
<1>3. /\ n \in GepsOf(trace)
      /\ \A h : h \in Level(trace, n) <=> EndsChain(h)
  BY <1>2, NextLevel
<1>4. /\ Behind' = Behind \cup {n}
      /\ \A h : EndsChain(h)' <=> \E ch \in Chains(trace, Behind \cup {n}) : ch[n] = h
      /\ traceGeps' \subseteq GepsOf(trace)
      /\ \A p \in traceGeps' : \A q \in Behind' : p < q
  BY <1>1, NextBehind
<1>5. trace' \in Rooted' /\ GepsOf(trace)' = GepsOf(trace) /\ Apart(trace)' = Apart(trace)
  <2>1. results' = results
    BY <1>1 DEF back
  <2>2. Rooted' = Rooted
    BY <1>1, <2>1, SameProgram DEF Rooted
  <2> QED
    BY <1>1, <1>2, <2>2, SameTrace
<1>6. \A h \in traceRoots' : EndsChain(h)'
  BY <1>1, <1>4, ChainGrows
<1>7. ASSUME Apart(trace), NEW h, EndsChain(h)'
      PROVE  h \in traceRoots'
  <2>1. PICK ch \in Chains(trace, Behind \cup {n}) : ch[n] = h
    BY <1>4, <1>7
  <2>2. /\ gepsAreEqual(b, gep, h) /\ h \in Value /\ b.kind[h] = "gep"
        /\ \E r : EndsChain(r) /\ \E v \in Reached(r) : h \in b.m.users[v]
    BY <1>2, <2>1, ChainShrinks
  <2>3. PICK r : EndsChain(r) /\ \E v \in Reached(r) : h \in b.m.users[v]
    BY <2>2
  <2>4. r \in traceRoots
    BY <1>2, <1>7, <2>3
  <2>5. PICK v \in Reached(r) : h \in b.m.users[v]
    BY <2>3
  <2>6. UsersOf(v, {"gep"}) \subseteq geps
    BY <1>1, <1>7, <2>4, <2>5, LevelComplete
  <2>7. h \in geps
    BY <2>2, <2>5, <2>6 DEF UsersOf
  <2> QED
    BY <1>1, <2>2, <2>7
<1>8. ASSUME Apart(trace), NEW v \in visited
      PROVE  MetBehind(v)'
  <2>1. \A p : Level(trace, p)' = Level(trace, p)
    BY <1>1, SameTrace
  <2>2. \A u : Reached(u)' = Reached(u)
    BY <1>1, SameProgram
  <2>3. MetBehind(v) \/ Searched(v)
    BY <1>1, <1>2, <1>8 DEF FindInv
  <2>4. \E q \in Behind \cup {n} : \E w \in Level(trace, q) : v \in Reached(w)
    <3>1. CASE MetBehind(v)
      BY <3>1 DEF MetBehind
    <3>2. CASE Searched(v)
      BY <1>2, <1>3, <3>2 DEF Searched
    <3> QED
      BY <2>3, <3>1, <3>2
  <2> QED
    BY <1>4, <2>1, <2>2, <2>4 DEF MetBehind
<1>9. UnrollInv'
  <2> HIDE DEF n, EndsChain, MetBehind
  <2> QED
    BY <1>1, <1>4, <1>5, <1>6, <1>7, <1>8 DEF UnrollInv, Unrolling
<1>10. RefsInv'
  BY <1>1, RefsSoFar, RefsKept DEF Forth, Unrolling
<1> QED
  BY <1>1, <1>9, <1>10 DEF ForthInv, FindInv

LEMMA EndUnrollForth ==
    ASSUME FullInv, EndUnroll
    PROVE  ForthInv'
<1>1. /\ phase = "unroll" /\ phase' = "traces" /\ traceGeps = {} /\ refs' = refs \cup traceRoots
      /\ UNCHANGED <<b, back, left, trace>>
  BY DEF EndUnroll
<1>2. /\ trace \in Rooted /\ \A h \in traceRoots : EndsChain(h)
      /\ Apart(trace) => \A h : EndsChain(h) => h \in traceRoots
  BY <1>1 DEF FullInv, ForthInv, UnrollInv, Unrolling
<1>3. /\ traceRoots \subseteq Unrolled(trace)
      /\ Apart(trace) => Unrolled(trace) \subseteq traceRoots
  BY <1>1, <1>2, EndsUnrolled
<1>4. RefsInv'
  BY <1>1, <1>2, <1>3, RefsSoFar, RefsKept DEF Forth
<1> QED
  BY <1>1, <1>4 DEF ForthInv, UnrollInv, Unrolling, FindInv

LEMMA EndTracesForth ==
    ASSUME FullInv, EndTraces
    PROVE  ForthInv'
<1>1. phase = "traces" /\ phase' = "done" /\ left = {} /\ UNCHANGED <<b, back, left, trace, refs>>
  BY DEF EndTraces, forth
<1>2. RefsInv'
  BY <1>1, RefsSoFar, RefsKept DEF Forth, Unrolling
<1> QED
  BY <1>1, <1>2 DEF ForthInv, UnrollInv, Unrolling, FindInv

LEMMA StutterForth ==
    ASSUME FullInv, UNCHANGED vars
    PROVE  ForthInv'
<1>1. /\ UNCHANGED <<b, phase, back, left, trace, traceGeps, traceRoots, pending, visited, geps, refs>>
      /\ results' = results
  BY DEF vars, back
<1>2. CASE phase \in {"follow", "callers", "undefined"}
  BY <1>1, <1>2, BeforeForth
<1>3. CASE phase \in {"traces", "unroll", "find", "done"}
  <2>1. UnrollInv'
    <3>1. CASE Unrolling
      BY <1>1, <3>1, UnrollKept DEF Unrolling
    <3>2. CASE ~Unrolling
      BY <1>1, <3>2 DEF UnrollInv, Unrolling
    <3> QED
      BY <3>1, <3>2
  <2>2. RefsInv'
    <3>1. Rooted' = Rooted
      BY <1>1, SameProgram DEF Rooted
    <3>2. \A t : Unrolled(t)' = Unrolled(t) /\ Apart(t)' = Apart(t)
      BY <1>1, SameChains
    <3> QED
      BY <1>1, <3>1, <3>2 DEF FullInv, ForthInv, RefsInv, Unrolling
  <2>3. FindInv'
    <3>1. /\ Apart(trace)' = Apart(trace)
          /\ \A v : Searched(v)' = Searched(v) /\ MetBehind(v)' = MetBehind(v)
      BY <1>1, SameTrace, SameBehind, SameSearch
    <3> QED
      BY <1>1, <3>1, SameProgram DEF FullInv, ForthInv, FindInv
  <2> QED
    BY <2>1, <2>2, <2>3 DEF ForthInv
<1>4. phase \in Phase
  BY DEF FullInv, BackInv, TypeOK
<1> QED
  BY <1>2, <1>3, <1>4 DEF Phase

LEMMA NextForth == FullInv /\ [Next]_vars => FullInv'
<1> SUFFICES ASSUME FullInv, [Next]_vars
             PROVE  ForthInv'
  BY NextBack DEF FullInv
<1>1. CASE followBwdUpToArg \/ EndTrace \/ followArg \/ \E c \in calls : TakeCall(c)
  <2>1. phase \in {"follow", "callers"} /\ phase' \in {"follow", "callers"} /\ refs' = refs
    BY <1>1 DEF followBwdUpToArg, EndTrace, followArg, TakeCall, AtEnd, forth
  <2> QED
    BY <2>1, BeforeForth
<1>2. CASE \/ NullStore \/ CastFails \/ CompareUndefined
           \/ \E c \in calls : TooFewArguments(c)
           \/ \E t \in left : TraceUndefined(t)
           \/ \E v \in pending : FindUndefined(v)
  <2>1. phase' = "undefined" /\ refs' = refs
    BY <1>2 DEF NullStore, CastFails, CompareUndefined, TooFewArguments, TraceUndefined, FindUndefined, forth
  <2> QED
    BY <2>1, BeforeForth
<1>3. CASE EndCallers
  BY <1>3, EndCallersForth
<1>4. CASE \E t \in left : DropTrace(t) \/ TakeTrace(t)
  BY <1>4, TracesForth
<1>5. CASE TakeGep \/ EndFind \/ EndUnroll \/ EndTraces
  BY <1>5, TakeGepForth, EndFindForth, EndUnrollForth, EndTracesForth
<1>6. CASE \E v \in pending : findGEPs(v) \/ Skip(v)
  BY <1>6, FindForth
<1>7. CASE UNCHANGED vars
  BY <1>7, StutterForth
<1> QED
  BY <1>1, <1>2, <1>3, <1>4, <1>5, <1>6, <1>7 DEF Next, Step, Terminated

LEMMA FullInvHolds == Spec => []FullInv
<1>1. Init => FullInv
  BY InitBack, InitForth DEF FullInv
<1> QED
  BY <1>1, NextForth, PTL DEF Spec

-----------------------------------------------------------------------------
(* The way back. *)

(* Each place of a trace but the last holds what the next one is one step back
   from; an argument at which the function is left is followed by a call of
   the function and by what that passes.                                     *)
LeftHere(i) == vt2 # <<>> /\ i = Len(vt2)
Enters(i) == vt2 # <<>> /\ i = Len(vt2) + 1

Leap(t, i) ==
    LET c == t[i + 1] IN
    /\ b.kind[t[i]] = "argument" /\ c \in Callers(t[i]) /\ i + 2 <= Len(t)
    /\ ArgNo(c, t[i]) \in DOMAIN b.m.operands[c]
    /\ t[i + 2] = b.m.operands[c][ArgNo(c, t[i])]

Walked(t) ==
    \A i \in 1..(Len(t) - 1) :
        IF LeftHere(i) THEN Leap(t, i)
        ELSE Enters(i) \/ (t[i + 1] = StepBack(b, t[i]) /\ t[i + 1] # t[i])

WalkInv ==
    /\ phase = "follow" => Walked(vt) /\ Last(vt) \in Visited
    /\ vt2 # <<>> => Walked(vt2) /\ b.kind[Last(vt2)] = "argument"
    /\ \A t \in results : Walked(t)

LEMMA SameWalk ==
    ASSUME UNCHANGED <<b, vt2>>
    PROVE  \A t : Walked(t)' = Walked(t)
BY DEF Walked, LeftHere, Leap, Enters, StepBack, getStore, Callers, ArgNo, SelectInSeq

LEMMA InitWalk == Init => WalkInv
<1> SUFFICES ASSUME Init
             PROVE  WalkInv
  OBVIOUS
<1>1. vt = <<b.start>> /\ Visited = {b.start} /\ vt2 = <<>> /\ results = {}
  BY DEF Init
<1>2. Len(vt) = 1 /\ Last(vt) \in Visited
  BY <1>1 DEF Last
<1>3. 1..(Len(vt) - 1) = {}
  BY <1>2
<1>4. Walked(vt)
  BY <1>3 DEF Walked
<1> QED
  BY <1>1, <1>2, <1>4 DEF WalkInv

LEMMA FollowWalk ==
    ASSUME BackInv, WalkInv, followBwdUpToArg
    PROVE  WalkInv'
<1> DEFINE V == StepBack(b, Last(vt))
           n == Len(vt)
<1>1. /\ phase = "follow" /\ V \notin Visited /\ vt' = Append(vt, V) /\ Visited' = Visited \cup {V}
      /\ UNCHANGED <<b, vt2, results>>
  BY DEF followBwdUpToArg
<1>2. vt \in Seq(Value) /\ vt # <<>> /\ Walked(vt) /\ Last(vt) \in Visited /\ b \in Programs
  BY <1>1 DEF BackInv, TypeOK, WalkInv
<1>3. V \in Value /\ V # Last(vt)
  BY <1>1, <1>2, VtLast, StepBackType DEF BackInv
<1>4. vt2 # <<>> => n # Len(vt2)
  <2>1. vt2 # <<>> => Leaves(vt) /\ Len(vt2) \in Nat
    BY <1>1 DEF BackInv, CallersInv, TypeOK
  <2>2. n \in Nat
    BY <1>2
  <2> QED
    BY <2>1, <2>2 DEF Leaves
<1>5. n \in Nat \ {0} /\ Last(vt) = vt[n]
  BY <1>2 DEF Last
<1> HIDE DEF V
<1>6. /\ Len(vt') = n + 1 /\ vt'[n + 1] = V /\ Last(vt') = V
      /\ \A i \in 1..n : vt'[i] = vt[i]
  BY <1>1, <1>2, <1>3, <1>5 DEF Last
<1>7. Walked(vt')
  <2> SUFFICES ASSUME NEW i \in 1..n
               PROVE  IF LeftHere(i) THEN Leap(vt', i)
                      ELSE Enters(i) \/ (vt'[i + 1] = StepBack(b, vt'[i]) /\ vt'[i + 1] # vt'[i])
    BY <1>5, <1>6 DEF Walked
  <2>1. CASE i = n
    <3>1. ~LeftHere(i)
      BY <1>4, <2>1 DEF LeftHere
    <3>2. vt'[i] = Last(vt) /\ vt'[i + 1] = V
      BY <1>5, <1>6, <2>1
    <3> QED
      BY <1>3, <3>1, <3>2 DEF V
  <2>2. CASE i # n
    <3>1. i \in 1..(n - 1) /\ vt'[i] = vt[i] /\ vt'[i + 1] = vt[i + 1]
      BY <1>5, <1>6, <2>2
    <3>2. IF LeftHere(i) THEN Leap(vt, i)
          ELSE Enters(i) \/ (vt[i + 1] = StepBack(b, vt[i]) /\ vt[i + 1] # vt[i])
      BY <1>2, <3>1 DEF Walked
    <3>3. ASSUME Leap(vt, i)
          PROVE  Leap(vt', i)
      <4>1. i + 2 <= n
        BY <3>3 DEF Leap
      <4>2. vt'[i + 2] = vt[i + 2] /\ i + 2 <= Len(vt')
        BY <1>5, <1>6, <4>1
      <4> HIDE DEF n
      <4> QED
        BY <3>1, <3>3, <4>2 DEF Leap
    <3> QED
      BY <3>1, <3>2, <3>3
  <2> QED
    BY <2>1, <2>2
<1>8. \A t : Walked(t)' = Walked(t)
  BY <1>1, SameWalk
<1>9. Walked(vt)'
  <2>1. PICK u : u = vt'
    OBVIOUS
  <2>2. Walked(u)'
    BY <1>7, <1>8, <2>1
  <2> QED
    BY <2>1, <2>2 DEF Walked, Leap
<1> QED
  BY <1>1, <1>6, <1>8, <1>9 DEF WalkInv

LEMMA EndTraceWalk ==
    ASSUME WalkInv, EndTrace
    PROVE  WalkInv'
<1>1. /\ phase = "follow" /\ results' = results \cup {vt} /\ phase' = "callers"
      /\ UNCHANGED <<b, vt, vt2>>
  BY DEF EndTrace, AtEnd
<1>2. \A t : Walked(t)' = Walked(t)
  BY <1>1, SameWalk
<1>3. vt2 # <<>> => Walked(vt2)' /\ b.kind[Last(vt2)] = "argument"
  <2>1. PICK t : t = vt2
    OBVIOUS
  <2>2. Walked(vt2)' = Walked(t)'
    BY <1>1, <2>1
  <2> QED
    BY <1>2, <2>1, <2>2 DEF WalkInv
<1>4. \A t \in results' : Walked(t)'
  BY <1>1, <1>2 DEF WalkInv
<1> QED
  BY <1>1, <1>3, <1>4 DEF WalkInv

LEMMA FollowArgWalk ==
    ASSUME BackInv, WalkInv, followArg
    PROVE  WalkInv'
<1>1. /\ phase = "follow" /\ vt2 = <<>> /\ vt2' = vt /\ phase' = "callers"
      /\ b.kind[Last(vt)] = "argument" /\ UNCHANGED <<b, vt, results>>
  BY DEF followArg, AtEnd, AtArgument
<1>2. results = {} /\ vt \in Seq(Value)
  BY <1>1 DEF BackInv, CallersInv, TypeOK
<1>3. Walked(vt)
  BY <1>1 DEF WalkInv
<1>4. Walked(vt2)'
  <2>1. \A i \in 1..(Len(vt) - 1) : vt[i + 1] = StepBack(b, vt[i]) /\ vt[i + 1] # vt[i]
    BY <1>1, <1>3 DEF Walked, LeftHere, Enters
  <2>2. \A i \in 1..(Len(vt) - 1) : i # Len(vt)
    BY <1>2
  <2> QED
    BY <1>1, <2>1, <2>2 DEF Walked, LeftHere, StepBack, getStore
<1> QED
  BY <1>1, <1>2, <1>4 DEF WalkInv

LEMMA TakeCallWalk ==
    ASSUME BackInv, WalkInv, NEW c \in calls, TakeCall(c)
    PROVE  WalkInv'
<1> DEFINE n == Len(vt2)
           p == ArgNo(c, Last(vt2))
           a == b.m.operands[c][p]
<1>1. /\ p \in DOMAIN b.m.operands[c] /\ vt' = vt2 \o <<c, a>> /\ Visited' = {a} /\ phase' = "follow"
      /\ UNCHANGED <<b, vt2, results>>
  BY DEF TakeCall
<1>2. /\ vt2 # <<>> /\ vt2 \in Seq(Value) /\ c \in Callers(Last(vt2))
      /\ Walked(vt2) /\ b.kind[Last(vt2)] = "argument"
  BY DEF BackInv, TypeOK, CallersInv, WalkInv
<1>3. n \in Nat \ {0} /\ Last(vt2) = vt2[n]
  BY <1>2 DEF Last
<1> HIDE DEF a, p
<1>4. /\ Len(vt') = n + 2 /\ vt'[n + 1] = c /\ vt'[n + 2] = a /\ Last(vt') = a
      /\ \A i \in 1..n : vt'[i] = vt2[i]
  BY <1>1, <1>2, <1>3 DEF Last
<1>5. Walked(vt')
  <2> SUFFICES ASSUME NEW i \in 1..(n + 1)
               PROVE  IF LeftHere(i) THEN Leap(vt', i)
                      ELSE Enters(i) \/ (vt'[i + 1] = StepBack(b, vt'[i]) /\ vt'[i + 1] # vt'[i])
    BY <1>3, <1>4 DEF Walked
  <2>1. CASE i = n
    <3>1. LeftHere(i) /\ vt'[i] = Last(vt2) /\ vt'[i + 1] = c /\ vt'[i + 2] = a /\ i + 2 <= Len(vt')
      BY <1>2, <1>3, <1>4, <2>1 DEF LeftHere
    <3>2. Leap(vt', i)
      BY <1>1, <1>2, <3>1 DEF Leap, a, p
    <3> QED
      BY <3>1, <3>2
  <2>2. CASE i = n + 1
    <3>1. Enters(i) /\ ~LeftHere(i)
      BY <1>2, <1>3, <2>2 DEF Enters, LeftHere
    <3> QED
      BY <3>1
  <2>3. CASE i # n /\ i # n + 1
    <3>1. i \in 1..(n - 1) /\ ~LeftHere(i) /\ ~Enters(i) /\ vt'[i] = vt2[i] /\ vt'[i + 1] = vt2[i + 1]
      BY <1>3, <1>4, <2>3 DEF LeftHere, Enters
    <3> QED
      BY <1>2, <3>1 DEF Walked
  <2> QED
    BY <2>1, <2>2, <2>3
<1>6. \A t : Walked(t)' = Walked(t)
  BY <1>1, SameWalk
<1>7. Walked(vt)' /\ Walked(vt2)'
  <2>1. PICK u : u = vt'
    OBVIOUS
  <2>2. PICK w : w = vt2
    OBVIOUS
  <2>3. Walked(u)' /\ Walked(w)'
    BY <1>2, <1>5, <1>6, <2>1, <2>2
  <2> QED
    BY <1>1, <2>1, <2>2, <2>3 DEF Walked, Leap
<1> QED
  BY <1>1, <1>2, <1>4, <1>6, <1>7 DEF WalkInv

LEMMA OtherWalk ==
    ASSUME WalkInv, UNCHANGED <<b, vt2, results>>,
           phase' = "follow" => phase = "follow" /\ UNCHANGED <<vt, Visited>>
    PROVE  WalkInv'
<1>1. \A t : Walked(t)' = Walked(t)
  BY SameWalk
<1>2. vt2 # <<>> => Walked(vt2)'
  <2>1. PICK t : t = vt2
    OBVIOUS
  <2>2. Walked(vt2)' = Walked(t)'
    BY <2>1
  <2> QED
    BY <1>1, <2>1, <2>2 DEF WalkInv
<1>3. phase' = "follow" => Walked(vt)' /\ Last(vt)' \in Visited'
  <2> SUFFICES ASSUME phase' = "follow"
               PROVE  Walked(vt)' /\ Last(vt)' \in Visited'
    OBVIOUS
  <2>1. PICK t : t = vt
    OBVIOUS
  <2>2. Walked(vt)' = Walked(t)'
    BY <2>1
  <2>3. Last(vt)' = Last(vt)
    OBVIOUS
  <2> QED
    BY <1>1, <2>1, <2>2, <2>3 DEF WalkInv
<1> QED
  BY <1>1, <1>2, <1>3 DEF WalkInv

LEMMA NextWalk == BackInv /\ WalkInv /\ [Next]_vars => WalkInv'
<1> SUFFICES ASSUME BackInv, WalkInv, [Next]_vars
             PROVE  WalkInv'
  OBVIOUS
<1>1. CASE followBwdUpToArg \/ EndTrace \/ followArg \/ \E c \in calls : TakeCall(c)
  BY <1>1, FollowWalk, EndTraceWalk, FollowArgWalk, TakeCallWalk
<1>2. CASE \/ NullStore \/ CastFails \/ EndCallers
           \/ \E c \in calls : TooFewArguments(c)
           \/ \E t \in left : DropTrace(t) \/ TakeTrace(t) \/ TraceUndefined(t)
           \/ TakeGep \/ CompareUndefined \/ EndFind \/ EndUnroll \/ EndTraces
           \/ \E v \in pending : findGEPs(v) \/ Skip(v) \/ FindUndefined(v)
  <2>1. UNCHANGED <<b, back>> /\ phase' # "follow"
    BY <1>2 DEF NullStore, CastFails, EndCallers, TooFewArguments, DropTrace, TakeTrace,
                TraceUndefined, TakeGep, CompareUndefined, EndFind, EndUnroll, EndTraces, findGEPs, Skip,
                FindUndefined
  <2> QED
    BY <2>1, OtherWalk DEF back
<1>3. CASE UNCHANGED vars
  <2>1. UNCHANGED <<b, phase, vt, Visited, vt2, results>>
    BY <1>3 DEF vars
  <2> QED
    BY <2>1, OtherWalk
<1> QED
  BY <1>1, <1>2, <1>3 DEF Next, Step, Terminated

LEMMA WalkInvHolds == Spec => []WalkInv
<1>1. Init => WalkInv
  BY InitWalk
<1> QED
  BY <1>1, NextWalk, BackInvHolds, PTL DEF Spec

-----------------------------------------------------------------------------
(* Looking the same.  indicesAreEqual is some fixpoint of its definition; that
   there is one follows as a set of pairs that compares equal still does when
   more pairs are taken for equal.                                            *)

(* indicesAreEqual, where f tells of the pairs of operands. *)
CompareIndices(d, f, q) ==
    IF IsConstant(d, q[1]) \/ IsConstant(d, q[2])
    THEN q[1] = q[2]
    ELSE Len(followArithmeticBwd(d, q[1])) = Len(followArithmeticBwd(d, q[2])) =>
            \A xy \in Beside(followArithmeticBwd(d, q[1]), followArithmeticBwd(d, q[2])) :
               xy[1] = xy[2] \/ naiveCompare(d, f, xy[1], xy[2])

Compared(d, f) == [q \in Value \X Value |-> CompareIndices(d, f, q)]

LEMMA ComparedIs ==
    ASSUME NEW d
    PROVE  indicesAreEqual(d) = CHOOSE f : f = Compared(d, f)
BY DEF indicesAreEqual, Compared, CompareIndices

(* The comparison that takes exactly the pairs of S for equal. *)
Holds(S) == [q \in Value \X Value |-> q \in S]

LEMMA CompareMore ==
    ASSUME NEW d, NEW x, NEW y, NEW S, NEW T \in SUBSET (Value \X Value), S \subseteq T,
           d.kind[x] = "binop" /\ d.kind[y] = "binop" =>
              \A i \in 1..2 : <<d.m.operands[x][i], d.m.operands[y][i]>> \in Value \X Value,
           naiveCompare(d, Holds(S), x, y)
    PROVE  naiveCompare(d, Holds(T), x, y)
<1>1. CASE d.kind[x] = "binop" /\ d.kind[y] = "binop" /\ d.opcode[x] = d.opcode[y]
           /\ \A i \in 1..2 : Holds(S)[<<d.m.operands[x][i], d.m.operands[y][i]>>]
  <2>1. ASSUME NEW i \in 1..2
        PROVE  Holds(T)[<<d.m.operands[x][i], d.m.operands[y][i]>>]
    <3> DEFINE q == <<d.m.operands[x][i], d.m.operands[y][i]>>
    <3>1. q \in Value \X Value /\ Holds(S)[q]
      BY <1>1
    <3> HIDE DEF q
    <3>2. q \in S
      BY <3>1 DEF Holds
    <3>3. Holds(T)[q]
      BY <3>1, <3>2 DEF Holds
    <3> QED
      BY <3>3 DEF q
  <2> QED
    BY <1>1, <2>1 DEF naiveCompare
<1>2. CASE d.kind[x] = "load" /\ d.kind[y] = "load" /\ d.m.operands[x][1] = d.m.operands[y][1]
  BY <1>2 DEF naiveCompare
<1> QED
  BY <1>1, <1>2 DEF naiveCompare

LEMMA CompareIndicesMore ==
    ASSUME NEW d \in Program, WellFormed(d),
           NEW S, NEW T \in SUBSET (Value \X Value), S \subseteq T,
           NEW q, CompareIndices(d, Holds(S), q)
    PROVE  CompareIndices(d, Holds(T), q)
<1> DEFINE both == Beside(followArithmeticBwd(d, q[1]), followArithmeticBwd(d, q[2]))
<1>1. ASSUME NEW xy \in both, naiveCompare(d, Holds(S), xy[1], xy[2])
      PROVE  naiveCompare(d, Holds(T), xy[1], xy[2])
  <2>1. xy[1] \in Value /\ xy[2] \in Value
    BY DEF Beside
  <2>2. \A v \in Value : d.m.operands[v] \in Seq(Value)
    <3>1. d.m \in IRModule
      BY DEF Program
    <3> QED
      BY <3>1 DEF IRModule
  <2>3. \A v \in Value : d.kind[v] = "binop" => Len(d.m.operands[v]) = 2
    BY DEF WellFormed
  <2>4. \A v \in Value : d.kind[v] = "binop" => \A i \in 1..2 : d.m.operands[v][i] \in Value
    BY <2>2, <2>3
  <2>5. d.kind[xy[1]] = "binop" /\ d.kind[xy[2]] = "binop" =>
           \A i \in 1..2 : <<d.m.operands[xy[1]][i], d.m.operands[xy[2]][i]>> \in Value \X Value
    BY <2>1, <2>4
  <2> QED
    BY <1>1, <2>5, CompareMore
<1> HIDE DEF both
<1>2. CompareIndices(d, Holds(S), q) <=>
        IF IsConstant(d, q[1]) \/ IsConstant(d, q[2])
        THEN q[1] = q[2]
        ELSE Len(followArithmeticBwd(d, q[1])) = Len(followArithmeticBwd(d, q[2])) =>
                \A xy \in both : xy[1] = xy[2] \/ naiveCompare(d, Holds(S), xy[1], xy[2])
  BY DEF CompareIndices, both
<1>3. CompareIndices(d, Holds(T), q) <=>
        IF IsConstant(d, q[1]) \/ IsConstant(d, q[2])
        THEN q[1] = q[2]
        ELSE Len(followArithmeticBwd(d, q[1])) = Len(followArithmeticBwd(d, q[2])) =>
                \A xy \in both : xy[1] = xy[2] \/ naiveCompare(d, Holds(T), xy[1], xy[2])
  BY DEF CompareIndices, both
<1> QED
  BY <1>1, <1>2, <1>3

(* The union of the sets whose pairs compare equal if the set does. *)
LEMMA ComparisonExists ==
    ASSUME NEW d \in Program, WellFormed(d)
    PROVE  \E f : f = Compared(d, f)
<1> DEFINE Pairs == Value \X Value
           Sets == {S \in SUBSET Pairs : \A q \in S : CompareIndices(d, Holds(S), q)}
           U == UNION Sets
           W == {q \in Pairs : CompareIndices(d, Holds(U), q)}
<1>1. U \in SUBSET Pairs
  OBVIOUS
<1>2. \A q \in U : CompareIndices(d, Holds(U), q)
  <2> SUFFICES ASSUME NEW S \in Sets, NEW q \in S
               PROVE  CompareIndices(d, Holds(U), q)
    OBVIOUS
  <2>1. S \subseteq U /\ CompareIndices(d, Holds(S), q)
    OBVIOUS
  <2> HIDE DEF U
  <2> QED
    BY <1>1, <2>1, CompareIndicesMore
<1>3. W \in Sets
  <2>1. U \subseteq W /\ W \in SUBSET Pairs
    BY <1>1, <1>2
  <2>2. \A q \in W : CompareIndices(d, Holds(U), q)
    OBVIOUS
  <2> HIDE DEF U, W
  <2>3. \A q \in W : CompareIndices(d, Holds(W), q)
    BY <2>1, <2>2, CompareIndicesMore
  <2> QED
    BY <2>1, <2>3
<1>4. \A q \in Pairs : q \in U <=> CompareIndices(d, Holds(U), q)
  <2>1. W \subseteq U
    <3> HIDE DEF W, Sets
    <3> QED
      BY <1>3
  <2> HIDE DEF U
  <2>2. \A q \in Pairs : CompareIndices(d, Holds(U), q) => q \in U
    BY <2>1
  <2> QED
    BY <1>2, <2>2
<1> HIDE DEF U
<1>5. \A q \in Pairs : (q \in U) = CompareIndices(d, Holds(U), q)
  <2>1. \A q \in Pairs : CompareIndices(d, Holds(U), q) \in BOOLEAN
    BY DEF CompareIndices
  <2> QED
    BY <1>4, <2>1
<1>6. Holds(U) = Compared(d, Holds(U))
  BY <1>5 DEF Holds, Compared
<1> QED
  BY <1>6

(* An index looks like itself. *)
LEMMA IndexEqualsItself ==
    ASSUME NEW d \in Program, WellFormed(d), NEW v \in Value
    PROVE  indicesAreEqual(d)[<<v, v>>]
<1> DEFINE e == indicesAreEqual(d)
           q == <<v, v>>
<1>1. e = Compared(d, e)
  BY ComparedIs, ComparisonExists
<1> HIDE DEF e
<1>2. e[q] = CompareIndices(d, e, q)
  BY <1>1 DEF Compared
<1>3. CompareIndices(d, e, q)
  BY DEF CompareIndices, Beside
<1> QED
  BY <1>2, <1>3 DEF e

LEMMA GepEqualsItself ==
    ASSUME b \in Programs, NEW g \in Value, b.kind[g] = "gep"
    PROVE  gepsAreEqual(b, g, g)
<1>1. b \in Program /\ WellFormed(b)
  BY ProgramsAssumption
<1>2. b.m.operands[g] \in Seq(Value) /\ b.m.operands[g] # <<>>
  BY Fields
<1>3. Indices(b, g) \in Seq(Value)
  BY <1>2 DEF Indices
<1>4. \A i \in DOMAIN Indices(b, g) : Indices(b, g)[i] \in Value
  BY <1>3
<1>5. \A i \in DOMAIN Indices(b, g) : indicesAreEqual(b)[<<Indices(b, g)[i], Indices(b, g)[i]>>]
  BY <1>1, <1>4, IndexEqualsItself
<1> QED
  BY <1>5 DEF gepsAreEqual

-----------------------------------------------------------------------------
(* Back and forth again. *)

LEMMA ModuleFacts ==
    ASSUME b \in Programs, NEW v \in Value
    PROVE  /\ v \in b.m.calls => b.kind[v] \in {"call", "malloc"}
           /\ b.kind[v] \in {"bitcast", "gep", "load", "store"} =>
                 /\ b.m.operands[v][1] \in Value /\ b.kind[b.m.operands[v][1]] # "store"
                 /\ v \in b.m.users[b.m.operands[v][1]]
           /\ \A n \in DOMAIN b.m.operands[v] :
                 /\ b.m.operands[v][n] \in Value /\ b.kind[b.m.operands[v][n]] # "store"
                 /\ v \in b.m.users[b.m.operands[v][n]]
           /\ b.kind[v] = "load" /\ b.access[v] = "must" =>
                 \/ b.kind[b.def[v]] = "store" /\ v \in b.m.memUses[b.def[v]]
                 \/ b.kind[b.def[v]] = "call"
<1>1. WellFormed(b)
  BY ProgramsAssumption
<1>2. b.m.operands[v] \in Seq(Value)
  BY Fields
<1>3. \A n \in DOMAIN b.m.operands[v] :
         /\ b.m.operands[v][n] \in Value /\ b.kind[b.m.operands[v][n]] # "store"
         /\ v \in b.m.users[b.m.operands[v][n]]
  BY <1>1, <1>2 DEF WellFormed, ToSet
<1>4. b.kind[v] \in {"bitcast", "gep", "load", "store"} => 1 \in DOMAIN b.m.operands[v]
  BY <1>1, <1>2 DEF WellFormed
<1>5. v \in b.m.calls => b.kind[v] \in {"call", "malloc"}
  BY <1>1 DEF WellFormed
<1>6. b.kind[v] = "load" /\ b.access[v] = "must" =>
         \/ b.kind[b.def[v]] = "store" /\ v \in b.m.memUses[b.def[v]]
         \/ b.kind[b.def[v]] = "call"
  BY <1>1 DEF WellFormed
<1> QED
  BY <1>3, <1>4, <1>5, <1>6

(* The three ways down that a trace takes up. *)
LEMMA BelowUse ==
    ASSUME b \in Programs, NEW u, NEW w \in Value, w \in b.m.users[u], b.kind[w] \in {"bitcast", "load"}
    PROVE  w \in Below(u)
<1>1. w \notin b.m.calls
  BY ModuleFacts
<1>2. w \in UsersOf(u, Kind \ {"gep", "store"})
  BY DEF UsersOf, Kind
<1> QED
  BY <1>1, <1>2 DEF Below

LEMMA BelowStore ==
    ASSUME NEW u, NEW st \in b.m.users[u], b.kind[st] = "store", NEW w \in b.m.memUses[st]
    PROVE  w \in Below(u)
<1>1. st \in UsersOf(u, {"store"})
  BY DEF UsersOf
<1> QED
  BY <1>1 DEF Below

LEMMA BelowCall ==
    ASSUME b \in Programs, NEW a, NEW c \in Callers(a), b.m.callee[c] = "defined",
           ArgNo(c, a) \in DOMAIN b.m.operands[c]
    PROVE  a \in Below(b.m.operands[c][ArgNo(c, a)])
<1> DEFINE I == {i \in 1..Len(b.m.formals[c]) : b.m.formals[c][i] = a}
           u == b.m.operands[c][ArgNo(c, a)]
<1>1. c \in b.m.calls /\ c \in Value /\ a \in ToSet(b.m.formals[c]) /\ b.m.formals[c] \in Seq(Value)
  BY CallersAre, Fields
<1>2. ArgNo(c, a) \in I
  <2>1. ArgNo(c, a) = IF I # {} THEN Min(I) ELSE 0
    BY DEF ArgNo, SelectInSeq
  <2>2. I # {} /\ I \in SUBSET Nat
    BY <1>1 DEF ToSet
  <2> HIDE DEF I
  <2> QED
    BY <2>1, <2>2, MinIs
<1>3. c \in b.m.users[u]
  BY <1>1, ModuleFacts
<1>4. c \in CallUsers(u)
  BY <1>1, <1>3 DEF CallUsers
<1>5. ArgNo(c, a) \in Positions(b.m, c, u) \cap DOMAIN b.m.formals[c] /\ b.m.formals[c][ArgNo(c, a)] = a
  BY <1>1, <1>2 DEF Positions
<1>6. a \in getCallArgs(b.m, c, u)
  BY <1>5 DEF getCallArgs
<1> QED
  BY <1>4, <1>6 DEF Below

LEMMA RootIs ==
    ASSUME NEW t \in Seq(Value), RootAt(t) # 0
    PROVE  /\ RootAt(t) \in 1..Len(t) /\ IsRoot(Root(t))
           /\ \A i \in 1..(RootAt(t) - 1) : ~IsRoot(t[i])
           /\ GepsOf(t) = {i \in 1..RootAt(t) : b.kind[t[i]] = "gep"}
<1> DEFINE I == {i \in 1..Len(t) : IsRoot(t[i])}
           k == RootAt(t)
<1>1. k = IF I # {} THEN Min(I) ELSE 0
  BY DEF RootAt, SelectInSeq
<1>2. I \in SUBSET Nat /\ \A i \in 1..Len(t) : i \in I <=> IsRoot(t[i])
  OBVIOUS
<1>3. I \subseteq 1..Len(t) /\ Len(t) \in Nat
  OBVIOUS
<1> HIDE DEF I
<1>4. k \in I /\ \A i \in I : k <= i
  BY <1>1, <1>2, MinIs
<1>5. k \in 1..Len(t) /\ IsRoot(t[k])
  BY <1>2, <1>3, <1>4
<1>6. \A i \in 1..(k - 1) : ~IsRoot(t[i])
  <2> HIDE DEF k
  <2> QED
    BY <1>2, <1>3, <1>4, <1>5
<1>7. DOMAIN ReadPart(t) = 1..k
  <2>1. ReadPart(t) = SubSeq(t, 1, k)
    BY DEF ReadPart
  <2> HIDE DEF k
  <2> QED
    BY <1>5, <2>1
<1>8. GepsOf(t) = {i \in 1..k : b.kind[t[i]] = "gep"}
  BY <1>7 DEF GepsOf
<1> QED
  BY <1>5, <1>6, <1>8 DEF Root

(* A trace that is followed, up to its root k. *)
Rooting(t, k) ==
    /\ t \in Seq(Value) /\ Walked(t) /\ Followed(t)
    /\ k \in 1..Len(t) /\ IsRoot(t[k]) /\ \A i \in 1..(k - 1) : ~IsRoot(t[i])

(* Where a step of a trace leads. *)
LEMMA PlaceIs ==
    ASSUME b \in Programs, vt2 \in Seq(Value), NEW t, NEW k, Rooting(t, k), NEW i \in 1..(k - 1)
    PROVE  /\ i + 1 <= k /\ k <= Len(t) /\ i \in Nat /\ k \in Nat /\ t[i] \in Value /\ t[i + 1] \in Value
           /\ ~IsRoot(t[i])
           /\ LeftHere(i) => Leap(t, i) /\ b.kind[t[i]] = "argument"
           /\ ~LeftHere(i) /\ ~Enters(i) => t[i + 1] = StepBack(b, t[i]) /\ t[i + 1] # t[i]
           /\ Enters(i) => b.kind[t[i]] = "call"
           /\ ~(LeftHere(i) /\ Enters(i)) /\ (LeftHere(i) <=> Enters(i + 1)) /\ (Enters(i) => ~LeftHere(i + 1))
<1>1. k \in 1..Len(t) /\ Len(t) \in Nat /\ \A j \in 1..Len(t) : t[j] \in Value
  BY DEF Rooting
<1>2. i + 1 <= k /\ k <= Len(t) /\ i \in Nat /\ k \in Nat /\ t[i] \in Value /\ t[i + 1] \in Value
  BY <1>1
<1>3. ~IsRoot(t[i])
  BY DEF Rooting
<1>4. i \in 1..(Len(t) - 1)
  BY <1>1
<1>5. \A j \in 1..(Len(t) - 1) :
         IF LeftHere(j) THEN Leap(t, j)
         ELSE Enters(j) \/ (t[j + 1] = StepBack(b, t[j]) /\ t[j + 1] # t[j])
  BY DEF Rooting, Walked
<1>6. LeftHere(i) => Leap(t, i) /\ b.kind[t[i]] = "argument"
  BY <1>4, <1>5 DEF Leap
<1>7. ASSUME Enters(i)
      PROVE  b.kind[t[i]] = "call"
  <2>1. vt2 # <<>> /\ i = Len(vt2) + 1 /\ Len(vt2) \in Nat \ {0}
    BY <1>7 DEF Enters
  <2> DEFINE j == Len(vt2)
  <2>2. j \in 1..(Len(t) - 1) /\ LeftHere(j) /\ t[j + 1] = t[i]
    BY <1>1, <2>1 DEF LeftHere
  <2> HIDE DEF j
  <2>3. t[i] \in Callers(t[j])
    BY <1>5, <2>2 DEF Leap
  <2>4. t[i] \in b.m.calls
    BY <2>3 DEF Callers
  <2> QED
    BY <1>2, <1>3, <2>4, ModuleFacts DEF IsRoot
<1>8. ~(LeftHere(i) /\ Enters(i)) /\ (LeftHere(i) <=> Enters(i + 1)) /\ (Enters(i) => ~LeftHere(i + 1))
  <2>1. Len(vt2) \in Nat
    OBVIOUS
  <2> QED
    BY <1>2, <2>1 DEF LeftHere, Enters
<1>9. ~LeftHere(i) /\ ~Enters(i) => t[i + 1] = StepBack(b, t[i]) /\ t[i + 1] # t[i]
  BY <1>4, <1>5
<1> QED
  BY <1>2, <1>3, <1>6, <1>7, <1>8, <1>9

(* Between two of the values from which GEPs are looked for all is reached
   from the one nearer to the root, but stores and the call that is entered. *)
LEMMA OnTheWay ==
    ASSUME b \in Programs, vt2 \in Seq(Value), NEW t, NEW k, Rooting(t, k),
           NEW q \in 1..k, q = k \/ b.kind[t[q]] = "gep",
           NEW p \in 1..(q - 1), \A i \in (p + 1)..(q - 1) : b.kind[t[i]] # "gep",
           NEW e \in (p + 1)..q, b.kind[t[e]] # "store", ~Enters(e)
    PROVE  t[e] \in Reached(t[q])
<1> DEFINE C == {i \in (p + 1)..q : b.kind[t[i]] # "store" /\ ~Enters(i) /\ t[i] \notin Reached(t[q])}
           i == Max(C)
<1> SUFFICES ASSUME e \in C
             PROVE  FALSE
  OBVIOUS
<1>1. k \in 1..Len(t) /\ Len(t) \in Nat /\ p \in Nat /\ q \in Nat /\ p < q /\ q <= k
  BY DEF Rooting
<1>2. t[q] \in Value /\ t[q] \in Reached(t[q]) /\ \A u \in Reached(t[q]) : Below(u) \subseteq Reached(t[q])
  <2>1. t[q] \in Value
    BY <1>1 DEF Rooting
  <2> QED
    BY <2>1, ReachedFrom
<1>3. i \in C /\ \A j \in C : j <= i
  <2>1. C \in SUBSET (1..q)
    BY <1>1
  <2> HIDE DEF C
  <2> QED
    BY <1>1, <2>1, MaxIn
<1>4. /\ i \in (p + 1)..q /\ b.kind[t[i]] # "store" /\ ~Enters(i) /\ t[i] \notin Reached(t[q])
      /\ \A j \in (i + 1)..q : b.kind[t[j]] # "store" /\ ~Enters(j) => t[j] \in Reached(t[q])
  <2>1. \A j \in C : ~(j \in (i + 1)..q)
    <3>1. \A j \in C : j \in Nat
      BY <1>1
    <3> HIDE DEF C, i
    <3>2. i \in Nat
      BY <1>3, <3>1
    <3> QED
      BY <1>3, <3>1, <3>2
  <2>2. i \in (p + 1)..q
    BY <1>3
  <2> HIDE DEF i
  <2>3. \A j \in (i + 1)..q : j \in (p + 1)..q
    BY <1>1, <2>2
  <2> QED
    BY <1>3, <2>1, <2>3
<1> HIDE DEF C, i
<1>5. i # q
  BY <1>2, <1>4
<1>6. i \in 1..(k - 1) /\ i \in (p + 1)..(q - 1) /\ i \in Nat /\ i < q
  BY <1>1, <1>4, <1>5
<1>7. b.kind[t[i]] \notin {"gep", "store", "alloca", "global", "malloc"}
  <2>1. ~IsRoot(t[i])
    BY <1>6 DEF Rooting
  <2> QED
    BY <1>4, <1>6, <2>1 DEF IsRoot
<1>8. b.kind[t[q]] \in {"gep", "alloca", "global", "malloc"}
  <2>1. q = k => IsRoot(t[q])
    BY DEF Rooting
  <2> QED
    BY <2>1 DEF IsRoot
(* At an argument the trace goes on in a caller. *)
<1>9. ASSUME LeftHere(i)
      PROVE  FALSE
  <2> DEFINE c == t[i + 1]
             n == ArgNo(c, t[i])
  <2>1. /\ c \in Callers(t[i]) /\ i + 2 <= Len(t) /\ n \in DOMAIN b.m.operands[c]
        /\ t[i + 2] = b.m.operands[c][n]
    <3>1. Leap(t, i)
      BY <1>6, <1>9, PlaceIs
    <3> QED
      BY <3>1 DEF Leap
  <2>2. i + 1 \in 1..Len(t) /\ i + 2 \in 1..Len(t)
    BY <1>1, <1>6, <2>1
  <2> HIDE DEF n
  <2>3. c \in ToSet(t) /\ c \in Value /\ t[i + 2] \in Value
    <3>1. t \in Seq(Value)
      BY DEF Rooting
    <3> QED
      BY <2>2, <3>1 DEF ToSet
  <2> HIDE DEF c
  <2>4. b.m.callee[c] = "defined" /\ ~IsRoot(c) /\ c \in b.m.calls
    BY <2>1, <2>3 DEF Rooting, Followed, Callers
  <2>5. b.kind[c] = "call"
    BY <2>3, <2>4, ModuleFacts DEF IsRoot
  <2>6. i + 1 # q
    BY <1>8, <2>5 DEF c
  <2>7. i + 2 \in (i + 1)..q
    BY <1>1, <1>4, <1>5, <2>6
  <2>8. ~Enters(i + 2)
    <3>1. Len(vt2) \in Nat /\ i \in Nat
      BY <1>6
    <3> QED
      BY <1>9, <3>1 DEF LeftHere, Enters
  <2>9. b.kind[t[i + 2]] # "store"
    BY <2>1, <2>3, ModuleFacts
  <2>10. t[i + 2] \in Reached(t[q])
    BY <1>4, <2>7, <2>8, <2>9
  <2>11. t[i] \in Below(t[i + 2])
    BY <2>1, <2>4, BelowCall DEF n
  <2> QED
    BY <1>2, <1>4, <2>10, <2>11
<1> DEFINE u == t[i + 1]
<1>10. /\ u = StepBack(b, t[i]) /\ u # t[i] /\ t[i] \in Value /\ u \in Value
       /\ ~Enters(i + 1) /\ i + 1 \in (i + 1)..q /\ i + 1 \in 1..k
  <2>1. i + 1 \in (i + 1)..q /\ i + 1 \in 1..k
    BY <1>1, <1>6
  <2> QED
    BY <1>4, <1>6, <1>9, <2>1, PlaceIs
<1>11. b.kind[t[i]] \in {"bitcast", "load"}
  BY <1>7, <1>10 DEF StepBack
(* The next value holds it. *)
<1>12. ASSUME u = b.m.operands[t[i]][1]
       PROVE  FALSE
  <2>1. b.kind[u] # "store" /\ t[i] \in b.m.users[u]
    BY <1>10, <1>11, <1>12, ModuleFacts
  <2>2. t[i] \in Below(u)
    BY <1>10, <1>11, <2>1, BelowUse
  <2>3. u \in Reached(t[q])
    BY <1>4, <1>10, <2>1
  <2> QED
    BY <1>2, <1>4, <2>2, <2>3
(* Or it is loaded from where a store has put it. *)
<1>13. b.kind[t[i]] = "load" /\ b.access[t[i]] = "must" /\ u = b.def[t[i]]
  BY <1>10, <1>11, <1>12 DEF StepBack, getStore
<1>14. b.kind[u] = "store" \/ b.kind[u] = "call"
  BY <1>10, <1>13, ModuleFacts
<1>15. i + 1 # q /\ i + 1 \in 1..(k - 1) /\ i + 2 \in (i + 1)..q
  <2>1. i + 1 # q
    BY <1>8, <1>14
  <2> QED
    BY <1>1, <1>6, <2>1
<1>16. /\ t[i + 2] = StepBack(b, u) /\ t[i + 2] # u /\ t[i + 2] \in Value
       /\ ~Enters(i + 2)
  <2> DEFINE j == i + 1
  <2>1. j \in 1..(k - 1) /\ ~Enters(j) /\ t[j] = u /\ j + 1 = i + 2
    BY <1>6, <1>10, <1>15
  <2>2. b.kind[t[j]] # "argument"
    BY <1>14, <2>1
  <2> HIDE DEF j, u
  <2>3. t[j + 1] = StepBack(b, t[j]) /\ t[j + 1] # t[j] /\ t[j + 1] \in Value /\ ~Enters(j + 1)
    BY <2>1, <2>2, PlaceIs
  <2> QED
    BY <2>1, <2>3
<1>17. b.kind[u] = "store" /\ t[i] \in b.m.memUses[u]
  <2>1. b.kind[u] # "call"
    BY <1>16 DEF StepBack
  <2> QED
    BY <1>10, <1>13, <1>14, <2>1, ModuleFacts
<1>18. t[i + 2] = b.m.operands[u][1]
  BY <1>16, <1>17 DEF StepBack
<1>19. b.kind[t[i + 2]] # "store" /\ u \in b.m.users[t[i + 2]]
  BY <1>10, <1>17, <1>18, ModuleFacts
<1>20. t[i] \in Below(t[i + 2])
  BY <1>17, <1>19, BelowStore
<1>21. t[i + 2] \in Reached(t[q])
  BY <1>4, <1>15, <1>16, <1>19
<1> QED
  BY <1>2, <1>4, <1>20, <1>21

(* A trace is a chain of its own: every GEP of it looks like itself and is
   found from the next one to the root.                                      *)
LEMMA OwnChain ==
    ASSUME b \in Programs, vt2 \in Seq(Value), NEW t \in Seq(Value), Walked(t), RootAt(t) # 0, Followed(t)
    PROVE  [p \in GepsOf(t) |-> t[p]] \in Chains(t, GepsOf(t))
<1> DEFINE ch == [p \in GepsOf(t) |-> t[p]]
           k == RootAt(t)
           Gep == {v \in Value : b.kind[v] = "gep"}
<1>1. /\ k \in 1..Len(t) /\ IsRoot(t[k]) /\ \A i \in 1..(k - 1) : ~IsRoot(t[i])
      /\ GepsOf(t) = {i \in 1..k : b.kind[t[i]] = "gep"} /\ Root(t) = t[k]
  BY RootIs DEF Root
<1>2. Rooting(t, k)
  BY <1>1 DEF Rooting
<1> HIDE DEF k
<1>3. \A p \in GepsOf(t) : p \in 1..k /\ t[p] \in Gep
  BY <1>1
<1>4. ch \in [GepsOf(t) -> Gep]
  BY <1>3
<1>5. ASSUME NEW p \in GepsOf(t)
      PROVE  gepsAreEqual(b, t[p], ch[p])
  <2>1. t[p] \in Value /\ b.kind[t[p]] = "gep"
    BY <1>3, <1>5
  <2>2. ch[p] = t[p]
    OBVIOUS
  <2> QED
    BY <2>1, <2>2, GepEqualsItself
<1>6. ASSUME NEW p \in GepsOf(t)
      PROVE  \E v \in Reached(Base(t, ch, p)) : ch[p] \in b.m.users[v]
  <2> DEFINE O == Outer(t, p)
             q == IF O = {} THEN k ELSE Min(O)
  <2>1. p \in 1..k /\ p # k /\ b.kind[t[p]] = "gep" /\ k \in Nat
    BY <1>1, <1>3, <1>6 DEF IsRoot
  <2>2. /\ O \in SUBSET (1..k) /\ O \in SUBSET Nat
        /\ \A i \in 1..k : p < i /\ b.kind[t[i]] = "gep" => i \in O
        /\ \A i \in O : p < i /\ i \in GepsOf(t) /\ b.kind[t[i]] = "gep"
    BY <1>1 DEF Outer
  <2>3. /\ q \in 1..k /\ p \in 1..(q - 1) /\ (q = k \/ b.kind[t[q]] = "gep")
        /\ \A i \in (p + 1)..(q - 1) : b.kind[t[i]] # "gep"
        /\ Base(t, ch, p) = t[q]
    <3>1. CASE O = {}
      <4>1. q = k /\ Base(t, ch, p) = t[k]
        BY <1>1, <3>1 DEF Base
      <4> HIDE DEF O, q
      <4> QED
        BY <2>1, <2>2, <3>1, <4>1
    <3>2. CASE O # {}
      <4>1. q = Min(O)
        BY <3>2
      <4>2. q \in O /\ \A i \in O : q <= i
        BY <2>2, <3>2, <4>1, MinIs
      <4>3. Base(t, ch, p) = ch[q]
        BY <3>2, <4>1 DEF Base
      <4>4. ch[q] = t[q]
        BY <2>2, <4>2
      <4> HIDE DEF O, q, ch
      <4> QED
        BY <2>1, <2>2, <4>2, <4>3, <4>4
    <3> QED
      BY <3>1, <3>2
  <2> HIDE DEF O, q
  <2>4. p \in 1..(k - 1) /\ p + 1 \in (p + 1)..q
    BY <2>1, <2>3
  <2>5. ~Enters(p + 1) /\ t[p + 1] = StepBack(b, t[p]) /\ t[p] \in Value
    <3>1. ~LeftHere(p) /\ ~Enters(p)
      BY <1>2, <2>1, <2>4, PlaceIs
    <3> QED
      BY <1>2, <2>4, <3>1, PlaceIs
  <2>6. t[p + 1] = b.m.operands[t[p]][1]
    BY <2>1, <2>5 DEF StepBack
  <2>7. b.kind[t[p + 1]] # "store" /\ t[p] \in b.m.users[t[p + 1]]
    BY <2>1, <2>5, <2>6, ModuleFacts
  <2> DEFINE e == p + 1
  <2>8. e \in (p + 1)..q /\ b.kind[t[e]] # "store" /\ ~Enters(e)
    BY <2>4, <2>5, <2>7
  <2> HIDE DEF e
  <2>9. t[e] \in Reached(t[q])
    BY <1>2, <2>3, <2>8, OnTheWay
  <2>10. ch[p] = t[p]
    OBVIOUS
  <2> QED
    BY <2>3, <2>7, <2>9, <2>10 DEF e
<1> HIDE DEF ch
<1>7. ch \in Chains(t, GepsOf(t))
  BY <1>4, <1>5, <1>6 DEF Chains
<1> QED
  BY <1>7 DEF ch

-----------------------------------------------------------------------------
(* The theorems. *)

(* followBwd and analyseTrace work on values of the module; a trace holds all
   that its Visited set has, and GEPs are unrolled at places of a trace.     *)
THEOREM BackwardTypeCorrect == Spec => []TypeOK
<1>1. BackInv => TypeOK
  BY DEF BackInv
<1> QED
  BY <1>1, BackInvHolds, PTL

(* followBwd has exactly one trace for each call of the scale variable's
   function, in whatever order it takes them, and none for other calls.      *)
THEOREM CallersAreTraced == Spec => []EveryCallerTraced
<1>1. ASSUME BackInv
      PROVE  EveryCallerTraced
  <2> SUFFICES ASSUME phase = "done", vt2 # <<>>, NEW c \in b.m.calls
               PROVE  Cardinality({t \in results : Len(t) > Len(vt2) /\ t[Len(vt2) + 1] = c})
                        = IF b.m.callee[c] \in {"defined", "variadic"} /\ Last(vt2) \in ToSet(b.m.formals[c])
                          THEN 1 ELSE 0
    BY DEF EveryCallerTraced
  <2> DEFINE T == {t \in results : Len(t) > Len(vt2) /\ t[Len(vt2) + 1] = c}
  <2>1. /\ \A t \in results : Leaves(t)
        /\ \A t, u \in results : Through(t) = Through(u) => t = u
        /\ \A d \in Callers(Last(vt2)) : \E t \in results : d = Through(t)
    BY <1>1 DEF BackInv, CallersInv
  <2>2. \A t \in results : t \in T <=> Through(t) = c
    BY <2>1 DEF Leaves, Through
  <2>3. CASE b.m.callee[c] \in {"defined", "variadic"} /\ Last(vt2) \in ToSet(b.m.formals[c])
    <3>1. c \in Callers(Last(vt2))
      BY <2>3 DEF Callers
    <3>2. PICK t \in results : c = Through(t)
      BY <2>1, <3>1
    <3>3. T = {t}
      <4>1. \A u \in T : u = t
        BY <2>1, <2>2, <3>2
      <4>2. t \in T
        BY <2>2, <3>2
      <4> HIDE DEF T
      <4> QED
        BY <4>1, <4>2
    <3> HIDE DEF T
    <3>4. Cardinality(T) = 1
      BY <3>3, FS_Singleton
    <3> QED
      BY <2>3, <3>4 DEF T
  <2>4. CASE ~(b.m.callee[c] \in {"defined", "variadic"} /\ Last(vt2) \in ToSet(b.m.formals[c]))
    <3>1. c \notin Callers(Last(vt2))
      BY <2>4 DEF Callers
    <3>2. T = {}
      BY <2>1, <2>2, <3>1 DEF Leaves
    <3> HIDE DEF T
    <3>3. Cardinality(T) = 0
      BY <3>2, FS_EmptySet
    <3> QED
      BY <2>4, <3>3 DEF T
  <2> QED
    BY <2>3, <2>4
<1> QED
  BY <1>1, BackInvHolds, PTL

(* Null stores, calls through pointers and calls through casts that pass too
   few or too many arguments are all that makes backward tracing undefined.  *)
THEOREM UndefinedForReason == Spec => []UndefinedOnlyForReason
<1>1. BackInv => UndefinedOnlyForReason
  BY DEF BackInv
<1> QED
  BY <1>1, BackInvHolds, PTL

(* The references are places that unrolling the traces of all callers gives,
   whatever visited holds; they are all, but of the traces whose searches
   meet.                                                                     *)
THEOREM ReferencesAreExact == Spec => []RefsExact
<1>1. ASSUME FullInv
      PROVE  RefsExact
  <2> SUFFICES ASSUME phase = "done"
               PROVE  /\ refs \subseteq UNION {Unrolled(t) : t \in Rooted}
                      /\ \A t \in Rooted : Apart(t) => Unrolled(t) \subseteq refs
    BY DEF RefsExact
  <2>1. left = {} /\ ~Unrolling
    BY <1>1 DEF FullInv, ForthInv, RefsInv, Unrolling
  <2> QED
    BY <1>1, <2>1 DEF FullInv, ForthInv, RefsInv
<1> QED
  BY <1>1, FullInvHolds, PTL

(* The storage of the scale variable is among its references if the trace to
   it leaves functions only through calls that findGEPs enters and its
   searches do not meet: every GEP of the trace looks like itself, and every
   step forth takes up the step back it comes from.                          *)
THEOREM OriginIsFound == Spec => []OriginFound
<1>1. ASSUME BackInv, WalkInv, RefsExact
      PROVE  OriginFound
  <2> SUFFICES ASSUME phase = "done", NEW t \in Rooted, Followed(t), Apart(t)
               PROVE  Origin(t) \in refs
    BY DEF OriginFound
  <2>1. /\ b \in Programs /\ vt2 \in Seq(Value) /\ t \in Seq(Value) /\ Walked(t) /\ RootAt(t) # 0
    BY <1>1 DEF BackInv, TypeOK, WalkInv, Rooted
  <2>2. Origin(t) \in Unrolled(t)
    <3>1. CASE GepsOf(t) = {}
      BY <3>1 DEF Origin, Unrolled
    <3>2. CASE GepsOf(t) # {}
      <4> DEFINE ch == [p \in GepsOf(t) |-> t[p]]
      <4>1. GepsOf(t) \in SUBSET Nat
        BY <2>1, ReadPartIs
      <4>2. Min(GepsOf(t)) \in GepsOf(t)
        BY <3>2, <4>1, MinIs
      <4>3. ch[Min(GepsOf(t))] = t[Min(GepsOf(t))]
        BY <4>2
      <4>4. ch \in Chains(t, GepsOf(t))
        BY <2>1, OwnChain
      <4> HIDE DEF ch
      <4> QED
        BY <3>2, <4>3, <4>4 DEF Origin, Unrolled
    <3> QED
      BY <3>1, <3>2
  <2> QED
    BY <1>1, <2>2 DEF RefsExact
<1> QED
  BY <1>1, BackInvHolds, WalkInvHolds, ReferencesAreExact, PTL
=============================================================================
