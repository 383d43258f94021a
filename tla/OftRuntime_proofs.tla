--------------------------- MODULE OftRuntime_proofs ---------------------------
(* For any number of ranks, instrumented instructions and stores and any set
   of values: with one thread per rank the report holds the maxima of what
   was computed, and with any number of threads only computed values.       *)
EXTENDS OftRuntime, TLAPS

-----------------------------------------------------------------------------
(* Typing.  The arguments of a store are in range while it runs.           *)

LEMMA RankZero == 0 \in Rank
BY SizeAssumption DEF Rank

Typed == TypeOK /\ ArgInv

LEMMA InitType == Init => Typed
<1> SUFFICES ASSUME Init
             PROVE  Typed
  OBVIOUS
<1> USE SizeAssumption, MaxStoresAssumption, RankZero DEF Init
<1>1. arg \in [Rank -> [Thread -> [id : Id \cup {0}, v : Val \cup {Untouched}]]]
  BY DEF NoArg
<1>2. TypeOK
  <2>1. /\ stage \in [Rank -> Stage]
        /\ values \in [Rank -> [Id -> Val \cup {Untouched}]]
        /\ sent \in [Rank -> [Id -> Val \cup {Untouched}]]
        /\ seen \in [Rank -> [Id -> SUBSET Val]]
    BY DEF Stage, Fresh
  <2>2. /\ finalized \in [Rank -> BOOLEAN] /\ active \in [Rank -> BOOLEAN]
        /\ mpi_rank \in [Rank -> Rank \cup {-1, 0}]
        /\ pc \in [Rank -> [Thread -> {"idle", "compare", "write", "flag"}]]
        /\ stores \in [Rank -> 0..MaxStores]
    OBVIOUS
  <2>3. wi \in 0..N /\ wj \in 0..TableLen /\ output \in Seq(Line)
    OBVIOUS
  <2> QED
    BY <1>1, <2>1, <2>2, <2>3 DEF TypeOK
<1>3. ArgInv
  BY DEF ArgInv
<1> QED
  BY <1>2, <1>3 DEF Typed

LEMMA CountedType ==
    ASSUME TypeOK, NEW r \in Rank, NEW a, a.id \in Id, a.v \in Val
    PROVE  Counted(r, a) \in [Rank -> [Id -> SUBSET Val]]
<1>1. seen \in [Rank -> [Id -> SUBSET Val]]
  BY DEF TypeOK
<1>2. seen[r][a.id] \cup {a.v} \in SUBSET Val
  BY <1>1
<1> QED
  BY <1>1, <1>2 DEF Counted

(* One step of each kind of a rank, and of the root while it writes. *)
LEMMA StepType == Typed /\ [Next]_vars => Typed'
<1> SUFFICES ASSUME Typed, [Next]_vars
             PROVE  Typed'
  OBVIOUS
<1>0. TypeOK /\ ArgInv
  BY DEF Typed
<1> USE SizeAssumption, MaxStoresAssumption, RankZero, <1>0
        DEF Typed, TypeOK, ArgInv, Stage, globals, files
<1>1. ASSUME NEW r \in Rank, InitVals(r)
      PROVE  Typed'
  BY <1>1 DEF InitVals, Fresh
<1>2. ASSUME NEW r \in Rank, InitFails(r)
      PROVE  Typed'
  BY <1>2 DEF InitFails, Fresh
<1>3. ASSUME NEW r \in Rank, NEW t \in Thread, NEW j \in Id, NEW v \in Val, CallStore(r, t, j, v)
      PROVE  Typed'
  <2> USE <1>3 DEF CallStore
  <2>1. arg' \in [Rank -> [Thread -> [id : Id \cup {0}, v : Val \cup {Untouched}]]]
    OBVIOUS
  <2>2. ArgInv'
    OBVIOUS
  <2>3. stores' \in [Rank -> 0..MaxStores]
    OBVIOUS
  <2> QED
    BY <2>1, <2>2, <2>3
<1>4. ASSUME NEW r \in Rank, NEW t \in Thread, Compare(r, t)
      PROVE  Typed'
  <2>1. pc[r][t] # "idle" /\ arg[r][t].id \in Id /\ arg[r][t].v \in Val
    BY <1>4 DEF Compare
  <2>2. seen' = seen \/ seen' = Counted(r, arg[r][t])
    BY <1>4 DEF Compare
  <2>3. seen' \in [Rank -> [Id -> SUBSET Val]]
    BY <2>1, <2>2, CountedType
  <2>4. \E p \in {"write", "flag"} : pc' = [pc EXCEPT ![r][t] = p]
    BY <1>4 DEF Compare
  <2>5. pc' \in [Rank -> [Thread -> {"idle", "compare", "write", "flag"}]]
    BY <2>4
  <2>6. ArgInv'
    BY <1>4, <2>1, <2>4 DEF Compare
  <2> QED
    BY <1>4, <2>3, <2>5, <2>6 DEF Compare
<1>5. ASSUME NEW r \in Rank, NEW t \in Thread, Write(r, t)
      PROVE  Typed'
  <2> USE <1>5 DEF Write
  <2>1. arg[r][t].id \in Id /\ arg[r][t].v \in Val
    OBVIOUS
  <2>2. seen' \in [Rank -> [Id -> SUBSET Val]]
    BY <2>1, CountedType
  <2>3. values' \in [Rank -> [Id -> Val \cup {Untouched}]]
    BY <2>1
  <2>4. pc' \in [Rank -> [Thread -> {"idle", "compare", "write", "flag"}]]
    OBVIOUS
  <2>5. ArgInv'
    OBVIOUS
  <2> QED
    BY <2>2, <2>3, <2>4, <2>5
<1>6. ASSUME NEW r \in Rank, NEW t \in Thread, Flag(r, t)
      PROVE  Typed'
  <2> USE <1>6 DEF Flag
  <2>1. arg' \in [Rank -> [Thread -> [id : Id \cup {0}, v : Val \cup {Untouched}]]]
    BY DEF NoArg
  <2>2. ArgInv'
    OBVIOUS
  <2> QED
    BY <2>1, <2>2
<1>7. ASSUME NEW r \in Rank, EnterPrint(r)
      PROVE  Typed'
  BY <1>7 DEF EnterPrint
<1>8. ASSUME NEW r \in Rank, Alloc(r)
      PROVE  Typed'
  BY <1>8 DEF Alloc
<1>9. ASSUME NEW r \in Rank, Gather(r)
      PROVE  Typed'
  BY <1>9 DEF Gather
<1>10. ASSUME NEW r \in Rank, MarkFinalized(r)
       PROVE  Typed'
  BY <1>10 DEF MarkFinalized
<1>11. ASSUME NEW r \in Rank, Exit(r)
       PROVE  Typed'
  BY <1>11 DEF Exit
<1>12. ASSUME NEW r \in Rank, Kill(r)
       PROVE  Typed'
  BY <1>12 DEF Kill
<1>13. CASE OpenOutput
  BY <1>13 DEF OpenOutput
<1>14. CASE WriteLine
  <2>1. wi \in Rank /\ wj \in Id
    BY <1>14 DEF WriteLine, Rank, Id
  <2>2. sent[wi][wj] \in Val \cup {Untouched}
    BY <2>1
  <2>3. [rank |-> wi, id |-> wj, max |-> sent[wi][wj]] \in Line
    BY <2>1, <2>2 DEF Line
  <2>4. output' \in Seq(Line)
    BY <1>14, <2>3 DEF WriteLine
  <2>5. wj' \in 0..TableLen
    BY <1>14 DEF WriteLine
  <2> QED
    BY <1>14, <2>4, <2>5 DEF WriteLine
<1>15. CASE NextRank
  BY <1>15 DEF NextRank
<1>16. CASE CloseOutput
  BY <1>16 DEF CloseOutput
<1>17. CASE UNCHANGED vars
  BY <1>17 DEF vars
<1> QED
  BY <1>1, <1>2, <1>3, <1>4, <1>5, <1>6, <1>7, <1>8, <1>9, <1>10, <1>11, <1>12,
     <1>13, <1>14, <1>15, <1>16, <1>17 DEF Next, Idle

LEMMA TypedAlways == Spec => []Typed
BY InitType, StepType, PTL DEF Spec

(* The state of the runtime keeps its type: in particular every store is
   made into the table and every line is of a rank and an instruction.     *)
THEOREM RuntimeTypeCorrect == Spec => []TypeOK
<1>1. Typed => TypeOK
  BY DEF Typed
<1> QED
  BY <1>1, TypedAlways, PTL

-----------------------------------------------------------------------------
(* How far the ranks have come, and what is in the file.                   *)

LEMMA InitStage == Init => StageInv /\ OutputInv
<1> SUFFICES ASSUME Init
             PROVE  StageInv /\ OutputInv
  OBVIOUS
<1> USE SizeAssumption, RankZero DEF Init
<1>1. StageInv
  BY DEF StageInv
<1>2. OutputInv
  BY DEF OutputInv
<1> QED
  BY <1>1, <1>2

(* A step of the main thread that only moves it from one stage to another. *)
LEMMA MoveStage ==
    ASSUME Typed, StageInv, NEW r \in Rank, NEW to \in Stage,
           to # "start", to # "write",
           to \in {"running", "alloc", "gather", "sent"}
              => stage[r] \in {"start", "running", "alloc", "gather"},
           stage' = [stage EXCEPT ![r] = to],
           UNCHANGED <<values, gathered, wi, wj, output>>
    PROVE  StageInv'
<1> USE RankZero DEF Typed, TypeOK, StageInv
<1>1. \A q \in Rank : stage'[q] = IF q = r THEN to ELSE stage[q]
  OBVIOUS
<1>2. ASSUME NEW q \in Rank
      PROVE  /\ stage'[q] = "start" => values'[q] = Fresh
             /\ stage'[q] \in {"start", "running", "alloc", "gather"} => q \notin gathered'
  BY <1>1
<1>3. stage'[0] = "write" => gathered' = Rank
  BY <1>1
<1>4. stage'[0] \in {"start", "running", "alloc", "gather", "sent"}
        => output' = <<>> /\ wi' = 0 /\ wj' = 0
  BY <1>1
<1> QED
  BY <1>2, <1>3, <1>4

LEMMA StepStage == Typed /\ StageInv /\ [Next]_vars => StageInv'
<1> SUFFICES ASSUME Typed, StageInv, [Next]_vars
             PROVE  StageInv'
  OBVIOUS
<1>0. TypeOK
  BY DEF Typed
<1> USE RankZero, <1>0 DEF globals, files
<1>1. ASSUME NEW r \in Rank, InitVals(r)
      PROVE  StageInv'
  BY <1>1 DEF InitVals, StageInv, TypeOK
<1>2. ASSUME NEW r \in Rank, InitFails(r)
      PROVE  StageInv'
  BY <1>2 DEF InitFails, StageInv, TypeOK
<1>3. ASSUME NEW r \in Rank, NEW t \in Thread, NEW j \in Id, NEW v \in Val, CallStore(r, t, j, v)
      PROVE  StageInv'
  BY <1>3 DEF CallStore, StageInv
<1>4. ASSUME NEW r \in Rank, NEW t \in Thread, Compare(r, t)
      PROVE  StageInv'
  BY <1>4 DEF Compare, StageInv
<1>5. ASSUME NEW r \in Rank, NEW t \in Thread, Write(r, t)
      PROVE  StageInv'
  BY <1>5 DEF Write, StageInv, Alive, TypeOK
<1>6. ASSUME NEW r \in Rank, NEW t \in Thread, Flag(r, t)
      PROVE  StageInv'
  BY <1>6 DEF Flag, StageInv
<1>7. ASSUME NEW r \in Rank, EnterPrint(r)
      PROVE  StageInv'
  BY <1>7, MoveStage DEF EnterPrint, Stage
<1>8. ASSUME NEW r \in Rank, Alloc(r)
      PROVE  StageInv'
  BY <1>8, MoveStage DEF Alloc, Stage
<1>9. ASSUME NEW r \in Rank, Gather(r)
      PROVE  StageInv'
  BY <1>9 DEF Gather, StageInv, TypeOK
<1>10. ASSUME NEW r \in Rank, MarkFinalized(r)
       PROVE  StageInv'
  BY <1>10, MoveStage DEF MarkFinalized, Stage
<1>11. ASSUME NEW r \in Rank, Exit(r)
       PROVE  StageInv'
  BY <1>11, MoveStage DEF Exit, Stage
<1>12. ASSUME NEW r \in Rank, Kill(r)
       PROVE  StageInv'
  BY <1>12, MoveStage DEF Kill, Stage
<1>13. CASE OpenOutput
  BY <1>13 DEF OpenOutput, StageInv, TypeOK
<1>14. CASE WriteLine
  BY <1>14 DEF WriteLine, StageInv
<1>15. CASE NextRank
  BY <1>15 DEF NextRank, StageInv
<1>16. CASE CloseOutput
  BY <1>16, MoveStage DEF CloseOutput, Stage
<1>17. CASE UNCHANGED vars
  BY <1>17 DEF vars, StageInv
<1> QED
  BY <1>1, <1>2, <1>3, <1>4, <1>5, <1>6, <1>7, <1>8, <1>9, <1>10, <1>11, <1>12,
     <1>13, <1>14, <1>15, <1>16, <1>17 DEF Next, Idle

(* Only the root's loops change the file, and only a rank that has not been
   gathered changes its row.                                                *)
LEMMA StepOutput == Typed /\ StageInv /\ OutputInv /\ [Next]_vars => OutputInv'
<1> SUFFICES ASSUME Typed, StageInv, OutputInv, [Next]_vars
             PROVE  OutputInv'
  OBVIOUS
<1>0. TypeOK
  BY DEF Typed
<1> USE SizeAssumption, RankZero, <1>0 DEF globals, files
<1>1. CASE UNCHANGED <<sent, gathered, wi, wj, output>>
  BY <1>1 DEF OutputInv
<1>2. ASSUME NEW r \in Rank, Gather(r)
      PROVE  OutputInv'
  <2>1. r \notin gathered
    BY <1>2 DEF Gather, StageInv
  <2>2. \A q \in gathered : q \in gathered' /\ sent'[q] = sent[q]
    BY <1>2, <2>1 DEF Gather, TypeOK
  <2> QED
    BY <1>2, <2>2 DEF Gather, OutputInv
<1>3. CASE OpenOutput
  BY <1>3 DEF OpenOutput, OutputInv
<1>4. CASE WriteLine
  <2> DEFINE new == [rank |-> wi, id |-> wj, max |-> sent[wi][wj]]
  <2>1. wi \in Rank /\ wi \in gathered
    BY <1>4 DEF WriteLine, StageInv, TypeOK, Rank
  <2>2. output' = Append(output, new) /\ output \in Seq(Line)
    BY <1>4 DEF WriteLine, TypeOK
  <2>3. /\ Len(output') = Len(output) + 1
        /\ \A k \in DOMAIN output' : IF k \in DOMAIN output THEN output'[k] = output[k]
                                     ELSE k = Len(output) + 1 /\ output'[k] = new
    BY <2>2
  <2>4. Len(output) = wi * TableLen + wj
    BY DEF OutputInv
  <2>5. wi * TableLen \in Int /\ wj \in Int /\ wi' = wi /\ wj' = wj + 1
    BY <1>4 DEF WriteLine, TypeOK
  <2>6. Len(output') = wi' * TableLen + wj'
    BY <2>3, <2>4, <2>5
  <2>7. ASSUME NEW k \in DOMAIN output'
        PROVE  /\ output'[k].rank \in gathered
               /\ output'[k].max = sent[output'[k].rank][output'[k].id]
               /\ output'[k].rank * TableLen + output'[k].id = k - 1
    <3>1. CASE k \in DOMAIN output
      BY <3>1, <2>3 DEF OutputInv
    <3>2. CASE k \notin DOMAIN output
      BY <3>2, <2>1, <2>3, <2>4, <2>5
    <3> QED
      BY <3>1, <3>2
  <2> QED
    BY <1>4, <2>5, <2>6, <2>7 DEF WriteLine, OutputInv
<1>5. CASE NextRank
  <2>1. Len(output) = wi * TableLen + TableLen /\ wi \in Int
    BY <1>5 DEF NextRank, OutputInv, TypeOK
  <2>2. (wi + 1) * TableLen + 0 = wi * TableLen + TableLen
    BY <2>1
  <2> QED
    BY <1>5, <2>1, <2>2 DEF NextRank, OutputInv
<1>6. ASSUME ~ UNCHANGED <<sent, gathered, wi, wj, output>>
      PROVE  (\E r \in Rank : Gather(r)) \/ OpenOutput \/ WriteLine \/ NextRank
  BY <1>6 DEF Next, Idle, vars, InitVals, InitFails, CallStore, Compare, Write, Flag,
       EnterPrint, Alloc, MarkFinalized, Exit, Kill, CloseOutput
<1> QED
  BY <1>1, <1>2, <1>3, <1>4, <1>5, <1>6

-----------------------------------------------------------------------------
(* Everything that is compared is an integer. *)
LEMMA ValInts == \A x \in Val \cup {Untouched} : x \in Int
BY ValAssumption DEF Untouched

Counting(q, j) == seen[q][j] \cup {Untouched}

LEMMA CountingInts ==
    ASSUME seen \in [Rank -> [Id -> SUBSET Val]], NEW q \in Rank, NEW j \in Id
    PROVE  Counting(q, j) \subseteq Int
<1>1. Counting(q, j) \subseteq Val \cup {Untouched}
  BY DEF Counting
<1> QED
  BY <1>1, ValInts

(* What the tables hold.  A store is either counted for the report or comes
   after the row of its rank was taken; then it changes nothing that is
   taken.                                                                   *)

LEMMA TakenSteps ==
    ASSUME Typed, StageInv, [Next]_vars
    PROVE  \/ UNCHANGED <<values, sent, gathered, seen>>
           \/ \E r \in Rank : Gather(r)
           \/ \E r \in Rank, t \in Thread : Compare(r, t) \/ Write(r, t)
<1>1. ASSUME NEW r \in Rank, InitVals(r) \/ InitFails(r)
      PROVE  values' = values
  <2>1. values' = [values EXCEPT ![r] = Fresh] /\ values[r] = Fresh
    BY <1>1 DEF InitVals, InitFails, StageInv
  <2> QED
    BY <2>1 DEF Typed, TypeOK
<1> QED
  BY <1>1 DEF Next, Idle, vars, globals, files, InitVals, InitFails, CallStore, Flag, EnterPrint,
       Alloc, MarkFinalized, Exit, Kill, OpenOutput, WriteLine, NextRank, CloseOutput

LEMMA GatherTakes ==
    ASSUME Typed, StageInv, NEW r \in Rank, Gather(r)
    PROVE  /\ r \notin gathered
           /\ \A q \in Rank : Taken(q)' = Taken(q)
           /\ UNCHANGED <<values, seen, pc, arg>>
<1>1. r \notin gathered
  BY DEF Gather, StageInv
<1>2. sent \in [Rank -> [Id -> Val \cup {Untouched}]]
  BY DEF Typed, TypeOK
<1> QED
  BY <1>1, <1>2 DEF Gather, Taken, globals

(* What one store does to the counted values and the tables that count. *)
LEMMA CompareTakes ==
    ASSUME Typed, NEW r \in Rank, NEW t \in Thread, Compare(r, t)
    PROVE  /\ UNCHANGED <<values, sent, gathered, arg>>
           /\ \A q \in Rank : Taken(q)' = Taken(q)
           /\ \A q \in Rank, j \in Id : seen[q][j] \subseteq seen'[q][j]
           /\ \A q \in Rank, j \in Id : \A x \in seen'[q][j] \ seen[q][j] :
                 q \notin gathered /\ x <= Taken(q)[j]
<1> DEFINE a == arg[r][t]
<1>1. /\ arg[r][t].id \in Id /\ arg[r][t].v \in Val /\ seen \in [Rank -> [Id -> SUBSET Val]]
      /\ arg[r][t].v \in Int /\ values[r][arg[r][t].id] \in Int
  <2>1. pc[r][t] # "idle"
    BY DEF Compare
  <2>2. arg[r][t].id \in Id /\ arg[r][t].v \in Val /\ seen \in [Rank -> [Id -> SUBSET Val]]
    BY <2>1 DEF Typed, TypeOK, ArgInv
  <2>3. values[r][arg[r][t].id] \in Val \cup {Untouched}
    BY <2>2 DEF Typed, TypeOK
  <2>4. arg[r][t].v \in Int
    BY <2>2, ValInts
  <2>5. values[r][arg[r][t].id] \in Int
    BY <2>3, ValInts
  <2> QED
    BY <2>2, <2>4, <2>5
<1>2. UNCHANGED <<values, sent, gathered, arg>>
  BY DEF Compare, globals
<1>3. \A q \in Rank : Taken(q)' = Taken(q)
  BY <1>2 DEF Taken
<1>4. CASE seen' = seen
  BY <1>2, <1>3, <1>4
<1>5. CASE seen' # seen
  <2>1. seen' = [seen EXCEPT ![r][a.id] = @ \cup {a.v}] /\ r \notin gathered
    BY <1>5 DEF Compare, Counted
  <2>2. ~ (a.v > values[r][a.id])
    BY <1>5 DEF Compare
  <2>3. a.v <= Taken(r)[a.id]
    BY <1>1, <2>1, <2>2 DEF Taken
  <2>4. \A q \in Rank, j \in Id : seen'[q][j] = IF q = r /\ j = a.id THEN seen[q][j] \cup {a.v}
                                               ELSE seen[q][j]
    BY <1>1, <2>1
  <2> QED
    BY <1>2, <1>3, <2>1, <2>3, <2>4
<1> QED
  BY <1>4, <1>5

LEMMA WriteTakes ==
    ASSUME Typed, NEW r \in Rank, NEW t \in Thread, Write(r, t)
    PROVE  /\ UNCHANGED <<sent, gathered, arg>>
           /\ arg[r][t].id \in Id /\ arg[r][t].v \in Val
           /\ \A q \in Rank, j \in Id :
                 values'[q][j] = IF q = r /\ j = arg[r][t].id THEN arg[r][t].v ELSE values[q][j]
           /\ \A q \in Rank, j \in Id :
                 IF q = r /\ j = arg[r][t].id /\ r \notin gathered
                 THEN /\ seen'[q][j] = seen[q][j] \cup {arg[r][t].v}
                      /\ Taken(q)'[j] = arg[r][t].v
                 ELSE seen'[q][j] = seen[q][j] /\ Taken(q)'[j] = Taken(q)[j]
<1>1. /\ arg[r][t].id \in Id /\ arg[r][t].v \in Val /\ seen \in [Rank -> [Id -> SUBSET Val]]
      /\ values \in [Rank -> [Id -> Val \cup {Untouched}]]
  BY DEF Typed, TypeOK, ArgInv, Write
<1>2. UNCHANGED <<sent, gathered, arg>>
  BY DEF Write
<1>3. values' = [values EXCEPT ![r][arg[r][t].id] = arg[r][t].v]
  BY DEF Write
<1>4. \A q \in Rank, j \in Id :
         values'[q][j] = IF q = r /\ j = arg[r][t].id THEN arg[r][t].v ELSE values[q][j]
  BY <1>1, <1>3
<1>5. \A q \in Rank, j \in Id :
         seen'[q][j] = IF q = r /\ j = arg[r][t].id /\ r \notin gathered
                       THEN seen[q][j] \cup {arg[r][t].v} ELSE seen[q][j]
  BY <1>1 DEF Write, Counted
<1>6. \A q \in Rank, j \in Id :
         Taken(q)'[j] = IF q = r /\ j = arg[r][t].id /\ r \notin gathered
                        THEN arg[r][t].v ELSE Taken(q)[j]
  BY <1>2, <1>4 DEF Taken
<1> QED
  BY <1>1, <1>2, <1>4, <1>5, <1>6

(* With any number of threads a table holds values that were computed. *)
LEMMA InitComputed == Init => ComputedInv
BY DEF Init, ComputedInv, Taken, Fresh

LEMMA StepComputed == Typed /\ StageInv /\ ComputedInv /\ [Next]_vars => ComputedInv'
<1> SUFFICES ASSUME Typed, StageInv, ComputedInv, [Next]_vars,
                    NEW q \in Rank, NEW j \in Id
             PROVE  Taken(q)'[j] \in seen'[q][j] \cup {Untouched}
  BY DEF ComputedInv
<1>0. Taken(q)[j] \in seen[q][j] \cup {Untouched}
  BY DEF ComputedInv
<1>1. CASE UNCHANGED <<values, sent, gathered, seen>>
  BY <1>0, <1>1 DEF Taken
<1>2. ASSUME NEW r \in Rank, Gather(r)
      PROVE  Taken(q)'[j] \in seen'[q][j] \cup {Untouched}
  BY <1>0, <1>2, GatherTakes
<1>3. ASSUME NEW r \in Rank, NEW t \in Thread, Compare(r, t)
      PROVE  Taken(q)'[j] \in seen'[q][j] \cup {Untouched}
  <2>1. Taken(q)' = Taken(q) /\ seen[q][j] \subseteq seen'[q][j]
    BY <1>3, CompareTakes
  <2> QED
    BY <1>0, <2>1
<1>4. ASSUME NEW r \in Rank, NEW t \in Thread, Write(r, t)
      PROVE  Taken(q)'[j] \in seen'[q][j] \cup {Untouched}
  BY <1>0, <1>4, WriteTakes
<1> QED
  BY <1>1, <1>2, <1>3, <1>4, TakenSteps

(* With one thread a table holds the maxima of the computed values. *)
LEMMA InitMax == Init => MaxInv
<1> SUFFICES ASSUME Init
             PROVE  MaxInv
  OBVIOUS
<1>1. \A r \in Rank : \A j \in Id : Taken(r)[j] = Untouched /\ seen[r][j] = {}
  BY DEF Init, Taken, Fresh
<1>2. \A r \in Rank : \A j \in Id : IsMax(Taken(r)[j], seen[r][j] \cup {Untouched})
  BY <1>1 DEF IsMax, Untouched
<1>3. \A r \in Rank : \A t \in Thread : pc[r][t] # "write"
  BY DEF Init
<1> QED
  BY <1>2, <1>3 DEF MaxInv

(* The greatest of a set stays it when a smaller value comes in, and gives
   way to a greater one.                                                    *)
LEMMA MaxGrows ==
    ASSUME NEW S, S \subseteq Int, NEW T, T \subseteq Int, S \subseteq T, NEW x, IsMax(x, S),
           \A y \in T \ S : y <= x
    PROVE  IsMax(x, T)
BY DEF IsMax

LEMMA MaxReplaced ==
    ASSUME NEW S, S \subseteq Int, NEW x, IsMax(x, S), NEW v \in Int, v > x
    PROVE  IsMax(v, S \cup {v})
BY DEF IsMax

LEMMA StepMax ==
    ASSUME Thread = {Main}
    PROVE  Typed /\ StageInv /\ MaxInv /\ [Next]_vars => MaxInv'
<1> SUFFICES ASSUME Typed, StageInv, MaxInv, [Next]_vars
             PROVE  MaxInv'
  OBVIOUS
<1> DEFINE Greatest(q, j) == IsMax(Taken(q)[j], Counting(q, j))
<1>0. /\ \A q \in Rank, j \in Id : Greatest(q, j)
      /\ \A q \in Rank, t \in Thread :
            pc[q][t] = "write" => arg[q][t].v > values[q][arg[q][t].id]
  BY DEF MaxInv, Counting
<1>a. /\ \A q \in Rank, j \in Id : Counting(q, j) \subseteq Int
      /\ \A q \in Rank, j \in Id : Counting(q, j)' \subseteq Int
  <2>1. seen \in [Rank -> [Id -> SUBSET Val]]
    BY DEF Typed, TypeOK
  <2>2. seen' \in [Rank -> [Id -> SUBSET Val]]
    BY StepType DEF Typed, TypeOK
  <2>3. \A q \in Rank, j \in Id : Counting(q, j) \subseteq Int
    BY <2>1, CountingInts
  <2>4. ASSUME NEW q \in Rank, NEW j \in Id
        PROVE  Counting(q, j)' \subseteq Int
    <3>1. Counting(q, j)' \subseteq Val \cup {Untouched}
      BY <2>2 DEF Counting
    <3> QED
      BY <3>1, ValInts
  <2> QED
    BY <2>3, <2>4
<1>b. pc \in [Rank -> [Thread -> {"idle", "compare", "write", "flag"}]]
  BY DEF Typed, TypeOK
<1>1. ASSUME NEW q \in Rank, NEW j \in Id
      PROVE  Greatest(q, j)'
  <2>0. Greatest(q, j)
    BY <1>0
  <2>1. CASE UNCHANGED <<values, sent, gathered, seen>>
    BY <2>0, <2>1 DEF Taken, Counting
  <2>2. ASSUME NEW r \in Rank, Gather(r)
        PROVE  Greatest(q, j)'
    BY <2>0, <2>2, GatherTakes DEF Counting
  <2>3. ASSUME NEW r \in Rank, NEW t \in Thread, Compare(r, t)
        PROVE  Greatest(q, j)'
    <3>1. /\ Taken(q)' = Taken(q) /\ seen[q][j] \subseteq seen'[q][j]
          /\ \A x \in seen'[q][j] \ seen[q][j] : x <= Taken(q)[j]
      BY <2>3, CompareTakes
    <3>2. /\ Counting(q, j) \subseteq Counting(q, j)'
          /\ \A x \in Counting(q, j)' \ Counting(q, j) : x <= Taken(q)[j]
      BY <3>1 DEF Counting
    <3>3. IsMax(Taken(q)[j], Counting(q, j)')
      BY ONLY <1>a, <2>0, <3>2, MaxGrows, q \in Rank, j \in Id
    <3> QED
      BY <3>1, <3>3 DEF IsMax
  <2>4. ASSUME NEW r \in Rank, NEW t \in Thread, Write(r, t)
        PROVE  Greatest(q, j)'
    <3>1. CASE q = r /\ j = arg[r][t].id /\ r \notin gathered
      <4>1. Taken(q)[j] = values[r][arg[r][t].id]
        BY <3>1 DEF Taken
      <4>2. arg[r][t].v > Taken(q)[j]
        BY <1>0, <2>4, <4>1 DEF Write
      <4>3. arg[r][t].v \in Val /\ Taken(q)'[j] = arg[r][t].v
            /\ seen'[q][j] = seen[q][j] \cup {arg[r][t].v}
        BY <2>4, <3>1, WriteTakes
      <4>4. arg[r][t].v \in Int /\ Counting(q, j)' = Counting(q, j) \cup {arg[r][t].v}
        BY <4>3, ValInts DEF Counting
      <4>5. IsMax(arg[r][t].v, Counting(q, j) \cup {arg[r][t].v})
        BY ONLY <1>a, <2>0, <4>2, <4>4, MaxReplaced, q \in Rank, j \in Id
      <4> QED
        BY <4>3, <4>4, <4>5 DEF IsMax
    <3>2. CASE ~ (q = r /\ j = arg[r][t].id /\ r \notin gathered)
      <4>1. seen'[q][j] = seen[q][j] /\ Taken(q)'[j] = Taken(q)[j]
        BY <2>4, <3>2, WriteTakes
      <4> QED
        BY <2>0, <4>1 DEF IsMax, Counting
    <3> QED
      BY <3>1, <3>2
  <2> QED
    BY <2>1, <2>2, <2>3, <2>4, TakenSteps
<1>2. ASSUME NEW q \in Rank, NEW u \in Thread, pc'[q][u] = "write"
      PROVE  arg'[q][u].v > values'[q][arg'[q][u].id]
  <2>1. ASSUME NEW r \in Rank, InitVals(r) \/ InitFails(r)
        PROVE  values' = values
    <3>1. values' = [values EXCEPT ![r] = Fresh] /\ values[r] = Fresh
      BY <2>1 DEF InitVals, InitFails, StageInv
    <3> QED
      BY <3>1 DEF Typed, TypeOK
  <2>2. ASSUME NEW r \in Rank, NEW t \in Thread, NEW j \in Id, NEW v \in Val, CallStore(r, t, j, v)
        PROVE  arg'[q][u].v > values'[q][arg'[q][u].id]
    <3>1. pc' = [pc EXCEPT ![r][t] = "compare"]
      BY <2>2 DEF CallStore
    <3>2. q # r /\ pc[q][u] = "write"
      BY <1>2, <1>b, <3>1
    <3>3. arg'[q] = arg[q] /\ values' = values
      BY <2>2, <3>2 DEF CallStore, globals, Typed, TypeOK
    <3> QED
      BY <1>0, <3>2, <3>3
  <2>3. ASSUME NEW r \in Rank, NEW t \in Thread, Compare(r, t)
        PROVE  arg'[q][u].v > values'[q][arg'[q][u].id]
    <3>1. values' = values /\ arg' = arg
      BY <2>3, CompareTakes
    <3>2. CASE q = r
      <4>1. u = t
        OBVIOUS
      <4> QED
        BY <1>2, <1>b, <2>3, <3>1, <3>2, <4>1 DEF Compare
    <3>3. CASE q # r
      <4>1. pc'[q] = pc[q]
        BY <1>b, <2>3, <3>3 DEF Compare
      <4> QED
        BY <1>0, <1>2, <3>1, <4>1
    <3> QED
      BY <3>2, <3>3
  <2>4. ASSUME NEW r \in Rank, NEW t \in Thread, Write(r, t)
        PROVE  arg'[q][u].v > values'[q][arg'[q][u].id]
    <3>1. pc' = [pc EXCEPT ![r][t] = "flag"] /\ arg' = arg
      BY <2>4 DEF Write
    <3>2. q # r /\ pc[q][u] = "write"
      BY <1>2, <1>b, <3>1
    <3>3. values'[q] = values[q]
      BY <2>4, <3>2 DEF Write, Typed, TypeOK
    <3> QED
      BY <1>0, <3>1, <3>2, <3>3
  <2>5. ASSUME NEW r \in Rank, NEW t \in Thread, Flag(r, t)
        PROVE  arg'[q][u].v > values'[q][arg'[q][u].id]
    <3>1. /\ pc' = [pc EXCEPT ![r][t] = "idle"] /\ arg' = [arg EXCEPT ![r][t] = NoArg]
          /\ values' = values
      BY <2>5 DEF Flag
    <3>2. pc[q][u] = "write" /\ ~(q = r /\ u = t)
      BY <1>2, <1>b, <3>1
    <3>3. arg'[q][u] = arg[q][u]
      BY <3>1, <3>2, <1>b DEF Typed, TypeOK
    <3> QED
      BY <1>0, <3>1, <3>2, <3>3
  <2>6. CASE UNCHANGED <<pc, arg, values>>
    BY <1>0, <1>2, <2>6
  <2> QED
    BY <2>1, <2>2, <2>3, <2>4, <2>5, <2>6
       DEF Next, Idle, vars, globals, files, InitVals, InitFails, EnterPrint, Alloc, Gather,
           MarkFinalized, Exit, Kill, OpenOutput, WriteLine, NextRank, CloseOutput
<1> QED
  BY <1>1, <1>2 DEF MaxInv, Counting

-----------------------------------------------------------------------------
(* The theorems.                                                           *)

Shape == Typed /\ StageInv /\ OutputInv

LEMMA ShapeAlways == Spec => []Shape
<1>1. Init => Shape
  BY InitType, InitStage DEF Shape
<1>2. Shape /\ [Next]_vars => Shape'
  BY StepType, StepStage, StepOutput DEF Shape
<1> QED
  BY <1>1, <1>2, PTL DEF Spec

LEMMA ComputedAlways == Spec => [](Shape /\ ComputedInv)
<1>1. Shape /\ ComputedInv /\ [Next]_vars => ComputedInv'
  BY StepComputed DEF Shape
<1> QED
  BY <1>1, InitComputed, ShapeAlways, PTL DEF Spec

LEMMA MaxAlways ==
    ASSUME Thread = {Main}
    PROVE  Spec => [](Shape /\ MaxInv)
<1>1. Shape /\ MaxInv /\ [Next]_vars => MaxInv'
  BY StepMax DEF Shape
<1> QED
  BY <1>1, InitMax, ShapeAlways, PTL DEF Spec

(* A line of the report is the taken table's entry for its instruction. *)
LEMMA LineTaken ==
    ASSUME Shape, NEW k \in DOMAIN output
    PROVE  /\ output[k].rank \in Rank /\ output[k].id \in Id
           /\ output[k].rank \in gathered
           /\ output[k].max = Taken(output[k].rank)[output[k].id]
<1>1. output[k] \in Line
  BY DEF Shape, Typed, TypeOK
<1> QED
  BY <1>1 DEF Line, Shape, OutputInv, Taken

(* However the threads of a rank race in oft_store_max_val, what
   oft_output.txt reports of an instruction was computed by it, or is -1.   *)
THEOREM ReportComputed == Spec => []ReportWasComputed
<1>1. Shape /\ ComputedInv => ReportWasComputed
  BY LineTaken DEF ReportWasComputed, ComputedInv
<1> QED
  BY <1>1, ComputedAlways, PTL

(* With one thread per rank the lines of oft_output.txt are the maxima over
   everything their rank stored before its table was gathered, for any
   number of ranks and however their steps interleave.                      *)
THEOREM ReportMaximum ==
    ASSUME Thread = {Main}
    PROVE  Spec => []ReportIsMaximum
<1>1. Shape /\ MaxInv => ReportIsMaximum
  BY LineTaken DEF ReportIsMaximum, MaxInv
<1> QED
  BY <1>1, MaxAlways, PTL

(* With one thread per rank the table always holds the maxima. *)
THEOREM TableMaximum ==
    ASSUME Thread = {Main}
    PROVE  Spec => []MaximumKept
<1>1. Shape /\ MaxInv => MaximumKept
  BY DEF MaxInv, MaximumKept, Taken
<1> QED
  BY <1>1, MaxAlways, PTL

(* The root passes MPI_Finalize only behind its loops. *)
LEMMA StepWhole == Typed /\ WholeInv /\ [Next]_vars => WholeInv'
<1> SUFFICES ASSUME Typed, WholeInv, [Next]_vars
             PROVE  WholeInv'
  OBVIOUS
<1>0. TypeOK
  BY DEF Typed
<1> USE RankZero, <1>0 DEF globals, files
<1>1. CASE UNCHANGED <<stage, finalized, wi>>
  BY <1>1 DEF WholeInv
<1>2. ASSUME NEW r \in Rank, InitVals(r) \/ InitFails(r)
      PROVE  WholeInv'
  <2>1. CASE InitVals(r)
    <3>1. \A q \in Rank : /\ stage'[q] = IF q = r THEN "running" ELSE stage[q]
                          /\ finalized'[q] = IF q = r THEN FALSE ELSE finalized[q]
      BY <2>1 DEF InitVals, TypeOK
    <3> QED
      BY <2>1, <3>1 DEF InitVals, WholeInv
  <2>2. CASE InitFails(r)
    BY <2>2 DEF InitFails, WholeInv, TypeOK
  <2> QED
    BY <1>2, <2>1, <2>2
<1>3. ASSUME NEW r \in Rank, EnterPrint(r) \/ Alloc(r) \/ Gather(r)
      PROVE  WholeInv'
  BY <1>3 DEF EnterPrint, Alloc, Gather, WholeInv, TypeOK
<1>4. ASSUME NEW r \in Rank, MarkFinalized(r)
      PROVE  WholeInv'
  BY <1>4 DEF MarkFinalized, WholeInv, TypeOK
<1>5. ASSUME NEW r \in Rank, Exit(r) \/ Kill(r)
      PROVE  WholeInv'
  BY <1>5 DEF Exit, Kill, WholeInv, TypeOK
<1>6. CASE OpenOutput \/ NextRank \/ CloseOutput
  BY <1>6 DEF OpenOutput, NextRank, CloseOutput, WholeInv, TypeOK
<1> QED
  BY <1>1, <1>2, <1>3, <1>4, <1>5, <1>6 DEF Next, Idle, vars, CallStore, Compare, Write, Flag,
     WriteLine

(* oft_output.txt is the beginning of the report at any moment, whoever is
   killed when, and all of it once the root comes to MPI_Finalize: N * TableLen
   lines in the order of the two loops, for any N and TableLen.              *)
THEOREM ReportIsWhole == Spec => []ReportWhole
<1>1. ASSUME Shape
      PROVE  Len(output) <= N * TableLen /\ (wi = N => Len(output) = N * TableLen)
  <2>1. Len(output) = wi * TableLen + wj /\ (wi = N => wj = 0)
    BY <1>1 DEF Shape, OutputInv
  <2>2. wi \in 0..N /\ wj \in 0..TableLen /\ N \in Nat /\ TableLen \in Nat
    BY <1>1, SizeAssumption DEF Shape, Typed, TypeOK
  <2>3. CASE wi = N
    <3>1. N * TableLen \in Nat
      BY <2>2
    <3> QED
      BY <2>1, <2>3, <3>1
  <2>4. CASE wi # N
    <3>1. N - (wi + 1) \in Nat
      BY <2>2, <2>4
    <3>2. (N - (wi + 1)) * TableLen \in Nat
      BY <2>2, <3>1
    <3>3. N * TableLen = wi * TableLen + TableLen + (N - (wi + 1)) * TableLen
      BY <2>2
    <3>4. wi * TableLen \in Nat
      BY <2>2
    <3> QED
      BY <2>1, <2>2, <2>4, <3>2, <3>3, <3>4
  <2> QED
    BY <2>3, <2>4
<1>2. Shape /\ WholeInv => ReportWhole
  BY <1>1 DEF ReportWhole, WholeInv, Shape, OutputInv
<1>3. Init => WholeInv
  BY RankZero DEF Init, WholeInv
<1>4. Shape /\ WholeInv /\ [Next]_vars => WholeInv'
  BY StepWhole DEF Shape
<1> QED
  BY <1>2, <1>3, <1>4, ShapeAlways, PTL DEF Spec

(* How a step changes the tables with one thread: by a greater value, or not
   at all once oft_init_vals has run.                                       *)
LEMMA TableSteps ==
    ASSUME Shape, MaxInv, [Next]_vars
    PROVE  \/ values' = values
           \/ \E r \in Rank, j \in Id, v \in Val :
                 /\ v > values[r][j] /\ values' = [values EXCEPT ![r][j] = v]
                 /\ UNCHANGED <<sent, gathered, output>>
<1>0. Typed /\ StageInv
  BY DEF Shape
<1>1. ASSUME NEW r \in Rank, NEW t \in Thread, Write(r, t)
      PROVE  \E j \in Id, v \in Val :
                 /\ v > values[r][j] /\ values' = [values EXCEPT ![r][j] = v]
                 /\ UNCHANGED <<sent, gathered, output>>
  <2>1. arg[r][t].id \in Id /\ arg[r][t].v \in Val
    BY <1>0, <1>1, WriteTakes
  <2>2. arg[r][t].v > values[r][arg[r][t].id]
    BY <1>1 DEF MaxInv, Write
  <2>3. values' = [values EXCEPT ![r][arg[r][t].id] = arg[r][t].v]
        /\ UNCHANGED <<sent, gathered, output>>
    BY <1>1 DEF Write, files
  <2> QED
    BY <2>1, <2>2, <2>3
<1>2. ASSUME NEW r \in Rank, NEW t \in Thread, Compare(r, t)
      PROVE  values' = values
  BY <1>0, <1>2, CompareTakes
<1>3. ASSUME NEW r \in Rank, Gather(r)
      PROVE  values' = values
  BY <1>0, <1>3, GatherTakes
<1> QED
  BY <1>0, <1>1, <1>2, <1>3, TakenSteps

(* With one thread per rank no step makes a recorded maximum smaller. *)
THEOREM MaximaGrow ==
    ASSUME Thread = {Main}
    PROVE  Spec => NoMaximumLost
<1>1. ASSUME Shape, MaxInv, [Next]_vars, NEW r \in Rank, NEW j \in Id
      PROVE  values'[r][j] >= values[r][j]
  <2>1. values \in [Rank -> [Id -> Val \cup {Untouched}]]
    BY <1>1 DEF Shape, Typed, TypeOK
  <2>2. values[r][j] \in Int
    BY <2>1, ValInts
  <2>3. ASSUME NEW q \in Rank, NEW i \in Id, NEW v \in Val,
               v > values[q][i], values' = [values EXCEPT ![q][i] = v]
        PROVE  values'[r][j] >= values[r][j]
    <3>1. v \in Int
      BY ValInts
    <3>2. values'[r][j] = IF q = r /\ i = j THEN v ELSE values[r][j]
      BY <2>1, <2>3
    <3> QED
      BY <2>2, <2>3, <3>1, <3>2
  <2> QED
    BY <1>1, <2>2, <2>3, TableSteps
<1>2. Shape /\ MaxInv /\ [Next]_vars
         => [\A r \in Rank : \A j \in Id : stage[r] # "start" => values'[r][j] >= values[r][j]]_vars
  BY <1>1
<1> QED
  BY <1>2, MaxAlways, PTL DEF Spec, NoMaximumLost

(* With one thread per rank the runtime implements MaxRecorder: tables only
   grow, every rank submits once, and the report lists the submitted maxima
   in order once all ranks have submitted.                                  *)
THEOREM RuntimeImplementsRecorder ==
    ASSUME Thread = {Main}
    PROVE  Spec => ImplementsMaxRecorder
<1> USE DEF Recorder!Rank, Recorder!Id, Recorder!Untouched, Recorder!Fresh
<1>1. Init => Recorder!Init
  BY DEF Init, Recorder!Init, Rank, Id, Untouched, Fresh
<1>2. ASSUME Shape, MaxInv, [Next]_vars
      PROVE  [Recorder!Next]_Recorder!vars
  <2>0. Rank = Recorder!Rank /\ Id = Recorder!Id
    BY DEF Rank, Id
  <2>1. CASE UNCHANGED <<values, sent, gathered, output>>
    BY <2>1 DEF Recorder!vars
  <2>2. ASSUME NEW r \in Rank, NEW j \in Id, NEW v \in Val,
               v > values[r][j], values' = [values EXCEPT ![r][j] = v],
               UNCHANGED <<sent, gathered, output>>
        PROVE  Recorder!Next
    <3>1. Recorder!Record(r, j, v)
      BY <2>2 DEF Recorder!Record
    <3> QED
      BY <2>0, <3>1 DEF Recorder!Next
  <2>3. ASSUME NEW r \in Rank, Gather(r)
        PROVE  Recorder!Next
    <3>1. r \notin gathered /\ values' = values
      BY <1>2, <2>3, GatherTakes DEF Shape
    <3>2. Recorder!Submit(r)
      BY <2>3, <3>1 DEF Gather, Recorder!Submit, files
    <3> QED
      BY <2>0, <3>2 DEF Recorder!Next
  <2>4. CASE WriteLine
    <3>1. wi \in 0..N /\ wj \in 0..TableLen /\ wi < N /\ wj < TableLen /\ stage[0] = "write"
      BY <1>2, <2>4 DEF WriteLine, Shape, Typed, TypeOK
    <3>2. wi \in Rank /\ wj \in Id
      BY <3>1, SizeAssumption DEF Rank, Id
    <3>3. gathered = Rank /\ Len(output) = wi * TableLen + wj
      BY <1>2, <3>1 DEF Shape, StageInv, OutputInv
    <3>4. Recorder!Publish(wi, wj)
      BY <2>0, <2>4, <3>3 DEF WriteLine, Recorder!Publish, globals
    <3> QED
      BY <2>0, <3>2, <3>4 DEF Recorder!Next
  <2>5. CASE OpenOutput
    <3>1. output = <<>>
      BY <1>2, <2>5 DEF OpenOutput, Shape, StageInv
    <3> QED
      BY <2>5, <3>1 DEF OpenOutput, globals, Recorder!vars
  <2>6. \/ UNCHANGED <<sent, gathered, output>>
        \/ (\E r \in Rank : Gather(r)) \/ OpenOutput \/ WriteLine
    BY <1>2 DEF Next, Idle, vars, files, InitVals, InitFails, CallStore, Compare, Write, Flag,
         EnterPrint, Alloc, MarkFinalized, Exit, Kill, NextRank, CloseOutput
  <2> QED
    BY <1>2, <2>1, <2>2, <2>3, <2>4, <2>5, <2>6, TableSteps
<1> QED
  BY <1>1, <1>2, MaxAlways, PTL DEF Spec, ImplementsMaxRecorder, Recorder!Spec

-----------------------------------------------------------------------------
(* oft_debug.txt.                                                           *)

LEMMA InitDebug == Init => DebugInv
BY RankZero DEF Init, DebugInv, DebugTellsOfRankZero

LEMMA StepDebug == Typed /\ DebugInv /\ [Next]_vars => DebugInv'
<1> SUFFICES ASSUME Typed, DebugInv, [Next]_vars
             PROVE  DebugInv'
  OBVIOUS
<1>0. TypeOK
  BY DEF Typed
<1> USE RankZero, <1>0 DEF globals, files, TypeOK, DebugInv, DebugTellsOfRankZero
<1>1. CASE UNCHANGED <<stage, finalized, mpi_rank, active, debug, late>>
  BY <1>1
<1>2. ASSUME NEW r \in Rank, InitVals(r)
      PROVE  DebugInv'
  BY <1>2 DEF InitVals
<1>3. ASSUME NEW r \in Rank, InitFails(r) \/ Kill(r)
      PROVE  DebugInv'
  BY <1>3 DEF InitFails, Kill, Alive, Stage
<1>4. ASSUME NEW r \in Rank, NEW t \in Thread, Flag(r, t)
      PROVE  DebugInv'
  BY <1>4 DEF Flag, Alive, Stage
<1>5. ASSUME NEW r \in Rank, EnterPrint(r)
      PROVE  DebugInv'
  BY <1>5 DEF EnterPrint
<1>6. ASSUME NEW r \in Rank, Alloc(r) \/ Gather(r) \/ MarkFinalized(r)
      PROVE  DebugInv'
  <2>1. stage[r] \in {"alloc", "gather", "mark"} /\ mpi_rank[r] = r
    BY <1>6 DEF Alloc, Gather, MarkFinalized
  <2>2. CASE Alloc(r)
    BY <2>1, <2>2 DEF Alloc
  <2>3. CASE Gather(r)
    BY <2>1, <2>3 DEF Gather
  <2>4. CASE MarkFinalized(r)
    BY <2>1, <2>4 DEF MarkFinalized
  <2> QED
    BY <1>6, <2>2, <2>3, <2>4
<1>7. CASE OpenOutput \/ CloseOutput
  BY <1>7 DEF OpenOutput, CloseOutput
<1>8. ASSUME NEW r \in Rank, Exit(r)
      PROVE  DebugInv'
  <2>1. active[r] => mpi_rank[r] = r
    OBVIOUS
  <2>2. debug' = (debug \/ (active[r] /\ r = 0))
    BY <1>8, <2>1, SizeAssumption DEF Exit, Rank
  <2> QED
    BY <1>8, <2>2 DEF Exit
<1>9. \/ UNCHANGED <<stage, finalized, mpi_rank, active, debug, late>>
      \/ \E r \in Rank : InitVals(r) \/ InitFails(r) \/ Kill(r) \/ EnterPrint(r)
                         \/ Alloc(r) \/ Gather(r) \/ MarkFinalized(r) \/ Exit(r)
      \/ \E r \in Rank : \E t \in Thread : Flag(r, t)
      \/ OpenOutput \/ CloseOutput
  BY DEF Next, Idle, vars, CallStore, Compare, Write, WriteLine, NextRank
<1> QED
  BY <1>1, <1>2, <1>3, <1>4, <1>5, <1>6, <1>7, <1>8, <1>9

(* oft_debug.txt exists when rank 0 stored after its finalization and has left
   through its exit handler, and never for another rank's stores.           *)
THEOREM DebugTells == Spec => []DebugTellsOfRankZero
<1>1. DebugInv => DebugTellsOfRankZero
  BY DEF DebugInv
<1> QED
  BY <1>1, InitDebug, StepDebug, TypedAlways, PTL DEF Spec
=============================================================================
