----------------------------- MODULE MaxRecorder -----------------------------
(* What the runtime of OFT promises, for the instrumented instructions 0 ..
   TableLen - 1 of a program on N ranks: each rank keeps the maximum of the
   values an instruction computed, submits its table once, and the report
   lists the submitted maxima of all ranks, rank by rank, once it has them.  *)
EXTENDS Integers, Sequences

CONSTANTS N, TableLen, Val

Rank == 0..(N - 1)
Id == 0..(TableLen - 1)
Untouched == -1

VARIABLES best,        \* the maximum of each instruction on each rank
          submitted,   \* the ranks that have submitted their table
          row,         \* the tables as submitted
          report       \* the lines of the report

vars == <<best, submitted, row, report>>

Fresh == [j \in Id |-> Untouched]

Init ==
    /\ best = [r \in Rank |-> Fresh]
    /\ submitted = {}
    /\ row = [r \in Rank |-> Fresh]
    /\ report = <<>>

(* A larger value takes the place of the maximum; no other step changes it. *)
Record(r, j, v) ==
    /\ v > best[r][j]
    /\ best' = [best EXCEPT ![r][j] = v]
    /\ UNCHANGED <<submitted, row, report>>

Submit(r) ==
    /\ r \notin submitted
    /\ submitted' = submitted \cup {r}
    /\ row' = [row EXCEPT ![r] = best[r]]
    /\ UNCHANGED <<best, report>>

(* The next line of the report: no rank is skipped or repeated. *)
Publish(r, j) ==
    /\ submitted = Rank
    /\ Len(report) = r * TableLen + j
    /\ report' = Append(report, [rank |-> r, id |-> j, max |-> row[r][j]])
    /\ UNCHANGED <<best, submitted, row>>

Next == \E r \in Rank : \/ Submit(r)
                        \/ \E j \in Id : Publish(r, j) \/ \E v \in Val : Record(r, j, v)

Spec == Init /\ [][Next]_vars
=============================================================================
