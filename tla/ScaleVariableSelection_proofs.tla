-------------------- MODULE ScaleVariableSelection_proofs --------------------
(* For all annotation files and modules: what is selected is exactly what the
   files, oft_mark_ and MPI's calls ask for, and a run fails for a reason.   *)
EXTENDS ScaleVariableSelection, FiniteSetTheorems, WellFoundedInduction, NaturalsInduction, TLAPS

-----------------------------------------------------------------------------
(* Programs. *)

LEMMA ProgramFields ==
    ASSUME p \in Programs
    PROVE  /\ p.files \in Seq(File) /\ p.calls \in Seq(Call)
           /\ Len(p.files) \in Nat /\ DOMAIN p.files = 1..Len(p.files)
           /\ Len(p.calls) \in Nat /\ DOMAIN p.calls = 1..Len(p.calls)
           /\ \A i \in 1..Len(p.files) : p.files[i] \in File
           /\ \A i \in 1..Len(p.calls) : p.calls[i] \in Call
           /\ ToSet(p.calls) = {p.calls[i] : i \in 1..Len(p.calls)}
<1>1. p \in [files : Seq(File), calls : Seq(Call)]
  BY ProgramsAssumption
<1>2. p.files \in Seq(File) /\ p.calls \in Seq(Call)
  BY <1>1
<1> QED
  BY <1>2 DEF ToSet

LEMMA FileFields ==
    ASSUME NEW f \in File
    PROVE  /\ f.opens \in BOOLEAN /\ f.newline \in BOOLEAN
           /\ Len(f.lines) \in Nat /\ DOMAIN f.lines = 1..Len(f.lines)
           /\ \A k \in 1..Len(f.lines) : /\ f.lines[k] \in LineType
                                         /\ f.lines[k].kind \in {"blank", "bad", "number", "entry"}
<1>1. f.lines \in Seq(LineType) /\ f.opens \in BOOLEAN /\ f.newline \in BOOLEAN
  BY DEF File
<1>2. \A l \in LineType : l.kind \in {"blank", "bad", "number", "entry"}
  BY DEF LineType
<1> QED
  BY <1>1, <1>2

LEMMA CallFields ==
    ASSUME NEW c \in Call
    PROVE  /\ c.inst \in Value /\ Len(c.args) \in Nat
           /\ \A i \in 1..Len(c.args) : c.args[i] \in Value
           /\ Len(Operands(c)) = Len(c.args) + 1
           /\ \A i \in 1..(Len(c.args) + 1) : Operands(c)[i] \in Value
<1>1. c.inst \in Value /\ c.callee \in Value /\ c.args \in Seq(Value)
  BY DEF Call
<1>2. Operands(c) \in Seq(Value) /\ Len(Operands(c)) = Len(c.args) + 1
  BY <1>1 DEF Operands
<1> QED
  BY <1>1, <1>2

(* A line becomes an entry, with numbers that an unsigned holds. *)
LEMMA EntryOf ==
    ASSUME NEW l \in LineType
    PROVE  /\ parseAnnotationEntry(l) \in Entry
           /\ parseAnnotationEntry(l).fnName = l.fn /\ parseAnnotationEntry(l).retVal = l.ret
           /\ ToSet(parseAnnotationEntry(l).fnArgs) = {k % UIntSize : k \in ToSet(l.n)}
           /\ \A k \in ToSet(l.n) : k % UIntSize \in Nat
           /\ parseAnnotationEntry(l).fnArgs = <<>> <=> l.n = <<>>
           /\ Len(parseAnnotationEntry(l).fnArgs) = Len(l.n)
           /\ l.ret \in BOOLEAN
<1>1. l.n \in Seq(Nat) /\ l.fn \in Name /\ l.ret \in BOOLEAN
  BY DEF LineType
<1> DEFINE a == [i \in DOMAIN l.n |-> l.n[i] % UIntSize]
<1>2. DOMAIN l.n = 1..Len(l.n) /\ Len(l.n) \in Nat /\ \A i \in DOMAIN l.n : l.n[i] \in Nat
  BY <1>1
<1>3. \A i \in DOMAIN l.n : l.n[i] % UIntSize \in 0..(UIntSize - 1)
  BY <1>2, UIntSizeAssumption
<1>4. a \in Seq(0..(UIntSize - 1)) /\ DOMAIN a = 1..Len(l.n) /\ Len(a) = Len(l.n)
  BY <1>2, <1>3
<1>5. a = <<>> <=> l.n = <<>>
  BY <1>1, <1>4
<1>6. ToSet(a) = {k % UIntSize : k \in ToSet(l.n)}
  BY <1>2, <1>4 DEF ToSet
<1>7. \A k \in ToSet(l.n) : k % UIntSize \in Nat
  BY <1>3, UIntSizeAssumption DEF ToSet
<1>8. /\ parseAnnotationEntry(l).fnName = l.fn /\ parseAnnotationEntry(l).retVal = l.ret
      /\ parseAnnotationEntry(l).fnArgs = a
  BY DEF parseAnnotationEntry
<1>9. parseAnnotationEntry(l) \in Entry
  <2> HIDE DEF a
  <2>1. parseAnnotationEntry(l) = [fnName |-> l.fn, retVal |-> l.ret, fnArgs |-> a]
    BY DEF parseAnnotationEntry, a
  <2> QED
    BY <1>1, <1>4, <2>1 DEF Entry
<1> QED
  BY <1>1, <1>4, <1>5, <1>6, <1>7, <1>8, <1>9

LEMMA MatchesIffAsks ==
    ASSUME NEW l \in LineType, NEW c \in Call
    PROVE  Matches(parseAnnotationEntry(l), c) <=> Asks(l, c)
<1> DEFINE N == {k % UIntSize : k \in ToSet(l.n)}
<1>1. Len(c.args) \in Nat /\ N \subseteq Nat
  BY EntryOf, CallFields
<1>2. (\A i \in N : i <= Len(c.args)) <=> N \subseteq 0..Len(c.args)
  <2> HIDE DEF N
  <2> QED
    BY <1>1
<1> QED
  BY <1>2, EntryOf DEF Matches, Asks

(* The places of the entries. *)
LEMMA SaidIs ==
    ASSUME p \in Programs
    PROVE  /\ \A w \in Said : /\ w = <<w[1], w[2]>>
                              /\ w[1] \in 1..Len(p.files) /\ w[2] \in 1..Len(p.files[w[1]].lines)
                              /\ LineAt(w).kind = "entry" /\ LineAt(w) \in LineType
                              /\ \A j \in 1..w[2] : p.files[w[1]].lines[j].kind \in {"blank", "entry"}
           /\ \A i \in 1..Len(p.files) : \A k \in 1..Len(p.files[i].lines) :
                 p.files[i].lines[k].kind = "entry"
                 /\ (\A j \in 1..k : p.files[i].lines[j].kind \in {"blank", "entry"})
                 => <<i, k>> \in Said
<1>1. DOMAIN p.files = 1..Len(p.files) /\ \A i \in 1..Len(p.files) : p.files[i] \in File
  BY ProgramFields
<1>2. \A i \in 1..Len(p.files) : DOMAIN p.files[i].lines = 1..Len(p.files[i].lines)
  BY <1>1, FileFields
<1>3. ASSUME NEW w \in Said
      PROVE  /\ w = <<w[1], w[2]>>
             /\ w[1] \in 1..Len(p.files) /\ w[2] \in 1..Len(p.files[w[1]].lines)
             /\ LineAt(w).kind = "entry" /\ LineAt(w) \in LineType
             /\ \A j \in 1..w[2] : p.files[w[1]].lines[j].kind \in {"blank", "entry"}
  <2>1. PICK i \in 1..Len(p.files) :
           w \in {<<i, k>> : k \in {l \in DOMAIN p.files[i].lines :
                                 /\ p.files[i].lines[l].kind = "entry"
                                 /\ \A j \in 1..l : p.files[i].lines[j].kind \in {"blank", "entry"}}}
    BY <1>1 DEF Said
  <2>2. PICK k \in 1..Len(p.files[i].lines) :
           /\ w = <<i, k>> /\ p.files[i].lines[k].kind = "entry"
           /\ \A j \in 1..k : p.files[i].lines[j].kind \in {"blank", "entry"}
    BY <1>2, <2>1
  <2>3. w[1] = i /\ w[2] = k /\ LineAt(w) = p.files[i].lines[k]
    BY <2>2 DEF LineAt
  <2>4. LineAt(w) \in LineType
    BY <1>1, <2>3, FileFields
  <2> QED
    BY <2>2, <2>3, <2>4
<1>4. ASSUME NEW i \in 1..Len(p.files), NEW k \in 1..Len(p.files[i].lines),
             p.files[i].lines[k].kind = "entry", \A j \in 1..k : p.files[i].lines[j].kind \in {"blank", "entry"}
      PROVE  <<i, k>> \in Said
  BY <1>1, <1>2, <1>4 DEF Said
<1> QED
  BY <1>3, <1>4

-----------------------------------------------------------------------------
(* The inductive invariant. *)

(* What calls have contributed, the first n of them. *)
LibraryOf(n) == {Operands(p.calls[i])[2] : i \in {j \in 1..n : IsScaleCall(p.calls[j])}}

Marked(c) ==
    IF c.name = ManualAnnotationFnName THEN {Operands(c)[1]}
    ELSE IF Asking(c) = {} THEN {}
    ELSE Wanted(First(c), c)

AnnotatedOf(n) == UNION {Marked(p.calls[i]) : i \in 1..n}

Reading == {"files", "lines"}
Visiting == {"calls", "done"}

CallInv ==
    /\ phase = "library" => /\ next \in 1..(Len(p.calls) + 1) /\ library = LibraryOf(next - 1)
                            /\ runs = 1 /\ ParsedAnnotations = <<>> /\ Annotated = {}
    /\ phase \in Reading \cup Visiting => library = LibraryOf(Len(p.calls))
    /\ phase \in Reading => Annotated = {}
    /\ phase = "calls" => next \in 1..(Len(p.calls) + 1) /\ Annotated = AnnotatedOf(next - 1)
    /\ phase = "done" => Annotated = AnnotatedOf(Len(p.calls))

(* A file that has not stopped the run. *)
GoodFile(f) ==
    /\ f.opens
    /\ \A k \in DOMAIN f.lines : f.lines[k].kind \in {"bad", "number"} =>
          f.lines[k].kind = "bad" /\ k = Len(f.lines) /\ ~f.newline

FileInv ==
    /\ phase \in Reading => /\ next \in 1..(Len(p.files) + 1)
                            /\ \A i \in 1..(next - 1) : GoodFile(p.files[i])
    /\ phase = "lines" => /\ next \in 1..Len(p.files) /\ file.opens
                          /\ line \in 0..Len(file.lines)
                          /\ \A k \in 1..line : file.lines[k].kind \in {"blank", "entry"}
    /\ FailsForReason

(* The entries that have been read: of the earlier runs all, of this one those
   that stand before where it is.                                           *)
Reads ==
    {x \in (1..runs) \X Said :
        \/ x[1] < runs
        \/ phase \in Visiting
        \/ phase \in Reading /\ x[2][1] < next
        \/ phase = "lines" /\ x[2][1] = next /\ x[2][2] <= line}

Sooner(x, y) == x[1] < y[1] \/ (x[1] = y[1] /\ Before(x[2], y[2]))

(* at is where the parsed annotations come from, in the order of reading. *)
EntriesAt(at) ==
    /\ at \in [1..Len(ParsedAnnotations) -> Reads]
    /\ \A x \in Reads : \E n \in 1..Len(ParsedAnnotations) : at[n] = x
    /\ \A n, m \in 1..Len(ParsedAnnotations) : n < m => Sooner(at[n], at[m])
    /\ \A n \in 1..Len(ParsedAnnotations) :
          ParsedAnnotations[n] = parseAnnotationEntry(LineAt(at[n][2]))

EntryInv == phase \in {"library"} \cup Reading \cup Visiting => \E at : EntriesAt(at)

SelectionInv == TypeOK /\ CallInv /\ FileInv /\ EntryInv

-----------------------------------------------------------------------------
(* Which line is found for a call. *)

LEMMA LeastOf ==
    ASSUME NEW S \in SUBSET Nat, S # {}
    PROVE  \E i \in S : \A j \in S : i <= j
<1> DEFINE Less == {ss \in Nat \X Nat : ss[1] < ss[2]}
<1>1. IsWellFoundedOn(Less, Nat)
  BY NatLessThanWellFounded DEF OpToRel
<1> HIDE DEF Less
<1>2. PICK i \in S : \A j \in S : <<j, i>> \notin Less
  BY <1>1, WFMin
<1>3. \A j \in S : ~(j < i)
  BY <1>2 DEF Less
<1> QED
  BY <1>3

LEMMA FoundEntryIs ==
    ASSUME NEW c, NEW n \in 1..Len(ParsedAnnotations), Matches(ParsedAnnotations[n], c),
           Len(ParsedAnnotations) \in Nat,
           \A m \in 1..Len(ParsedAnnotations) : Matches(ParsedAnnotations[m], c) => n <= m
    PROVE  FoundEntry(c) = n
<1> DEFINE I == {i \in 1..Len(ParsedAnnotations) : Matches(ParsedAnnotations[i], c)}
<1>1. FoundEntry(c) = IF I # {} THEN Min(I) ELSE 0
  BY DEF FoundEntry, SelectInSeq
<1>2. n \in I /\ \A m \in I : n <= m
  OBVIOUS
<1>3. \A k \in I : (\A m \in I : k <= m) => k = n
  BY <1>2
<1>4. Min(I) = CHOOSE x \in I : \A y \in I : x <= y
  BY DEF Min
<1> HIDE DEF I
<1> QED
  BY <1>1, <1>2, <1>3, <1>4

LEMMA NoEntryFound ==
    ASSUME NEW c, \A m \in 1..Len(ParsedAnnotations) : ~Matches(ParsedAnnotations[m], c)
    PROVE  FoundEntry(c) = 0
<1> DEFINE I == {i \in 1..Len(ParsedAnnotations) : Matches(ParsedAnnotations[i], c)}
<1>1. FoundEntry(c) = IF I # {} THEN Min(I) ELSE 0
  BY DEF FoundEntry, SelectInSeq
<1>2. I = {}
  OBVIOUS
<1> QED
  BY <1>1, <1>2

(* When the files are read, the entry that is found for a call is that of the
   first line that asks for it, however often they were read.               *)
LEMMA FoundIsFirst ==
    ASSUME SelectionInv, phase = "calls", NEW c \in Call
    PROVE  /\ Asking(c) = {} => FoundEntry(c) = 0
           /\ Asking(c) # {} => /\ FoundEntry(c) \in 1..Len(ParsedAnnotations)
                                /\ First(c) \in LineType
                                /\ ParsedAnnotations[FoundEntry(c)] = parseAnnotationEntry(First(c))
<1> DEFINE len == Len(ParsedAnnotations)
<1>1. p \in Programs /\ runs \in 1..MaxRuns /\ ParsedAnnotations \in Seq(Entry)
  BY DEF SelectionInv, TypeOK
<1>2. len \in Nat /\ runs \in Nat /\ 1 \in 1..runs
  BY <1>1, MaxRunsAssumption
<1>3. PICK at : EntriesAt(at)
  BY DEF SelectionInv, EntryInv, Reading, Visiting
<1>4. Reads = (1..runs) \X Said
  BY DEF Reads, Visiting
<1> HIDE DEF len
<1>5. \A n \in 1..len : /\ at[n] \in (1..runs) \X Said /\ at[n][2] \in Said /\ at[n][1] \in 1..runs
                        /\ at[n] = <<at[n][1], at[n][2]>>
  BY <1>3, <1>4 DEF EntriesAt, len
<1>6. \A w \in Said : LineAt(w) \in LineType /\ w = <<w[1], w[2]>> /\ w[1] \in Nat /\ w[2] \in Nat
  BY <1>1, SaidIs
<1>7. \A n \in 1..len : Matches(ParsedAnnotations[n], c) <=> at[n][2] \in Asking(c)
  BY <1>3, <1>5, <1>6, MatchesIffAsks DEF EntriesAt, Asking, len
<1>8. ASSUME Asking(c) = {}
      PROVE  FoundEntry(c) = 0
  BY <1>7, <1>8, NoEntryFound DEF len
<1>9. ASSUME Asking(c) # {}
      PROVE  /\ FoundEntry(c) \in 1..len
             /\ First(c) \in LineType
             /\ ParsedAnnotations[FoundEntry(c)] = parseAnnotationEntry(First(c))
  <2> DEFINE I == {i \in 1..len : Matches(ParsedAnnotations[i], c)}
  <2>1. \A w \in Asking(c) : w \in Said /\ \E m \in 1..len : at[m] = <<1, w>>
    BY <1>2, <1>3, <1>4 DEF Asking, EntriesAt, len
  <2>2. \A w \in Asking(c) : \E m \in I : at[m] = <<1, w>>
    <3> SUFFICES ASSUME NEW w \in Asking(c)
                 PROVE  \E m \in I : at[m] = <<1, w>>
      OBVIOUS
    <3>1. PICK m \in 1..len : at[m] = <<1, w>>
      BY <2>1
    <3>2. at[m][2] = w
      BY <3>1
    <3> QED
      BY <1>7, <3>1, <3>2
  <2>3. I # {} /\ I \in SUBSET Nat
    BY <1>2, <1>9, <2>2
  <2>4. PICK n \in I : \A j \in I : n <= j
    <3> HIDE DEF I
    <3> QED
      BY <2>3, LeastOf
  <2>5. FoundEntry(c) = n
    BY <1>2, <2>4, FoundEntryIs DEF len
  <2> DEFINE v == at[n][2]
  <2>6. v \in Asking(c) /\ v \in Said /\ at[n] = <<at[n][1], v>> /\ at[n][1] \in 1..runs
    BY <1>5, <1>7, <2>4
  <2>7. ASSUME NEW x \in Asking(c)
        PROVE  x = v \/ Before(v, x)
    <3>1. PICK m \in I : at[m] = <<1, x>>
      BY <2>2
    <3>2. CASE m = n
      BY <3>1, <3>2
    <3>3. CASE n < m
      <4>1. Sooner(at[n], at[m])
        BY <1>3, <2>4, <3>1, <3>3 DEF EntriesAt, len
      <4>2. at[m][1] = 1 /\ at[m][2] = x /\ at[n][1] \in 1..runs
        BY <2>6, <3>1
      <4>3. ~(at[n][1] < 1)
        BY <1>2, <4>2
      <4> QED
        BY <4>1, <4>2, <4>3 DEF Sooner
    <3>4. m = n \/ n < m
      BY <1>2, <2>4
    <3> QED
      BY <3>2, <3>3, <3>4
  <2> HIDE DEF v
  <2>8. ASSUME NEW y \in Asking(c), \A x \in Asking(c) : x = y \/ Before(y, x)
        PROVE  y = v
    <3>1. y \in Said /\ v \in Said
      BY <2>6 DEF Asking
    <3>2. y[1] \in Nat /\ y[2] \in Nat /\ v[1] \in Nat /\ v[2] \in Nat
      BY <1>6, <3>1
    <3>3. ~(Before(v, y) /\ Before(y, v))
      BY <3>2 DEF Before
    <3> QED
      BY <2>6, <2>7, <2>8, <3>3
  <2>9. First(c) = LineAt(v)
    <3>1. v = CHOOSE w \in Asking(c) : \A x \in Asking(c) : x = w \/ Before(w, x)
      BY <2>6, <2>7, <2>8
    <3> QED
      BY <3>1 DEF First
  <2>10. ParsedAnnotations[n] = parseAnnotationEntry(LineAt(v))
    BY <1>3, <2>4 DEF EntriesAt, len, v
  <2> QED
    BY <1>6, <2>4, <2>5, <2>6, <2>9, <2>10
<1> QED
  BY <1>8, <1>9 DEF len

-----------------------------------------------------------------------------
(* What has been read. *)

LEMMA EntriesKept ==
    ASSUME SelectionInv, phase \in {"library"} \cup Reading \cup Visiting,
           p' = p, ParsedAnnotations' = ParsedAnnotations, Reads' = Reads
    PROVE  EntryInv'
<1>1. PICK at : EntriesAt(at)
  BY DEF SelectionInv, EntryInv
<1>2. \A w : LineAt(w)' = LineAt(w)
  BY DEF LineAt
<1>3. EntriesAt(at)'
  BY <1>1, <1>2 DEF EntriesAt
<1> QED
  BY <1>3 DEF EntryInv

LEMMA SaidKept == p' = p => Said' = Said
BY DEF Said

LEMMA FileHere ==
    ASSUME SelectionInv, phase = "lines"
    PROVE  /\ p \in Programs /\ next \in 1..Len(p.files) /\ file \in File /\ file = p.files[next]
           /\ Len(file.lines) \in Nat /\ DOMAIN file.lines = 1..Len(file.lines)
           /\ line \in 0..Len(file.lines)
           /\ \A k \in 1..line : file.lines[k].kind \in {"blank", "entry"}
           /\ \A w \in Said : w[1] = next => /\ w[2] \in 1..Len(file.lines) /\ file.lines[w[2]].kind = "entry"
                                             /\ \A j \in 1..w[2] : file.lines[j].kind \in {"blank", "entry"}
<1>1. p \in Programs /\ next \in 1..Len(p.files)
  BY DEF SelectionInv, TypeOK, FileInv
<1>2. file \in File /\ file = p.files[next]
  BY <1>1, ProgramFields DEF file
<1>3. \A w \in Said : w[1] = next => /\ w[2] \in 1..Len(file.lines) /\ file.lines[w[2]].kind = "entry"
                                     /\ \A j \in 1..w[2] : file.lines[j].kind \in {"blank", "entry"}
  BY <1>1, <1>2, SaidIs DEF LineAt
<1> QED
  BY <1>1, <1>2, <1>3, FileFields DEF SelectionInv, FileInv

LEMMA MarkedKept ==
    ASSUME p' = p
    PROVE  \A c : Marked(c)' = Marked(c)
<1>1. \A c : Asking(c)' = Asking(c)
  BY SaidKept DEF Asking, LineAt
<1>2. \A c : First(c)' = First(c)
  BY <1>1 DEF First, LineAt
<1> QED
  BY <1>1, <1>2 DEF Marked

LEMMA Counted ==
    ASSUME NEW n \in Nat
    PROVE  /\ LibraryOf(0) = {} /\ AnnotatedOf(0) = {}
           /\ LibraryOf(n + 1) = LibraryOf(n) \cup (IF IsScaleCall(p.calls[n + 1]) THEN {Operands(p.calls[n + 1])[2]} ELSE {})
           /\ AnnotatedOf(n + 1) = AnnotatedOf(n) \cup Marked(p.calls[n + 1])
<1>1. 1..0 = {} /\ 1..(n + 1) = (1..n) \cup {n + 1}
  OBVIOUS
<1>2. LibraryOf(0) = {} /\ AnnotatedOf(0) = {}
  BY <1>1 DEF LibraryOf, AnnotatedOf
<1>3. LibraryOf(n + 1) = LibraryOf(n) \cup (IF IsScaleCall(p.calls[n + 1]) THEN {Operands(p.calls[n + 1])[2]} ELSE {})
  BY <1>1 DEF LibraryOf
<1>4. AnnotatedOf(n + 1) = AnnotatedOf(n) \cup Marked(p.calls[n + 1])
  BY <1>1 DEF AnnotatedOf
<1> QED
  BY <1>2, <1>3, <1>4

-----------------------------------------------------------------------------
(* The steps. *)

LEMMA InitSelection == Init => SelectionInv
<1> SUFFICES ASSUME Init
             PROVE  SelectionInv
  OBVIOUS
<1>1. TypeOK
  BY MaxRunsAssumption DEF Init, TypeOK, Phase
<1>2. CallInv
  <2>1. Len(p.calls) \in Nat
    BY ProgramFields DEF Init
  <2>2. LibraryOf(0) = {} /\ 1 - 1 = 0
    BY Counted
  <2> QED
    BY <2>1, <2>2 DEF Init, CallInv, Reading, Visiting
<1>3. FileInv
  BY DEF Init, FileInv, Reading, FailsForReason
<1>4. EntryInv
  <2>1. Reads = {}
    BY DEF Init, Reads, Reading, Visiting
  <2>2. Len(ParsedAnnotations) = 0 /\ 1..0 = {}
    BY DEF Init
  <2>3. EntriesAt([n \in {} |-> n])
    BY <2>1, <2>2 DEF EntriesAt
  <2> QED
    BY <2>3 DEF EntryInv
<1> QED
  BY <1>1, <1>2, <1>3, <1>4 DEF SelectionInv

LEMMA OfKept ==
    ASSUME p' = p
    PROVE  \A n : LibraryOf(n)' = LibraryOf(n) /\ AnnotatedOf(n)' = AnnotatedOf(n)
BY MarkedKept DEF LibraryOf, AnnotatedOf

LEMMA OfNext ==
    ASSUME p' = p, next \in Nat \ {0}, next' = next + 1
    PROVE  LibraryOf(next - 1)' = LibraryOf(next) /\ AnnotatedOf(next - 1)' = AnnotatedOf(next)
<1>1. next' - 1 = next
  OBVIOUS
<1>2. LibraryOf(next - 1)' = LibraryOf(next)
  BY <1>1 DEF LibraryOf
<1>3. AnnotatedOf(next - 1)' = AnnotatedOf(next)
  BY <1>1, MarkedKept DEF AnnotatedOf
<1> QED
  BY <1>2, <1>3

LEMMA LibraryStep ==
    ASSUME SelectionInv, findMPIScaleVariables
    PROVE  SelectionInv'
<1> DEFINE c == p.calls[next]
<1>1. /\ p \in Programs /\ phase = "library" /\ next \in Nat \ {0} /\ next <= Len(p.calls) /\ library \subseteq Value
      /\ TypeOK
  BY DEF SelectionInv, TypeOK, findMPIScaleVariables
<1>2. Len(p.calls) \in Nat /\ c \in Call
  BY <1>1, ProgramFields
<1>3. Len(c.args) \in Nat /\ Len(Operands(c)) = Len(c.args) + 1
      /\ \A i \in 1..(Len(c.args) + 1) : Operands(c)[i] \in Value
  BY <1>2, CallFields
<1>4. p' = p /\ next' = next + 1 /\ UNCHANGED <<line, ParsedAnnotations, Annotated, runs>>
  BY DEF findMPIScaleVariables
<1>5. \/ phase' = "undefined" /\ library' = library
      \/ /\ phase' = phase /\ library' = library \cup (IF IsScaleCall(c) THEN {Operands(c)[2]} ELSE {})
         /\ IsScaleCall(c) => Operands(c)[2] \in Value
  <2>1. CASE IsScaleCall(c) /\ Len(Operands(c)) < 2
    BY <2>1 DEF findMPIScaleVariables
  <2>2. CASE ~(IsScaleCall(c) /\ Len(Operands(c)) < 2)
    <3>1. IsScaleCall(c) => Operands(c)[2] \in Value
      BY <1>3, <2>2
    <3> QED
      BY <2>2, <3>1 DEF findMPIScaleVariables
  <2> QED
    BY <2>1, <2>2
<1>6. library = LibraryOf(next - 1) /\ runs = 1 /\ ParsedAnnotations = <<>> /\ Annotated = {}
  BY <1>1 DEF SelectionInv, CallInv
<1> HIDE DEF c
<1>7. TypeOK'
  BY <1>1, <1>4, <1>5 DEF TypeOK, Phase
<1>8. phase' = "library" => library' = LibraryOf(next - 1)'
  <2>1. next - 1 \in Nat /\ (next - 1) + 1 = next
    BY <1>1
  <2>2. LibraryOf(next) = LibraryOf(next - 1) \cup (IF IsScaleCall(c) THEN {Operands(c)[2]} ELSE {})
    BY <2>1, Counted DEF c
  <2>3. LibraryOf(next - 1)' = LibraryOf(next)
    BY <1>1, <1>4, OfNext
  <2> QED
    BY <1>5, <1>6, <2>2, <2>3
<1>9. CallInv'
  <2>1. next' \in 1..(Len(p.calls) + 1)'
    BY <1>1, <1>2, <1>4
  <2>2. phase' \in {"library", "undefined"}
    BY <1>1, <1>5
  <2> QED
    BY <1>4, <1>6, <1>8, <2>1, <2>2 DEF CallInv, Reading, Visiting
<1>10. FileInv'
  BY <1>1, <1>5 DEF FileInv, FailsForReason, Reading
<1>11. EntryInv'
  <2>1. CASE phase' = "undefined"
    BY <2>1 DEF EntryInv, Reading, Visiting
  <2>2. CASE phase' = "library"
    <3>1. Reads = {}
      BY <1>1, <1>6 DEF Reads, Reading, Visiting
    <3>2. Reads' = {}
      BY <1>4, <1>6, <2>2 DEF Reads, Reading, Visiting
    <3> QED
      BY <1>1, <1>4, <3>1, <3>2, EntriesKept
  <2> QED
    BY <1>1, <1>5, <2>1, <2>2
<1> QED
  BY <1>7, <1>9, <1>10, <1>11 DEF SelectionInv

LEMMA EndLibraryStep ==
    ASSUME SelectionInv, EndLibrary
    PROVE  SelectionInv'
<1>1. /\ p \in Programs /\ phase = "library" /\ next > Len(p.calls) /\ TypeOK
      /\ next \in 1..(Len(p.calls) + 1) /\ library = LibraryOf(next - 1)
      /\ runs = 1 /\ ParsedAnnotations = <<>> /\ Annotated = {}
  BY DEF SelectionInv, TypeOK, CallInv, EndLibrary
<1>2. /\ p' = p /\ phase' = "files" /\ next' = 1
      /\ UNCHANGED <<line, ParsedAnnotations, library, Annotated, runs>>
  BY DEF EndLibrary
<1>3. Len(p.calls) \in Nat /\ Len(p.files) \in Nat
  BY <1>1, ProgramFields
<1>4. next - 1 = Len(p.calls)
  BY <1>1, <1>3
<1>5. TypeOK'
  BY <1>1, <1>2 DEF TypeOK, Phase
<1>6. CallInv'
  <2>1. LibraryOf(Len(p.calls))' = LibraryOf(Len(p.calls))
    BY <1>2 DEF LibraryOf
  <2> QED
    BY <1>1, <1>2, <1>4, <2>1 DEF CallInv, Reading, Visiting
<1>7. FileInv'
  <2>1. next' \in 1..(Len(p.files) + 1)' /\ 1..(next - 1)' = {}
    BY <1>2, <1>3
  <2> QED
    BY <1>2, <2>1 DEF FileInv, FailsForReason, Reading
<1>8. EntryInv'
  <2>1. Reads = {}
    BY <1>1 DEF Reads, Reading, Visiting
  <2>2. \A w \in Said : w[1] \in Nat /\ ~(w[1] < 1)
    BY <1>1, <1>3, SaidIs
  <2>3. Said' = Said
    BY <1>2, SaidKept
  <2>4. Reads' = {}
    BY <1>1, <1>2, <2>2, <2>3 DEF Reads, Reading, Visiting
  <2> QED
    BY <1>1, <1>2, <2>1, <2>4, EntriesKept
<1> QED
  BY <1>5, <1>6, <1>7, <1>8 DEF SelectionInv

(* What the steps through the files leave alone. *)
LEMMA FilesKeep ==
    ASSUME CallInv, phase \in Reading, phase' \in Reading \cup {"fatal", "thrown"},
           p' = p, library' = library, Annotated' = Annotated
    PROVE  CallInv'
<1>1. LibraryOf(Len(p.calls))' = LibraryOf(Len(p.calls))
  BY DEF LibraryOf
<1> QED
  BY <1>1 DEF CallInv, Reading, Visiting

LEMMA OpenFileStep ==
    ASSUME SelectionInv, OpenFile
    PROVE  SelectionInv'
<1>1. p \in Programs /\ phase = "files" /\ next \in Nat \ {0} /\ next <= Len(p.files) /\ TypeOK /\ CallInv
      /\ \A i \in 1..(next - 1) : GoodFile(p.files[i])
  BY DEF SelectionInv, TypeOK, FileInv, Reading, OpenFile
<1>2. /\ p' = p /\ line' = 0 /\ UNCHANGED <<next, ParsedAnnotations, library, Annotated, runs>>
      /\ \/ phase' = "lines" /\ file.opens
         \/ phase' = "fatal" /\ ~file.opens
  BY DEF OpenFile, file
<1>3. Len(p.files) \in Nat /\ next \in 1..Len(p.files) /\ file = p.files[next] /\ file \in File
  BY <1>1, ProgramFields DEF file
<1>4. Len(file.lines) \in Nat
  BY <1>3, FileFields
<1>5. TypeOK'
  BY <1>1, <1>2 DEF TypeOK, Phase
<1>6. CallInv'
  BY <1>1, <1>2, FilesKeep DEF Reading
<1>7. FileInv'
  <2>1. file' = file
    BY <1>2 DEF file
  <2>2. CASE phase' = "lines"
    <3>1. FailsForReason'
      BY <2>2 DEF FailsForReason
    <3>2. 1..line' = {}
      BY <1>2
    <3>3. line' \in 0..Len(file.lines)
      BY <1>2, <1>4
    <3>4. next' \in 1..Len(p.files)' /\ next' \in 1..(Len(p.files) + 1)'
      BY <1>2, <1>3
    <3>5. (\A i \in 1..(next - 1) : GoodFile(p.files[i]))'
      BY <1>1, <1>2
    <3> QED
      BY <1>2, <2>1, <2>2, <3>1, <3>2, <3>3, <3>4, <3>5 DEF FileInv
  <2>3. CASE phase' = "fatal"
    <3>1. file \in ToSet(p.files)
      BY <1>1, <1>3, ProgramFields DEF ToSet
    <3> QED
      BY <1>2, <2>3, <3>1 DEF FileInv, FailsForReason, Reading
  <2> QED
    BY <1>2, <2>2, <2>3
<1>8. EntryInv'
  <2>1. CASE phase' = "fatal"
    BY <2>1 DEF EntryInv, Reading, Visiting
  <2>2. CASE phase' = "lines"
    <3>1. \A w \in Said : w[2] \in Nat /\ ~(w[2] <= 0)
      <4>1. \A w \in Said : w[1] \in 1..Len(p.files) /\ w[2] \in 1..Len(p.files[w[1]].lines)
        BY <1>1, SaidIs
      <4>2. \A i \in 1..Len(p.files) : Len(p.files[i].lines) \in Nat
        BY <1>1, ProgramFields, FileFields
      <4> QED
        BY <4>1, <4>2
    <3>2. Said' = Said
      BY <1>2, SaidKept
    <3>3. Reads' = Reads
      BY <1>1, <1>2, <2>2, <3>1, <3>2 DEF Reads, Reading, Visiting
    <3> QED
      BY <1>1, <1>2, <3>3, EntriesKept DEF Reading
  <2> QED
    BY <1>2, <2>1, <2>2
<1> QED
  BY <1>5, <1>6, <1>7, <1>8 DEF SelectionInv

LEMMA EndFilesStep ==
    ASSUME SelectionInv, EndFiles
    PROVE  SelectionInv'
<1>1. /\ p \in Programs /\ phase = "files" /\ next \in 1..(Len(p.files) + 1) /\ next > Len(p.files)
      /\ TypeOK /\ CallInv /\ \A i \in 1..(next - 1) : GoodFile(p.files[i])
  BY DEF SelectionInv, TypeOK, FileInv, Reading, EndFiles
<1>2. /\ p' = p /\ phase' = "calls" /\ next' = 1
      /\ UNCHANGED <<line, ParsedAnnotations, library, Annotated, runs>>
  BY DEF EndFiles
<1>3. Len(p.files) \in Nat /\ Len(p.calls) \in Nat /\ DOMAIN p.files = 1..Len(p.files)
  BY <1>1, ProgramFields
<1>4. next - 1 = Len(p.files)
  BY <1>1, <1>3
<1>5. TypeOK'
  BY <1>1, <1>2 DEF TypeOK, Phase
<1>6. CallInv'
  <2>1. LibraryOf(Len(p.calls))' = LibraryOf(Len(p.calls))
    BY <1>2 DEF LibraryOf
  <2>2. AnnotatedOf(next - 1)' = {}
    <3>1. next' - 1 = 0 /\ 1..0 = {}
      BY <1>2
    <3> QED
      BY <3>1 DEF AnnotatedOf
  <2>3. next' \in 1..(Len(p.calls) + 1)'
    BY <1>2, <1>3
  <2> QED
    BY <1>1, <1>2, <2>1, <2>2, <2>3 DEF CallInv, Reading, Visiting
<1>7. FileInv'
  <2>1. \A i \in DOMAIN p.files : GoodFile(p.files[i])
    BY <1>1, <1>3, <1>4
  <2> QED
    BY <1>2, <2>1 DEF FileInv, FailsForReason, Reading, GoodFile
<1>8. EntryInv'
  <2>1. \A w \in Said : w[1] < next
    <3>1. \A w \in Said : w[1] \in 1..Len(p.files)
      BY <1>1, SaidIs
    <3> QED
      BY <1>1, <1>3, <3>1
  <2>2. Said' = Said
    BY <1>2, SaidKept
  <2>3. Reads' = Reads
    BY <1>1, <1>2, <2>1, <2>2 DEF Reads, Reading, Visiting
  <2> QED
    BY <1>1, <1>2, <2>3, EntriesKept DEF Reading
<1> QED
  BY <1>5, <1>6, <1>7, <1>8 DEF SelectionInv

(* Reading goes on in the same file, past a line that is blank or an entry. *)
LEMMA ReadOn ==
    ASSUME SelectionInv, AtLine({"blank"}) \/ AtLine({"entry"}), line' = line + 1,
           UNCHANGED <<p, phase, next, library, Annotated, runs>>,
           ParsedAnnotations' \in Seq(Entry)
    PROVE  TypeOK' /\ CallInv' /\ FileInv'
<1>1. TypeOK /\ CallInv /\ FileInv /\ phase = "lines"
  BY DEF SelectionInv, AtLine
<1>2. line < Len(file.lines) /\ file.lines[line + 1].kind \in {"blank", "entry"}
  BY DEF AtLine, ThisLine
<1>3. /\ Len(file.lines) \in Nat /\ line \in 0..Len(file.lines)
      /\ \A k \in 1..line : file.lines[k].kind \in {"blank", "entry"}
  BY <1>1, FileHere
<1>4. TypeOK'
  BY <1>1 DEF TypeOK
<1>5. CallInv'
  BY <1>1, FilesKeep DEF Reading
<1>6. FileInv'
  <2>1. file' = file
    BY DEF file
  <2>2. line' \in 0..Len(file.lines) /\ \A k \in 1..line' : file.lines[k].kind \in {"blank", "entry"}
    BY <1>2, <1>3
  <2>3. FailsForReason'
    BY <1>1 DEF FailsForReason
  <2>4. (\A i \in 1..(next - 1) : GoodFile(p.files[i]))'
    BY <1>1 DEF FileInv, Reading
  <2> QED
    BY <1>1, <2>1, <2>2, <2>3, <2>4 DEF FileInv, Reading
<1> QED
  BY <1>4, <1>5, <1>6

LEMMA ReadBlankStep ==
    ASSUME SelectionInv, ReadBlank
    PROVE  SelectionInv'
<1>1. /\ AtLine({"blank"}) /\ line' = line + 1
      /\ UNCHANGED <<p, phase, next, ParsedAnnotations, library, Annotated, runs>>
  BY DEF ReadBlank
<1>2. ParsedAnnotations' \in Seq(Entry)
  BY <1>1 DEF SelectionInv, TypeOK
<1>3. TypeOK' /\ CallInv' /\ FileInv'
  BY <1>1, <1>2, ReadOn
<1>4. EntryInv'
  <2>1. phase = "lines" /\ line < Len(file.lines) /\ file.lines[line + 1].kind = "blank"
    BY <1>1 DEF AtLine, ThisLine
  <2>2. \A w \in Said : w[1] = next => w[2] \in 1..Len(file.lines) /\ w[2] # line + 1
    BY <2>1, FileHere
  <2>3. Len(file.lines) \in Nat /\ line \in 0..Len(file.lines)
    BY <2>1, FileHere
  <2>4. \A w \in Said : w[1] = next => (w[2] <= line <=> w[2] <= line + 1)
    BY <2>2, <2>3
  <2>5. Said' = Said
    BY <1>1, SaidKept
  <2>6. Reads' = Reads
    BY <1>1, <2>1, <2>4, <2>5 DEF Reads, Reading, Visiting
  <2> QED
    BY <1>1, <2>1, <2>6, EntriesKept DEF Reading
<1> QED
  BY <1>3, <1>4 DEF SelectionInv

(* The entry of a line comes after those of all the places read before. *)
LEMMA ReadEntryStep ==
    ASSUME SelectionInv, ReadEntry
    PROVE  SelectionInv'
<1> DEFINE len == Len(ParsedAnnotations)
           w == <<next, line + 1>>
           new == <<runs, w>>
<1>1. /\ AtLine({"entry"}) /\ line' = line + 1
      /\ ParsedAnnotations' = Append(ParsedAnnotations, parseAnnotationEntry(ThisLine))
      /\ UNCHANGED <<p, phase, next, library, Annotated, runs>>
  BY DEF ReadEntry
<1>2. phase = "lines" /\ line < Len(file.lines) /\ ThisLine = file.lines[line + 1] /\ ThisLine.kind = "entry"
  BY <1>1 DEF AtLine, ThisLine
<1>3. /\ p \in Programs /\ next \in 1..Len(p.files) /\ file \in File /\ file = p.files[next]
      /\ Len(file.lines) \in Nat /\ line \in 0..Len(file.lines)
      /\ \A k \in 1..line : file.lines[k].kind \in {"blank", "entry"}
  BY <1>2, FileHere
<1>4. Len(p.files) \in Nat /\ line + 1 \in 1..Len(file.lines) /\ next \in Nat
  BY <1>2, <1>3, ProgramFields
<1>5. ThisLine \in LineType
  BY <1>2, <1>3, <1>4, FileFields
<1>6. /\ ParsedAnnotations \in Seq(Entry) /\ runs \in 1..MaxRuns
      /\ parseAnnotationEntry(ThisLine) \in Entry
  BY <1>5, EntryOf DEF SelectionInv, TypeOK
<1>7. TypeOK' /\ CallInv' /\ FileInv'
  <2>1. ParsedAnnotations' \in Seq(Entry)
    BY <1>1, <1>6
  <2> QED
    BY <1>1, <2>1, ReadOn
<1>8. len \in Nat /\ Len(ParsedAnnotations') = len + 1 /\ runs \in Nat \ {0}
      /\ ParsedAnnotations'[len + 1] = parseAnnotationEntry(ThisLine)
      /\ \A n \in 1..len : ParsedAnnotations'[n] = ParsedAnnotations[n]
  BY <1>1, <1>6, MaxRunsAssumption
<1>9. w \in Said /\ LineAt(w) = ThisLine /\ w[1] = next /\ w[2] = line + 1
  <2>1. \A j \in 1..(line + 1) : file.lines[j].kind \in {"blank", "entry"}
    BY <1>2, <1>3
  <2>2. w \in Said
    BY <1>2, <1>3, <1>4, <2>1, SaidIs
  <2> QED
    BY <1>2, <1>3, <2>2 DEF LineAt
<1>10. \A x \in (1..runs) \X Said : /\ x[1] \in Nat /\ x[1] <= runs /\ x[2] \in Said /\ x = <<x[1], x[2]>>
                                    /\ x[2] = <<x[2][1], x[2][2]>> /\ x[2][1] \in Nat
                                    /\ x[2][1] = next => x[2][2] \in Nat
  BY <1>3, <1>8, SaidIs, FileHere, <1>2
<1> HIDE DEF w, len
<1>11. Said' = Said
  BY <1>1, SaidKept
<1>12. Reads' = Reads \cup {new} /\ new \notin Reads
  <2>1. new \in (1..runs) \X Said /\ new[1] = runs /\ new[2] = w
    BY <1>8, <1>9
  <2>2. \A x \in (1..runs) \X Said :
           (x[2][1] = next /\ x[2][2] <= line + 1) => ((x[2][1] = next /\ x[2][2] <= line) \/ x[2] = w)
    BY <1>3, <1>10 DEF w
  <2>3. \A x \in (1..runs) \X Said : x[2] = w => x[1] < runs \/ x = new
    BY <1>8, <1>10
  <2>4. \A x \in (1..runs) \X Said :
           x \in Reads <=> x[1] < runs \/ x[2][1] < next \/ (x[2][1] = next /\ x[2][2] <= line)
    BY <1>2 DEF Reads, Reading, Visiting
  <2>5. Reads' = {x \in (1..runs) \X Said :
                     x[1] < runs \/ x[2][1] < next \/ (x[2][1] = next /\ x[2][2] <= line + 1)}
    BY <1>1, <1>2, <1>11 DEF Reads, Reading, Visiting
  <2>6. ~(runs < runs) /\ ~(next < next) /\ ~(line + 1 <= line) /\ line + 1 <= line + 1
    BY <1>3, <1>4, <1>8
  <2>7. new \notin Reads
    BY <1>9, <2>1, <2>4, <2>6
  <2>8. \A x \in (1..runs) \X Said : x[2][1] = next /\ x[2][2] <= line => x[2][2] <= line + 1
    BY <1>3, <1>10
  <2>9. \A x \in (1..runs) \X Said : x \in Reads' <=> x \in Reads \/ x = new
    <3> HIDE DEF new
    <3> SUFFICES ASSUME NEW x \in (1..runs) \X Said
                 PROVE  x \in Reads' <=> x \in Reads \/ x = new
      OBVIOUS
    <3>1. x \in Reads' <=> x[1] < runs \/ x[2][1] < next \/ (x[2][1] = next /\ x[2][2] <= line + 1)
      BY <2>5
    <3>2. x = new => x[2] = w
      BY <2>1
    <3> QED
      BY <1>9, <2>2, <2>3, <2>4, <2>6, <2>8, <3>1, <3>2
  <2>10. Reads \subseteq (1..runs) \X Said /\ Reads' \subseteq (1..runs) \X Said
    BY <2>5 DEF Reads
  <2> HIDE DEF new
  <2> QED
    BY <2>1, <2>7, <2>9, <2>10
<1>13. \A x \in Reads : Sooner(x, new)
  <2>1. \A x \in Reads : /\ x \in (1..runs) \X Said
                         /\ x[1] < runs \/ x[2][1] < next \/ (x[2][1] = next /\ x[2][2] <= line)
    BY <1>2 DEF Reads, Reading, Visiting
  <2>2. new[1] = runs /\ new[2] = w
    OBVIOUS
  <2> HIDE DEF new
  <2> SUFFICES ASSUME NEW x \in Reads
               PROVE  x[1] < runs \/ (x[1] = runs /\ Before(x[2], w))
    BY <2>2 DEF Sooner
  <2>3. x \in (1..runs) \X Said /\ x[1] \in Nat /\ x[1] <= runs
    BY <1>10, <2>1
  <2>4. x[1] < runs \/ x[1] = runs
    BY <1>8, <2>3
  <2>5. CASE x[2][1] < next
    BY <1>9, <2>4, <2>5 DEF Before
  <2>6. CASE x[2][1] = next /\ x[2][2] <= line
    <3>1. x[2][2] \in Nat /\ x[2][2] < line + 1
      BY <1>3, <1>10, <2>3, <2>6
    <3> QED
      BY <1>9, <2>4, <2>6, <3>1 DEF Before
  <2> QED
    BY <2>1, <2>5, <2>6
<1> HIDE DEF new
<1>14. EntryInv'
  <2>1. PICK at : EntriesAt(at)
    BY <1>2 DEF SelectionInv, EntryInv, Reading
  <2>2. /\ at \in [1..len -> Reads]
        /\ \A x \in Reads : \E n \in 1..len : at[n] = x
        /\ \A n, m \in 1..len : n < m => Sooner(at[n], at[m])
        /\ \A n \in 1..len : ParsedAnnotations[n] = parseAnnotationEntry(LineAt(at[n][2]))
    BY <2>1 DEF EntriesAt, len
  <2> DEFINE at2 == [n \in 1..(len + 1) |-> IF n = len + 1 THEN new ELSE at[n]]
  <2>3. /\ \A n \in 1..len : at2[n] = at[n] /\ n # len + 1 /\ n \in 1..(len + 1)
        /\ at2[len + 1] = new /\ len + 1 \in 1..(len + 1)
        /\ \A n \in 1..(len + 1) : n \in 1..len \/ n = len + 1
    BY <1>8
  <2>4. at2 \in [1..(len + 1) -> Reads \cup {new}]
    BY <2>2, <2>3
  <2> HIDE DEF at2
  <2>5. \A x \in Reads \cup {new} : \E n \in 1..(len + 1) : at2[n] = x
    BY <2>2, <2>3
  <2>6. \A n, m \in 1..(len + 1) : n < m => Sooner(at2[n], at2[m])
    <3> SUFFICES ASSUME NEW n \in 1..(len + 1), NEW m \in 1..(len + 1), n < m
                 PROVE  Sooner(at2[n], at2[m])
      OBVIOUS
    <3>1. n \in 1..len
      BY <1>8
    <3>2. CASE m \in 1..len
      BY <2>2, <2>3, <3>1, <3>2
    <3>3. CASE m = len + 1
      BY <1>13, <2>2, <2>3, <3>1, <3>3
    <3> QED
      BY <2>3, <3>2, <3>3
  <2>7. \A n \in 1..(len + 1) : ParsedAnnotations'[n] = parseAnnotationEntry(LineAt(at2[n][2]))
    <3>1. new[2] = w
      BY DEF new
    <3> SUFFICES ASSUME NEW n \in 1..(len + 1)
                 PROVE  ParsedAnnotations'[n] = parseAnnotationEntry(LineAt(at2[n][2]))
      OBVIOUS
    <3>2. CASE n \in 1..len
      BY <1>8, <2>2, <2>3, <3>2
    <3>3. CASE n = len + 1
      BY <1>8, <1>9, <2>3, <3>1, <3>3
    <3> QED
      BY <2>3, <3>2, <3>3
  <2>8. PICK f : f = at2
    OBVIOUS
  <2>9. \A v : LineAt(v)' = LineAt(v)
    BY <1>1 DEF LineAt
  <2>10. EntriesAt(f)'
    <3>1. f \in [1..Len(ParsedAnnotations') -> Reads']
      BY <1>8, <1>12, <2>4, <2>8
    <3>2. \A x \in Reads' : \E n \in 1..Len(ParsedAnnotations') : f[n] = x
      BY <1>8, <1>12, <2>5, <2>8
    <3>3. \A n, m \in 1..Len(ParsedAnnotations') : n < m => Sooner(f[n], f[m])
      BY <1>8, <2>6, <2>8
    <3>4. \A n \in 1..Len(ParsedAnnotations') : ParsedAnnotations'[n] = parseAnnotationEntry(LineAt(f[n][2]))
      BY <1>8, <2>7, <2>8
    <3> QED
      BY <2>9, <3>1, <3>2, <3>3, <3>4 DEF EntriesAt
  <2> QED
    BY <2>10 DEF EntryInv
<1> QED
  BY <1>7, <1>14 DEF SelectionInv

(* A file that has been read is good, and nothing of it is left to read. *)
LEMMA FileDone ==
    ASSUME SelectionInv, phase = "lines",
           phase' = "files", next' = next + 1,
           UNCHANGED <<p, line, ParsedAnnotations, library, Annotated, runs>>,
           GoodFile(file),
           \A w \in Said : w[1] = next => w[2] <= line
    PROVE  SelectionInv'
<1>1. TypeOK /\ CallInv /\ FileInv
  BY DEF SelectionInv
<1>2. p \in Programs /\ next \in 1..Len(p.files) /\ file = p.files[next]
  BY FileHere
<1>3. Len(p.files) \in Nat
  BY <1>2, ProgramFields
<1>4. TypeOK'
  BY <1>1 DEF TypeOK, Phase
<1>5. CallInv'
  BY <1>1, FilesKeep DEF Reading
<1>6. FileInv'
  <2>1. next' \in 1..(Len(p.files) + 1)'
    BY <1>2, <1>3
  <2>2. \A i \in 1..(next' - 1) : GoodFile(p.files[i])
    <3>1. \A i \in 1..(next' - 1) : i \in 1..(next - 1) \/ i = next
      BY <1>2, <1>3
    <3> QED
      BY <1>1, <1>2, <3>1 DEF FileInv, Reading
  <2> QED
    BY <2>1, <2>2 DEF FileInv, FailsForReason, Reading
<1>7. EntryInv'
  <2>1. \A w \in Said : w[1] \in Nat
    BY <1>2, <1>3, SaidIs
  <2>2. \A w \in Said : w[1] < next + 1 <=> w[1] < next \/ (w[1] = next /\ w[2] <= line)
    BY <1>2, <1>3, <2>1
  <2>3. Said' = Said
    BY SaidKept
  <2>4. Reads' = Reads
    BY <2>2, <2>3 DEF Reads, Reading, Visiting
  <2> QED
    BY <2>4, EntriesKept DEF Reading
<1> QED
  BY <1>4, <1>5, <1>6, <1>7 DEF SelectionInv

LEMMA EndFileStep ==
    ASSUME SelectionInv, EndFile
    PROVE  SelectionInv'
<1>1. /\ phase = "lines" /\ line = Len(file.lines) /\ phase' = "files" /\ next' = next + 1
      /\ UNCHANGED <<p, line, ParsedAnnotations, library, Annotated, runs>>
  BY DEF EndFile
<1>2. GoodFile(file)
  <2>1. file.opens /\ \A k \in DOMAIN file.lines : file.lines[k].kind \in {"blank", "entry"}
    BY <1>1, FileHere DEF SelectionInv, FileInv
  <2> QED
    BY <2>1 DEF GoodFile
<1>3. \A w \in Said : w[1] = next => w[2] <= line
  BY <1>1, FileHere
<1> QED
  BY <1>1, <1>2, <1>3, FileDone

(* The first bad line: as the last line, with no newline, it ends the file. *)
LEMMA ReadBadStep ==
    ASSUME SelectionInv, ReadBad
    PROVE  SelectionInv'
<1>1. /\ AtLine({"bad"}) /\ UNCHANGED <<p, line, ParsedAnnotations, library, Annotated, runs>>
      /\ \/ AtEof /\ phase' = "files" /\ next' = next + 1
         \/ ~AtEof /\ phase' = "fatal" /\ next' = next
  BY DEF ReadBad
<1>2. phase = "lines" /\ line < Len(file.lines) /\ file.lines[line + 1].kind = "bad"
  BY <1>1 DEF AtLine, ThisLine
<1>3. /\ p \in Programs /\ next \in 1..Len(p.files) /\ file \in File /\ file = p.files[next]
      /\ Len(file.lines) \in Nat /\ line \in 0..Len(file.lines) /\ DOMAIN file.lines = 1..Len(file.lines)
      /\ \A k \in 1..line : file.lines[k].kind \in {"blank", "entry"}
  BY <1>2, FileHere
<1>4. CASE AtEof /\ phase' = "files" /\ next' = next + 1
  <2>1. GoodFile(file)
    <3>1. file.opens
      BY <1>2 DEF SelectionInv, FileInv
    <3>2. line + 1 = Len(file.lines) /\ ~file.newline
      BY <1>4 DEF AtEof
    <3>3. \A k \in 1..Len(file.lines) : k \in 1..line \/ k = line + 1
      BY <1>3, <3>2
    <3> QED
      BY <1>2, <1>3, <3>1, <3>2, <3>3 DEF GoodFile
  <2>2. ASSUME NEW w \in Said, w[1] = next
        PROVE  w[2] <= line
    <3>1. w[2] \in 1..Len(file.lines) /\ \A j \in 1..w[2] : file.lines[j].kind \in {"blank", "entry"}
      BY <1>2, <2>2, FileHere
    <3>2. ~(line + 1 \in 1..w[2])
      BY <1>2, <3>1
    <3> QED
      BY <1>3, <3>1, <3>2
  <2> QED
    BY <1>1, <1>2, <1>4, <2>1, <2>2, FileDone
<1>5. CASE ~AtEof /\ phase' = "fatal" /\ next' = next
  <2>1. TypeOK /\ CallInv
    BY DEF SelectionInv
  <2>2. TypeOK'
    BY <1>1, <1>5, <2>1 DEF TypeOK, Phase
  <2>3. CallInv'
    BY <1>1, <1>2, <1>5, <2>1, FilesKeep DEF Reading
  <2>4. FileInv'
    <3>1. line + 1 \in 1..Len(file.lines)
      BY <1>2, <1>3
    <3>2. line + 1 < Len(file.lines) \/ file.newline
      BY <1>3, <1>5, <3>1 DEF AtEof
    <3>3. file \in ToSet(p.files)
      BY <1>3, ProgramFields DEF ToSet
    <3>4. FailsForReason'
      BY <1>1, <1>2, <1>3, <1>5, <3>1, <3>2, <3>3 DEF FailsForReason
    <3> QED
      BY <1>5, <3>4 DEF FileInv, Reading
  <2>5. EntryInv'
    BY <1>5 DEF EntryInv, Reading, Visiting
  <2> QED
    BY <2>2, <2>3, <2>4, <2>5 DEF SelectionInv
<1> QED
  BY <1>1, <1>4, <1>5

(* Where the program stops with nothing to be said of why. *)
LEMMA StoppedStep ==
    ASSUME SelectionInv, Stop("thrown") \/ Stop("undefined")
    PROVE  SelectionInv'
<1>1. TypeOK /\ phase' \in {"thrown", "undefined"}
      /\ UNCHANGED <<p, next, line, ParsedAnnotations, library, Annotated, runs>>
  BY DEF SelectionInv, Stop
<1>2. TypeOK'
  BY <1>1 DEF TypeOK, Phase
<1>3. CallInv' /\ EntryInv'
  BY <1>1 DEF CallInv, EntryInv, Reading, Visiting
<1>4. FileInv'
  BY <1>1 DEF FileInv, FailsForReason, Reading
<1> QED
  BY <1>2, <1>3, <1>4 DEF SelectionInv

-----------------------------------------------------------------------------
(* The steps through the calls. *)

LEMMA CallHere ==
    ASSUME SelectionInv, NEW c, AtCall(c)
    PROVE  /\ p \in Programs /\ phase = "calls" /\ next \in 1..Len(p.calls) /\ c = p.calls[next] /\ c \in Call
           /\ c \in ToSet(p.calls)
           /\ Annotated = AnnotatedOf(next - 1) /\ Annotated \subseteq Value
<1>1. /\ p \in Programs /\ phase = "calls" /\ next \in Nat \ {0} /\ next <= Len(p.calls) /\ c = p.calls[next]
      /\ Annotated = AnnotatedOf(next - 1) /\ Annotated \subseteq Value
  BY DEF SelectionInv, TypeOK, CallInv, AtCall, call
<1> QED
  BY <1>1, ProgramFields

LEMMA FatalStep ==
    ASSUME SelectionInv, Stop("fatal"), NEW c, AtCall(c),
           ~c.direct \/ (c.name = ManualAnnotationFnName /\ Len(c.args) # 1)
    PROVE  SelectionInv'
<1>1. TypeOK /\ phase' = "fatal"
      /\ UNCHANGED <<p, next, line, ParsedAnnotations, library, Annotated, runs>>
  BY DEF SelectionInv, Stop
<1>2. TypeOK'
  BY <1>1 DEF TypeOK, Phase
<1>3. CallInv' /\ EntryInv'
  BY <1>1 DEF CallInv, EntryInv, Reading, Visiting
<1>4. FileInv'
  <2>1. c \in ToSet(p.calls)
    BY CallHere
  <2> QED
    BY <1>1, <2>1 DEF FileInv, FailsForReason, Reading
<1> QED
  BY <1>2, <1>3, <1>4 DEF SelectionInv

LEMMA AnnotateStep ==
    ASSUME SelectionInv, NEW c, AtCall(c), NEW V, V = Marked(c), V \subseteq Value, Annotate(V)
    PROVE  SelectionInv'
<1>1. /\ p \in Programs /\ phase = "calls" /\ next \in 1..Len(p.calls) /\ c = p.calls[next]
      /\ Annotated = AnnotatedOf(next - 1) /\ Annotated \subseteq Value
  BY CallHere
<1>2. /\ Annotated' = Annotated \cup V /\ next' = next + 1
      /\ UNCHANGED <<p, phase, line, ParsedAnnotations, library, runs>>
  BY DEF Annotate
<1>3. Len(p.calls) \in Nat /\ next \in Nat \ {0} /\ TypeOK /\ CallInv /\ FileInv
  BY <1>1, ProgramFields DEF SelectionInv
<1>4. TypeOK'
  <2>1. next' \in Nat \ {0} /\ Annotated' \subseteq Value
    BY <1>1, <1>2, <1>3
  <2> QED
    BY <1>2, <1>3, <2>1 DEF TypeOK
<1>5. CallInv'
  <2>1. Annotated' = AnnotatedOf(next - 1)'
    <3>1. next - 1 \in Nat /\ (next - 1) + 1 = next
      BY <1>3
    <3>2. AnnotatedOf(next) = AnnotatedOf(next - 1) \cup Marked(p.calls[next])
      BY <3>1, Counted
    <3>3. AnnotatedOf(next - 1)' = AnnotatedOf(next)
      BY <1>2, <1>3, OfNext
    <3> QED
      BY <1>1, <1>2, <3>2, <3>3
  <2>2. next' \in 1..(Len(p.calls) + 1)'
    BY <1>1, <1>2, <1>3
  <2>3. library' = LibraryOf(Len(p.calls))'
    <3>1. library = LibraryOf(Len(p.calls))
      BY <1>1, <1>3 DEF CallInv, Visiting
    <3> QED
      BY <1>2, <3>1 DEF LibraryOf
  <2> QED
    BY <1>1, <1>2, <2>1, <2>2, <2>3 DEF CallInv, Reading
<1>6. FileInv'
  BY <1>1, <1>2, <1>3 DEF FileInv, FailsForReason, Reading
<1>7. EntryInv'
  <2>1. Said' = Said
    BY <1>2, SaidKept
  <2>2. Reads' = Reads
    BY <1>1, <1>2, <2>1 DEF Reads, Reading, Visiting
  <2> QED
    BY <1>1, <1>2, <2>2, EntriesKept DEF Visiting
<1> QED
  BY <1>4, <1>5, <1>6, <1>7 DEF SelectionInv

LEMMA DefaultStep ==
    ASSUME SelectionInv, visitDefaultAnnotationFunc
    PROVE  SelectionInv'
<1>1. PICK c \in ToSet(p.calls) :
         /\ AtCall(c) /\ c.name = ManualAnnotationFnName
         /\ \/ Annotate({Operands(c)[1]})
            \/ Len(c.args) # 1 /\ Stop("fatal")
  BY DEF visitDefaultAnnotationFunc
<1>2. CASE Annotate({Operands(c)[1]})
  <2>1. Operands(c)[1] \in Value
    <3>1. c \in Call
      BY <1>1, CallHere
    <3>2. Len(c.args) \in Nat
      BY <3>1, CallFields
    <3>3. 1 \in 1..(Len(c.args) + 1)
      BY <3>2
    <3> QED
      BY <3>1, <3>3, CallFields
  <2>2. {Operands(c)[1]} = Marked(c)
    BY <1>1 DEF Marked
  <2> QED
    BY <1>1, <1>2, <2>1, <2>2, AnnotateStep
<1>3. CASE Len(c.args) # 1 /\ Stop("fatal")
  BY <1>1, <1>3, FatalStep
<1> QED
  BY <1>1, <1>2, <1>3

LEMMA CustomStep ==
    ASSUME SelectionInv, visitCustomFunc
    PROVE  SelectionInv'
<1>1. PICK c \in ToSet(p.calls) :
         /\ AtCall(c) /\ c.name # ManualAnnotationFnName
         /\ \/ FoundEntry(c) = 0 /\ Annotate({})
            \/ /\ FoundEntry(c) # 0
               /\ IF \E i \in ToSet(ParsedAnnotations[FoundEntry(c)].fnArgs) : i >= Len(c.args)
                  THEN Stop("undefined")
                  ELSE Annotate(ArgumentsOf(ParsedAnnotations[FoundEntry(c)], c)
                                \cup (IF ParsedAnnotations[FoundEntry(c)].retVal THEN {c.inst} ELSE {}))
  BY DEF visitCustomFunc
<1>2. c \in Call /\ phase = "calls"
  BY <1>1, CallHere
<1>3. /\ c.inst \in Value /\ Len(c.args) \in Nat
      /\ \A i \in 1..Len(c.args) : c.args[i] \in Value
  BY <1>2, CallFields
<1>4. CASE FoundEntry(c) = 0 /\ Annotate({})
  <2>1. Asking(c) = {}
    <3>1. Len(ParsedAnnotations) \in Nat
      BY DEF SelectionInv, TypeOK
    <3>2. ~(FoundEntry(c) \in 1..Len(ParsedAnnotations))
      BY <1>4, <3>1
    <3> QED
      BY <1>2, <3>2, FoundIsFirst
  <2>2. {} = Marked(c)
    BY <1>1, <2>1 DEF Marked
  <2> QED
    BY <1>1, <1>4, <2>2, AnnotateStep
<1>5. CASE FoundEntry(c) # 0
  <2> DEFINE e == ParsedAnnotations[FoundEntry(c)]
  <2>1. Asking(c) # {} /\ First(c) \in LineType /\ e = parseAnnotationEntry(First(c))
    BY <1>2, <1>5, FoundIsFirst
  <2> DEFINE N == {k % UIntSize : k \in ToSet(First(c).n)}
  <2>2. e.retVal = First(c).ret /\ ToSet(e.fnArgs) = N /\ N \subseteq Nat
    BY <2>1, EntryOf
  <2>3. CASE \E i \in ToSet(e.fnArgs) : i >= Len(c.args)
    <3>1. Stop("undefined")
      BY <1>1, <1>5, <2>3
    <3> QED
      BY <3>1, StoppedStep
  <2>4. CASE ~\E i \in ToSet(e.fnArgs) : i >= Len(c.args)
    <3> DEFINE V == ArgumentsOf(e, c) \cup (IF e.retVal THEN {c.inst} ELSE {})
    <3>1. Annotate(V)
      BY <1>1, <1>5, <2>4
    <3>2. N \cap 0..(Len(c.args) - 1) = N
      <4> HIDE DEF N, e
      <4>1. \A i \in N : i \in Nat /\ ~(i >= Len(c.args))
        BY <2>2, <2>4
      <4>2. \A i \in N : i \in 0..(Len(c.args) - 1)
        BY <1>3, <4>1
      <4> QED
        BY <4>2
    <3>3. V = Wanted(First(c), c)
      <4>1. ArgumentsOf(e, c) = {c.args[k + 1] : k \in N}
        <5> HIDE DEF N, e
        <5> QED
          BY <2>2 DEF ArgumentsOf
      <4>2. Wanted(First(c), c) = {c.args[k + 1] : k \in N \cap 0..(Len(c.args) - 1)}
                                  \cup (IF First(c).ret THEN {c.inst} ELSE {})
        BY DEF Wanted
      <4> HIDE DEF N, e
      <4> QED
        BY <2>2, <3>2, <4>1, <4>2
    <3>4. V \subseteq Value
      <4> HIDE DEF N, e
      <4>1. \A k \in N : k + 1 \in 1..Len(c.args)
        BY <1>3, <3>2
      <4>2. ArgumentsOf(e, c) = {c.args[k + 1] : k \in N}
        BY <2>2 DEF ArgumentsOf
      <4> QED
        BY <1>3, <4>1, <4>2
    <3>5. V = Marked(c)
      BY <1>1, <2>1, <3>3 DEF Marked
    <3> HIDE DEF V
    <3> QED
      BY <1>1, <3>1, <3>4, <3>5, AnnotateStep
  <2> QED
    BY <2>3, <2>4
<1> QED
  BY <1>1, <1>4, <1>5

LEMMA GetAnnotatedStep ==
    ASSUME SelectionInv, getAnnotated
    PROVE  SelectionInv'
<1>1. /\ p \in Programs /\ phase = "calls" /\ next \in 1..(Len(p.calls) + 1) /\ next > Len(p.calls)
      /\ TypeOK /\ CallInv /\ FileInv /\ Annotated = AnnotatedOf(next - 1)
  BY DEF SelectionInv, TypeOK, CallInv, getAnnotated
<1>2. /\ phase' = "done"
      /\ UNCHANGED <<p, next, line, ParsedAnnotations, library, Annotated, runs>>
  BY DEF getAnnotated
<1>3. Len(p.calls) \in Nat
  BY <1>1, ProgramFields
<1>4. next - 1 = Len(p.calls)
  BY <1>1, <1>3
<1>5. TypeOK'
  BY <1>1, <1>2 DEF TypeOK, Phase
<1>6. CallInv'
  <2>1. LibraryOf(Len(p.calls))' = LibraryOf(Len(p.calls))
    BY <1>2 DEF LibraryOf
  <2>2. AnnotatedOf(Len(p.calls))' = AnnotatedOf(Len(p.calls))
    BY <1>2, MarkedKept DEF AnnotatedOf
  <2> QED
    BY <1>1, <1>2, <1>4, <2>1, <2>2 DEF CallInv, Reading, Visiting
<1>7. FileInv'
  BY <1>1, <1>2 DEF FileInv, FailsForReason, Reading
<1>8. EntryInv'
  <2>1. Said' = Said
    BY <1>2, SaidKept
  <2>2. Reads' = Reads
    BY <1>1, <1>2, <2>1 DEF Reads, Reading, Visiting
  <2> QED
    BY <1>1, <1>2, <2>2, EntriesKept DEF Visiting
<1> QED
  BY <1>5, <1>6, <1>7, <1>8 DEF SelectionInv

(* Another run: what has been read is now of the earlier runs. *)
LEMMA RunAgainStep ==
    ASSUME SelectionInv, RunAgain
    PROVE  SelectionInv'
<1>1. /\ p \in Programs /\ phase = "done" /\ runs < MaxRuns /\ runs \in 1..MaxRuns
      /\ TypeOK /\ CallInv /\ FileInv
  BY DEF SelectionInv, TypeOK, RunAgain
<1>2. /\ phase' = "files" /\ next' = 1 /\ line' = 0 /\ Annotated' = {} /\ runs' = runs + 1
      /\ UNCHANGED <<p, ParsedAnnotations, library>>
  BY DEF RunAgain
<1>3. Len(p.files) \in Nat /\ runs \in Nat /\ runs' \in 1..MaxRuns
  BY <1>1, <1>2, ProgramFields, MaxRunsAssumption
<1>4. TypeOK'
  BY <1>1, <1>2, <1>3 DEF TypeOK, Phase
<1>5. CallInv'
  <2>1. LibraryOf(Len(p.calls))' = LibraryOf(Len(p.calls))
    BY <1>2 DEF LibraryOf
  <2> QED
    BY <1>1, <1>2, <2>1 DEF CallInv, Reading, Visiting
<1>6. FileInv'
  <2>1. next' \in 1..(Len(p.files) + 1)' /\ 1..(next - 1)' = {}
    BY <1>2, <1>3
  <2> QED
    BY <1>2, <2>1 DEF FileInv, FailsForReason, Reading
<1>7. EntryInv'
  <2>1. \A w \in Said : ~(w[1] < 1)
    <3>1. \A w \in Said : w[1] \in 1..Len(p.files)
      BY <1>1, SaidIs
    <3> QED
      BY <1>3, <3>1
  <2>2. Said' = Said
    BY <1>2, SaidKept
  <2>3. Reads = (1..runs) \X Said
    BY <1>1 DEF Reads, Visiting
  <2>4. Reads' = {x \in (1..(runs + 1)) \X Said : x[1] < runs + 1}
    BY <1>2, <2>1, <2>2 DEF Reads, Reading, Visiting
  <2>5. \A i : i \in 1..(runs + 1) /\ i < runs + 1 <=> i \in 1..runs
    BY <1>3
  <2>6. Reads' = Reads
    BY <2>3, <2>4, <2>5
  <2> QED
    BY <1>1, <1>2, <2>6, EntriesKept DEF Visiting
<1> QED
  BY <1>4, <1>5, <1>6, <1>7 DEF SelectionInv

LEMMA StutterSelection ==
    ASSUME SelectionInv, UNCHANGED vars
    PROVE  SelectionInv'
<1>1. TypeOK /\ CallInv /\ FileInv
      /\ UNCHANGED <<p, phase, next, line, ParsedAnnotations, library, Annotated, runs>>
  BY DEF SelectionInv, vars
<1>2. TypeOK'
  BY <1>1 DEF TypeOK
<1>3. CallInv'
  BY <1>1, OfKept DEF CallInv
<1>4. FileInv'
  BY <1>1 DEF FileInv, FailsForReason, file
<1>5. EntryInv'
  <2>1. Said' = Said
    BY <1>1, SaidKept
  <2>2. Reads' = Reads
    BY <1>1, <2>1 DEF Reads
  <2> QED
    BY <1>1, <2>2, EntriesKept DEF EntryInv
<1> QED
  BY <1>2, <1>3, <1>4, <1>5 DEF SelectionInv

LEMMA NextSelection == SelectionInv /\ [Next]_vars => SelectionInv'
<1> SUFFICES ASSUME SelectionInv, [Next]_vars
             PROVE  SelectionInv'
  OBVIOUS
<1>1. CASE findMPIScaleVariables
  BY <1>1, LibraryStep
<1>2. CASE EndLibrary
  BY <1>2, EndLibraryStep
<1>3. CASE OpenFile
  BY <1>3, OpenFileStep
<1>4. CASE ReadBlank
  BY <1>4, ReadBlankStep
<1>5. CASE ReadEntry
  BY <1>5, ReadEntryStep
<1>6. CASE ReadBad
  BY <1>6, ReadBadStep
<1>7. CASE ReadNumber
  BY <1>7, StoppedStep DEF ReadNumber, Stop
<1>8. CASE EndFile
  BY <1>8, EndFileStep
<1>9. CASE EndFiles
  BY <1>9, EndFilesStep
<1>10. CASE CastFails
  BY <1>10, FatalStep DEF CastFails
<1>11. CASE visitDefaultAnnotationFunc
  BY <1>11, DefaultStep
<1>12. CASE visitCustomFunc
  BY <1>12, CustomStep
<1>13. CASE getAnnotated
  BY <1>13, GetAnnotatedStep
<1>14. CASE RunAgain
  BY <1>14, RunAgainStep
<1>15. CASE UNCHANGED vars
  BY <1>15, StutterSelection
<1> QED
  BY <1>1, <1>2, <1>3, <1>4, <1>5, <1>6, <1>7, <1>8, <1>9, <1>10, <1>11, <1>12, <1>13, <1>14, <1>15
  DEF Next, Stopped

LEMMA SelectionInvHolds == Spec => []SelectionInv
BY InitSelection, NextSelection, PTL DEF Spec

-----------------------------------------------------------------------------
(* The theorems. *)

(* Parsed entries hold numbers of an unsigned, and what is selected are values
   of the module: for any files and any calls.                              *)
THEOREM SelectionTypeCorrect == Spec => []TypeOK
<1>1. SelectionInv => TypeOK
  BY DEF SelectionInv
<1> QED
  BY <1>1, SelectionInvHolds, PTL

(* ManualAnnotationSelection and LibraryScaleVariableDetection select exactly
   what the program and its annotation files ask for, of each call what the
   first line wants that asks for it, however often the files are read into
   the same ParsedAnnotations.                                              *)
THEOREM SelectionIsExact == Spec => []SelectionExact
<1>1. ASSUME SelectionInv
      PROVE  SelectionExact
  <2> SUFFICES ASSUME phase = "done"
               PROVE  SelectionExact
    BY DEF SelectionExact
  <2> DEFINE len == Len(p.calls)
             M == {Operands(c)[1] : c \in {d \in ToSet(p.calls) : d.name = ManualAnnotationFnName}}
             W == UNION {IF Asking(c) = {} \/ c.name = ManualAnnotationFnName THEN {} ELSE Wanted(First(c), c)
                         : c \in ToSet(p.calls)}
             L == {Operands(c)[2] : c \in {d \in ToSet(p.calls) : IsScaleCall(d)}}
  <2>1. library = LibraryOf(len) /\ Annotated = AnnotatedOf(len)
    BY <1>1 DEF SelectionInv, CallInv, Visiting
  <2>2. ToSet(p.calls) = {p.calls[i] : i \in 1..len}
    BY <1>1, ProgramFields DEF SelectionInv, TypeOK
  <2> HIDE DEF len
  <2>3. LibraryOf(len) = L
    BY <2>2 DEF LibraryOf
  <2>4. AnnotatedOf(len) = UNION {Marked(c) : c \in ToSet(p.calls)}
    BY <2>2 DEF AnnotatedOf
  <2>5. UNION {Marked(c) : c \in ToSet(p.calls)} = M \cup W
    <3>1. ASSUME NEW c \in ToSet(p.calls), NEW v \in Marked(c)
          PROVE  v \in M \cup W
      <4>1. CASE c.name = ManualAnnotationFnName
        BY <3>1, <4>1 DEF Marked
      <4>2. CASE c.name # ManualAnnotationFnName
        <5>1. Asking(c) # {} /\ v \in Wanted(First(c), c)
          BY <3>1, <4>2 DEF Marked
        <5>2. v \in W
          BY <4>2, <5>1
        <5> QED
          BY <5>2
      <4> QED
        BY <4>1, <4>2
    <3>2. ASSUME NEW v \in M
          PROVE  \E c \in ToSet(p.calls) : v \in Marked(c)
      BY DEF Marked
    <3>3. ASSUME NEW v \in W
          PROVE  \E c \in ToSet(p.calls) : v \in Marked(c)
      <4>1. PICK c \in ToSet(p.calls) :
               v \in IF Asking(c) = {} \/ c.name = ManualAnnotationFnName THEN {} ELSE Wanted(First(c), c)
        OBVIOUS
      <4>2. v \in Marked(c)
        BY <4>1 DEF Marked
      <4> QED
        BY <4>2
    <3> HIDE DEF M, W
    <3> QED
      BY <3>1, <3>2, <3>3
  <2>6. scale_variables = L \cup M \cup W
    <3> HIDE DEF L, M, W
    <3> QED
      BY <2>1, <2>3, <2>4, <2>5 DEF scale_variables
  <2> QED
    BY <2>6 DEF SelectionExact
<1> QED
  BY <1>1, SelectionInvHolds, PTL

(* A run that goes on to the calls has passed over no bad line, except a last
   one that no newline ends; one that fails has met a bad file or a bad call. *)
THEOREM FailureHasReason == Spec => []FailsForReason
<1>1. SelectionInv => FailsForReason
  BY DEF SelectionInv, FileInv
<1> QED
  BY <1>1, SelectionInvHolds, PTL

(* The places that have been read, in order, are the parsed annotations in
   order: so many stand before one as are read sooner.                      *)
LEMMA PlaceOf ==
    ASSUME SelectionInv, phase = "done"
    PROVE  /\ Len(ParsedAnnotations) = runs * Cardinality(Said)
           /\ \A r \in 1..runs, w \in Said :
                 ParsedAnnotations[(r - 1) * Cardinality(Said) + Cardinality({x \in Said : Before(x, w)}) + 1]
                     = parseAnnotationEntry(LineAt(w))
<1> DEFINE len == Len(ParsedAnnotations)
           R == (1..runs) \X Said
<1>1. p \in Programs /\ runs \in 1..MaxRuns /\ ParsedAnnotations \in Seq(Entry)
  BY DEF SelectionInv, TypeOK
<1>2. len \in Nat /\ runs \in Nat \ {0} /\ 1 \in 1..runs
  BY <1>1, MaxRunsAssumption
<1>3. Reads = R
  BY DEF Reads, Visiting
<1>4. PICK at : EntriesAt(at)
  BY DEF SelectionInv, EntryInv, Visiting
<1> HIDE DEF len
<1>5. /\ at \in [1..len -> R]
      /\ \A x \in R : \E n \in 1..len : at[n] = x
      /\ \A n, m \in 1..len : n < m => Sooner(at[n], at[m])
      /\ \A n \in 1..len : ParsedAnnotations[n] = parseAnnotationEntry(LineAt(at[n][2]))
  BY <1>3, <1>4 DEF EntriesAt, len
<1>6. \A w \in Said : w[1] \in Nat /\ w[2] \in Nat
  <2>1. \A w \in Said : w[1] \in 1..Len(p.files) /\ w[2] \in 1..Len(p.files[w[1]].lines)
    BY <1>1, SaidIs
  <2>2. \A i \in 1..Len(p.files) : Len(p.files[i].lines) \in Nat
    BY <1>1, ProgramFields, FileFields
  <2> QED
    BY <2>1, <2>2
<1>7. \A x \in R : x[1] \in 1..runs /\ x[2] \in Said /\ x = <<x[1], x[2]>>
  OBVIOUS
<1>8. \A x, y \in R : ~(Sooner(x, y) /\ Sooner(y, x))
  BY <1>2, <1>6, <1>7 DEF Sooner, Before
<1> HIDE DEF R
<1>9. \A n, m \in 1..len : Sooner(at[n], at[m]) <=> n < m
  <2> SUFFICES ASSUME NEW n \in 1..len, NEW m \in 1..len, Sooner(at[n], at[m]), ~(n < m)
               PROVE  FALSE
    BY <1>5
  <2>1. m < n \/ m = n
    BY <1>2
  <2>2. at[n] \in R /\ at[m] \in R
    BY <1>5
  <2> QED
    BY <1>5, <1>8, <2>1, <2>2
<1>10. \A n, m \in 1..len : at[n] = at[m] => n = m
  <2> SUFFICES ASSUME NEW n \in 1..len, NEW m \in 1..len, at[n] = at[m], n # m
               PROVE  FALSE
    OBVIOUS
  <2>1. n < m \/ m < n
    BY <1>2
  <2>2. at[n] \in R
    BY <1>5
  <2> QED
    BY <1>5, <1>8, <2>1, <2>2
<1>11. at \in Bijection(1..len, R)
  BY <1>5, <1>10 DEF Bijection, Injection, Surjection, IsInjective
<1>12. IsFiniteSet(1..len) /\ Cardinality(1..len) = len
  BY <1>2, FS_Interval
<1>13. IsFiniteSet(R) /\ Cardinality(R) = len
  BY <1>11, <1>12, FS_Bijection DEF ExistsBijection
<1>14. IsFiniteSet(Said)
  <2> DEFINE f == [w \in Said |-> <<1, w>>]
  <2>1. f \in Injection(Said, R)
    BY <1>2 DEF Injection, IsInjective, R
  <2> QED
    BY <1>13, <2>1, FS_Injection
<1> DEFINE said == Cardinality(Said)
<1>15. said \in Nat
  BY <1>14, FS_CardinalityType
<1>16. \A i \in Nat : IsFiniteSet(1..i) /\ Cardinality(1..i) = i
  BY FS_Interval
<1>17. \A i \in Nat : IsFiniteSet((1..i) \X Said) /\ Cardinality((1..i) \X Said) = i * said
  <2> SUFFICES ASSUME NEW i \in Nat
               PROVE  IsFiniteSet((1..i) \X Said) /\ Cardinality((1..i) \X Said) = i * said
    OBVIOUS
  <2>1. IsFiniteSet(1..i) /\ Cardinality(1..i) = i
    BY <1>16
  <2> QED
    BY <1>14, <2>1, FS_Product
<1>18. len = runs * said
  BY <1>2, <1>13, <1>17 DEF R
<1>19. ASSUME NEW r \in 1..runs, NEW w \in Said
       PROVE  ParsedAnnotations[(r - 1) * said + Cardinality({x \in Said : Before(x, w)}) + 1]
                  = parseAnnotationEntry(LineAt(w))
  <2> DEFINE B == {x \in Said : Before(x, w)}
             x == <<r, w>>
             S == {y \in R : Sooner(y, x)}
             E == (1..(r - 1)) \X Said
             L == {r} \X B
  <2>1. x \in R /\ x[1] = r /\ x[2] = w
    BY DEF R
  <2> HIDE DEF x
  <2>2. PICK n \in 1..len : at[n] = x
    BY <1>5, <2>1
  <2>3. r \in Nat \ {0} /\ r - 1 \in Nat /\ n - 1 \in Nat /\ n \in Nat
    BY <1>2
  <2>4. S = E \cup L
    <3>1. \A y \in R : /\ y[1] \in 1..runs /\ y[2] \in Said /\ y = <<y[1], y[2]>>
                       /\ Sooner(y, x) <=> y[1] < r \/ (y[1] = r /\ y[2] \in B)
      BY <1>7, <2>1 DEF Sooner
    <3>2. \A i \in 1..runs : i < r <=> i \in 1..(r - 1)
      BY <1>2
    <3>3. \A i \in 1..(r - 1) : i \in 1..runs
      BY <1>2
    <3>4. ASSUME NEW y \in S
          PROVE  y \in E \cup L
      BY <3>1, <3>2
    <3>5. ASSUME NEW y \in E
          PROVE  y \in S
      <4>1. y \in R
        BY <3>3 DEF R
      <4>2. y[1] < r
        BY <2>3
      <4> QED
        BY <3>1, <4>1, <4>2
    <3>6. ASSUME NEW y \in L
          PROVE  y \in S
      <4>1. y \in R /\ y[1] = r /\ y[2] \in B
        BY DEF R
      <4> QED
        BY <3>1, <4>1
    <3> HIDE DEF S, E, L
    <3> QED
      BY <3>4, <3>5, <3>6
  <2>5. IsFiniteSet(B) /\ Cardinality(B) \in Nat
    <3>1. IsFiniteSet(B)
      BY <1>14, FS_Subset
    <3> HIDE DEF B
    <3> QED
      BY <3>1, FS_CardinalityType
  <2>6. IsFiniteSet(E) /\ Cardinality(E) = (r - 1) * said
    BY <1>17, <2>3
  <2>7. IsFiniteSet(L) /\ Cardinality(L) = Cardinality(B)
    <3> HIDE DEF B
    <3>1. IsFiniteSet({r}) /\ Cardinality({r}) = 1
      BY FS_Singleton
    <3>2. IsFiniteSet(L) /\ Cardinality(L) = 1 * Cardinality(B)
      BY <2>5, <3>1, FS_Product
    <3> QED
      BY <2>5, <3>2
  <2>8. E \cap L = {}
    BY <2>3
  <2>9. Cardinality(S) = (r - 1) * said + Cardinality(B)
    <3> HIDE DEF S, E, L, B, said
    <3>1. Cardinality(S) = Cardinality(E) + Cardinality(L) - 0
      BY <2>4, <2>6, <2>7, <2>8, FS_Union, FS_EmptySet
    <3>2. (r - 1) * said \in Nat
      BY <1>15, <2>3
    <3> QED
      BY <2>5, <2>6, <2>7, <3>1, <3>2
  <2>10. Cardinality(S) = n - 1
    <3> DEFINE g == [i \in 1..(n - 1) |-> at[i]]
    <3>1. \A i \in 1..(n - 1) : i \in 1..len /\ i < n
      BY <1>2
    <3>2. \A i \in 1..len : i < n => i \in 1..(n - 1)
      BY <1>2
    <3>3. g \in [1..(n - 1) -> S]
      BY <1>5, <1>9, <2>2, <3>1
    <3>4. \A y \in S : \E i \in 1..(n - 1) : g[i] = y
      <4> SUFFICES ASSUME NEW y \in S
                   PROVE  \E i \in 1..(n - 1) : g[i] = y
        OBVIOUS
      <4>1. PICK i \in 1..len : at[i] = y
        BY <1>5
      <4>2. i \in 1..(n - 1)
        BY <1>9, <2>2, <3>2, <4>1
      <4> QED
        BY <4>1, <4>2
    <3>5. \A i, j \in 1..(n - 1) : g[i] = g[j] => i = j
      BY <1>10, <3>1
    <3> HIDE DEF g, S
    <3>6. g \in Bijection(1..(n - 1), S)
      BY <3>3, <3>4, <3>5 DEF Bijection, Injection, Surjection, IsInjective
    <3> QED
      BY <1>16, <2>3, <3>6, FS_Bijection DEF ExistsBijection
  <2>11. n = (r - 1) * said + Cardinality(B) + 1
    <3> HIDE DEF B, S, said
    <3>1. (r - 1) * said \in Nat
      BY <1>15, <2>3
    <3> QED
      BY <2>3, <2>5, <2>9, <2>10, <3>1
  <2>12. ParsedAnnotations[n] = parseAnnotationEntry(LineAt(w))
    BY <1>5, <2>1, <2>2
  <2> QED
    BY <2>11, <2>12
<1> QED
  BY <1>18, <1>19 DEF len

(* processFile loses no entry of a file and adds none: after n runs the parsed
   annotations are n times what the files say, in the order of the files.   *)
THEOREM NoEntryIsLost == Spec => []EntriesComplete
<1>1. ASSUME SelectionInv
      PROVE  EntriesComplete
  <2> SUFFICES ASSUME phase = "done"
               PROVE  EntriesComplete
    BY DEF EntriesComplete
  <2>1. \A w \in Said : LineAt(w) \in LineType
    BY <1>1, SaidIs DEF SelectionInv, TypeOK
  <2> QED
    BY <1>1, <2>1, PlaceOf, EntryOf DEF EntriesComplete
<1> QED
  BY <1>1, SelectionInvHolds, PTL
=============================================================================
