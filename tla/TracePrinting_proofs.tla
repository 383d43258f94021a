------------------------ MODULE TracePrinting_proofs ------------------------
(* For every graph: what is printed can be read as a tree of the graph, and
   nothing that can be reached is left out.                                 *)
EXTENDS TracePrinting, TLAPS

-----------------------------------------------------------------------------
(* The recursion: a frame is pushed, shortened or popped.                   *)

LEMMA StackParts ==
    ASSUME NEW st \in Seq(SUBSET Value), st # <<>>, NEW A \in SUBSET Value, NEW B \in SUBSET Value
    PROVE  /\ Len(st) \in Nat \ {0} /\ DOMAIN st = 1..Len(st) /\ Head(st) = st[1] /\ Head(st) \in SUBSET Value
           /\ Tail(st) \in Seq(SUBSET Value) /\ Len(Tail(st)) = Len(st) - 1
           /\ \A i \in 1..(Len(st) - 1) : Tail(st)[i] = st[i + 1]
           /\ <<B>> \o Tail(st) \in Seq(SUBSET Value) /\ Len(<<B>> \o Tail(st)) = Len(st)
           /\ (<<B>> \o Tail(st))[1] = B
           /\ \A i \in 2..Len(st) : (<<B>> \o Tail(st))[i] = st[i]
           /\ <<A, B>> \o Tail(st) \in Seq(SUBSET Value) /\ Len(<<A, B>> \o Tail(st)) = Len(st) + 1
           /\ (<<A, B>> \o Tail(st))[1] = A /\ (<<A, B>> \o Tail(st))[2] = B
           /\ \A i \in 2..Len(st) : (<<A, B>> \o Tail(st))[i + 1] = st[i]
<1>1. /\ Len(st) \in Nat \ {0} /\ DOMAIN st = 1..Len(st) /\ Head(st) = st[1] /\ Head(st) \in SUBSET Value
      /\ Tail(st) \in Seq(SUBSET Value) /\ Len(Tail(st)) = Len(st) - 1
      /\ \A i \in 1..(Len(st) - 1) : Tail(st)[i] = st[i + 1]
  OBVIOUS
<1> DEFINE t == Tail(st)
<1> HIDE DEF t
<1>2. /\ <<B>> \o t \in Seq(SUBSET Value) /\ Len(<<B>> \o t) = Len(t) + 1 /\ (<<B>> \o t)[1] = B
      /\ \A i \in 1..Len(t) : (<<B>> \o t)[i + 1] = t[i]
  BY <1>1 DEF t
<1>3. /\ <<A, B>> \o t \in Seq(SUBSET Value) /\ Len(<<A, B>> \o t) = Len(t) + 2
      /\ (<<A, B>> \o t)[1] = A /\ (<<A, B>> \o t)[2] = B
      /\ \A i \in 1..Len(t) : (<<A, B>> \o t)[i + 2] = t[i]
  BY <1>1 DEF t
<1>4. \A i \in 2..Len(st) : i - 1 \in 1..Len(t) /\ (i - 1) + 1 = i /\ (i - 1) + 2 = i + 1 /\ t[i - 1] = st[i]
  BY <1>1 DEF t
<1>5. \A i \in 2..Len(st) : (<<B>> \o t)[i] = st[i]
  BY <1>2, <1>4
<1>6. \A i \in 2..Len(st) : (<<A, B>> \o t)[i + 1] = st[i]
  BY <1>3, <1>4
<1> QED
  BY <1>1, <1>2, <1>3, <1>5, <1>6 DEF t

LEMMA AppendParts ==
    ASSUME NEW s \in Seq(Line), NEW e \in Line
    PROVE  /\ Append(s, e) \in Seq(Line) /\ Len(s) \in Nat /\ DOMAIN s = 1..Len(s)
           /\ DOMAIN Append(s, e) = 1..(Len(s) + 1) /\ Len(Append(s, e)) = Len(s) + 1
           /\ Append(s, e) # <<>> /\ Append(s, e)[Len(s) + 1] = e
           /\ \A i \in 1..Len(s) : Append(s, e)[i] = s[i]
  OBVIOUS

-----------------------------------------------------------------------------
(* The inductive invariant. *)

PrintType ==
    /\ succ \in [Value -> SUBSET Value] /\ starts \subseteq Value /\ visited \subseteq Value
    /\ stack \in Seq(SUBSET Value) /\ lines \in Seq(Line)

(* What calls of the function have still to recurse into. *)
Owed == UNION {stack[i] : i \in DOMAIN stack}

(* The search: what is visited is printed, and its successors are or are owed;
   nothing is found that cannot be reached.                                 *)
FoundInv ==
    /\ visited = {lines[i].value : i \in DOMAIN lines}
    /\ \A v \in visited : succ[v] \subseteq visited \cup Owed
    /\ lines = <<>> => stack = <<>>
    /\ lines # <<>> => visited \cup Owed \subseteq Reached(lines[1].value)

(* Line i hangs below line j, for a reader and in the graph. *)
Hangs(i, j) ==
    /\ lines[i].depth = lines[j].depth + 1
    /\ \A k \in (j + 1)..(i - 1) : lines[k].depth >= lines[i].depth
    /\ lines[i].value \in succ[lines[j].value]

(* The frame at depth d belongs to line j: its nodes will hang below j. *)
Owner(j, d) ==
    /\ lines[j].depth + 1 = d
    /\ \A k \in (j + 1)..Len(lines) : lines[k].depth >= d
    /\ stack[Len(stack) + 1 - d] \subseteq succ[lines[j].value]

TreeInv ==
    /\ \A i, j \in DOMAIN lines : lines[i].value = lines[j].value => i = j
    /\ \A i \in DOMAIN lines : i # 1 => \E j \in 1..(i - 1) : Hangs(i, j)
    /\ \A d \in 1..Len(stack) : \E j \in DOMAIN lines : Owner(j, d)

PrintInv == PrintType /\ FoundInv /\ TreeInv

-----------------------------------------------------------------------------
LEMMA ReachedLeast ==
    ASSUME succ \in [Value -> SUBSET Value], NEW v \in Value
    PROVE  /\ v \in Reached(v) /\ Reached(v) \subseteq Value
           /\ \A u \in Reached(v) : succ[u] \subseteq Reached(v)
           /\ \A S \in SUBSET Value : v \in S /\ (\A u \in S : succ[u] \subseteq S) => Reached(v) \subseteq S
<1> DEFINE Closed == {S \in SUBSET Value : v \in S /\ \A u \in S : succ[u] \subseteq S}
<1>1. Reached(v) = {u \in Value : \A S \in Closed : u \in S}
  BY DEF Reached
<1>2. ASSUME NEW u \in Reached(v), NEW w \in succ[u]
      PROVE  w \in Reached(v)
  <2>1. u \in Value /\ w \in Value
    BY <1>1
  <2>2. \A S \in Closed : w \in S
    BY <1>1
  <2> QED
    BY <1>1, <2>1, <2>2
<1> QED
  BY <1>1, <1>2

LEMMA OwedIs ==
    ASSUME PrintType
    PROVE  /\ Owed = {v \in Value : \E i \in 1..Len(stack) : v \in stack[i]}
           /\ \A i \in 1..Len(stack) : stack[i] \in SUBSET Value
           /\ Len(stack) \in Nat /\ DOMAIN stack = 1..Len(stack)
           /\ Len(lines) \in Nat /\ DOMAIN lines = 1..Len(lines)
           /\ \A i \in 1..Len(lines) : lines[i].value \in Value /\ lines[i].depth \in Nat
<1>1. /\ \A i \in 1..Len(stack) : stack[i] \in SUBSET Value
      /\ Len(stack) \in Nat /\ DOMAIN stack = 1..Len(stack)
  BY DEF PrintType
<1>2. /\ Len(lines) \in Nat /\ DOMAIN lines = 1..Len(lines)
      /\ \A i \in 1..Len(lines) : lines[i] \in Line
  BY DEF PrintType
<1>3. Owed = {v \in Value : \E i \in 1..Len(stack) : v \in stack[i]}
  BY <1>1 DEF Owed
<1> QED
  BY <1>1, <1>2, <1>3 DEF Line

LEMMA InitPrint == Init => PrintInv
<1> SUFFICES ASSUME Init
             PROVE  PrintInv
  OBVIOUS
<1>1. PrintType
  BY DEF Init, PrintType
<1>2. FoundInv /\ TreeInv
  BY DEF Init, FoundInv, TreeInv
<1> QED
  BY <1>1, <1>2 DEF PrintInv

LEMMA BeginStep ==
    ASSUME PrintInv, NEW v \in Value, Begin(v)
    PROVE  PrintInv'
<1>0. /\ starts' = starts \ {v} /\ visited' = {v} /\ lines' = <<[value |-> v, depth |-> 0]>>
      /\ stack' = <<succ[v]>> /\ succ' = succ /\ succ \in [Value -> SUBSET Value] /\ starts \subseteq Value
  BY DEF Begin, PrintInv, PrintType
<1>1. /\ lines' \in Seq(Line) /\ Len(lines') = 1 /\ DOMAIN lines' = {1} /\ lines' # <<>>
      /\ lines'[1].value = v /\ lines'[1].depth = 0
  BY <1>0 DEF Line
<1>2. stack' \in Seq(SUBSET Value) /\ Len(stack') = 1 /\ DOMAIN stack' = {1} /\ stack'[1] = succ[v]
  BY <1>0
<1>3. PrintType'
  BY <1>0, <1>1, <1>2 DEF PrintType
<1>4. FoundInv'
  <2>1. Reached(lines[1].value)' = Reached(v)
    BY <1>0, <1>1 DEF Reached
  <2>2. v \in Reached(v) /\ succ[v] \subseteq Reached(v)
    BY <1>0, ReachedLeast
  <2>3. Owed' = succ[v]
    BY <1>2 DEF Owed
  <2> QED
    BY <1>0, <1>1, <2>1, <2>2, <2>3 DEF FoundInv
<1>5. TreeInv'
  <2>1. Owner(1, 1)'
    BY <1>0, <1>1, <1>2 DEF Owner
  <2> QED
    BY <1>1, <1>2, <2>1 DEF TreeInv
<1> QED
  BY <1>3, <1>4, <1>5 DEF PrintInv

(* A frame is shortened by what was printed already, or popped when it is
   empty.                                                                   *)
LEMMA SkipStep ==
    ASSUME PrintInv, NEW v \in Value, Skip(v)
    PROVE  PrintInv'
<1>0. /\ stack # <<>> /\ v \in Head(stack) /\ v \in visited
      /\ stack' = <<Head(stack) \ {v}>> \o Tail(stack)
      /\ UNCHANGED <<succ, starts, visited, lines>>
      /\ PrintType /\ FoundInv /\ TreeInv /\ stack \in Seq(SUBSET Value)
  BY DEF Skip, PrintInv, PrintType
<1>1. /\ Len(stack) \in Nat \ {0} /\ DOMAIN stack = 1..Len(stack) /\ Head(stack) = stack[1]
      /\ stack' \in Seq(SUBSET Value) /\ Len(stack') = Len(stack)
      /\ stack'[1] = stack[1] \ {v} /\ \A i \in 2..Len(stack) : stack'[i] = stack[i]
  BY <1>0, StackParts
<1>2. PrintType'
  BY <1>0, <1>1 DEF PrintType
<1>3. Owed' \cup {v} = Owed \cup {v} /\ Owed' \subseteq Owed
  <2>1. DOMAIN stack' = 1..Len(stack)
    BY <1>1
  <2>2. \A i \in 1..Len(stack) : i = 1 \/ i \in 2..Len(stack)
    BY <1>1
  <2>3. \A i \in 1..Len(stack) : stack'[i] \subseteq stack[i] /\ stack[i] \subseteq stack'[i] \cup {v}
    BY <1>1, <2>2
  <2> QED
    BY <1>1, <2>1, <2>3 DEF Owed
<1>4. FoundInv'
  <2>1. Reached(lines[1].value)' = Reached(lines[1].value)
    BY <1>0 DEF Reached
  <2>2. lines # <<>>
    BY <1>0 DEF FoundInv
  <2> QED
    BY <1>0, <1>3, <2>1, <2>2 DEF FoundInv
<1>5. TreeInv'
  <2>1. ASSUME NEW d \in 1..Len(stack), NEW j \in DOMAIN lines, Owner(j, d)
        PROVE  Owner(j, d)'
    <3>1. Len(stack) + 1 - d \in 1..Len(stack)
      BY <1>1
    <3>2. stack'[Len(stack) + 1 - d] \subseteq stack[Len(stack) + 1 - d]
      BY <1>1, <3>1
    <3> QED
      BY <1>0, <1>1, <2>1, <3>2 DEF Owner
  <2>2. \A i, j : Hangs(i, j)' <=> Hangs(i, j)
    BY <1>0 DEF Hangs
  <2> QED
    BY <1>0, <1>1, <2>1, <2>2 DEF TreeInv
<1> QED
  BY <1>2, <1>4, <1>5 DEF PrintInv

LEMMA ReturnStep ==
    ASSUME PrintInv, Return
    PROVE  PrintInv'
<1>0. /\ stack # <<>> /\ Head(stack) = {} /\ stack' = Tail(stack)
      /\ UNCHANGED <<succ, starts, visited, lines>>
      /\ PrintType /\ FoundInv /\ TreeInv /\ stack \in Seq(SUBSET Value)
  BY DEF Return, PrintInv, PrintType
<1>1. /\ Len(stack) \in Nat \ {0} /\ DOMAIN stack = 1..Len(stack) /\ stack[1] = {}
      /\ stack' \in Seq(SUBSET Value) /\ Len(stack') = Len(stack) - 1
      /\ \A i \in 1..(Len(stack) - 1) : stack'[i] = stack[i + 1]
  BY <1>0, StackParts
<1>2. PrintType'
  BY <1>0, <1>1 DEF PrintType
<1>3. Owed' = Owed
  <2>1. DOMAIN stack' = 1..(Len(stack) - 1)
    BY <1>1
  <2>2. \A i \in 1..(Len(stack) - 1) : i + 1 \in 1..Len(stack)
    BY <1>1
  <2>3. \A i \in 1..Len(stack) : i = 1 \/ (i - 1 \in 1..(Len(stack) - 1) /\ (i - 1) + 1 = i)
    BY <1>1
  <2>4. \A i \in 1..Len(stack) : i = 1 \/ stack[i] = stack'[i - 1]
    BY <1>1, <2>3
  <2>5. Owed \subseteq Owed'
    BY <1>1, <2>1, <2>3, <2>4 DEF Owed
  <2>6. Owed' \subseteq Owed
    BY <1>1, <2>1, <2>2 DEF Owed
  <2> QED
    BY <2>5, <2>6
<1>4. FoundInv'
  <2>1. Reached(lines[1].value)' = Reached(lines[1].value)
    BY <1>0 DEF Reached
  <2>2. lines # <<>>
    BY <1>0 DEF FoundInv
  <2> QED
    BY <1>0, <1>3, <2>1, <2>2 DEF FoundInv
<1>5. TreeInv'
  <2>1. ASSUME NEW d \in 1..(Len(stack) - 1), NEW j \in DOMAIN lines, Owner(j, d)
        PROVE  Owner(j, d)'
    <3>1. Len(stack) - d \in 1..(Len(stack) - 1) /\ Len(stack') + 1 - d = Len(stack) - d
          /\ (Len(stack) - d) + 1 = Len(stack) + 1 - d
      BY <1>1
    <3>2. stack'[Len(stack') + 1 - d] = stack[Len(stack) + 1 - d]
      BY <1>1, <3>1
    <3> QED
      BY <1>0, <2>1, <3>2 DEF Owner
  <2>2. \A i, j : Hangs(i, j)' <=> Hangs(i, j)
    BY <1>0 DEF Hangs
  <2>3. \A d \in 1..Len(stack') : d \in 1..(Len(stack) - 1) /\ d \in 1..Len(stack)
    BY <1>1
  <2> QED
    BY <1>0, <1>1, <2>1, <2>2, <2>3 DEF TreeInv
<1> QED
  BY <1>2, <1>4, <1>5 DEF PrintInv

(* A node is printed: a line is added, and a frame that the line owns.      *)
LEMMA PrintNodeStep ==
    ASSUME PrintInv, NEW v \in Value, PrintNode(v)
    PROVE  PrintInv'
<1>n. PICK n : n = Len(lines)
  OBVIOUS
<1>h. PICK h : h = Len(stack)
  OBVIOUS
<1>e. PICK new : new = [value |-> v, depth |-> h]
  OBVIOUS
<1>0. /\ stack # <<>> /\ v \in Head(stack) /\ v \notin visited
      /\ visited' = visited \cup {v} /\ lines' = Append(lines, new)
      /\ stack' = <<succ[v], Head(stack) \ {v}>> \o Tail(stack)
      /\ UNCHANGED <<succ, starts>>
      /\ PrintType /\ FoundInv /\ TreeInv /\ stack \in Seq(SUBSET Value) /\ lines \in Seq(Line)
      /\ succ \in [Value -> SUBSET Value]
  BY <1>h, <1>e DEF PrintNode, printValue, PrintInv, PrintType
<1>1. /\ h \in Nat \ {0} /\ DOMAIN stack = 1..h /\ Head(stack) = stack[1]
      /\ stack' \in Seq(SUBSET Value) /\ Len(stack') = h + 1
      /\ stack'[1] = succ[v] /\ stack'[2] = stack[1] \ {v}
      /\ \A i \in 2..h : stack'[i + 1] = stack[i]
  <2>1. succ[v] \in SUBSET Value /\ stack[1] \ {v} \in SUBSET Value
    BY <1>0, StackParts
  <2> QED
    BY <1>0, <1>h, <2>1, StackParts
<1>2. /\ lines' \in Seq(Line) /\ n \in Nat /\ DOMAIN lines = 1..n /\ DOMAIN lines' = 1..(n + 1)
      /\ Len(lines') = n + 1 /\ lines' # <<>>
      /\ lines'[n + 1] = new /\ \A i \in 1..n : lines'[i] = lines[i]
  <2>1. new \in Line
    BY <1>1, <1>e DEF Line
  <2> QED
    BY <1>0, <1>n, <2>1, AppendParts
<1>3. lines # <<>> /\ n > 0
  <2>1. lines # <<>>
    BY <1>0 DEF FoundInv
  <2>2. lines = <<>> <=> n = 0
    BY <1>0, <1>n
  <2> QED
    BY <1>2, <2>1, <2>2
<1>4. \A i \in 1..n : lines[i].value \in Value /\ lines[i].depth \in Nat
  BY <1>0, <1>n, OwedIs
<1>5. \A i \in 1..(n + 1) : i \in 1..n \/ i = n + 1
  BY <1>2
<1>6. PrintType'
  BY <1>0, <1>1, <1>2 DEF PrintType
<1>7. new.value = v /\ new.depth = h
  BY <1>e
<1>8. FoundInv'
  <2>1. Reached(lines[1].value)' = Reached(lines[1].value)
    <3>1. lines'[1] = lines[1]
      BY <1>2, <1>3
    <3> QED
      BY <1>0, <3>1 DEF Reached
  <2>2. visited' = {lines'[i].value : i \in DOMAIN lines'}
    <3>1. visited = {lines[i].value : i \in 1..n}
      BY <1>0, <1>2 DEF FoundInv
    <3>2. n + 1 \in 1..(n + 1) /\ \A i \in 1..n : i \in 1..(n + 1)
      BY <1>2
    <3>3. visited' \subseteq {lines'[i].value : i \in 1..(n + 1)}
      BY <1>0, <1>2, <1>7, <3>1, <3>2
    <3>4. \A i \in 1..(n + 1) : lines'[i].value \in visited'
      BY <1>0, <1>2, <1>5, <1>7, <3>1
    <3> QED
      BY <1>2, <3>3, <3>4
  <2>3. DOMAIN stack' = 1..(h + 1) /\ \A i \in 1..(h + 1) : i = 1 \/ i = 2 \/ (i - 1 \in 2..h /\ (i - 1) + 1 = i)
    BY <1>1
  <2>4. \A i \in 1..h : i = 1 \/ (i \in 2..h /\ i + 1 \in 1..(h + 1))
    BY <1>1
  <2>5. 1 \in 1..(h + 1) /\ 2 \in 1..(h + 1) /\ 1 \in 1..h
    BY <1>1
  <2>6. Owed \subseteq Owed' \cup {v}
    BY <1>1, <2>3, <2>4, <2>5 DEF Owed
  <2>7. Owed' \subseteq Owed \cup succ[v]
    <3>1. \A i \in 1..(h + 1) : i = 1 \/ i = 2 \/ (i - 1 \in 1..h /\ stack'[i] = stack[i - 1])
      BY <1>1, <2>3
    <3>2. \A i \in 1..(h + 1) : stack'[i] \subseteq Owed \cup succ[v]
      BY <1>1, <2>5, <3>1 DEF Owed
    <3> QED
      BY <2>3, <3>2 DEF Owed
  <2>8. succ[v] \subseteq Owed'
    BY <1>1, <2>3, <2>5 DEF Owed
  <2>9. v \in Owed
    BY <1>0, <1>1, <2>5 DEF Owed
  <2>10. \A u \in visited' : succ'[u] \subseteq visited' \cup Owed'
    BY <1>0, <2>6, <2>8 DEF FoundInv
  <2>11. visited' \cup Owed' \subseteq Reached(lines[1].value)
    <3>1. lines[1].value \in Value
      BY <1>3, <1>2, <1>4
    <3>2. visited \cup Owed \subseteq Reached(lines[1].value)
      BY <1>0, <1>3 DEF FoundInv
    <3>3. succ[v] \subseteq Reached(lines[1].value)
      BY <1>0, <2>9, <3>1, <3>2, ReachedLeast
    <3> QED
      BY <1>0, <2>7, <2>9, <3>2, <3>3
  <2> QED
    BY <1>2, <2>1, <2>2, <2>10, <2>11 DEF FoundInv
<1>9. \A i, j \in 1..n : Hangs(i, j) => Hangs(i, j)'
  <2> SUFFICES ASSUME NEW i \in 1..n, NEW j \in 1..n, Hangs(i, j)
               PROVE  Hangs(i, j)'
    OBVIOUS
  <2>1. \A k \in (j + 1)..(i - 1) : k \in 1..n
    BY <1>2
  <2> QED
    BY <1>0, <1>2, <2>1 DEF Hangs
<1>10. \E j \in 1..n : Hangs(n + 1, j)'
  <2>1. PICK j \in 1..n : Owner(j, h)
    <3>1. h \in 1..Len(stack)
      BY <1>1, <1>h
    <3> QED
      BY <1>0, <1>2, <3>1 DEF TreeInv
  <2>2. h + 1 - h = 1
    BY <1>1
  <2>3. /\ lines[j].depth + 1 = h /\ \A k \in (j + 1)..n : lines[k].depth >= h
        /\ stack[1] \subseteq succ[lines[j].value]
    BY <1>n, <1>h, <2>1, <2>2 DEF Owner
  <2>4. \A k \in (j + 1)..((n + 1) - 1) : k \in (j + 1)..n /\ k \in 1..n
    BY <1>2
  <2>5. Hangs(n + 1, j)'
    BY <1>0, <1>1, <1>2, <1>7, <2>3, <2>4 DEF Hangs
  <2> QED
    BY <2>5
<1>11. Owner(n + 1, h + 1)'
  <2>1. (h + 1) + 1 - (h + 1) = 1 /\ ~\E k \in ((n + 1) + 1)..(n + 1) : TRUE
    BY <1>1, <1>2
  <2> QED
    BY <1>0, <1>1, <1>2, <1>7, <2>1 DEF Owner
<1>12. ASSUME NEW d \in 1..h, NEW j \in 1..n, Owner(j, d)
       PROVE  Owner(j, d)'
  <2>1. /\ lines[j].depth + 1 = d /\ \A k \in (j + 1)..n : lines[k].depth >= d
        /\ stack[h + 1 - d] \subseteq succ[lines[j].value]
    BY <1>n, <1>h, <1>12 DEF Owner
  <2>2. \A k \in (j + 1)..(n + 1) : k = n + 1 \/ (k \in (j + 1)..n /\ k \in 1..n)
    BY <1>2
  <2>3. h >= d
    BY <1>1
  <2>4. \A k \in (j + 1)..(n + 1) : lines'[k].depth >= d
    BY <1>2, <1>7, <2>1, <2>2, <2>3
  <2>5. h + 1 - d = 1 \/ h + 1 - d \in 2..h
    BY <1>1
  <2>6. ((h + 1) + 1) - d = (h + 1 - d) + 1 /\ 1 + 1 = 2
    BY <1>1
  <2>7. stack'[(h + 1) + 1 - d] \subseteq stack[h + 1 - d]
    BY <1>1, <2>5, <2>6
  <2> QED
    BY <1>0, <1>1, <1>2, <2>1, <2>4, <2>7 DEF Owner
<1>13. TreeInv'
  <2>1. \A i, j \in 1..(n + 1) : lines'[i].value = lines'[j].value => i = j
    <3>1. \A i \in 1..n : lines[i].value # v
      BY <1>0, <1>2 DEF FoundInv
    <3>2. \A i, j \in 1..n : lines[i].value = lines[j].value => i = j
      BY <1>0, <1>2 DEF TreeInv
    <3> QED
      BY <1>2, <1>5, <1>7, <3>1, <3>2
  <2>2. ASSUME NEW i \in 1..(n + 1), i # 1
        PROVE  \E j \in 1..(i - 1) : Hangs(i, j)'
    <3>1. CASE i = n + 1
      <4>1. i - 1 = n
        BY <1>2, <3>1
      <4> QED
        BY <1>10, <3>1, <4>1
    <3>2. CASE i \in 1..n
      <4>1. PICK j \in 1..(i - 1) : Hangs(i, j)
        BY <1>0, <1>2, <2>2, <3>2 DEF TreeInv
      <4>2. j \in 1..n
        BY <1>2, <3>2
      <4> QED
        BY <1>9, <3>2, <4>1, <4>2
    <3> QED
      BY <1>5, <3>1, <3>2
  <2>3. ASSUME NEW d \in 1..(h + 1)
        PROVE  \E j \in 1..(n + 1) : Owner(j, d)'
    <3>1. CASE d = h + 1
      <4>1. n + 1 \in 1..(n + 1)
        BY <1>2
      <4> QED
        BY <1>11, <3>1, <4>1
    <3>2. CASE d \in 1..h
      <4>1. PICK j \in 1..n : Owner(j, d)
        BY <1>0, <1>h, <1>2, <3>2 DEF TreeInv
      <4>2. j \in 1..(n + 1)
        BY <1>2
      <4> QED
        BY <1>12, <3>2, <4>1, <4>2
    <3>3. d = h + 1 \/ d \in 1..h
      BY <1>1
    <3> QED
      BY <3>1, <3>2, <3>3
  <2> QED
    BY <1>1, <1>2, <2>1, <2>2, <2>3 DEF TreeInv
<1> QED
  BY <1>6, <1>8, <1>13 DEF PrintInv

LEMMA StepPrint == PrintInv /\ Step => PrintInv'
  BY BeginStep, SkipStep, PrintNodeStep, ReturnStep DEF Step

LEMMA StutterPrint == PrintInv /\ UNCHANGED vars => PrintInv'
<1> SUFFICES ASSUME PrintInv, UNCHANGED vars
             PROVE  PrintInv'
  OBVIOUS
<1> USE DEF vars
<1>1. PrintType'
  BY DEF PrintInv, PrintType
<1>2. FoundInv'
  BY DEF PrintInv, FoundInv, Owed, Reached
<1>3. TreeInv'
  BY DEF PrintInv, TreeInv, Hangs, Owner
<1> QED
  BY <1>1, <1>2, <1>3 DEF PrintInv

-----------------------------------------------------------------------------
(* The line above is the one that the search came from. *)
LEMMA AboveIs ==
    ASSUME PrintType, NEW i \in DOMAIN lines, NEW j \in 1..(i - 1), Hangs(i, j)
    PROVE  Above(i) = j
<1>1. /\ Len(lines) \in Nat /\ i \in 1..Len(lines)
      /\ \A k \in 1..Len(lines) : lines[k].depth \in Nat
  BY OwedIs
<1>2. \A k \in 1..(i - 1) : k \in 1..Len(lines)
  BY <1>1
<1> DEFINE Up(k) == /\ lines[k].depth < lines[i].depth
                    /\ \A l \in (k + 1)..(i - 1) : lines[l].depth >= lines[i].depth
<1>3. Up(j)
  BY <1>1, <1>2 DEF Hangs
<1>4. ASSUME NEW k \in 1..(i - 1), Up(k)
      PROVE  k = j
  <2>1. ~(k < j)
    <3> SUFFICES ASSUME k < j
                 PROVE  FALSE
      OBVIOUS
    <3>1. j \in (k + 1)..(i - 1)
      OBVIOUS
    <3> QED
      BY <1>1, <1>2, <1>3, <1>4, <3>1
  <2>2. ~(j < k)
    <3> SUFFICES ASSUME j < k
                 PROVE  FALSE
      OBVIOUS
    <3>1. k \in (j + 1)..(i - 1)
      OBVIOUS
    <3> QED
      BY <1>1, <1>2, <1>3, <1>4, <3>1
  <2> QED
    BY <2>1, <2>2
<1>5. Above(i) = CHOOSE k \in 1..(i - 1) : Up(k)
  BY DEF Above
<1> QED
  BY <1>3, <1>4, <1>5

(* When a trace is finished, what was printed is closed under succ. *)
LEMMA FinishedClosed ==
    ASSUME PrintInv, stack = <<>>, lines # <<>>
    PROVE  /\ lines[1].value \in visited
           /\ \A v \in visited : succ[v] \subseteq visited
<1>1. Owed = {}
  BY DEF Owed
<1>2. 1 \in DOMAIN lines
  BY OwedIs DEF PrintInv, PrintType
<1> QED
  BY <1>1, <1>2 DEF PrintInv, FoundInv

LEMMA PrintInvTree == PrintInv => IsTree
<1> SUFFICES ASSUME PrintInv
             PROVE  IsTree
  OBVIOUS
<1>0. PrintType /\ FoundInv /\ TreeInv
  BY DEF PrintInv
<1>1. \A i, j \in DOMAIN lines : lines[i].value = lines[j].value => i = j
  BY <1>0 DEF TreeInv
<1>2. ASSUME NEW i \in DOMAIN lines \ {1}
      PROVE  /\ lines[i].depth > 0
             /\ lines[i].depth = lines[Above(i)].depth + 1
             /\ lines[i].value \in succ[lines[Above(i)].value]
  <2>1. PICK j \in 1..(i - 1) : Hangs(i, j)
    BY <1>0, <1>2 DEF TreeInv
  <2>2. Above(i) = j
    BY <1>0, <2>1, AboveIs
  <2>3. lines[j].depth \in Nat
    <3>1. j \in 1..Len(lines)
      BY <1>0, OwedIs
    <3> QED
      BY <1>0, <3>1, OwedIs
  <2> QED
    BY <2>1, <2>2, <2>3 DEF Hangs
<1>3. ASSUME lines # <<>>, stack = <<>>
      PROVE  {lines[i].value : i \in DOMAIN lines} = Reached(lines[1].value)
  <2>1. /\ lines[1].value \in visited /\ visited \in SUBSET Value
        /\ \A v \in visited : succ[v] \subseteq visited
    BY <1>0, <1>3, FinishedClosed DEF PrintType
  <2>2. Reached(lines[1].value) \subseteq visited
    BY <1>0, <2>1, ReachedLeast DEF PrintType
  <2> QED
    BY <1>0, <1>3, <2>2 DEF FoundInv
<1> QED
  BY <1>1, <1>2, <1>3 DEF IsTree

-----------------------------------------------------------------------------
(* A trace is, at every moment, a tree of the graph, for every graph and
   every order of the children; when it is finished it is all that can be
   reached.                                                                 *)
THEOREM PrintingIsTree == Spec => []IsTree
<1>1. PrintInv /\ [Step]_vars => PrintInv'
  BY StepPrint, StutterPrint
<1> QED
  BY <1>1, InitPrint, PrintInvTree, PTL DEF Spec
=============================================================================
