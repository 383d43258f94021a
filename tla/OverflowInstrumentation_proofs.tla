-------------------- MODULE OverflowInstrumentation_proofs --------------------
(* For every scale graph, set of operations and code: exactly the overflowable
   operations below a scale variable are instrumented, each once and right
   behind itself, and the IDs in the code fit the table that is created.     *)
EXTENDS OverflowInstrumentation, FiniteSetTheorems, SequenceTheorems, TLAPS

-----------------------------------------------------------------------------
(* Code as a set of items.                                                  *)

Item == [kind : ItemKind, val : Value \cup {"none"}, id : Nat]
Code == [Function -> Seq(Seq(Item))]

Place(f, b, i, e) == [fn |-> f, blk |-> b, pos |-> i, it |-> e]

(* The item before x in its block. *)
Before(x) == code[x.fn][x.blk][x.pos - 1]

LEMMA ItemAt ==
    ASSUME NEW f \in Function, NEW b \in DOMAIN code[f], NEW i \in DOMAIN code[f][b]
    PROVE  Place(f, b, i, code[f][b][i]) \in Items
BY DEF Items, Place

LEMMA ItemsAt ==
    ASSUME NEW x \in Items
    PROVE  /\ x.fn \in Function /\ x.blk \in DOMAIN code[x.fn] /\ x.pos \in DOMAIN code[x.fn][x.blk]
           /\ x.it = code[x.fn][x.blk][x.pos]
           /\ x = Place(x.fn, x.blk, x.pos, x.it)
<1>1. PICK f \in Function : \E b \in DOMAIN code[f] : \E i \in DOMAIN code[f][b] :
         x = [fn |-> f, blk |-> b, pos |-> i, it |-> code[f][b][i]]
  BY DEF Items
<1> QED
  BY <1>1 DEF Place

LEMMA ItemsType ==
    ASSUME code \in Code, NEW x \in Items
    PROVE  /\ x.fn \in Function /\ x.blk \in 1..Len(code[x.fn])
           /\ x.pos \in 1..Len(code[x.fn][x.blk]) /\ x.it \in Item
           /\ code[x.fn] \in Seq(Seq(Item)) /\ code[x.fn][x.blk] \in Seq(Item)
<1>1. /\ x.fn \in Function /\ x.blk \in DOMAIN code[x.fn] /\ x.pos \in DOMAIN code[x.fn][x.blk]
      /\ x.it = code[x.fn][x.blk][x.pos]
  BY ItemsAt
<1>2. code[x.fn] \in Seq(Seq(Item))
  BY <1>1 DEF Code
<1>3. x.blk \in 1..Len(code[x.fn]) /\ code[x.fn][x.blk] \in Seq(Item)
  BY <1>1, <1>2
<1> QED
  BY <1>1, <1>2, <1>3

(* InsertAt moves what is at the position, and all behind it, by one. *)
LEMMA InsertAtIs ==
    ASSUME NEW S, NEW s \in Seq(S), NEW i \in 1..(Len(s) + 1), NEW e \in S
    PROVE  /\ InsertAt(s, i, e) \in Seq(S)
           /\ Len(InsertAt(s, i, e)) = Len(s) + 1
           /\ InsertAt(s, i, e)[i] = e
           /\ \A j \in 1..(i - 1) : InsertAt(s, i, e)[j] = s[j]
           /\ \A j \in i..Len(s) : InsertAt(s, i, e)[j + 1] = s[j]
<1> DEFINE l == SubSeq(s, 1, i - 1)
           r == SubSeq(s, i, Len(s))
<1>1. l \in Seq(S) /\ Len(l) = i - 1 /\ \A j \in 1..(i - 1) : l[j] = s[j]
  OBVIOUS
<1>2. r \in Seq(S) /\ Len(r) = Len(s) - i + 1 /\ \A j \in 1..(Len(s) - i + 1) : r[j] = s[i + j - 1]
  OBVIOUS
<1> HIDE DEF l, r
<1>3. /\ l \o <<e>> \in Seq(S) /\ Len(l \o <<e>>) = i
      /\ \A j \in 1..i : (l \o <<e>>)[j] = IF j < i THEN s[j] ELSE e
  BY <1>1
<1> DEFINE le == l \o <<e>>
<1> HIDE DEF le
<1>4. le \in Seq(S) /\ Len(le) = i /\ \A j \in 1..i : le[j] = IF j < i THEN s[j] ELSE e
  BY <1>3 DEF le
<1>5. /\ le \o r \in Seq(S) /\ Len(le \o r) = Len(s) + 1
      /\ \A j \in 1..(Len(s) + 1) : (le \o r)[j] = IF j <= i THEN le[j] ELSE r[j - i]
  BY <1>2, <1>4, ConcatProperties
<1>6. InsertAt(s, i, e) = le \o r
  BY DEF InsertAt, le, l, r
<1>7. ASSUME NEW j \in i..Len(s)
      PROVE  (le \o r)[j + 1] = s[j]
  <2>1. j + 1 \in 1..(Len(s) + 1) /\ ~(j + 1 <= i) /\ (j + 1) - i \in 1..(Len(s) - i + 1) /\ i + ((j + 1) - i) - 1 = j
    OBVIOUS
  <2> QED
    BY <1>2, <1>5, <2>1
<1>8. i \in 1..i /\ i \in 1..(Len(s) + 1) /\ \A j \in 1..(i - 1) : j \in 1..i /\ j \in 1..(Len(s) + 1) /\ j < i
  OBVIOUS
<1> QED
  BY <1>4, <1>5, <1>6, <1>7, <1>8

(* One item is inserted into a block. *)
Shift(x, n) ==
    IF x.fn = n.fn /\ x.blk = n.blk /\ x.pos >= n.pos THEN Place(x.fn, x.blk, x.pos + 1, x.it) ELSE x

Inserts(n) ==
    /\ n = Place(n.fn, n.blk, n.pos, n.it)
    /\ n.fn \in Function /\ n.blk \in DOMAIN code[n.fn]
    /\ n.pos \in 1..(Len(code[n.fn][n.blk]) + 1) /\ n.it \in Item
    /\ code' = [code EXCEPT ![n.fn][n.blk] = InsertAt(@, n.pos, n.it)]

LEMMA CodeAfterInsert ==
    ASSUME code \in Code, NEW n, Inserts(n)
    PROVE  /\ code' \in Code
           /\ \A f \in Function : DOMAIN code'[f] = DOMAIN code[f]
           /\ \A f \in Function : \A b \in DOMAIN code[f] : f # n.fn \/ b # n.blk => code'[f][b] = code[f][b]
           /\ Len(code[n.fn][n.blk]) \in Nat
           /\ DOMAIN code'[n.fn][n.blk] = 1..(Len(code[n.fn][n.blk]) + 1)
           /\ DOMAIN code[n.fn][n.blk] = 1..Len(code[n.fn][n.blk])
           /\ code'[n.fn][n.blk][n.pos] = n.it
           /\ \A j \in 1..(n.pos - 1) : code'[n.fn][n.blk][j] = code[n.fn][n.blk][j]
           /\ \A j \in n.pos..Len(code[n.fn][n.blk]) : code'[n.fn][n.blk][j + 1] = code[n.fn][n.blk][j]
<1> DEFINE s == code[n.fn][n.blk]
           t == InsertAt(s, n.pos, n.it)
<1>1. /\ n.fn \in Function /\ n.blk \in DOMAIN code[n.fn] /\ code[n.fn] \in Seq(Seq(Item))
      /\ code' = [code EXCEPT ![n.fn][n.blk] = t]
  BY DEF Inserts, Code
<1>2. s \in Seq(Item) /\ n.pos \in 1..(Len(s) + 1) /\ n.it \in Item
  BY <1>1 DEF Inserts
<1> HIDE DEF s
<1>3. /\ t \in Seq(Item) /\ Len(t) = Len(s) + 1
      /\ t[n.pos] = n.it
      /\ \A j \in 1..(n.pos - 1) : t[j] = s[j]
      /\ \A j \in n.pos..Len(s) : t[j + 1] = s[j]
  <2>1. t \in Seq(Item)
    BY <1>2, InsertAtIs
  <2>2. Len(t) = Len(s) + 1
    BY <1>2, InsertAtIs
  <2>3. /\ t[n.pos] = n.it
        /\ \A j \in 1..(n.pos - 1) : t[j] = s[j]
        /\ \A j \in n.pos..Len(s) : t[j + 1] = s[j]
    BY <1>2, InsertAtIs
  <2> QED
    BY <2>1, <2>2, <2>3
<1>4. DOMAIN t = 1..(Len(s) + 1) /\ DOMAIN s = 1..Len(s) /\ Len(s) \in Nat
  BY <1>2, <1>3
<1> USE DEF s
<1> HIDE DEF t
<1> DEFINE u == [code[n.fn] EXCEPT ![n.blk] = t]
<1>5. /\ u \in Seq(Seq(Item)) /\ DOMAIN u = DOMAIN code[n.fn]
      /\ u[n.blk] = t /\ \A b \in DOMAIN code[n.fn] : b # n.blk => u[b] = code[n.fn][b]
  BY <1>1, <1>3
<1>6. code' = [code EXCEPT ![n.fn] = u]
  BY <1>1
<1> HIDE DEF u
<1>7. /\ code' \in Code /\ code'[n.fn] = u
      /\ \A f \in Function : f # n.fn => code'[f] = code[f]
  BY <1>1, <1>5, <1>6 DEF Code
<1> QED
  BY <1>3, <1>4, <1>5, <1>7

LEMMA ItemsAfterInsert ==
    ASSUME code \in Code, NEW n, Inserts(n)
    PROVE  /\ n \in Items'
           /\ \A x \in Items : Shift(x, n) \in Items'
           /\ \A y \in Items' : y = n \/ \E x \in Items : y = Shift(x, n)
<1> DEFINE s == code[n.fn][n.blk]
<1>1. /\ n.fn \in Function /\ n.blk \in DOMAIN code[n.fn] /\ n.pos \in 1..(Len(s) + 1)
      /\ n = Place(n.fn, n.blk, n.pos, n.it)
  BY DEF Inserts
<1>2. /\ \A f \in Function : DOMAIN code'[f] = DOMAIN code[f]
      /\ \A f \in Function : \A b \in DOMAIN code[f] : f # n.fn \/ b # n.blk => code'[f][b] = code[f][b]
      /\ Len(s) \in Nat
      /\ DOMAIN code'[n.fn][n.blk] = 1..(Len(s) + 1) /\ DOMAIN s = 1..Len(s)
      /\ code'[n.fn][n.blk][n.pos] = n.it
      /\ \A j \in 1..(n.pos - 1) : code'[n.fn][n.blk][j] = s[j]
      /\ \A j \in n.pos..Len(s) : code'[n.fn][n.blk][j + 1] = s[j]
  BY CodeAfterInsert
<1>3. \A f \in Function : \A b \in DOMAIN code'[f] : \A i \in DOMAIN code'[f][b] :
         Place(f, b, i, code'[f][b][i]) \in Items'
  BY DEF Items, Place
<1>4. n \in Items'
  <2>1. code'[n.fn][n.blk][n.pos] = n.it /\ n.pos \in DOMAIN code'[n.fn][n.blk]
    BY <1>1, <1>2
  <2> QED
    BY <1>1, <1>2, <1>3, <2>1
<1>5. ASSUME NEW x \in Items
      PROVE  Shift(x, n) \in Items'
  <2>1. /\ x.fn \in Function /\ x.blk \in DOMAIN code[x.fn] /\ x.pos \in DOMAIN code[x.fn][x.blk]
        /\ x.it = code[x.fn][x.blk][x.pos] /\ x = Place(x.fn, x.blk, x.pos, x.it)
    BY ItemsAt
  <2>2. CASE x.fn # n.fn \/ x.blk # n.blk
    <3>1. Shift(x, n) = x /\ code'[x.fn][x.blk] = code[x.fn][x.blk]
      BY <1>2, <2>1, <2>2 DEF Shift
    <3> QED
      BY <1>2, <1>3, <2>1, <3>1
  <2>3. CASE x.fn = n.fn /\ x.blk = n.blk
    <3>1. x.pos \in 1..Len(s) /\ x.it = s[x.pos]
      BY <1>2, <2>1, <2>3
    <3>2. CASE x.pos >= n.pos
      <4>1. x.pos + 1 \in 1..(Len(s) + 1) /\ x.pos \in n.pos..Len(s)
        BY <1>1, <1>2, <3>1, <3>2
      <4>2. code'[n.fn][n.blk][x.pos + 1] = x.it
        BY <1>2, <3>1, <4>1
      <4>3. Shift(x, n) = Place(n.fn, n.blk, x.pos + 1, x.it)
        BY <2>3, <3>2 DEF Shift
      <4> QED
        BY <1>1, <1>2, <1>3, <4>1, <4>2, <4>3
    <3>3. CASE ~(x.pos >= n.pos)
      <4>1. x.pos \in 1..(Len(s) + 1) /\ x.pos \in 1..(n.pos - 1)
        BY <1>1, <1>2, <3>1, <3>3
      <4>2. code'[n.fn][n.blk][x.pos] = x.it
        BY <1>2, <3>1, <4>1
      <4>3. Shift(x, n) = Place(n.fn, n.blk, x.pos, x.it)
        BY <2>1, <2>3, <3>3 DEF Shift
      <4> QED
        BY <1>1, <1>2, <1>3, <4>1, <4>2, <4>3
    <3> QED
      BY <3>2, <3>3
  <2> QED
    BY <2>2, <2>3
<1>6. ASSUME NEW y \in Items'
      PROVE  y = n \/ \E x \in Items : y = Shift(x, n)
  <2>1. PICK f \in Function : \E b \in DOMAIN code'[f] : \E i \in DOMAIN code'[f][b] :
           y = Place(f, b, i, code'[f][b][i])
    BY DEF Items, Place
  <2>2. PICK b \in DOMAIN code'[f] : \E i \in DOMAIN code'[f][b] : y = Place(f, b, i, code'[f][b][i])
    BY <2>1
  <2>3. PICK i \in DOMAIN code'[f][b] : y = Place(f, b, i, code'[f][b][i])
    BY <2>2
  <2>4. b \in DOMAIN code[f]
    BY <1>2
  <2>5. CASE f # n.fn \/ b # n.blk
    <3>1. code'[f][b] = code[f][b]
      BY <1>2, <2>4, <2>5
    <3>2. y \in Items
      BY <2>3, <2>4, <3>1, ItemAt
    <3>3. Shift(y, n) = y
      BY <2>3, <2>5 DEF Shift, Place
    <3> QED
      BY <3>2, <3>3
  <2>6. CASE f = n.fn /\ b = n.blk
    <3>0. i \in 1..(Len(s) + 1) /\ y = Place(n.fn, n.blk, i, code'[n.fn][n.blk][i])
      BY <1>2, <2>3, <2>6
    <3>1. CASE i = n.pos
      BY <1>1, <1>2, <3>0, <3>1
    <3>2. CASE i < n.pos
      <4>1. i \in DOMAIN s /\ i \in 1..(n.pos - 1) /\ y = Place(n.fn, n.blk, i, s[i])
        BY <1>1, <1>2, <3>0, <3>2
      <4>2. y \in Items
        BY <1>1, <4>1, ItemAt
      <4>3. Shift(y, n) = y
        BY <1>1, <3>0, <3>2, <4>1 DEF Shift, Place
      <4> QED
        BY <4>2, <4>3
    <3>3. CASE i > n.pos
      <4>0. i - 1 \in n.pos..Len(s) /\ i - 1 \in DOMAIN s /\ i - 1 >= n.pos /\ (i - 1) + 1 = i
        BY <1>1, <1>2, <3>0, <3>3
      <4>1. i - 1 \in DOMAIN s /\ code'[n.fn][n.blk][i] = s[i - 1] /\ i - 1 >= n.pos /\ (i - 1) + 1 = i
        BY <1>2, <4>0
      <4> DEFINE x == Place(n.fn, n.blk, i - 1, s[i - 1])
      <4>2. x \in Items
        BY <1>1, <4>1, ItemAt
      <4>3. Shift(x, n) = Place(n.fn, n.blk, i, s[i - 1])
        BY <4>1 DEF Shift, Place
      <4> QED
        BY <3>0, <4>1, <4>2, <4>3
    <3> QED
      BY <1>1, <3>0, <3>1, <3>2, <3>3
  <2> QED
    BY <2>5, <2>6
<1> QED
  BY <1>4, <1>5, <1>6

(* Everything but what stood at the place keeps the item before it. *)
LEMMA BeforeAfterInsert ==
    ASSUME code \in Code, NEW n, Inserts(n)
    PROVE  /\ \A x \in Items : /\ Shift(x, n).it = x.it /\ Shift(x, n) # n
                             /\ Shift(x, n).fn = x.fn /\ Shift(x, n).blk = x.blk
           /\ \A x, y \in Items : Shift(x, n) = Shift(y, n) => x = y
           /\ \A x \in Items : x.pos > 1 /\ ~(x.fn = n.fn /\ x.blk = n.blk /\ x.pos = n.pos)
                 => Shift(x, n).pos > 1 /\ Before(Shift(x, n))' = Before(x)
           /\ n.pos > 1 => Before(n)' = Before(n)
           /\ \A x \in Items : x.fn = n.fn /\ x.blk = n.blk /\ x.pos = n.pos
                 => Shift(x, n).pos > 1 /\ Before(Shift(x, n))' = n.it
<1> DEFINE s == code[n.fn][n.blk]
<1>1. /\ n.fn \in Function /\ n.blk \in DOMAIN code[n.fn] /\ n.pos \in 1..(Len(s) + 1)
      /\ n = Place(n.fn, n.blk, n.pos, n.it)
  BY DEF Inserts
<1>2. /\ \A f \in Function : \A b \in DOMAIN code[f] : f # n.fn \/ b # n.blk => code'[f][b] = code[f][b]
      /\ Len(s) \in Nat /\ DOMAIN s = 1..Len(s)
      /\ code'[n.fn][n.blk][n.pos] = n.it
      /\ \A j \in 1..(n.pos - 1) : code'[n.fn][n.blk][j] = s[j]
      /\ \A j \in n.pos..Len(s) : code'[n.fn][n.blk][j + 1] = s[j]
  BY CodeAfterInsert
<1>3. \A x \in Items : /\ x.fn \in Function /\ x.blk \in DOMAIN code[x.fn]
                       /\ x.pos \in Nat \ {0}
                       /\ x = Place(x.fn, x.blk, x.pos, x.it)
                       /\ x.fn = n.fn /\ x.blk = n.blk => x.pos \in 1..Len(s)
  <2>1. ASSUME NEW x \in Items
        PROVE  /\ x.fn \in Function /\ x.blk \in DOMAIN code[x.fn]
               /\ x.pos \in Nat \ {0}
               /\ x = Place(x.fn, x.blk, x.pos, x.it)
               /\ x.fn = n.fn /\ x.blk = n.blk => x.pos \in 1..Len(s)
    <3>1. /\ x.fn \in Function /\ x.blk \in DOMAIN code[x.fn] /\ x.pos \in DOMAIN code[x.fn][x.blk]
          /\ x = Place(x.fn, x.blk, x.pos, x.it)
      BY ItemsAt
    <3>2. x.pos \in 1..Len(code[x.fn][x.blk]) /\ code[x.fn][x.blk] \in Seq(Item)
      BY ItemsType
    <3> QED
      BY <3>1, <3>2
  <2> QED
    BY <2>1
<1>4. ASSUME NEW x \in Items
      PROVE  /\ Shift(x, n).it = x.it /\ Shift(x, n) # n
             /\ Shift(x, n).fn = x.fn /\ Shift(x, n).blk = x.blk
  BY <1>1, <1>3 DEF Shift, Place
<1>5. ASSUME NEW x \in Items, NEW y \in Items, Shift(x, n) = Shift(y, n)
      PROVE  x = y
  <2>1. x.fn = y.fn /\ x.blk = y.blk /\ x.it = y.it
    BY <1>4, <1>5
  <2>2. x.pos = y.pos
    BY <1>1, <1>3, <1>5, <2>1 DEF Shift, Place
  <2> QED
    BY <1>3, <2>1, <2>2
<1>6. ASSUME NEW x \in Items, x.pos > 1, ~(x.fn = n.fn /\ x.blk = n.blk /\ x.pos = n.pos)
      PROVE  Shift(x, n).pos > 1 /\ Before(Shift(x, n))' = Before(x)
  <2>1. CASE x.fn # n.fn \/ x.blk # n.blk
    <3>1. Shift(x, n) = x /\ code'[x.fn][x.blk] = code[x.fn][x.blk]
      BY <1>2, <1>3, <2>1 DEF Shift
    <3> QED
      BY <1>6, <3>1 DEF Before
  <2>2. CASE x.fn = n.fn /\ x.blk = n.blk /\ x.pos > n.pos
    <3>1. Shift(x, n) = Place(n.fn, n.blk, x.pos + 1, x.it) /\ (x.pos + 1) - 1 = x.pos
      BY <1>1, <1>2, <1>3, <2>2 DEF Shift
    <3>2. x.pos - 1 \in n.pos..Len(s) /\ (x.pos - 1) + 1 = x.pos /\ x.pos + 1 > 1
      BY <1>1, <1>2, <1>3, <2>2
    <3>3. code'[n.fn][n.blk][x.pos] = s[x.pos - 1]
      BY <1>2, <3>2
    <3> QED
      BY <2>2, <3>1, <3>2, <3>3 DEF Before, Place
  <2>3. CASE x.fn = n.fn /\ x.blk = n.blk /\ x.pos < n.pos
    <3>1. Shift(x, n) = x
      BY <1>1, <1>3, <2>3 DEF Shift
    <3>2. x.pos - 1 \in 1..(n.pos - 1)
      BY <1>1, <1>3, <1>6, <2>3
    <3> QED
      BY <1>2, <1>6, <2>3, <3>1, <3>2 DEF Before
  <2> QED
    BY <1>1, <1>3, <1>6, <2>1, <2>2, <2>3
<1>7. n.pos > 1 => Before(n)' = Before(n)
  <2>1. n.pos > 1 => n.pos - 1 \in 1..(n.pos - 1)
    BY <1>1
  <2>2. n' = n
    BY <1>1
  <2> QED
    BY <1>2, <2>1 DEF Before
<1>8. ASSUME NEW x \in Items, x.fn = n.fn, x.blk = n.blk, x.pos = n.pos
      PROVE  Shift(x, n).pos > 1 /\ Before(Shift(x, n))' = n.it
  <2>1. Shift(x, n) = Place(n.fn, n.blk, n.pos + 1, x.it) /\ (n.pos + 1) - 1 = n.pos /\ n.pos + 1 > 1
    BY <1>1, <1>8 DEF Shift
  <2> QED
    BY <1>2, <2>1 DEF Before, Place
<1> QED
  BY <1>4, <1>5, <1>6, <1>7, <1>8

LEMMA OfAfterInsert ==
    ASSUME code \in Code, NEW n, Inserts(n), NEW kind
    PROVE  /\ n.it.kind = kind => n \in Of(kind)'
           /\ \A x \in Of(kind) : Shift(x, n) \in Of(kind)'
           /\ \A y \in Of(kind)' : \/ y = n /\ n.it.kind = kind
                                  \/ \E x \in Of(kind) : y = Shift(x, n)
<1>1. /\ n \in Items' /\ \A x \in Items : Shift(x, n) \in Items' /\ Shift(x, n).it = x.it
      /\ \A y \in Items' : y = n \/ \E x \in Items : y = Shift(x, n)
  BY ItemsAfterInsert, BeforeAfterInsert
<1> QED
  BY <1>1 DEF Of

(* A set of numbers has a least one. *)
LEMMA LeastOf ==
    ASSUME NEW S \in SUBSET Nat, S # {}
    PROVE  \E i \in S : \A j \in S : i <= j
<1> DEFINE Less == {ss \in Nat \X Nat : ss[1] < ss[2]}
<1>1. IsWellFoundedOn(Less, Nat)
  BY NatLessThanWellFounded DEF OpToRel
<1> HIDE DEF Less
<1>2. PICK i \in S : \A j \in S : <<j, i>> \notin Less
  BY <1>1, WFMin
<1>3. \A j \in S : ~(j < i)
  BY <1>2 DEF Less
<1> QED
  BY <1>3

-----------------------------------------------------------------------------
(* The inductive invariant.                                                 *)

Typed == TypeOK /\ code \in Code

Kids(v) == {e[2] : e \in {d \in p.edges : d[1] = v}}

(* The search for overflowable operations.  D is what the searches from earlier
   roots have visited: it is closed under the edges.                        *)
SearchedAll(D) ==
    /\ \A v \in D : Kids(v) \subseteq D
    /\ \A v \in visited : Kids(v) \subseteq D \cup visited \cup pending
    /\ p.roots \subseteq D \cup visited \cup pending \cup todo
    /\ \A v \in D \cup visited : canIntegerOverflow(v) => v \in overflowable

SearchInv ==
    phase = "roots" =>
        /\ queue = {} /\ instr_id = 0 /\ code = Original
        /\ todo \cup pending \cup visited \cup overflowable \subseteq ReachedFromRoots
        /\ \A v \in overflowable : canIntegerOverflow(v)
        /\ \E D \in SUBSET Value : SearchedAll(D)

(* What was found, and how much of it is instrumented. *)
FoundInv ==
    /\ phase # "roots" => /\ overflowable = ScaleOperations
                          /\ instr_id = Cardinality(overflowable \ queue)
    /\ phase \in {"final", "done", "running"} => queue = {}
    /\ phase = "broken" => \E v \in queue : p.width[v] # ParamWidth

(* Where the stores are, and for which operations and IDs there is one. *)
StoreAt(x) ==
    /\ x.pos > 1 /\ Before(x) = Inst(x.it.val)
    /\ x.it.val \in overflowable \ queue /\ x.it.id \in 0..(instr_id - 1)

StoreInv ==
    /\ \A x \in Of("store") : StoreAt(x)
    /\ \A x, y \in Of("store") : x.it.val = y.it.val \/ x.it.id = y.it.id => x = y
    /\ phase # "roots" => \A v \in overflowable \ queue : \E x \in Of("store") : x.it.val = v
    /\ \A i \in 0..(instr_id - 1) : \E x \in Of("store") : x.it.id = i

(* Nothing is inserted into the main programs but stores, until oft_init_vals
   is: then it stands before every store and every call of its block.       *)
NoneYet ==
    /\ Of("init") = {} /\ Of("print") = {}
    /\ \A f \in p.mains : \E x \in Items : x.fn = f /\ x.blk = 1 /\ x.it.val \notin p.dbg

Harmless(e) == e.kind = "print" \/ (e.kind = "inst" /\ e.val \in p.dbg)

InitAt(x) ==
    /\ x.fn \in FirstMain /\ x.blk = 1 /\ x.it.id = instr_id
    /\ \A j \in 1..(x.pos - 1) : Harmless(code[x.fn][1][j])

InitInv ==
    /\ phase \in {"roots", "store", "broken"} => NoneYet
    /\ phase \in {"final", "done", "running"} =>
          /\ \A x \in Of("init") : InitAt(x)
          /\ \A x, y \in Of("init") : x = y
          /\ \A f \in FirstMain : \E x \in Of("init") : x.fn = f

PassInv == Typed /\ SearchInv /\ FoundInv /\ StoreInv /\ InitInv

-----------------------------------------------------------------------------
(* The beginning.                                                           *)

LEMMA ProgramFields ==
    ASSUME NEW q \in Programs
    PROVE  /\ q \in Program
           /\ q.edges \subseteq Value \X Value /\ q.roots \subseteq Value
           /\ q.opcode \in [Value -> Opcode] /\ q.width \in [Value -> Nat]
           /\ q.funcs \in Seq(Function) /\ q.mains \subseteq Function
           /\ q.code \in [Function -> Seq(Seq(Value))]
           /\ q.dbg \subseteq Value /\ q.finalizes \subseteq Value
           /\ WellFormed(q)
BY ProgramsAssumption DEF Program

LEMMA OriginalCode ==
    ASSUME p \in Programs, code = Original
    PROVE  /\ code \in Code
           /\ \A f \in Function : \A b \in DOMAIN code[f] : \A i \in DOMAIN code[f][b] :
                 code[f][b][i].kind = "inst"
           /\ Of("init") = {} /\ Of("print") = {} /\ Of("store") = {}
           /\ NoneYet
<1>0. /\ p.code \in [Function -> Seq(Seq(Value))] /\ WellFormed(p) /\ p.mains \subseteq Function
  BY ProgramFields
<1>1. ASSUME NEW f \in Function
      PROVE  /\ code[f] \in Seq(Seq(Item)) /\ DOMAIN code[f] = DOMAIN p.code[f]
             /\ \A b \in DOMAIN code[f] : DOMAIN code[f][b] = DOMAIN p.code[f][b]
             /\ \A b \in DOMAIN code[f] : \A i \in DOMAIN code[f][b] :
                   code[f][b][i].kind = "inst" /\ code[f][b][i].val = p.code[f][b][i]
  <2>1. p.code[f] \in Seq(Seq(Value))
    BY <1>0
  <2>2. code[f] = [b \in DOMAIN p.code[f] |-> [i \in DOMAIN p.code[f][b] |-> Inst(p.code[f][b][i])]]
    BY DEF Original
  <2>3. ASSUME NEW b \in DOMAIN p.code[f]
        PROVE  code[f][b] \in Seq(Item)
    <3>1. p.code[f][b] \in Seq(Value)
      BY <2>1
    <3> DEFINE s == p.code[f][b]
    <3>2. s \in Seq(Value) /\ code[f][b] = [i \in DOMAIN s |-> Inst(s[i])]
      BY <2>2, <3>1
    <3> HIDE DEF s
    <3>3. \A i \in DOMAIN s : Inst(s[i]) \in Item
      BY <3>2 DEF Inst, Item, ItemKind
    <3> QED
      BY <3>2, <3>3
  <2>4. code[f] \in Seq(Seq(Item))
    <3> DEFINE t == p.code[f]
    <3>1. t \in Seq(Seq(Value)) /\ DOMAIN code[f] = DOMAIN t
      BY <2>1, <2>2
    <3>2. code[f] = [b \in DOMAIN t |-> code[f][b]] /\ \A b \in DOMAIN t : code[f][b] \in Seq(Item)
      BY <2>2, <2>3
    <3> HIDE DEF t
    <3>3. DOMAIN t = 1..Len(t) /\ Len(t) \in Nat
      BY <3>1
    <3> QED
      BY <3>2, <3>3
  <2>5. ASSUME NEW b \in DOMAIN p.code[f]
        PROVE  /\ DOMAIN code[f][b] = DOMAIN p.code[f][b]
               /\ \A i \in DOMAIN code[f][b] :
                     code[f][b][i].kind = "inst" /\ code[f][b][i].val = p.code[f][b][i]
    <3>1. code[f][b] = [i \in DOMAIN p.code[f][b] |-> Inst(p.code[f][b][i])]
      BY <2>2
    <3> QED
      BY <3>1 DEF Inst
  <2> QED
    BY <2>2, <2>4, <2>5
<1>2. \A f \in Function : \A b \in DOMAIN code[f] : \A i \in DOMAIN code[f][b] :
         code[f][b][i].kind = "inst" /\ code[f][b][i].val = p.code[f][b][i]
  BY <1>1
<1>3. code \in Code
  BY <1>1 DEF Code, Original
<1>4. \A x \in Items : x.it.kind = "inst"
  BY <1>2, ItemsAt
<1>5. ASSUME NEW f \in p.mains
      PROVE  \E x \in Items : x.fn = f /\ x.blk = 1 /\ x.it.val \notin p.dbg
  <2>1. f \in Function /\ p.code[f] # <<>> /\ p.code[f] \in Seq(Seq(Value))
    BY <1>0 DEF WellFormed
  <2>2. 1 \in DOMAIN p.code[f]
    BY <2>1
  <2>3. PICK i \in DOMAIN p.code[f][1] : p.code[f][1][i] \notin p.dbg
    BY <1>0 DEF WellFormed
  <2>4. 1 \in DOMAIN code[f] /\ i \in DOMAIN code[f][1]
    BY <1>1, <2>1, <2>2, <2>3
  <2>6. code[f][1][i].val \notin p.dbg
    BY <1>2, <2>1, <2>3, <2>4
  <2>5. Place(f, 1, i, code[f][1][i]) \in Items
    BY <2>1, <2>4, ItemAt
  <2> QED
    BY <2>4, <2>5, <2>6 DEF Place
<1> QED
  BY <1>2, <1>3, <1>4, <1>5 DEF Of, NoneYet

LEMMA ReachedIs ==
    /\ ReachedFromRoots \subseteq Value
    /\ p \in Programs => /\ p.roots \subseteq ReachedFromRoots
                         /\ \A v \in ReachedFromRoots : Kids(v) \subseteq ReachedFromRoots
    /\ \A S \in SUBSET Value : p.roots \subseteq S /\ (\A v \in S : Kids(v) \subseteq S)
          => ReachedFromRoots \subseteq S
<1>1. ReachedFromRoots \subseteq Value
  BY DEF ReachedFromRoots
<1>2. ASSUME p \in Programs
      PROVE  p.roots \subseteq ReachedFromRoots /\ \A v \in ReachedFromRoots : Kids(v) \subseteq ReachedFromRoots
  BY <1>2, ProgramFields DEF ReachedFromRoots, Kids
<1>3. ASSUME NEW S \in SUBSET Value, p.roots \subseteq S, \A v \in S : Kids(v) \subseteq S
      PROVE  ReachedFromRoots \subseteq S
  <2>1. \A e \in p.edges : e[1] \in S => e[2] \in S
    BY <1>3 DEF Kids
  <2> QED
    BY <1>3, <2>1 DEF ReachedFromRoots
<1> QED
  BY <1>1, <1>2, <1>3

LEMMA InitPass == Init => PassInv /\ p \in Programs
<1> SUFFICES ASSUME Init
             PROVE  PassInv
  BY DEF Init
<1> USE DEF Init
<1>1. /\ code \in Code /\ Of("init") = {} /\ Of("print") = {} /\ Of("store") = {} /\ NoneYet
  BY OriginalCode
<1>2. TypeOK
  <2>1. p \in Program /\ p.roots \subseteq Value
    BY ProgramFields
  <2>2. Cardinality(Value) \in Nat
    BY ValueAssumption, FS_CardinalityType
  <2>3. DOMAIN code = Function /\ \A x \in Items : x.it.kind \in ItemKind /\ x.it.id \in Nat
    BY <1>1, ItemsType DEF Code, Item
  <2> QED
    BY <2>1, <2>2, <2>3 DEF TypeOK
<1>3. SearchInv
  <2>1. SearchedAll({})
    BY DEF SearchedAll
  <2>2. p.roots \subseteq ReachedFromRoots
    BY ReachedIs
  <2> QED
    BY <2>1, <2>2 DEF SearchInv
<1>4. StoreInv
  BY <1>1 DEF StoreInv
<1> QED
  BY <1>1, <1>2, <1>3, <1>4 DEF PassInv, Typed, FoundInv, InitInv

-----------------------------------------------------------------------------
(* The search.                                                              *)

LEMMA CodeKept ==
    ASSUME UNCHANGED <<p, code>>
    PROVE  /\ Items' = Items /\ \A x : Before(x)' = Before(x)
           /\ Of("store")' = Of("store") /\ Of("init")' = Of("init") /\ Of("print")' = Of("print")
           /\ Original' = Original /\ NoneYet' = NoneYet /\ FirstMain' = FirstMain
           /\ ReachedFromRoots' = ReachedFromRoots /\ ScaleOperations' = ScaleOperations
<1>1. Items' = Items
  BY DEF Items
<1>2. Of("store")' = Of("store") /\ Of("init")' = Of("init") /\ Of("print")' = Of("print")
  BY <1>1 DEF Of
<1>3. /\ Original' = Original /\ FirstMain' = FirstMain
      /\ ReachedFromRoots' = ReachedFromRoots /\ ScaleOperations' = ScaleOperations
  BY DEF Original, FirstMain, ReachedFromRoots, ScaleOperations, OverflowOps
<1> QED
  BY <1>1, <1>2, <1>3 DEF Before, NoneYet

(* What a step of the search leaves alone. *)
LEMMA SearchKeeps ==
    ASSUME PassInv, p \in Programs, phase = "roots",
           UNCHANGED <<p, phase, queue, instr_id, code>>,
           todo' \cup pending' \cup visited' \cup overflowable' \subseteq Value,
           SearchInv'
    PROVE  PassInv'
<1>0. Typed /\ SearchInv /\ FoundInv /\ StoreInv /\ InitInv
  BY DEF PassInv
<1>1. queue = {} /\ instr_id = 0 /\ code = Original
  BY <1>0 DEF SearchInv
<1>2. Of("store")' = {} /\ NoneYet' /\ Items' = Items
  BY <1>1, OriginalCode, CodeKept
<1>3. Typed'
  BY <1>0, <1>1, <1>2 DEF Typed, TypeOK
<1>4. FoundInv'
  BY DEF FoundInv
<1>5. StoreInv'
  BY <1>1, <1>2 DEF StoreInv
<1>6. InitInv'
  BY <1>2 DEF InitInv
<1> QED
  BY <1>3, <1>4, <1>5, <1>6 DEF PassInv

LEMMA TakeRootStep ==
    ASSUME PassInv, p \in Programs, NEW v \in Value, TakeRoot(v)
    PROVE  PassInv'
<1>0. /\ phase = "roots" /\ pending = {} /\ v \in todo /\ todo' = todo \ {v}
      /\ visited' = {} /\ pending' = {v}
      /\ UNCHANGED <<p, phase, overflowable, queue, instr_id, code>>
  BY DEF TakeRoot
<1>1. Typed /\ SearchInv /\ todo \subseteq Value /\ visited \subseteq Value /\ overflowable \subseteq Value
  BY DEF PassInv, Typed, TypeOK
<1>2. PICK D \in SUBSET Value : SearchedAll(D)
  BY <1>0, <1>1 DEF SearchInv
<1>3. PICK E \in SUBSET Value : E = D \cup visited
  BY <1>1
<1>4. \A u : canIntegerOverflow(u)' = canIntegerOverflow(u) /\ Kids(u)' = Kids(u)
  BY <1>0 DEF canIntegerOverflow, OverflowOps, Kids
<1>5. SearchedAll(E)'
  BY <1>0, <1>2, <1>3, <1>4 DEF SearchedAll
<1>6. SearchInv'
  <2>1. Original' = Original /\ ReachedFromRoots' = ReachedFromRoots
    BY <1>0, CodeKept
  <2> QED
    BY <1>0, <1>1, <1>4, <1>5, <2>1 DEF SearchInv
<1> QED
  BY <1>0, <1>1, <1>6, SearchKeeps

LEMMA SkipStep ==
    ASSUME PassInv, p \in Programs, NEW v \in Value, Skip(v)
    PROVE  PassInv'
<1>0. /\ phase = "roots" /\ v \in pending /\ v \in visited /\ pending' = pending \ {v}
      /\ UNCHANGED <<p, phase, todo, visited, overflowable, queue, instr_id, code>>
  BY DEF Skip
<1>1. /\ Typed /\ SearchInv /\ todo \subseteq Value /\ visited \subseteq Value
      /\ overflowable \subseteq Value /\ pending \subseteq Value
  BY DEF PassInv, Typed, TypeOK
<1>2. PICK D \in SUBSET Value : SearchedAll(D)
  BY <1>0, <1>1 DEF SearchInv
<1>3. SearchedAll(D)'
  BY <1>0, <1>2 DEF SearchedAll, Kids, canIntegerOverflow, OverflowOps
<1>4. SearchInv'
  <2>2. \A u : canIntegerOverflow(u)' = canIntegerOverflow(u)
    BY <1>0 DEF canIntegerOverflow, OverflowOps
  <2>3. Original' = Original /\ ReachedFromRoots' = ReachedFromRoots
    BY <1>0, CodeKept
  <2> QED
    BY <1>0, <1>1, <1>3, <2>2, <2>3 DEF SearchInv
<1> QED
  BY <1>0, <1>1, <1>4, SearchKeeps

LEMMA FindStep ==
    ASSUME PassInv, p \in Programs, NEW v \in Value, findInstructions(v)
    PROVE  PassInv'
<1>0. /\ phase = "roots" /\ v \in pending /\ visited' = visited \cup {v}
      /\ overflowable' = IF canIntegerOverflow(v) THEN overflowable \cup {v} ELSE overflowable
      /\ pending' = (pending \ {v}) \cup Kids(v)
      /\ UNCHANGED <<p, phase, todo, queue, instr_id, code>>
  BY DEF findInstructions, Kids
<1>1. /\ Typed /\ SearchInv /\ todo \subseteq Value /\ visited \subseteq Value
      /\ overflowable \subseteq Value /\ pending \subseteq Value
  BY DEF PassInv, Typed, TypeOK
<1>2. PICK D \in SUBSET Value : SearchedAll(D)
  BY <1>0, <1>1 DEF SearchInv
<1>3. \A u : canIntegerOverflow(u)' = canIntegerOverflow(u) /\ Kids(u)' = Kids(u)
  BY <1>0 DEF canIntegerOverflow, OverflowOps, Kids
<1>4. SearchedAll(D)'
  BY <1>0, <1>2, <1>3 DEF SearchedAll
<1>5. Kids(v) \subseteq ReachedFromRoots /\ ReachedFromRoots \subseteq Value
  BY <1>0, <1>1, ReachedIs DEF SearchInv
<1>6. SearchInv'
  <2>1. Original' = Original /\ ReachedFromRoots' = ReachedFromRoots
    BY <1>0, CodeKept
  <2>2. todo' \cup pending' \cup visited' \cup overflowable' \subseteq ReachedFromRoots
    BY <1>0, <1>1, <1>5 DEF SearchInv
  <2>3. \A u \in overflowable' : canIntegerOverflow(u)'
    BY <1>0, <1>1, <1>3 DEF SearchInv
  <2> QED
    BY <1>0, <1>1, <1>4, <2>1, <2>2, <2>3 DEF SearchInv
<1> QED
  BY <1>0, <1>1, <1>5, <1>6, SearchKeeps

(* The search ends with the overflowable operations below a scale variable. *)
LEMMA EndDetectionStep ==
    ASSUME PassInv, p \in Programs, EndDetection
    PROVE  PassInv'
<1>0. /\ phase = "roots" /\ pending = {} /\ todo = {} /\ queue' = overflowable /\ phase' = "store"
      /\ UNCHANGED <<p, todo, pending, visited, overflowable, instr_id, code>>
  BY DEF EndDetection
<1>1. Typed /\ SearchInv /\ InitInv
  BY DEF PassInv
<1>2. PICK D \in SUBSET Value : SearchedAll(D)
  BY <1>0, <1>1 DEF SearchInv
<1>3. ReachedFromRoots \subseteq D \cup visited
  <2>1. D \cup visited \in SUBSET Value
    BY <1>1 DEF Typed, TypeOK
  <2>2. p.roots \subseteq D \cup visited /\ \A v \in D \cup visited : Kids(v) \subseteq D \cup visited
    BY <1>0, <1>2 DEF SearchedAll
  <2> QED
    BY <2>1, <2>2, ReachedIs
<1>4. overflowable = ScaleOperations
  BY <1>0, <1>1, <1>2, <1>3 DEF SearchInv, SearchedAll, ScaleOperations, canIntegerOverflow
<1>5. /\ instr_id = 0 /\ Of("store")' = {} /\ NoneYet' /\ Items' = Items
      /\ ScaleOperations' = ScaleOperations
  BY <1>0, <1>1, OriginalCode, CodeKept DEF SearchInv
<1>6. overflowable' \ queue' = {} /\ Cardinality({}) = 0
  BY <1>0, FS_EmptySet
<1>7. Typed'
  BY <1>0, <1>1, <1>5 DEF Typed, TypeOK
<1>8. FoundInv'
  BY <1>0, <1>4, <1>5, <1>6 DEF FoundInv
<1>9. StoreInv'
  BY <1>0, <1>5, <1>6 DEF StoreInv
<1>10. SearchInv' /\ InitInv'
  BY <1>0, <1>5 DEF SearchInv, InitInv
<1> QED
  BY <1>7, <1>8, <1>9, <1>10 DEF PassInv

-----------------------------------------------------------------------------
(* The stores.                                                              *)

LEMMA StoreCallInserted ==
    ASSUME code \in Code, instr_id \in Nat, NEW v \in Value, instrumentInstruction(v)
    PROVE  \E n : /\ Inserts(n) /\ n.it = StoreOf(v, instr_id)
                  /\ n.pos > 1 /\ Before(n) = Inst(v)
<1>1. PICK x \in Items : /\ x.it = Inst(v)
                        /\ code' = [code EXCEPT ![x.fn][x.blk] = InsertAt(@, x.pos + 1, StoreOf(v, instr_id))]
  BY DEF instrumentInstruction
<1>2. /\ x.fn \in Function /\ x.blk \in DOMAIN code[x.fn] /\ x.pos \in 1..Len(code[x.fn][x.blk])
      /\ x.it = code[x.fn][x.blk][x.pos] /\ code[x.fn][x.blk] \in Seq(Item)
  BY ItemsAt, ItemsType
<1>3. PICK n : n = Place(x.fn, x.blk, x.pos + 1, StoreOf(v, instr_id))
  OBVIOUS
<1>4. n.fn = x.fn /\ n.blk = x.blk /\ n.pos = x.pos + 1 /\ n.it = StoreOf(v, instr_id)
  BY <1>3 DEF Place
<1>5. Inserts(n)
  <2>1. n.it \in Item
    BY <1>4 DEF Item, ItemKind, StoreOf
  <2>2. n.pos \in 1..(Len(code[n.fn][n.blk]) + 1)
    <3>1. Len(code[x.fn][x.blk]) \in Nat
      BY <1>2
    <3>2. x.pos + 1 \in 1..(Len(code[x.fn][x.blk]) + 1)
      BY <1>2, <3>1
    <3> QED
      BY <1>4, <3>2
  <2> QED
    BY <1>1, <1>2, <1>3, <1>4, <2>1, <2>2 DEF Inserts
<1>6. n.pos > 1 /\ n.pos - 1 = x.pos
  BY <1>2, <1>4
<1>7. Before(n) = Inst(v)
  BY <1>1, <1>2, <1>4, <1>6 DEF Before
<1> QED
  BY <1>4, <1>5, <1>6, <1>7

LEMMA StoreStep ==
    ASSUME PassInv, p \in Programs, NEW v \in Value, instrumentInstruction(v)
    PROVE  PassInv'
<1>0. /\ phase = "store" /\ v \in queue /\ instr_id' = instr_id + 1 /\ queue' = queue \ {v}
      /\ UNCHANGED <<p, phase, todo, pending, visited, overflowable>>
  BY DEF instrumentInstruction
<1>1. /\ Typed /\ TypeOK /\ FoundInv /\ StoreInv /\ InitInv /\ NoneYet
      /\ code \in Code /\ instr_id \in Nat /\ queue \subseteq overflowable /\ overflowable \subseteq Value
  <2>1. Cardinality(Value) \in Nat
    BY ValueAssumption, FS_CardinalityType
  <2> QED
    BY <1>0, <2>1 DEF PassInv, InitInv, Typed, TypeOK
<1>2. PICK n : /\ Inserts(n) /\ n.it = StoreOf(v, instr_id)
               /\ n.pos > 1 /\ Before(n) = Inst(v)
  BY <1>1, StoreCallInserted
<1>5. n.it.kind = "store" /\ n.it.val = v /\ n.it.id = instr_id
  BY <1>2 DEF StoreOf
<1>6. Inserts(n)
  BY <1>2
<1>7. code' \in Code
  BY <1>1, <1>6, CodeAfterInsert
<1>8. n.pos > 1 /\ Before(n) = Inst(v) /\ Before(n)' = Inst(v)
  BY <1>1, <1>2, <1>6, BeforeAfterInsert
<1>9. /\ v \notin overflowable \ queue
      /\ overflowable' \ queue' = (overflowable \ queue) \cup {v}
  BY <1>0, <1>1
<1>10. /\ \A y \in Of("store") : Shift(y, n) \in Of("store")'
       /\ n \in Of("store")'
       /\ \A y \in Of("store")' : y = n \/ \E z \in Of("store") : y = Shift(z, n)
  <2>1. /\ n.it.kind = "store" => n \in Of("store")'
        /\ \A y \in Of("store") : Shift(y, n) \in Of("store")'
        /\ \A y \in Of("store")' : \/ y = n /\ n.it.kind = "store"
                                  \/ \E z \in Of("store") : y = Shift(z, n)
    BY <1>1, <1>6, OfAfterInsert
  <2> QED
    BY <1>5, <2>1
<1>11. \A y \in Of("store") : y \in Items /\ y.it.kind = "store"
  BY DEF Of
<1>12. \A y \in Items : Shift(y, n).it = y.it
  BY <1>1, <1>6, BeforeAfterInsert
<1>13. Typed'
  <2>1. /\ DOMAIN code' = Function
        /\ \A y \in Items' : y.it.kind \in ItemKind /\ y.it.id \in Nat
    <3>1. \A y \in Items : y.it.kind \in ItemKind /\ y.it.id \in Nat
      BY <1>1 DEF TypeOK
    <3>2. \A y \in Items' : y = n \/ \E z \in Items : y = Shift(z, n)
      BY <1>1, <1>6, ItemsAfterInsert
    <3> QED
      BY <1>1, <1>5, <1>7, <1>12, <3>1, <3>2 DEF Code, ItemKind
  <2>2. instr_id' \in 0..Cardinality(Value)
    <3>1. instr_id = Cardinality(overflowable \ queue)
      BY <1>0, <1>1 DEF FoundInv
    <3>2. IsFiniteSet(overflowable \ queue)
      BY <1>1, ValueAssumption, FS_Subset
    <3>3. Cardinality((overflowable \ queue) \cup {v}) = instr_id + 1
      BY <1>9, <3>1, <3>2, FS_AddElement
    <3>4. (overflowable \ queue) \cup {v} \in SUBSET Value
      BY <1>1
    <3>5. Cardinality((overflowable \ queue) \cup {v}) <= Cardinality(Value)
      BY <3>4, ValueAssumption, FS_Subset
    <3>6. Cardinality(Value) \in Nat
      BY ValueAssumption, FS_CardinalityType
    <3> QED
      BY <1>0, <1>1, <3>3, <3>5, <3>6
  <2> QED
    BY <1>0, <1>1, <1>7, <2>1, <2>2 DEF Typed, TypeOK
<1>14. FoundInv'
  <2>1. ScaleOperations' = ScaleOperations
    BY <1>0 DEF ScaleOperations, ReachedFromRoots, OverflowOps
  <2>2. instr_id' = Cardinality(overflowable' \ queue')
    <3>1. instr_id = Cardinality(overflowable \ queue)
      BY <1>0, <1>1 DEF FoundInv
    <3>2. IsFiniteSet(overflowable \ queue)
      BY <1>1, ValueAssumption, FS_Subset
    <3> QED
      BY <1>0, <1>9, <3>1, <3>2, FS_AddElement
  <2> QED
    BY <1>0, <1>1, <2>1, <2>2 DEF FoundInv
<1>15. StoreInv'
  <2>1. ASSUME NEW y \in Of("store")
        PROVE  StoreAt(Shift(y, n))'
    <3>1. StoreAt(y) /\ y \in Items
      BY <1>1, <1>11 DEF StoreInv
    <3>2. ~(y.fn = n.fn /\ y.blk = n.blk /\ y.pos = n.pos)
      <4>1. y.it.val # v
        BY <1>9, <3>1 DEF StoreAt
      <4> QED
        BY <1>8, <3>1, <4>1 DEF StoreAt, Before, Inst
    <3>3. Shift(y, n).pos > 1 /\ Before(Shift(y, n))' = Before(y)
      BY <1>1, <1>6, <3>1, <3>2, BeforeAfterInsert DEF StoreAt
    <3>4. PICK z : z = Shift(y, n)
      OBVIOUS
    <3>5. StoreAt(z)'
      BY <1>0, <1>1, <1>9, <1>12, <3>1, <3>3, <3>4 DEF StoreAt, Inst
    <3> QED
      BY <3>4, <3>5
  <2>2. StoreAt(n)'
    BY <1>0, <1>1, <1>5, <1>8, <1>9 DEF StoreAt, Inst
  <2>3. \A y \in Of("store")' : StoreAt(y)'
    BY <1>10, <2>1, <2>2
  <2>4. ASSUME NEW y \in Of("store")', NEW z \in Of("store")', y.it.val = z.it.val \/ y.it.id = z.it.id
        PROVE  y = z
    <3>1. \A w \in Of("store") : /\ Shift(w, n).it.val # v /\ Shift(w, n).it.id # instr_id
                                 /\ Shift(w, n).it = w.it
      BY <1>1, <1>9, <1>11, <1>12 DEF StoreInv, StoreAt
    <3>2. \A w, u \in Of("store") : w.it.val = u.it.val \/ w.it.id = u.it.id => w = u
      BY <1>1 DEF StoreInv
    <3> QED
      BY <1>5, <1>10, <2>4, <3>1, <3>2
  <2>5. \A u \in overflowable' \ queue' : \E y \in Of("store")' : y.it.val = u
    <3>1. \A u \in overflowable \ queue : \E y \in Of("store") : y.it.val = u
      BY <1>0, <1>1 DEF StoreInv
    <3> QED
      BY <1>5, <1>9, <1>10, <1>11, <1>12, <3>1
  <2>6. ASSUME NEW i \in 0..(instr_id' - 1)
        PROVE  \E y \in Of("store")' : y.it.id = i
    <3>1. i = instr_id \/ i \in 0..(instr_id - 1)
      BY <1>0, <1>1
    <3>2. \A k \in 0..(instr_id - 1) : \E y \in Of("store") : y.it.id = k
      BY <1>1 DEF StoreInv
    <3> QED
      BY <1>5, <1>10, <1>11, <1>12, <3>1, <3>2
  <2> QED
    BY <2>3, <2>4, <2>5, <2>6 DEF StoreInv
<1>16. SearchInv'
  BY <1>0 DEF SearchInv
<1>17. InitInv'
  <2>1. Of("init")' = {} /\ Of("print")' = {}
    <3>1. Of("init") = {} /\ Of("print") = {}
      BY <1>1 DEF NoneYet
    <3>2. \A y \in Of("init")' : (y = n /\ n.it.kind = "init") \/ \E z \in Of("init") : y = Shift(z, n)
      BY <1>1, <1>6, OfAfterInsert
    <3>3. \A y \in Of("print")' : (y = n /\ n.it.kind = "print") \/ \E z \in Of("print") : y = Shift(z, n)
      BY <1>1, <1>6, OfAfterInsert
    <3> QED
      BY <1>5, <3>1, <3>2, <3>3
  <2>2. ASSUME NEW f \in p.mains
        PROVE  \E y \in Items' : y.fn = f /\ y.blk = 1 /\ y.it.val \notin p.dbg
    <3>1. PICK y \in Items : y.fn = f /\ y.blk = 1 /\ y.it.val \notin p.dbg
      BY <1>1 DEF NoneYet
    <3>2. Shift(y, n) \in Items'
      BY <1>1, <1>6, ItemsAfterInsert
    <3>3. Shift(y, n).fn = y.fn /\ Shift(y, n).blk = y.blk /\ Shift(y, n).it = y.it
      BY <1>1, <1>6, BeforeAfterInsert
    <3> QED
      BY <3>1, <3>2, <3>3
  <2>3. NoneYet'
    BY <1>0, <2>1, <2>2 DEF NoneYet
  <2> QED
    BY <1>0, <2>3 DEF InitInv
<1> QED
  BY <1>13, <1>14, <1>15, <1>16, <1>17 DEF PassInv

-----------------------------------------------------------------------------
(* The calls of oft_init_vals and oft_print_max_vals.                       *)

(* A step that inserts nothing. *)
LEMMA PhaseStep ==
    ASSUME PassInv, phase # "roots", phase' \in {"final", "done", "broken", "running"},
           UNCHANGED <<p, todo, pending, visited, overflowable, queue, instr_id, code>>,
           FoundInv', InitInv'
    PROVE  PassInv'
<1>0. Typed /\ StoreInv
  BY DEF PassInv
<1>1. /\ Items' = Items /\ Of("store")' = Of("store") /\ \A x : Before(x)' = Before(x)
  BY CodeKept
<1>2. Typed'
  BY <1>0, <1>1 DEF Typed, TypeOK
<1>3. StoreInv'
  BY <1>0, <1>1 DEF StoreInv, StoreAt, Inst
<1>4. SearchInv'
  BY DEF SearchInv
<1> QED
  BY <1>2, <1>3, <1>4 DEF PassInv

(* A step that inserts something else than a store, and in front of none. *)
LEMMA InsertKeeps ==
    ASSUME PassInv, phase \in {"store", "final"}, phase' = "final", queue = {},
           UNCHANGED <<p, todo, pending, visited, overflowable, queue, instr_id>>,
           NEW n, Inserts(n), n.it.kind # "store",
           \A y \in Of("store") : ~(y.fn = n.fn /\ y.blk = n.blk /\ y.pos = n.pos),
           InitInv'
    PROVE  PassInv'
<1>0. Typed /\ TypeOK /\ code \in Code /\ FoundInv /\ StoreInv
  BY DEF PassInv, Typed
<1>1. code' \in Code
  BY <1>0, CodeAfterInsert
<1>2. \A y \in Items : Shift(y, n).it = y.it
  BY <1>0, BeforeAfterInsert
<1>3. Typed'
  <2>1. \A y \in Items : y.it.kind \in ItemKind /\ y.it.id \in Nat
    BY <1>0 DEF TypeOK
  <2>2. \A y \in Items' : y = n \/ \E z \in Items : y = Shift(z, n)
    BY <1>0, ItemsAfterInsert
  <2>3. n.it \in Item
    BY DEF Inserts
  <2>4. \A y \in Items' : y.it.kind \in ItemKind /\ y.it.id \in Nat
    BY <1>2, <2>1, <2>2, <2>3 DEF Item
  <2>5. DOMAIN code' = Function
    BY <1>1 DEF Code
  <2> QED
    BY <1>0, <1>1, <2>4, <2>5 DEF Typed, TypeOK
<1>4. FoundInv'
  BY <1>0 DEF FoundInv, ScaleOperations, ReachedFromRoots, OverflowOps
<1>5. StoreInv'
  <2>1. \A y \in Of("store") : y \in Items
    BY DEF Of
  <2>2. /\ \A y \in Of("store") : Shift(y, n) \in Of("store")'
        /\ \A y \in Of("store")' : \E z \in Of("store") : y = Shift(z, n)
    BY <1>0, OfAfterInsert
  <2>3. ASSUME NEW y \in Of("store")
        PROVE  StoreAt(Shift(y, n))'
    <3>1. StoreAt(y) /\ y \in Items
      BY <1>0, <2>1 DEF StoreInv
    <3>2. Shift(y, n).pos > 1 /\ Before(Shift(y, n))' = Before(y)
      BY <1>0, <3>1, BeforeAfterInsert DEF StoreAt
    <3>3. PICK z : z = Shift(y, n)
      OBVIOUS
    <3>4. StoreAt(z)'
      BY <1>2, <3>1, <3>2, <3>3 DEF StoreAt, Inst
    <3> QED
      BY <3>3, <3>4
  <2>4. \A y \in Of("store")' : StoreAt(y)'
    BY <2>2, <2>3
  <2>5. ASSUME NEW y \in Of("store")', NEW z \in Of("store")', y.it.val = z.it.val \/ y.it.id = z.it.id
        PROVE  y = z
    <3>1. \A w, u \in Of("store") : w.it.val = u.it.val \/ w.it.id = u.it.id => w = u
      BY <1>0 DEF StoreInv
    <3> QED
      BY <1>2, <2>1, <2>2, <2>5, <3>1
  <2>6. \A u \in overflowable' \ queue' : \E y \in Of("store")' : y.it.val = u
    <3>1. \A u \in overflowable \ queue : \E y \in Of("store") : y.it.val = u
      BY <1>0 DEF StoreInv
    <3> QED
      BY <1>2, <2>1, <2>2, <3>1
  <2>7. \A i \in 0..(instr_id' - 1) : \E y \in Of("store")' : y.it.id = i
    <3>1. \A i \in 0..(instr_id - 1) : \E y \in Of("store") : y.it.id = i
      BY <1>0 DEF StoreInv
    <3> QED
      BY <1>2, <2>1, <2>2, <3>1
  <2> QED
    BY <2>4, <2>5, <2>6, <2>7 DEF StoreInv
<1>6. SearchInv'
  BY DEF SearchInv
<1> QED
  BY <1>3, <1>4, <1>5, <1>6 DEF PassInv

(* There is one first main program, if there is any. *)
LEMMA FirstMainIs ==
    ASSUME p \in Programs
    PROVE  /\ p.mains = {} => FirstMain = {}
           /\ p.mains # {} => \E f \in p.mains : FirstMain = {f}
<1>1. p.mains = {} => FirstMain = {}
  BY DEF FirstMain
<1>2. ASSUME p.mains # {}
      PROVE  \E f \in p.mains : FirstMain = {f}
  <2>1. p.funcs \in Seq(Function) /\ p.mains \subseteq ToSet(p.funcs)
    BY ProgramFields DEF WellFormed
  <2> DEFINE S == {k \in DOMAIN p.funcs : p.funcs[k] \in p.mains}
  <2>2. DOMAIN p.funcs = 1..Len(p.funcs) /\ S \in SUBSET Nat
    BY <2>1
  <2>3. S # {}
    BY <1>2, <2>1 DEF ToSet
  <2>4. PICK i \in S : \A j \in S : i <= j
    <3> HIDE DEF S
    <3> QED
      BY <2>2, <2>3, LeastOf
  <2>5. \A j \in 1..(i - 1) : p.funcs[j] \notin p.mains
    <3>1. \A j \in 1..(i - 1) : j \in DOMAIN p.funcs /\ ~(i <= j)
      BY <2>2, <2>4
    <3> QED
      BY <2>4, <3>1
  <2>6. ASSUME NEW k \in S, \A j \in 1..(k - 1) : p.funcs[j] \notin p.mains
        PROVE  k = i
    <3>1. ~(i \in 1..(k - 1))
      BY <2>4, <2>6
    <3> QED
      BY <2>2, <2>4, <3>1
  <2>7. FirstMain = {p.funcs[i]}
    BY <2>4, <2>5, <2>6 DEF FirstMain
  <2> QED
    BY <2>4, <2>7
<1> QED
  BY <1>1, <1>2

(* getFirstNonPHIOrDbg finds a position where there is one. *)
LEMMA FirstNonDbgIs ==
    ASSUME NEW s \in Seq(Item), \E i \in DOMAIN s : s[i].val \notin p.dbg
    PROVE  /\ FirstNonDbg(s) \in DOMAIN s /\ s[FirstNonDbg(s)].val \notin p.dbg
           /\ \A j \in 1..(FirstNonDbg(s) - 1) : s[j].val \in p.dbg
<1> DEFINE S == {k \in DOMAIN s : s[k].val \notin p.dbg}
<1>1. DOMAIN s = 1..Len(s) /\ S \in SUBSET Nat /\ S # {}
  OBVIOUS
<1>2. PICK i \in S : \A j \in S : i <= j
  <2> HIDE DEF S
  <2> QED
    BY <1>1, LeastOf
<1>3. \A j \in 1..(i - 1) : s[j].val \in p.dbg
  <2>1. \A j \in 1..(i - 1) : j \in DOMAIN s /\ ~(i <= j)
    BY <1>1, <1>2
  <2> QED
    BY <1>2, <2>1
<1> QED
  BY <1>2, <1>3 DEF FirstNonDbg

(* The call of oft_init_vals, if there is a main program, goes in front of the
   first item of its entry block that is not of a debug intrinsic.          *)
LEMMA InitCallInserted ==
    ASSUME PassInv, p \in Programs, initInstrumentation, NEW f \in p.mains, FirstMain = {f}
    PROVE  \E n : /\ Inserts(n) /\ n.fn = f /\ n.blk = 1 /\ n.it = InitCall(instr_id)
                  /\ n.pos \in DOMAIN code[f][1] /\ code[f][1][n.pos].val \notin p.dbg
                  /\ \A j \in 1..(n.pos - 1) : code[f][1][j].val \in p.dbg
<1>0. /\ phase = "store"
      /\ code' = [g \in Function |-> IF g \in FirstMain
                                     THEN WithInit(code[g], FirstNonDbg(code[g][1]), instr_id)
                                     ELSE code[g]]
  BY DEF initInstrumentation
<1>1. Typed /\ code \in Code /\ NoneYet /\ instr_id \in Nat /\ f \in Function
  <2>1. Cardinality(Value) \in Nat
    BY ValueAssumption, FS_CardinalityType
  <2>2. f \in Function
    BY ProgramFields
  <2> QED
    BY <1>0, <2>1, <2>2 DEF PassInv, InitInv, Typed, TypeOK
<1>2. PICK y \in Items : y.fn = f /\ y.blk = 1 /\ y.it.val \notin p.dbg
  BY <1>1 DEF NoneYet
<1>3. /\ 1 \in DOMAIN code[f] /\ y.pos \in DOMAIN code[f][1] /\ code[f][1][y.pos].val \notin p.dbg
      /\ code[f][1] \in Seq(Item) /\ code[f] \in Seq(Seq(Item))
  BY <1>1, <1>2, ItemsAt, ItemsType
<1>4. PICK i : i = FirstNonDbg(code[f][1])
  OBVIOUS
<1>5. /\ i \in DOMAIN code[f][1] /\ code[f][1][i].val \notin p.dbg
      /\ \A j \in 1..(i - 1) : code[f][1][j].val \in p.dbg
  BY <1>3, <1>4, FirstNonDbgIs
<1>6. i \in 1..Len(code[f][1]) /\ Len(code[f][1]) \in Nat
  BY <1>3, <1>5
<1>7. code' = [code EXCEPT ![f][1] = InsertAt(@, i, InitCall(instr_id))]
  <2>1. \A g \in Function : code'[g] = IF g = f THEN [code[f] EXCEPT ![1] = InsertAt(code[f][1], i, InitCall(instr_id))]
                                              ELSE code[g]
    BY <1>0, <1>4 DEF WithInit, ReplaceAt
  <2>2. code = [g \in Function |-> code[g]] /\ code' = [g \in Function |-> code'[g]]
    BY <1>0, <1>1 DEF Code
  <2> QED
    BY <1>1, <2>1, <2>2
<1>8. PICK n : n = Place(f, 1, i, InitCall(instr_id))
  OBVIOUS
<1>9. n.fn = f /\ n.blk = 1 /\ n.pos = i /\ n.it = InitCall(instr_id)
  BY <1>8 DEF Place
<1>10. n.it \in Item
  BY <1>1, <1>9 DEF InitCall, Item, ItemKind
<1>11. Inserts(n)
  <2>1. code' = [code EXCEPT ![n.fn][n.blk] = InsertAt(@, n.pos, n.it)]
    BY <1>7, <1>9
  <2>2. n = Place(n.fn, n.blk, n.pos, n.it)
    BY <1>8, <1>9
  <2>3. n.pos \in 1..(Len(code[n.fn][n.blk]) + 1)
    BY <1>6, <1>9
  <2> QED
    BY <1>1, <1>3, <1>9, <1>10, <2>1, <2>2, <2>3 DEF Inserts
<1> QED
  BY <1>5, <1>9, <1>11

LEMMA InitCallStep ==
    ASSUME PassInv, p \in Programs, initInstrumentation
    PROVE  PassInv'
<1>0. /\ phase = "store" /\ queue = {} /\ phase' = "final"
      /\ UNCHANGED <<p, todo, pending, visited, overflowable, queue, instr_id>>
  BY DEF initInstrumentation
<1>1. /\ Typed /\ TypeOK /\ code \in Code /\ FoundInv /\ StoreInv /\ NoneYet
      /\ overflowable = ScaleOperations
  BY <1>0 DEF PassInv, Typed, FoundInv, InitInv
<1>2. FirstMain' = FirstMain
  BY <1>0 DEF FirstMain
<1>3. CASE p.mains = {}
  <2>1. FirstMain = {}
    BY <1>3, FirstMainIs
  <2>2. code' = code
    BY <1>1, <2>1 DEF initInstrumentation, Code
  <2>3. Of("init")' = {}
    BY <1>0, <1>1, <2>2, CodeKept DEF NoneYet
  <2>4. FoundInv' /\ InitInv'
    BY <1>0, <1>1, <1>2, <2>1, <2>2, <2>3, CodeKept DEF FoundInv, InitInv
  <2> QED
    BY <1>0, <2>2, <2>4, PhaseStep
<1>4. CASE p.mains # {}
  <2>1. PICK f \in p.mains : FirstMain = {f}
    BY <1>4, FirstMainIs
  <2>2. PICK n : /\ Inserts(n) /\ n.fn = f /\ n.blk = 1 /\ n.it = InitCall(instr_id)
                 /\ n.pos \in DOMAIN code[f][1] /\ code[f][1][n.pos].val \notin p.dbg
                 /\ \A j \in 1..(n.pos - 1) : code[f][1][j].val \in p.dbg
    BY <2>1, InitCallInserted
  <2>3. f \in Function /\ 1 \in DOMAIN code[f] /\ code[f] \in Seq(Seq(Item)) /\ code[f][1] \in Seq(Item)
    BY <1>1, <2>2 DEF Inserts, Code
  <2>4. n.it.kind = "init" /\ n.it.id = instr_id
    BY <2>2 DEF InitCall
  <2>5. n.pos \in 1..Len(code[f][1])
    BY <2>2, <2>3
  <2>6. ASSUME NEW y \in Of("store")
        PROVE  y.it.val \notin p.dbg
    <3>1. y.it.val \in ScaleOperations
      BY <1>1 DEF StoreInv, StoreAt
    <3>2. p.opcode[y.it.val] # "none"
      BY <3>1 DEF ScaleOperations, OverflowOps, AllOps
    <3> QED
      BY <3>2, ProgramFields DEF WellFormed
  <2>7. ASSUME NEW y \in Of("store"), y.fn = n.fn, y.blk = n.blk, y.pos = n.pos
        PROVE  FALSE
    <3>1. StoreAt(y) /\ y.it.val \notin p.dbg
      BY <1>1, <2>6 DEF StoreInv
    <3>2. n.pos - 1 \in 1..(n.pos - 1)
      BY <2>5, <2>7, <3>1 DEF StoreAt
    <3>3. code[f][1][n.pos - 1].val = y.it.val
      BY <2>2, <2>7, <3>1 DEF StoreAt, Before, Inst
    <3> QED
      BY <2>2, <3>1, <3>2, <3>3
  <2>8. ASSUME NEW j \in 1..(n.pos - 1)
        PROVE  Harmless(code[f][1][j])
    <3>1. j \in DOMAIN code[f][1] /\ code[f][1][j].val \in p.dbg
      BY <2>2, <2>3, <2>5
    <3>2. PICK y \in Items : y = Place(f, 1, j, code[f][1][j])
      BY <2>3, <3>1, ItemAt
    <3>3. y.it = code[f][1][j] /\ y.it.kind \in ItemKind
      BY <1>1, <3>2 DEF Place, TypeOK
    <3>4. y \notin Of("init") /\ y \notin Of("print") /\ y \notin Of("store")
      BY <1>1, <2>6, <3>1, <3>3 DEF NoneYet
    <3> QED
      BY <3>1, <3>3, <3>4 DEF Of, Harmless, ItemKind
  <2>9. Of("init")' = {n}
    <3>1. /\ n \in Of("init")'
          /\ \A y \in Of("init")' : \/ y = n /\ n.it.kind = "init"
                                   \/ \E z \in Of("init") : y = Shift(z, n)
      BY <1>1, <2>2, <2>4, OfAfterInsert
    <3> QED
      BY <1>1, <3>1 DEF NoneYet
  <2>10. InitAt(n)'
    <3>1. \A j \in 1..(n.pos - 1) : code'[f][1][j] = code[f][1][j]
      <4>1. \A j \in 1..(n.pos - 1) : code'[n.fn][n.blk][j] = code[n.fn][n.blk][j]
        BY <1>1, <2>2, CodeAfterInsert
      <4> QED
        BY <2>2, <4>1
    <3>2. \A j \in 1..(n.pos - 1) : Harmless(code'[f][1][j])
      BY <2>8, <3>1
    <3>3. \A j \in 1..(n.pos - 1) : Harmless(code[f][1][j])'
      BY <1>0, <3>2 DEF Harmless
    <3> QED
      BY <1>0, <1>2, <2>1, <2>2, <2>4, <3>3 DEF InitAt
  <2>11. InitInv'
    BY <1>0, <1>2, <2>1, <2>2, <2>9, <2>10 DEF InitInv
  <2> QED
    BY <1>0, <2>2, <2>4, <2>7, <2>11, InsertKeeps
<1> QED
  BY <1>3, <1>4

LEMMA FailStep ==
    ASSUME PassInv, NEW v \in Value, instrumentInstructionFails(v)
    PROVE  PassInv'
<1>1. /\ phase = "store" /\ v \in queue /\ p.width[v] # ParamWidth /\ phase' = "broken"
      /\ UNCHANGED <<p, todo, pending, visited, overflowable, queue, instr_id, code>>
  BY DEF instrumentInstructionFails
<1>2. FoundInv' /\ InitInv'
  BY <1>1, CodeKept DEF PassInv, FoundInv, InitInv
<1> QED
  BY <1>1, <1>2, PhaseStep

LEMMA EndStep ==
    ASSUME PassInv, EndInstrumentation
    PROVE  PassInv'
<1>1. /\ phase = "final" /\ phase' = "done"
      /\ UNCHANGED <<p, todo, pending, visited, overflowable, queue, instr_id, code>>
  BY DEF EndInstrumentation
<1>2. FoundInv' /\ InitInv'
  <2>1. \A x : InitAt(x)' <=> InitAt(x)
    BY <1>1, CodeKept DEF InitAt, Harmless
  <2> QED
    BY <1>1, <2>1, CodeKept DEF PassInv, FoundInv, InitInv
<1> QED
  BY <1>1, <1>2, PhaseStep

(* A call of oft_print_max_vals may come before that of oft_init_vals. *)
LEMMA InitAtAfterPrint ==
    ASSUME code \in Code, NEW n, Inserts(n), n.it = PrintCall, UNCHANGED <<p, instr_id>>,
           NEW y \in Items, InitAt(y), ~(y.fn = n.fn /\ y.blk = n.blk /\ y.pos = n.pos)
    PROVE  InitAt(Shift(y, n))'
<1>1. PICK z : z = Shift(y, n)
  OBVIOUS
<1>2. z.it = y.it /\ z.fn = y.fn /\ z.blk = y.blk
  BY <1>1, BeforeAfterInsert
<1>3. FirstMain' = FirstMain /\ \A e : Harmless(e)' = Harmless(e)
  BY DEF FirstMain, Harmless
<1>4. /\ y.fn \in FirstMain /\ y.blk = 1 /\ y.it.id = instr_id
      /\ \A j \in 1..(y.pos - 1) : Harmless(code[y.fn][1][j])
  BY DEF InitAt
<1> DEFINE s == code[n.fn][n.blk]
<1>5. /\ \A f \in Function : \A b \in DOMAIN code[f] : f # n.fn \/ b # n.blk => code'[f][b] = code[f][b]
      /\ Len(s) \in Nat
      /\ code'[n.fn][n.blk][n.pos] = n.it
      /\ \A j \in 1..(n.pos - 1) : code'[n.fn][n.blk][j] = s[j]
      /\ \A j \in n.pos..Len(s) : code'[n.fn][n.blk][j + 1] = s[j]
  BY CodeAfterInsert
<1>6. n.pos \in 1..(Len(s) + 1)
  BY DEF Inserts
<1>7. y.fn \in Function /\ y.blk \in DOMAIN code[y.fn] /\ y.pos \in 1..Len(code[y.fn][y.blk])
  BY ItemsAt, ItemsType
<1>8. Harmless(PrintCall)
  BY DEF Harmless, PrintCall
<1>9. \A j \in 1..(z.pos - 1) : Harmless(code'[y.fn][1][j])
  <2>1. CASE y.fn # n.fn \/ y.blk # n.blk
    <3>1. z = y /\ code'[y.fn][1] = code[y.fn][1]
      BY <1>1, <1>4, <1>5, <1>7, <2>1 DEF Shift
    <3> QED
      BY <1>4, <3>1
  <2>2. CASE y.fn = n.fn /\ y.blk = n.blk
    <3>1. y.pos \in 1..Len(s) /\ y.pos # n.pos
      BY <1>7, <2>2
    <3>2. ASSUME NEW j \in 1..(z.pos - 1)
          PROVE  Harmless(code'[n.fn][n.blk][j])
      <4>1. j \in Nat /\ j > 0 /\ j < y.pos + 1 /\ (y.pos < n.pos => j < y.pos)
        BY <1>1, <1>6, <2>2, <3>1, <3>2 DEF Shift, Place
      <4>2. CASE j < n.pos
        <5>1. j \in 1..(n.pos - 1) /\ j \in 1..(y.pos - 1)
          BY <1>6, <3>1, <4>1, <4>2
        <5> QED
          BY <1>4, <1>5, <2>2, <5>1
      <4>3. CASE j = n.pos
        BY <1>5, <1>8, <4>3
      <4>4. CASE j > n.pos
        <5>1. j - 1 \in n.pos..Len(s) /\ j - 1 \in 1..(y.pos - 1) /\ (j - 1) + 1 = j
          BY <1>5, <1>6, <3>1, <4>1, <4>4
        <5> QED
          BY <1>4, <1>5, <2>2, <5>1
      <4> QED
        BY <1>6, <4>1, <4>2, <4>3, <4>4
    <3> QED
      BY <1>4, <2>2, <3>2
  <2> QED
    BY <2>1, <2>2
<1>10. InitAt(z)'
  <2>1. \A j \in 1..(z.pos - 1) : Harmless(code[z.fn][1][j])'
    BY <1>2, <1>9 DEF Harmless
  <2> QED
    BY <1>2, <1>3, <1>4, <2>1 DEF InitAt
<1> QED
  BY <1>1, <1>10

LEMMA PrintCallInserted ==
    ASSUME code \in Code, finaliseInstrumentation
    PROVE  \E x \in mpi_finalize_calls : \E n :
              Inserts(n) /\ n.fn = x.fn /\ n.blk = x.blk /\ n.pos = x.pos /\ n.it = PrintCall
<1>1. PICK x \in mpi_finalize_calls :
         code' = [code EXCEPT ![x.fn][x.blk] = InsertAt(@, x.pos, PrintCall)]
  BY DEF finaliseInstrumentation
<1>2. x \in Items
  BY DEF mpi_finalize_calls
<1>3. /\ x.fn \in Function /\ x.blk \in DOMAIN code[x.fn] /\ x.pos \in 1..Len(code[x.fn][x.blk])
      /\ code[x.fn][x.blk] \in Seq(Item)
  BY <1>2, ItemsAt, ItemsType
<1>4. PICK n : n = Place(x.fn, x.blk, x.pos, PrintCall)
  OBVIOUS
<1>5. n.fn = x.fn /\ n.blk = x.blk /\ n.pos = x.pos /\ n.it = PrintCall
  BY <1>4 DEF Place
<1>6. Inserts(n)
  <2>1. n.it \in Item
    BY <1>5 DEF Item, ItemKind, PrintCall
  <2>2. x.pos \in 1..(Len(code[x.fn][x.blk]) + 1)
    BY <1>3
  <2>3. n.pos \in 1..(Len(code[n.fn][n.blk]) + 1)
    BY <1>5, <2>2
  <2>4. code' = [code EXCEPT ![n.fn][n.blk] = InsertAt(@, n.pos, n.it)]
    BY <1>1, <1>5
  <2> QED
    BY <1>3, <1>4, <1>5, <2>1, <2>3, <2>4 DEF Inserts
<1> QED
  BY <1>5, <1>6

LEMMA PrintCallStep ==
    ASSUME PassInv, finaliseInstrumentation
    PROVE  PassInv'
<1>0. /\ phase = "final" /\ UNCHANGED <<p, phase, todo, pending, visited, overflowable, queue, instr_id>>
  BY DEF finaliseInstrumentation
<1>1. /\ Typed /\ code \in Code /\ FoundInv /\ InitInv /\ queue = {}
  BY <1>0 DEF PassInv, Typed, FoundInv
<1>2. PICK x \in mpi_finalize_calls : \E n :
         Inserts(n) /\ n.fn = x.fn /\ n.blk = x.blk /\ n.pos = x.pos /\ n.it = PrintCall
  BY <1>1, PrintCallInserted
<1>3. x \in Items /\ x.it.kind = "inst" /\ x.it = code[x.fn][x.blk][x.pos]
  BY ItemsAt DEF mpi_finalize_calls
<1>4. PICK n : Inserts(n) /\ n.fn = x.fn /\ n.blk = x.blk /\ n.pos = x.pos /\ n.it = PrintCall
  BY <1>2
<1>5. n.it = PrintCall /\ n.it.kind = "print"
  BY <1>4 DEF PrintCall
<1>6. Inserts(n)
  BY <1>4
<1>7. \A y \in Items : y.fn = n.fn /\ y.blk = n.blk /\ y.pos = n.pos => y.it.kind = "inst"
  BY <1>3, <1>4, ItemsAt
<1>8. \A y \in Of("store") \cup Of("init") : ~(y.fn = n.fn /\ y.blk = n.blk /\ y.pos = n.pos)
  BY <1>7 DEF Of
<1>9. /\ \A y \in Of("init") : InitAt(y) /\ y \in Items
      /\ \A y, z \in Of("init") : y = z
      /\ \A f \in FirstMain : \E y \in Of("init") : y.fn = f
  BY <1>0, <1>1 DEF InitInv, Of
<1>10. /\ \A y \in Of("init") : Shift(y, n) \in Of("init")'
       /\ \A y \in Of("init")' : \E z \in Of("init") : y = Shift(z, n)
  <2>1. \A y \in Of("init")' : (y = n /\ n.it.kind = "init") \/ \E z \in Of("init") : y = Shift(z, n)
    BY <1>1, <1>6, OfAfterInsert
  <2>2. \A y \in Of("init") : Shift(y, n) \in Of("init")'
    BY <1>1, <1>6, OfAfterInsert
  <2> QED
    BY <1>5, <2>1, <2>2
<1>11. InitInv'
  <2>1. \A y \in Of("init") : InitAt(Shift(y, n))'
    BY <1>0, <1>1, <1>5, <1>6, <1>8, <1>9, InitAtAfterPrint
  <2>2. \A y \in Of("init")' : InitAt(y)'
    BY <1>10, <2>1
  <2>3. \A y, z \in Of("init")' : y = z
    BY <1>9, <1>10
  <2>4. FirstMain' = FirstMain
    BY <1>0 DEF FirstMain
  <2>5. \A f \in FirstMain : \E y \in Of("init")' : y.fn = f
    <3>1. \A y \in Of("init") : Shift(y, n).fn = y.fn
      BY <1>1, <1>6, <1>9, BeforeAfterInsert
    <3> QED
      BY <1>9, <1>10, <3>1
  <2> QED
    BY <1>0, <2>2, <2>3, <2>4, <2>5 DEF InitInv
<1> QED
  BY <1>0, <1>1, <1>5, <1>6, <1>8, <1>11, InsertKeeps

-----------------------------------------------------------------------------
(* The invariant holds, and what follows from it.                           *)

LEMMA StepPass ==
    ASSUME PassInv, p \in Programs, Step
    PROVE  PassInv' /\ p' \in Programs
<1>1. p' = p
  BY DEF Step, TakeRoot, Skip, findInstructions, EndDetection, instrumentInstruction,
         instrumentInstructionFails, initInstrumentation, finaliseInstrumentation, EndInstrumentation
<1> QED
  BY <1>1, TakeRootStep, SkipStep, FindStep, EndDetectionStep, StoreStep, FailStep, InitCallStep,
     PrintCallStep, EndStep DEF Step

LEMMA StutterPass ==
    ASSUME PassInv, UNCHANGED vars
    PROVE  PassInv'
<1>0. UNCHANGED <<p, phase, todo, pending, visited, overflowable, queue, instr_id, code>>
  BY DEF vars
<1>1. Typed' /\ FoundInv'
  BY <1>0, CodeKept DEF PassInv, Typed, TypeOK, FoundInv
<1>2. SearchInv'
  <2>1. \A D : SearchedAll(D)' = SearchedAll(D)
    BY <1>0 DEF SearchedAll, Kids, canIntegerOverflow, OverflowOps
  <2>2. \A v : canIntegerOverflow(v)' = canIntegerOverflow(v)
    BY <1>0 DEF canIntegerOverflow, OverflowOps
  <2> QED
    BY <1>0, <2>1, <2>2, CodeKept DEF PassInv, SearchInv
<1>3. StoreInv'
  BY <1>0, CodeKept DEF PassInv, StoreInv, StoreAt, Inst
<1>4. InitInv'
  <2>1. \A x : InitAt(x)' <=> InitAt(x)
    BY <1>0, CodeKept DEF InitAt, Harmless
  <2> QED
    BY <1>0, <2>1, CodeKept DEF PassInv, InitInv
<1> QED
  BY <1>1, <1>2, <1>3, <1>4 DEF PassInv

PassOK == PassInv /\ p \in Programs

LEMMA PassInvariant == Spec => []PassOK
<1>1. PassOK /\ [Next]_vars => PassOK'
  <2>1. PassOK /\ UNCHANGED vars => PassOK'
    BY StutterPass DEF PassOK, vars
  <2> QED
    BY <2>1, StepPass DEF Next, Terminated, PassOK
<1>2. Init => PassOK
  BY InitPass DEF PassOK
<1> QED
  BY <1>1, <1>2, PTL DEF Spec

(* The state of the pass keeps its type: in particular it never gives out
   more IDs than there are values.                                          *)
THEOREM InstrumentationTypeCorrect == Spec => []TypeOK
<1>1. PassOK => TypeOK
  BY DEF PassOK, PassInv, Typed
<1> QED
  BY <1>1, PassInvariant, PTL

LEMMA StoresExactFrom == PassOK => StoresExact
<1> SUFFICES ASSUME PassOK
             PROVE  StoresExact
  OBVIOUS
<1>1. Typed /\ FoundInv /\ StoreInv /\ TypeOK
  BY DEF PassOK, PassInv, Typed
<1>2. ASSUME phase = "done"
      PROVE  /\ {x.it.val : x \in Of("store")} = ScaleOperations
             /\ \A x, y \in Of("store") : x.it.val = y.it.val => x = y
             /\ \A x \in Of("store") : x.pos > 1 /\ code[x.fn][x.blk][x.pos - 1] = Inst(x.it.val)
  <2>1. queue = {} /\ overflowable = ScaleOperations
    BY <1>1, <1>2 DEF FoundInv
  <2>2. /\ \A v \in ScaleOperations : \E x \in Of("store") : x.it.val = v
        /\ \A x \in Of("store") : StoreAt(x) /\ x.it.val \in ScaleOperations
    BY <1>1, <1>2, <2>1 DEF StoreInv, StoreAt
  <2>3. \A x, y \in Of("store") : x.it.val = y.it.val => x = y
    BY <1>1 DEF StoreInv
  <2> QED
    BY <2>2, <2>3 DEF StoreAt, Before
<1>3. ASSUME phase = "broken"
      PROVE  \E v \in ScaleOperations : p.width[v] < ParamWidth
  <2>1. PICK v \in queue : p.width[v] # ParamWidth
    BY <1>1, <1>3 DEF FoundInv
  <2>2. v \in ScaleOperations
    BY <1>1, <1>3 DEF FoundInv, TypeOK
  <2>3. p.width[v] \in 1..OverflowBitsThreshold
    BY <2>2 DEF ScaleOperations
  <2> QED
    BY <2>1, <2>2, <2>3, ThresholdAssumption DEF ParamWidth
<1> QED
  BY <1>2, <1>3 DEF StoresExact

(* Exactly the overflowable operations that hang below a scale variable are
   instrumented, each once and right behind itself.                         *)
THEOREM StoresAreExact == Spec => []StoresExact
BY PassInvariant, StoresExactFrom, PTL

(* The stores have the IDs below instr_id, each one. *)
LEMMA StoresCounted ==
    ASSUME Typed, StoreInv
    PROVE  {x.it.id : x \in Of("store")} = 0..(instr_id - 1) /\ Cardinality(Of("store")) = instr_id
<1>1. instr_id \in Nat
  <2>1. Cardinality(Value) \in Nat
    BY ValueAssumption, FS_CardinalityType
  <2> QED
    BY <2>1 DEF Typed, TypeOK
<1> DEFINE S == 0..(instr_id - 1)
           T == Of("store")
           g == [i \in S |-> CHOOSE x \in T : x.it.id = i]
<1>2. /\ \A x \in T : x.it.id \in S
      /\ \A x, y \in T : x.it.id = y.it.id => x = y
      /\ \A i \in S : \E x \in T : x.it.id = i
  BY DEF StoreInv, StoreAt
<1>3. {x.it.id : x \in T} = S
  BY <1>2
<1>4. Cardinality(T) = instr_id
  <2> HIDE DEF T, S
  <2>1. \A i \in S : g[i] \in T /\ g[i].it.id = i
    BY <1>2
  <2>2. g \in [S -> T] /\ \A x \in T : x.it.id \in S /\ g[x.it.id] = x
    BY <1>2, <2>1
  <2>3. g \in Bijection(S, T)
    <3> HIDE DEF g
    <3> QED
      BY <2>1, <2>2 DEF Bijection, Injection, Surjection, IsInjective
  <2>4. IsFiniteSet(S) /\ Cardinality(S) = instr_id
    BY <1>1, FS_Interval DEF S
  <2> QED
    BY <2>3, <2>4, FS_Bijection DEF ExistsBijection
<1> QED
  BY <1>3, <1>4

LEMMA IdsFitFrom == PassOK => IdsFitTable
<1> SUFFICES ASSUME PassOK, phase = "done"
             PROVE  /\ {x.it.id : x \in Of("store")} = 0..(instr_id - 1)
                    /\ Cardinality(Of("store")) = instr_id
                    /\ \A x \in Of("init") : x.it.id = instr_id
                    /\ Cardinality(Of("init")) = IF p.mains = {} THEN 0 ELSE 1
  BY DEF IdsFitTable
<1>1. /\ Typed /\ StoreInv /\ p \in Programs /\ instr_id \in Nat
      /\ \A x \in Of("init") : InitAt(x)
      /\ \A x, y \in Of("init") : x = y
      /\ \A f \in FirstMain : \E x \in Of("init") : x.fn = f
  <2>1. Cardinality(Value) \in Nat
    BY ValueAssumption, FS_CardinalityType
  <2> QED
    BY <2>1 DEF PassOK, PassInv, Typed, TypeOK, InitInv
<1>3. {x.it.id : x \in Of("store")} = 0..(instr_id - 1) /\ Cardinality(Of("store")) = instr_id
  BY <1>1, StoresCounted
<1>5. \A x \in Of("init") : x.it.id = instr_id /\ x.fn \in FirstMain
  BY <1>1 DEF InitAt
<1>6. CASE p.mains = {}
  <2>1. Of("init") = {}
    BY <1>1, <1>5, <1>6, FirstMainIs
  <2> QED
    BY <1>3, <1>5, <1>6, <2>1, FS_EmptySet
<1>7. CASE p.mains # {}
  <2>1. \E x : Of("init") = {x}
    <3>1. PICK f : f \in FirstMain
      BY <1>1, <1>7, FirstMainIs
    <3>2. PICK x \in Of("init") : x.fn = f
      BY <1>1, <3>1
    <3>3. Of("init") = {x}
      BY <1>1, <3>2
    <3> QED
      BY <3>3
  <2> QED
    BY <1>3, <1>5, <1>7, <2>1, FS_Singleton
<1> QED
  BY <1>6, <1>7

(* The IDs in the code are those of the table that is created: oft_init_vals
   is called in one place, with the number of stores, which have the IDs below
   it, each one.                                                            *)
THEOREM IdsFit == Spec => []IdsFitTable
BY PassInvariant, IdsFitFrom, PTL
=============================================================================
