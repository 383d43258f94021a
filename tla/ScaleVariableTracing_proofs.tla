-------------------- MODULE ScaleVariableTracing_proofs --------------------
(* For every set of values and every program over it, tracing builds exactly
   the graph ScaleEdges describes, whatever order it walks use lists, maps
   and scale variables in, and every step of it is a step of ScaleFlow.     *)
EXTENDS ScaleVariableTracing, FiniteSetTheorems, TLAPS

-----------------------------------------------------------------------------
(* The flow operators of ScaleIR, for any set of values and any program over
   it.                                                                     *)

(* The fields of a program are what IRModule says they are. *)
LEMMA IRFields ==
    ASSUME NEW m \in IRModule
    PROVE  /\ m.scale \subseteq Value /\ m.calls \subseteq Value
           /\ \A v \in Value : /\ m.refs[v] \subseteq Value
                               /\ m.users[v] \subseteq Value
                               /\ m.memUses[v] \subseteq Value
                               /\ m.callee[v] \in CalleeKind
                               /\ m.operands[v] \in Seq(Value)
                               /\ m.formals[v] \in Seq(Value)
BY DEF IRModule

(* The formals of a call are values. *)
LEMMA CallArgsType ==
    ASSUME NEW m \in IRModule, NEW c \in Value, NEW a
    PROVE  getCallArgs(m, c, a) \subseteq Value
<1>1. m.formals[c] \in Seq(Value)
  BY IRFields
<1>2. \A i \in DOMAIN m.formals[c] : m.formals[c][i] \in Value
  BY <1>1
<1> QED
  BY <1>2 DEF getCallArgs

(* The closure of R contains R, is closed, and is below every closed set of
   values that contains R: it is what a trace from R has to find.          *)
LEMMA ClosureContains ==
    ASSUME NEW m, NEW R \in SUBSET Value
    PROVE  R \subseteq Closure(m, R) /\ Closure(m, R) \subseteq Value
BY DEF Closure

LEMMA ClosureClosed ==
    ASSUME NEW m \in IRModule, NEW R \in SUBSET Value
    PROVE  FlowClosed(m, Closure(m, R))
<1> SUFFICES ASSUME NEW v \in Closure(m, R),
                    NEW w \in m.users[v] \cup m.memUses[v]
             PROVE  w \in Closure(m, R)
  BY DEF FlowClosed
<1>1. v \in Value
  BY DEF Closure
<1>2. w \in Value
  BY <1>1, IRFields
<1>3. ASSUME NEW S \in SUBSET Value, R \subseteq S, FlowClosed(m, S)
      PROVE  w \in S
  <2>1. v \in S
    BY <1>3 DEF Closure
  <2> QED
    BY <1>3, <2>1 DEF FlowClosed
<1> QED
  BY <1>2, <1>3 DEF Closure

LEMMA ClosureLeast ==
    ASSUME NEW m, NEW R, NEW S \in SUBSET Value, R \subseteq S, FlowClosed(m, S)
    PROVE  Closure(m, R) \subseteq S
BY DEF Closure

(* Membership in the sets of edges, as facts about the ends of an edge. *)
LEMMA FlowEdgesMember ==
    ASSUME NEW m \in IRModule, NEW S \in SUBSET Value, NEW e
    PROVE  e \in FlowEdges(m, S) <=>
             e \in Value \X Value /\ e[1] \in S /\ e[2] \in m.users[e[1]] \cup m.memUses[e[1]]
<1>1. \A v \in Value : m.users[v] \cup m.memUses[v] \subseteq Value
  BY IRFields
<1>2. ASSUME e \in FlowEdges(m, S)
      PROVE  e \in Value \X Value /\ e[1] \in S /\ e[2] \in m.users[e[1]] \cup m.memUses[e[1]]
  <2>1. PICK v \in S : e \in {v} \X (m.users[v] \cup m.memUses[v])
    BY <1>2 DEF FlowEdges
  <2> QED
    BY <1>1, <2>1
<1>3. ASSUME e \in Value \X Value, e[1] \in S, e[2] \in m.users[e[1]] \cup m.memUses[e[1]]
      PROVE  e \in FlowEdges(m, S)
  <2>1. e \in {e[1]} \X (m.users[e[1]] \cup m.memUses[e[1]])
    BY <1>3
  <2> QED
    BY <1>3, <2>1 DEF FlowEdges
<1> QED
  BY <1>2, <1>3

LEMMA RefEdgesMember ==
    ASSUME NEW m \in IRModule, NEW e
    PROVE  e \in RefEdges(m) <=>
             e \in Value \X Value /\ e[1] \in m.scale /\ e[2] \in m.refs[e[1]]
<1>1. m.scale \subseteq Value /\ \A v \in Value : m.refs[v] \subseteq Value
  BY IRFields
<1>2. ASSUME e \in RefEdges(m)
      PROVE  e \in Value \X Value /\ e[1] \in m.scale /\ e[2] \in m.refs[e[1]]
  <2>1. PICK v \in m.scale : e \in {v} \X m.refs[v]
    BY <1>2 DEF RefEdges
  <2> QED
    BY <1>1, <2>1
<1>3. ASSUME e \in Value \X Value, e[1] \in m.scale, e[2] \in m.refs[e[1]]
      PROVE  e \in RefEdges(m)
  <2>1. e \in {e[1]} \X m.refs[e[1]]
    BY <1>3
  <2> QED
    BY <1>3, <2>1 DEF RefEdges
<1> QED
  BY <1>2, <1>3

LEMMA CallEdgesMember ==
    ASSUME NEW m \in IRModule, NEW E \in SUBSET (Value \X Value), NEW f
    PROVE  f \in CallEdges(m, E) <=>
             /\ f \in Value \X Value
             /\ \E e \in E : /\ e[2] \in m.calls /\ f[1] = e[2]
                             /\ f[2] \in getCallArgs(m, e[2], e[1])
<1>1. ASSUME f \in CallEdges(m, E)
      PROVE  /\ f \in Value \X Value
             /\ \E e \in E : /\ e[2] \in m.calls /\ f[1] = e[2]
                             /\ f[2] \in getCallArgs(m, e[2], e[1])
  <2>1. PICK e \in E : e[2] \in m.calls /\ f \in {e[2]} \X getCallArgs(m, e[2], e[1])
    BY <1>1 DEF CallEdges
  <2>2. e[2] \in Value
    OBVIOUS
  <2>3. getCallArgs(m, e[2], e[1]) \subseteq Value
    BY <2>2, CallArgsType
  <2> QED
    BY <2>1, <2>2, <2>3
<1>2. ASSUME NEW e \in E, f \in Value \X Value, e[2] \in m.calls, f[1] = e[2],
             f[2] \in getCallArgs(m, e[2], e[1])
      PROVE  f \in CallEdges(m, E)
  <2>1. f \in {e[2]} \X getCallArgs(m, e[2], e[1])
    BY <1>2
  <2> QED
    BY <1>2, <2>1 DEF CallEdges
<1> QED
  BY <1>1, <1>2

-----------------------------------------------------------------------------
(* The recursion stack as a set of values still to visit.                  *)

LEMMA PendingEmpty == Pending(<<>>) = {}
BY DEF Pending

LEMMA PendingSingle ==
    ASSUME NEW A \in SUBSET Value
    PROVE  <<A>> \in Seq(SUBSET Value) /\ Pending(<<A>>) = A
BY DEF Pending

LEMMA PendingTop ==
    ASSUME NEW st \in Seq(SUBSET Value), st # <<>>
    PROVE  /\ Head(st) \in SUBSET Value
           /\ Tail(st) \in Seq(SUBSET Value)
           /\ Pending(st) = Head(st) \cup Pending(Tail(st))
<1>1. /\ Head(st) \in SUBSET Value /\ Head(st) = st[1]
      /\ Tail(st) \in Seq(SUBSET Value)
      /\ Len(Tail(st)) = Len(st) - 1 /\ Len(st) \in Nat \ {0}
      /\ DOMAIN Tail(st) = 1..Len(st) - 1 /\ DOMAIN st = 1..Len(st)
      /\ \A i \in 1..Len(st) - 1 : Tail(st)[i] = st[i + 1]
  OBVIOUS
<1>2. ASSUME NEW v, v \in Pending(st)
      PROVE  v \in Head(st) \cup Pending(Tail(st))
  <2>1. PICK i \in 1..Len(st) : v \in st[i]
    BY <1>1, <1>2 DEF Pending
  <2>2. CASE i = 1
    BY <1>1, <2>1, <2>2
  <2>3. CASE i # 1
    <3>1. i - 1 \in 1..Len(st) - 1 /\ (i - 1) + 1 = i
      BY <1>1, <2>3
    <3>2. v \in Tail(st)[i - 1]
      BY <1>1, <2>1, <3>1
    <3> QED
      BY <1>1, <3>1, <3>2 DEF Pending
  <2> QED
    BY <2>2, <2>3
<1>3. Head(st) \subseteq Pending(st)
  BY <1>1 DEF Pending
<1>4. Pending(Tail(st)) \subseteq Pending(st)
  <2> SUFFICES ASSUME NEW i \in DOMAIN Tail(st)
               PROVE  Tail(st)[i] \subseteq Pending(st)
    BY DEF Pending
  <2>1. i + 1 \in DOMAIN st /\ Tail(st)[i] = st[i + 1]
    BY <1>1
  <2> QED
    BY <2>1 DEF Pending
<1> QED
  BY <1>1, <1>2, <1>3, <1>4

LEMMA PendingPush ==
    ASSUME NEW st \in Seq(SUBSET Value), NEW A \in SUBSET Value
    PROVE  /\ <<A>> \o st \in Seq(SUBSET Value)
           /\ <<A>> \o st # <<>>
           /\ Pending(<<A>> \o st) = A \cup Pending(st)
<1> DEFINE w == <<A>> \o st
<1>1. /\ w \in Seq(SUBSET Value) /\ w # <<>>
      /\ Head(w) = A /\ Tail(w) = st
  OBVIOUS
<1> QED
  BY <1>1, PendingTop

LEMMA PendingPushTwo ==
    ASSUME NEW st \in Seq(SUBSET Value), NEW A \in SUBSET Value, NEW B \in SUBSET Value
    PROVE  /\ <<A, B>> \o st \in Seq(SUBSET Value)
           /\ Pending(<<A, B>> \o st) = A \cup B \cup Pending(st)
<1> DEFINE w == <<A, B>> \o st
<1>1. /\ w \in Seq(SUBSET Value) /\ w # <<>>
      /\ Head(w) = A /\ Tail(w) = <<B>> \o st
  OBVIOUS
<1>2. Pending(<<B>> \o st) = B \cup Pending(st)
  BY PendingPush
<1>3. Pending(w) = Head(w) \cup Pending(Tail(w))
  BY <1>1, PendingTop
<1> QED
  BY <1>1, <1>2, <1>3

-----------------------------------------------------------------------------
(* Typing.                                                                 *)

LEMMA KidsType ==
    ASSUME ir \in IRModule, NEW v \in Value
    PROVE  /\ Children(ir, v) \in SUBSET Value
           /\ Children(ir, v) = ir.users[v] \cup ir.memUses[v]
           /\ ir.refs[v] \in SUBSET Value
BY IRFields DEF Children

LEMMA NatCardinality ==
    ASSUME NEW S \in SUBSET Value
    PROVE  Cardinality(S) \in Nat /\ (Cardinality(S) = 0 <=> S = {})
<1>1. IsFiniteSet(S)
  BY ValueAssumption, FS_Subset
<1> QED
  BY <1>1, FS_CardinalityType, FS_EmptySet

(* The variables keep their types: stacks hold values, the graph has edges
   between values, and prevSize is a natural number.                       *)
LEMMA TypeInductive ==
    /\ Init => TypeOK
    /\ TypeOK /\ [Next]_vars => TypeOK'
<1>1. Init => TypeOK
  BY ModulesAssumption DEF Init, TypeOK, Phase
<1>2. ASSUME TypeOK, [Next]_vars
      PROVE  TypeOK'
  <2> USE <1>2 DEF TypeOK, Phase
  <2>1. CASE CreateScaleGraph
    BY <2>1, IRFields DEF CreateScaleGraph
  <2>2. ASSUME NEW v \in Value, TakeScaleVar(v)
        PROVE  TypeOK'
    BY <2>2, KidsType DEF TakeScaleVar
  <2>3. ASSUME NEW v \in Value, TakeRef(v)
        PROVE  TypeOK'
    <3>1. stack' \in Seq(SUBSET Value)
      BY <2>3, PendingSingle DEF TakeRef
    <3> QED
      BY <2>3, <3>1 DEF TakeRef
  <2>4. CASE EndRefs
    BY <2>4 DEF EndRefs
  <2>5. CASE EndVars
    BY <2>5 DEF EndVars
  <2>6. ASSUME NEW v \in Value, Skip(v)
        PROVE  TypeOK'
    <3>1. stack' \in Seq(SUBSET Value)
      BY <2>6, PendingTop, PendingPush DEF Skip
    <3> QED
      BY <2>6, <3>1 DEF Skip
  <2>7. ASSUME NEW v \in Value, Visit(v)
        PROVE  TypeOK'
    <3>1. Children(ir, v) \in SUBSET Value
      BY KidsType
    <3>2. stack' \in Seq(SUBSET Value)
      BY <2>7, <3>1, PendingTop, PendingPushTwo DEF Visit
    <3> QED
      BY <2>7, <3>1, <3>2 DEF Visit
  <2>8. CASE Return
    BY <2>8, PendingTop DEF Return
  <2>9. CASE WhileTest
    BY <2>9 DEF WhileTest
  <2>10. CASE CollectCalls
    <3>1. \A e \in ScaleArgs : e[2] \in Value /\ getCallArgs(ir, e[2], e[1]) \subseteq Value
      BY CallArgsType DEF ScaleArgs
    <3>2. toFollow' \subseteq Value
      BY <2>10, <3>1 DEF CollectCalls
    <3>3. edges' \subseteq Value \X Value
      BY <2>10, <3>1 DEF CollectCalls
    <3> QED
      BY <2>10, <3>2, <3>3 DEF CollectCalls
  <2>11. CASE CollectUndefined
    BY <2>11 DEF CollectUndefined
  <2>12. ASSUME NEW v \in Value, Follow(v)
         PROVE  TypeOK'
    <3>1. stack' \in Seq(SUBSET Value)
      BY <2>12, PendingSingle DEF Follow
    <3> QED
      BY <2>12, <3>1 DEF Follow
  <2>13. CASE EndFollow
    BY <2>13, NatCardinality DEF EndFollow
  <2>14. CASE UNCHANGED vars
    BY <2>14 DEF vars
  <2> QED
    BY <2>1, <2>2, <2>3, <2>4, <2>5, <2>6, <2>7, <2>8, <2>9, <2>10, <2>11,
       <2>12, <2>13, <2>14 DEF Next, Step, Terminated
<1> QED
  BY <1>1, <1>2

(* The variables of the tracing always have their types. *)
THEOREM TypeCorrect == Spec => []TypeOK
BY TypeInductive, PTL DEF Spec

-----------------------------------------------------------------------------
(* Which variables are in use at which point.                              *)

(* An edge from v to each value of a set adds the set to the targets. *)
LEMMA TargetsGrow ==
    ASSUME NEW E, NEW V, NEW S, V # {}
    PROVE  Ends(E \cup (V \X S)) = Ends(E) \cup S
<1>1. ASSUME NEW w \in S
      PROVE  w \in Ends(E \cup (V \X S))
  <2>1. PICK v \in V : TRUE
    OBVIOUS
  <2>2. <<v, w>> \in E \cup (V \X S) /\ <<v, w>>[2] = w
    OBVIOUS
  <2> QED
    BY <2>2 DEF Ends
<1>2. \A e \in V \X S : e[2] \in S
  OBVIOUS
<1> QED
  BY <1>1, <1>2 DEF Ends

LEMMA ControlInductive ==
    /\ Init => ControlInv
    /\ TypeOK /\ ControlInv /\ [Next]_vars => ControlInv'
<1>1. Init => ControlInv
  BY DEF Init, ControlInv, Targets, Ends
<1>2. ASSUME TypeOK, ControlInv, [Next]_vars
      PROVE  ControlInv'
  <2> USE <1>2 DEF TypeOK, Phase, ControlInv
  <2>1. CASE CreateScaleGraph
    BY <2>1, IRFields DEF CreateScaleGraph, Targets, Ends
  <2>2. ASSUME NEW v \in Value, TakeScaleVar(v)
        PROVE  ControlInv'
    <3>1. v \in ir.scale /\ phase = "vars"
      BY <2>2 DEF TakeScaleVar
    <3> QED
      BY <2>2, <3>1 DEF TakeScaleVar, Targets
  <2>3. ASSUME NEW v \in Value, TakeRef(v)
        PROVE  ControlInv'
    <3>1. phase = "refs" /\ cur # {}
      BY <2>3 DEF TakeRef
    <3>2. Targets' = Targets \cup {v}
      <4>1. Ends(edges \cup (cur \X {v})) = Ends(edges) \cup {v}
        BY ONLY <3>1, TargetsGrow
      <4> QED
        BY <2>3, <4>1 DEF TakeRef, Targets
    <3> QED
      BY <2>3, <3>1, <3>2 DEF TakeRef
  <2>4. CASE EndRefs
    BY <2>4 DEF EndRefs, Targets
  <2>5. CASE EndVars
    BY <2>5 DEF EndVars, Targets
  <2>6. ASSUME NEW v \in Value, Skip(v)
        PROVE  ControlInv'
    BY <2>6 DEF Skip, Targets
  <2>7. ASSUME NEW v \in Value, Visit(v)
        PROVE  ControlInv'
    <3>1. phase \in {"refs", "follow"}
      BY <2>7 DEF Visit
    <3>2. Targets' = Targets \cup Children(ir, v)
      <4>1. Ends(edges \cup ({v} \X Children(ir, v))) = Ends(edges) \cup Children(ir, v)
        BY ONLY {v} # {}, TargetsGrow
      <4> QED
        BY <2>7, <4>1 DEF Visit, Targets
    <3> QED
      BY <2>7, <3>1, <3>2 DEF Visit
  <2>8. CASE Return
    BY <2>8 DEF Return, Targets
  <2>9. CASE WhileTest
    BY <2>9 DEF WhileTest, Targets
  <2>10. CASE CollectCalls
    <3> DEFINE New == UNION {{e[2]} \X getCallArgs(ir, e[2], e[1]) : e \in ScaleArgs}
    <3>1. toFollow' = {d[2] : d \in New}
      <4>1. ASSUME NEW f \in toFollow'
            PROVE  f \in {d[2] : d \in New}
        <5>1. PICK e \in ScaleArgs : f \in getCallArgs(ir, e[2], e[1])
          BY <2>10 DEF CollectCalls
        <5>2. <<e[2], f>> \in New /\ <<e[2], f>>[2] = f
          BY <5>1
        <5> QED
          BY <5>2
      <4>2. ASSUME NEW d \in New
            PROVE  d[2] \in toFollow'
        <5>1. PICK e \in ScaleArgs : d \in {e[2]} \X getCallArgs(ir, e[2], e[1])
          OBVIOUS
        <5> QED
          BY <2>10, <5>1 DEF CollectCalls
      <4> QED
        BY <4>1, <4>2
    <3>2. edges' = edges \cup New
      BY <2>10 DEF CollectCalls
    <3>3. Targets' = Targets \cup toFollow'
      BY <3>1, <3>2 DEF Targets, Ends
    <3> QED
      BY <2>10, <3>3 DEF CollectCalls
  <2>11. CASE CollectUndefined
    BY <2>11 DEF CollectUndefined, Targets
  <2>12. ASSUME NEW v \in Value, Follow(v)
         PROVE  ControlInv'
    BY <2>12 DEF Follow, Targets
  <2>13. CASE EndFollow
    BY <2>13 DEF EndFollow, Targets
  <2>14. CASE UNCHANGED vars
    BY <2>14 DEF vars, Targets
  <2> QED
    BY <2>1, <2>2, <2>3, <2>4, <2>5, <2>6, <2>7, <2>8, <2>9, <2>10, <2>11,
       <2>12, <2>13, <2>14 DEF Next, Step, Terminated
<1> QED
  BY <1>1, <1>2

(* prevSize tells the two rounds apart. *)
LEMMA PrevSizeInductive ==
    /\ Init => PrevSizeInv
    /\ TypeOK /\ ControlInv /\ PrevSizeInv /\ [Next]_vars => PrevSizeInv'
<1>1. Init => PrevSizeInv
  BY DEF Init, PrevSizeInv
<1>2. ASSUME TypeOK, ControlInv, PrevSizeInv, [Next]_vars
      PROVE  PrevSizeInv'
  <2> USE <1>2 DEF TypeOK, Phase, PrevSizeInv
  <2>1. CASE CreateScaleGraph
    BY <2>1 DEF CreateScaleGraph
  <2>2. ASSUME NEW v \in Value, TakeScaleVar(v)
        PROVE  PrevSizeInv'
    BY <2>2 DEF TakeScaleVar
  <2>3. ASSUME NEW v \in Value, TakeRef(v)
        PROVE  PrevSizeInv'
    BY <2>3 DEF TakeRef
  <2>4. CASE EndRefs
    BY <2>4 DEF EndRefs
  <2>5. CASE EndVars
    BY <2>5 DEF EndVars
  <2>6. ASSUME NEW v \in Value, Skip(v)
        PROVE  PrevSizeInv'
    BY <2>6 DEF Skip
  <2>7. ASSUME NEW v \in Value, Visit(v)
        PROVE  PrevSizeInv'
    <3>1. phase \in {"refs", "follow"}
      BY <2>7 DEF Visit, ControlInv
    <3> QED
      BY <2>7, <3>1 DEF Visit
  <2>8. CASE Return
    BY <2>8 DEF Return
  <2>9. CASE WhileTest
    BY <2>9, NatCardinality DEF WhileTest
  <2>10. CASE CollectCalls
    BY <2>10 DEF CollectCalls
  <2>11. CASE CollectUndefined
    BY <2>11 DEF CollectUndefined
  <2>12. ASSUME NEW v \in Value, Follow(v)
         PROVE  PrevSizeInv'
    BY <2>12 DEF Follow
  <2>13. CASE EndFollow
    BY <2>13, NatCardinality DEF EndFollow
  <2>14. CASE UNCHANGED vars
    BY <2>14 DEF vars
  <2> QED
    BY <2>1, <2>2, <2>3, <2>4, <2>5, <2>6, <2>7, <2>8, <2>9, <2>10, <2>11,
       <2>12, <2>13, <2>14 DEF Next, Step, Terminated
<1> QED
  BY <1>1, <1>2

-----------------------------------------------------------------------------
(* No trace is cut short: what is not expanded is still to be visited.     *)

LEMMA OwedInductive ==
    /\ Init => OwedInv
    /\ TypeOK /\ ControlInv /\ OwedInv /\ [Next]_vars => OwedInv'
<1>1. Init => OwedInv
  BY PendingEmpty DEF Init, OwedInv, NothingForgotten
<1>2. ASSUME TypeOK, ControlInv, OwedInv, [Next]_vars
      PROVE  OwedInv'
  <2> DEFINE Owed == toFollow \cup Pending(stack)
  <2>0. \/ UNCHANGED <<ir, edges, stack, visited, toFollow>>
        \/ \E v \in Value : TakeScaleVar(v) \/ TakeRef(v) \/ Skip(v) \/ Visit(v) \/ Follow(v)
        \/ Return \/ CollectCalls
    BY <1>2 DEF Next, Step, Terminated, vars, CreateScaleGraph, EndRefs, EndVars,
                WhileTest, CollectUndefined, EndFollow
  <2>1. CASE UNCHANGED <<ir, edges, stack, visited, toFollow>>
    BY <1>2, <2>1 DEF OwedInv, NothingForgotten, Expanded, Targets
  (* A step that adds no edge: what was owed is owed or visited. *)
  <2>2. ASSUME ir' = ir, edges' = edges, visited' \subseteq visited,
               Owed' \subseteq Owed, Owed \subseteq Owed' \cup visited
        PROVE  OwedInv'
    BY <1>2, <2>2 DEF OwedInv, NothingForgotten, Expanded, Targets
  <2>3. ASSUME NEW v \in Value, TakeScaleVar(v)
        PROVE  OwedInv'
    BY <2>2, <2>3 DEF TakeScaleVar
  <2>4. ASSUME NEW v \in Value, TakeRef(v)
        PROVE  OwedInv'
    <3>1. /\ Pending(stack) = {} /\ Pending(stack') = {v}
          /\ toFollow = {} /\ toFollow' = {}
      BY <1>2, <2>4, PendingEmpty, PendingSingle DEF TakeRef, ControlInv
    <3>2. Targets' = Targets \cup {v}
      <4>1. cur # {}
        BY <1>2, <2>4 DEF TakeRef, ControlInv
      <4>2. Ends(edges \cup (cur \X {v})) = Ends(edges) \cup {v}
        BY ONLY <4>1, TargetsGrow
      <4> QED
        BY <2>4, <4>2 DEF TakeRef, Targets
    <3>3. /\ ir' = ir /\ visited' = visited /\ edges \subseteq edges'
          /\ \A e \in edges' : e \in edges \/ e[2] = v
      BY <2>4 DEF TakeRef
    <3> QED
      BY <1>2, <3>1, <3>2, <3>3 DEF OwedInv, NothingForgotten, Expanded
  <2>5. ASSUME NEW v \in Value, Skip(v)
        PROVE  OwedInv'
    <3>1. /\ Pending(stack) = Head(stack) \cup Pending(Tail(stack))
          /\ Pending(stack') = (Head(stack) \ {v}) \cup Pending(Tail(stack))
      BY <1>2, <2>5, PendingTop, PendingPush DEF Skip, TypeOK
    <3> QED
      BY <2>2, <2>5, <3>1 DEF Skip
  <2>6. ASSUME NEW v \in Value, Visit(v)
        PROVE  OwedInv'
    <3> DEFINE K == Children(ir, v)
    <3>1. K \in SUBSET Value /\ K = ir.users[v] \cup ir.memUses[v]
      BY <1>2, KidsType DEF TypeOK
    <3>2. /\ Pending(stack) = Head(stack) \cup Pending(Tail(stack))
          /\ Pending(stack') = K \cup (Head(stack) \ {v}) \cup Pending(Tail(stack))
      <4>1. /\ Head(stack) \in SUBSET Value /\ Tail(stack) \in Seq(SUBSET Value)
            /\ Pending(stack) = Head(stack) \cup Pending(Tail(stack))
        BY <1>2, <2>6, PendingTop DEF Visit, TypeOK
      <4>2. Head(stack) \ {v} \in SUBSET Value
        BY <4>1
      <4>3. Pending(<<K, Head(stack) \ {v}>> \o Tail(stack))
              = K \cup (Head(stack) \ {v}) \cup Pending(Tail(stack))
        BY ONLY <3>1, <4>1, <4>2, PendingPushTwo
      <4> QED
        BY <2>6, <4>1, <4>3 DEF Visit
    <3>3. Targets' = Targets \cup K
      <4>1. Ends(edges \cup ({v} \X K)) = Ends(edges) \cup K
        BY ONLY {v} # {}, TargetsGrow
      <4> QED
        BY <2>6, <4>1 DEF Visit, Targets
    <3>4. /\ ir' = ir /\ visited' = visited \cup {v} /\ edges \subseteq edges'
          /\ toFollow' = toFollow
          /\ \A e \in edges' : e \in edges \/ e[2] \in K
          /\ \A w \in K : <<v, w>> \in edges'
      BY <2>6 DEF Visit
    <3>5. \A u : Expanded(u) => Expanded(u)'
      BY <3>4 DEF Expanded
    <3>6. Expanded(v)'
      BY <3>1, <3>4 DEF Expanded
    <3>7. NothingForgotten'
      <4> SUFFICES ASSUME NEW e \in edges'
                   PROVE  e[2] \in Owed' \/ Expanded(e[2])'
        BY DEF NothingForgotten
      <4>1. CASE e \in edges
        BY <1>2, <3>2, <3>4, <3>5, <3>6, <4>1 DEF OwedInv, NothingForgotten
      <4>2. CASE e[2] \in K
        BY <3>2, <4>2
      <4> QED
        BY <3>4, <4>1, <4>2
    <3>8. \A u \in visited' : Expanded(u)'
      BY <1>2, <3>4, <3>5, <3>6 DEF OwedInv
    <3>9. Owed' \subseteq Targets'
      BY <1>2, <3>2, <3>3, <3>4 DEF OwedInv
    <3> QED
      BY <3>7, <3>8, <3>9 DEF OwedInv
  <2>7. CASE Return
    <3>1. Pending(stack) = Pending(stack')
      BY <1>2, <2>7, PendingTop DEF Return, TypeOK
    <3> QED
      BY <2>2, <2>7, <3>1 DEF Return
  <2>8. CASE CollectCalls
    <3>1. /\ ir' = ir /\ visited' = visited /\ stack' = stack
          /\ edges \subseteq edges' /\ Pending(stack) = {} /\ toFollow = {}
      BY <1>2, <2>8, PendingEmpty DEF CollectCalls, ControlInv
    <3>2. \A e \in edges' : e \in edges \/ e[2] \in toFollow'
      BY <2>8 DEF CollectCalls
    <3>3. toFollow' \subseteq Targets'
      <4> SUFFICES ASSUME NEW f \in toFollow'
                   PROVE  f \in Targets'
        OBVIOUS
      <4>1. PICK e \in ScaleArgs : f \in getCallArgs(ir, e[2], e[1])
        BY <2>8 DEF CollectCalls
      <4>2. <<e[2], f>> \in edges' /\ <<e[2], f>>[2] = f
        BY <2>8, <4>1 DEF CollectCalls
      <4> QED
        BY <4>2 DEF Targets, Ends
    <3>4. \A u : Expanded(u) => Expanded(u)'
      BY <3>1 DEF Expanded
    <3> QED
      BY <1>2, <3>1, <3>2, <3>3, <3>4 DEF OwedInv, NothingForgotten
  <2>9. ASSUME NEW v \in Value, Follow(v)
        PROVE  OwedInv'
    <3>1. Pending(stack) = {} /\ Pending(stack') = {v}
      BY <2>9, PendingEmpty, PendingSingle DEF Follow
    <3> QED
      BY <2>2, <2>9, <3>1 DEF Follow
  <2> QED
    BY <2>0, <2>1, <2>3, <2>4, <2>5, <2>6, <2>7, <2>8, <2>9
<1> QED
  BY <1>1, <1>2

LEMMA RefsInductive ==
    /\ Init => RefsInv
    /\ TypeOK /\ ControlInv /\ RefsInv /\ [Next]_vars => RefsInv'
<1>1. Init => RefsInv
  BY DEF Init, RefsInv
<1>2. ASSUME TypeOK, ControlInv, RefsInv, [Next]_vars
      PROVE  RefsInv'
  <2>1. CASE CreateScaleGraph
    BY <1>2, <2>1 DEF CreateScaleGraph, RefsInv
  <2>2. ASSUME NEW v \in Value, TakeScaleVar(v)
        PROVE  RefsInv'
    BY <1>2, <2>2 DEF TakeScaleVar, RefsInv, ControlInv
  <2>3. ASSUME NEW v \in Value, TakeRef(v)
        PROVE  RefsInv'
    BY <1>2, <2>3 DEF TakeRef, RefsInv
  <2>4. CASE EndRefs
    BY <1>2, <2>4 DEF EndRefs, RefsInv
  <2>5. ASSUME phase # "create", UNCHANGED <<ir, todo, cur, refs>>, edges \subseteq edges'
        PROVE  RefsInv'
    BY <1>2, <2>5 DEF RefsInv
  <2>6. \/ CreateScaleGraph \/ EndRefs
        \/ \E v \in Value : TakeScaleVar(v) \/ TakeRef(v)
        \/ phase # "create" /\ UNCHANGED <<ir, todo, cur, refs>> /\ edges \subseteq edges'
        \/ UNCHANGED vars
    BY <1>2 DEF Next, Step, Terminated, vars, EndVars, WhileTest, CollectUndefined,
                EndFollow, Skip, Visit, Return, CollectCalls, Follow, ControlInv
  <2> QED
    BY <1>2, <2>1, <2>2, <2>3, <2>4, <2>5, <2>6 DEF vars, RefsInv
<1> QED
  BY <1>1, <1>2

-----------------------------------------------------------------------------
(* What the finished rounds contain.                                       *)

LEMMA RoundTypes ==
    ASSUME ir \in IRModule
    PROVE  /\ AllRefs(ir) \in SUBSET Value
           /\ FirstEdges \in SUBSET (Value \X Value)
           /\ EntryEdges \in SUBSET (Value \X Value)
           /\ Entries \in SUBSET Value
<1>1. AllRefs(ir) \in SUBSET Value
  BY IRFields DEF AllRefs
<1>2. FirstEdges \in SUBSET (Value \X Value)
  BY <1>1, ClosureContains, FlowEdgesMember, RefEdgesMember DEF FirstEdges
<1>3. EntryEdges \in SUBSET (Value \X Value)
  BY <1>2, CallEdgesMember DEF EntryEdges
<1> QED
  BY <1>1, <1>2, <1>3 DEF Entries, Ends

(* When nothing is owed, the graph holds all that the targets R flow to. *)
LEMMA NothingOwed ==
    ASSUME TypeOK, OwedInv, stack = <<>>, toFollow = {},
           NEW R \in SUBSET Value, R \subseteq Targets
    PROVE  Closure(ir, R) \subseteq Targets /\ FlowEdges(ir, Closure(ir, R)) \subseteq edges
<1>1. \A v \in Targets : Expanded(v)
  BY PendingEmpty DEF OwedInv, NothingForgotten, Targets, Ends
<1>2. Targets \in SUBSET Value
  BY DEF TypeOK, Targets, Ends
<1>3. FlowClosed(ir, Targets)
  <2> SUFFICES ASSUME NEW v \in Targets, NEW w \in ir.users[v] \cup ir.memUses[v]
               PROVE  w \in Targets
    BY DEF FlowClosed
  <2>1. <<v, w>> \in edges /\ <<v, w>>[2] = w
    BY <1>1 DEF Expanded
  <2> QED
    BY <2>1 DEF Targets, Ends
<1>4. Closure(ir, R) \subseteq Targets
  BY <1>2, <1>3, ClosureLeast
<1>5. ASSUME NEW e \in FlowEdges(ir, Closure(ir, R))
      PROVE  e \in edges
  <2>1. /\ e \in Value \X Value /\ e[1] \in Closure(ir, R)
        /\ e[2] \in ir.users[e[1]] \cup ir.memUses[e[1]]
    BY <1>5, ClosureContains, FlowEdgesMember DEF TypeOK
  <2>2. <<e[1], e[2]>> \in edges
    BY <1>1, <1>4, <2>1 DEF Expanded
  <2> QED
    BY <2>1, <2>2
<1> QED
  BY <1>4, <1>5

LEMMA FirstRoundComplete ==
    ASSUME IInv, FirstRound, phase # "create", stack = <<>>, toFollow = {}, todo = {}, cur = {}
    PROVE  edges = FirstEdges /\ Closure(ir, AllRefs(ir)) \subseteq Targets
<1>1. edges \subseteq FirstEdges
  BY DEF IInv, BoundInv
<1>2. \A v \in ir.scale : \A r \in ir.refs[v] : <<v, r>> \in edges
  BY DEF IInv, RefsInv
<1>3. RefEdges(ir) \subseteq edges
  BY <1>2, RefEdgesMember DEF IInv, TypeOK
<1>4. AllRefs(ir) \subseteq Targets
  <2> SUFFICES ASSUME NEW v \in ir.scale, NEW r \in ir.refs[v]
               PROVE  r \in Targets
    BY DEF AllRefs
  <2>1. <<v, r>> \in edges /\ <<v, r>>[2] = r
    BY <1>2
  <2> QED
    BY <2>1 DEF Targets, Ends
<1>5. /\ Closure(ir, AllRefs(ir)) \subseteq Targets
      /\ FlowEdges(ir, Closure(ir, AllRefs(ir))) \subseteq edges
  BY <1>4, RoundTypes, NothingOwed DEF IInv, TypeOK
<1> QED
  BY <1>1, <1>3, <1>5 DEF FirstEdges

LEMMA SecondRoundComplete ==
    ASSUME IInv, SecondRound, stack = <<>>, toFollow = {}
    PROVE  edges = ScaleEdges
<1>1. edges \subseteq ScaleEdges /\ FirstEdges \cup EntryEdges \subseteq edges
  BY DEF IInv, BoundInv
<1>2. Entries \subseteq Targets
  BY <1>1 DEF Entries, Targets, Ends
<1>3. FlowEdges(ir, Closure(ir, Entries)) \subseteq edges
  BY <1>2, RoundTypes, NothingOwed DEF IInv, TypeOK
<1> QED
  BY <1>1, <1>3 DEF ScaleEdges

-----------------------------------------------------------------------------
(* Nothing else gets into the graph.                                       *)

LEMMA BoundInductive ==
    /\ Init => BoundInv
    /\ IInv /\ [Next]_vars => BoundInv'
<1>1. Init => BoundInv
  BY PendingEmpty DEF Init, BoundInv, FirstRound, SecondRound
<1>2. ASSUME IInv, [Next]_vars
      PROVE  BoundInv'
  <2> USE DEF FirstRound, SecondRound
  <2>1. ir' = ir
    BY <1>2 DEF Next, Step, Terminated, vars, CreateScaleGraph, TakeScaleVar, TakeRef,
                EndRefs, EndVars, Skip, Visit, Return, WhileTest, CollectCalls,
                CollectUndefined, Follow, EndFollow
  <2>2. /\ FirstEdges' = FirstEdges /\ EntryEdges' = EntryEdges
        /\ Entries' = Entries /\ ScaleEdges' = ScaleEdges
        /\ AllRefs(ir') = AllRefs(ir)
        /\ Closure(ir', AllRefs(ir')) = Closure(ir, AllRefs(ir))
        /\ Closure(ir', Entries') = Closure(ir, Entries)
    BY <2>1 DEF FirstEdges, EntryEdges, Entries, ScaleEdges
  <2>3. /\ AllRefs(ir) \subseteq Closure(ir, AllRefs(ir))
        /\ Entries \subseteq Closure(ir, Entries)
    BY <1>2, RoundTypes, ClosureContains DEF IInv, TypeOK
  (* A step that adds no edge and owes nothing new. *)
  <2>4. ASSUME edges' = edges, FirstRound' => FirstRound, SecondRound' => SecondRound,
               Pending(stack') \subseteq Pending(stack) \cup toFollow, toFollow' \subseteq toFollow,
               FirstRound => toFollow = {}
        PROVE  BoundInv'
    BY <1>2, <2>2, <2>4 DEF IInv, BoundInv
  <2>5. CASE CreateScaleGraph
    BY <1>2, <2>4, <2>5 DEF CreateScaleGraph, IInv, ControlInv
  <2>6. ASSUME NEW v \in Value, TakeScaleVar(v)
        PROVE  BoundInv'
    BY <1>2, <2>4, <2>6 DEF TakeScaleVar, IInv, ControlInv
  <2>7. ASSUME NEW v \in Value, TakeRef(v)
        PROVE  BoundInv'
    <3>1. PICK s \in ir.scale : cur = {s} /\ refs \subseteq ir.refs[s]
      BY <1>2, <2>7 DEF TakeRef, IInv, ControlInv
    <3>2. v \in ir.refs[s] /\ v \in AllRefs(ir)
      BY <2>7, <3>1 DEF TakeRef, AllRefs
    <3>3. <<s, v>> \in FirstEdges
      <4>1. s \in Value
        BY <1>2, IRFields DEF IInv, TypeOK
      <4> QED
        BY <1>2, <3>2, <4>1, RefEdgesMember DEF IInv, TypeOK, FirstEdges
    <3>4. Pending(stack') = {v}
      BY <2>7, PendingSingle DEF TakeRef
    <3>5. FirstRound /\ ~SecondRound'
      BY <1>2, <2>7 DEF TakeRef, IInv, PrevSizeInv
    <3>6. edges' = edges \cup {<<s, v>>}
      BY <2>7, <3>1 DEF TakeRef
    <3> QED
      BY <1>2, <2>2, <2>3, <3>2, <3>3, <3>4, <3>5, <3>6 DEF BoundInv, IInv
  <2>8. CASE EndRefs
    BY <1>2, <2>4, <2>8 DEF EndRefs, IInv, ControlInv
  <2>9. CASE EndVars
    BY <1>2, <2>4, <2>9 DEF EndVars, IInv, ControlInv, PrevSizeInv
  <2>10. ASSUME NEW v \in Value, Skip(v)
         PROVE  BoundInv'
    <3>1. Pending(stack') \subseteq Pending(stack)
      <4>1. /\ Head(stack) \ {v} \in SUBSET Value /\ Tail(stack) \in Seq(SUBSET Value)
            /\ Pending(stack) = Head(stack) \cup Pending(Tail(stack))
        BY <1>2, <2>10, PendingTop DEF Skip, IInv, TypeOK
      <4>2. Pending(<<Head(stack) \ {v}>> \o Tail(stack))
              = (Head(stack) \ {v}) \cup Pending(Tail(stack))
        BY ONLY <4>1, PendingPush
      <4> QED
        BY <2>10, <4>1, <4>2 DEF Skip
    <3> QED
      BY <1>2, <2>4, <2>10, <3>1 DEF Skip, IInv, ControlInv
  <2>11. ASSUME NEW v \in Value, Visit(v)
         PROVE  BoundInv'
    <3> DEFINE K == Children(ir, v)
    <3>1. K \in SUBSET Value /\ K = ir.users[v] \cup ir.memUses[v]
      BY <1>2, KidsType DEF IInv, TypeOK
    <3>2. /\ Head(stack) \in SUBSET Value /\ Tail(stack) \in Seq(SUBSET Value)
          /\ Pending(stack) = Head(stack) \cup Pending(Tail(stack))
      BY <1>2, <2>11, PendingTop DEF Visit, IInv, TypeOK
    <3>3. v \in Pending(stack) /\ Pending(stack') \subseteq Pending(stack) \cup K
      <4>1. Head(stack) \ {v} \in SUBSET Value
        BY <3>2
      <4>2. Pending(<<K, Head(stack) \ {v}>> \o Tail(stack))
              = K \cup (Head(stack) \ {v}) \cup Pending(Tail(stack))
        BY ONLY <3>1, <3>2, <4>1, PendingPushTwo
      <4> QED
        BY <2>11, <3>2, <4>2 DEF Visit
    (* The values an action expands belong to the closure of its round. *)
    <3>4. ASSUME NEW R \in SUBSET Value, v \in Closure(ir, R)
          PROVE  K \subseteq Closure(ir, R) /\ {v} \X K \subseteq FlowEdges(ir, Closure(ir, R))
      <4>1. FlowClosed(ir, Closure(ir, R)) /\ Closure(ir, R) \subseteq Value
        BY <1>2, ClosureClosed, ClosureContains DEF IInv, TypeOK
      <4>2. ASSUME NEW e \in {v} \X K
            PROVE  e \in FlowEdges(ir, Closure(ir, R))
        BY <1>2, <3>1, <3>4, <4>1, <4>2, FlowEdgesMember DEF IInv, TypeOK
      <4> QED
        BY <3>1, <3>4, <4>1, <4>2 DEF FlowClosed
    <3>5. /\ edges' = edges \cup ({v} \X K)
          /\ toFollow' = toFollow /\ phase' = phase /\ prevSize' = prevSize
      BY <2>11 DEF Visit
    <3>6. CASE FirstRound
      <4>1. /\ edges \subseteq FirstEdges /\ Pending(stack) \subseteq Closure(ir, AllRefs(ir))
            /\ ~SecondRound'
        BY <1>2, <3>5, <3>6 DEF IInv, BoundInv
      <4>2. /\ K \subseteq Closure(ir, AllRefs(ir))
            /\ {v} \X K \subseteq FlowEdges(ir, Closure(ir, AllRefs(ir)))
        BY <1>2, <3>3, <3>4, <4>1, RoundTypes DEF IInv, TypeOK
      <4>3. edges' \subseteq FirstEdges
        BY <3>5, <4>1, <4>2 DEF FirstEdges
      <4> QED
        BY <2>2, <3>3, <4>1, <4>2, <4>3 DEF BoundInv
    <3>7. CASE SecondRound
      <4>1. /\ FirstEdges \cup EntryEdges \subseteq edges /\ edges \subseteq ScaleEdges
            /\ Pending(stack) \cup toFollow \subseteq Closure(ir, Entries)
            /\ ~FirstRound'
        BY <1>2, <3>5, <3>7 DEF IInv, BoundInv
      <4>2. /\ K \subseteq Closure(ir, Entries)
            /\ {v} \X K \subseteq FlowEdges(ir, Closure(ir, Entries))
        BY <1>2, <3>3, <3>4, <4>1, RoundTypes DEF IInv, TypeOK
      <4>3. edges' \subseteq ScaleEdges
        BY <3>5, <4>1, <4>2 DEF ScaleEdges
      <4> QED
        BY <2>2, <3>3, <3>5, <4>1, <4>2, <4>3 DEF BoundInv
    <3>8. CASE ~FirstRound /\ ~SecondRound
      BY <3>5, <3>8 DEF BoundInv
    <3> QED
      BY <3>6, <3>7, <3>8
  <2>12. CASE Return
    <3>1. Pending(stack') \subseteq Pending(stack)
      BY <1>2, <2>12, PendingTop DEF Return, IInv, TypeOK
    <3> QED
      BY <1>2, <2>4, <2>12, <3>1 DEF Return, IInv, ControlInv
  <2>13. CASE WhileTest
    BY <1>2, <2>4, <2>13 DEF WhileTest, IInv, ControlInv
  <2>14. CASE CollectCalls
    <3>1. edges = FirstEdges
      BY <1>2, <2>14, FirstRoundComplete DEF CollectCalls, IInv, ControlInv, PrevSizeInv
    <3>2. EntryEdges = UNION {{e[2]} \X getCallArgs(ir, e[2], e[1]) : e \in ScaleArgs}
      BY <3>1 DEF EntryEdges, CallEdges, ScaleArgs
    <3>3. edges' = FirstEdges \cup EntryEdges
      BY <2>14, <3>1, <3>2 DEF CollectCalls
    <3>4. toFollow' \subseteq Entries
      <4> SUFFICES ASSUME NEW f \in toFollow'
                   PROVE  f \in Entries
        OBVIOUS
      <4>1. PICK e \in ScaleArgs : f \in getCallArgs(ir, e[2], e[1])
        BY <2>14 DEF CollectCalls
      <4>2. <<e[2], f>> \in EntryEdges /\ <<e[2], f>>[2] = f
        BY <3>2, <4>1
      <4> QED
        BY <4>2 DEF Entries, Ends
    <3>5. Pending(stack') = {} /\ ~FirstRound'
      BY <1>2, <2>14, PendingEmpty DEF CollectCalls, IInv, ControlInv
    <3> QED
      BY <2>2, <2>3, <3>3, <3>4, <3>5 DEF BoundInv, ScaleEdges
  <2>15. CASE CollectUndefined
    BY <2>15 DEF CollectUndefined, BoundInv
  <2>16. ASSUME NEW v \in Value, Follow(v)
         PROVE  BoundInv'
    <3>1. Pending(stack') = {v} /\ v \in toFollow
      BY <2>16, PendingSingle DEF Follow
    <3> QED
      BY <2>4, <2>16, <3>1 DEF Follow
  <2>17. CASE EndFollow
    <3>1. nodes # {} /\ nodes \in SUBSET Value /\ SecondRound /\ ~FirstRound
      BY <1>2, <2>17 DEF EndFollow, IInv, TypeOK, PrevSizeInv
    <3>2. prevSize' # 0
      BY <2>17, <3>1, NatCardinality DEF EndFollow
    <3> QED
      BY <2>4, <2>17, <3>1, <3>2 DEF EndFollow
  <2>18. CASE UNCHANGED vars
    BY <1>2, <2>4, <2>18 DEF vars, IInv, ControlInv
  <2> QED
    BY <1>2, <2>5, <2>6, <2>7, <2>8, <2>9, <2>10, <2>11, <2>12, <2>13, <2>14,
       <2>15, <2>16, <2>17, <2>18 DEF Next, Step, Terminated
<1> QED
  BY <1>1, <1>2

-----------------------------------------------------------------------------
(* The theorems.                                                           *)

LEMMA IInvNext ==
    /\ Init => IInv
    /\ IInv /\ [Next]_vars => IInv'
BY TypeInductive, ControlInductive, PrevSizeInductive, OwedInductive, RefsInductive,
   BoundInductive DEF IInv

LEMMA IInvInductive == Spec => []IInv
BY IInvNext, PTL DEF Spec

(* In a program without scale variables there is nothing to build. *)
LEMMA NoScaleNoEdges ==
    ASSUME ir \in IRModule, ir.scale = {}
    PROVE  ScaleEdges = {}
<1>1. AllRefs(ir) = {} /\ RefEdges(ir) = {}
  BY DEF AllRefs, RefEdges
<1>2. Closure(ir, {}) = {}
  <2>1. FlowClosed(ir, {})
    BY DEF FlowClosed
  <2> QED
    BY <2>1, ClosureLeast
<1>3. FlowEdges(ir, {}) = {}
  BY DEF FlowEdges
<1>4. FirstEdges = {}
  BY <1>1, <1>2, <1>3 DEF FirstEdges
<1>5. EntryEdges = {} /\ Entries = {}
  BY <1>4 DEF EntryEdges, CallEdges, Entries, Ends
<1> QED
  BY <1>2, <1>3, <1>4, <1>5 DEF ScaleEdges

LEMMA IInvExact == IInv => ExactGraph
<1> SUFFICES ASSUME IInv, phase = "done"
             PROVE  edges = ScaleEdges /\ nodes = ir.scale \cup Ends(edges)
  BY DEF ExactGraph
<1>1. nodes = ir.scale \cup Ends(edges) /\ stack = <<>> /\ toFollow = {}
  BY DEF IInv, ControlInv, Targets
<1>2. CASE prevSize # 0
  BY <1>1, <1>2, SecondRoundComplete DEF SecondRound
<1>3. CASE prevSize = 0
  <2>1. nodes = {}
    BY <1>3 DEF IInv, PrevSizeInv
  <2>2. ir.scale = {} /\ edges = {}
    BY <1>1, <2>1 DEF Ends
  <2> QED
    BY <1>1, <2>2, NoScaleNoEdges DEF IInv, TypeOK
<1> QED
  BY <1>1, <1>2, <1>3

(* All edges are between values, and all they lead to hangs below the scale
   variables: a set that contains these and follows the edges has it.       *)
LEMMA ScaleEdgesHang ==
    ASSUME ir \in IRModule
    PROVE  /\ ScaleEdges \in SUBSET (Value \X Value)
           /\ \A R \in SUBSET Value :
                 ir.scale \subseteq R /\ (\A e \in ScaleEdges : e[1] \in R => e[2] \in R) => Ends(ScaleEdges) \subseteq R
<1> DEFINE First == Closure(ir, AllRefs(ir))
           Second == Closure(ir, Entries)
<1>1. AllRefs(ir) \in SUBSET Value
  BY IRFields DEF AllRefs
<1>2. First \in SUBSET Value /\ AllRefs(ir) \subseteq First /\ FlowClosed(ir, First)
  BY <1>1, ClosureContains, ClosureClosed
<1> HIDE DEF First
<1>3. FirstEdges \in SUBSET (Value \X Value)
  BY <1>2, RefEdgesMember, FlowEdgesMember DEF FirstEdges, First
<1>4. EntryEdges \in SUBSET (Value \X Value)
  BY <1>3, CallEdgesMember DEF EntryEdges
<1>5. Entries \in SUBSET Value
  BY <1>4 DEF Entries, Ends
<1>6. Second \in SUBSET Value /\ Entries \subseteq Second /\ FlowClosed(ir, Second)
  BY <1>5, ClosureContains, ClosureClosed
<1> HIDE DEF Second
<1>7. ScaleEdges \in SUBSET (Value \X Value)
  BY <1>3, <1>4, <1>6, FlowEdgesMember DEF ScaleEdges, Second
<1>8. ASSUME NEW R \in SUBSET Value, ir.scale \subseteq R,
             \A e \in ScaleEdges : e[1] \in R => e[2] \in R
      PROVE  Ends(ScaleEdges) \subseteq R
  <2>1. ASSUME NEW C \in SUBSET Value, FlowClosed(ir, C), FlowEdges(ir, C) \subseteq ScaleEdges
        PROVE  FlowClosed(ir, C \cap R)
    <3> SUFFICES ASSUME NEW v \in C \cap R, NEW w \in ir.users[v] \cup ir.memUses[v]
                 PROVE  w \in C \cap R
      BY DEF FlowClosed
    <3>1. w \in C /\ w \in Value
      BY <2>1 DEF FlowClosed
    <3>2. <<v, w>> \in FlowEdges(ir, C)
      BY <3>1, FlowEdgesMember
    <3> QED
      BY <1>8, <2>1, <3>1, <3>2
  <2>2. AllRefs(ir) \subseteq R
    <3> SUFFICES ASSUME NEW v \in ir.scale, NEW r \in ir.refs[v]
                 PROVE  r \in R
      BY DEF AllRefs
    <3>1. v \in Value /\ r \in Value
      BY IRFields
    <3>2. <<v, r>> \in ScaleEdges
      BY <3>1, RefEdgesMember DEF ScaleEdges, FirstEdges
    <3> QED
      BY <1>8, <3>2
  <2>3. First \subseteq R
    <3>1. FlowClosed(ir, First \cap R)
      BY <1>2, <2>1 DEF ScaleEdges, FirstEdges, First
    <3>2. Closure(ir, AllRefs(ir)) \subseteq First \cap R
      BY <1>2, <2>2, <3>1, ClosureLeast
    <3> QED
      BY <3>2 DEF First
  <2>4. \A e \in FirstEdges : e[2] \in R
    <3> SUFFICES ASSUME NEW e \in FirstEdges PROVE e[1] \in R
      BY <1>8 DEF ScaleEdges
    <3>1. e \in RefEdges(ir) => e[1] \in ir.scale
      BY RefEdgesMember
    <3>2. e \in FlowEdges(ir, First) => e[1] \in First
      BY <1>2, FlowEdgesMember
    <3> QED
      BY <1>8, <2>3, <3>1, <3>2 DEF FirstEdges, First
  <2>5. \A e \in EntryEdges : e[2] \in R
    <3> SUFFICES ASSUME NEW e \in EntryEdges PROVE e[1] \in R
      BY <1>8 DEF ScaleEdges
    <3> QED
      BY <1>3, <2>4, CallEdgesMember DEF EntryEdges
  <2>6. Second \subseteq R
    <3>1. FlowClosed(ir, Second \cap R)
      BY <1>6, <2>1 DEF ScaleEdges, Second
    <3>2. Entries \subseteq R
      BY <2>5 DEF Entries, Ends
    <3>3. Closure(ir, Entries) \subseteq Second \cap R
      BY <1>6, <3>1, <3>2, ClosureLeast
    <3> QED
      BY <3>3 DEF Second
  <2>7. \A e \in FlowEdges(ir, Second) : e[2] \in R
    <3> SUFFICES ASSUME NEW e \in FlowEdges(ir, Second) PROVE e[1] \in R
      BY <1>8 DEF ScaleEdges, Second
    <3> QED
      BY <1>6, <2>6, FlowEdgesMember
  <2> QED
    BY <2>4, <2>5, <2>7 DEF ScaleEdges, Ends, Second
<1> QED
  BY <1>7, <1>8

(* Whatever order the pass walks use lists, maps and scale variables in, the
   graph it hands on is ScaleEdges: the result of tracing is a function of
   the program.                                                            *)
THEOREM TracingExact == Spec => []ExactGraph
BY IInvInductive, IInvExact, PTL

LEMMA IInvComplete == IInv => DirectFlowComplete
<1> SUFFICES ASSUME IInv, phase = "done"
             PROVE  /\ \A v \in ir.scale : \A r \in ir.refs[v] : <<v, r>> \in edges
                    /\ \A e \in edges : \A w \in ir.users[e[2]] \cup ir.memUses[e[2]] :
                           w \in nodes /\ <<e[2], w>> \in edges
  BY DEF DirectFlowComplete
<1>1. /\ stack = <<>> /\ toFollow = {} /\ cur = {} /\ todo = {}
      /\ nodes = ir.scale \cup Ends(edges)
  BY DEF IInv, ControlInv, Targets
<1>2. \A v \in ir.scale : \A r \in ir.refs[v] : <<v, r>> \in edges
  BY <1>1 DEF IInv, RefsInv
<1>3. \A e \in edges : Expanded(e[2])
  BY <1>1, PendingEmpty DEF IInv, OwedInv, NothingForgotten
<1>4. ASSUME NEW e \in edges, NEW w \in ir.users[e[2]] \cup ir.memUses[e[2]]
      PROVE  w \in nodes /\ <<e[2], w>> \in edges
  <2>1. <<e[2], w>> \in edges /\ <<e[2], w>>[2] = w
    BY <1>3 DEF Expanded
  <2> QED
    BY <1>1, <2>1 DEF Ends
<1> QED
  BY <1>2, <1>4

(* No user and no memory use of a traced value is missing from the graph
   that is handed on, for any program: the shared visited set, the recursion
   and the second round never cut a trace short.                           *)
THEOREM TracingComplete == Spec => []DirectFlowComplete
BY IInvInductive, IInvComplete, PTL

(* At every moment of the tracing a value of the graph that is not expanded
   is on the recursion stack or in to_follow.                              *)
THEOREM TracingForgetsNothing == Spec => []NothingForgotten
BY IInvInductive, PTL DEF IInv, OwedInv

(* What the code does with a call and what is wrong with it agree. *)
LEMMA BadCallUndefined ==
    ASSUME TypeOK, NEW e \in Value \X Value
    PROVE  BadCall(e) <=> e[2] \in ir.calls /\ CallArgsUndefined(ir, e[2], e[1])
<1>1. ir.operands[e[2]] \in Seq(Value) /\ ir.formals[e[2]] \in Seq(Value)
  BY IRFields DEF TypeOK
<1>2. ASSUME NEW i \in DOMAIN ir.operands[e[2]]
      PROVE  i > Len(ir.formals[e[2]]) <=> i \notin DOMAIN ir.formals[e[2]]
  BY <1>1
<1> QED
  BY <1>2 DEF BadCall, CallArgsUndefined, Positions

(* The call sites are looked at when the graph is FirstEdges, once: from then
   on it is known that none of them is bad.                                  *)
UndefinedInv ==
    /\ phase = "undefined" => \E e \in FirstEdges : BadCall(e)
    /\ SecondRound => \A e \in FirstEdges : ~BadCall(e)

LEMMA UndefinedInductive ==
    /\ Init => UndefinedInv
    /\ IInv /\ UndefinedInv /\ [Next]_vars => UndefinedInv'
<1>1. Init => UndefinedInv
  BY DEF Init, UndefinedInv, SecondRound
<1>2. ASSUME IInv, UndefinedInv, [Next]_vars
      PROVE  UndefinedInv'
  <2>1. ASSUME phase = "collect"
        PROVE  (\E e \in ScaleArgs : CallArgsUndefined(ir, e[2], e[1])) <=> \E e \in FirstEdges : BadCall(e)
    <3>1. edges = FirstEdges /\ edges \subseteq Value \X Value
      BY <1>2, <2>1, FirstRoundComplete DEF IInv, TypeOK, ControlInv, PrevSizeInv, FirstRound
    <3> QED
      BY <1>2, <3>1, BadCallUndefined DEF ScaleArgs, IInv
  <2>2. ir' = ir => FirstEdges' = FirstEdges /\ \A e : BadCall(e)' <=> BadCall(e)
    BY DEF FirstEdges, BadCall
  <2>3. CASE CollectUndefined
    BY <2>1, <2>2, <2>3 DEF CollectUndefined, UndefinedInv, SecondRound
  <2>4. CASE CollectCalls
    BY <2>1, <2>2, <2>4 DEF CollectCalls, UndefinedInv, SecondRound
  <2>5. ASSUME ir' = ir, phase' = "undefined" => phase = "undefined", SecondRound' => SecondRound
        PROVE  UndefinedInv'
    BY <1>2, <2>2, <2>5 DEF UndefinedInv
  <2>6. CASE UNCHANGED vars
    BY <2>5, <2>6 DEF vars, SecondRound
  <2>7. CASE Step /\ ~CollectUndefined /\ ~CollectCalls
    <3>1. ir' = ir /\ (phase' = "undefined" => phase = "undefined")
      BY <2>7 DEF Step, CreateScaleGraph, TakeScaleVar, TakeRef, EndRefs,
         EndVars, Skip, Visit, Return, WhileTest, Follow, EndFollow
    <3>2. SecondRound' => SecondRound
      BY <2>7 DEF Step, CreateScaleGraph, TakeScaleVar, TakeRef, EndRefs,
         EndVars, Skip, Visit, Return, WhileTest, Follow, EndFollow, SecondRound
    <3> QED
      BY <2>5, <3>1, <3>2
  <2> QED
    BY <1>2, <2>3, <2>4, <2>6, <2>7 DEF Next, Terminated
<1> QED
  BY <1>1, <1>2

LEMMA UndefinedDecided == IInv /\ UndefinedInv => UndefinedByProgram
<1> SUFFICES ASSUME IInv, UndefinedInv, phase = "done", prevSize = 0
             PROVE  FirstEdges = {}
  BY DEF UndefinedByProgram, UndefinedInv, SecondRound
<1>1. ir.scale = {}
  BY DEF IInv, PrevSizeInv, ControlInv
<1> QED
  BY <1>1, NoScaleNoEdges DEF IInv, TypeOK, ScaleEdges

(* Whatever order lists and maps are walked in, the pass runs into undefined
   behaviour just for the programs in which a reference of a scale variable
   flows to a call that cannot be expanded.                                  *)
THEOREM UndefinedIsDecided == Spec => []UndefinedByProgram
BY IInvInductive, UndefinedInductive, UndefinedDecided, PTL DEF Spec

-----------------------------------------------------------------------------
(* The refinement: initial states and steps of the tracing are initial
   states and steps, or stutters, of ScaleFlow.                            *)

(* ScaleFlow reads a program with the same operators. *)
LEMMA FlowOperators ==
    /\ \A m : Flow!AllRefs(m) = AllRefs(m) /\ Flow!RefEdges(m) = RefEdges(m)
    /\ \A m, R : Flow!Closure(m, R) = Closure(m, R) /\ Flow!FlowEdges(m, R) = FlowEdges(m, R)
    /\ \A m, c, a : Flow!getCallArgs(m, c, a) = getCallArgs(m, c, a)
    /\ \A m, E : Flow!CallEdges(m, E) = CallEdges(m, E)
    /\ Flow!DirectEdges = FirstEdges
<1>1. \A m : Flow!AllRefs(m) = AllRefs(m) /\ Flow!RefEdges(m) = RefEdges(m)
  BY DEF Flow!AllRefs, AllRefs, Flow!RefEdges, RefEdges
<1>2. \A m, R : Flow!Closure(m, R) = Closure(m, R) /\ Flow!FlowEdges(m, R) = FlowEdges(m, R)
  BY DEF Flow!Closure, Closure, Flow!FlowClosed, FlowClosed, Flow!FlowEdges, FlowEdges
<1>3. \A m, c, a : Flow!getCallArgs(m, c, a) = getCallArgs(m, c, a)
  BY DEF Flow!getCallArgs, getCallArgs, Flow!Positions, Positions
<1>4. \A m, E : Flow!CallEdges(m, E) = CallEdges(m, E)
  BY <1>3 DEF Flow!CallEdges, CallEdges
<1> QED
  BY <1>1, <1>2, <1>3, <1>4 DEF Flow!DirectEdges, FirstEdges

LEMMA FlowInit == Init => Flow!Init
BY DEF Init, Flow!Init

LEMMA EdgesInNodes ==
    ASSUME IInv, NEW e \in edges
    PROVE  e[2] \in nodes
<1>1. phase # "create" /\ nodes = ir.scale \cup Targets
  BY DEF IInv, ControlInv
<1> QED
  BY <1>1 DEF Targets, Ends

(* The graph the pass ends with is complete in the sense of ScaleFlow. *)
LEMMA DoneComplete ==
    ASSUME IInv, phase = "test", Cardinality(nodes) = prevSize
    PROVE  Flow!Complete(nodes)
<1>1. /\ stack = <<>> /\ toFollow = {} /\ cur = {} /\ todo = {}
      /\ nodes = ir.scale \cup Ends(edges) /\ nodes \in SUBSET Value
  BY DEF IInv, ControlInv, Targets, TypeOK
<1>2. ir.scale \cup AllRefs(ir) \subseteq nodes
  <2> SUFFICES ASSUME NEW v \in ir.scale, NEW r \in ir.refs[v]
               PROVE  r \in nodes
    BY <1>1 DEF AllRefs
  <2>1. <<v, r>> \in edges /\ <<v, r>>[2] = r
    BY <1>1 DEF IInv, RefsInv
  <2> QED
    BY <1>1, <2>1 DEF Ends
<1>3. ASSUME NEW v \in nodes \ ir.scale, NEW w \in ir.users[v] \cup ir.memUses[v]
      PROVE  w \in nodes
  <2>1. PICK e \in edges : e[2] = v
    BY <1>1 DEF Ends
  <2>2. Expanded(v)
    BY <1>1, <2>1, PendingEmpty DEF IInv, OwedInv, NothingForgotten
  <2>3. <<v, w>> \in edges /\ <<v, w>>[2] = w
    BY <2>2 DEF Expanded
  <2> QED
    BY <1>1, <2>3 DEF Ends
<1>4. EntryEdges \subseteq edges
  <2>1. CASE prevSize # 0
    BY <2>1 DEF IInv, BoundInv, SecondRound
  <2>2. CASE prevSize = 0
    <3>1. nodes = {}
      BY <1>1, <2>2, NatCardinality
    <3>2. ir.scale = {}
      BY <1>1, <3>1
    <3>3. ScaleEdges = {}
      BY <3>2, NoScaleNoEdges DEF IInv, TypeOK
    <3> QED
      BY <3>3 DEF ScaleEdges
  <2> QED
    BY <2>1, <2>2
<1>5. \A e \in Flow!CallEdges(ir, Flow!DirectEdges) : e[2] \in nodes
  BY <1>1, <1>4, FlowOperators DEF EntryEdges, Ends
<1> QED
  BY <1>2, <1>3, <1>5, FlowOperators DEF Flow!Complete

LEMMA FlowStep == IInv /\ [Next]_vars => [Flow!Next]_(Flow!vars)
<1> SUFFICES ASSUME IInv, [Next]_vars
             PROVE  [Flow!Next]_(Flow!vars)
  OBVIOUS
<1>1. ASSUME ir' = ir, phase # "done", phase' # "done", nodes \subseteq nodes',
             \A w \in nodes' \ nodes : Flow!Justified(nodes, w)
      PROVE  Flow!Next
  BY <1>1 DEF Flow!Next, Flow!Grow
<1>2. ASSUME UNCHANGED <<ir, nodes>>, (phase' = "done") = (phase = "done")
      PROVE  UNCHANGED Flow!vars
  BY <1>2 DEF Flow!vars
<1>3. CASE CreateScaleGraph
  <2>1. nodes = {} /\ nodes' = ir.scale
    BY <1>3 DEF CreateScaleGraph, IInv, ControlInv
  <2> QED
    BY <1>1, <1>3, <2>1 DEF CreateScaleGraph, Flow!Justified
<1>4. ASSUME NEW v \in Value, TakeRef(v)
      PROVE  Flow!Next
  <2>1. PICK s \in ir.scale : cur = {s} /\ refs \subseteq ir.refs[s]
    BY <1>4 DEF TakeRef, IInv, ControlInv
  <2>2. v \in AllRefs(ir)
    BY <1>4, <2>1 DEF TakeRef, AllRefs
  <2> QED
    BY <1>1, <1>4, <2>2, FlowOperators DEF TakeRef, Flow!Justified
<1>5. ASSUME NEW v \in Value, Visit(v)
      PROVE  Flow!Next
  <2>1. v \in Targets
    <3>1. v \in Pending(stack)
      BY <1>5, PendingTop DEF Visit, IInv, TypeOK
    <3> QED
      BY <3>1 DEF IInv, OwedInv
  <2>2. v \in nodes
    BY <2>1, EdgesInNodes DEF Targets, Ends
  <2>3. phase \in {"refs", "follow"}
    BY <1>5 DEF Visit, IInv, ControlInv
  <2> QED
    BY <1>1, <1>5, <2>2, <2>3 DEF Visit, Children, Flow!Justified
<1>6. CASE WhileTest
  <2>1. CASE Cardinality(nodes) = prevSize
    BY <1>6, <2>1, DoneComplete DEF WhileTest, Flow!Next, Flow!Finish
  <2>2. CASE Cardinality(nodes) # prevSize
    BY <1>2, <1>6, <2>2 DEF WhileTest
  <2> QED
    BY <2>1, <2>2
<1>7. CASE CollectCalls
  <2>1. ASSUME NEW f \in toFollow'
        PROVE  Flow!Justified(nodes, f)
    <3>1. PICK e \in ScaleArgs : f \in getCallArgs(ir, e[2], e[1])
      BY <1>7 DEF CollectCalls
    <3>2. e[2] \in nodes /\ e[2] \in ir.calls
      BY EdgesInNodes DEF ScaleArgs
    <3>3. e[1] \in nodes
      <4>1. edges = FirstEdges /\ Closure(ir, AllRefs(ir)) \subseteq Targets
        BY <1>7, FirstRoundComplete DEF CollectCalls, IInv, ControlInv, PrevSizeInv, FirstRound
      <4>2. e \in FirstEdges
        BY <4>1 DEF ScaleArgs
      <4>3. CASE e \in RefEdges(ir)
        BY <1>7, <4>3, RefEdgesMember DEF CollectCalls, IInv, TypeOK, ControlInv
      <4>4. CASE e \in FlowEdges(ir, Closure(ir, AllRefs(ir)))
        <5>1. e[1] \in Closure(ir, AllRefs(ir))
          BY <4>4, RoundTypes, ClosureContains, FlowEdgesMember DEF IInv, TypeOK
        <5> QED
          BY <1>7, <4>1, <5>1 DEF CollectCalls, IInv, ControlInv
      <4> QED
        BY <4>2, <4>3, <4>4 DEF FirstEdges
    <3> QED
      BY <3>1, <3>2, <3>3, FlowOperators DEF Flow!Justified
  <2> QED
    BY <1>1, <1>7, <2>1 DEF CollectCalls
<1>8. \/ CreateScaleGraph \/ WhileTest \/ CollectCalls
      \/ \E v \in Value : TakeRef(v) \/ Visit(v)
      \/ UNCHANGED <<ir, nodes>> /\ (phase' = "done") = (phase = "done")
  BY DEF Next, Step, Terminated, vars, TakeScaleVar, EndRefs, EndVars, Skip, Return,
         CollectUndefined, Follow, EndFollow
<1> QED
  BY <1>2, <1>3, <1>4, <1>5, <1>6, <1>7, <1>8

(* Tracing is an implementation of ScaleFlow: it adds a value only when a
   flow of the program justifies it and ends only when it has them all.    *)
THEOREM TracingImplementsFlow == Spec => ImplementsScaleFlow
BY FlowInit, FlowStep, IInvInductive, PTL DEF Spec, ImplementsScaleFlow, Flow!Spec
=============================================================================
