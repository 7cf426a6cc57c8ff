------------------------- MODULE JsonVisitor_proof -------------------------
(***************************************************************************)
(* The two stacks of a JSON parse, the visitor's levels and the parser's   *)
(* pointers, agree at any depth limit and for texts of any length, and     *)
(* every visit finds the container it writes to.                           *)
(***************************************************************************)
EXTENDS JsonVisitor, SequenceTheorems, FiniteSetTheorems, WellFoundedInduction, TLAPS

Shape == DocumentShape /\ StackShape /\ ControlShape /\ TargetShape

-----------------------------------------------------------------------------
(* What the writes of the parser preserve. *)

Fresh(leaf) == leaf \in Node /\ leaf.kids = <<>>

LEMMA Appending ==
  ASSUME NEW S, NEW s \in Seq(S), NEW e \in S
  PROVE  /\ Append(s, e) \in Seq(S) /\ Len(Append(s, e)) = Len(s) + 1
         /\ Append(s, e)[Len(s) + 1] = e
         /\ \A i \in 1 .. Len(s) : Append(s, e)[i] = s[i]
OBVIOUS

LEMMA NatSplit == ASSUME NEW a \in Nat, NEW b \in Nat, a <= b PROVE a < b \/ a = b
OBVIOUS

LEMMA NatStep == ASSUME NEW a \in Nat, NEW b \in Nat, a < b PROVE a + 1 <= b
OBVIOUS

LEMMA NatBelow == ASSUME NEW a \in Nat, NEW b \in Nat, 1 <= a, a < b PROVE a \in 1 .. b - 1
OBVIOUS

(* A stack of ascending numbers below c, with c pushed on it. *)
LEMMA Pushing ==
  ASSUME NEW s \in Seq(Nat), NEW c \in Nat, NEW n \in Nat, 0 < c, c < n,
         \A i \in 1 .. Len(s) : s[i] \in 1 .. c - 1,
         \A i, j \in 1 .. Len(s) : i < j => s[i] < s[j]
  PROVE  LET r == Append(s, c) IN
         /\ r \in Seq(Nat) /\ Len(r) = Len(s) + 1 /\ r[Len(s) + 1] = c
         /\ \A i \in 1 .. Len(s) : r[i] = s[i]
         /\ \A i \in 1 .. Len(r) : r[i] \in 1 .. n - 1
         /\ \A i, j \in 1 .. Len(r) : i < j => r[i] < r[j]
BY SMTT(60)

LEMMA Singleton ==
  ASSUME NEW S, NEW e \in S
  PROVE  <<e>> \in Seq(S) /\ Len(<<e>>) = 1 /\ <<e>>[1] = e
OBVIOUS

LEMMA EmptyTyped == ASSUME NEW S PROVE <<>> \in Seq(S)
OBVIOUS

(* The fields of a document. *)
LEMMA NodeTyped ==
  ASSUME NEW d \in Node
  PROVE  d.kind \in Kinds /\ d.text \in Scalars \cup Contents \cup {""} /\ d.kids \in Seq(Kid)
         /\ Len(d.kids) \in Nat
<1>1. d.kind \in Kinds /\ d.text \in Scalars \cup Contents \cup {""} /\ d.kids \in Seq(Kid)
  BY DEF Node
<1> DEFINE s == d.kids
<1> HIDE DEF s
<1>2. s \in Seq(Kid) => Len(s) \in Nat OBVIOUS
<1> QED BY <1>1, <1>2 DEF s

LEMMA LeafFresh ==
  ASSUME NEW kind \in Kinds, NEW text \in Scalars \cup Contents \cup {""}
  PROVE  Fresh(Leaf(kind, text)) /\ Leaf(kind, text).kind = kind
<1>1. <<>> \in Seq(Kid) BY EmptyTyped
<1> QED BY <1>1 DEF Fresh, Leaf, Node

LEMMA KidTyped ==
  ASSUME NEW key \in Contents \cup {NoKey}, NEW n \in Nat
  PROVE  <<key, n>> \in Kid /\ <<key, n>>[2] = n
BY DEF Kid

LEMMA ScalarFresh ==
  ASSUME NEW s \in Scalars
  PROVE  Fresh(ScalarLeaf(s))
<1>1. Fresh(Leaf("null", "")) /\ Fresh(Leaf("scalar", s)) BY LeafFresh DEF Kinds
<1> QED BY <1>1 DEF ScalarLeaf

(* A document overwritten with a fresh one: the others stay. *)
LEMMA Overwritten ==
  ASSUME NEW h \in Seq(Node), KidsNewer(h), NEW n \in 1 .. Len(h), NEW leaf, Fresh(leaf)
  PROVE  LET g == [h EXCEPT ![n] = leaf] IN
         /\ g \in Seq(Node) /\ Len(g) = Len(h) /\ KidsNewer(g)
         /\ g[n] = leaf /\ \A m \in 1 .. Len(h) : m # n => g[m] = h[m]
BY DEF Fresh, KidsNewer

(* A fresh document appended and entered among the kids of n: the kinds *)
(* stay, and so do the kids of all others. *)
LEMMA Attached ==
  ASSUME NEW h \in Seq(Node), KidsNewer(h), NEW n \in 1 .. Len(h),
         NEW key \in Contents \cup {NoKey}, NEW leaf, Fresh(leaf)
  PROVE  LET g == Attach(h, n, key, leaf) IN
         /\ g \in Seq(Node) /\ Len(g) = Len(h) + 1 /\ KidsNewer(g)
         /\ g[Len(h) + 1] = leaf
         /\ \A m \in 1 .. Len(h) : g[m].kind = h[m].kind
         /\ \E i \in 1 .. Len(g[n].kids) : g[n].kids[i][2] = Len(h) + 1
<1> DEFINE old == h[n]
           kid == <<key, Len(h) + 1>>
           new == Entered(old, key, Len(h) + 1)
           g0 == [h EXCEPT ![n] = new]
           g == Append(g0, leaf)
           last == Len(old.kids) + 1
<1>1. kid \in Kid /\ kid[2] = Len(h) + 1
  <2>1. Len(h) + 1 \in Nat OBVIOUS
  <2> QED BY <2>1, KidTyped
<1>2. old.kind \in Kinds /\ old.text \in Scalars \cup Contents \cup {""} /\ old.kids \in Seq(Kid)
      /\ Len(old.kids) \in Nat
  <2>1. old \in Node OBVIOUS
  <2> QED BY <2>1, NodeTyped
<1>3. new.kind = old.kind /\ new.kids = Append(old.kids, kid) BY DEF Entered
<1>4. /\ new.kids \in Seq(Kid) /\ Len(new.kids) = last /\ new.kids[last] = kid
      /\ \A i \in 1 .. Len(old.kids) : new.kids[i] = old.kids[i]
  <2> DEFINE s == old.kids
  <2>1. s \in Seq(Kid) /\ new.kids = Append(s, kid) BY <1>2, <1>3
  <2> HIDE DEF kid, old, new, s
  <2>2. /\ Append(s, kid) \in Seq(Kid) /\ Len(Append(s, kid)) = Len(s) + 1 /\ Append(s, kid)[Len(s) + 1] = kid
        /\ \A i \in 1 .. Len(s) : Append(s, kid)[i] = s[i]
    BY <1>1, <2>1, Appending
  <2>3. /\ new.kids \in Seq(Kid) /\ Len(new.kids) = Len(s) + 1 /\ new.kids[Len(s) + 1] = kid
        /\ \A i \in 1 .. Len(s) : new.kids[i] = s[i]
    BY <2>1, <2>2
  <2> QED BY <2>3 DEF s
<1>5. new \in Node
  <2> HIDE DEF kid, old
  <2> QED BY <1>2, <1>4 DEF Entered, Node
<1>6. g0 \in Seq(Node) /\ Len(g0) = Len(h) /\ g0[n] = new /\ \A m \in 1 .. Len(h) : m # n => g0[m] = h[m]
  BY <1>5
<1>7. g \in Seq(Node) /\ Len(g) = Len(h) + 1 /\ g[Len(h) + 1] = leaf /\ \A m \in 1 .. Len(h) : g[m] = g0[m]
  BY <1>6 DEF Fresh
<1>8. \A m \in 1 .. Len(h) : g[m].kind = h[m].kind BY <1>3, <1>6, <1>7
<1>9. g[n] = new /\ last \in 1 .. Len(g[n].kids) /\ g[n].kids[last][2] = Len(h) + 1
  <2> HIDE DEF kid, new, g0, g
  <2>1. g[n] = new BY <1>6, <1>7
  <2> QED BY <2>1, <1>1, <1>4
<1>10. KidsNewer(g)
  <2> SUFFICES ASSUME NEW m \in 1 .. Len(g), NEW i \in 1 .. Len(g[m].kids)
               PROVE  g[m].kids[i][2] \in m + 1 .. Len(g)
    BY DEF KidsNewer
  <2> HIDE DEF kid, new, g0, g
  <2>1. CASE m = Len(h) + 1 BY <2>1, <1>7 DEF Fresh
  <2>2. CASE m = n
    <3>1. g[m].kids[i] = new.kids[i] /\ i \in 1 .. last BY <2>2, <1>9, <1>4
    <3>2. CASE i = last BY <3>1, <3>2, <2>2, <1>1, <1>4, <1>7
    <3>3. CASE i \in 1 .. Len(old.kids)
      <4>1. old.kids[i][2] \in n + 1 .. Len(h) BY <3>3 DEF KidsNewer
      <4>2. g[m].kids[i][2] = old.kids[i][2] BY <3>1, <3>3, <1>4
      <4>3. Len(g) = Len(h) + 1 BY <1>7
      <4> HIDE DEF old
      <4> QED BY <4>1, <4>2, <4>3, <2>2
    <3>4. i = last \/ i \in 1 .. Len(old.kids)
      <4> DEFINE k == Len(old.kids)
      <4>1. k \in Nat /\ i \in 1 .. k + 1 BY <3>1, <1>2
      <4> HIDE DEF k
      <4>2. i = k + 1 \/ i \in 1 .. k BY <4>1
      <4> QED BY <4>2 DEF k
    <3> QED BY <3>2, <3>3, <3>4
  <2>3. CASE m \in 1 .. Len(h) /\ m # n
    BY <2>3, <1>6, <1>7, SMTT(60) DEF KidsNewer
  <2> QED BY <2>1, <2>2, <2>3, <1>7
<1> HIDE DEF g
<1> QED BY <1>7, <1>8, <1>9, <1>10 DEF Attach, g

-----------------------------------------------------------------------------
(* A new value of a container goes to a document that is newer than the *)
(* container, so that the documents up to it keep their kinds. *)

(* element is a kid of document n of h. *)
IsKid(h, n) == \E i \in 1 .. Len(h[n].kids) : h[n].kids[i][2] = element

LEMMA ValuePut ==
  ASSUME DocumentShape, NEW where \in {"object", "array"}, NEW leaf, Fresh(leaf),
         NEW c \in 1 .. Len(heap), where = "object" => IsKid(heap, c)
  PROVE  LET g == PutValue(heap, where, c, leaf)
             at_ == IF where = "object" THEN element ELSE Len(heap) + 1
         IN  /\ g \in Seq(Node) /\ KidsNewer(g) /\ Len(g) >= Len(heap)
             /\ at_ \in c + 1 .. Len(g) /\ g[at_] = leaf
             /\ \A m \in 1 .. c : g[m].kind = heap[m].kind
<1>1. CASE where = "object"
  <2>1. element \in c + 1 .. Len(heap)
    BY <1>1 DEF DocumentShape, KidsNewer, IsKid
  <2>2. element \in 1 .. Len(heap) /\ heap \in Seq(Node) /\ KidsNewer(heap)
    BY <2>1 DEF DocumentShape
  <2> DEFINE g == [heap EXCEPT ![element] = leaf]
  <2>3. /\ g \in Seq(Node) /\ Len(g) = Len(heap) /\ KidsNewer(g)
        /\ g[element] = leaf /\ \A m \in 1 .. Len(heap) : m # element => g[m] = heap[m]
    BY <2>2, Overwritten
  <2>4. PutValue(heap, where, c, leaf) = g BY <1>1 DEF PutValue
  <2> HIDE DEF g
  <2>5. \A m \in 1 .. c : g[m].kind = heap[m].kind BY <2>1, <2>3
  <2> QED BY <1>1, <2>1, <2>2, <2>3, <2>4, <2>5
<1>2. CASE where = "array"
  <2>1. heap \in Seq(Node) /\ KidsNewer(heap) BY DEF DocumentShape
  <2> DEFINE g == Attach(heap, c, NoKey, leaf)
  <2>2. /\ g \in Seq(Node) /\ Len(g) = Len(heap) + 1 /\ KidsNewer(g) /\ g[Len(heap) + 1] = leaf
        /\ \A m \in 1 .. Len(heap) : g[m].kind = heap[m].kind
    BY <2>1, Attached
  <2>3. PutValue(heap, where, c, leaf) = g BY <1>2 DEF PutValue
  <2> HIDE DEF g
  <2> QED BY <1>2, <2>1, <2>2, <2>3
<1> QED BY <1>1, <1>2

(* The switch on the first token of a value, entered with d levels, as many *)
(* as there are containers on the parser's stack. *)
LEMMA ValueStep ==
  ASSUME DocumentShape, stack \in Seq(Nat), pending = Nought,
         \A i \in 1 .. Len(stack) : stack[i] \in 1 .. current - 1,
         \A i, j \in 1 .. Len(stack) : i < j => stack[i] < stack[j],
         NEW t, NEW where \in {"object", "array"}, NEW d \in 0 .. MaxDepth,
         NEW b \in [0 .. MaxDepth - 1 -> BOOLEAN],
         Len(stack) = d,
         \A i \in 1 .. d : heap[stack[i]].kind = IF b[i - 1] THEN "array" ELSE "object",
         heap[current].kind = where, where = "object" => IsKid(heap, current),
         Value(t, where, d, b), result' = Running
  PROVE  Shape'
<1> USE DepthAssumption
<1>0. MaxDepth \in Nat /\ d \in Nat /\ d <= MaxDepth OBVIOUS
<1>1. CASE t \in Scalars \cup Refused
  <2>0. t # NPOS /\ t # "quote" /\ t # "{" /\ t # "["
    BY <1>1, TokenAssumption DEF Structure
  <2>1. /\ at' = "next" /\ in' = where /\ pending' = t /\ depth' = d /\ bits' = b
        /\ UNCHANGED <<outer, heap, stack, current, element>>
    BY <1>1, <2>0 DEF Value, Goto, parser
  <2>2. pending' # "end" BY <1>1, <2>1, TokenAssumption DEF Outside
  <2>3. DocumentShape' BY <2>1 DEF DocumentShape
  <2>4. StackShape' BY <2>1, <2>2 DEF StackShape, Ahead
  <2>5. ControlShape' BY <2>1, <1>1 DEF ControlShape
  <2>6. TargetShape' BY <2>1 DEF TargetShape, IsKid
  <2> QED BY <2>3, <2>4, <2>5, <2>6 DEF Shape
<1>2. CASE t = "quote"
  <2>1. /\ at' = "string" /\ in' = where /\ depth' = d /\ bits' = b
        /\ UNCHANGED <<outer, pending, heap, stack, current, element>>
    BY <1>2, TokenAssumption DEF Value, Goto, Return, parser, visitor, Running
  <2>2. pending' # "end" BY <2>1 DEF Nought
  <2>3. DocumentShape' BY <2>1 DEF DocumentShape
  <2>4. StackShape' BY <2>1, <2>2 DEF StackShape, Ahead
  <2>5. ControlShape' BY <2>1, <1>2 DEF ControlShape
  <2>6. TargetShape' BY <2>1 DEF TargetShape, IsKid
  <2> QED BY <2>3, <2>4, <2>5, <2>6 DEF Shape
<1>3. CASE t \in {"{", "["} /\ d < MaxDepth
  <2> DEFINE kind == IF t = "{" THEN "object" ELSE "array"
             leaf == Leaf(kind, "")
             new == IF where = "object" THEN element ELSE Len(heap) + 1
  <2>1. /\ at' = "opened" /\ in' = kind /\ outer' = where /\ depth' = d /\ bits' = b /\ pending' = pending
        /\ VisitStart(where, kind)
    <3>1. t # NPOS /\ t # "quote" /\ t \notin Scalars \cup Refused
      BY <1>3, TokenAssumption DEF Structure
    <3>2. d < MaxDepth => d # MaxDepth BY <1>0
    <3>3. ~TooDeep(d) BY <1>3, <3>2 DEF TooDeep
    <3> QED BY <1>3, <3>1, <3>3 DEF Value, Goto
  <2>2. Fresh(leaf) /\ leaf.kind = kind /\ kind \in {"object", "array"}
    BY LeafFresh DEF Kinds
  <2>3. heap' = PutValue(heap, where, current, leaf) /\ stack' = Append(stack, current)
        /\ current' = new /\ element' = element
    BY <2>1 DEF VisitStart, New
  <2>4. current \in 1 .. Len(heap) /\ heap \in Seq(Node) BY DEF DocumentShape
  <2> HIDE DEF leaf, kind
  <2>5. /\ heap' \in Seq(Node) /\ KidsNewer(heap') /\ Len(heap') >= Len(heap)
        /\ new \in current + 1 .. Len(heap') /\ heap'[new] = leaf
        /\ \A m \in 1 .. current : heap'[m].kind = heap[m].kind
    <3> DEFINE g == PutValue(heap, where, current, leaf)
    <3>1. Fresh(leaf) BY <2>2
    <3>2. /\ g \in Seq(Node) /\ KidsNewer(g) /\ Len(g) >= Len(heap)
          /\ new \in current + 1 .. Len(g) /\ g[new] = leaf
          /\ \A m \in 1 .. current : g[m].kind = heap[m].kind
      BY <3>1, <2>4, ValuePut, SMTT(60)
    <3> HIDE DEF g
    <3>3. heap' = g BY <2>3 DEF g
    <3> QED BY <3>2, <3>3
  <2> HIDE DEF new
  <2>6. DocumentShape' BY <2>3, <2>4, <2>5, SMTT(60) DEF DocumentShape
  <2>7. /\ stack' \in Seq(Nat) /\ Len(stack') = d + 1 /\ stack'[d + 1] = current
        /\ \A i \in 1 .. d : stack'[i] = stack[i]
        /\ \A i \in 1 .. Len(stack') : stack'[i] \in 1 .. current' - 1
        /\ \A i, j \in 1 .. Len(stack') : i < j => stack'[i] < stack'[j]
    <3> DEFINE r == Append(stack, current)
    <3>1. current \in Nat /\ new \in Nat /\ 0 < current /\ current < new
      BY <2>4, <2>5
    <3>2. /\ r \in Seq(Nat) /\ Len(r) = Len(stack) + 1 /\ r[Len(stack) + 1] = current
          /\ \A i \in 1 .. Len(stack) : r[i] = stack[i]
          /\ \A i \in 1 .. Len(r) : r[i] \in 1 .. new - 1
          /\ \A i, j \in 1 .. Len(r) : i < j => r[i] < r[j]
      BY <3>1, Pushing
    <3> HIDE DEF r
    <3>3. stack' = r /\ current' = new BY <2>3 DEF r
    <3> QED BY <3>2, <3>3
  <2>8. StackShape'
    <3>1. \A i \in 1 .. d : heap'[stack'[i]].kind = IF b[i - 1] THEN "array" ELSE "object"
      <4> TAKE i \in 1 .. d
      <4>1. stack[i] \in 1 .. current /\ stack'[i] = stack[i]
        BY <2>4, <2>7, SMTT(60)
      <4> QED BY <4>1, <2>5
    <3>2. Ahead' BY <2>1 DEF Ahead
    <3>3. heap'[stack'[Len(stack')]].kind = where
      <4>1. current \in 1 .. current BY <2>4
      <4>2. heap'[current].kind = where BY <4>1, <2>5
      <4> QED BY <4>2, <2>7
    <3> QED
      <4>1. Ahead' => heap'[stack'[Len(stack')]].kind = IF at' = "opened" THEN outer' ELSE in'
        BY <2>1, <3>3
      <4>2. Len(stack') <= MaxDepth /\ Len(stack') = IF Ahead' THEN depth' + 1 ELSE depth'
        <5>1. d < MaxDepth => d + 1 <= MaxDepth BY <1>0, NatStep
        <5>2. depth' = d /\ Ahead' /\ Len(stack') = d + 1 BY <2>1, <2>7, <3>2
        <5> QED BY <1>3, <5>1, <5>2
      <4> QED BY <2>1, <2>7, <3>1, <4>1, <4>2 DEF StackShape
  <2>9. ControlShape' BY <2>1, <2>2 DEF ControlShape
  <2>10. TargetShape' BY <2>1, <2>2, <2>3, <2>5 DEF TargetShape
  <2> QED BY <2>6, <2>8, <2>9, <2>10 DEF Shape
<1>4. t \in Scalars \cup Refused \/ t = "quote" \/ (t \in {"{", "["} /\ d < MaxDepth)
  <2> SUFFICES ASSUME t \notin Scalars \cup Refused, t # "quote", ~(t \in {"{", "["} /\ d < MaxDepth)
               PROVE  FALSE
    OBVIOUS
  <2>0. d < MaxDepth \/ d = MaxDepth BY <1>0, NatSplit
  <2>1. t \in {"{", "["} => TooDeep(d) BY <2>0 DEF TooDeep
  <2>2. Return("TAPE_ERROR") \/ Return("DEPTH_ERROR") BY <2>1 DEF Value
  <2> QED BY <2>2 DEF Return, Running
<1> QED BY <1>1, <1>2, <1>3, <1>4

-----------------------------------------------------------------------------
(* The steps of parse. *)

LEMMA InitShape == Init => VInv
<1> SUFFICES ASSUME Init PROVE Shape BY DEF VInv, Shape
<1> DEFINE leaf == Leaf("null", "")
<1>1. leaf \in Node /\ leaf.kids = <<>> BY LeafFresh DEF Kinds, Fresh
<1>2. heap = <<leaf>> /\ element = 0 /\ current = 1 BY DEF Init
<1> HIDE DEF leaf
<1>3. heap \in Seq(Node) /\ Len(heap) = 1 /\ heap[1] = leaf
  BY <1>1, <1>2, Singleton
<1>9. DocumentShape BY <1>1, <1>2, <1>3 DEF DocumentShape, KidsNewer
<1>4. ~Ahead /\ Len(stack) = 0 BY DEF Init, Ahead, Nought
<1>5. stack \in Seq(Nat) BY EmptyTyped DEF Init
<1>6. StackShape
  <2>1. stack = <<>> /\ depth = 0 /\ bits \in [0 .. MaxDepth - 1 -> BOOLEAN]
    BY DEF Init
  <2> QED BY <2>1, <1>4, <1>5, DepthAssumption DEF StackShape
<1>7. ControlShape BY DEF Init, ControlShape
<1>8. TargetShape BY DEF Init, TargetShape
<1> QED BY <1>9, <1>6, <1>7, <1>8 DEF Shape

(* The whole text's value: a container is opened without a level, a scalar *)
(* or a string ends the text. *)
LEMMA RootStep ==
  ASSUME VInv, NEW t \in Offered, Root(t), result' = Running
  PROVE  Shape'
<1>1. Shape /\ at = "root" /\ ~Ahead
  BY DEF VInv, Shape, Root, Take, ControlShape, Ahead, Nought
<1>2. depth = 0 /\ current = 1 /\ pending = Nought /\ Len(stack) = 0
  BY <1>1 DEF Shape, ControlShape, StackShape
<1>3. CASE t \in {"{", "["}
  <2> DEFINE kind == IF t = "{" THEN "object" ELSE "array"
             leaf == Leaf(kind, "")
  <2>1. /\ heap' = PutValue(heap, "root", current, leaf)
        /\ at' = "opened" /\ in' = kind /\ outer' = "root"
        /\ UNCHANGED <<pending, depth, bits, stack, current, element>>
    BY <1>3, TokenAssumption DEF Root, Structure
  <2>2. Fresh(leaf) /\ leaf.kind = kind /\ kind \in {"object", "array"}
    BY LeafFresh DEF Kinds
  <2> HIDE DEF leaf, kind
  <2>3. heap' = [heap EXCEPT ![1] = leaf] BY <2>1 DEF PutValue
  <2>4. heap \in Seq(Node) /\ KidsNewer(heap) /\ 1 \in 1 .. Len(heap)
    BY <1>1, <1>2 DEF Shape, DocumentShape
  <2>5. heap' \in Seq(Node) /\ Len(heap') = Len(heap) /\ KidsNewer(heap') /\ heap'[1] = leaf
    <3>1. heap'[1] = leaf BY <2>3, <2>4
    <3>2. Fresh(leaf) BY <2>2
    <3>3. heap' \in Seq(Node) /\ Len(heap') = Len(heap) /\ KidsNewer(heap')
      BY <3>2, <2>3, <2>4, Overwritten
    <3> QED BY <3>1, <3>3
  <2>6. DocumentShape' BY <1>1, <2>1, <2>5 DEF Shape, DocumentShape
  <2>7. StackShape' BY <1>1, <1>2, <2>1 DEF Shape, StackShape, Ahead, Nought
  <2>8. ControlShape' BY <1>2, <2>1, <2>2 DEF ControlShape
  <2>9. TargetShape' BY <1>2, <2>1, <2>2, <2>5 DEF TargetShape
  <2> QED BY <2>6, <2>7, <2>8, <2>9 DEF Shape
<1>4. CASE t \notin {"{", "["}
  <2>1. /\ at' \in {"rootString", "rootEnd"} /\ in' = "root"
        /\ UNCHANGED <<depth, bits, heap, stack, current, element>>
        /\ pending' = pending \/ (at' = "rootEnd" /\ pending' = t)
        /\ at' = "rootString" => pending' = pending
    BY <1>4 DEF Root, Goto, Return, parser, Running
  <2>2. pending' # "end"
    BY <1>1, <1>2, <2>1, TokenAssumption DEF Offered, InString, Nought
  <2>3. DocumentShape' BY <1>1, <2>1 DEF Shape, DocumentShape
  <2>4. StackShape' BY <1>1, <2>1, <2>2 DEF Shape, StackShape, Ahead
  <2>5. ControlShape' BY <1>2, <2>1, <2>2 DEF ControlShape
  <2>6. TargetShape' BY <2>1 DEF TargetShape
  <2> QED BY <2>3, <2>4, <2>5, <2>6 DEF Shape
<1> QED BY <1>3, <1>4

LEMMA RootStringStep ==
  ASSUME VInv, NEW t \in Offered, RootString(t), result' = Running
  PROVE  Shape'
<1>1. Shape /\ at = "rootString" /\ t \in Contents
  BY DEF VInv, Shape, RootString, Take, Offered, InString, Inside, Return, Running
<1>2. depth = 0 /\ current = 1 /\ pending = Nought
  BY <1>1 DEF Shape, ControlShape
<1> DEFINE leaf == Leaf("string", t)
<1>3. /\ heap' = PutValue(heap, "root", current, leaf)
      /\ at' = "rootEnd" /\ in' = "root"
      /\ UNCHANGED <<outer, pending, depth, bits, stack, current, element>>
  BY DEF RootString, Goto, Return, Running
<1>4. Fresh(leaf) BY <1>1, LeafFresh DEF Kinds
<1> HIDE DEF leaf
<1>5. heap' = [heap EXCEPT ![1] = leaf] BY <1>3 DEF PutValue
<1>6. heap \in Seq(Node) /\ KidsNewer(heap) /\ 1 \in 1 .. Len(heap)
  BY <1>1, <1>2 DEF Shape, DocumentShape
<1>7. heap' \in Seq(Node) /\ Len(heap') = Len(heap) /\ KidsNewer(heap')
  BY <1>4, <1>5, <1>6, Overwritten
<1>8. DocumentShape' BY <1>1, <1>3, <1>7 DEF Shape, DocumentShape
<1>9. StackShape' BY <1>1, <1>2, <1>3 DEF Shape, StackShape, Ahead, Nought
<1>10. ControlShape' BY <1>2, <1>3 DEF ControlShape, Nought
<1>11. TargetShape' BY <1>3 DEF TargetShape
<1> QED BY <1>8, <1>9, <1>10, <1>11 DEF Shape

(* An empty container: the parser has pushed it, the visitor has not. *)
LEMMA EmptyStep ==
  ASSUME Shape, at = "opened", Empty
  PROVE  Shape'
<1>1. pending = Nought /\ (outer = "root" => depth = 0) /\ outer \in {"root", "object", "array"}
  BY DEF Shape, ControlShape
<1>2. CASE outer = "root"
  <2>1. at' = "trailing" /\ in' = "root" /\ UNCHANGED <<outer, pending, depth, bits, heap, stack, current, element>>
    BY <1>2 DEF Empty, Goto, parser
  <2>2. ~Ahead /\ ~Ahead' BY <1>1, <1>2, <2>1 DEF Ahead, Nought
  <2>3. Len(stack) = 0 /\ depth = 0 BY <1>1, <1>2, <2>2 DEF Shape, StackShape
  <2>4. DocumentShape' /\ StackShape' /\ TargetShape'
    BY <2>1, <2>2 DEF Shape, DocumentShape, StackShape, TargetShape
  <2> QED BY <1>1, <2>1, <2>3, <2>4 DEF Shape, ControlShape
<1>3. CASE outer # "root"
  <2>1. at' = "next" /\ in' = outer /\ pending' = "end" /\ UNCHANGED <<outer, depth, bits, heap, stack, current, element>>
    BY <1>3 DEF Empty, Goto, parser
  <2>2. Ahead /\ Ahead' BY <1>3, <2>1 DEF Ahead
  <2>3. DocumentShape' /\ StackShape'
    BY <2>1, <2>2 DEF Shape, DocumentShape, StackShape
  <2>4. ControlShape' /\ TargetShape'
    BY <1>1, <1>3, <2>1, TokenAssumption DEF Shape, ControlShape, TargetShape, Outside
  <2> QED BY <2>3, <2>4 DEF Shape
<1> QED BY <1>2, <1>3

(* A container with something in it gets its level: the bit says what it is *)
(* in, which is what its parent on the parser's stack is. *)
LEMMA Deepened ==
  ASSUME Shape, at = "opened"
  PROVE  /\ Deeper \in 0 .. MaxDepth /\ Pushed \in [0 .. MaxDepth - 1 -> BOOLEAN] /\ Len(stack) = Deeper
         /\ \A i \in 1 .. Deeper : heap[stack[i]].kind = IF Pushed[i - 1] THEN "array" ELSE "object"
<1>1. /\ pending = Nought /\ outer \in {"root", "object", "array"} /\ Ahead = (outer # "root")
  BY DEF Shape, ControlShape, Ahead, Nought
<1>2. /\ stack \in Seq(Nat) /\ depth \in Nat /\ bits \in [0 .. MaxDepth - 1 -> BOOLEAN]
      /\ Len(stack) <= MaxDepth /\ Len(stack) = (IF outer = "root" THEN depth ELSE depth + 1)
      /\ \A i \in 1 .. depth : heap[stack[i]].kind = IF bits[i - 1] THEN "array" ELSE "object"
      /\ outer # "root" => heap[stack[Len(stack)]].kind = outer
  BY <1>1 DEF Shape, StackShape
<1>3. CASE outer = "root" BY <1>2, <1>3, DepthAssumption DEF Deeper, Pushed
<1>4. CASE outer # "root"
  <2>1. Deeper = depth + 1 /\ Len(stack) = depth + 1 /\ depth \in 0 .. MaxDepth - 1
    BY <1>2, <1>4, DepthAssumption DEF Deeper
  <2>2. Pushed = [bits EXCEPT ![depth] = (outer = "array")] BY <1>4 DEF Pushed
  <2>3. /\ Pushed \in [0 .. MaxDepth - 1 -> BOOLEAN] /\ Pushed[depth] = (outer = "array")
        /\ \A i \in 0 .. MaxDepth - 1 : i # depth => Pushed[i] = bits[i]
    BY <1>2, <2>1, <2>2
  <2>4. ASSUME NEW i \in 1 .. Deeper
        PROVE  heap[stack[i]].kind = IF Pushed[i - 1] THEN "array" ELSE "object"
    <3>1. CASE i = depth + 1
      <4>1. Pushed[i - 1] = (outer = "array") /\ heap[stack[i]].kind = outer
        BY <1>2, <1>4, <2>1, <2>3, <3>1
      <4> QED BY <4>1, <1>1, <1>4
    <3>2. CASE i \in 1 .. depth
      <4>1. i - 1 \in 0 .. MaxDepth - 1 /\ i - 1 # depth
        BY <2>1, <3>2, DepthAssumption
      <4> QED BY <4>1, <1>2, <2>3, <3>2
    <3> QED BY <2>1, <3>1, <3>2
  <2> QED BY <2>1, <2>3, <2>4, DepthAssumption
<1> QED BY <1>3, <1>4

LEMMA OpenedObjectStep ==
  ASSUME VInv, NEW t \in Offered, OpenedObject(t), result' = Running
  PROVE  Shape'
<1>1. Shape /\ at = "opened" /\ in = "object"
  BY DEF VInv, Shape, OpenedObject, Take
<1>2. CASE t = "quote"
  <2>1. /\ at' = "key" /\ in' = "object" /\ depth' = Deeper /\ bits' = Pushed
        /\ UNCHANGED <<outer, pending, heap, stack, current, element>>
    BY <1>2 DEF OpenedObject, Goto, parser
  <2>2. pending = Nought /\ ~Ahead'
    BY <1>1, <2>1 DEF Shape, ControlShape, Ahead, Nought
  <2>3. /\ Deeper \in 0 .. MaxDepth /\ Pushed \in [0 .. MaxDepth - 1 -> BOOLEAN] /\ Len(stack) = Deeper
        /\ \A i \in 1 .. Deeper : heap[stack[i]].kind = IF Pushed[i - 1] THEN "array" ELSE "object"
    BY <1>1, Deepened
  <2>4. DocumentShape' BY <1>1, <2>1 DEF Shape, DocumentShape
  <2>5. StackShape'
    <3>1. /\ stack' = stack /\ depth' = Deeper /\ bits' = Pushed /\ heap' = heap /\ current' = current
          /\ Len(stack) = Deeper /\ Len(stack) <= MaxDepth
      BY <1>1, <2>1, <2>3 DEF Shape, StackShape
    <3>2. /\ stack \in Seq(Nat) /\ \A i \in 1 .. Len(stack) : stack[i] \in 1 .. current - 1
          /\ \A i, j \in 1 .. Len(stack) : i < j => stack[i] < stack[j]
      BY <1>1 DEF Shape, StackShape
    <3>3. depth' \in Nat /\ bits' \in [0 .. MaxDepth - 1 -> BOOLEAN]
      BY <2>1, <2>3
    <3>4. \A i \in 1 .. depth' : heap'[stack'[i]].kind = IF bits'[i - 1] THEN "array" ELSE "object"
      BY <2>3, <3>1
    <3> QED BY <2>2, <3>1, <3>2, <3>3, <3>4 DEF StackShape
  <2>6. ControlShape' BY <2>1, <2>2 DEF ControlShape
  <2>7. TargetShape' BY <1>1, <2>1 DEF Shape, TargetShape
  <2> QED BY <2>4, <2>5, <2>6, <2>7 DEF Shape
<1>3. CASE t # "quote"
  <2>1. Empty BY <1>3 DEF OpenedObject, Return, Running
  <2> QED BY <1>1, <2>1, EmptyStep
<1> QED BY <1>2, <1>3

LEMMA OpenedArrayStep ==
  ASSUME VInv, NEW t \in Offered, OpenedArray(t), result' = Running
  PROVE  Shape'
<1>1. Shape /\ at = "opened" /\ in = "array"
  BY DEF VInv, Shape, OpenedArray, Take
<1>2. CASE t = "]" BY <1>1, <1>2, EmptyStep DEF OpenedArray
<1>3. CASE t # "]"
  <2>1. Value(t, "array", Deeper, Pushed) BY <1>3 DEF OpenedArray
  <2>2. /\ Deeper \in 0 .. MaxDepth /\ Pushed \in [0 .. MaxDepth - 1 -> BOOLEAN] /\ Len(stack) = Deeper
        /\ \A i \in 1 .. Deeper : heap[stack[i]].kind = IF Pushed[i - 1] THEN "array" ELSE "object"
    BY <1>1, Deepened
  <2>3. DocumentShape /\ pending = Nought /\ heap[current].kind = "array"
    BY <1>1 DEF Shape, ControlShape, TargetShape
  <2>4. /\ stack \in Seq(Nat) /\ \A i \in 1 .. Len(stack) : stack[i] \in 1 .. current - 1
        /\ \A i, j \in 1 .. Len(stack) : i < j => stack[i] < stack[j]
    BY <1>1 DEF Shape, StackShape
  <2> QED BY <2>1, <2>2, <2>3, <2>4, ValueStep
<1> QED BY <1>2, <1>3

(* Where a value follows a colon or a comma, the two stacks are equally *)
(* high. *)
LEMMA LevelsAgree ==
  ASSUME Shape, at \in {"key", "colon", "value", "string", "comma"}
  PROVE  /\ DocumentShape /\ stack \in Seq(Nat) /\ pending = Nought /\ heap[current].kind = in
         /\ \A i \in 1 .. Len(stack) : stack[i] \in 1 .. current - 1
         /\ \A i, j \in 1 .. Len(stack) : i < j => stack[i] < stack[j]
         /\ depth \in 0 .. MaxDepth /\ bits \in [0 .. MaxDepth - 1 -> BOOLEAN] /\ Len(stack) = depth
         /\ \A i \in 1 .. depth : heap[stack[i]].kind = IF bits[i - 1] THEN "array" ELSE "object"
<1>1. pending = Nought /\ ~Ahead BY DEF Shape, ControlShape, Ahead, Nought
<1> QED BY <1>1, DepthAssumption DEF Shape, StackShape, TargetShape

LEMMA MemberValueStep ==
  ASSUME VInv, NEW t \in Offered, MemberValue(t), result' = Running
  PROVE  Shape'
<1>1. Shape /\ at = "value" /\ Value(t, "object", depth, bits)
  BY DEF VInv, Shape, MemberValue, Take
<1>2. in = "object" /\ IsKid(heap, current)
  BY <1>1 DEF Shape, ControlShape, TargetShape, IsKid
<1> QED BY <1>1, <1>2, LevelsAgree, ValueStep

LEMMA NextElementStep ==
  ASSUME VInv, NEW t \in Offered, NextElement(t), result' = Running
  PROVE  Shape'
<1>1. Shape /\ at = "comma" /\ in = "array" /\ Value(t, "array", depth, bits)
  BY DEF VInv, Shape, NextElement, Take
<1> QED BY <1>1, LevelsAgree, ValueStep

LEMMA NextKeyStep ==
  ASSUME VInv, NEW t \in Offered, NextKey(t), result' = Running
  PROVE  Shape'
<1>1. Shape /\ at = "comma" /\ in = "object" BY DEF VInv, Shape, NextKey, Take
<1>2. at' = "key" /\ in' = "object" /\ UNCHANGED <<outer, pending, depth, bits, heap, stack, current, element>>
  BY DEF NextKey, Goto, Return, Running, parser
<1>3. pending = Nought /\ ~Ahead /\ ~Ahead'
  BY <1>1, <1>2 DEF Shape, ControlShape, Ahead, Nought
<1> QED
  BY <1>1, <1>2, <1>3 DEF Shape, DocumentShape, StackShape, ControlShape, TargetShape

LEMMA ColonStep ==
  ASSUME VInv, NEW t \in Offered, Colon(t), result' = Running
  PROVE  Shape'
<1>1. Shape /\ at = "colon" BY DEF VInv, Shape, Colon, Take
<1>2. at' = "value" /\ in' = "object" /\ UNCHANGED <<outer, pending, depth, bits, heap, stack, current, element>>
  BY DEF Colon, Goto, Return, Running, parser
<1>3. pending = Nought /\ in = "object" /\ ~Ahead /\ ~Ahead'
  BY <1>1, <1>2 DEF Shape, ControlShape, Ahead, Nought
<1> QED
  BY <1>1, <1>2, <1>3 DEF Shape, DocumentShape, StackShape, ControlShape, TargetShape

(* A visit that writes below the open container leaves the stacks alone. *)
LEMMA StackKept ==
  ASSUME StackShape, ~Ahead, ~Ahead', current \in 1 .. Len(heap),
         UNCHANGED <<stack, depth, bits, current>>,
         \A m \in 1 .. current : heap'[m].kind = heap[m].kind
  PROVE  StackShape'
<1>1. \A i \in 1 .. depth : heap'[stack'[i]].kind = IF bits'[i - 1] THEN "array" ELSE "object"
  <2> TAKE i \in 1 .. depth
  <2>1. Len(stack) = depth /\ stack[i] \in 1 .. current - 1 /\ stack'[i] = stack[i] /\ bits' = bits
    BY DEF StackShape
  <2>2. stack[i] \in 1 .. current BY <2>1
  <2>3. heap'[stack[i]].kind = heap[stack[i]].kind BY <2>2
  <2> QED BY <2>1, <2>3 DEF StackShape
<1>2. /\ stack' \in Seq(Nat) /\ depth' \in Nat /\ bits' \in [0 .. MaxDepth - 1 -> BOOLEAN]
      /\ Len(stack') <= MaxDepth /\ Len(stack') = depth'
      /\ \A i \in 1 .. Len(stack') : stack'[i] \in 1 .. current' - 1
      /\ \A i, j \in 1 .. Len(stack') : i < j => stack'[i] < stack'[j]
  BY DEF StackShape
<1> QED BY <1>1, <1>2 DEF StackShape

(* A key prepares its element among the kids of the open object. *)
LEMMA KeyVisited ==
  ASSUME DocumentShape, NEW t \in Contents, VisitKey(t), current' = current
  PROVE  DocumentShape' /\ IsKid(heap, current)' /\ \A m \in 1 .. current : heap'[m].kind = heap[m].kind
<1> DEFINE had == {i \in DOMAIN heap[current].kids : heap[current].kids[i][1] = t}
           leaf == Leaf("null", "")
<1>1. heap \in Seq(Node) /\ KidsNewer(heap) /\ current \in 1 .. Len(heap)
  BY DEF DocumentShape
<1>2. Fresh(leaf) BY LeafFresh DEF Kinds
<1>3. heap[current].kids \in Seq(Kid)
  <2>1. heap[current] \in Node BY <1>1
  <2> QED BY <2>1, NodeTyped
<1>4. DOMAIN heap[current].kids = 1 .. Len(heap[current].kids) BY <1>3
<1> HIDE DEF leaf
<1>5. CASE had # {}
  <2> DEFINE i == CHOOSE j \in had : TRUE
             n == heap[current].kids[i][2]
  <2>1. i \in 1 .. Len(heap[current].kids) BY <1>4, <1>5, SMTT(60)
  <2>2. heap' = [heap EXCEPT ![n] = leaf] /\ element' = n
    BY <1>5 DEF VisitKey, leaf
  <2> HIDE DEF i, had
  <2>3. n \in current + 1 .. Len(heap) BY <1>1, <2>1 DEF KidsNewer
  <2> HIDE DEF n
  <2>4. n \in 1 .. Len(heap) /\ n # current BY <1>1, <2>3
  <2>5. /\ heap' \in Seq(Node) /\ Len(heap') = Len(heap) /\ KidsNewer(heap')
        /\ \A m \in 1 .. Len(heap) : m # n => heap'[m] = heap[m]
    <3> DEFINE g == [heap EXCEPT ![n] = leaf]
    <3>1. /\ g \in Seq(Node) /\ Len(g) = Len(heap) /\ KidsNewer(g)
          /\ \A m \in 1 .. Len(heap) : m # n => g[m] = heap[m]
      BY <1>1, <1>2, <2>4, Overwritten
    <3> HIDE DEF g
    <3>2. heap' = g BY <2>2 DEF g
    <3> QED BY <3>1, <3>2
  <2>6. \A m \in 1 .. current : heap'[m].kind = heap[m].kind BY <1>1, <2>3, <2>5
  <2>7. heap'[current] = heap[current] BY <1>1, <2>4, <2>5
  <2>8. IsKid(heap, current)' BY <2>1, <2>2, <2>7 DEF IsKid, n
  <2>9. DocumentShape' BY <1>1, <2>2, <2>4, <2>5 DEF DocumentShape
  <2> QED BY <2>6, <2>8, <2>9
<1>6. CASE had = {}
  <2>1. heap' = Attach(heap, current, t, leaf) /\ element' = Len(heap) + 1
    BY <1>6 DEF VisitKey, leaf, New
  <2>2. /\ heap' \in Seq(Node) /\ Len(heap') = Len(heap) + 1 /\ KidsNewer(heap')
        /\ \A m \in 1 .. Len(heap) : heap'[m].kind = heap[m].kind
        /\ \E i \in 1 .. Len(heap'[current].kids) : heap'[current].kids[i][2] = Len(heap) + 1
    <3> DEFINE g == Attach(heap, current, t, leaf)
    <3>1. /\ g \in Seq(Node) /\ Len(g) = Len(heap) + 1 /\ KidsNewer(g)
          /\ \A m \in 1 .. Len(heap) : g[m].kind = heap[m].kind
          /\ \E i \in 1 .. Len(g[current].kids) : g[current].kids[i][2] = Len(heap) + 1
      BY <1>1, <1>2, Attached
    <3> HIDE DEF g
    <3>2. heap' = g BY <2>1 DEF g
    <3> QED BY <3>1, <3>2
  <2>3. IsKid(heap, current)' BY <2>1, <2>2 DEF IsKid
  <2>4. DocumentShape' BY <1>1, <2>1, <2>2 DEF DocumentShape
  <2> QED BY <1>1, <2>2, <2>3, <2>4
<1> QED BY <1>5, <1>6

LEMMA KeyStep ==
  ASSUME VInv, NEW t \in Offered, Key(t), result' = Running
  PROVE  Shape'
<1>1. Shape /\ at = "key" /\ t \in Contents
  BY DEF VInv, Shape, Key, Take, Offered, InString, Inside, Return, Running
<1>2. /\ VisitKey(t) /\ at' = "colon" /\ in' = "object"
      /\ UNCHANGED <<outer, pending, depth, bits, stack, current>>
  BY DEF Key, Goto, Return, Running
<1>3. pending = Nought /\ in = "object" /\ ~Ahead /\ ~Ahead' /\ DocumentShape /\ StackShape
  BY <1>1, <1>2 DEF Shape, ControlShape, Ahead, Nought
<1>4. DocumentShape' /\ IsKid(heap, current)' /\ \A m \in 1 .. current : heap'[m].kind = heap[m].kind
  BY <1>1, <1>2, <1>3, KeyVisited
<1>5. current \in 1 .. Len(heap) BY <1>3 DEF DocumentShape
<1>6. StackShape' BY <1>2, <1>3, <1>4, <1>5, StackKept
<1>7. ControlShape' BY <1>2, <1>3 DEF ControlShape
<1>8. heap[current].kind = "object" BY <1>1, <1>3 DEF Shape, TargetShape
<1>9. TargetShape' BY <1>2, <1>4, <1>5, <1>8 DEF TargetShape, IsKid
<1> QED BY <1>4, <1>6, <1>7, <1>9 DEF Shape

LEMMA StringStep ==
  ASSUME VInv, NEW t \in Offered, String(t), result' = Running
  PROVE  Shape'
<1> DEFINE leaf == Leaf("string", t)
<1>1. Shape /\ at = "string" /\ t \in Contents
  BY DEF VInv, Shape, String, Take, Offered, InString, Inside, Return, Running
<1>2. /\ heap' = PutValue(heap, in, current, leaf) /\ at' = "next" /\ in' = in /\ pending' = Nought
      /\ UNCHANGED <<outer, depth, bits, stack, current, element>>
  BY DEF String, Goto, Return, Running
<1>3. /\ DocumentShape /\ StackShape /\ current \in 1 .. Len(heap) /\ element \in Nat
      /\ pending = Nought /\ in \in {"object", "array"} /\ ~Ahead /\ ~Ahead'
  BY <1>1, <1>2 DEF Shape, DocumentShape, ControlShape, Ahead, Nought
<1>4. heap[current].kind = in /\ (in = "object" => IsKid(heap, current))
  BY <1>1 DEF Shape, TargetShape, IsKid
<1>5. Fresh(leaf) BY <1>1, LeafFresh DEF Kinds
<1> HIDE DEF leaf
<1>6. /\ heap' \in Seq(Node) /\ KidsNewer(heap') /\ Len(heap') >= Len(heap)
      /\ \A m \in 1 .. current : heap'[m].kind = heap[m].kind
  BY <1>2, <1>3, <1>4, <1>5, ValuePut
<1>7. DocumentShape'
  <2>1. heap \in Seq(Node) BY <1>3 DEF DocumentShape
  <2>2. current' \in 1 .. Len(heap') BY <1>2, <1>3, <1>6, <2>1
  <2> QED BY <1>2, <1>3, <1>6, <2>2 DEF DocumentShape
<1>8. StackShape' BY <1>2, <1>3, <1>6, StackKept
<1>9. ControlShape' BY <1>2, <1>3 DEF ControlShape
<1>10. heap'[current'].kind = in' BY <1>2, <1>3, <1>4, <1>6
<1>11. TargetShape'
  BY <1>2, <1>10, TokenAssumption DEF TargetShape, Nought, Outside
<1> QED BY <1>7, <1>8, <1>9, <1>11 DEF Shape

(* What waited for the token behind an element is visited: a scalar is *)
(* written, or a container left.  Then the stacks are equally high. *)
Visited ==
  /\ DocumentShape' /\ heap'[current'].kind = in
  /\ stack' \in Seq(Nat) /\ Len(stack') = depth /\ depth <= MaxDepth
  /\ \A i \in 1 .. Len(stack') : stack'[i] \in 1 .. current' - 1
  /\ \A i, j \in 1 .. Len(stack') : i < j => stack'[i] < stack'[j]
  /\ \A i \in 1 .. depth : heap'[stack'[i]].kind = IF bits[i - 1] THEN "array" ELSE "object"

LEMMA ScalarVisited ==
  ASSUME Shape, at = "next", pending # "end", element' = element, current' = current, stack' = stack,
         heap' = IF pending \in Scalars THEN VisitScalar(heap, in, current) ELSE heap
  PROVE  Visited
<1>1. /\ DocumentShape /\ StackShape /\ ~Ahead /\ in \in {"object", "array"} /\ heap[current].kind = in
      /\ in = "object" /\ pending \in Scalars => IsKid(heap, current)
  BY DEF Shape, ControlShape, TargetShape, Ahead, IsKid
<1>2. heap \in Seq(Node) /\ KidsNewer(heap) /\ current \in 1 .. Len(heap) /\ element \in Nat
  BY <1>1 DEF DocumentShape
<1>3. /\ heap' \in Seq(Node) /\ KidsNewer(heap') /\ Len(heap') >= Len(heap)
      /\ \A m \in 1 .. current : heap'[m].kind = heap[m].kind
  <2>1. CASE heap' = heap BY <1>2, <2>1
  <2>2. CASE heap' # heap
    <3> DEFINE leaf == ScalarLeaf(pending)
    <3>1. pending \in Scalars /\ heap' = PutValue(heap, in, current, leaf)
      BY <2>2 DEF VisitScalar
    <3>2. Fresh(leaf) BY <3>1, ScalarFresh
    <3> HIDE DEF leaf
    <3> QED BY <1>1, <1>2, <3>1, <3>2, ValuePut
  <2> QED BY <2>1, <2>2
<1>4. current' \in 1 .. Len(heap') BY <1>2, <1>3
<1>5. DocumentShape' BY <1>2, <1>3, <1>4 DEF DocumentShape
<1>6. heap'[current'].kind = in BY <1>1, <1>2, <1>3
<1>7. /\ stack \in Seq(Nat) /\ Len(stack) = depth /\ depth <= MaxDepth
      /\ \A i \in 1 .. Len(stack) : stack[i] \in 1 .. current - 1
      /\ \A i, j \in 1 .. Len(stack) : i < j => stack[i] < stack[j]
      /\ \A i \in 1 .. depth : heap[stack[i]].kind = IF bits[i - 1] THEN "array" ELSE "object"
  BY <1>1 DEF StackShape
<1>8. \A i \in 1 .. depth : heap'[stack'[i]].kind = IF bits[i - 1] THEN "array" ELSE "object"
  <2> TAKE i \in 1 .. depth
  <2>1. stack'[i] = stack[i] /\ stack[i] \in 1 .. current - 1 BY <1>7
  <2>2. stack[i] \in 1 .. current BY <1>2, <2>1
  <2> QED BY <1>3, <1>7, <2>1, <2>2
<1> QED BY <1>5, <1>6, <1>7, <1>8 DEF Visited

LEMMA ContainerLeft ==
  ASSUME Shape, at = "next", pending = "end", UNCHANGED <<heap, element>>,
         current' = Last(stack), stack' = Front(stack)
  PROVE  Visited
<1>1. DocumentShape /\ StackShape /\ Ahead BY DEF Shape, Ahead
<1>2. /\ stack \in Seq(Nat) /\ depth \in Nat /\ Len(stack) <= MaxDepth /\ Len(stack) = depth + 1
      /\ \A i \in 1 .. Len(stack) : stack[i] \in 1 .. current - 1
      /\ \A i, j \in 1 .. Len(stack) : i < j => stack[i] < stack[j]
      /\ \A i \in 1 .. depth : heap[stack[i]].kind = IF bits[i - 1] THEN "array" ELSE "object"
      /\ heap[stack[Len(stack)]].kind = in
  BY <1>1 DEF StackShape
<1>3. current' = stack[depth + 1] /\ stack' = SubSeq(stack, 1, depth)
  BY <1>2 DEF Last, Front
<1>4. stack' \in Seq(Nat) /\ Len(stack') = depth /\ \A i \in 1 .. depth : stack'[i] = stack[i]
  BY <1>2, <1>3
<1>5. heap \in Seq(Node) /\ current \in 1 .. Len(heap) BY <1>1 DEF DocumentShape
<1>6. current' \in 1 .. current - 1 BY <1>2, <1>3
<1>7. DocumentShape' BY <1>1, <1>5, <1>6 DEF DocumentShape
<1>8. \A i \in 1 .. Len(stack') : stack'[i] \in 1 .. current' - 1
  <2> TAKE i \in 1 .. Len(stack')
  <2>1. i \in 1 .. Len(stack) /\ depth + 1 \in 1 .. Len(stack) /\ i < depth + 1 /\ stack'[i] = stack[i]
    BY <1>2, <1>4
  <2>2. stack[i] < stack[depth + 1] /\ stack[i] \in 1 .. current - 1 /\ stack[depth + 1] \in 1 .. current - 1
    BY <1>2, <2>1
  <2>3. stack[i] \in Nat /\ stack[depth + 1] \in Nat /\ 1 <= stack[i]
    BY <1>2, <2>1, <2>2
  <2>4. stack[i] \in 1 .. stack[depth + 1] - 1 BY <2>2, <2>3, NatBelow
  <2> QED BY <1>3, <2>1, <2>4
<1>9. \A i, j \in 1 .. Len(stack') : i < j => stack'[i] < stack'[j]
  BY <1>2, <1>4
<1>10. \A i \in 1 .. depth : heap'[stack'[i]].kind = IF bits[i - 1] THEN "array" ELSE "object"
  BY <1>2, <1>4
<1>11. heap'[current'].kind = in BY <1>2, <1>3
<1>12. depth <= MaxDepth BY <1>2, DepthAssumption
<1> QED BY <1>4, <1>7, <1>8, <1>9, <1>10, <1>11, <1>12 DEF Visited

LEMMA NextStep ==
  ASSUME VInv, NEW t \in Offered, Next_(t), result' = Running
  PROVE  Shape'
<1> DEFINE close == IF in = "object" THEN "}" ELSE "]"
<1>1. Shape /\ at = "next" BY DEF VInv, Shape, Next_, Take
<1>2. /\ pending \notin Refused
      /\ heap' = IF pending \in Scalars THEN VisitScalar(heap, in, current) ELSE heap
      /\ current' = Left.current /\ stack' = Left.stack /\ element' = element
  BY DEF Next_, Return, Running
<1>3. \/ t = "," /\ Goto("comma", in) /\ pending' = Nought /\ UNCHANGED <<depth, bits>>
      \/ t = close /\ depth = 0 /\ Goto("trailing", "root") /\ pending' = Nought /\ UNCHANGED <<depth, bits>>
      \/ t = close /\ depth > 0 /\ Goto("next", Above) /\ pending' = "end" /\ depth' = depth - 1 /\ UNCHANGED bits
  BY DEF Next_, Return, Running
<1>4. Visited
  <2>1. CASE pending = "end"
    <3>1. pending \notin Scalars BY <2>1, TokenAssumption DEF Outside
    <3> QED BY <1>1, <1>2, <2>1, <3>1, ContainerLeft DEF Left
  <2>2. CASE pending # "end" BY <1>1, <1>2, <2>2, ScalarVisited DEF Left
  <2> QED BY <2>1, <2>2
<1>5. depth \in Nat /\ bits \in [0 .. MaxDepth - 1 -> BOOLEAN] /\ in \in {"object", "array"}
  BY <1>1 DEF Shape, StackShape, ControlShape
<1>6. CASE at' # "next"
  <2>1. /\ pending' = Nought /\ depth' = depth /\ bits' = bits
        /\ (at' = "comma" /\ in' = in) \/ (at' = "trailing" /\ depth = 0)
    BY <1>3, <1>6 DEF Goto
  <2>2. ~Ahead' BY <2>1 DEF Ahead, Nought
  <2>3. StackShape' BY <1>4, <1>5, <2>1, <2>2 DEF Visited, StackShape
  <2>4. ControlShape' /\ TargetShape'
    BY <1>4, <1>5, <2>1 DEF Visited, ControlShape, TargetShape
  <2> QED BY <1>4, <2>3, <2>4 DEF Visited, Shape
<1>7. CASE at' = "next"
  <2>1. depth > 0 /\ in' = Above /\ pending' = "end" /\ depth' = depth - 1 /\ bits' = bits
    BY <1>3, <1>7 DEF Goto
  <2>2. Ahead' /\ Len(stack') = depth' + 1 /\ depth' \in Nat
    BY <1>4, <1>5, <2>1 DEF Visited, Ahead
  <2>3. heap'[stack'[Len(stack')]].kind = in' /\ in' \in {"object", "array"}
    BY <1>4, <1>5, <2>1 DEF Visited, Above
  <2>4. StackShape'
    <3>1. \A i \in 1 .. depth' : heap'[stack'[i]].kind = IF bits'[i - 1] THEN "array" ELSE "object"
      BY <1>4, <1>5, <2>1 DEF Visited
    <3> QED BY <1>4, <1>5, <1>7, <2>1, <2>2, <2>3, <3>1 DEF Visited, StackShape
  <2>5. ControlShape' /\ TargetShape'
    BY <1>7, <2>1, <2>3, TokenAssumption DEF ControlShape, TargetShape, Outside
  <2> QED BY <1>4, <2>4, <2>5 DEF Visited, Shape
<1> QED BY <1>6, <1>7

-----------------------------------------------------------------------------
(* The results. *)

LEMMA StepShape == ASSUME VInv, [Next]_vars PROVE VInv'
<1>1. CASE UNCHANGED vars
  BY <1>1 DEF VInv, vars, visitor, parser, DocumentShape, StackShape, ControlShape, TargetShape, Ahead
<1>2. ASSUME NEW t \in Offered, Step(t)
      PROVE  VInv'
  <2> SUFFICES ASSUME result' = Running PROVE Shape' BY DEF VInv, Shape
  <2>1. CASE RootEnd(t) \/ Trailing(t)
    BY <2>1 DEF RootEnd, Trailing, Return, Running
  <2> QED
    BY <1>2, <2>1, RootStep, RootStringStep, OpenedObjectStep, OpenedArrayStep, KeyStep, ColonStep,
       MemberValueStep, StringStep, NextStep, NextKeyStep, NextElementStep DEF Step
<1> QED BY <1>1, <1>2 DEF Next

(* The inductive invariant, at any depth limit and for texts of any length. *)
THEOREM VisitorInvariant == Spec => []VInv
BY InitShape, StepShape, PTL DEF Spec

(* The parser's stack of fixed capacity is never exceeded and holds what *)
(* the visitor's bits say, though the two are pushed at different times. *)
THEOREM StacksStayInStep == Spec => []StacksAgree
<1>1. VInv => StacksAgree
  <2> SUFFICES ASSUME Shape, result = Running PROVE StacksAgree
    BY DEF VInv, Shape, StacksAgree
  <2> QED BY SMTT(60) DEF Shape, StackShape, Ahead, StacksAgree
<1> QED BY <1>1, VisitorInvariant, PTL

(* What waits to be visited goes to the container it stands in. *)
THEOREM TargetsStayLive == Spec => []TargetsLive
<1>1. VInv => TargetsLive
  <2> SUFFICES ASSUME Shape, result = Running PROVE TargetsLive
    BY DEF VInv, Shape, TargetsLive
  <2>1. /\ at \in {"key", "colon", "value", "string", "comma"} => heap[current].kind = in
        /\ at = "next" /\ pending # "end" => heap[current].kind = in
    BY DEF Shape, TargetShape
  <2>2. at = "next" /\ pending = "end" => heap[stack[Len(stack)]].kind = in
    BY DEF Shape, StackShape, Ahead
  <2>3. at = "next" => heap[Left.current].kind = in BY <2>1, <2>2 DEF Left, Last
  <2>4. DOMAIN heap[current].kids = 1 .. Len(heap[current].kids)
    <3>1. heap[current] \in Node BY DEF Shape, DocumentShape
    <3>2. heap[current].kids \in Seq(Kid) BY <3>1, NodeTyped
    <3> QED BY <3>2
  <2> QED BY <2>1, <2>3, <2>4 DEF Shape, TargetShape, TargetsLive
<1> QED BY <1>1, VisitorInvariant, PTL

-----------------------------------------------------------------------------
(* Induction. *)

(* A set that has 0 and with each number the next one has them all. *)
LEMMA NatInduct ==
  ASSUME NEW S, 0 \in S, \A n \in Nat : n \in S => n + 1 \in S
  PROVE  Nat \subseteq S
<1> DEFINE T == Nat \ S
<1>1. SUFFICES ASSUME T # {} PROVE FALSE OBVIOUS
<1>2. PICK x \in T : \A y \in T : ~(<<y, x>> \in OpToRel(<, Nat))
  BY <1>1, NatLessThanWellFounded, WFMin, Zenon
<1>3. x \in Nat /\ x # 0 /\ x - 1 \in Nat /\ x - 1 < x OBVIOUS
<1>4. x - 1 \in T BY <1>3
<1>5. <<x - 1, x>> \in OpToRel(<, Nat) BY <1>3 DEF OpToRel
<1> QED BY <1>2, <1>4, <1>5

(* The same from 0 up to a bound. *)
LEMMA Climb ==
  ASSUME NEW m \in Nat, NEW S, 0 \in S, \A n \in 0 .. m - 1 : n \in S => n + 1 \in S
  PROVE  0 .. m \subseteq S
<1> DEFINE T == {n \in Nat : n <= m => n \in S}
<1>1. 0 \in T OBVIOUS
<1>2. \A n \in Nat : n \in T => n + 1 \in T OBVIOUS
<1>3. Nat \subseteq T
  <2> HIDE DEF T
  <2> QED BY <1>1, <1>2, NatInduct
<1> QED BY <1>3

-----------------------------------------------------------------------------
(* The grammar: Phrases is defined, and what it has of some length stays. *)

Bare == [values |-> <<>>, arrays |-> <<>>, objects |-> <<>>]
Upto(m, w) == w = [n \in 0 .. m |-> IF n = 0 THEN Bare ELSE Longer(w[n - 1], n)]

LEMMA UptoExists == ASSUME NEW m \in Nat PROVE \E w : Upto(m, w)
<1> DEFINE S == {n \in Nat : \E w : Upto(n, w)}
<1>1. 0 \in S
  <2> DEFINE w == [n \in 0 .. 0 |-> Bare]
  <2>1. w = [n \in 0 .. 0 |-> IF n = 0 THEN Bare ELSE Longer(w[n - 1], n)]
    OBVIOUS
  <2> HIDE DEF w
  <2>2. Upto(0, w) BY <2>1 DEF Upto
  <2> QED BY <2>2
<1>2. ASSUME NEW n \in Nat, n \in S PROVE n + 1 \in S
  <2> PICK w : Upto(n, w) BY <1>2
  <2> DEFINE v == [i \in 0 .. n + 1 |-> IF i = n + 1 THEN Longer(w[n], n + 1) ELSE w[i]]
             b == [i \in 0 .. n + 1 |-> IF i = 0 THEN Bare ELSE Longer(v[i - 1], i)]
  <2>1. \A i \in 0 .. n : w[i] = IF i = 0 THEN Bare ELSE Longer(w[i - 1], i)
    BY DEF Upto
  <2>2. ASSUME NEW i \in 0 .. n + 1 PROVE v[i] = b[i]
    <3>1. CASE i = n + 1
      <4>1. v[i] = Longer(w[n], n + 1) /\ n \in 0 .. n + 1 /\ n # n + 1 /\ i # 0 /\ i - 1 = n
        BY <3>1
      <4>2. v[n] = w[n] /\ b[i] = Longer(v[n], i) BY <4>1
      <4> QED BY <4>1, <4>2, <3>1
    <3>2. CASE i = 0
      <4>1. v[0] = w[0] /\ b[0] = Bare /\ w[0] = Bare BY <2>1
      <4> QED BY <4>1, <3>2
    <3>3. CASE i \in 1 .. n
      <4>1. v[i] = w[i] /\ i - 1 \in 0 .. n + 1 /\ i - 1 # n + 1 /\ i # 0 /\ i \in 0 .. n
        BY <3>3
      <4>2. v[i - 1] = w[i - 1] /\ b[i] = Longer(v[i - 1], i) BY <4>1
      <4>3. w[i] = Longer(w[i - 1], i) BY <4>1, <2>1
      <4> HIDE DEF v, b
      <4> QED BY <4>1, <4>2, <4>3
    <3> QED BY <3>1, <3>2, <3>3
  <2>3. v = [i \in 0 .. n + 1 |-> v[i]] /\ b = [i \in 0 .. n + 1 |-> b[i]]
    OBVIOUS
  <2>4. v = b
    <3> HIDE DEF v, b
    <3> QED BY <2>2, <2>3
  <2>5. Upto(n + 1, v)
    <3> HIDE DEF v
    <3> QED BY <2>4 DEF Upto
  <2> HIDE DEF v
  <2> QED BY <2>5
<1>3. Nat \subseteq S
  <2> HIDE DEF S
  <2> QED BY <1>1, <1>2, NatInduct
<1> QED BY <1>3

LEMMA UptoAgree ==
  ASSUME NEW m \in Nat, NEW w, Upto(m, w), NEW v, Upto(m + 1, v)
  PROVE  w[m] = v[m]
<1> DEFINE S == {i \in 0 .. m : w[i] = v[i]}
<1>1. /\ \A i \in 0 .. m : w[i] = IF i = 0 THEN Bare ELSE Longer(w[i - 1], i)
      /\ \A i \in 0 .. m + 1 : v[i] = IF i = 0 THEN Bare ELSE Longer(v[i - 1], i)
  BY DEF Upto
<1>2. 0 \in S BY <1>1
<1>3. ASSUME NEW i \in 0 .. m - 1, i \in S PROVE i + 1 \in S
  <2>1. i + 1 \in 0 .. m /\ i + 1 \in 0 .. m + 1 /\ i + 1 # 0 /\ (i + 1) - 1 = i /\ w[i] = v[i]
    BY <1>3
  <2>2. w[i + 1] = Longer(w[i], i + 1) /\ v[i + 1] = Longer(v[i], i + 1)
    BY <2>1, <1>1
  <2> QED BY <2>1, <2>2
<1>4. 0 .. m \subseteq S
  <2> HIDE DEF S
  <2> QED BY <1>2, <1>3, Climb
<1> QED BY <1>4

LEMMA PhrasesIs ==
  Phrases[0] = Bare /\ \A n \in Nat : Phrases[n + 1] = Longer(Phrases[n], n + 1)
<1> DEFINE W(n) == CHOOSE w : Upto(n, w)
           F == [n \in Nat |-> W(n)[n]]
           G == [n \in Nat |-> IF n = 0 THEN Bare ELSE Longer(F[n - 1], n)]
<1>1. \A n \in Nat : Upto(n, W(n)) BY UptoExists
<1>2. \A n \in Nat : F[n] = W(n)[n] OBVIOUS
<1>3. ASSUME NEW n \in Nat PROVE F[n] = G[n]
  <2> HIDE DEF W, F
  <2>1. W(n)[n] = IF n = 0 THEN Bare ELSE Longer(W(n)[n - 1], n)
    <3> n \in 0 .. n /\ Upto(n, W(n)) BY <1>1
    <3> QED BY DEF Upto
  <2>2. CASE n = 0 BY <2>1, <2>2, <1>2
  <2>3. CASE n # 0
    <3>1. n - 1 \in Nat /\ (n - 1) + 1 = n BY <2>3
    <3> DEFINE m == n - 1
    <3> HIDE DEF m
    <3>2. m \in Nat /\ m + 1 = n /\ Upto(m, W(m)) /\ Upto(m + 1, W(n))
      BY <3>1, <1>1 DEF m
    <3>3. W(m)[m] = W(n)[m] BY <3>2, UptoAgree
    <3>4. F[m] = W(n)[m] BY <3>2, <3>3, <1>2
    <3>5. F[n] = Longer(W(n)[m], n) BY <2>1, <2>3, <1>2 DEF m
    <3>6. G[n] = Longer(F[m], n) BY <2>3 DEF m
    <3> HIDE DEF G
    <3> QED BY <3>4, <3>5, <3>6
  <2> QED BY <2>2, <2>3
<1>4. F = [n \in Nat |-> F[n]] /\ G = [n \in Nat |-> G[n]] OBVIOUS
<1>5. F = G
  <2> HIDE DEF F, G
  <2> QED BY <1>3, <1>4
<1>6. F = [n \in Nat |-> IF n = 0 THEN Bare ELSE Longer(F[n - 1], n)]
  <2> HIDE DEF F
  <2> QED BY <1>5
<1>7. Phrases = [n \in Nat |-> IF n = 0 THEN Bare ELSE Longer(Phrases[n - 1], n)]
  <2> HIDE DEF F
  <2> QED BY <1>6 DEF Phrases, Bare
<1>8. ASSUME NEW n \in Nat PROVE Phrases[n + 1] = Longer(Phrases[n], n + 1)
  <2>1. n + 1 \in Nat /\ n + 1 # 0 /\ (n + 1) - 1 = n OBVIOUS
  <2>2. \A i \in Nat : Phrases[i] = IF i = 0 THEN Bare ELSE Longer(Phrases[i - 1], i)
    BY <1>7
  <2> QED BY <2>1, <2>2
<1> QED BY <1>7, <1>8

(* A sequence of n, whatever it holds. *)
Long(s, n) == n \in Nat /\ \E S : s \in Seq(S) /\ Len(s) = n

Longest(s, n, e) ==
  /\ Long(Append(s, e), n + 1) /\ DOMAIN Append(s, e) = 1 .. n + 1
  /\ Append(s, e)[n + 1] = e /\ \A i \in 1 .. n : Append(s, e)[i] = s[i]

LEMMA Lengthens ==
  ASSUME NEW s, NEW n, Long(s, n), NEW e
  PROVE  Longest(s, n, e)
<1> PICK S : s \in Seq(S) /\ Len(s) = n BY DEF Long
<1> DEFINE E == S \cup {e}
<1>1. s \in Seq(E) /\ e \in E /\ n \in Nat BY DEF Long
<1> HIDE DEF E
<1>2. /\ Append(s, e) \in Seq(E) /\ Len(Append(s, e)) = n + 1 /\ DOMAIN Append(s, e) = 1 .. n + 1
      /\ Append(s, e)[n + 1] = e /\ \A i \in 1 .. n : Append(s, e)[i] = s[i]
  BY <1>1, AppendProperties
<1>3. Long(Append(s, e), n + 1) BY <1>1, <1>2 DEF Long
<1> QED BY <1>2, <1>3 DEF Longest

Sizes(n) ==
  Long(Phrases[n].values, n) /\ Long(Phrases[n].arrays, n) /\ Long(Phrases[n].objects, n)

(* What the next length adds. *)
Grows(n) ==
  LET p == Phrases[n]
      q == Phrases[n + 1]
  IN  /\ q.values = Append(p.values, Values(p, n + 1))
      /\ q.arrays = Append(p.arrays, Lists(q.values, p.arrays, {NoKey}, 0, n + 1))
      /\ q.objects = Append(p.objects, Lists(q.values, p.objects, Contents, 3, n + 1))

LEMMA GrowsBy == ASSUME NEW n \in Nat PROVE Grows(n)
<1> DEFINE p == Phrases[n]
           vs == Append(p.values, Values(p, n + 1))
<1> HIDE DEF p, vs
<1>1. Phrases[n + 1] = [values  |-> vs,
                        arrays  |-> Append(p.arrays, Lists(vs, p.arrays, {NoKey}, 0, n + 1)),
                        objects |-> Append(p.objects, Lists(vs, p.objects, Contents, 3, n + 1))]
  BY PhrasesIs DEF p, vs, Longer
<1> DEFINE q == Phrases[n + 1]
<1>2. /\ q.values = vs
      /\ q.arrays = Append(p.arrays, Lists(vs, p.arrays, {NoKey}, 0, n + 1))
      /\ q.objects = Append(p.objects, Lists(vs, p.objects, Contents, 3, n + 1))
  BY <1>1
<1> HIDE DEF q
<1>3. /\ q.values = Append(p.values, Values(p, n + 1))
      /\ q.arrays = Append(p.arrays, Lists(q.values, p.arrays, {NoKey}, 0, n + 1))
      /\ q.objects = Append(p.objects, Lists(q.values, p.objects, Contents, 3, n + 1))
  BY <1>2 DEF vs
<1> QED BY <1>3 DEF Grows, p, q

LEMMA SizesAre == \A n \in Nat : Sizes(n)
<1> DEFINE S == {n \in Nat : Sizes(n)}
<1>1. 0 \in S
  <2>1. <<>> \in Seq({}) /\ Len(<<>>) = 0 OBVIOUS
  <2>2. Long(<<>>, 0) BY <2>1 DEF Long
  <2> QED BY <2>2, PhrasesIs DEF Sizes, Bare
<1>2. ASSUME NEW n \in Nat, n \in S PROVE n + 1 \in S
  <2>1. Long(Phrases[n].values, n) /\ Long(Phrases[n].arrays, n) /\ Long(Phrases[n].objects, n)
    BY <1>2 DEF Sizes
  <2>2. Grows(n) BY GrowsBy
  <2> DEFINE p == Phrases[n]
             q == Phrases[n + 1]
             a == Values(p, n + 1)
             b == Lists(q.values, p.arrays, {NoKey}, 0, n + 1)
             c == Lists(q.values, p.objects, Contents, 3, n + 1)
  <2>3. q.values = Append(p.values, a) /\ q.arrays = Append(p.arrays, b) /\ q.objects = Append(p.objects, c)
    BY <2>2 DEF Grows
  <2> HIDE DEF p, q, a, b, c
  <2>4. Longest(p.values, n, a) BY <2>1, Lengthens DEF p
  <2>5. Longest(p.arrays, n, b) BY <2>1, Lengthens DEF p
  <2>6. Longest(p.objects, n, c) BY <2>1, Lengthens DEF p
  <2>7. Long(q.values, n + 1) /\ Long(q.arrays, n + 1) /\ Long(q.objects, n + 1)
    BY <2>3, <2>4, <2>5, <2>6 DEF Longest
  <2> QED BY <2>7 DEF Sizes, q
<1>3. Nat \subseteq S
  <2> HIDE DEF S
  <2> QED BY <1>1, <1>2, NatInduct
<1> QED BY <1>3

(* The phrases of i tokens, in p. *)
Fixed(i, p) ==
  /\ OfLength(p.values, i) = Phrases[i].values[i]
  /\ OfLength(p.arrays, i) = Phrases[i].arrays[i]
  /\ OfLength(p.objects, i) = Phrases[i].objects[i]

LEMMA StaysFixed ==
  ASSUME NEW i \in Nat, i # 0, NEW n \in Nat, i <= n
  PROVE  Fixed(i, Phrases[n])
<1> DEFINE S == {m \in Nat : i <= m => Fixed(i, Phrases[m])}
<1>1. 0 \in S OBVIOUS
<1>2. ASSUME NEW m \in Nat, m \in S PROVE m + 1 \in S
  <2> SUFFICES ASSUME i <= m + 1 PROVE Fixed(i, Phrases[m + 1]) OBVIOUS
  <2> DEFINE p == Phrases[m]
             q == Phrases[m + 1]
             a == Values(p, m + 1)
             b == Lists(q.values, p.arrays, {NoKey}, 0, m + 1)
             c == Lists(q.values, p.objects, Contents, 3, m + 1)
  <2>1. q.values = Append(p.values, a) /\ q.arrays = Append(p.arrays, b) /\ q.objects = Append(p.objects, c)
    BY GrowsBy DEF Grows
  <2>2. Sizes(m) BY SizesAre
  <2> HIDE DEF q, a, b, c
  <2>4. Longest(p.values, m, a) BY <2>2, Lengthens DEF Sizes
  <2>5. Longest(p.arrays, m, b) BY <2>2, Lengthens DEF Sizes
  <2>6. Longest(p.objects, m, c) BY <2>2, Lengthens DEF Sizes
  <2>7. i \in DOMAIN q.values /\ i \in DOMAIN q.arrays /\ i \in DOMAIN q.objects
    BY <2>1, <2>4, <2>5, <2>6 DEF Longest
  <2>8. OfLength(q.values, i) = q.values[i] /\ OfLength(q.arrays, i) = q.arrays[i] /\ OfLength(q.objects, i) = q.objects[i]
    BY <2>7 DEF OfLength
  <2>9. CASE i = m + 1 BY <2>8, <2>9 DEF Fixed, q
  <2>10. CASE i <= m
    <3>1. Fixed(i, p) BY <2>10, <1>2
    <3>2. i \in 1 .. m BY <2>10
    <3>3. q.values[i] = p.values[i] /\ q.arrays[i] = p.arrays[i] /\ q.objects[i] = p.objects[i]
      BY <3>2, <2>1, <2>4, <2>5, <2>6 DEF Longest
    <3>4. DOMAIN p.values = 1 .. m /\ DOMAIN p.arrays = 1 .. m /\ DOMAIN p.objects = 1 .. m
      <4> HIDE DEF p
      <4>1. ASSUME NEW s, Long(s, m) PROVE DOMAIN s = 1 .. m BY <4>1 DEF Long
      <4> QED BY <4>1, <2>2 DEF Sizes, p
    <3>5. OfLength(p.values, i) = p.values[i] /\ OfLength(p.arrays, i) = p.arrays[i] /\ OfLength(p.objects, i) = p.objects[i]
      BY <3>2, <3>4 DEF OfLength
    <3> QED BY <3>1, <3>3, <3>5, <2>8 DEF Fixed, q
  <2> QED BY <2>9, <2>10
<1>3. Nat \subseteq S
  <2> HIDE DEF S
  <2> QED BY <1>1, <1>2, NatInduct
<1> QED BY <1>3

(* What the phrases of n tokens are. *)
PhrasesOf(n) ==
  LET p == Phrases[n - 1]
      q == Phrases[n]
  IN  /\ q.values[n] = Values(p, n)
      /\ q.arrays[n] = Lists(q.values, p.arrays, {NoKey}, 0, n)
      /\ q.objects[n] = Lists(q.values, p.objects, Contents, 3, n)

LEMMA PhrasesAre == ASSUME NEW n \in Nat, n # 0 PROVE PhrasesOf(n)
<1> DEFINE m == n - 1
<1>1. m \in Nat /\ m + 1 = n OBVIOUS
<1> HIDE DEF m
<1>2. Grows(m) /\ Sizes(m) BY <1>1, GrowsBy, SizesAre
<1> DEFINE p == Phrases[m]
           q == Phrases[n]
           a == Values(p, n)
           b == Lists(q.values, p.arrays, {NoKey}, 0, n)
           c == Lists(q.values, p.objects, Contents, 3, n)
<1>3. q.values = Append(p.values, a) /\ q.arrays = Append(p.arrays, b) /\ q.objects = Append(p.objects, c)
  BY <1>1, <1>2 DEF Grows
<1> HIDE DEF q, a, b, c
<1>4. Longest(p.values, m, a) BY <1>2, Lengthens DEF Sizes
<1>5. Longest(p.arrays, m, b) BY <1>2, Lengthens DEF Sizes
<1>6. Longest(p.objects, m, c) BY <1>2, Lengthens DEF Sizes
<1>7. q.values[n] = a /\ q.arrays[n] = b /\ q.objects[n] = c
  BY <1>1, <1>3, <1>4, <1>5, <1>6 DEF Longest
<1> QED BY <1>7 DEF PhrasesOf, q, a, b, c, p, m

-----------------------------------------------------------------------------
(* How phrases are put together. *)

Token == Outside \cup Inside

(* A phrase is one of its length. *)
Spelled(v) == v.text \in Seq(Token) /\ v.nest \in Nat
ListSets(kind, n) == IF kind = "array" THEN Phrases[n].arrays ELSE Phrases[n].objects
IsValue(v) == Spelled(v) /\ Len(v.text) # 0 /\ v \in Phrases[Len(v.text)].values[Len(v.text)]
IsList(kind, l) ==
  Spelled(l) /\ (l = Nothing \/ (Len(l.text) # 0 /\ l \in ListSets(kind, Len(l.text))[Len(l.text)]))

LEMMA Tokens ==
  /\ Structure \subseteq Token /\ Scalars \subseteq Token /\ Contents \subseteq Token
  /\ "quote" \in Token /\ NPOS \in Token /\ Refused \subseteq Token
BY DEF Token, Outside, Inside

LEMMA NothingIs == ASSUME NEW kind PROVE IsList(kind, Nothing)
<1>1. Nothing.text = <<>> /\ Nothing.nest = 0 BY DEF Nothing
<1>2. <<>> \in Seq(Token) OBVIOUS
<1> QED BY <1>1, <1>2 DEF IsList, Spelled

LEMMA ScalarIs == ASSUME NEW s \in Scalars PROVE IsValue(ScalarValue(s))
<1> DEFINE v == ScalarValue(s)
<1>1. v.text = <<s>> /\ v.nest = 0 BY DEF ScalarValue
<1>2. s \in Token BY Tokens
<1>3. v.text \in Seq(Token) /\ Len(v.text) = 1 BY <1>1, <1>2
<1>4. v \in Values(Phrases[0], 1) BY DEF Values
<1>5. Phrases[1].values[1] = Values(Phrases[0], 1)
  <2> DEFINE n == 1
  <2>1. n \in Nat /\ n # 0 /\ n - 1 = 0 OBVIOUS
  <2>2. PhrasesOf(n)
    <3> HIDE DEF n
    <3> QED BY <2>1, PhrasesAre
  <2> QED BY <2>2 DEF PhrasesOf
<1> HIDE DEF v
<1>6. v.nest \in Nat BY <1>1
<1> QED BY <1>3, <1>4, <1>5, <1>6 DEF IsValue, Spelled, v

LEMMA StringIs == ASSUME NEW c \in Contents PROVE IsValue(StringValue(c))
<1> DEFINE v == StringValue(c)
<1>1. v.text = <<"quote", c>> /\ v.nest = 0 BY DEF StringValue
<1>2. c \in Token /\ "quote" \in Token BY Tokens
<1>3. v.text \in Seq(Token) /\ Len(v.text) = 2 BY <1>1, <1>2
<1> DEFINE n == 2
<1>4. v \in Values(Phrases[n - 1], n) BY DEF Values
<1>5. Phrases[n].values[n] = Values(Phrases[n - 1], n)
  <2>1. n \in Nat /\ n # 0 OBVIOUS
  <2>2. PhrasesOf(n)
    <3> HIDE DEF n
    <3> QED BY <2>1, PhrasesAre
  <2> HIDE DEF n
  <2> QED BY <2>2 DEF PhrasesOf
<1>6. v.nest \in Nat /\ Len(v.text) = n /\ n # 0 BY <1>1, <1>3
<1> HIDE DEF v, n
<1> QED BY <1>3, <1>4, <1>5, <1>6 DEF IsValue, Spelled, v

(* A list is found among those of its length by longer phrases. *)
LEMMA ListFound ==
  ASSUME NEW kind \in {"array", "object"}, NEW l, IsList(kind, l), NEW n \in Nat, Len(l.text) <= n
  PROVE  l \in ListsOf(ListSets(kind, n), Len(l.text))
<1> DEFINE i == Len(l.text)
<1>1. i \in Nat BY DEF IsList, Spelled
<1>2. CASE l = Nothing
  <2>1. i = 0 BY <1>2 DEF Nothing
  <2> QED BY <2>1, <1>2 DEF ListsOf
<1>3. CASE l # Nothing
  <2>1. i # 0 /\ l \in ListSets(kind, i)[i] BY <1>3 DEF IsList
  <2> HIDE DEF i
  <2>2. Fixed(i, Phrases[n]) BY <2>1, <1>1, StaysFixed DEF i
  <2>3. OfLength(ListSets(kind, n), i) = ListSets(kind, i)[i]
    BY <2>2 DEF Fixed, ListSets
  <2> QED BY <2>1, <2>3 DEF ListsOf, i
<1> QED BY <1>2, <1>3

Bracketed(o, s, c) ==
  Append(<<o>> \o s, c) \in Seq(Token) /\ Len(Append(<<o>> \o s, c)) = Len(s) + 2

LEMMA BracketedIs ==
  ASSUME NEW o \in Token, NEW c \in Token, NEW s \in Seq(Token)
  PROVE  Bracketed(o, s, c)
<1>1. <<o>> \in Seq(Token) /\ Len(<<o>>) = 1 /\ Len(s) \in Nat OBVIOUS
<1> DEFINE t == <<o>>
<1> HIDE DEF t
<1>2. t \o s \in Seq(Token) /\ Len(t \o s) = 1 + Len(s)
  BY <1>1, ConcatProperties DEF t
<1> DEFINE u == t \o s
<1> HIDE DEF u
<1>3. Append(u, c) \in Seq(Token) /\ Len(Append(u, c)) = (1 + Len(s)) + 1
  BY <1>2, AppendProperties DEF u
<1>4. (1 + Len(s)) + 1 = Len(s) + 2 BY <1>1
<1> QED BY <1>3, <1>4 DEF Bracketed, u, t

LEMMA ContainerIs ==
  ASSUME NEW kind \in {"array", "object"}, NEW l, IsList(kind, l)
  PROVE  IsValue(Container(kind, l))
<1> DEFINE v == Container(kind, l)
           i == Len(l.text)
           n == i + 2
<1>1. l.text \in Seq(Token) /\ l.nest \in Nat /\ i \in Nat
  BY DEF IsList, Spelled
<1>2. Opening(kind) \in Token /\ Closing(kind) \in Token
  BY Tokens DEF Opening, Closing, Structure
<1>3. /\ v.text = Append(<<Opening(kind)>> \o l.text, Closing(kind)) /\ v.nest = l.nest + 1
  BY DEF Container
<1>4. v.text \in Seq(Token) /\ Len(v.text) = n
  BY <1>1, <1>2, <1>3, BracketedIs DEF Bracketed
<1>5. n \in Nat /\ n # 0 /\ n - 1 \in Nat /\ i <= n - 1 /\ n - 2 = i BY <1>1
<1> DEFINE m == n - 1
<1> HIDE DEF v, n, m
<1>6. l \in ListsOf(ListSets(kind, m), i)
  <2>1. m \in Nat /\ i <= m BY <1>5 DEF m
  <2> QED BY <2>1, ListFound
<1>7. v \in Values(Phrases[n - 1], n)
  <2> HIDE DEF i
  <2>1. CASE kind = "array"
    <3>1. l \in ListsOf(Phrases[n - 1].arrays, n - 2)
      BY <2>1, <1>5, <1>6 DEF ListSets, m
    <3> QED BY <2>1, <3>1 DEF Values, v
  <2>2. CASE kind = "object"
    <3>1. l \in ListsOf(Phrases[n - 1].objects, n - 2)
      BY <2>2, <1>5, <1>6 DEF ListSets, m
    <3> QED BY <2>2, <3>1 DEF Values, v
  <2> QED BY <2>1, <2>2
<1>8. PhrasesOf(n) BY <1>5, PhrasesAre
<1>9. v \in Phrases[n].values[n] BY <1>7, <1>8 DEF PhrasesOf
<1>10. v.nest \in Nat BY <1>1, <1>3
<1> QED BY <1>4, <1>5, <1>9, <1>10 DEF IsValue, Spelled, v

(* A key is one a value of a container of a kind can have. *)
KeyOk(kind, key) == IF kind = "array" THEN key = NoKey ELSE key \in Contents
KeyLen(kind) == IF kind = "array" THEN 0 ELSE 3

LEMMA KeyTextIs ==
  ASSUME NEW kind \in {"array", "object"}, NEW key, KeyOk(kind, key)
  PROVE  KeyText(key) \in Seq(Token) /\ Len(KeyText(key)) = KeyLen(kind)
<1>1. CASE kind = "array" BY <1>1 DEF KeyOk, KeyLen, KeyText
<1>2. CASE kind = "object"
  <2>1. key \in Contents /\ key # NoKey BY <1>2, KeyAssumption DEF KeyOk
  <2>2. key \in Token /\ "quote" \in Token /\ ":" \in Token
    BY <2>1, Tokens DEF Structure
  <2> QED BY <2>1, <2>2, <1>2 DEF KeyText, KeyLen
<1> QED BY <1>1, <1>2

LEMMA SeparatedIs ==
  ASSUME NEW l, Spelled(l)
  PROVE  /\ Separated(l) \in Seq(Token)
         /\ Len(Separated(l)) = IF Len(l.text) = 0 THEN 0 ELSE Len(l.text) + 1
<1>1. l.text \in Seq(Token) /\ "," \in Token BY Tokens DEF Spelled, Structure
<1> DEFINE t == l.text
<1> HIDE DEF t
<1>2. CASE t = <<>> BY <1>2, <1>1 DEF Separated, t
<1>3. CASE t # <<>>
  <2>1. t \in Seq(Token) /\ Len(t) \in Nat /\ Len(t) # 0
    BY <1>1, <1>3, EmptySeq DEF t
  <2>2. Append(t, ",") \in Seq(Token) /\ Len(Append(t, ",")) = Len(t) + 1
    BY <2>1, <1>1, AppendProperties
  <2> QED BY <2>1, <2>2, <1>3 DEF Separated, t
<1> QED BY <1>2, <1>3

Sep(l) == IF Len(l.text) = 0 THEN 0 ELSE Len(l.text) + 1

(* What Extended adds to a list. *)
Larges(a, b) == Larger(a, b) \in Nat /\ a <= Larger(a, b) /\ b <= Larger(a, b)
                /\ \A c \in Int : a <= c /\ b <= c => Larger(a, b) <= c

LEMMA LargerIs == ASSUME NEW a \in Nat, NEW b \in Nat PROVE Larges(a, b)
BY DEF Larges, Larger

LEMMA ExtendedIs ==
  ASSUME NEW kind \in {"array", "object"}, NEW l, IsList(kind, l), NEW key, KeyOk(kind, key),
         NEW v, IsValue(v)
  PROVE  IsList(kind, Extended(l, key, v)) /\ Extended(l, key, v).text # <<>>
<1> DEFINE e == Extended(l, key, v)
           i == Len(l.text)
           s == Separated(l)
           t == KeyText(key)
           k == KeyLen(kind)
           m == Len(v.text)
           n == (Sep(l) + k) + m
<1>1. Spelled(l) /\ Spelled(v) /\ i \in Nat /\ m \in Nat /\ m # 0 /\ v \in Phrases[m].values[m]
  BY DEF IsList, IsValue, Spelled
<1>2. s \in Seq(Token) /\ Len(s) = Sep(l) /\ t \in Seq(Token) /\ Len(t) = k /\ v.text \in Seq(Token)
  BY <1>1, SeparatedIs, KeyTextIs DEF Spelled, Sep
<1>3. k \in Nat /\ Sep(l) \in Nat /\ Sep(l) >= i BY <1>1 DEF Sep, KeyLen
<1>4. e.text = (s \o t) \o v.text /\ e.nest = Larger(l.nest, v.nest)
  BY DEF Extended
<1>5. e.nest \in Nat
  <2> l.nest \in Nat /\ v.nest \in Nat BY <1>1 DEF Spelled
  <2>1. Larges(l.nest, v.nest) BY LargerIs
  <2> QED BY <2>1, <1>4 DEF Larges
<1> HIDE DEF s, t, m, k, i, e
<1>6. e.text \in Seq(Token) /\ Len(e.text) = n
  <2>1. s \o t \in Seq(Token) /\ Len(s \o t) = Len(s) + Len(t)
    BY <1>2, ConcatProperties
  <2> DEFINE u == s \o t
  <2> HIDE DEF u
  <2>2. u \in Seq(Token) /\ Len(u) = Len(s) + Len(t) BY <2>1 DEF u
  <2> DEFINE w == v.text
  <2>3. w \in Seq(Token) /\ Len(w) = m /\ e.text = u \o w BY <1>2, <1>4 DEF m, u
  <2> HIDE DEF w
  <2>4. u \o w \in Seq(Token) /\ Len(u \o w) = Len(u) + Len(w)
    BY <2>2, <2>3, ConcatProperties
  <2> QED BY <2>2, <2>3, <2>4, <1>2
<1>7. n \in Nat /\ n # 0 /\ n - 1 \in Nat /\ i <= n - 1 /\ i \in 0 .. n /\ m <= n /\ (n - k) - Sep(l) = m
  BY <1>1, <1>3
<1> HIDE DEF n
<1> DEFINE p == Phrases[n - 1]
           q == Phrases[n]
<1>8. l \in ListsOf(ListSets(kind, n - 1), i)
  <2> DEFINE h == n - 1
  <2>1. h \in Nat /\ Len(l.text) <= h BY <1>7 DEF i
  <2> HIDE DEF h
  <2>2. l \in ListsOf(ListSets(kind, h), Len(l.text)) BY <2>1, ListFound
  <2> QED BY <2>2 DEF i, h
<1>9. v \in OfLength(q.values, (n - k) - Sep(l))
  <2>1. Fixed(m, q) BY <1>1, <1>7, StaysFixed
  <2> QED BY <2>1, <1>1, <1>7 DEF Fixed
<1>10. (n - k) - Sep(l) = n - k - IF i = 0 THEN 0 ELSE i + 1 BY DEF Sep, i
<1>11. PhrasesOf(n) BY <1>7, PhrasesAre
<1>12. e \in ListSets(kind, n)[n]
  <2> HIDE DEF p, q
  <2>1. CASE kind = "array"
    <3>1. key \in {NoKey} /\ k = 0 BY <2>1 DEF KeyOk, k, KeyLen
    <3>2. l \in ListsOf(p.arrays, i) BY <1>8, <2>1 DEF ListSets, p
    <3>3. v \in OfLength(q.values, n - 0 - IF i = 0 THEN 0 ELSE i + 1)
      BY <1>9, <1>10, <3>1
    <3>4. e \in {Extended(a, b, c) : a \in ListsOf(p.arrays, i), b \in {NoKey},
                                     c \in OfLength(q.values, n - 0 - IF i = 0 THEN 0 ELSE i + 1)}
      BY <3>1, <3>2, <3>3 DEF e
    <3>5. e \in Lists(q.values, p.arrays, {NoKey}, 0, n) BY <3>4, <1>7 DEF Lists
    <3>6. ListSets(kind, n)[n] = Lists(q.values, p.arrays, {NoKey}, 0, n)
      BY <2>1, <1>11 DEF PhrasesOf, ListSets, p, q
    <3> QED BY <3>5, <3>6
  <2>2. CASE kind = "object"
    <3>1. key \in Contents /\ k = 3 BY <2>2 DEF KeyOk, k, KeyLen
    <3>2. l \in ListsOf(p.objects, i) BY <1>8, <2>2 DEF ListSets, p
    <3>3. v \in OfLength(q.values, n - 3 - IF i = 0 THEN 0 ELSE i + 1)
      BY <1>9, <1>10, <3>1
    <3>4. e \in {Extended(a, b, c) : a \in ListsOf(p.objects, i), b \in Contents,
                                     c \in OfLength(q.values, n - 3 - IF i = 0 THEN 0 ELSE i + 1)}
      BY <3>1, <3>2, <3>3 DEF e
    <3>5. e \in Lists(q.values, p.objects, Contents, 3, n)
      BY <3>4, <1>7 DEF Lists
    <3>6. ListSets(kind, n)[n] = Lists(q.values, p.objects, Contents, 3, n)
      BY <2>2, <1>11 DEF PhrasesOf, ListSets, p, q
    <3> QED BY <3>5, <3>6
  <2> QED BY <2>1, <2>2
<1>13. e.text # <<>>
  <2>1. Len(e.text) # 0 BY <1>6, <1>7
  <2> QED BY <2>1
<1> QED BY <1>5, <1>6, <1>7, <1>12, <1>13 DEF IsList, Spelled, e

-----------------------------------------------------------------------------
(* What the documents of a heap denote. *)

Val(h, w, n) ==
  [kind |-> h[n].kind, text |-> h[n].text,
   kids |-> [i \in DOMAIN h[n].kids |-> <<h[n].kids[i][1], w[h[n].kids[i][2]]>>]]

Heap(h) == h \in Seq(Node) /\ KidsNewer(h)

KidsFit(h, n) ==
  /\ h[n].kids \in Seq(Kid) /\ Len(h[n].kids) \in Nat /\ DOMAIN h[n].kids = 1 .. Len(h[n].kids)
  /\ \A i \in DOMAIN h[n].kids : h[n].kids[i][2] \in n + 1 .. Len(h)

LEMMA KidsDo ==
  ASSUME NEW h, Heap(h), NEW n \in 1 .. Len(h)
  PROVE  KidsFit(h, n)
<1>1. h[n] \in Node BY DEF Heap
<1>2. h[n].kids \in Seq(Kid) /\ Len(h[n].kids) \in Nat BY <1>1, NodeTyped
<1> DEFINE k == h[n].kids
<1>3. \A i \in 1 .. Len(k) : k[i][2] \in n + 1 .. Len(h) BY DEF Heap, KidsNewer
<1> HIDE DEF k
<1>4. DOMAIN k = 1 .. Len(k) BY <1>2 DEF k
<1> QED BY <1>2, <1>3, <1>4 DEF KidsFit, k

(* Values that agree for what is nested in n agree for n. *)
LEMMA ValSame ==
  ASSUME NEW h, NEW n, NEW w, NEW v,
         \A i \in DOMAIN h[n].kids : w[h[n].kids[i][2]] = v[h[n].kids[i][2]]
  PROVE  Val(h, w, n) = Val(h, v, n)
BY DEF Val

LEMMA ValuesExist ==
  ASSUME NEW h, Heap(h)
  PROVE  \E w : w = [n \in 1 .. Len(h) |-> Val(h, w, n)]
<1> DEFINE N == Len(h)
           S == {m \in 0 .. N : \E w : \A n \in (N - m) + 1 .. N : w[n] = Val(h, w, n)}
<1>0. N \in Nat BY DEF Heap
<1> HIDE DEF N
<1>1. 0 \in S BY <1>0
<1>2. ASSUME NEW m \in 0 .. N - 1, m \in S PROVE m + 1 \in S
  <2> PICK w : \A n \in (N - m) + 1 .. N : w[n] = Val(h, w, n) BY <1>2
  <2> DEFINE p == N - m
             v == [n \in 1 .. N |-> IF n = p THEN Val(h, w, n) ELSE w[n]]
  <2>1. p \in 1 .. N /\ (N - (m + 1)) + 1 = p /\ m + 1 \in 0 .. N BY <1>0
  <2>2. ASSUME NEW n \in p .. N PROVE v[n] = Val(h, v, n)
    <3>1. n \in 1 .. N /\ n \in Nat /\ (n = p \/ n \in (N - m) + 1 .. N)
      BY <2>1, <1>0
    <3>k. KidsFit(h, n)
      BY <3>1, KidsDo DEF N
    <3>2. ASSUME NEW i \in DOMAIN h[n].kids PROVE w[h[n].kids[i][2]] = v[h[n].kids[i][2]]
      <4> DEFINE c == h[n].kids[i][2]
      <4>1. c \in n + 1 .. N BY <3>k DEF KidsFit, N
      <4> HIDE DEF c
      <4>2. c \in 1 .. N /\ c # p BY <4>1, <3>1, <2>1, <1>0
      <4>3. w[c] = v[c] BY <4>2
      <4> QED BY <4>3 DEF c
    <3> HIDE DEF v
    <3>3. Val(h, w, n) = Val(h, v, n) BY <3>2, ValSame
    <3>4. v[n] = Val(h, w, n)
      <4> QED BY <3>1 DEF v
    <3> QED BY <3>3, <3>4
  <2> HIDE DEF v, p
  <2>3. \A n \in (N - (m + 1)) + 1 .. N : v[n] = Val(h, v, n) BY <2>1, <2>2
  <2> QED BY <2>1, <2>3
<1>3. N \in S
  <2>1. 0 .. N \subseteq S
    <3> HIDE DEF S
    <3> QED BY <1>0, <1>1, <1>2, Climb
  <2> HIDE DEF S
  <2> QED BY <2>1, <1>0
<1>4. PICK w : \A n \in 1 .. N : w[n] = Val(h, w, n)
  <2>1. (N - N) + 1 = 1 BY <1>0
  <2> QED BY <1>3, <2>1
<1> DEFINE f == [n \in 1 .. N |-> w[n]]
<1>5. ASSUME NEW n \in 1 .. N PROVE f[n] = Val(h, f, n)
  <2>1. KidsFit(h, n) BY KidsDo DEF N
  <2>2. ASSUME NEW i \in DOMAIN h[n].kids PROVE w[h[n].kids[i][2]] = f[h[n].kids[i][2]]
    <3> DEFINE c == h[n].kids[i][2]
    <3>1. c \in n + 1 .. N BY <2>1 DEF KidsFit, N
    <3> HIDE DEF c
    <3>2. c \in 1 .. N BY <3>1, <1>0
    <3>3. w[c] = f[c] BY <3>2
    <3> QED BY <3>3 DEF c
  <2> HIDE DEF f
  <2>3. Val(h, w, n) = Val(h, f, n) BY <2>2, ValSame
  <2>4. f[n] = w[n] BY DEF f
  <2> QED BY <2>3, <2>4, <1>4
<1>6. f = [n \in 1 .. N |-> f[n]] OBVIOUS
<1> HIDE DEF f
<1>7. f = [n \in 1 .. N |-> Val(h, f, n)] BY <1>5, <1>6
<1> QED BY <1>7 DEF N

(* The kids of n, with what they denote. *)
KidsOf(h, n) == [i \in DOMAIN h[n].kids |-> <<h[n].kids[i][1], Denotes(h)[h[n].kids[i][2]]>>]
Denoting(h, n) == Denotes(h)[n] = [kind |-> h[n].kind, text |-> h[n].text, kids |-> KidsOf(h, n)]

LEMMA DenotesIs ==
  ASSUME NEW h, Heap(h), NEW n \in 1 .. Len(h)
  PROVE  Denoting(h, n)
<1> PICK w : w = [i \in 1 .. Len(h) |-> Val(h, w, i)] BY ValuesExist, SMTT(60)
<1>1. Denotes(h) = [i \in 1 .. Len(h) |-> Val(h, Denotes(h), i)]
  BY DEF Denotes, Val
<1> DEFINE D == Denotes(h)
<1> HIDE DEF D
<1>2. D[n] = Val(h, D, n)
  <2>1. D = [i \in 1 .. Len(h) |-> Val(h, D, i)] BY <1>1 DEF D
  <2> QED BY <2>1
<1> QED BY <1>2 DEF Denoting, KidsOf, Val, D

(* A document has one place in one container. *)
Single(h) ==
  \A n, m \in 1 .. Len(h) : \A i \in DOMAIN h[n].kids, j \in DOMAIN h[m].kids :
    h[n].kids[i][2] = h[m].kids[j][2] => n = m /\ i = j

(* Elements have no key; the keys of an object differ. *)
Keyed(h) ==
  \A n \in 1 .. Len(h) :
    /\ h[n].kind = "array" => \A i \in DOMAIN h[n].kids : h[n].kids[i][1] = NoKey
    /\ h[n].kind = "object" => \A i, j \in DOMAIN h[n].kids :
         h[n].kids[i][1] \in Contents /\ (h[n].kids[i][1] = h[n].kids[j][1] => i = j)

Tidy(h) == Heap(h) /\ Single(h) /\ Keyed(h)

(* Who has a kid in A is in A. *)
ParentsIn(h, A) ==
  \A n \in 1 .. Len(h) : \A i \in DOMAIN h[n].kids : h[n].kids[i][2] \in A => n \in A

SameBut(h, g, A) == Len(h) <= Len(g) /\ \A n \in 1 .. Len(h) : n \notin A => g[n] = h[n]

SameOutside(h, g, A) == \A n \in 1 .. Len(h) : n \notin A => Denotes(g)[n] = Denotes(h)[n]

LEMMA OutsideSame ==
  ASSUME NEW h, Heap(h), NEW g, Heap(g), NEW A, ParentsIn(h, A), SameBut(h, g, A)
  PROVE  SameOutside(h, g, A)
<1> DEFINE N == Len(h)
           S == {m \in 0 .. N : \A n \in (N - m) + 1 .. N : n \notin A => Denotes(g)[n] = Denotes(h)[n]}
<1>0. N \in Nat /\ Len(g) \in Nat /\ N <= Len(g) BY DEF Heap, SameBut
<1> HIDE DEF N
<1>1. 0 \in S BY <1>0
<1>2. ASSUME NEW m \in 0 .. N - 1, m \in S PROVE m + 1 \in S
  <2>1. \A n \in (N - m) + 1 .. N : n \notin A => Denotes(g)[n] = Denotes(h)[n]
    BY <1>2
  <2>2. ASSUME NEW n \in (N - (m + 1)) + 1 .. N, n \notin A PROVE Denotes(g)[n] = Denotes(h)[n]
    <3>1. n \in 1 .. N /\ n \in 1 .. Len(g) /\ (n = N - m \/ n \in (N - m) + 1 .. N)
      BY <1>0
    <3>2. CASE n \in (N - m) + 1 .. N BY <2>1, <2>2, <3>2
    <3>3. CASE n = N - m
      <4>1. g[n] = h[n] /\ KidsFit(h, n) /\ Denoting(h, n) /\ Denoting(g, n)
        <5>1. g[n] = h[n] BY <3>1, <2>2 DEF SameBut, N
        <5>2. KidsFit(h, n) BY <3>1, KidsDo DEF N
        <5>3. Denoting(h, n) BY <3>1, DenotesIs DEF N
        <5>4. Denoting(g, n) BY <3>1, DenotesIs
        <5> QED BY <5>1, <5>2, <5>3, <5>4
      <4>2. ASSUME NEW i \in DOMAIN h[n].kids
            PROVE  Denotes(g)[h[n].kids[i][2]] = Denotes(h)[h[n].kids[i][2]]
        <5> DEFINE c == h[n].kids[i][2]
        <5>1. c \in n + 1 .. N BY <4>1 DEF KidsFit, N
        <5>2. c \notin A BY <2>2, <3>1 DEF ParentsIn, N
        <5> HIDE DEF c
        <5>3. c \in (N - m) + 1 .. N BY <5>1, <3>3
        <5>4. Denotes(g)[c] = Denotes(h)[c] BY <5>2, <5>3, <2>1
        <5> QED BY <5>4 DEF c
      <4>3. KidsOf(g, n) = KidsOf(h, n) BY <4>1, <4>2 DEF KidsOf
      <4> QED BY <4>1, <4>3 DEF Denoting
    <3> QED BY <3>1, <3>2, <3>3
  <2>3. m + 1 \in 0 .. N BY <1>0
  <2> QED BY <2>2, <2>3
<1>3. N \in S
  <2>1. 0 .. N \subseteq S
    <3> HIDE DEF S
    <3> QED BY <1>0, <1>1, <1>2, Climb
  <2> HIDE DEF S
  <2> QED BY <2>1, <1>0
<1>4. (N - N) + 1 = 1 BY <1>0
<1> QED BY <1>3, <1>4 DEF SameOutside, N

(* Q[1] to Q[k] is a way down from the root. *)
Step1(h, Q, i) == \E j \in DOMAIN h[Q[i]].kids : h[Q[i]].kids[j][2] = Q[i + 1]
Line(h, Q, k) ==
  /\ k \in Nat /\ k # 0 /\ Q[1] = 1
  /\ \A i \in 1 .. k : Q[i] \in 1 .. Len(h)
  /\ \A i, j \in 1 .. k : i < j => Q[i] < Q[j]
  /\ \A i \in 1 .. k : i < k => Step1(h, Q, i)

(* The way to a document of the line comes from the one above it. *)
ComesFrom(h, Q, k, n, i) ==
  \A l \in 1 .. k : h[n].kids[i][2] = Q[l]
    => l # 1 /\ l - 1 \in 1 .. k /\ l - 1 < k /\ n = Q[l - 1]

LEMMA ComesFromAbove ==
  ASSUME NEW h, Tidy(h), NEW Q, NEW k, Line(h, Q, k), NEW n \in 1 .. Len(h), NEW i \in DOMAIN h[n].kids
  PROVE  ComesFrom(h, Q, k, n, i)
<1> SUFFICES ASSUME NEW l \in 1 .. k, h[n].kids[i][2] = Q[l]
             PROVE  l # 1 /\ l - 1 \in 1 .. k /\ l - 1 < k /\ n = Q[l - 1]
  BY DEF ComesFrom
<1> DEFINE c == h[n].kids[i][2]
<1>0. k \in Nat BY DEF Line
<1>1. c \in n + 1 .. Len(h) BY KidsDo DEF Tidy, KidsFit
<1> HIDE DEF c
<1>2. l # 1
  <2>1. c # 1 BY <1>1
  <2> QED BY <2>1 DEF Line, c
<1> DEFINE m == l - 1
<1>3. m \in 1 .. k /\ m < k /\ m + 1 = l BY <1>0, <1>2
<1> HIDE DEF m
<1>4. Step1(h, Q, m) /\ Q[m] \in 1 .. Len(h) BY <1>3 DEF Line
<1>5. PICK j \in DOMAIN h[Q[m]].kids : h[Q[m]].kids[j][2] = Q[m + 1]
  BY <1>4 DEF Step1
<1>6. h[Q[m]].kids[j][2] = h[n].kids[i][2] BY <1>3, <1>5
<1>7. n = Q[m] BY <1>4, <1>6 DEF Tidy, Single
<1> QED BY <1>2, <1>3, <1>7 DEF m

Nodes(Q, k) == {Q[i] : i \in 1 .. k}

LEMMA LineClosed ==
  ASSUME NEW h, Tidy(h), NEW Q, NEW k, Line(h, Q, k)
  PROVE  ParentsIn(h, Nodes(Q, k))
<1> SUFFICES ASSUME NEW n \in 1 .. Len(h), NEW i \in DOMAIN h[n].kids, h[n].kids[i][2] \in Nodes(Q, k)
             PROVE  n \in Nodes(Q, k)
  BY DEF ParentsIn
<1>1. PICK l \in 1 .. k : h[n].kids[i][2] = Q[l] BY DEF Nodes
<1>2. ComesFrom(h, Q, k, n, i) BY ComesFromAbove
<1>3. l - 1 \in 1 .. k /\ n = Q[l - 1] BY <1>1, <1>2 DEF ComesFrom
<1> QED BY <1>3 DEF Nodes

-----------------------------------------------------------------------------
(* What the tokens of an open container are. *)

SoFar(f) == f.pre \o Separated(f.g)
Begun(f) == SoFar(f) \o KeyText(f.key)

Joins(s, t, a) == /\ s \o Append(t, a) = Append(s \o t, a) /\ s \o t \in Seq(Token)
                  /\ Append(s \o t, a) \in Seq(Token)

LEMMA JoinsAppend ==
  ASSUME NEW s \in Seq(Token), NEW t \in Seq(Token), NEW a \in Token
  PROVE  Joins(s, t, a)
<1> DEFINE w == s \o t
           u == Append(t, a)
<1>1. /\ w \in Seq(Token) /\ Len(w) = Len(s) + Len(t) /\ Len(s) \in Nat /\ Len(t) \in Nat
      /\ \A i \in 1 .. Len(s) + Len(t) : w[i] = IF i <= Len(s) THEN s[i] ELSE t[i - Len(s)]
  BY ConcatProperties
<1>2. /\ u \in Seq(Token) /\ Len(u) = Len(t) + 1 /\ u[Len(t) + 1] = a
      /\ \A i \in 1 .. Len(t) : u[i] = t[i]
  BY Appending
<1> DEFINE x == Append(w, a)
           y == s \o u
<1> HIDE DEF w, u
<1>3. /\ x \in Seq(Token) /\ Len(x) = Len(w) + 1 /\ x[Len(w) + 1] = a
      /\ \A i \in 1 .. Len(w) : x[i] = w[i]
  BY <1>1, Appending
<1>4. /\ y \in Seq(Token) /\ Len(y) = Len(s) + Len(u)
      /\ \A i \in 1 .. Len(s) + Len(u) : y[i] = IF i <= Len(s) THEN s[i] ELSE u[i - Len(s)]
  BY <1>2, ConcatProperties
<1> HIDE DEF x, y
<1> DEFINE p == Len(s)
           q == Len(t)
<1>5. /\ p \in Nat /\ q \in Nat /\ Len(w) = p + q /\ Len(u) = q + 1 /\ Len(x) = (p + q) + 1 /\ Len(y) = p + (q + 1)
  BY <1>1, <1>2, <1>3, <1>4
<1>6. ASSUME NEW i \in 1 .. Len(x) PROVE x[i] = y[i]
  <2>0. \A j \in 1 .. p + (q + 1) : y[j] = IF j <= p THEN s[j] ELSE u[j - p]
    BY <1>4, <1>5
  <2>1. \A j \in 1 .. p + q : x[j] = IF j <= p THEN s[j] ELSE t[j - p]
    BY <1>1, <1>3, <1>5
  <2>2. x[(p + q) + 1] = a /\ u[q + 1] = a /\ \A j \in 1 .. q : u[j] = t[j]
    BY <1>2, <1>3, <1>5
  <2> HIDE DEF p, q
  <2>3. CASE i = (p + q) + 1
    <3>1. i \in 1 .. p + (q + 1) /\ ~(i <= p) /\ i - p = q + 1 BY <2>3, <1>5
    <3> QED BY <3>1, <2>0, <2>2, <2>3
  <2>4. CASE i \in 1 .. p
    <3>1. i \in 1 .. p + (q + 1) /\ i \in 1 .. p + q /\ i <= p BY <2>4, <1>5
    <3> QED BY <3>1, <2>0, <2>1
  <2>5. CASE i \in p + 1 .. p + q
    <3>1. i \in 1 .. p + (q + 1) /\ i \in 1 .. p + q /\ ~(i <= p) /\ i - p \in 1 .. q
      BY <2>5, <1>5
    <3> QED BY <3>1, <2>0, <2>1, <2>2
  <2> QED BY <2>3, <2>4, <2>5, <1>5
<1>7. Len(x) = Len(y)
  <2> HIDE DEF p, q
  <2> QED BY <1>5
<1>8. x = y
  <2> HIDE DEF p, q
  <2> QED BY <1>3, <1>4, <1>6, <1>7, SeqEqual
<1> QED BY <1>1, <1>3, <1>8 DEF Joins, w, u, x, y

Strings(a, b, c) == Append(<<a>>, b) = <<a, b>> /\ Append(<<a, b>>, c) = <<a, b, c>>

LEMMA StringsAre == ASSUME NEW a \in Token, NEW b \in Token, NEW c \in Token PROVE Strings(a, b, c)
<1> DEFINE s == Append(<<a>>, b)
           t == <<a, b>>
<1>1. <<a>> \in Seq(Token) /\ Len(<<a>>) = 1 /\ <<a>>[1] = a OBVIOUS
<1>2. t \in Seq(Token) /\ Len(t) = 2 /\ t[1] = a /\ t[2] = b OBVIOUS
<1>3. s \in Seq(Token) /\ Len(s) = 2 /\ s[1] = a /\ s[2] = b BY <1>1
<1>4. s = t
  <2> HIDE DEF s, t
  <2>1. \A i \in 1 .. Len(s) : s[i] = t[i] BY <1>2, <1>3
  <2> QED BY <2>1, <1>2, <1>3, SeqEqual
<1> DEFINE u == Append(t, c)
           w == <<a, b, c>>
<1>5. w \in Seq(Token) /\ Len(w) = 3 /\ w[1] = a /\ w[2] = b /\ w[3] = c OBVIOUS
<1>6. u \in Seq(Token) /\ Len(u) = 3 /\ u[1] = a /\ u[2] = b /\ u[3] = c
  <2> HIDE DEF t
  <2>1. /\ Append(t, c) \in Seq(Token) /\ Len(Append(t, c)) = Len(t) + 1 /\ Append(t, c)[Len(t) + 1] = c
        /\ \A i \in 1 .. Len(t) : Append(t, c)[i] = t[i]
    <3>1. t \in Seq(Token) /\ c \in Token BY <1>2
    <3> HIDE DEF Token
    <3> QED BY ONLY <3>1, Appending
  <2>2. 1 \in 1 .. Len(t) /\ 2 \in 1 .. Len(t) /\ Len(t) + 1 = 3 BY <1>2
  <2> QED BY <2>1, <2>2, <1>2
<1>7. u = w
  <2> HIDE DEF u, w, t
  <2>1. \A i \in 1 .. Len(u) : u[i] = w[i] BY <1>5, <1>6
  <2> QED BY <2>1, <1>5, <1>6, SeqEqual
<1> QED BY <1>4, <1>7 DEF Strings

(* One, two and three tokens behind a text. *)
Trails(s, a, b, c) ==
  /\ s \o <<a>> = Append(s, a)
  /\ s \o <<a, b>> = Append(Append(s, a), b)
  /\ s \o <<a, b, c>> = Append(Append(Append(s, a), b), c)

LEMMA TrailsAre ==
  ASSUME NEW s \in Seq(Token), NEW a \in Token, NEW b \in Token, NEW c \in Token
  PROVE  Trails(s, a, b, c)
<1> DEFINE t0 == <<>>
           t1 == Append(t0, a)
           t2 == Append(t1, b)
           t3 == Append(t2, c)
<1>1. t0 \in Seq(Token) /\ t1 = <<a>> /\ t2 = <<a, b>> /\ t3 = <<a, b, c>>
  <2>1. t0 \in Seq(Token) /\ Append(t0, a) = <<a>> OBVIOUS
  <2>2. Strings(a, b, c) BY StringsAre
  <2> QED BY <2>1, <2>2 DEF Strings
<1>2. s \o t0 = s BY ConcatEmptySeq
<1>3. t1 \in Seq(Token) /\ t2 \in Seq(Token)
  <2>1. <<a>> \in Seq(Token) /\ <<a, b>> \in Seq(Token) OBVIOUS
  <2> HIDE DEF t1, t2
  <2> QED BY <1>1, <2>1
<1> HIDE DEF t0
<1>4. Joins(s, t0, a) BY <1>1, JoinsAppend
<1>5. s \o t1 = Append(s, a) BY <1>2, <1>4 DEF Joins
<1> HIDE DEF t1
<1>6. Joins(s, t1, b) BY <1>3, JoinsAppend
<1>7. s \o t2 = Append(Append(s, a), b) BY <1>5, <1>6 DEF Joins
<1> HIDE DEF t2
<1>8. Joins(s, t2, c) BY <1>3, JoinsAppend
<1>9. s \o t3 = Append(Append(Append(s, a), b), c) BY <1>7, <1>8 DEF Joins
<1> QED BY <1>1, <1>5, <1>7, <1>9 DEF Trails

(* Texts in front of which a container opens. *)
Opens(s, o, t, c) == s \o Append(<<o>> \o t, c) = Append(Append(s, o) \o t, c)

LEMMA OpensIt ==
  ASSUME NEW s \in Seq(Token), NEW o \in Token, NEW t \in Seq(Token), NEW c \in Token
  PROVE  Opens(s, o, t, c)
<1> DEFINE b == <<o>>
           w == b \o t
<1>1. b \in Seq(Token) OBVIOUS
<1>2. s \o b = Append(s, o)
  <2>1. Trails(s, o, o, o) BY TrailsAre
  <2> QED BY <2>1 DEF Trails
<1> HIDE DEF b
<1>3. w \in Seq(Token) BY <1>1, ConcatProperties
<1>4. (s \o b) \o t = s \o w BY <1>1, ConcatAssociative, SMTT(60)
<1> HIDE DEF w
<1>5. Joins(s, w, c) BY <1>3, JoinsAppend
<1> QED BY <1>2, <1>4, <1>5 DEF Joins, Opens, w, b

-----------------------------------------------------------------------------
(* What a frame has of the text: pre ends with the opening of the container *)
(* and g is what stands in it, up to the value under key. *)
Frame(h, n, f) ==
  /\ h[n].kind \in {"object", "array"} /\ h[n].text = ""
  /\ IsList(h[n].kind, f.g) /\ f.pre \in Seq(Token)
  /\ h[n].kind = "array" => f.key = NoKey

TextsOf(f) ==
  /\ f.g.text \in Seq(Token) /\ f.g.nest \in Nat /\ Separated(f.g) \in Seq(Token) /\ SoFar(f) \in Seq(Token)
  /\ f.g.text = <<>> => SoFar(f) = f.pre
  /\ f.g.text # <<>> => SoFar(f) = Append(f.pre \o f.g.text, ",")

LEMMA FrameTexts == ASSUME NEW h, NEW n, NEW f, Frame(h, n, f) PROVE TextsOf(f)
<1> DEFINE g == f.g
           p == f.pre
<1>1. g.text \in Seq(Token) /\ g.nest \in Nat /\ p \in Seq(Token) /\ Spelled(g)
  BY DEF Frame, IsList, Spelled
<1> HIDE DEF g, p
<1>2. Separated(g) \in Seq(Token) BY <1>1, SeparatedIs
<1>3. SoFar(f) = p \o Separated(g) BY DEF SoFar, g, p
<1>4. SoFar(f) \in Seq(Token) BY <1>1, <1>2, <1>3, ConcatProperties
<1>5. ASSUME g.text = <<>> PROVE SoFar(f) = p
  BY <1>1, <1>3, <1>5, ConcatEmptySeq DEF Separated
<1>6. ASSUME g.text # <<>> PROVE SoFar(f) = Append(p \o g.text, ",")
  <2> DEFINE t == g.text
  <2>1. t \in Seq(Token) /\ "," \in Token /\ Separated(g) = Append(t, ",")
    BY <1>1, <1>6, Tokens DEF Separated, Structure
  <2> HIDE DEF t
  <2>2. Joins(p, t, ",") BY <1>1, <2>1, JoinsAppend
  <2> QED BY <1>3, <2>1, <2>2 DEF Joins, t
<1> QED BY <1>1, <1>2, <1>4, <1>5, <1>6 DEF TextsOf, g, p

BegunTexts(kind, f) ==
  /\ Begun(f) \in Seq(Token)
  /\ kind = "array" => Begun(f) = SoFar(f)
  /\ kind = "object" => Begun(f) = Append(Append(Append(SoFar(f), "quote"), f.key), ":")

LEMMA BegunIs ==
  ASSUME NEW h, NEW n, NEW f, Frame(h, n, f), NEW kind, kind = h[n].kind, KeyOk(kind, f.key)
  PROVE  BegunTexts(kind, f)
<1> DEFINE s == SoFar(f)
           t == KeyText(f.key)
<1>1. s \in Seq(Token) BY FrameTexts DEF TextsOf
<1>2. t \in Seq(Token) BY KeyTextIs DEF Frame
<1> HIDE DEF s
<1>3. Begun(f) = s \o t BY DEF Begun, s
<1>4. Begun(f) \in Seq(Token)
  <2> HIDE DEF t
  <2> QED BY <1>1, <1>2, <1>3, ConcatProperties
<1>5. ASSUME kind = "array" PROVE Begun(f) = s
  <2>1. t = <<>> BY <1>5 DEF KeyOk, KeyText
  <2> QED BY <2>1, <1>1, <1>3, ConcatEmptySeq
<1>6. ASSUME kind = "object" PROVE Begun(f) = Append(Append(Append(s, "quote"), f.key), ":")
  <2> DEFINE k == f.key
  <2>1. k \in Token /\ "quote" \in Token /\ ":" \in Token /\ k # NoKey
    BY <1>6, Tokens, KeyAssumption DEF KeyOk, Structure
  <2>2. t = <<"quote", k, ":">> BY <2>1 DEF KeyText
  <2> HIDE DEF k, t
  <2>3. Trails(s, "quote", k, ":") BY <2>1, <1>1, TrailsAre
  <2> QED BY <1>3, <2>2, <2>3 DEF Trails, k
<1> QED BY <1>4, <1>5, <1>6 DEF BegunTexts, s

(* A value that ends the list of a frame. *)
Ends(f, v) == f.pre \o Extended(f.g, f.key, v).text = Begun(f) \o v.text

LEMMA EndsIt ==
  ASSUME NEW h, NEW n, NEW f, Frame(h, n, f), KeyOk(h[n].kind, f.key), NEW v, IsValue(v)
  PROVE  Ends(f, v)
<1> DEFINE p == f.pre
           s == Separated(f.g)
           t == KeyText(f.key)
           u == v.text
<1>1. p \in Seq(Token) /\ u \in Seq(Token) BY DEF Frame, IsValue, Spelled
<1>2. s \in Seq(Token) BY FrameTexts DEF TextsOf
<1>3. t \in Seq(Token) BY KeyTextIs DEF Frame
<1>4. Extended(f.g, f.key, v).text = (s \o t) \o u BY DEF Extended
<1>5. Begun(f) = (p \o s) \o t BY DEF Begun, SoFar
<1> HIDE DEF p, s, t, u
<1>6. p \o s \in Seq(Token) /\ s \o t \in Seq(Token)
  BY <1>1, <1>2, <1>3, ConcatProperties
<1>7. (p \o s) \o t = p \o (s \o t)
  BY <1>1, <1>2, <1>3, ConcatAssociative, SMTT(60)
<1> DEFINE w == s \o t
<1>8. w \in Seq(Token) /\ Begun(f) = p \o w /\ Extended(f.g, f.key, v).text = w \o u
  BY <1>4, <1>5, <1>6, <1>7
<1> HIDE DEF w
<1>9. (p \o w) \o u = p \o (w \o u) BY <1>1, <1>8, ConcatAssociative, SMTT(60)
<1> QED BY <1>8, <1>9 DEF Ends, p, u

(* The text of a container that closes is a value's, behind its frame's. *)
Closes(f, kind) ==
  LET v == Container(kind, f.g)
  IN  /\ f.pre = <<Opening(kind)>> => v.text = Append(f.pre \o f.g.text, Closing(kind))
      /\ \A s \in Seq(Token) : f.pre = Append(s, Opening(kind)) =>
           s \o v.text = Append(f.pre \o f.g.text, Closing(kind))

LEMMA ClosesIt == ASSUME NEW h, NEW n, NEW f, Frame(h, n, f) PROVE Closes(f, h[n].kind)
<1> DEFINE kind == h[n].kind
           o == Opening(kind)
           c == Closing(kind)
           t == f.g.text
<1>1. t \in Seq(Token) BY FrameTexts DEF TextsOf
<1>2. o \in Token /\ c \in Token BY Tokens DEF Opening, Closing, Structure
<1>3. Container(kind, f.g).text = Append(<<o>> \o t, c) BY DEF Container
<1> HIDE DEF o, c, t, kind
<1>4. ASSUME NEW s \in Seq(Token), f.pre = Append(s, o)
      PROVE  s \o Container(kind, f.g).text = Append(f.pre \o t, c)
  <2>1. Opens(s, o, t, c) BY <1>1, <1>2, OpensIt
  <2> QED BY <2>1, <1>3, <1>4 DEF Opens
<1> QED BY <1>3, <1>4 DEF Closes, o, c, t, kind

-----------------------------------------------------------------------------
(* Writing a leaf over a document, and entering one among the kids of n. *)

Over(h, g, e, leaf) ==
  /\ Heap(g) /\ Len(g) = Len(h) /\ g[e] = leaf /\ SameBut(h, g, {e})
  /\ \A n \in 1 .. Len(h) : n # e => g[n] = h[n]

LEMMA OverIs ==
  ASSUME NEW h, Heap(h), NEW e \in 1 .. Len(h), NEW leaf, Fresh(leaf)
  PROVE  Over(h, [h EXCEPT ![e] = leaf], e, leaf)
<1> DEFINE g == [h EXCEPT ![e] = leaf]
<1>1. h \in Seq(Node) /\ KidsNewer(h) BY DEF Heap
<1>2. /\ g \in Seq(Node) /\ Len(g) = Len(h) /\ KidsNewer(g)
      /\ g[e] = leaf /\ \A m \in 1 .. Len(h) : m # e => g[m] = h[m]
  BY <1>1, Overwritten
<1> HIDE DEF g
<1>3. SameBut(h, g, {e})
  <2>1. Len(h) \in Nat BY <1>1
  <2> QED BY <1>2, <2>1 DEF SameBut
<1> QED BY <1>2, <1>3 DEF Over, Heap, g

LEMMA OverTidy ==
  ASSUME NEW h, Tidy(h), NEW e \in 1 .. Len(h), NEW leaf, Fresh(leaf), NEW g, Over(h, g, e, leaf)
  PROVE  Tidy(g)
<1>1. Len(g) = Len(h) /\ g[e] = leaf /\ leaf.kids = <<>> /\ DOMAIN leaf.kids = {}
      /\ \A n \in 1 .. Len(h) : n # e => g[n] = h[n]
  BY DEF Over, Fresh
<1>2. Single(g) BY <1>1 DEF Single, Tidy
<1>3. Keyed(g) BY <1>1 DEF Keyed, Tidy
<1> QED BY <1>2, <1>3 DEF Tidy, Over

EnteredKids(h, g, n, key) ==
  LET l == Len(h[n].kids)
  IN  /\ l \in Nat /\ DOMAIN h[n].kids = 1 .. l /\ DOMAIN g[n].kids = 1 .. l + 1
      /\ g[n].kids[l + 1][1] = key /\ g[n].kids[l + 1][2] = Len(h) + 1
      /\ \A i \in 1 .. l : g[n].kids[i] = h[n].kids[i]

AttachedTo(h, g, n, key, leaf) ==
  /\ Heap(g) /\ Len(g) = Len(h) + 1 /\ g[Len(h) + 1] = leaf /\ SameBut(h, g, {n})
  /\ \A m \in 1 .. Len(h) : m # n => g[m] = h[m]
  /\ g[n].kind = h[n].kind /\ g[n].text = h[n].text /\ EnteredKids(h, g, n, key)

LEMMA AttachedIs ==
  ASSUME NEW h, Heap(h), NEW n \in 1 .. Len(h), NEW key \in Contents \cup {NoKey}, NEW leaf, Fresh(leaf)
  PROVE  AttachedTo(h, Attach(h, n, key, leaf), n, key, leaf)
<1> DEFINE N == Len(h)
           kid == <<key, N + 1>>
           new == Entered(h[n], key, N + 1)
           g0 == [h EXCEPT ![n] = new]
           g == Attach(h, n, key, leaf)
           ks == h[n].kids
<1>1. h \in Seq(Node) /\ KidsNewer(h) /\ N \in Nat /\ h[n] \in Node BY DEF Heap
<1>2. g \in Seq(Node) /\ Len(g) = N + 1 /\ KidsNewer(g) /\ g[N + 1] = leaf
  <2> HIDE DEF g, N
  <2>1. LET f == Attach(h, n, key, leaf) IN
        f \in Seq(Node) /\ Len(f) = Len(h) + 1 /\ KidsNewer(f) /\ f[Len(h) + 1] = leaf
    BY <1>1, Attached
  <2> QED BY <2>1 DEF g, N
<1>3. g = Append(g0, leaf) BY DEF Attach
<1>4. new.kind = h[n].kind /\ new.text = h[n].text /\ new.kids = Append(ks, kid)
  BY DEF Entered
<1>5. ks \in Seq(Kid) /\ Len(ks) \in Nat /\ DOMAIN ks = 1 .. Len(ks)
  <2>1. KidsFit(h, n) BY KidsDo
  <2> QED BY <2>1 DEF KidsFit
<1>6. kid \in Kid /\ kid[1] = key /\ kid[2] = N + 1 BY <1>1 DEF Kid
<1> HIDE DEF ks, kid, new, N
<1>7. DOMAIN h = 1 .. N BY <1>1 DEF N
<1>8. DOMAIN g0 = 1 .. N /\ Len(g0) = N /\ g0[n] = new /\ \A m \in 1 .. N : m # n => g0[m] = h[m]
  <2>1. n \in 1 .. N BY DEF N
  <2> QED BY <1>1, <1>7, <2>1 DEF N
<1>9. \A m \in 1 .. N : g[m] = g0[m]
  <2>1. g0 \in Seq(Node \cup {new}) BY <1>1 DEF N
  <2> DEFINE S == (Node \cup {new}) \cup {leaf}
  <2>2. g0 \in Seq(S) /\ leaf \in S
    <3>1. Node \cup {new} \subseteq S OBVIOUS
    <3> HIDE DEF S, g0
    <3>2. g0 \in Seq(S) BY <2>1, <3>1, SeqMonotonic
    <3> QED BY <3>2 DEF S
  <2> HIDE DEF S, g0, g
  <2>3. \A i \in 1 .. Len(g0) : Append(g0, leaf)[i] = g0[i] BY <2>2, Appending
  <2> QED BY <2>3, <1>3, <1>8
<1> HIDE DEF g0, g
<1>10. g[n] = new
  <2>1. n \in 1 .. N BY DEF N
  <2> QED BY <2>1, <1>8, <1>9
<1>11. \A m \in 1 .. N : m # n => g[m] = h[m] BY <1>8, <1>9
<1>12. /\ Len(Append(ks, kid)) = Len(ks) + 1 /\ Append(ks, kid)[Len(ks) + 1] = kid
       /\ Append(ks, kid) \in Seq(Kid) /\ \A i \in 1 .. Len(ks) : Append(ks, kid)[i] = ks[i]
  BY <1>5, <1>6, Appending
<1>13. DOMAIN Append(ks, kid) = 1 .. Len(ks) + 1 BY <1>12
<1>14. EnteredKids(h, g, n, key)
  BY <1>4, <1>5, <1>6, <1>10, <1>12, <1>13 DEF EnteredKids, ks, N
<1>15. SameBut(h, g, {n})
  <2>1. Len(h) = N /\ N <= Len(g) BY <1>1, <1>2 DEF N
  <2> QED BY <2>1, <1>11 DEF SameBut
<1>16. g[n].kind = h[n].kind /\ g[n].text = h[n].text BY <1>4, <1>10
<1> QED BY <1>2, <1>11, <1>14, <1>15, <1>16 DEF AttachedTo, Heap, N, g

(* The key a new kid may have. *)
NewKey(h, n, key) ==
  /\ key \in Contents \cup {NoKey}
  /\ h[n].kind = "array" => key = NoKey
  /\ h[n].kind = "object" => key \in Contents /\ \A i \in DOMAIN h[n].kids : h[n].kids[i][1] # key

LEMMA AttachTidy ==
  ASSUME NEW h, Tidy(h), NEW n \in 1 .. Len(h), NEW key, NewKey(h, n, key), NEW leaf, Fresh(leaf),
         NEW g, AttachedTo(h, g, n, key, leaf)
  PROVE  Tidy(g)
<1> DEFINE N == Len(h)
           l == Len(h[n].kids)
<1>1. N \in Nat /\ l \in Nat /\ Len(g) = N + 1 /\ g[N + 1] = leaf /\ DOMAIN leaf.kids = {}
      /\ DOMAIN h[n].kids = 1 .. l /\ DOMAIN g[n].kids = 1 .. l + 1 /\ n \in 1 .. N
      /\ (\A m \in 1 .. N : m # n => g[m] = h[m]) /\ g[n].kind = h[n].kind
      /\ g[n].kids[l + 1][1] = key /\ g[n].kids[l + 1][2] = N + 1
      /\ \A i \in 1 .. l : g[n].kids[i] = h[n].kids[i]
  BY DEF AttachedTo, EnteredKids, Fresh, Tidy, Heap
<1>2. \A m \in 1 .. N : \A i \in DOMAIN h[m].kids : h[m].kids[i][2] # N + 1
  <2> SUFFICES ASSUME NEW m \in 1 .. N, NEW i \in DOMAIN h[m].kids PROVE h[m].kids[i][2] # N + 1
    OBVIOUS
  <2>1. h[m].kids[i][2] \in m + 1 .. N BY KidsDo DEF KidsFit, Tidy
  <2> HIDE DEF N
  <2> QED BY <2>1, <1>1, SMTT(60)
<1> HIDE DEF N, l
<1>3. \A m \in 1 .. N + 1 : \A i \in DOMAIN g[m].kids :
        m \in 1 .. N /\ \/ i \in DOMAIN h[m].kids /\ g[m].kids[i] = h[m].kids[i]
                        \/ m = n /\ i = l + 1
  <2> SUFFICES ASSUME NEW m \in 1 .. N + 1, NEW i \in DOMAIN g[m].kids
               PROVE  m \in 1 .. N /\ \/ i \in DOMAIN h[m].kids /\ g[m].kids[i] = h[m].kids[i]
                                      \/ m = n /\ i = l + 1
    OBVIOUS
  <2>1. m \in 1 .. N
    <3>1. m # N + 1 BY <1>1
    <3> QED BY <3>1, <1>1
  <2>2. CASE m # n BY <2>1, <2>2, <1>1
  <2>3. CASE m = n
    <3>1. i \in 1 .. l + 1 BY <2>3, <1>1
    <3>2. i = l + 1 \/ i \in 1 .. l BY <3>1, <1>1
    <3> QED BY <3>2, <2>1, <2>3, <1>1
  <2> QED BY <2>2, <2>3
<1>4. Single(g)
  <2> SUFFICES ASSUME NEW a \in 1 .. N + 1, NEW b \in 1 .. N + 1,
                      NEW i \in DOMAIN g[a].kids, NEW j \in DOMAIN g[b].kids,
                      g[a].kids[i][2] = g[b].kids[j][2]
               PROVE  a = b /\ i = j
    BY <1>1 DEF Single
  <2>1. a \in 1 .. N /\ ((i \in DOMAIN h[a].kids /\ g[a].kids[i] = h[a].kids[i]) \/ (a = n /\ i = l + 1))
    BY <1>3
  <2>2. b \in 1 .. N /\ ((j \in DOMAIN h[b].kids /\ g[b].kids[j] = h[b].kids[j]) \/ (b = n /\ j = l + 1))
    BY <1>3
  <2>3. CASE i \in DOMAIN h[a].kids /\ g[a].kids[i] = h[a].kids[i] /\ j \in DOMAIN h[b].kids /\ g[b].kids[j] = h[b].kids[j]
    BY <2>1, <2>2, <2>3 DEF Tidy, Single, N
  <2>4. CASE a = n /\ i = l + 1
    <3>1. g[b].kids[j][2] = N + 1 BY <2>4, <1>1
    <3> QED BY <3>1, <2>2, <2>4, <1>2
  <2>5. CASE b = n /\ j = l + 1
    <3>1. g[a].kids[i][2] = N + 1 BY <2>5, <1>1
    <3> QED BY <3>1, <2>1, <2>5, <1>2
  <2> QED BY <2>1, <2>2, <2>3, <2>4, <2>5
<1>5. Keyed(g)
  <2> SUFFICES ASSUME NEW m \in 1 .. N + 1
               PROVE  /\ g[m].kind = "array" => \A i \in DOMAIN g[m].kids : g[m].kids[i][1] = NoKey
                      /\ g[m].kind = "object" => \A i, j \in DOMAIN g[m].kids :
                           g[m].kids[i][1] \in Contents /\ (g[m].kids[i][1] = g[m].kids[j][1] => i = j)
    BY <1>1 DEF Keyed
  <2>1. CASE m \notin 1 .. N
    <3>1. DOMAIN g[m].kids = {} BY <2>1, <1>3
    <3> QED BY <3>1
  <2>2. CASE m \in 1 .. N /\ m # n BY <2>2, <1>1 DEF Tidy, Keyed, N
  <2>3. CASE m = n
    <3>1. ASSUME g[m].kind = "array", NEW i \in DOMAIN g[m].kids PROVE g[m].kids[i][1] = NoKey
      <4>1. h[n].kind = "array" /\ key = NoKey BY <2>3, <3>1, <1>1 DEF NewKey
      <4>2. i \in DOMAIN h[n].kids => h[n].kids[i][1] = NoKey
        BY <4>1, <1>1 DEF Tidy, Keyed, N
      <4> QED BY <4>1, <4>2, <2>3, <1>1, <1>3
    <3>2. ASSUME g[m].kind = "object", NEW i \in DOMAIN g[m].kids, NEW j \in DOMAIN g[m].kids
          PROVE  g[m].kids[i][1] \in Contents /\ (g[m].kids[i][1] = g[m].kids[j][1] => i = j)
      <4>1. h[n].kind = "object" /\ key \in Contents /\ \A p \in DOMAIN h[n].kids : h[n].kids[p][1] # key
        BY <2>3, <3>2, <1>1 DEF NewKey
      <4>2. \A p, q \in DOMAIN h[n].kids : h[n].kids[p][1] \in Contents /\ (h[n].kids[p][1] = h[n].kids[q][1] => p = q)
        BY <4>1, <1>1 DEF Tidy, Keyed, N
      <4>3. (i \in DOMAIN h[n].kids /\ g[n].kids[i] = h[n].kids[i]) \/ i = l + 1
        BY <2>3, <1>3
      <4>4. (j \in DOMAIN h[n].kids /\ g[n].kids[j] = h[n].kids[j]) \/ j = l + 1
        BY <2>3, <1>3
      <4> QED BY <4>1, <4>2, <4>3, <4>4, <2>3, <1>1, SMTT(60)
    <3> QED BY <3>1, <3>2
  <2> QED BY <2>1, <2>2, <2>3
<1> QED BY <1>4, <1>5 DEF Tidy, AttachedTo

-----------------------------------------------------------------------------
(* Document m is the kid of n for which the kids of n become With(ks, key, *)
(* x) when it comes to denote x. *)
SlotAt(h, n, ks, key, m, j) ==
  /\ j \in DOMAIN h[n].kids /\ h[n].kids[j][1] = key /\ h[n].kids[j][2] = m
  /\ \A x : [KidsOf(h, n) EXCEPT ![j] = <<key, x>>] = With(ks, key, x)

Slot(h, n, ks, key, m) == \E j : SlotAt(h, n, ks, key, m, j)

Settled(h, n, ks, key, m) == KidsOf(h, n) = With(ks, key, Denotes(h)[m])

LEMMA Settles ==
  ASSUME NEW h, NEW n, NEW ks, NEW key, NEW m, Slot(h, n, ks, key, m)
  PROVE  Settled(h, n, ks, key, m)
<1> PICK j : SlotAt(h, n, ks, key, m, j) BY SMTT(60) DEF Slot
<1> DEFINE f == KidsOf(h, n)
           x == Denotes(h)[m]
<1>1. f[j] = <<key, x>> /\ f = [i \in DOMAIN f |-> f[i]] BY DEF SlotAt, KidsOf
<1>2. [f EXCEPT ![j] = <<key, x>>] = With(ks, key, x) BY DEF SlotAt
<1> HIDE DEF f, x
<1>3. [f EXCEPT ![j] = <<key, x>>] = f BY <1>1
<1> QED BY <1>2, <1>3 DEF Settled, f, x

(* The other kids denote the same. *)
OthersSame(h, g, n, m) ==
  /\ g[n].kids = h[n].kids
  /\ \A i \in DOMAIN h[n].kids : h[n].kids[i][2] # m => Denotes(g)[h[n].kids[i][2]] = Denotes(h)[h[n].kids[i][2]]

LEMMA SlotSame ==
  ASSUME NEW h, Single(h), NEW g, NEW n \in 1 .. Len(h), NEW m, OthersSame(h, g, n, m),
         NEW ks, NEW key, Slot(h, n, ks, key, m)
  PROVE  Slot(g, n, ks, key, m)
<1> PICK j : SlotAt(h, n, ks, key, m, j) BY DEF Slot
<1>1. ASSUME NEW i \in DOMAIN h[n].kids, i # j PROVE KidsOf(g, n)[i] = KidsOf(h, n)[i]
  <2>1. h[n].kids[i][2] # m BY <1>1, SMTT(60) DEF SlotAt, Single
  <2> QED BY <2>1, <1>1 DEF KidsOf, OthersSame
<1> DEFINE D == DOMAIN h[n].kids
           a == KidsOf(h, n)
           b == KidsOf(g, n)
<1>2. a = [i \in D |-> a[i]] /\ b = [i \in D |-> b[i]] BY DEF KidsOf, OthersSame
<1>3. \A i \in D : i # j => b[i] = a[i] BY <1>1
<1> HIDE DEF a, b, D
<1>4. ASSUME NEW y PROVE [b EXCEPT ![j] = y] = [a EXCEPT ![j] = y]
  <2> DEFINE c == [a EXCEPT ![j] = y]
             d == [b EXCEPT ![j] = y]
  <2>1. c = [i \in D |-> c[i]] /\ d = [i \in D |-> d[i]] BY <1>2
  <2>2. \A i \in D : c[i] = d[i] BY <1>2, <1>3
  <2> HIDE DEF c, d
  <2>3. c = d BY <2>1, <2>2
  <2> QED BY <2>3 DEF c, d
<1>5. ASSUME NEW x PROVE [KidsOf(g, n) EXCEPT ![j] = <<key, x>>] = With(ks, key, x)
  <2> DEFINE y == <<key, x>>
  <2>1. [a EXCEPT ![j] = y] = With(ks, key, x) BY DEF SlotAt, a
  <2> HIDE DEF y
  <2>2. [b EXCEPT ![j] = y] = With(ks, key, x) BY <2>1, <1>4
  <2> QED BY <2>2 DEF y, b
<1>6. SlotAt(g, n, ks, key, m, j) BY <1>5 DEF SlotAt, OthersSame
<1> QED BY <1>6 DEF Slot

(* Only the last document of a line is written: the line stays, and so do *)
(* the slots along it. *)
KidsSame(h, g, n) ==
  \A i \in DOMAIN h[n].kids : Denotes(g)[h[n].kids[i][2]] = Denotes(h)[h[n].kids[i][2]]

Lined(h, g, Q, k) ==
  /\ \A i \in 1 .. k : i < k => OthersSame(h, g, Q[i], Q[i + 1])
  /\ KidsSame(h, g, Q[k])

LEMMA LineKept ==
  ASSUME NEW h, Tidy(h), NEW g, Heap(g), NEW Q, NEW k, Line(h, Q, k), SameBut(h, g, {Q[k]})
  PROVE  Line(g, Q, k) /\ Lined(h, g, Q, k)
<1> DEFINE A == Nodes(Q, k)
<1>0. k \in Nat /\ k \in 1 .. k /\ Len(h) \in Nat /\ Len(g) \in Nat /\ Len(h) <= Len(g)
  BY DEF Line, SameBut, Tidy, Heap
<1>1. ParentsIn(h, A) BY LineClosed
<1>2. SameBut(h, g, A)
  <2>1. Q[k] \in A BY <1>0 DEF Nodes
  <2> HIDE DEF A
  <2> QED BY <2>1 DEF SameBut
<1>3. SameOutside(h, g, A)
  <2> HIDE DEF A
  <2> QED BY <1>1, <1>2, OutsideSame DEF Tidy
<1>4. \A i \in 1 .. k : Q[i] \in 1 .. Len(h) BY DEF Line
<1>5. \A i, j \in 1 .. k : i < j => Q[i] < Q[j] BY DEF Line
<1>6. ASSUME NEW i \in 1 .. k, i < k PROVE g[Q[i]] = h[Q[i]]
  <2>1. Q[i] < Q[k] /\ Q[i] \in 1 .. Len(h) BY <1>0, <1>4, <1>5, <1>6
  <2>2. Q[i] # Q[k] BY <2>1
  <2> QED BY <2>1, <2>2 DEF SameBut
<1>7. Line(g, Q, k)
  <2>1. ASSUME NEW i \in 1 .. k, i < k PROVE Step1(g, Q, i)
    <3>1. Step1(h, Q, i) BY <2>1 DEF Line
    <3> QED BY <3>1, <1>6, <2>1 DEF Step1
  <2>2. \A i \in 1 .. k : Q[i] \in 1 .. Len(g) BY <1>0, <1>4
  <2> QED BY <2>1, <2>2 DEF Line
<1>8. ASSUME NEW i \in 1 .. k, NEW p \in DOMAIN h[Q[i]].kids, i < k => h[Q[i]].kids[p][2] # Q[i + 1]
      PROVE  Denotes(g)[h[Q[i]].kids[p][2]] = Denotes(h)[h[Q[i]].kids[p][2]]
  <2> DEFINE c == h[Q[i]].kids[p][2]
             n == Q[i]
  <2>1. n \in 1 .. Len(h) /\ n \in Nat BY <1>4
  <2>2. c \in 1 .. Len(h)
    <3>1. KidsFit(h, n) BY <2>1, KidsDo DEF Tidy
    <3>2. c \in n + 1 .. Len(h) BY <3>1 DEF KidsFit
    <3> HIDE DEF c, n
    <3> QED BY <2>1, <3>2
  <2>3. ComesFrom(h, Q, k, n, p) BY <2>1, ComesFromAbove
  <2>4. c \notin A
    <3>1. SUFFICES ASSUME c \in A PROVE FALSE OBVIOUS
    <3> PICK l \in 1 .. k : c = Q[l] BY <3>1 DEF Nodes
    <3>2. l - 1 \in 1 .. k /\ l - 1 < k /\ Q[i] = Q[l - 1] /\ l \in Nat
      BY <2>3 DEF ComesFrom
    <3> DEFINE e == l - 1
    <3>3. e \in 1 .. k /\ Q[i] = Q[e] /\ e + 1 = l /\ e < k BY <3>2
    <3>4. Q[i] \in Nat /\ Q[e] \in Nat /\ i \in Nat /\ e \in Nat BY <3>3, <1>4
    <3> HIDE DEF e
    <3>5. i = e
      <4>1. ~(i < e) /\ ~(e < i) BY <3>3, <3>4, <1>5
      <4> QED BY <4>1, <3>4
    <3> QED BY <1>8, <3>3, <3>5
  <2> HIDE DEF c
  <2>5. Denotes(g)[c] = Denotes(h)[c] BY <2>2, <2>4, <1>3 DEF SameOutside
  <2> QED BY <2>5 DEF c
<1>9. ASSUME NEW i \in 1 .. k, i < k PROVE OthersSame(h, g, Q[i], Q[i + 1])
  BY <1>6, <1>8, <1>9 DEF OthersSame
<1>10. KidsSame(h, g, Q[k]) BY <1>0, <1>8 DEF KidsSame
<1> QED BY <1>7, <1>9, <1>10 DEF Lined

(* A line goes on with a kid of its last document. *)
LEMMA LineDown ==
  ASSUME NEW h, Heap(h), NEW Q, NEW k, Line(h, Q, k), NEW e,
         \E j \in DOMAIN h[Q[k]].kids : h[Q[k]].kids[j][2] = e,
         NEW R, \A i \in 1 .. k : R[i] = Q[i], R[k + 1] = e
  PROVE  Line(h, R, k + 1)
<1>1. k \in Nat /\ k # 0 /\ k \in 1 .. k /\ k + 1 \in Nat /\ k + 1 # 0 /\ 1 \in 1 .. k
  BY DEF Line
<1>2. Q[k] \in 1 .. Len(h) /\ Len(h) \in Nat BY <1>1 DEF Line, Heap
<1>3. e \in Q[k] + 1 .. Len(h) BY <1>2, KidsDo DEF KidsFit
<1>4. R[1] = 1 BY <1>1 DEF Line
<1>5. ASSUME NEW i \in 1 .. k + 1 PROVE R[i] \in 1 .. Len(h)
  <2>1. CASE i \in 1 .. k BY <2>1 DEF Line
  <2>2. CASE i = k + 1 BY <2>2, <1>2, <1>3
  <2> QED BY <1>1, <2>1, <2>2
<1>6. ASSUME NEW i \in 1 .. k PROVE Q[i] < e
  <2>1. Q[i] \in Nat /\ (i < k => Q[i] < Q[k]) BY <1>1 DEF Line
  <2>2. i < k \/ i = k BY <1>1
  <2> QED BY <2>1, <2>2, <1>2, <1>3
<1>7. ASSUME NEW i \in 1 .. k + 1, NEW j \in 1 .. k + 1, i < j PROVE R[i] < R[j]
  <2>1. i \in 1 .. k BY <1>1, <1>7
  <2>2. CASE j = k + 1 BY <2>1, <2>2, <1>6
  <2>3. CASE j \in 1 .. k BY <2>1, <2>3, <1>7 DEF Line
  <2> QED BY <1>1, <2>2, <2>3
<1>8. ASSUME NEW i \in 1 .. k + 1, i < k + 1 PROVE Step1(h, R, i)
  <2>1. i \in 1 .. k BY <1>1, <1>8
  <2>2. CASE i = k BY <2>2, <2>1 DEF Step1
  <2>3. CASE i < k
    <3>1. Step1(h, Q, i) /\ i + 1 \in 1 .. k BY <2>1, <2>3, <1>1 DEF Line
    <3> QED BY <3>1, <2>1 DEF Step1
  <2> QED BY <2>1, <2>2, <2>3, <1>1
<1> QED BY <1>1, <1>4, <1>5, <1>7, <1>8 DEF Line

(* A new kid gets a slot of its own, behind the others. *)
LEMMA SlotNew ==
  ASSUME NEW h, Heap(h), NEW n \in 1 .. Len(h), NEW key, NEW leaf, NEW g, AttachedTo(h, g, n, key, leaf),
         KidsSame(h, g, n), key = NoKey \/ \A i \in DOMAIN h[n].kids : h[n].kids[i][1] # key
  PROVE  Slot(g, n, KidsOf(h, n), key, Len(h) + 1)
<1> DEFINE ks == KidsOf(h, n)
           fs == KidsOf(g, n)
           l == Len(h[n].kids)
           j == l + 1
<1>1. /\ l \in Nat /\ DOMAIN h[n].kids = 1 .. l /\ DOMAIN g[n].kids = 1 .. j
      /\ g[n].kids[j][1] = key /\ g[n].kids[j][2] = Len(h) + 1
      /\ \A i \in 1 .. l : g[n].kids[i] = h[n].kids[i]
  BY SMTT(60) DEF AttachedTo, EnteredKids
<1>2. ks = [i \in 1 .. l |-> ks[i]] /\ fs = [i \in 1 .. j |-> fs[i]]
  BY <1>1 DEF KidsOf
<1>3. ASSUME NEW i \in 1 .. l PROVE fs[i] = ks[i] /\ ks[i][1] = h[n].kids[i][1]
  <2>1. i \in 1 .. j BY <1>1
  <2> HIDE DEF l, j
  <2> QED BY <2>1, <1>1 DEF KidsOf, KidsSame
<1>4. ASSUME NEW x PROVE [fs EXCEPT ![j] = <<key, x>>] = With(ks, key, x)
  <2> DEFINE y == <<key, x>>
             S == {ks[i] : i \in 1 .. l}
  <2>1. With(ks, key, x) = Append(ks, y)
    <3>1. \A i \in 1 .. l : key = NoKey \/ ks[i][1] # key BY <1>1, <1>3
    <3>2. DOMAIN ks = 1 .. l BY <1>2
    <3> HIDE DEF ks, l
    <3> QED BY <3>1, <3>2 DEF With
  <2> HIDE DEF y
  <2>2. Long(ks, l)
    <3>1. \A i \in 1 .. l : ks[i] \in S OBVIOUS
    <3> HIDE DEF S, ks, l
    <3>2. ks \in [1 .. l -> S] BY <1>2, <3>1
    <3>3. ks \in Seq(S) /\ Len(ks) = l BY <3>2, <1>1
    <3> QED BY <3>3, <1>1 DEF Long
  <2> HIDE DEF ks, l
  <2>3. Longest(ks, l, y) BY <2>2, Lengthens
  <2> DEFINE a == Append(ks, y)
             b == [fs EXCEPT ![j] = y]
  <2>4. Long(a, j) /\ DOMAIN a = 1 .. j /\ a[j] = y /\ \A i \in 1 .. l : a[i] = ks[i]
    BY <2>3 DEF Longest
  <2>5. a = [i \in 1 .. j |-> a[i]]
    <3> HIDE DEF a, j
    <3> PICK T : a \in Seq(T) /\ Len(a) = j BY <2>4 DEF Long
    <3>1. a \in [1 .. j -> T] BY LenProperties
    <3> QED BY <3>1
  <2>6. b = [i \in 1 .. j |-> b[i]] /\ b[j] = y /\ \A i \in 1 .. l : b[i] = ks[i]
    <3>1. j \in 1 .. j /\ \A i \in 1 .. l : i \in 1 .. j /\ i # j BY <1>1
    <3> HIDE DEF fs, j
    <3> QED BY <3>1, <1>2, <1>3
  <2>7. \A i \in 1 .. j : a[i] = b[i]
    <3>1. \A i \in 1 .. j : i = j \/ i \in 1 .. l BY <1>1
    <3> HIDE DEF a, b, j
    <3> QED BY <3>1, <2>4, <2>6
  <2>8. a = b
    <3> HIDE DEF a, b, j
    <3> QED BY <2>5, <2>6, <2>7
  <2> QED BY <2>1, <2>8 DEF y
<1>5. j \in DOMAIN g[n].kids BY <1>1
<1>6. SlotAt(g, n, ks, key, Len(h) + 1, j)
  <2> HIDE DEF ks, j
  <2> QED BY <1>1, <1>4, <1>5 DEF SlotAt
<1> QED BY <1>6 DEF Slot

(* A kid of an object has the slot of its key. *)
LEMMA SlotHad ==
  ASSUME NEW h, Tidy(h), NEW n \in 1 .. Len(h), h[n].kind = "object", NEW j \in DOMAIN h[n].kids
  PROVE  Slot(h, n, KidsOf(h, n), h[n].kids[j][1], h[n].kids[j][2])
<1> DEFINE ks == KidsOf(h, n)
           D == DOMAIN h[n].kids
           key == h[n].kids[j][1]
<1>1. key \in Contents /\ key # NoKey /\ \A i \in D : h[n].kids[i][1] = key => i = j
  BY KeyAssumption DEF Tidy, Keyed
<1>2. ks = [i \in D |-> ks[i]] /\ DOMAIN ks = D /\ \A i \in D : ks[i][1] = h[n].kids[i][1]
  BY DEF KidsOf
<1> HIDE DEF ks
<1>3. j \in D /\ \A i \in D : ks[i][1] = key <=> i = j BY <1>1, <1>2
<1> HIDE DEF D, key
<1>4. ASSUME NEW x PROVE [ks EXCEPT ![j] = <<key, x>>] = With(ks, key, x)
  <2> DEFINE y == <<key, x>>
             a == [ks EXCEPT ![j] = y]
             b == [i \in DOMAIN ks |-> IF ks[i][1] = key THEN y ELSE ks[i]]
  <2>1. With(ks, key, x) = b BY <1>1, <1>2, <1>3 DEF With
  <2> HIDE DEF y
  <2>2. a = [i \in D |-> a[i]] /\ b = [i \in D |-> b[i]] BY <1>2
  <2>3. \A i \in D : a[i] = b[i] BY <1>2, <1>3
  <2>4. a = b
    <3> HIDE DEF a, b
    <3> QED BY <2>2, <2>3
  <2> QED BY <2>1, <2>4 DEF y
<1>5. SlotAt(h, n, ks, key, h[n].kids[j][2], j) BY <1>4 DEF SlotAt, ks, key
<1> QED BY <1>5 DEF Slot, ks, key

(* A document with nothing nested in it. *)
Alone(h, n) == KidsOf(h, n) = <<>> /\ Denotes(h)[n] = h[n]

LEMMA FreshAlone ==
  ASSUME NEW h, Heap(h), NEW n \in 1 .. Len(h), Fresh(h[n])
  PROVE  Alone(h, n)
<1>1. h[n].kids = <<>> /\ DOMAIN h[n].kids = {} BY DEF Fresh
<1>2. KidsOf(h, n) = <<>> BY <1>1 DEF KidsOf
<1>3. Denoting(h, n) BY DenotesIs
<1>4. h[n] \in Node BY DEF Fresh
<1>5. h[n] = [kind |-> h[n].kind, text |-> h[n].text, kids |-> h[n].kids]
  BY <1>4 DEF Node
<1> QED BY <1>1, <1>2, <1>3, <1>5 DEF Alone, Denoting

-----------------------------------------------------------------------------
(* What is open, from the root down: document Q[i] with frame F[i]. *)
Linked(h, n, m, f, e) ==
  /\ KeyOk(h[n].kind, f.key) /\ Slot(h, n, f.g.kids, f.key, m)
  /\ e.pre = Append(Begun(f), Opening(h[m].kind))

Framed(h, Q, F, i) == Frame(h, Q[i], F[i]) /\ F[i].g.nest + i <= MaxDepth + 1

Levels(h, Q, F, k) ==
  /\ Line(h, Q, k)
  /\ \A i \in 1 .. k : Framed(h, Q, F, i)
  /\ \A i \in 1 .. k : i < k => Linked(h, Q[i], Q[i + 1], F[i], F[i + 1])
  /\ F[1].pre = <<Opening(h[1].kind)>>

(* What keeps the levels: the open documents stay what they are, and all *)
(* that is nested in them outside the line denotes the same. *)
KeepsLevels(h, g, Q, k) ==
  /\ Line(g, Q, k)
  /\ \A i \in 1 .. k : g[Q[i]].kind = h[Q[i]].kind /\ g[Q[i]].text = h[Q[i]].text
  /\ \A i \in 1 .. k : i < k => OthersSame(h, g, Q[i], Q[i + 1])

LEMMA LevelsKept ==
  ASSUME NEW h, Tidy(h), NEW g, NEW Q, NEW F, NEW k, Levels(h, Q, F, k), KeepsLevels(h, g, Q, k)
  PROVE  Levels(g, Q, F, k)
<1>1. \A i \in 1 .. k : Q[i] \in 1 .. Len(h) BY DEF Levels, Line
<1>2. ASSUME NEW i \in 1 .. k PROVE Framed(g, Q, F, i)
  <2>1. Framed(h, Q, F, i) BY DEF Levels
  <2> QED BY <2>1 DEF Framed, Frame, KeepsLevels
<1>3. ASSUME NEW i \in 1 .. k, i < k PROVE Linked(g, Q[i], Q[i + 1], F[i], F[i + 1])
  <2>1. Linked(h, Q[i], Q[i + 1], F[i], F[i + 1]) BY <1>3 DEF Levels
  <2>2. OthersSame(h, g, Q[i], Q[i + 1]) /\ Q[i] \in 1 .. Len(h) /\ Single(h)
    BY <1>1, <1>3 DEF KeepsLevels, Tidy
  <2>3. Slot(h, Q[i], F[i].g.kids, F[i].key, Q[i + 1]) BY <2>1 DEF Linked
  <2>4. Slot(g, Q[i], F[i].g.kids, F[i].key, Q[i + 1]) BY <2>2, <2>3, SlotSame
  <2>5. i + 1 \in 1 .. k BY <1>3 DEF Levels, Line
  <2> QED BY <2>1, <2>4, <2>5 DEF Linked, KeepsLevels
<1>4. g[1].kind = h[1].kind
  <2>1. 1 \in 1 .. k /\ Q[1] = 1 BY DEF Levels, Line
  <2> QED BY <2>1 DEF KeepsLevels
<1> QED BY <1>2, <1>3, <1>4 DEF Levels, KeepsLevels

(* A kid is entered in the last one. *)
LEMMA LevelsAttach ==
  ASSUME NEW h, Tidy(h), NEW Q, NEW F, NEW k, Levels(h, Q, F, k), NEW key, NEW leaf, NEW g,
         AttachedTo(h, g, Q[k], key, leaf)
  PROVE  Levels(g, Q, F, k) /\ KidsSame(h, g, Q[k])
<1>1. Line(h, Q, k) /\ Heap(g) /\ SameBut(h, g, {Q[k]})
  BY DEF Levels, AttachedTo
<1>2. Line(g, Q, k) /\ Lined(h, g, Q, k) BY <1>1, LineKept
<1>3. ASSUME NEW i \in 1 .. k PROVE g[Q[i]].kind = h[Q[i]].kind /\ g[Q[i]].text = h[Q[i]].text
  <2>1. Q[i] \in 1 .. Len(h) BY <1>1 DEF Line
  <2> QED BY <2>1 DEF AttachedTo
<1>4. KeepsLevels(h, g, Q, k) BY <1>2, <1>3 DEF KeepsLevels, Lined
<1> QED BY <1>2, <1>4, LevelsKept DEF Lined

(* A kid of the last one is overwritten. *)
LEMMA LevelsOver ==
  ASSUME NEW h, Tidy(h), NEW Q, NEW F, NEW k, Levels(h, Q, F, k), NEW e, NEW leaf, NEW g,
         \E j \in DOMAIN h[Q[k]].kids : h[Q[k]].kids[j][2] = e, Over(h, g, e, leaf)
  PROVE  Levels(g, Q, F, k) /\ OthersSame(h, g, Q[k], e) /\ g[Q[k]] = h[Q[k]]
<1> DEFINE K == k + 1
           R == [i \in 1 .. K |-> IF i = K THEN e ELSE Q[i]]
<1>0. k \in Nat /\ k # 0 /\ Line(h, Q, k) /\ Heap(h) /\ Heap(g) /\ SameBut(h, g, {e})
  BY DEF Levels, Line, Tidy, Over
<1>1. (\A i \in 1 .. k : R[i] = Q[i]) /\ R[K] = e /\ R[k + 1] = e BY <1>0
<1> HIDE DEF R
<1>2. Line(h, R, K) BY <1>0, <1>1, LineDown
<1>3. Line(g, R, K) /\ Lined(h, g, R, K) BY <1>0, <1>1, <1>2, LineKept
<1>4. \A i \in 1 .. k : i \in 1 .. K /\ i < K /\ (i < k => i + 1 \in 1 .. k)
  BY <1>0
<1> HIDE DEF K
<1>5. ASSUME NEW i \in 1 .. k PROVE OthersSame(h, g, R[i], R[i + 1])
  BY <1>3, <1>4 DEF Lined
<1>6. ASSUME NEW i \in 1 .. k PROVE g[Q[i]] = h[Q[i]]
  <2>1. R[i] < R[K] /\ R[i] = Q[i] /\ R[K] = e /\ Q[i] \in 1 .. Len(h)
    <3>1. i \in 1 .. K /\ K \in 1 .. K /\ i < K BY <1>4, <1>0 DEF K
    <3> QED BY <3>1, <1>0, <1>1, <1>2 DEF Line
  <2>2. Q[i] # e BY <2>1
  <2> QED BY <2>1, <2>2 DEF Over
<1>7. Line(g, Q, k)
  <2>1. \A i \in 1 .. k : i < k => Step1(g, Q, i) BY <1>0, <1>6 DEF Line, Step1
  <2>2. Len(g) = Len(h) BY DEF Over
  <2> QED BY <2>1, <2>2, <1>0 DEF Line
<1>8. KeepsLevels(h, g, Q, k)
  <2>1. ASSUME NEW i \in 1 .. k, i < k PROVE OthersSame(h, g, Q[i], Q[i + 1])
    <3>1. R[i] = Q[i] /\ R[i + 1] = Q[i + 1] BY <2>1, <1>1, <1>4
    <3> QED BY <3>1, <1>5
  <2> QED BY <2>1, <1>6, <1>7 DEF KeepsLevels
<1>9. Levels(g, Q, F, k) BY <1>8, LevelsKept
<1>10. k \in 1 .. k BY <1>0
<1>11. OthersSame(h, g, Q[k], e) BY <1>1, <1>5, <1>10
<1> QED BY <1>6, <1>9, <1>10, <1>11

(* The same levels, by other names. *)
LEMMA LevelsSame ==
  ASSUME NEW h, NEW Q, NEW F, NEW k, Levels(h, Q, F, k), NEW R, NEW G,
         \A i \in 1 .. k : R[i] = Q[i] /\ G[i] = F[i]
  PROVE  Levels(h, R, G, k)
<1>1. k \in Nat /\ 1 \in 1 .. k /\ \A i \in 1 .. k : i < k => i + 1 \in 1 .. k
  BY DEF Levels, Line
<1>2. Line(h, R, k) BY <1>1, ZenonT(60) DEF Levels, Line, Step1
<1>3. \A i \in 1 .. k : Framed(h, R, G, i) BY DEF Levels, Framed
<1>4. \A i \in 1 .. k : i < k => Linked(h, R[i], R[i + 1], G[i], G[i + 1])
  BY <1>1 DEF Levels
<1>5. G[1].pre = <<Opening(h[1].kind)>> BY <1>1 DEF Levels
<1> QED BY <1>2, <1>3, <1>4, <1>5 DEF Levels

(* The last frame has other contents. *)
Topped(F, k, f) == [i \in 1 .. k |-> IF i = k THEN f ELSE F[i]]

LEMMA LevelsTop ==
  ASSUME NEW h, NEW Q, NEW F, NEW k, Levels(h, Q, F, k), NEW f, f.pre = F[k].pre,
         Frame(h, Q[k], f), f.g.nest + k <= MaxDepth + 1
  PROVE  Levels(h, Q, Topped(F, k, f), k) /\ Topped(F, k, f)[k] = f
<1> DEFINE G == Topped(F, k, f)
<1>1. k \in Nat /\ 1 \in 1 .. k /\ k \in 1 .. k /\ \A i \in 1 .. k : i < k => i + 1 \in 1 .. k
  BY DEF Levels, Line
<1>2. G[k] = f /\ \A i \in 1 .. k : (i < k => G[i] = F[i]) /\ G[i].pre = F[i].pre
  BY <1>1 DEF Topped
<1> HIDE DEF G
<1>3. ASSUME NEW i \in 1 .. k PROVE Framed(h, Q, G, i)
  <2>1. CASE i = k BY <2>1, <1>2 DEF Framed
  <2>2. CASE i < k BY <2>2, <1>2 DEF Framed, Levels
  <2> QED BY <2>1, <2>2, <1>1
<1>4. ASSUME NEW i \in 1 .. k, i < k PROVE Linked(h, Q[i], Q[i + 1], G[i], G[i + 1])
  <2>1. Linked(h, Q[i], Q[i + 1], F[i], F[i + 1]) BY <1>4 DEF Levels
  <2>2. G[i] = F[i] /\ G[i + 1].pre = F[i + 1].pre BY <1>1, <1>2, <1>4
  <2> QED BY <2>1, <2>2 DEF Linked
<1>5. Levels(h, Q, G, k) BY <1>1, <1>2, <1>3, <1>4 DEF Levels
<1> QED BY <1>2, <1>5 DEF G

(* A container opens in the last one. *)
Longer1(Q, k, m, R) == (\A i \in 1 .. k : R[i] = Q[i]) /\ R[k + 1] = m

Opened(h, f, m, e) ==
  /\ h[m].kind \in {"object", "array"} /\ h[m].text = ""
  /\ e.pre = Append(Begun(f), Opening(h[m].kind)) /\ e.g = Nothing /\ e.key = NoKey

LEMMA LevelsPush ==
  ASSUME NEW h, Heap(h), NEW Q, NEW F, NEW k, Levels(h, Q, F, k), k <= MaxDepth, NEW m,
         KeyOk(h[Q[k]].kind, F[k].key), Slot(h, Q[k], F[k].g.kids, F[k].key, m),
         NEW R, Longer1(Q, k, m, R), NEW f, Opened(h, F[k], m, f)
  PROVE  Levels(h, R, Topped(F, k + 1, f), k + 1) /\ Topped(F, k + 1, f)[k + 1] = f
<1> DEFINE K == k + 1
           G == Topped(F, K, f)
<1>1. /\ k \in Nat /\ K \in Nat /\ 1 \in 1 .. k /\ k \in 1 .. k /\ K \in 1 .. K
      /\ \A i \in 1 .. K : (i = K \/ i \in 1 .. k) /\ (i < K => i \in 1 .. k) /\ (i \in 1 .. k => i < K /\ i # K)
      /\ \A i \in 1 .. k : i \in 1 .. K /\ (i = k \/ i < k) /\ (i < k => i + 1 \in 1 .. k)
  BY DEF Levels, Line
<1>2. G[K] = f /\ \A i \in 1 .. k : G[i] = F[i] BY <1>1 DEF Topped
<1> HIDE DEF G
<1>3. Line(h, R, K)
  <2>1. \E j \in DOMAIN h[Q[k]].kids : h[Q[k]].kids[j][2] = m
    BY DEF Slot, SlotAt
  <2>2. Line(h, Q, k) BY DEF Levels
  <2>3. (\A i \in 1 .. k : R[i] = Q[i]) /\ R[k + 1] = m BY DEF Longer1
  <2> QED BY <2>1, <2>2, <2>3, LineDown
<1>4. Frame(h, m, f) /\ f.g.nest + K <= MaxDepth + 1
  <2>1. Begun(F[k]) \in Seq(Token)
    <3>1. Frame(h, Q[k], F[k]) BY <1>1 DEF Levels, Framed
    <3>2. BegunTexts(h[Q[k]].kind, F[k]) BY <3>1, BegunIs
    <3> QED BY <3>2 DEF BegunTexts
  <2>2. Opening(h[m].kind) \in Token BY Tokens DEF Opening, Structure
  <2>3. f.pre \in Seq(Token)
    <3> DEFINE s == Begun(F[k])
               o == Opening(h[m].kind)
    <3>1. s \in Seq(Token) /\ o \in Token /\ f.pre = Append(s, o)
      BY <2>1, <2>2, Zenon DEF Opened
    <3> HIDE DEF s, o
    <3> QED BY <3>1, AppendProperties
  <2>4. IsList(h[m].kind, f.g) BY NothingIs DEF Opened
  <2>5. f.g.nest = 0
    <3>1. f.g = Nothing BY Zenon DEF Opened
    <3>2. Nothing.nest = 0 BY DEF Nothing
    <3> QED BY <3>1, <3>2, Zenon
  <2>6. 0 + K <= MaxDepth + 1 BY <1>1, DepthAssumption
  <2> QED BY <2>3, <2>4, <2>5, <2>6 DEF Frame, Opened
<1>5. ASSUME NEW i \in 1 .. K PROVE Framed(h, R, G, i)
  <2>1. CASE i = K BY <2>1, <1>2, <1>4 DEF Framed, Longer1
  <2>2. CASE i \in 1 .. k BY <2>2, <1>2 DEF Framed, Levels, Longer1
  <2> QED BY <2>1, <2>2, <1>1
<1>6. ASSUME NEW i \in 1 .. K, i < K PROVE Linked(h, R[i], R[i + 1], G[i], G[i + 1])
  <2>1. CASE i = k
    <3>1. R[i] = Q[k] /\ R[i + 1] = m /\ G[i] = F[k] /\ G[i + 1] = f
      BY <2>1, <1>1, <1>2 DEF Longer1
    <3> QED BY <3>1 DEF Linked, Opened
  <2>2. CASE i < k
    <3>1. i \in 1 .. k /\ i + 1 \in 1 .. k BY <2>2, <1>1, <1>6
    <3>2. R[i] = Q[i] /\ R[i + 1] = Q[i + 1] /\ G[i] = F[i] /\ G[i + 1] = F[i + 1]
      BY <3>1, <1>2 DEF Longer1
    <3> QED BY <3>1, <3>2, <2>2 DEF Levels
  <2> QED BY <2>1, <2>2, <1>1, <1>6
<1>7. G[1].pre = <<Opening(h[1].kind)>> BY <1>1, <1>2 DEF Levels
<1>8. Levels(h, R, G, K) BY <1>3, <1>5, <1>6, <1>7 DEF Levels
<1> QED BY <1>2, <1>8 DEF G

(* The last container is left. *)
LEMMA LevelsPop ==
  ASSUME NEW h, NEW Q, NEW F, NEW k, Levels(h, Q, F, k), k # 1
  PROVE  /\ Levels(h, Q, F, k - 1) /\ k - 1 \in 1 .. k
         /\ Linked(h, Q[k - 1], Q[k], F[k - 1], F[k])
<1> DEFINE K == k - 1
<1>1. /\ K \in Nat /\ K # 0 /\ K \in 1 .. k /\ K < k /\ K + 1 = k
      /\ \A i \in 1 .. K : i \in 1 .. k /\ (i < K => i < k)
  BY DEF Levels, Line
<1> HIDE DEF K
<1>2. Line(h, Q, K) BY <1>1 DEF Levels, Line
<1>3. Levels(h, Q, F, K) BY <1>1, <1>2 DEF Levels
<1>4. Linked(h, Q[K], Q[K + 1], F[K], F[K + 1]) BY <1>1 DEF Levels
<1> QED BY <1>1, <1>3, <1>4 DEF K

-----------------------------------------------------------------------------
(* A value is about to be written: to e, or as a new element. *)
Ready(h, n, f, e) ==
  /\ KeyOk(h[n].kind, f.key)
  /\ h[n].kind = "array" => KidsOf(h, n) = f.g.kids
  /\ h[n].kind = "object" => Slot(h, n, f.g.kids, f.key, e) /\ h[e] = Leaf("null", "")

PutIn(h, g, Q, F, k, m, leaf) ==
  /\ Tidy(g) /\ Levels(g, Q, F, k) /\ Slot(g, Q[k], F[k].g.kids, F[k].key, m)
  /\ m \in 1 .. Len(g) /\ g[m] = leaf /\ g[Q[k]].kind = h[Q[k]].kind

Fits(h, Q, F, k) == /\ k \in Nat /\ k \in 1 .. k /\ k # 0 /\ Q[k] \in 1 .. Len(h) /\ Frame(h, Q[k], F[k])
                    /\ F[k].g.nest + k <= MaxDepth + 1

LEMMA LevelsFit == ASSUME NEW h, NEW Q, NEW F, NEW k, Levels(h, Q, F, k) PROVE Fits(h, Q, F, k)
<1>1. k \in Nat /\ k \in 1 .. k /\ k # 0 BY DEF Levels, Line
<1> QED BY <1>1 DEF Levels, Line, Framed, Fits

LEMMA PutsOver ==
  ASSUME NEW h, Tidy(h), NEW Q, NEW F, NEW k, Levels(h, Q, F, k), NEW m,
         Slot(h, Q[k], F[k].g.kids, F[k].key, m), NEW leaf, Fresh(leaf)
  PROVE  PutIn(h, [h EXCEPT ![m] = leaf], Q, F, k, m, leaf)
<1> DEFINE g == [h EXCEPT ![m] = leaf]
           n == Q[k]
<1>1. n \in 1 .. Len(h) /\ Heap(h) /\ Single(h) BY LevelsFit DEF Fits, Tidy
<1>2. \E j \in DOMAIN h[n].kids : h[n].kids[j][2] = m BY DEF Slot, SlotAt
<1>3. m \in 1 .. Len(h)
  <2>1. m \in n + 1 .. Len(h) BY <1>1, <1>2, KidsDo DEF KidsFit
  <2> HIDE DEF n
  <2> QED BY <1>1, <2>1
<1>4. Over(h, g, m, leaf) BY <1>1, <1>3, OverIs
<1> HIDE DEF g
<1>5. Tidy(g) BY <1>3, <1>4, OverTidy
<1>6. Levels(g, Q, F, k) /\ OthersSame(h, g, n, m) /\ g[n] = h[n]
  BY <1>2, <1>4, LevelsOver
<1> HIDE DEF n
<1>7. Slot(g, n, F[k].g.kids, F[k].key, m)
  <2>1. Slot(h, n, F[k].g.kids, F[k].key, m) BY DEF n
  <2> QED BY <2>1, <1>1, <1>6, SlotSame
<1>8. m \in 1 .. Len(g) /\ g[m] = leaf BY <1>3, <1>4 DEF Over
<1> QED BY <1>5, <1>6, <1>7, <1>8 DEF PutIn, g, n

LEMMA PutsLast ==
  ASSUME NEW h, Tidy(h), NEW Q, NEW F, NEW k, Levels(h, Q, F, k), KidsOf(h, Q[k]) = F[k].g.kids,
         NewKey(h, Q[k], F[k].key), NEW leaf, Fresh(leaf)
  PROVE  PutIn(h, Attach(h, Q[k], F[k].key, leaf), Q, F, k, Len(h) + 1, leaf)
<1> DEFINE g == Attach(h, Q[k], F[k].key, leaf)
           n == Q[k]
           key == F[k].key
<1>1. n \in 1 .. Len(h) /\ Heap(h) /\ key \in Contents \cup {NoKey} /\ NewKey(h, n, key)
  BY LevelsFit DEF Fits, Tidy, NewKey
<1>2. AttachedTo(h, g, n, key, leaf)
  <2> HIDE DEF n, key
  <2>1. AttachedTo(h, Attach(h, n, key, leaf), n, key, leaf) BY <1>1, AttachedIs
  <2> QED BY <2>1 DEF n, key
<1> HIDE DEF g
<1>3. Levels(g, Q, F, k) /\ KidsSame(h, g, n) BY <1>2, LevelsAttach
<1>4. h[n].kind \in {"object", "array"} BY LevelsFit DEF Fits, Frame
<1> HIDE DEF n, key
<1>5. Tidy(g) BY <1>1, <1>2, AttachTidy
<1>6. key = NoKey \/ \A i \in DOMAIN h[n].kids : h[n].kids[i][1] # key
  BY <1>1, <1>4 DEF NewKey
<1>7. Slot(g, n, KidsOf(h, n), key, Len(h) + 1)
  BY <1>1, <1>2, <1>3, <1>6, SlotNew
<1>8. Len(h) + 1 \in 1 .. Len(g) /\ g[Len(h) + 1] = leaf /\ g[n].kind = h[n].kind
  <2>1. Len(h) \in Nat /\ Len(g) = Len(h) + 1 BY <1>1, <1>2 DEF Heap, AttachedTo
  <2> QED BY <2>1, <1>2 DEF AttachedTo
<1>9. Slot(g, Q[k], F[k].g.kids, F[k].key, Len(h) + 1) BY <1>7 DEF n, key
<1> QED BY <1>3, <1>5, <1>8, <1>9 DEF PutIn, g, n

NewOf(h, where) == IF where = "object" THEN element ELSE Len(h) + 1

LEMMA PutsIn ==
  ASSUME NEW h, Tidy(h), NEW Q, NEW F, NEW k, Levels(h, Q, F, k), Ready(h, Q[k], F[k], element),
         NEW where, where = h[Q[k]].kind, NEW leaf, Fresh(leaf)
  PROVE  PutIn(h, PutValue(h, where, Q[k], leaf), Q, F, k, NewOf(h, where), leaf)
<1>1. where \in {"object", "array"} BY LevelsFit DEF Fits, Frame
<1>2. CASE where = "object"
  <2>1. PutValue(h, where, Q[k], leaf) = [h EXCEPT ![element] = leaf] /\ NewOf(h, where) = element
    BY <1>2 DEF PutValue, NewOf
  <2>2. Slot(h, Q[k], F[k].g.kids, F[k].key, element) BY <1>2 DEF Ready
  <2>3. PutIn(h, [h EXCEPT ![element] = leaf], Q, F, k, element, leaf)
    BY <2>2, PutsOver
  <2> QED BY <2>1, <2>3
<1>3. CASE where = "array"
  <2>1. h[Q[k]].kind = "array" /\ F[k].key = NoKey /\ KidsOf(h, Q[k]) = F[k].g.kids
    BY <1>3 DEF Ready, KeyOk
  <2>2. PutValue(h, where, Q[k], leaf) = Attach(h, Q[k], F[k].key, leaf) /\ NewOf(h, where) = Len(h) + 1
    BY <1>3, <2>1 DEF PutValue, NewOf
  <2>3. NewKey(h, Q[k], F[k].key) BY <2>1 DEF NewKey
  <2>4. PutIn(h, Attach(h, Q[k], F[k].key, leaf), Q, F, k, Len(h) + 1, leaf)
    BY <2>1, <2>3, PutsLast
  <2> QED BY <2>2, <2>4
<1> QED BY <1>1, <1>2, <1>3

-----------------------------------------------------------------------------
(* The value under key has been written; the tokens end with it. *)
Done(h, n, f, v, r) ==
  /\ IsValue(v) /\ KeyOk(h[n].kind, f.key)
  /\ r = Begun(f) \o v.text /\ KidsOf(h, n) = With(f.g.kids, f.key, v.value)

(* With it the list is longer. *)
Grown(f, v) == [pre |-> f.pre, g |-> Extended(f.g, f.key, v), key |-> f.key]

GrownTo(h, Q, F, k, v, r) ==
  LET f == Grown(F[k], v)
      G == Topped(F, k, f)
  IN  /\ Levels(h, Q, G, k) /\ G[k] = f /\ KidsOf(h, Q[k]) = f.g.kids
      /\ f.g.text # <<>> /\ r = f.pre \o f.g.text

LEMMA Grows_ ==
  ASSUME NEW h, NEW Q, NEW F, NEW k, Levels(h, Q, F, k), NEW v, NEW r, Done(h, Q[k], F[k], v, r),
         v.nest + k <= MaxDepth + 1
  PROVE  GrownTo(h, Q, F, k, v, r)
<1> DEFINE f == Grown(F[k], v)
           e == F[k]
           n == Q[k]
           g == Extended(e.g, e.key, v)
<1>1. Frame(h, n, e) /\ k \in Nat /\ e.g.nest + k <= MaxDepth + 1 /\ KeyOk(h[n].kind, e.key) /\ IsValue(v)
  BY LevelsFit DEF Fits, Done
<1>2. f.pre = e.pre /\ f.g = g /\ f.key = e.key BY DEF Grown
<1>3. g.kids = With(e.g.kids, e.key, v.value) /\ g.nest = Larger(e.g.nest, v.nest)
  BY DEF Extended
<1> HIDE DEF f, e, n, g
<1>4. IsList(h[n].kind, g) /\ g.text # <<>>
  <2> DEFINE kind == h[n].kind
             l == e.g
             key == e.key
  <2>1. kind \in {"object", "array"} /\ IsList(kind, l) /\ KeyOk(kind, key)
    BY <1>1 DEF Frame
  <2> HIDE DEF kind, l, key
  <2>2. IsList(kind, Extended(l, key, v)) /\ Extended(l, key, v).text # <<>>
    BY <2>1, <1>1, ExtendedIs
  <2> QED BY <2>2 DEF kind, l, key, g
<1>5. Frame(h, n, f) BY <1>1, <1>2, <1>4 DEF Frame
<1>6. g.nest + k <= MaxDepth + 1
  <2>1. e.g.nest \in Nat /\ v.nest \in Nat
    BY <1>1 DEF Frame, IsList, IsValue, Spelled
  <2>2. g.nest = e.g.nest \/ g.nest = v.nest BY <1>3 DEF Larger
  <2> QED BY <2>1, <2>2, <1>1
<1>7. Levels(h, Q, Topped(F, k, f), k) /\ Topped(F, k, f)[k] = f
  <2>1. f.pre = F[k].pre /\ Frame(h, Q[k], f) /\ f.g.nest + k <= MaxDepth + 1
    BY <1>2, <1>5, <1>6, SMTT(60) DEF e, n
  <2> QED BY <2>1, LevelsTop
<1>8. r = f.pre \o f.g.text
  <2>1. Ends(e, v) BY <1>1, EndsIt
  <2> QED BY <2>1, <1>2 DEF Ends, Done, g, e
<1>9. KidsOf(h, Q[k]) = f.g.kids BY <1>2, <1>3 DEF Done, e
<1> QED BY <1>2, <1>4, <1>7, <1>8, <1>9 DEF GrownTo, f

(* The last container is closed: a value of the one around it, or the text. *)
Shut(h, Q, F, k) ==
  LET kind == h[Q[k]].kind
      v    == Container(kind, F[k].g)
      r    == Append(F[k].pre \o F[k].g.text, Closing(kind))
  IN  /\ IsValue(v) /\ v.nest + (k - 1) <= MaxDepth + 1
      /\ k = 1 => v.text = r /\ Denotes(h)[1] = v.value
      /\ k # 1 => Done(h, Q[k - 1], F[k - 1], v, r)

LEMMA Shuts ==
  ASSUME NEW h, Tidy(h), NEW Q, NEW F, NEW k, Levels(h, Q, F, k), KidsOf(h, Q[k]) = F[k].g.kids
  PROVE  Shut(h, Q, F, k)
<1> DEFINE n == Q[k]
           f == F[k]
           kind == h[n].kind
           v == Container(kind, f.g)
           r == Append(f.pre \o f.g.text, Closing(kind))
<1>1. Frame(h, n, f) /\ k \in Nat /\ k # 0 /\ f.g.nest + k <= MaxDepth + 1 /\ n \in 1 .. Len(h)
  BY LevelsFit DEF Fits
<1>2. kind \in {"object", "array"} /\ h[n].text = "" /\ IsList(kind, f.g)
  BY <1>1 DEF Frame
<1>3. IsValue(v) BY <1>2, ContainerIs
<1>4. v.nest = f.g.nest + 1 /\ v.value = [kind |-> kind, text |-> "", kids |-> f.g.kids]
  BY DEF Container
<1>5. v.nest + (k - 1) <= MaxDepth + 1
  <2>1. f.g.nest \in Nat BY <1>1, FrameTexts DEF TextsOf
  <2> DEFINE a == f.g.nest
             b == v.nest
  <2>2. a \in Nat /\ a + k <= MaxDepth + 1 /\ b = a + 1 /\ k \in Nat /\ MaxDepth \in Nat
    BY <2>1, <1>1, <1>4, DepthAssumption
  <2> HIDE DEF a, b
  <2>3. b + (k - 1) <= MaxDepth + 1 BY <2>2
  <2> QED BY <2>3 DEF b
<1>6. Denotes(h)[n] = v.value
  <2>1. Denoting(h, n) BY <1>1, DenotesIs DEF Tidy
  <2> QED BY <2>1, <1>2, <1>4 DEF Denoting
<1>7. Closes(f, kind) BY <1>1, ClosesIt
<1>8. ASSUME k = 1 PROVE v.text = r /\ Denotes(h)[1] = v.value
  <2>1. n = 1 /\ f.pre = <<Opening(kind)>> BY <1>8 DEF Levels, Line
  <2> HIDE DEF n, f, kind
  <2> QED BY <2>1, <1>6, <1>7 DEF Closes
<1>9. ASSUME k # 1 PROVE Done(h, Q[k - 1], F[k - 1], v, r)
  <2> DEFINE e == F[k - 1]
             p == Q[k - 1]
  <2>1. Levels(h, Q, F, k - 1) /\ Linked(h, p, n, e, f) BY <1>9, LevelsPop
  <2>2. KeyOk(h[p].kind, e.key) /\ Slot(h, p, e.g.kids, e.key, n) /\ f.pre = Append(Begun(e), Opening(kind))
    BY <2>1 DEF Linked
  <2>3. Frame(h, p, e) BY <2>1, LevelsFit DEF Fits
  <2> HIDE DEF e, p, n, f, kind
  <2>4. Begun(e) \in Seq(Token) BY <2>2, <2>3, BegunIs DEF BegunTexts
  <2>5. r = Begun(e) \o v.text BY <2>2, <2>4, <1>7 DEF Closes
  <2>6. Settled(h, p, e.g.kids, e.key, n) BY <2>2, Settles
  <2>7. KidsOf(h, p) = With(e.g.kids, e.key, v.value) BY <2>6, <1>6 DEF Settled
  <2>8. Done(h, p, e, v, r) BY <1>3, <2>2, <2>5, <2>7 DEF Done
  <2> QED BY <2>8 DEF e, p, n, f, kind
<1> QED BY <1>3, <1>5, <1>8, <1>9 DEF Shut

-----------------------------------------------------------------------------
(* What the tokens read, r, and the documents h are, between label a and *)
(* what waits there, p: Q are the open containers, F their frames. *)
Tells(a, p, e, h, Q, F, k, r) ==
  LET n == Q[k]
      f == F[k]
  IN  /\ Levels(h, Q, F, k)
      /\ a = "opened" => f.g.text = <<>>
      /\ a \in {"opened", "comma"} => r = SoFar(f)
      /\ a = "key" => r = Append(SoFar(f), "quote")
      /\ a \in {"opened", "comma", "key"} => KidsOf(h, n) = f.g.kids
      /\ a = "colon" => r = Append(Append(SoFar(f), "quote"), f.key)
      /\ a = "value" => r = Begun(f)
      /\ a = "string" => r = Append(Begun(f), "quote")
      /\ a \in {"colon", "value", "string"} => Ready(h, n, f, e)
      /\ a = "next" /\ p \in Scalars \cup Refused => Ready(h, n, f, e) /\ r = Append(Begun(f), p)
      /\ a = "next" /\ p \notin Scalars \cup Refused =>
           \E v : Done(h, n, f, v, r) /\ v.nest + k <= MaxDepth + 1

PathOf(p, s, c) == IF p = "end" THEN s ELSE Append(s, c)
Path == PathOf(pending, stack, current)

Told == \E F : Tells(at, pending, element, heap, Path, F, Len(Path), read)

(* The whole text has been read. *)
WholeAt(h, r) == \E v : IsValue(v) /\ r = v.text /\ v.nest <= MaxDepth + 1 /\ Denotes(h)[1] = v.value

InnerLabels == {"opened", "key", "colon", "value", "string", "comma", "next"}

TellsRoot(a, p, h, r) ==
  /\ a = "root" => r = <<>>
  /\ a = "rootString" => r = <<"quote">>
  /\ a \in {"root", "rootString"} \/ (a = "rootEnd" /\ p # Nought) => h[1] = Leaf("null", "")
  /\ a = "rootEnd" /\ p # Nought => r = <<p>>
  /\ a = "trailing" \/ (a = "rootEnd" /\ p = Nought) => WholeAt(h, r)

Text == Tidy(heap) /\ TellsRoot(at, pending, heap, read) /\ (at \in InnerLabels => Told)

PInv == result = Running => Text

PathFits(p, s, c) ==
  LET Q == PathOf(p, s, c)
      k == Len(Q)
  IN  /\ p = "end" => Q = s
      /\ p # "end" => /\ k = Len(s) + 1 /\ Q[k] = c /\ \A i \in 1 .. Len(s) : Q[i] = s[i]
                      /\ Q \in Seq(Nat) /\ Q = Append(s, c)

LEMMA PathIs == ASSUME NEW p, NEW s \in Seq(Nat), NEW c \in Nat PROVE PathFits(p, s, c)
<1>1. CASE p = "end" BY <1>1 DEF PathFits, PathOf
<1>2. CASE p # "end"
  <2>1. PathOf(p, s, c) = Append(s, c) BY <1>2 DEF PathOf
  <2> DEFINE Q == Append(s, c)
  <2>2. /\ Q \in Seq(Nat) /\ Len(Q) = Len(s) + 1 /\ Q[Len(s) + 1] = c
        /\ \A i \in 1 .. Len(s) : Q[i] = s[i]
    BY Appending
  <2> HIDE DEF Q
  <2> QED BY <2>1, <2>2, <1>2 DEF PathFits, Q
<1> QED BY <1>1, <1>2

(* The last container closes. *)
LEMMA Closed ==
  ASSUME NEW h, Tidy(h), NEW Q, NEW F, NEW k, Levels(h, Q, F, k), KidsOf(h, Q[k]) = F[k].g.kids,
         NEW r, r = Append(F[k].pre \o F[k].g.text, Closing(h[Q[k]].kind))
  PROVE  /\ k = 1 => WholeAt(h, r)
         /\ k # 1 => \A R, e : (\A i \in 1 .. k - 1 : R[i] = Q[i]) =>
              Tells("next", "end", e, h, R, F, k - 1, r)
<1> DEFINE v == Container(h[Q[k]].kind, F[k].g)
           K == k - 1
<1>1. Shut(h, Q, F, k) BY Shuts, SMTT(60)
<1>2. /\ IsValue(v) /\ v.nest + (k - 1) <= MaxDepth + 1
      /\ k = 1 => v.text = r /\ Denotes(h)[1] = v.value
      /\ k # 1 => Done(h, Q[k - 1], F[k - 1], v, r)
  BY <1>1 DEF Shut
<1> HIDE DEF v
<1>3. ASSUME k = 1 PROVE WholeAt(h, r)
  <2>1. v.nest \in Nat BY <1>2 DEF IsValue, Spelled
  <2>2. v.nest <= MaxDepth + 1 BY <2>1, <1>2, <1>3
  <2> QED BY <2>2, <1>2, <1>3 DEF WholeAt
<1>4. ASSUME k # 1, NEW R, NEW e, \A i \in 1 .. k - 1 : R[i] = Q[i]
      PROVE  Tells("next", "end", e, h, R, F, k - 1, r)
  <2>1. Levels(h, Q, F, K) BY <1>4, LevelsPop
  <2>2. \A i \in 1 .. K : R[i] = Q[i] /\ F[i] = F[i] BY <1>4
  <2>3. v.nest + K <= MaxDepth + 1 /\ Done(h, Q[K], F[K], v, r) BY <1>2, <1>4
  <2> HIDE DEF K
  <2>4. Levels(h, R, F, K) BY <2>1, <2>2, LevelsSame
  <2>5. K \in 1 .. K BY <2>1, LevelsFit DEF Fits
  <2>6. Done(h, R[K], F[K], v, r) BY <2>2, <2>3, <2>5
  <2>7. "end" \notin Scalars \cup Refused
    BY TokenAssumption, SMTT(60) DEF Outside
  <2>8. Tells("next", "end", e, h, R, F, K, r)
    BY <2>3, <2>4, <2>6, <2>7 DEF Tells
  <2> QED BY <2>8 DEF K
<1> QED BY <1>3, <1>4

(* A leaf has been put: the value under key is done. *)
LEMMA PutDone ==
  ASSUME NEW h, NEW g, NEW Q, NEW F, NEW k, NEW m, NEW leaf, Fresh(leaf), PutIn(h, g, Q, F, k, m, leaf),
         KeyOk(h[Q[k]].kind, F[k].key), NEW v, IsValue(v), v.value = leaf
  PROVE  Done(g, Q[k], F[k], v, Begun(F[k]) \o v.text)
<1>1. Alone(g, m) BY FreshAlone DEF PutIn, Tidy
<1>2. Settled(g, Q[k], F[k].g.kids, F[k].key, m) BY Settles DEF PutIn
<1>3. KidsOf(g, Q[k]) = With(F[k].g.kids, F[k].key, v.value)
  BY <1>1, <1>2 DEF Alone, Settled, PutIn
<1> QED BY <1>3 DEF Done, PutIn

(* The switch on the first token of a value. *)
LEMMA ValueTold ==
  ASSUME Tidy(heap), stack \in Seq(Nat), current \in Nat, pending = Nought, NEW F, NEW k, k = Len(stack) + 1,
         Levels(heap, Path, F, k), Ready(heap, current, F[k], element), read = Begun(F[k]),
         NEW t, read' = Append(read, t), NEW where, where = heap[current].kind, NEW d, NEW b,
         Value(t, where, d, b), result' = Running, Len(stack') <= MaxDepth
  PROVE  Text'
<1> DEFINE Q == Path
<1>1. pending # "end" /\ Nought # "end" BY DEF Nought
<1>2. /\ k = Len(Q) /\ Q[k] = current /\ (\A i \in 1 .. Len(stack) : Q[i] = stack[i])
      /\ Q \in Seq(Nat) /\ Q = Append(stack, current)
  <2>1. PathFits(pending, stack, current) BY PathIs
  <2> QED BY <2>1, <1>1 DEF PathFits, Path
<1>3. where \in {"object", "array"} /\ k \in Nat
  BY <1>2, LevelsFit DEF Fits, Frame
<1> HIDE DEF Q
<1>4. CASE t \in Scalars \cup Refused
  <2>0. t # NPOS /\ t # "quote" /\ t # "{" /\ t # "[" /\ t # "end" /\ t # Nought
    BY <1>4, TokenAssumption DEF Structure, Outside, Nought
  <2>1. /\ at' = "next" /\ pending' = t /\ heap' = heap /\ stack' = stack /\ current' = current /\ element' = element
    BY <1>4, <2>0 DEF Value, Goto, parser
  <2>2. Path' = Path BY <2>0, <2>1, <1>1 DEF Path, PathOf
  <2>3. Tells("next", t, element, heap, Q, F, k, Append(read, t))
    BY <1>2, <1>4 DEF Tells, Q
  <2>4. Told'
    <3>1. Tells(at', pending', element', heap', Path', F, Len(Path'), read')
      BY <2>1, <2>2, <2>3, <1>2 DEF Q
    <3> QED BY <3>1 DEF Told
  <2>5. TellsRoot(at', pending', heap', read') BY <2>1 DEF TellsRoot
  <2> QED BY <2>1, <2>4, <2>5 DEF Text
<1>5. CASE t = "quote"
  <2>1. /\ at' = "string" /\ pending' = pending /\ heap' = heap /\ stack' = stack /\ current' = current /\ element' = element
    BY <1>5, TokenAssumption DEF Value, Goto, Return, parser, visitor, Running
  <2>2. Path' = Path BY <2>1 DEF Path
  <2>3. Tells("string", pending, element, heap, Q, F, k, Append(read, t))
    BY <1>2, <1>5 DEF Tells, Q
  <2>4. Told'
    <3>1. Tells(at', pending', element', heap', Path', F, Len(Path'), read')
      BY <2>1, <2>2, <2>3, <1>2 DEF Q
    <3> QED BY <3>1 DEF Told
  <2>5. TellsRoot(at', pending', heap', read') BY <2>1 DEF TellsRoot
  <2> QED BY <2>1, <2>4, <2>5 DEF Text
<1>6. CASE t \in {"{", "["}
  <2> DEFINE kind == IF t = "{" THEN "object" ELSE "array"
             leaf == Leaf(kind, "")
             g == PutValue(heap, where, current, leaf)
             m == NewOf(heap, where)
             R == Path'
  <2>1. at' = "opened" /\ pending' = pending /\ heap' = g /\ stack' = Append(stack, current) /\ current' = m
    <3>1. t # NPOS /\ t # "quote" /\ t \notin Scalars \cup Refused
      BY <1>6, TokenAssumption DEF Structure
    <3>2. ~TooDeep(d)
      <4>1. SUFFICES ASSUME TooDeep(d) PROVE FALSE OBVIOUS
      <4>2. result' = "DEPTH_ERROR" BY <1>6, <3>1, <4>1 DEF Value, Return
      <4> QED BY <4>2 DEF Running
    <3> QED BY <1>6, <3>1, <3>2 DEF Value, VisitStart, NewOf, New
  <2>2. Fresh(leaf) /\ leaf.kind = kind /\ leaf.text = "" /\ Opening(kind) = t /\ kind \in {"object", "array"}
    BY <1>6, LeafFresh DEF Kinds, Leaf, Opening
  <2> HIDE DEF leaf, kind
  <2>3. PutIn(heap, g, Q, F, k, m, leaf)
    <3>1. Levels(heap, Q, F, k) /\ Ready(heap, Q[k], F[k], element) /\ where = heap[Q[k]].kind /\ Fresh(leaf)
      BY <1>2, <2>2 DEF Q
    <3>2. PutIn(heap, PutValue(heap, where, Q[k], leaf), Q, F, k, NewOf(heap, where), leaf)
      BY <3>1, PutsIn
    <3> QED BY <3>2, <1>2
  <2> HIDE DEF g, m
  <2>4. Tidy(g) /\ Heap(g) /\ Levels(g, Q, F, k) /\ m \in 1 .. Len(g) /\ m \in Nat /\ g[m] = leaf
        /\ Slot(g, Q[k], F[k].g.kids, F[k].key, m) /\ g[Q[k]].kind = where
    BY <2>3, <1>2 DEF PutIn, Tidy
  <2>5. Len(R) = k + 1 /\ R[k + 1] = m /\ (\A i \in 1 .. k : R[i] = Q[i])
    <3>1. stack' = Q /\ pending' # "end" BY <2>1, <1>1, <1>2
    <3>2. PathFits(pending', stack', current') BY <3>1, <2>1, <2>4, <1>2, PathIs
    <3> QED BY <3>1, <3>2, <2>1, <1>2 DEF PathFits, Path
  <2> HIDE DEF R
  <2> DEFINE f == [pre |-> Append(Begun(F[k]), Opening(g[m].kind)), g |-> Nothing, key |-> NoKey]
             K == k + 1
             G == Topped(F, K, f)
  <2>6. f.pre = Append(Begun(F[k]), Opening(g[m].kind)) /\ f.g = Nothing /\ f.key = NoKey
    OBVIOUS
  <2> HIDE DEF f
  <2>7. Levels(g, R, G, K) /\ G[K] = f
    <3>1. Opened(g, F[k], m, f) BY <2>2, <2>4, <2>6 DEF Opened
    <3>2. KeyOk(g[Q[k]].kind, F[k].key) BY <2>4, <1>2 DEF Ready
    <3>3. Longer1(Q, k, m, R) BY <2>5 DEF Longer1
    <3>4. k <= MaxDepth BY <2>1, <1>2
    <3>5. Heap(g) /\ Levels(g, Q, F, k) /\ Slot(g, Q[k], F[k].g.kids, F[k].key, m)
      BY <2>4
    <3> HIDE DEF G, K
    <3>6. Levels(g, R, Topped(F, k + 1, f), k + 1) /\ Topped(F, k + 1, f)[k + 1] = f
      BY ONLY <3>1, <3>2, <3>3, <3>4, <3>5, LevelsPush
    <3> QED BY <3>6 DEF G, K
  <2>8. TextsOf(f) /\ R[K] = m BY <2>5, <2>7, LevelsFit, FrameTexts DEF Fits
  <2>9. read' = SoFar(f) /\ f.g.text = <<>>
    <3>1. f.g.text = <<>> BY <2>6 DEF Nothing
    <3>2. f.pre = Append(read, t) BY <2>2, <2>4, <2>6
    <3> QED BY <3>1, <3>2, <2>8 DEF TextsOf
  <2>10. KidsOf(g, m) = f.g.kids
    <3>1. Alone(g, m) BY <2>2, <2>4, FreshAlone
    <3>2. Nothing.kids = <<>> BY DEF Nothing
    <3> QED BY <3>1, <3>2, <2>6 DEF Alone
  <2>11. Tells("opened", pending', element', g, R, G, K, read')
    <3> HIDE DEF G, K
    <3> QED BY <2>7, <2>8, <2>9, <2>10 DEF Tells
  <2>12. Told'
    <3>1. Tells(at', pending', element', heap', Path', G, Len(Path'), read')
      BY <2>1, <2>5, <2>11 DEF R
    <3> HIDE DEF G
    <3> QED BY <3>1 DEF Told
  <2>13. TellsRoot(at', pending', heap', read') BY <2>1 DEF TellsRoot
  <2> QED BY <2>1, <2>4, <2>12, <2>13 DEF Text
<1>7. CASE t \notin Scalars \cup Refused /\ t # "quote" /\ t \notin {"{", "["}
  <2>1. result' = "TAPE_ERROR" BY <1>7 DEF Value, Return
  <2> QED BY <2>1 DEF Running
<1> QED BY <1>4, <1>5, <1>6, <1>7

-----------------------------------------------------------------------------
(* Where the parse stands between the labels of a container. *)
Stand(F, k) ==
  /\ Tells(at, pending, element, heap, Path, F, k, read) /\ k = Len(Path) /\ k \in Nat
  /\ stack \in Seq(Nat) /\ current \in Nat
  /\ in \in {"object", "array"} /\ heap[Path[k]].kind = in
  /\ pending = "end" => Path = stack /\ k = Len(stack)
  /\ pending # "end" => /\ k = Len(stack) + 1 /\ Path[k] = current /\ \A i \in 1 .. Len(stack) : Path[i] = stack[i]
                        /\ Path = Append(stack, current)
  /\ k = IF at = "opened" /\ outer # "root" THEN depth + 2 ELSE depth + 1

LEMMA Standing ==
  ASSUME Shape, Text, at \in InnerLabels
  PROVE  \E F : Stand(F, Len(Path))
<1> DEFINE k == Len(Path)
<1>1. PICK F : Tells(at, pending, element, heap, Path, F, k, read)
  BY DEF Text, Told
<1>2. stack \in Seq(Nat) /\ current \in Nat /\ depth \in Nat /\ Len(stack) \in Nat
  BY DEF Shape, StackShape, DocumentShape
<1>3. PathFits(pending, stack, current) BY <1>2, PathIs
<1>4. Levels(heap, Path, F, k) /\ k \in Nat BY <1>1, LevelsFit DEF Tells, Fits
<1>5. in \in {"object", "array"} BY DEF Shape, ControlShape, InnerLabels
<1>6. heap[Path[k]].kind = in
  <2>1. CASE pending = "end"
    <3>1. at = "next" /\ Ahead
      BY <2>1 DEF Shape, ControlShape, Ahead, InnerLabels, Nought
    <3>2. Path = stack BY <2>1, <1>3 DEF PathFits, Path
    <3> QED BY <3>1, <3>2 DEF Shape, StackShape
  <2>2. CASE pending # "end"
    <3>1. Path[k] = current BY <2>2, <1>3 DEF PathFits, Path
    <3> QED BY <3>1, <2>2 DEF Shape, TargetShape, InnerLabels
  <2> QED BY <2>1, <2>2
<1>7. /\ pending = "end" => Path = stack /\ k = Len(stack)
      /\ pending # "end" => /\ k = Len(stack) + 1 /\ Path[k] = current /\ \A i \in 1 .. Len(stack) : Path[i] = stack[i]
                            /\ Path = Append(stack, current)
  BY <1>3 DEF PathFits, Path
<1>8. k = IF at = "opened" /\ outer # "root" THEN depth + 2 ELSE depth + 1
  <2> HIDE DEF k
  <2>1. at = "opened" => pending # "end" BY DEF Shape, ControlShape, Nought
  <2>2. Len(stack) = IF Ahead THEN depth + 1 ELSE depth BY DEF Shape, StackShape
  <2> QED BY <1>2, <1>7, <2>1, <2>2 DEF Ahead
<1> HIDE DEF k
<1>9. Stand(F, k) BY <1>1, <1>2, <1>4, <1>5, <1>6, <1>7, <1>8 DEF Stand, k
<1> QED BY <1>9 DEF k

(* What a step leaves: label a, with w waiting. *)
LEMMA TextInner ==
  ASSUME Tidy(heap)', at' \in InnerLabels, NEW F, NEW k, k = Len(Path'),
         Tells(at', pending', element', heap', Path', F, k, read')
  PROVE  Text'
<1>1. Told' BY DEF Told
<1>2. TellsRoot(at', pending', heap', read') BY DEF TellsRoot, InnerLabels
<1> QED BY <1>1, <1>2 DEF Text

LEMMA TextOuter ==
  ASSUME Tidy(heap)', at' \notin InnerLabels, TellsRoot(at', pending', heap', read')
  PROVE  Text'
BY DEF Text

(* The first token. *)
LEMMA RootTold ==
  ASSUME Shape, Text, NEW t \in Outside, Root(t), result' = Running
  PROVE  Text'
<1>1. read' = <<t>> /\ heap[1] = Leaf("null", "") /\ current = 1 /\ pending = Nought /\ 1 \in 1 .. Len(heap) /\ Heap(heap)
  <2>1. at = "root" /\ read' = Append(read, t) BY DEF Root, Take
  <2>2. read = <<>> /\ heap[1] = Leaf("null", "") BY <2>1 DEF Text, TellsRoot
  <2>3. current = 1 /\ pending = Nought /\ 1 \in 1 .. Len(heap)
    BY <2>1 DEF Shape, ControlShape, DocumentShape
  <2>4. Append(<<>>, t) = <<t>> OBVIOUS
  <2> QED BY <2>1, <2>2, <2>3, <2>4 DEF Text, Tidy
<1>2. CASE t \in {"{", "["}
  <2> DEFINE kind == IF t = "{" THEN "object" ELSE "array"
             leaf == Leaf(kind, "")
             g == [heap EXCEPT ![1] = leaf]
             f == [pre |-> <<Opening(g[1].kind)>>, g |-> Nothing, key |-> NoKey]
             F == [i \in 1 .. 1 |-> f]
  <2>1. heap' = g /\ at' = "opened" /\ pending' = pending /\ stack' = stack /\ current' = current
    <3>1. t # NPOS BY <1>2, TokenAssumption DEF Structure
    <3> QED BY <1>2, <3>1 DEF Root, PutValue
  <2>2. Fresh(leaf) /\ leaf.kind = kind /\ leaf.text = "" /\ Opening(kind) = t /\ kind \in {"object", "array"}
    BY <1>2, LeafFresh DEF Kinds, Leaf, Opening
  <2> HIDE DEF leaf, kind
  <2>3. Over(heap, g, 1, leaf) BY <1>1, <2>2, OverIs
  <2>4. Tidy(g)
    <3> HIDE DEF g
    <3>1. Tidy(heap) BY DEF Text
    <3> QED BY <3>1, <1>1, <2>2, <2>3, OverTidy
  <2>5. g[1] = leaf /\ 1 \in 1 .. Len(g) /\ Heap(g)
    <3> HIDE DEF g
    <3> QED BY <1>1, <2>3 DEF Over
  <2> HIDE DEF g
  <2>6. f.pre = <<Opening(g[1].kind)>> /\ f.g = Nothing /\ f.key = NoKey OBVIOUS
  <2>7. F[1] = f OBVIOUS
  <2> HIDE DEF f, F
  <2>8. Path'[1] = 1 /\ Len(Path') = 1
    <3>1. stack = <<>> /\ stack \in Seq(Nat)
      <4>1. at = "root" /\ pending # "end" BY <1>1 DEF Root, Take, Nought
      <4>2. Len(stack) = 0 /\ stack \in Seq(Nat)
        BY <4>1 DEF Shape, StackShape, ControlShape, Ahead
      <4> QED BY <4>2, EmptySeq
    <3>2. Path' = Append(<<>>, 1) BY <1>1, <2>1, <3>1 DEF Path, PathOf, Nought
    <3>3. Append(<<>>, 1) = <<1>> /\ Len(<<1>>) = 1 /\ <<1>>[1] = 1 OBVIOUS
    <3> QED BY <3>2, <3>3
  <2> DEFINE Q == Path'
  <2> HIDE DEF Q
  <2>9. Q[1] = 1 /\ Len(Q) = 1 BY <2>8 DEF Q
  <2>10. Frame(g, 1, f) /\ f.g.nest + 1 <= MaxDepth + 1 /\ f.g.text = <<>> /\ f.g.kids = <<>>
    <3>1. Opening(g[1].kind) \in Token BY Tokens DEF Opening, Structure
    <3> DEFINE o == Opening(g[1].kind)
    <3> HIDE DEF o
    <3>2. <<o>> \in Seq(Token) BY <3>1 DEF o
    <3>3. IsList(g[1].kind, Nothing) BY NothingIs
    <3>4. Nothing.nest = 0 /\ Nothing.text = <<>> /\ Nothing.kids = <<>>
      BY DEF Nothing
    <3>5. 0 + 1 <= MaxDepth + 1 BY DepthAssumption
    <3>6. Frame(g, 1, f) BY <2>2, <2>5, <2>6, <3>2, <3>3 DEF Frame, o
    <3> QED BY <2>6, <3>4, <3>5, <3>6
  <2>11. Levels(g, Q, F, 1)
    <3>1. \A i \in 1 .. 1 : i = 1 OBVIOUS
    <3>2. Line(g, Q, 1) BY <3>1, <2>5, <2>9 DEF Line
    <3>3. Framed(g, Q, F, 1) BY <2>7, <2>9, <2>10 DEF Framed
    <3>4. \A i \in 1 .. 1 : ~(i < 1) BY <3>1
    <3> QED BY <3>1, <3>2, <3>3, <3>4, <2>6, <2>7 DEF Levels
  <2>12. read' = SoFar(f)
    <3>1. TextsOf(f) BY <2>10, FrameTexts
    <3> QED BY <3>1, <1>1, <2>2, <2>5, <2>6, <2>10 DEF TextsOf
  <2>13. KidsOf(g, 1) = <<>> BY <2>2, <2>5, FreshAlone DEF Alone
  <2>14. Tells("opened", pending', element', g, Q, F, 1, read')
    BY <2>7, <2>9, <2>10, <2>11, <2>12, <2>13 DEF Tells
  <2>15. Tells(at', pending', element', heap', Path', F, 1, read') /\ 1 = Len(Path') /\ Tidy(heap') /\ at' \in InnerLabels
    BY <2>1, <2>4, <2>9, <2>14 DEF Q, InnerLabels
  <2> QED BY <2>15, TextInner
<1>3. CASE t = "quote"
  <2>1. heap' = heap /\ at' = "rootString" /\ pending' = pending
    BY <1>3, TokenAssumption DEF Root, Goto, parser, Return, Running
  <2>2. TellsRoot(at', pending', heap', read') /\ at' \notin InnerLabels
    BY <2>1, <1>1, <1>3 DEF TellsRoot, InnerLabels
  <2>3. Tidy(heap)' BY <2>1 DEF Text
  <2> QED BY <2>2, <2>3, TextOuter
<1>4. CASE t \notin {"{", "[", "quote"}
  <2>1. heap' = heap /\ at' = "rootEnd" /\ pending' = t
    BY <1>4 DEF Root, Goto, parser, Return, Running
  <2>2. t # Nought
    <3>1. t \in Outside OBVIOUS
    <3> QED BY <3>1, TokenAssumption DEF Nought
  <2>3. TellsRoot(at', pending', heap', read') /\ at' \notin InnerLabels
    BY <2>1, <2>2, <1>1 DEF TellsRoot, InnerLabels
  <2>4. Tidy(heap)' BY <2>1 DEF Text
  <2> QED BY <2>3, <2>4, TextOuter
<1> QED BY <1>2, <1>3, <1>4

LEMMA RootStringTold ==
  ASSUME Shape, Text, NEW t \in Inside, RootString(t), result' = Running
  PROVE  Text'
<1> DEFINE leaf == Leaf("string", t)
<1>1. t \in Contents /\ t # NPOS /\ heap' = [heap EXCEPT ![1] = leaf] /\ at' = "rootEnd" /\ pending' = pending
  <2>1. t # NPOS /\ t \notin BadContents BY DEF RootString, Return, Running
  <2> QED BY <2>1 DEF RootString, Inside, Goto, PutValue
<1>2. at = "rootString" /\ read' = Append(read, t) /\ pending = Nought /\ 1 \in 1 .. Len(heap)
  BY DEF RootString, Take, Shape, ControlShape, DocumentShape
<1>3. Fresh(leaf) BY <1>1, LeafFresh DEF Kinds
<1>4. read' = <<"quote", t>>
  <2>1. read = <<"quote">> BY <1>2 DEF Text, TellsRoot
  <2>2. "quote" \in Token /\ t \in Token BY <1>1, Tokens
  <2>3. Append(<<"quote">>, t) = <<"quote", t>> BY <2>2, StringsAre DEF Strings
  <2> QED BY <2>1, <2>3, <1>2
<1> DEFINE g == [heap EXCEPT ![1] = leaf]
<1>5. Over(heap, g, 1, leaf) BY <1>2, <1>3, OverIs DEF Text, Tidy
<1> HIDE DEF g
<1>6. Tidy(g) BY <1>2, <1>3, <1>5, OverTidy DEF Text
<1>7. Denotes(g)[1] = leaf
  <2>1. 1 \in 1 .. Len(g) /\ Heap(g) /\ g[1] = leaf BY <1>2, <1>5 DEF Over
  <2> HIDE DEF leaf
  <2> QED BY <2>1, <1>3, FreshAlone DEF Alone
<1>8. WholeAt(g, read')
  <2> DEFINE v == StringValue(t)
  <2>1. IsValue(v) BY <1>1, StringIs
  <2>2. v.text = read' /\ v.nest = 0 /\ v.value = leaf BY <1>4 DEF StringValue
  <2>3. 0 <= MaxDepth + 1 BY DepthAssumption
  <2> HIDE DEF v, leaf
  <2> QED BY <2>1, <2>2, <2>3, <1>7 DEF WholeAt
<1>9. TellsRoot(at', pending', heap', read') /\ at' \notin InnerLabels /\ Tidy(heap)'
  BY <1>1, <1>2, <1>6, <1>8 DEF TellsRoot, InnerLabels, g
<1> QED BY <1>9, TextOuter

(* Of an array the next value is ready at once. *)
LEMMA ArrayReady ==
  ASSUME NEW h, NEW n, NEW f, Frame(h, n, f), h[n].kind = "array", KidsOf(h, n) = f.g.kids, NEW e
  PROVE  Ready(h, n, f, e) /\ Begun(f) = SoFar(f)
<1>1. KeyOk("array", f.key) BY DEF Frame, KeyOk
<1>2. BegunTexts("array", f) BY <1>1, BegunIs
<1> QED BY <1>1, <1>2 DEF Ready, BegunTexts

(* The container just opened is closed. *)
LEMMA EmptyTold ==
  ASSUME Shape, Text, at = "opened", NEW t, t = Closing(in), read' = Append(read, t), Empty
  PROVE  Text'
<1> DEFINE k == Len(Path)
<1>1. PICK F : Stand(F, k) BY Standing DEF InnerLabels
<1> HIDE DEF k
<1>2. /\ pending # "end" /\ pending = Nought /\ (outer = "root" => depth = 0) /\ heap' = heap /\ Tidy(heap)
      /\ stack' = stack /\ current' = current /\ element' = element
  BY DEF Shape, ControlShape, Nought, Text, Empty, parser
<1>3. /\ Tells(at, pending, element, heap, Path, F, k, read) /\ k = Len(Path) /\ k = Len(stack) + 1
      /\ k = (IF outer # "root" THEN depth + 2 ELSE depth + 1) /\ Levels(heap, Path, F, k)
      /\ heap[Path[k]].kind = in /\ (\A i \in 1 .. Len(stack) : Path[i] = stack[i]) /\ stack \in Seq(Nat)
  BY <1>1, <1>2 DEF Stand, Tells
<1>4. read' = Append(F[k].pre \o F[k].g.text, t) /\ KidsOf(heap, Path[k]) = F[k].g.kids
  <2> DEFINE f == F[k]
  <2>1. f.g.text = <<>> /\ read = SoFar(f) /\ KidsOf(heap, Path[k]) = f.g.kids
    BY <1>3 DEF Tells
  <2>2. Frame(heap, Path[k], f) BY <1>3, LevelsFit DEF Fits
  <2>3. TextsOf(f) /\ f.pre \in Seq(Token) BY <2>2, FrameTexts DEF Frame
  <2> HIDE DEF f
  <2>4. f.pre \o <<>> = f.pre BY <2>3, ConcatEmptySeq
  <2>5. read = f.pre \o f.g.text BY <2>1, <2>3, <2>4, SMTT(60) DEF TextsOf
  <2> QED BY <2>1, <2>5 DEF f
<1>5. /\ k = 1 => WholeAt(heap, read')
      /\ k # 1 => \A R, e : (\A i \in 1 .. k - 1 : R[i] = Path[i]) =>
           Tells("next", "end", e, heap, R, F, k - 1, read')
  BY <1>2, <1>3, <1>4, Closed
<1>6. CASE outer = "root"
  <2>1. k = 1 /\ at' = "trailing" /\ at' \notin InnerLabels
    BY <1>2, <1>3, <1>6 DEF Empty, Goto, InnerLabels
  <2>2. TellsRoot(at', pending', heap', read') BY <1>2, <1>5, <2>1 DEF TellsRoot
  <2> QED BY <1>2, <2>1, <2>2, TextOuter
<1>7. CASE outer # "root"
  <2>1. at' = "next" /\ at' \in InnerLabels /\ pending' = "end"
    BY <1>7 DEF Empty, Goto, InnerLabels
  <2>2. k # 1 /\ k - 1 = Len(stack)
    <3>1. depth \in Nat /\ Len(stack) \in Nat BY DEF Shape, StackShape
    <3> QED BY <1>3, <1>7, <3>1
  <2>3. Path' = stack BY <1>2, <2>1 DEF Path, PathOf
  <2>4. \A i \in 1 .. k - 1 : stack[i] = Path[i] BY <1>3, <2>2
  <2>5. Tells("next", "end", element, heap, stack, F, k - 1, read')
    BY <1>5, <2>2, <2>4
  <2>6. Tells(at', pending', element', heap', Path', F, k - 1, read') /\ k - 1 = Len(Path')
    BY <1>2, <2>1, <2>2, <2>3, <2>5
  <2> QED BY <1>2, <2>1, <2>6, TextInner
<1> QED BY <1>6, <1>7

(* The steps that only move on: nothing is written and nothing waits. *)
LEMMA PathStays ==
  ASSUME stack' = stack, current' = current, pending' = pending
  PROVE  Path' = Path
BY DEF Path

LEMMA OpenedObjectTold ==
  ASSUME Shape, Text, NEW t, OpenedObject(t), result' = Running
  PROVE  Text'
<1>1. at = "opened" /\ in = "object" /\ read' = Append(read, t)
  BY DEF OpenedObject, Take
<1>2. CASE t = "}" BY <1>1, <1>2, EmptyTold DEF OpenedObject, Closing
<1>3. CASE t = "quote"
  <2>1. /\ at' = "key" /\ pending' = pending /\ heap' = heap /\ stack' = stack /\ current' = current /\ element' = element
        /\ Tidy(heap) /\ at' \in InnerLabels
    BY <1>3 DEF OpenedObject, Goto, parser, Text, InnerLabels
  <2> DEFINE k == Len(Path)
  <2>2. PICK F : Stand(F, k) BY <1>1, Standing DEF InnerLabels
  <2> HIDE DEF k
  <2>3. Tells("opened", pending, element, heap, Path, F, k, read) /\ k = Len(Path)
    BY <1>1, <2>2 DEF Stand
  <2>4. Tells("key", pending, element, heap, Path, F, k, Append(read, "quote"))
    BY <2>3 DEF Tells
  <2>5. Tells(at', pending', element', heap', Path', F, k, read') /\ k = Len(Path')
    BY <1>1, <1>3, <2>1, <2>3, <2>4, PathStays
  <2> QED BY <2>1, <2>5, TextInner
<1>4. CASE t # "}" /\ t # "quote" BY <1>4 DEF OpenedObject, Return, Running
<1> QED BY <1>2, <1>3, <1>4

(* The values of arrays, and of members. *)
LEMMA ElementTold ==
  ASSUME Shape, Shape', Text, at \in {"opened", "comma"}, in = "array", NEW t, read' = Append(read, t),
         NEW d, NEW b, Value(t, "array", d, b), result' = Running
  PROVE  Text'
<1> DEFINE k == Len(Path)
<1>1. PICK F : Stand(F, k) BY Standing DEF InnerLabels
<1> HIDE DEF k
<1>2. /\ pending = Nought /\ pending # "end" /\ Tidy(heap) /\ Len(stack') <= MaxDepth
  BY DEF Shape, ControlShape, StackShape, Text, Nought
<1>3. /\ Tells(at, pending, element, heap, Path, F, k, read) /\ k = Len(stack) + 1 /\ Path[k] = current
      /\ heap[current].kind = "array" /\ stack \in Seq(Nat) /\ current \in Nat /\ Levels(heap, Path, F, k)
  BY <1>1, <1>2 DEF Stand, Tells
<1>4. Frame(heap, current, F[k]) BY <1>3, LevelsFit DEF Fits
<1>5. read = SoFar(F[k]) /\ KidsOf(heap, current) = F[k].g.kids
  BY <1>3 DEF Tells
<1>6. Ready(heap, current, F[k], element) /\ read = Begun(F[k])
  BY <1>3, <1>4, <1>5, ArrayReady
<1>7. "array" = heap[current].kind BY <1>3
<1> DEFINE where == "array"
<1>8. where = heap[current].kind /\ Value(t, where, d, b) BY <1>7
<1> HIDE DEF where
<1> QED BY <1>2, <1>3, <1>6, <1>8, ValueTold

LEMMA OpenedArrayTold ==
  ASSUME Shape, Shape', Text, NEW t, OpenedArray(t), result' = Running
  PROVE  Text'
<1>1. at = "opened" /\ in = "array" /\ read' = Append(read, t)
  BY DEF OpenedArray, Take
<1>2. CASE t = "]" BY <1>1, <1>2, EmptyTold DEF OpenedArray, Closing
<1>3. CASE t # "]"
  <2>1. Value(t, "array", Deeper, Pushed) BY <1>3 DEF OpenedArray
  <2> DEFINE d == Deeper
             b == Pushed
  <2>2. Value(t, "array", d, b) /\ at \in {"opened", "comma"} BY <1>1, <2>1
  <2> HIDE DEF d, b
  <2> QED BY <1>1, <2>2, ElementTold
<1> QED BY <1>2, <1>3

LEMMA NextElementTold ==
  ASSUME Shape, Shape', Text, NEW t, NextElement(t), result' = Running
  PROVE  Text'
<1>1. at \in {"opened", "comma"} /\ in = "array" /\ read' = Append(read, t) /\ Value(t, "array", depth, bits)
  BY DEF NextElement, Take
<1> QED BY <1>1, ElementTold

LEMMA NextKeyTold ==
  ASSUME Shape, Text, NEW t, NextKey(t), result' = Running
  PROVE  Text'
<1>1. at = "comma" /\ read' = Append(read, t) BY DEF NextKey, Take
<1>2. /\ t = "quote" /\ at' = "key" /\ pending' = pending /\ heap' = heap /\ stack' = stack /\ current' = current
      /\ element' = element /\ Tidy(heap) /\ at' \in InnerLabels
  <2>1. t = "quote" BY DEF NextKey, Return, Running
  <2> QED BY <2>1 DEF NextKey, Goto, parser, Text, InnerLabels
<1> DEFINE k == Len(Path)
<1>3. PICK F : Stand(F, k) BY <1>1, Standing DEF InnerLabels
<1> HIDE DEF k
<1>4. Tells("comma", pending, element, heap, Path, F, k, read) /\ k = Len(Path)
  BY <1>1, <1>3 DEF Stand
<1>5. Tells("key", pending, element, heap, Path, F, k, Append(read, "quote"))
  BY <1>4 DEF Tells
<1>6. Tells(at', pending', element', heap', Path', F, k, read') /\ k = Len(Path')
  BY <1>1, <1>2, <1>4, <1>5, PathStays
<1> QED BY <1>2, <1>6, TextInner

LEMMA ColonTold ==
  ASSUME Shape, Text, NEW t, Colon(t), result' = Running
  PROVE  Text'
<1>1. at = "colon" /\ read' = Append(read, t) BY DEF Colon, Take
<1>2. /\ t = ":" /\ at' = "value" /\ pending' = pending /\ heap' = heap /\ stack' = stack /\ current' = current
      /\ element' = element /\ Tidy(heap) /\ at' \in InnerLabels
  <2>1. t = ":" BY DEF Colon, Return, Running
  <2> QED BY <2>1 DEF Colon, Goto, parser, Text, InnerLabels
<1> DEFINE k == Len(Path)
<1>3. PICK F : Stand(F, k) BY <1>1, Standing DEF InnerLabels
<1> HIDE DEF k
<1>4. Tells("colon", pending, element, heap, Path, F, k, read) /\ k = Len(Path) /\ heap[Path[k]].kind = "object"
  <2>1. in = "object" BY <1>1 DEF Shape, ControlShape
  <2> QED BY <1>1, <1>3, <2>1 DEF Stand
<1>5. Append(read, ":") = Begun(F[k])
  <2>1. KeyOk("object", F[k].key) /\ read = Append(Append(SoFar(F[k]), "quote"), F[k].key)
    BY <1>4 DEF Tells, Ready
  <2>2. Frame(heap, Path[k], F[k]) BY <1>4, LevelsFit DEF Fits, Tells
  <2>3. BegunTexts("object", F[k]) BY <1>4, <2>1, <2>2, BegunIs
  <2> QED BY <2>1, <2>3 DEF BegunTexts
<1>6. Tells("value", pending, element, heap, Path, F, k, Append(read, ":"))
  BY <1>4, <1>5 DEF Tells
<1>7. Tells(at', pending', element', heap', Path', F, k, read') /\ k = Len(Path')
  BY <1>1, <1>2, <1>4, <1>6, PathStays
<1> QED BY <1>2, <1>7, TextInner

LEMMA MemberValueTold ==
  ASSUME Shape, Shape', Text, NEW t, MemberValue(t), result' = Running
  PROVE  Text'
<1>1. at = "value" /\ in = "object" /\ read' = Append(read, t) /\ Value(t, "object", depth, bits)
  BY DEF MemberValue, Take, Shape, ControlShape
<1> DEFINE k == Len(Path)
<1>2. PICK F : Stand(F, k) BY <1>1, Standing DEF InnerLabels
<1> HIDE DEF k
<1>3. /\ pending = Nought /\ pending # "end" /\ Tidy(heap) /\ Len(stack') <= MaxDepth
  BY <1>1 DEF Shape, ControlShape, StackShape, Text, Nought
<1>4. /\ Tells(at, pending, element, heap, Path, F, k, read) /\ k = Len(stack) + 1 /\ Path[k] = current
      /\ heap[current].kind = "object" /\ stack \in Seq(Nat) /\ current \in Nat /\ Levels(heap, Path, F, k)
  BY <1>1, <1>2, <1>3 DEF Stand, Tells
<1>5. read = Begun(F[k]) /\ Ready(heap, current, F[k], element)
  BY <1>1, <1>4 DEF Tells
<1> DEFINE where == "object"
<1>6. where = heap[current].kind /\ Value(t, where, depth, bits) BY <1>1, <1>4
<1> HIDE DEF where
<1> QED BY <1>1, <1>3, <1>4, <1>5, <1>6, ValueTold

(* A key: its document is null, new or emptied. *)
LEMMA KeyPut ==
  ASSUME Tidy(heap), NEW Q, NEW F, NEW k, Levels(heap, Q, F, k), Q[k] = current,
         heap[current].kind = "object", KidsOf(heap, current) = F[k].g.kids,
         NEW t \in Contents, F[k].key = t, VisitKey(t)
  PROVE  PutIn(heap, heap', Q, F, k, element', Leaf("null", ""))
<1> DEFINE leaf == Leaf("null", "")
           had == {i \in DOMAIN heap[current].kids : heap[current].kids[i][1] = t}
<1>1. Fresh(leaf) BY LeafFresh DEF Kinds
<1>2. current \in 1 .. Len(heap) BY LevelsFit DEF Fits
<1>3. CASE had # {}
  <2> DEFINE j == CHOOSE i \in had : TRUE
             m == heap[current].kids[j][2]
  <2>1. j \in had BY <1>3, Zenon
  <2>2. j \in DOMAIN heap[current].kids /\ heap[current].kids[j][1] = t
    BY <2>1, SMTT(60)
  <2>3. heap' = [heap EXCEPT ![m] = leaf] /\ element' = m BY <1>3 DEF VisitKey
  <2> HIDE DEF j, had, leaf
  <2>4. Slot(heap, current, KidsOf(heap, current), heap[current].kids[j][1], heap[current].kids[j][2])
    BY <1>2, <2>2, SlotHad
  <2>5. Slot(heap, Q[k], F[k].g.kids, F[k].key, m) BY <2>2, <2>4
  <2> HIDE DEF m
  <2>6. PutIn(heap, [heap EXCEPT ![m] = leaf], Q, F, k, m, leaf)
    BY <1>1, <2>5, PutsOver
  <2> QED BY <2>3, <2>6 DEF leaf
<1>4. CASE had = {}
  <2>1. heap' = Attach(heap, Q[k], F[k].key, leaf) /\ element' = Len(heap) + 1
    BY <1>4 DEF VisitKey, New
  <2>2. NewKey(heap, Q[k], F[k].key) BY <1>4 DEF NewKey
  <2>3. KidsOf(heap, Q[k]) = F[k].g.kids OBVIOUS
  <2> HIDE DEF leaf, had
  <2>4. PutIn(heap, Attach(heap, Q[k], F[k].key, leaf), Q, F, k, Len(heap) + 1, leaf)
    BY <1>1, <2>2, <2>3, PutsLast
  <2> QED BY <2>1, <2>4 DEF leaf
<1> QED BY <1>3, <1>4

LEMMA KeyTold ==
  ASSUME Shape, Text, NEW t \in Inside, Key(t), result' = Running
  PROVE  Text'
<1>1. /\ t \in Contents /\ VisitKey(t) /\ at = "key" /\ at' = "colon" /\ pending' = pending
      /\ stack' = stack /\ current' = current /\ read' = Append(read, t)
  BY DEF Key, Take, Goto, Return, Running, Inside
<1>2. pending = Nought /\ pending # "end" /\ in = "object" /\ Tidy(heap)
  BY <1>1 DEF Shape, ControlShape, Text, Nought
<1> DEFINE k == Len(Path)
<1>3. PICK F : Stand(F, k) BY <1>1, Standing DEF InnerLabels
<1> HIDE DEF k
<1>4. /\ Tells("key", pending, element, heap, Path, F, k, read) /\ k = Len(Path) /\ Path[k] = current
      /\ heap[current].kind = "object"
  BY <1>1, <1>2, <1>3 DEF Stand
<1>5. Levels(heap, Path, F, k) /\ read = Append(SoFar(F[k]), "quote") /\ KidsOf(heap, current) = F[k].g.kids
  BY <1>4 DEF Tells
<1> DEFINE f == [pre |-> F[k].pre, g |-> F[k].g, key |-> t]
           G == Topped(F, k, f)
<1>6. f.pre = F[k].pre /\ f.g = F[k].g /\ f.key = t OBVIOUS
<1> HIDE DEF f
<1>7. Fits(heap, Path, F, k) BY <1>5, LevelsFit
<1>8. Frame(heap, Path[k], f) /\ f.g.nest + k <= MaxDepth + 1
  BY <1>4, <1>6, <1>7 DEF Frame, Fits
<1>9. Levels(heap, Path, G, k) /\ G[k] = f BY <1>5, <1>6, <1>8, LevelsTop
<1> HIDE DEF G
<1> DEFINE leaf == Leaf("null", "")
           g == heap'
           m == element'
           Q == Path
<1>10. PutIn(heap, g, Q, G, k, m, leaf)
  <2>1. Tidy(heap) /\ Levels(heap, Path, G, k) /\ Path[k] = current /\ KidsOf(heap, current) = G[k].g.kids /\ G[k].key = t
    BY <1>2, <1>4, <1>5, <1>6, <1>9
  <2> HIDE DEF leaf
  <2>2. PutIn(heap, heap', Path, G, k, element', Leaf("null", ""))
    BY <1>1, <1>4, <2>1, KeyPut
  <2> QED BY <2>2 DEF leaf
<1>11. Q[k] = current /\ Path' = Q /\ k = Len(Q) BY <1>1, <1>4, PathStays
<1> HIDE DEF g, m, leaf, Q
<1>12. Tidy(g) /\ Levels(g, Q, G, k) /\ Slot(g, Q[k], G[k].g.kids, G[k].key, m) /\ g[m] = leaf /\ g[Q[k]].kind = "object"
  BY <1>4, <1>10, <1>11 DEF PutIn
<1>13. Ready(g, Q[k], G[k], m) BY <1>1, <1>6, <1>9, <1>12 DEF Ready, KeyOk, leaf
<1>14. read' = Append(Append(SoFar(G[k]), "quote"), G[k].key)
  BY <1>1, <1>5, <1>6, <1>9 DEF SoFar
<1>15. Tells("colon", pending', m, g, Q, G, k, read')
  BY <1>12, <1>13, <1>14 DEF Tells
<1>16. Tells(at', pending', element', heap', Path', G, k, read') /\ k = Len(Path') /\ Tidy(heap') /\ at' \in InnerLabels
  BY <1>1, <1>11, <1>12, <1>15 DEF g, m, InnerLabels
<1> QED BY <1>16, TextInner

(* A value has been put where it belongs; a label that waits for more. *)
LEMMA NextTells ==
  ASSUME NEW g, NEW Q, NEW F, NEW k, Levels(g, Q, F, k), NEW v, NEW r, Done(g, Q[k], F[k], v, r),
         v.nest + k <= MaxDepth + 1, NEW e, NEW p, p \notin Scalars \cup Refused
  PROVE  Tells("next", p, e, g, Q, F, k, r)
BY DEF Tells

LEMMA StringTold ==
  ASSUME Shape, Text, NEW t \in Inside, String(t), result' = Running
  PROVE  Text'
<1> DEFINE leaf == Leaf("string", t)
           v == StringValue(t)
<1>1. /\ t \in Contents /\ at = "string" /\ at' = "next" /\ pending' = Nought /\ heap' = PutValue(heap, in, current, leaf)
      /\ stack' = stack /\ current' = current /\ element' = element /\ read' = Append(read, t)
  BY DEF String, Take, Goto, Return, Running, Inside
<1>2. pending = Nought /\ pending # "end" /\ in \in {"object", "array"} /\ Tidy(heap)
  BY <1>1 DEF Shape, ControlShape, Text, Nought
<1> DEFINE k == Len(Path)
<1>3. PICK F : Stand(F, k) BY <1>1, Standing DEF InnerLabels
<1> HIDE DEF k
<1>4. /\ Tells("string", pending, element, heap, Path, F, k, read) /\ k = Len(Path) /\ Path[k] = current
      /\ heap[current].kind = in /\ k \in Nat
  BY <1>1, <1>2, <1>3 DEF Stand
<1>5. Levels(heap, Path, F, k) /\ read = Append(Begun(F[k]), "quote") /\ Ready(heap, Path[k], F[k], element)
  BY <1>4 DEF Tells
<1>6. Fresh(leaf) BY <1>1, LeafFresh DEF Kinds
<1>7. IsValue(v) /\ v.text = <<"quote", t>> /\ v.nest = 0 /\ v.value = leaf
  BY <1>1, StringIs DEF StringValue
<1> HIDE DEF leaf, v
<1> DEFINE Q == Path
           g == heap'
           m == NewOf(heap, in)
<1>8. PutIn(heap, g, Q, F, k, m, leaf)
  <2>1. in = heap[Path[k]].kind BY <1>4
  <2>2. PutIn(heap, PutValue(heap, in, Path[k], leaf), Path, F, k, NewOf(heap, in), leaf)
    BY <1>2, <1>5, <1>6, <2>1, PutsIn
  <2> QED BY <2>2, <1>1, <1>4
<1>9. Path' = Q /\ k = Len(Q) /\ KeyOk(heap[Q[k]].kind, F[k].key)
  <2>1. Nought # "end" BY DEF Nought
  <2>2. Path' = Path BY <1>1, <1>2, <2>1 DEF Path, PathOf
  <2> QED BY <2>2, <1>4, <1>5 DEF Ready
<1> HIDE DEF Q, g, m
<1>10. Done(g, Q[k], F[k], v, Begun(F[k]) \o v.text)
  BY <1>6, <1>7, <1>8, <1>9, PutDone
<1>11. Tidy(g) /\ Levels(g, Q, F, k) /\ Fits(g, Q, F, k)
  BY <1>8, LevelsFit DEF PutIn
<1>12. Begun(F[k]) \in Seq(Token)
  <2>1. Frame(heap, Path[k], F[k]) /\ KeyOk(heap[Path[k]].kind, F[k].key)
    BY <1>5, LevelsFit DEF Fits, Ready
  <2> QED BY <2>1, BegunIs DEF BegunTexts
<1>13. read' = Begun(F[k]) \o v.text
  <2> DEFINE s == Begun(F[k])
  <2>1. s \in Seq(Token) /\ "quote" \in Token /\ t \in Token /\ read' = Append(Append(s, "quote"), t)
    BY <1>1, <1>5, <1>12, Tokens
  <2> HIDE DEF s
  <2>2. Trails(s, "quote", t, t) BY <2>1, TrailsAre
  <2> QED BY <2>1, <2>2, <1>7 DEF Trails, s
<1>14. v.nest + k <= MaxDepth + 1
  <2>1. F[k].g.nest \in Nat BY <1>11, FrameTexts DEF Fits, TextsOf
  <2> DEFINE a == F[k].g.nest
  <2>2. a \in Nat /\ k \in Nat /\ a + k <= MaxDepth + 1 /\ MaxDepth \in Nat
    BY <2>1, <1>4, <1>11, DepthAssumption DEF Fits
  <2> HIDE DEF a
  <2>3. 0 + k <= MaxDepth + 1 BY <2>2
  <2> QED BY <2>3, <1>7
<1>15. Nought \notin Scalars \cup Refused BY TokenAssumption DEF Nought, Outside
<1>16. Tells("next", Nought, element, g, Q, F, k, read')
  <2> DEFINE p == Nought
             r == read'
  <2>1. Done(g, Q[k], F[k], v, r) /\ p \notin Scalars \cup Refused
    BY <1>10, <1>13, <1>15
  <2> HIDE DEF p, r
  <2>2. Tells("next", p, element, g, Q, F, k, r)
    BY <2>1, <1>11, <1>14, NextTells
  <2> QED BY <2>2 DEF p, r
<1>17. Tells(at', pending', element', heap', Path', F, k, read') /\ k = Len(Path') /\ Tidy(heap') /\ at' \in InnerLabels
  BY <1>1, <1>9, <1>11, <1>16 DEF g, InnerLabels
<1> QED BY <1>17, TextInner

(* The visit that waited: what is open holds one value more. *)
VisitDone(g, Q, F, k) ==
  /\ Tidy(g) /\ Levels(g, Q, F, k) /\ g[Q[k]].kind = in
  /\ \E v : Done(g, Q[k], F[k], v, read) /\ v.nest + k <= MaxDepth + 1

LEMMA ScalarPut ==
  ASSUME Tidy(heap), pending \in Scalars, in \in {"object", "array"}, NEW Q, NEW F, NEW k,
         Levels(heap, Q, F, k), Q[k] = current, heap[current].kind = in,
         Ready(heap, current, F[k], element)
  PROVE  PutIn(heap, VisitScalar(heap, in, current), Q, F, k, NewOf(heap, in), ScalarLeaf(pending))
<1> DEFINE leaf == ScalarLeaf(pending)
<1>1. Fresh(leaf) BY ScalarFresh
<1>2. CASE pending = Null /\ in # "array"
  <2>1. VisitScalar(heap, in, current) = heap /\ in = "object" /\ leaf = Leaf("null", "") /\ NewOf(heap, in) = element
    BY <1>2 DEF VisitScalar, ScalarLeaf, NewOf
  <2>2. Slot(heap, current, F[k].g.kids, F[k].key, element) /\ heap[element] = leaf
    BY <2>1 DEF Ready
  <2>3. element \in 1 .. Len(heap)
    <3>1. \E j \in DOMAIN heap[current].kids : heap[current].kids[j][2] = element
      BY <2>2 DEF Slot, SlotAt
    <3>2. current \in 1 .. Len(heap) /\ Heap(heap) BY LevelsFit DEF Fits, Tidy
    <3>3. element \in current + 1 .. Len(heap) BY <3>1, <3>2, KidsDo DEF KidsFit
    <3> QED BY <3>2, <3>3
  <2> HIDE DEF leaf
  <2> QED BY <2>1, <2>2, <2>3 DEF PutIn, leaf
<1>3. CASE ~(pending = Null /\ in # "array")
  <2>1. VisitScalar(heap, in, current) = PutValue(heap, in, Q[k], leaf)
    BY <1>3 DEF VisitScalar
  <2>2. in = heap[Q[k]].kind /\ Ready(heap, Q[k], F[k], element) OBVIOUS
  <2> HIDE DEF leaf
  <2>3. PutIn(heap, PutValue(heap, in, Q[k], leaf), Q, F, k, NewOf(heap, in), leaf)
    BY <1>1, <2>2, PutsIn
  <2> QED BY <2>1, <2>3 DEF leaf
<1> QED BY <1>2, <1>3

LEMMA VisitTold ==
  ASSUME Shape, Text, at = "next", pending \notin Refused, NEW F, NEW k, Stand(F, k)
  PROVE  VisitDone(IF pending \in Scalars THEN VisitScalar(heap, in, current) ELSE heap, Path, F, k)
<1>1. /\ Tells("next", pending, element, heap, Path, F, k, read) /\ k = Len(Path) /\ heap[Path[k]].kind = in
      /\ Levels(heap, Path, F, k) /\ Tidy(heap) /\ in \in {"object", "array"} /\ k \in Nat
  BY DEF Stand, Tells, Text
<1>2. CASE pending \notin Scalars
  <2>1. \E v : Done(heap, Path[k], F[k], v, read) /\ v.nest + k <= MaxDepth + 1
    BY <1>1, <1>2 DEF Tells
  <2> QED BY <1>1, <1>2, <2>1 DEF VisitDone
<1>3. CASE pending \in Scalars
  <2> DEFINE leaf == ScalarLeaf(pending)
             v == ScalarValue(pending)
             g == VisitScalar(heap, in, current)
             m == NewOf(heap, in)
             Q == Path
  <2>1. pending # "end" BY <1>3, TokenAssumption DEF Outside
  <2>2. Path[k] = current /\ Ready(heap, current, F[k], element) /\ read = Append(Begun(F[k]), pending)
    <3>1. Path[k] = current BY <2>1 DEF Stand
    <3>2. Ready(heap, Path[k], F[k], element) /\ read = Append(Begun(F[k]), pending)
      BY <1>1, <1>3 DEF Tells
    <3> QED BY <3>1, <3>2
  <2>3. PutIn(heap, g, Q, F, k, m, leaf)
    <3>1. heap[current].kind = in BY <1>1, <2>2
    <3> QED BY <1>1, <1>3, <2>2, <3>1, ScalarPut
  <2>4. Fresh(leaf) /\ IsValue(v) /\ v.value = leaf /\ v.nest = 0 /\ v.text = <<pending>>
    BY <1>3, ScalarFresh, ScalarIs DEF ScalarValue
  <2> HIDE DEF leaf, v, g, m
  <2>5. KeyOk(heap[Q[k]].kind, F[k].key) /\ Q[k] = current BY <2>2 DEF Ready
  <2> HIDE DEF Q
  <2>6. Done(g, Q[k], F[k], v, Begun(F[k]) \o v.text)
    BY <2>3, <2>4, <2>5, PutDone
  <2>7. Begun(F[k]) \in Seq(Token)
    <3>1. Frame(heap, Path[k], F[k]) /\ KeyOk(heap[Path[k]].kind, F[k].key)
      BY <1>1, <2>2, LevelsFit DEF Fits, Ready
    <3> QED BY <3>1, BegunIs DEF BegunTexts
  <2>8. read = Begun(F[k]) \o v.text
    <3> DEFINE s == Begun(F[k])
    <3>1. s \in Seq(Token) /\ pending \in Token /\ read = Append(s, pending)
      BY <1>3, <2>2, <2>7, Tokens
    <3> HIDE DEF s
    <3>2. Trails(s, pending, pending, pending) BY <3>1, TrailsAre
    <3> QED BY <3>1, <3>2, <2>4 DEF Trails, s
  <2>9. Tidy(g) /\ Levels(g, Q, F, k) /\ g[Q[k]].kind = in
    BY <1>1, <2>3 DEF PutIn, Q
  <2>10. v.nest + k <= MaxDepth + 1
    <3>1. Fits(g, Q, F, k) BY <2>9, LevelsFit
    <3>2. F[k].g.nest \in Nat BY <3>1, FrameTexts DEF Fits, TextsOf
    <3> DEFINE a == F[k].g.nest
    <3>3. a \in Nat /\ k \in Nat /\ a + k <= MaxDepth + 1 /\ MaxDepth \in Nat
      BY <1>1, <3>1, <3>2, DepthAssumption DEF Fits
    <3> HIDE DEF a
    <3>4. 0 + k <= MaxDepth + 1 BY <3>3
    <3> QED BY <3>4, <2>4
  <2>11. VisitDone(g, Q, F, k) BY <2>6, <2>8, <2>9, <2>10 DEF VisitDone
  <2> QED BY <2>11, <1>3 DEF g, Q
<1> QED BY <1>2, <1>3

(* The stack without its last pointer. *)
FrontOf(s) ==
  /\ Front(s) \in Seq(Nat) /\ Len(Front(s)) = Len(s) - 1 /\ Append(Front(s), Last(s)) = s
  /\ \A i \in 1 .. Len(s) - 1 : Front(s)[i] = s[i]

LEMMA FrontIs == ASSUME NEW s \in Seq(Nat), Len(s) # 0 PROVE FrontOf(s)
<1> DEFINE n == Len(s) - 1
           f == Front(s)
           c == Last(s)
           r == Append(f, c)
<1>1. Len(s) \in Nat /\ n \in Nat /\ n + 1 = Len(s) /\ n + 1 \in 1 .. Len(s)
  OBVIOUS
<1>2. f = SubSeq(s, 1, n) /\ c = s[n + 1] BY <1>1 DEF Front, Last
<1> HIDE DEF f, c
<1>3. f \in Seq(Nat) /\ Len(f) = n /\ \A i \in 1 .. n : f[i] = s[i]
  BY <1>1, <1>2
<1>4. c \in Nat BY <1>1, <1>2
<1>5. r \in Seq(Nat) /\ Len(r) = n + 1 /\ r[n + 1] = c /\ \A i \in 1 .. n : r[i] = f[i]
  <2> HIDE DEF n
  <2>1. /\ Append(f, c) \in Seq(Nat) /\ Len(Append(f, c)) = Len(f) + 1 /\ Append(f, c)[Len(f) + 1] = c
        /\ \A i \in 1 .. Len(f) : Append(f, c)[i] = f[i]
    BY <1>3, <1>4, Appending
  <2> QED BY <2>1, <1>3
<1> HIDE DEF r, n
<1>6. \A i \in 1 .. Len(r) : r[i] = s[i]
  <2>1. \A i \in 1 .. n + 1 : i = n + 1 \/ i \in 1 .. n BY <1>1
  <2> QED BY <2>1, <1>2, <1>3, <1>5
<1>7. r = s BY <1>1, <1>5, <1>6, SeqEqual
<1> QED BY <1>1, <1>3, <1>7 DEF FrontOf, f, c, r, n

(* Where the parse stands when the visit is done. *)
LeftAt(k) ==
  /\ Append(Left.stack, Left.current) = Path /\ Len(Left.stack) = k - 1
  /\ \A i \in 1 .. k - 1 : Left.stack[i] = Path[i]

LEMMA LeftIs == ASSUME NEW F, NEW k, Stand(F, k) PROVE LeftAt(k)
<1>1. k = Len(Path) /\ k \in Nat /\ stack \in Seq(Nat) BY DEF Stand
<1>2. CASE pending = "end"
  <2>1. Path = stack /\ k = Len(stack) BY <1>2 DEF Stand
  <2>2. k # 0 BY LevelsFit DEF Stand, Tells, Fits
  <2>3. FrontOf(stack) BY <1>1, <2>1, <2>2, FrontIs
  <2>4. Left.stack = Front(stack) /\ Left.current = Last(stack) BY <1>2 DEF Left
  <2> QED BY <2>1, <2>3, <2>4 DEF FrontOf, LeftAt
<1>3. CASE pending # "end"
  <2>1. k = Len(stack) + 1 /\ (\A i \in 1 .. Len(stack) : Path[i] = stack[i]) /\ Path = Append(stack, current)
    BY <1>3 DEF Stand
  <2>2. Left.stack = stack /\ Left.current = current BY <1>3 DEF Left
  <2>3. Len(stack) = k - 1 BY <1>1, <2>1
  <2> QED BY <2>1, <2>2, <2>3 DEF LeftAt
<1> QED BY <1>2, <1>3

(* Behind a value: a comma, or what closes the container. *)
Behind(h, Q, F, k, r) ==
  /\ Levels(h, Q, F, k) /\ KidsOf(h, Q[k]) = F[k].g.kids
  /\ F[k].g.text # <<>> /\ r = F[k].pre \o F[k].g.text

LEMMA CommaTold ==
  ASSUME NEW h, NEW Q, NEW F, NEW k, NEW r, Behind(h, Q, F, k, r), NEW p, NEW e
  PROVE  Tells("comma", p, e, h, Q, F, k, Append(r, ","))
<1>1. Levels(h, Q, F, k) /\ KidsOf(h, Q[k]) = F[k].g.kids BY DEF Behind
<1>2. TextsOf(F[k]) BY <1>1, LevelsFit, FrameTexts DEF Fits
<1>3. Append(r, ",") = SoFar(F[k]) BY <1>2 DEF TextsOf, Behind
<1> QED BY <1>1, <1>3 DEF Tells

LEMMA BehindIs ==
  ASSUME NEW h, NEW Q, NEW F, NEW k, VisitDone(h, Q, F, k)
  PROVE  \E G : Behind(h, Q, G, k, read)
<1>1. Levels(h, Q, F, k) BY DEF VisitDone
<1> PICK v : Done(h, Q[k], F[k], v, read) /\ v.nest + k <= MaxDepth + 1
  BY DEF VisitDone
<1>2. GrownTo(h, Q, F, k, v, read) BY <1>1, Grows_
<1> DEFINE G == Topped(F, k, Grown(F[k], v))
<1>3. Behind(h, Q, G, k, read)
  <2> DEFINE f == Grown(F[k], v)
  <2>1. Levels(h, Q, G, k) /\ G[k] = f /\ KidsOf(h, Q[k]) = f.g.kids /\ f.g.text # <<>> /\ read = f.pre \o f.g.text
    BY <1>2 DEF GrownTo
  <2> HIDE DEF G, f
  <2> QED BY <2>1 DEF Behind
<1> QED BY <1>3

LEMMA NextTold ==
  ASSUME Shape, Text, NEW t, Next_(t), result' = Running
  PROVE  Text'
<1> DEFINE close == IF in = "object" THEN "}" ELSE "]"
           g == IF pending \in Scalars THEN VisitScalar(heap, in, current) ELSE heap
<1>1. at = "next" /\ read' = Append(read, t) /\ pending \notin Refused
  BY DEF Next_, Take, Return, Running
<1>2. heap' = g /\ current' = Left.current /\ stack' = Left.stack /\ element' = element
  BY DEF Next_, Return, Running
<1>3. \/ t = "," /\ at' = "comma" /\ pending' = Nought
      \/ t = close /\ depth = 0 /\ at' = "trailing"
      \/ t = close /\ depth > 0 /\ at' = "next" /\ pending' = "end"
  BY DEF Next_, Goto, Return, Running
<1> DEFINE k == Len(Path)
<1>4. PICK F : Stand(F, k) BY <1>1, Standing DEF InnerLabels
<1> HIDE DEF k
<1>5. k = Len(Path) /\ (depth = 0 => k = 1) /\ (depth > 0 => k # 1)
  <2>1. depth \in Nat BY DEF Shape, StackShape
  <2>2. k = Len(Path) /\ k = depth + 1 BY <1>1, <1>4 DEF Stand
  <2>3. (depth = 0 => depth + 1 = 1) /\ (depth > 0 => depth + 1 # 1) BY <2>1
  <2> QED BY <2>2, <2>3
<1> DEFINE Q == Path
<1>6. VisitDone(g, Q, F, k) BY <1>1, <1>4, VisitTold
<1> HIDE DEF g
<1>7. LeftAt(k) BY <1>4, LeftIs
<1> HIDE DEF Q
<1>8. PICK G : Behind(g, Q, G, k, read) BY <1>6, BehindIs
<1>9. Tidy(g) /\ g[Q[k]].kind = in /\ in \in {"object", "array"}
  BY <1>4, <1>6 DEF VisitDone, Stand
<1>10. CASE t = "," /\ at' = "comma" /\ pending' = Nought
  <2>1. Path' = Q
    <3>1. Nought # "end" BY DEF Nought
    <3>2. Path' = Append(stack', current') BY <1>10, <3>1 DEF Path, PathOf
    <3> QED BY <3>2, <1>2, <1>7 DEF LeftAt, Q
  <2> DEFINE p == pending'
             e == element'
  <2>2. Tells("comma", p, e, g, Q, G, k, Append(read, ","))
    <3> HIDE DEF p, e
    <3> QED BY <1>8, CommaTold
  <2>3. Tells(at', pending', element', heap', Path', G, k, read') /\ k = Len(Path')
    BY <1>1, <1>2, <1>5, <1>10, <2>1, <2>2 DEF Q
  <2>4. Tidy(heap)' /\ at' \in InnerLabels BY <1>2, <1>9, <1>10 DEF InnerLabels
  <2> QED BY <2>3, <2>4, TextInner
<1>11. ASSUME t = close
       PROVE  /\ k = 1 => WholeAt(g, read')
              /\ k # 1 => \A R, e : (\A i \in 1 .. k - 1 : R[i] = Q[i]) =>
                   Tells("next", "end", e, g, R, G, k - 1, read')
  <2>1. t = Closing(g[Q[k]].kind) BY <1>9, <1>11 DEF Closing
  <2>2. Levels(g, Q, G, k) /\ KidsOf(g, Q[k]) = G[k].g.kids /\ read' = Append(G[k].pre \o G[k].g.text, Closing(g[Q[k]].kind))
    BY <1>1, <1>8, <2>1 DEF Behind
  <2> DEFINE r == read'
  <2> HIDE DEF r
  <2>3. r = Append(G[k].pre \o G[k].g.text, Closing(g[Q[k]].kind)) BY <2>2 DEF r
  <2>4. /\ k = 1 => WholeAt(g, r)
        /\ k # 1 => \A R, e : (\A i \in 1 .. k - 1 : R[i] = Q[i]) =>
             Tells("next", "end", e, g, R, G, k - 1, r)
    BY <1>9, <2>2, <2>3, Closed
  <2> QED BY <2>4 DEF r
<1>12. CASE t = close /\ depth = 0 /\ at' = "trailing"
  <2>1. WholeAt(g, read') BY <1>5, <1>11, <1>12
  <2>2. TellsRoot(at', pending', heap', read') /\ at' \notin InnerLabels
    BY <1>2, <1>12, <2>1 DEF TellsRoot, InnerLabels
  <2>3. Tidy(heap)' BY <1>2, <1>9
  <2> QED BY <2>2, <2>3, TextOuter
<1>13. CASE t = close /\ depth > 0 /\ at' = "next" /\ pending' = "end"
  <2>1. k # 1 BY <1>5, <1>13
  <2> DEFINE R == Left.stack
             K == k - 1
             e == element'
  <2>2. (\A i \in 1 .. k - 1 : R[i] = Q[i]) /\ Len(R) = K BY <1>7 DEF LeftAt, Q
  <2> HIDE DEF R, e
  <2>3. Tells("next", "end", e, g, R, G, k - 1, read')
    BY <1>11, <1>13, <2>1, <2>2
  <2>4. Path' = R BY <1>2, <1>13 DEF Path, PathOf, R
  <2>5. Tells(at', pending', element', heap', Path', G, K, read') /\ K = Len(Path')
    BY <1>2, <1>13, <2>2, <2>3, <2>4 DEF e
  <2>6. Tidy(heap)' /\ at' \in InnerLabels BY <1>2, <1>9, <1>13 DEF InnerLabels
  <2> HIDE DEF K
  <2> QED BY <2>5, <2>6, TextInner
<1> QED BY <1>3, <1>10, <1>12, <1>13

-----------------------------------------------------------------------------
(* What has been read, always. *)

LEMMA InitTold == Init => PInv
<1> SUFFICES ASSUME Init PROVE PInv OBVIOUS
<1> DEFINE leaf == Leaf("null", "")
<1>1. heap = <<leaf>> /\ at = "root" /\ read = <<>> BY DEF Init
<1>2. leaf.kids = <<>> /\ Fresh(leaf) BY LeafFresh DEF Leaf, Kinds
<1>4. VInv /\ result = Running BY InitShape DEF Init
<1>5. Heap(heap) BY <1>4 DEF VInv, DocumentShape, Heap
<1> HIDE DEF leaf
<1>6. heap[1] = leaf /\ \A n \in 1 .. Len(heap) : n = 1
  <2>1. <<leaf>>[1] = leaf /\ Len(<<leaf>>) = 1 OBVIOUS
  <2>2. \A n \in 1 .. 1 : n = 1 OBVIOUS
  <2> QED BY <1>1, <2>1, <2>2
<1>7. \A n \in 1 .. Len(heap) : heap[n].kids = <<>> /\ DOMAIN heap[n].kids = {}
  BY <1>2, <1>6
<1>8. Tidy(heap) BY <1>5, <1>7 DEF Tidy, Single, Keyed
<1>9. TellsRoot(at, pending, heap, read) /\ at \notin InnerLabels
  BY <1>1, <1>6 DEF TellsRoot, InnerLabels, leaf
<1> QED BY <1>8, <1>9 DEF PInv, Text

LEMMA StepTold ==
  ASSUME VInv, VInv', PInv, [Next]_vars
  PROVE  PInv'
<1> SUFFICES ASSUME result' = Running PROVE Text' BY DEF PInv
<1>1. CASE UNCHANGED vars
  <2>1. /\ at' = at /\ pending' = pending /\ heap' = heap /\ read' = read /\ stack' = stack /\ current' = current
        /\ element' = element /\ result' = result
    BY <1>1 DEF vars, visitor, parser
  <2>2. Text BY <2>1 DEF PInv
  <2>3. Told => Told' BY <2>1 DEF Told, Path
  <2> QED BY <2>1, <2>2, <2>3 DEF Text
<1>2. CASE Next
  <2> PICK t \in Offered : Step(t) BY <1>2 DEF Next
  <2>1. result = Running
    BY DEF Step, Root, RootString, RootEnd, OpenedObject, OpenedArray, Key, Colon, MemberValue, String, Next_,
           NextKey, NextElement, Trailing, Take
  <2>2. Shape /\ Shape' /\ Text BY <2>1 DEF VInv, PInv, Shape
  <2>3. CASE Root(t)
    <3>1. t \in Outside BY <2>3 DEF Root, Take, Offered, InString
    <3> QED BY <2>2, <2>3, <3>1, RootTold
  <2>4. CASE RootString(t)
    <3>1. t \in Inside BY <2>4 DEF RootString, Take, Offered, InString
    <3> QED BY <2>2, <2>4, <3>1, RootStringTold
  <2>5. CASE RootEnd(t)
    <3>1. result' # Running BY <2>5 DEF RootEnd, Return, Running
    <3> QED BY <3>1
  <2>6. CASE OpenedObject(t) BY <2>2, <2>6, OpenedObjectTold
  <2>7. CASE OpenedArray(t) BY <2>2, <2>7, OpenedArrayTold
  <2>8. CASE Key(t)
    <3>1. t \in Inside BY <2>8 DEF Key, Take, Offered, InString
    <3> QED BY <2>2, <2>8, <3>1, KeyTold
  <2>9. CASE Colon(t) BY <2>2, <2>9, ColonTold
  <2>10. CASE MemberValue(t) BY <2>2, <2>10, MemberValueTold
  <2>11. CASE String(t)
    <3>1. t \in Inside BY <2>11 DEF String, Take, Offered, InString
    <3> QED BY <2>2, <2>11, <3>1, StringTold
  <2>12. CASE Next_(t) BY <2>2, <2>12, NextTold
  <2>13. CASE NextKey(t) BY <2>2, <2>13, NextKeyTold
  <2>14. CASE NextElement(t) BY <2>2, <2>14, NextElementTold
  <2>15. CASE Trailing(t)
    <3>1. result' # Running BY <2>15 DEF Trailing, Return, Running
    <3> QED BY <3>1
  <2> QED BY <2>3, <2>4, <2>5, <2>6, <2>7, <2>8, <2>9, <2>10, <2>11, <2>12, <2>13, <2>14, <2>15 DEF Step
<1> QED BY <1>1, <1>2

(* At every label of parse the tokens read so far and the documents tell the
   same text: each open container holds what its part of the text denotes. *)
THEOREM TextTold == Spec => []PInv
<1>1. Init => PInv BY InitTold
<1>2. VInv /\ VInv' /\ PInv /\ [Next]_vars => PInv' BY StepTold
<1> QED BY <1>1, <1>2, VisitorInvariant, PTL DEF Spec

(* A text that has been read whole is one of JSON, and denotes its document. *)
LEMMA WholeDenoted ==
  ASSUME NEW h, NEW r, WholeAt(h, r), Len(r) < MaxTokens
  PROVE  <<Append(r, NPOS), Denotes(h)[1]>> \in Denoted
<1> PICK v : IsValue(v) /\ r = v.text /\ v.nest <= MaxDepth + 1 /\ Denotes(h)[1] = v.value
  BY DEF WholeAt
<1> DEFINE n == Len(v.text)
           m == MaxTokens - 1
<1>1. /\ n \in Nat /\ n # 0 /\ m \in Nat /\ n <= m /\ n \in 1 .. m
  <2>1. v.text \in Seq(Token) /\ n # 0 BY DEF IsValue, Spelled
  <2>2. n \in Nat BY <2>1
  <2>3. n < MaxTokens /\ MaxTokens \in Nat BY LengthAssumption
  <2> HIDE DEF n
  <2> QED BY <2>1, <2>2, <2>3
<1>2. v \in Phrases[n].values[n] BY DEF IsValue
<1> HIDE DEF n, m
<1>3. Fixed(n, Phrases[m]) BY <1>1, StaysFixed
<1>4. n \in DOMAIN Phrases[m].values
  <2>1. Long(Phrases[m].values, m) BY <1>1, SizesAre DEF Sizes
  <2> DEFINE s == Phrases[m].values
  <2> HIDE DEF s
  <2>2. Long(s, m) BY <2>1 DEF s
  <2> PICK S : s \in Seq(S) /\ Len(s) = m BY <2>2 DEF Long
  <2>3. DOMAIN s = 1 .. m OBVIOUS
  <2> QED BY <1>1, <2>3 DEF s
<1>5. v \in Phrases[m].values[n] BY <1>2, <1>3, <1>4 DEF Fixed, OfLength
<1>6. v \in Texts BY <1>1, <1>5 DEF Texts, Language, m
<1> QED BY <1>6 DEF Denoted

(* A scalar that is the whole text. *)
LEMMA ScalarWhole ==
  ASSUME Shape, Text, at = "rootEnd", pending \in Scalars
  PROVE  WholeAt(VisitScalar(heap, "root", current), read)
<1> DEFINE leaf == ScalarLeaf(pending)
           v == ScalarValue(pending)
           g == VisitScalar(heap, "root", current)
<1>1. heap[1] = Leaf("null", "") /\ read = <<pending>> /\ Tidy(heap) /\ 1 \in 1 .. Len(heap)
  <2>1. pending # Nought BY TokenAssumption DEF Outside, Nought
  <2>2. TellsRoot(at, pending, heap, read) /\ Tidy(heap) BY DEF Text
  <2>3. heap[1] = Leaf("null", "") /\ read = <<pending>>
    BY <2>1, <2>2 DEF TellsRoot
  <2>4. 1 \in 1 .. Len(heap) BY DEF Shape, DocumentShape
  <2> QED BY <2>2, <2>3, <2>4
<1>2. Fresh(leaf) BY ScalarFresh
<1>3. Heap(g) /\ 1 \in 1 .. Len(g) /\ g[1] = leaf
  <2>1. CASE pending = Null
    <3>1. g = heap /\ leaf = Leaf("null", "")
      BY <2>1 DEF VisitScalar, ScalarLeaf
    <3> QED BY <3>1, <1>1 DEF Tidy
  <2>2. CASE pending # Null
    <3>1. g = [heap EXCEPT ![1] = leaf] BY <2>2 DEF VisitScalar, PutValue
    <3> HIDE DEF g, leaf
    <3>2. Over(heap, [heap EXCEPT ![1] = leaf], 1, leaf)
      BY <1>1, <1>2, OverIs DEF Tidy
    <3> QED BY <3>1, <3>2, <1>1 DEF Over
  <2> QED BY <2>1, <2>2
<1>4. IsValue(v) /\ v.text = <<pending>> /\ v.nest = 0 /\ v.value = leaf
  BY ScalarIs DEF ScalarValue
<1> HIDE DEF g, leaf, v
<1>5. Denotes(g)[1] = leaf BY <1>2, <1>3, FreshAlone DEF Alone
<1>6. 0 <= MaxDepth + 1 BY DepthAssumption
<1>7. WholeAt(g, read) BY <1>1, <1>4, <1>5, <1>6 DEF WholeAt
<1> QED BY <1>7 DEF g

LEMMA StepSound ==
  ASSUME VInv, PInv, Sound, [Next]_vars
  PROVE  Sound'
<1> SUFFICES ASSUME result' = "SUCCESS" PROVE <<read', Denotes(heap')[1]>> \in Denoted
  BY DEF Sound, Document
<1>1. CASE UNCHANGED vars
  <2>1. heap' = heap /\ read' = read /\ result' = result
    BY <1>1 DEF vars, parser
  <2> QED BY <2>1 DEF Sound, Document
<1>2. CASE Next
  <2> PICK t \in Offered : Step(t) BY <1>2 DEF Next
  <2>1. result = Running /\ read' = Append(read, t) /\ Len(read) < MaxTokens
    BY <1>2 DEF Next, Step, Root, RootString, RootEnd, OpenedObject, OpenedArray, Key, Colon, MemberValue, String, Next_,
           NextKey, NextElement, Trailing, Take
  <2>2. Shape /\ Text BY <2>1 DEF VInv, PInv, Shape
  <2>3. RootEnd(t) \/ Trailing(t)
    <3>1. ~(OpenedObject(t) \/ OpenedArray(t) \/ Key(t) \/ Colon(t))
      BY DEF OpenedObject, OpenedArray, Key, Colon, Value, Empty, Go, Return, Running
    <3>2. ~(MemberValue(t) \/ NextElement(t) \/ NextKey(t) \/ String(t))
      BY DEF MemberValue, NextElement, NextKey, String, Value, Go, Return, Running
    <3>3. ~(Root(t) \/ RootString(t) \/ Next_(t))
      BY DEF Root, RootString, Next_, Go, Return, Running
    <3> QED BY <3>1, <3>2, <3>3 DEF Step
  <2>4. t = NPOS /\ WholeAt(heap', read)
    <3>1. CASE Trailing(t)
      <4>1. at = "trailing" /\ t = NPOS /\ heap' = heap
        BY <3>1 DEF Trailing, Take, Return, parser
      <4> QED BY <4>1, <2>2 DEF Text, TellsRoot
    <3>2. CASE RootEnd(t)
      <4>0. at = "rootEnd" BY <3>2 DEF RootEnd, Take
      <4>1. at = "rootEnd" /\ t = NPOS
        <5>1. ASSUME t # NPOS PROVE result' = "TAPE_ERROR"
          BY <3>2, <5>1 DEF RootEnd, Return
        <5> QED BY <4>0, <5>1
      <4>2. CASE pending = Nought
        <5>1. heap' = heap
          <6>1. Return("SUCCESS")
            BY <3>2, <4>1, <4>2, TokenAssumption DEF RootEnd, Nought, Outside
          <6> QED BY <6>1 DEF Return, parser
        <5> QED BY <4>1, <4>2, <5>1, <2>2 DEF Text, TellsRoot
      <4>3. CASE pending # Nought
        <5>1. pending \in Scalars /\ heap' = VisitScalar(heap, "root", current)
          BY <3>2, <4>1, <4>3 DEF RootEnd, Return
        <5> QED BY <4>1, <5>1, <2>2, ScalarWhole
      <4> QED BY <4>2, <4>3
    <3> QED BY <2>3, <3>1, <3>2
  <2> DEFINE h == heap'
             r == read
  <2>5. WholeAt(h, r) /\ Len(r) < MaxTokens BY <2>1, <2>4
  <2> HIDE DEF h, r
  <2>6. <<Append(r, NPOS), Denotes(h)[1]>> \in Denoted BY <2>5, WholeDenoted
  <2> QED BY <2>1, <2>4, <2>6 DEF h, r
<1> QED BY <1>1, <1>2

(* What parse accepts is a text of JSON, and the document it leaves is the
   value of that text. *)
THEOREM ParseSound == Spec => []Sound
<1>1. Init => Sound BY DEF Init, Sound, Running
<1>2. VInv /\ PInv /\ Sound /\ [Next]_vars => Sound' BY StepSound
<1> QED BY <1>1, <1>2, VisitorInvariant, TextTold, PTL DEF Spec

-----------------------------------------------------------------------------
(* How many containers are open. *)

Counted(r, T) == Cardinality({i \in DOMAIN r : r[i] \in T})
Counts(r, t, T) ==
  /\ Counted(r, T) \in Nat /\ Counted(Append(r, t), T) \in Nat
  /\ t \in T => Counted(Append(r, t), T) = Counted(r, T) + 1
  /\ t \notin T => Counted(Append(r, t), T) = Counted(r, T)

LEMMA CountsIs ==
  ASSUME NEW r \in Seq(Token), NEW t \in Token, NEW T
  PROVE  Counts(r, t, T)
<1> DEFINE n == Len(r)
           s == Append(r, t)
           A == {i \in DOMAIN r : r[i] \in T}
           B == {i \in DOMAIN s : s[i] \in T}
<1>1. n \in Nat /\ DOMAIN r = 1 .. n OBVIOUS
<1>2. s \in Seq(Token) /\ Len(s) = n + 1 /\ s[n + 1] = t /\ \A i \in 1 .. n : s[i] = r[i]
  <2> HIDE DEF Token
  <2> QED BY Appending
<1>3. DOMAIN s = 1 .. n + 1
  <2> HIDE DEF s, n
  <2> QED BY <1>2
<1>4. A = {i \in 1 .. n : r[i] \in T} /\ B = {i \in 1 .. n + 1 : s[i] \in T}
  BY <1>1, <1>3
<1> HIDE DEF s, n, A, B
<1>5. IsFiniteSet(A)
  <2>1. IsFiniteSet(1 .. n) BY <1>1, FS_Interval
  <2>2. A \subseteq 1 .. n BY <1>4
  <2> QED BY <2>1, <2>2, FS_Subset
<1>6. n + 1 \notin A /\ \A i \in 1 .. n + 1 : i \in 1 .. n \/ i = n + 1
  BY <1>1, <1>4
<1>7. \A i \in 1 .. n : i \in 1 .. n + 1 /\ i # n + 1 BY <1>1
<1>8. n + 1 \in 1 .. n + 1 BY <1>1
<1>9. Cardinality(A) \in Nat BY <1>5, FS_CardinalityType
<1>10. ASSUME t \in T PROVE Cardinality(B) = Cardinality(A) + 1
  <2>1. B = A \cup {n + 1} BY <1>2, <1>4, <1>6, <1>7, <1>8, <1>10
  <2>2. Cardinality(A \cup {n + 1}) = Cardinality(A) + 1
    BY <1>5, <1>6, FS_AddElement
  <2> QED BY <2>1, <2>2
<1>11. ASSUME t \notin T PROVE B = A BY <1>2, <1>4, <1>6, <1>7, <1>8, <1>11
<1>12. Cardinality(B) \in Nat BY <1>9, <1>10, <1>11
<1>13. Counted(r, T) = Cardinality(A) /\ Counted(Append(r, t), T) = Cardinality(B)
  BY DEF Counted, A, B, s
<1> QED BY <1>9, <1>10, <1>11, <1>12, <1>13 DEF Counts

Opens2 == {"{", "["}
Closes2 == {"}", "]"}
Balance(r) == Counted(r, Opens2) - Counted(r, Closes2)

Balances(r, t) ==
  /\ Balance(r) \in Int
  /\ t \in Opens2 => Balance(Append(r, t)) = Balance(r) + 1
  /\ t \in Closes2 => Balance(Append(r, t)) = Balance(r) - 1
  /\ t \notin Opens2 \cup Closes2 => Balance(Append(r, t)) = Balance(r)

LEMMA BalanceIs == ASSUME NEW r \in Seq(Token), NEW t \in Token PROVE Balances(r, t)
<1>1. Counts(r, t, Opens2) /\ Counts(r, t, Closes2) BY CountsIs
<1>2. Opens2 \cap Closes2 = {} BY DEF Opens2, Closes2
<1> DEFINE a == Counted(r, Opens2)
           b == Counted(r, Closes2)
           c == Counted(Append(r, t), Opens2)
           d == Counted(Append(r, t), Closes2)
<1>3. /\ a \in Nat /\ b \in Nat /\ c \in Nat /\ d \in Nat
      /\ (t \in Opens2 => c = a + 1) /\ (t \notin Opens2 => c = a)
      /\ (t \in Closes2 => d = b + 1) /\ (t \notin Closes2 => d = b)
  BY <1>1 DEF Counts
<1>4. Balance(r) = a - b /\ Balance(Append(r, t)) = c - d BY DEF Balance
<1> HIDE DEF a, b, c, d
<1>5. a - b \in Int /\ (t \in Opens2 => c - d = (a - b) + 1) /\ (t \in Closes2 => c - d = (a - b) - 1)
      /\ (t \notin Opens2 \cup Closes2 => c - d = a - b)
  BY <1>2, <1>3
<1> QED BY <1>4, <1>5 DEF Balances

LEMMA BalanceEmpty == Balance(<<>>) = 0
<1>1. DOMAIN <<>> = {} OBVIOUS
<1>2. \A T : {i \in DOMAIN <<>> : <<>>[i] \in T} = {} BY <1>1
<1>3. \A T : Counted(<<>>, T) = 0 BY <1>2, FS_EmptySet DEF Counted
<1> QED BY <1>3 DEF Balance

(* As many as the parser's stack holds, and the current one. *)
Held(p, s) == IF p = "end" THEN Len(s) ELSE Len(s) + 1

Balanced == at \in InnerLabels => Balance(read) = Held(pending, stack)

BInv == read \in Seq(Token) /\ (result = Running => Balanced)

LEMMA Neither ==
  \A t \in (Scalars \cup Refused) \cup (Contents \cup {"quote", ",", ":"}) : t \notin Opens2 \cup Closes2
<1>1. Opens2 \cup Closes2 \subseteq Structure BY DEF Opens2, Closes2, Structure
<1>2. \A t \in Scalars \cup Refused : t \notin Opens2 \cup Closes2
  BY <1>1, TokenAssumption
<1>3. \A t \in Contents : t \notin Opens2 \cup Closes2
  BY <1>1, ContentAssumption
<1>4. \A t \in {"quote", ",", ":"} : t \notin Opens2 \cup Closes2
  BY DEF Opens2, Closes2
<1> QED BY <1>2, <1>3, <1>4

LEMMA ValueBalanced ==
  ASSUME Shape, Balanced, at \in {"opened", "comma", "value"}, read \in Seq(Token), NEW t \in Token, read' = Append(read, t),
         NEW where, NEW d, NEW b, Value(t, where, d, b), result' = Running
  PROVE  Balance(read') = Held(pending', stack')
<1>1. pending = Nought /\ pending # "end" /\ stack \in Seq(Nat) /\ Len(stack) \in Nat /\ current \in Nat
  BY DEF Shape, ControlShape, StackShape, DocumentShape, Nought
<1>2. Balance(read) = Len(stack) + 1 BY <1>1 DEF Balanced, Held, InnerLabels
<1>3. Balances(read, t) BY BalanceIs
<1>4. CASE t \in Scalars \cup Refused
  <2>0. t # NPOS /\ t # "quote" /\ t # "{" /\ t # "[" /\ t # "end"
    BY <1>4, TokenAssumption DEF Structure, Outside
  <2>1. pending' = t /\ stack' = stack BY <1>4, <2>0 DEF Value, Goto, parser
  <2>2. t \notin Opens2 \cup Closes2 BY <1>4, Neither
  <2> QED BY <1>2, <1>3, <2>0, <2>1, <2>2 DEF Held, Balances
<1>5. CASE t = "quote"
  <2>1. pending' = pending /\ stack' = stack
    BY <1>5, TokenAssumption DEF Value, Goto, Return, parser, visitor, Running
  <2>2. t \notin Opens2 \cup Closes2 BY <1>5, Neither
  <2> QED BY <1>1, <1>2, <1>3, <2>1, <2>2 DEF Held, Balances
<1>6. CASE t \in {"{", "["}
  <2>0. t # NPOS /\ t # "quote" /\ t \notin Scalars \cup Refused
    BY <1>6, TokenAssumption DEF Structure
  <2>1. ~TooDeep(d)
    <3>1. SUFFICES ASSUME TooDeep(d) PROVE FALSE OBVIOUS
    <3>2. result' = "DEPTH_ERROR" BY <1>6, <2>0, <3>1 DEF Value, Return
    <3> QED BY <3>2 DEF Running
  <2>2. pending' = pending /\ stack' = Append(stack, current)
    BY <1>6, <2>0, <2>1 DEF Value, VisitStart
  <2>3. Len(Append(stack, current)) = Len(stack) + 1 BY <1>1
  <2>4. t \in Opens2 BY <1>6 DEF Opens2
  <2> QED BY <1>1, <1>2, <1>3, <2>2, <2>3, <2>4 DEF Held, Balances
<1>7. CASE t \notin Scalars \cup Refused /\ t # "quote" /\ t \notin {"{", "["}
  <2>1. result' = "TAPE_ERROR" BY <1>7 DEF Value, Return
  <2> QED BY <2>1 DEF Running
<1> QED BY <1>4, <1>5, <1>6, <1>7

LEMMA EmptyBalanced ==
  ASSUME Shape, Balanced, at = "opened", read \in Seq(Token), NEW t \in Closes2, read' = Append(read, t), Empty
  PROVE  Balanced'
<1>1. pending # "end" /\ Len(stack) \in Nat
  BY DEF Shape, ControlShape, StackShape, Nought
<1>2. Balance(read) = Len(stack) + 1 BY <1>1 DEF Balanced, Held, InnerLabels
<1>3. t \in Token BY Tokens DEF Closes2, Structure
<1>4. Balances(read, t) BY <1>3, BalanceIs
<1>5. Balance(read') = Len(stack) BY <1>1, <1>2, <1>4 DEF Balances
<1>6. CASE outer = "root"
  <2>1. at' = "trailing" BY <1>6 DEF Empty, Goto
  <2> QED BY <2>1 DEF Balanced, InnerLabels
<1>7. CASE outer # "root"
  <2>1. pending' = "end" /\ stack' = stack BY <1>7 DEF Empty, parser
  <2> QED BY <1>5, <2>1 DEF Balanced, Held
<1> QED BY <1>6, <1>7

(* The steps that leave the stack alone, with a token that opens nothing. *)
LEMMA StackSame ==
  ASSUME Shape, Balanced, at \in InnerLabels, pending # "end", pending' # "end", stack' = stack,
         read \in Seq(Token), NEW t \in Token, t \notin Opens2 \cup Closes2, read' = Append(read, t)
  PROVE  Balanced'
<1>1. Balances(read, t) BY BalanceIs
<1> QED BY <1>1 DEF Balances, Balanced, Held

LEMMA NextBalanced ==
  ASSUME Shape, Text, Balanced, read \in Seq(Token), NEW t \in Token, Next_(t), result' = Running
  PROVE  Balanced'
<1> DEFINE k == Len(Path)
<1>1. at = "next" /\ read' = Append(read, t) /\ stack' = Left.stack
  BY DEF Next_, Take, Return, Running
<1>2. \/ t = "," /\ at' = "comma" /\ pending' = Nought
      \/ t \in Closes2 /\ at' = "trailing"
      \/ t \in Closes2 /\ at' = "next" /\ pending' = "end"
  BY DEF Next_, Goto, Return, Running, Closes2
<1>3. PICK F : Stand(F, k) BY <1>1, Standing DEF InnerLabels
<1>4. LeftAt(k) BY <1>3, LeftIs
<1>5. k \in Nat /\ Balance(read) = k
  <2>1. k \in Nat /\ (pending = "end" => k = Len(stack)) /\ (pending # "end" => k = Len(stack) + 1)
    BY <1>3 DEF Stand
  <2> HIDE DEF k
  <2> QED BY <2>1, <1>1 DEF Balanced, Held, InnerLabels
<1>6. Len(stack') = k - 1 BY <1>1, <1>4 DEF LeftAt
<1>7. Balances(read, t) BY BalanceIs
<1> HIDE DEF k
<1>8. CASE t = "," /\ at' = "comma" /\ pending' = Nought
  <2>1. t \notin Opens2 \cup Closes2 BY <1>8, Neither
  <2>2. Held(pending', stack') = k
    <3>1. pending' # "end" BY <1>8 DEF Nought
    <3> QED BY <3>1, <1>5, <1>6 DEF Held
  <2> QED BY <1>1, <1>5, <1>7, <2>1, <2>2 DEF Balances, Balanced
<1>9. CASE t \in Closes2 /\ at' = "trailing" BY <1>9 DEF Balanced, InnerLabels
<1>10. CASE t \in Closes2 /\ at' = "next" /\ pending' = "end"
  <2>1. Held(pending', stack') = k - 1 BY <1>6, <1>10 DEF Held
  <2>2. Balance(read') = k - 1 BY <1>1, <1>5, <1>7, <1>10 DEF Balances
  <2> QED BY <2>1, <2>2 DEF Balanced
<1> QED BY <1>2, <1>8, <1>9, <1>10

LEMMA StepBalanced ==
  ASSUME VInv, PInv, BInv, [Next]_vars
  PROVE  BInv'
<1>1. CASE UNCHANGED vars BY <1>1 DEF BInv, Balanced, vars, visitor, parser
<1>2. CASE Next
  <2> PICK t \in Offered : Step(t) BY <1>2 DEF Next
  <2>1. result = Running /\ read' = Append(read, t)
    BY DEF Step, Root, RootString, RootEnd, OpenedObject, OpenedArray, Key, Colon, MemberValue, String, Next_,
           NextKey, NextElement, Trailing, Take
  <2>2. Shape /\ Text /\ Balanced /\ read \in Seq(Token)
    BY <2>1 DEF VInv, PInv, BInv, Shape
  <2>3. t \in Token BY DEF Offered, Token
  <2>4. read' \in Seq(Token)
    <3> HIDE DEF Token
    <3> QED BY <2>1, <2>2, <2>3, Appending
  <2> SUFFICES ASSUME result' = Running PROVE Balanced' BY <2>4 DEF BInv
  <2> HIDE DEF Token
  <2>5. CASE Root(t)
    <3>1. at = "root" /\ pending = Nought
      BY <2>2, <2>5 DEF Root, Take, Shape, ControlShape
    <3>2. CASE t \in {"{", "["}
      <4>1. pending' = pending /\ stack' = stack
        <5>1. t # NPOS BY <3>2, TokenAssumption DEF Structure
        <5> QED BY <2>5, <3>2, <5>1 DEF Root
      <4>2. Len(stack) = 0 /\ pending # "end"
        BY <2>2, <3>1 DEF Shape, StackShape, ControlShape, Ahead, Nought
      <4>3. Balance(read) = 0 BY <2>2, <3>1, BalanceEmpty DEF Text, TellsRoot
      <4>4. Balances(read, t) /\ t \in Opens2
        BY <2>2, <2>3, <3>2, BalanceIs DEF Opens2
      <4>5. Balance(read') = 0 + 1 BY <2>1, <4>3, <4>4 DEF Balances
      <4> QED BY <4>1, <4>2, <4>5 DEF Balanced, Held
    <3>3. CASE t \notin {"{", "["}
      <4>1. at' \in {"rootString", "rootEnd"}
        BY <2>5, <3>3 DEF Root, Goto, Return, Running
      <4> QED BY <4>1 DEF Balanced, InnerLabels
    <3> QED BY <3>2, <3>3
  <2>6. CASE RootString(t)
    <3>1. at' = "rootEnd" BY <2>6 DEF RootString, Goto, Return, Running
    <3> QED BY <3>1 DEF Balanced, InnerLabels
  <2>7. CASE RootEnd(t)
    <3>1. result' # Running BY <2>7 DEF RootEnd, Return, Running
    <3> QED BY <3>1
  <2>8. CASE OpenedObject(t)
    <3>1. at = "opened" /\ pending = Nought /\ Nought # "end"
      BY <2>2, <2>8 DEF OpenedObject, Take, Shape, ControlShape, Nought
    <3>2. CASE t = "}"
      BY <2>1, <2>2, <2>8, <3>1, <3>2, EmptyBalanced DEF OpenedObject, Closes2
    <3>3. CASE t = "quote"
      <4>1. pending' = pending /\ stack' = stack
        BY <2>8, <3>3 DEF OpenedObject, parser
      <4>2. t \notin Opens2 \cup Closes2 BY <3>3, Neither
      <4> QED BY <2>1, <2>2, <2>3, <3>1, <4>1, <4>2, StackSame DEF InnerLabels
    <3>4. CASE t # "}" /\ t # "quote"
      BY <2>8, <3>4 DEF OpenedObject, Return, Running
    <3> QED BY <3>2, <3>3, <3>4
  <2>9. CASE OpenedArray(t)
    <3>1. at = "opened" BY <2>9 DEF OpenedArray, Take
    <3>2. CASE t = "]"
      BY <2>1, <2>2, <2>9, <3>1, <3>2, EmptyBalanced DEF OpenedArray, Closes2
    <3>3. CASE t # "]"
      <4>1. Value(t, "array", Deeper, Pushed) BY <2>9, <3>3 DEF OpenedArray
      <4> DEFINE where == "array"
                 d == Deeper
                 b == Pushed
      <4>2. Value(t, where, d, b) /\ at \in {"opened", "comma", "value"}
        BY <3>1, <4>1
      <4> HIDE DEF where, d, b
      <4>3. Balance(read') = Held(pending', stack')
        BY <2>1, <2>2, <2>3, <4>2, ValueBalanced
      <4> QED BY <4>3 DEF Balanced
    <3> QED BY <3>2, <3>3
  <2>10. CASE Key(t)
    <3>1. at = "key" /\ pending = Nought /\ Nought # "end" /\ pending' = pending /\ stack' = stack
      BY <2>2, <2>10 DEF Key, Take, Shape, ControlShape, Nought, Return, Running
    <3>2. t \in Contents
      BY <2>10 DEF Key, Take, Return, Running, Offered, InString, Inside
    <3>3. t \notin Opens2 \cup Closes2 BY <3>2, Neither
    <3> QED BY <2>1, <2>2, <2>3, <3>1, <3>3, StackSame DEF InnerLabels
  <2>11. CASE Colon(t)
    <3>1. at = "colon" /\ pending = Nought /\ Nought # "end" /\ pending' = pending /\ stack' = stack /\ t = ":"
      <4>1. t = ":" BY <2>11 DEF Colon, Return, Running
      <4> QED BY <2>2, <2>11, <4>1 DEF Colon, Take, Shape, ControlShape, Nought, parser
    <3>2. t \notin Opens2 \cup Closes2 BY <3>1, Neither
    <3> QED BY <2>1, <2>2, <2>3, <3>1, <3>2, StackSame DEF InnerLabels
  <2>12. CASE MemberValue(t)
    <3>1. at \in {"opened", "comma", "value"} /\ Value(t, "object", depth, bits)
      BY <2>12 DEF MemberValue, Take
    <3> DEFINE where == "object"
    <3>2. Value(t, where, depth, bits) BY <3>1
    <3> HIDE DEF where
    <3>3. Balance(read') = Held(pending', stack')
      BY <2>1, <2>2, <2>3, <3>1, <3>2, ValueBalanced
    <3> QED BY <3>3 DEF Balanced
  <2>13. CASE String(t)
    <3>1. at = "string" /\ pending = Nought /\ Nought # "end" /\ pending' = Nought /\ stack' = stack
      BY <2>2, <2>13 DEF String, Take, Shape, ControlShape, Nought, Return, Running
    <3>2. t \in Contents
      BY <2>13 DEF String, Take, Return, Running, Offered, InString, Inside
    <3>3. t \notin Opens2 \cup Closes2 BY <3>2, Neither
    <3> QED BY <2>1, <2>2, <2>3, <3>1, <3>3, StackSame DEF InnerLabels
  <2>14. CASE Next_(t) BY <2>2, <2>3, <2>14, NextBalanced
  <2>15. CASE NextKey(t)
    <3>1. at = "comma" /\ pending = Nought /\ Nought # "end" /\ pending' = pending /\ stack' = stack /\ t = "quote"
      <4>1. t = "quote" BY <2>15 DEF NextKey, Return, Running
      <4> QED BY <2>2, <2>15, <4>1 DEF NextKey, Take, Shape, ControlShape, Nought, parser
    <3>2. t \notin Opens2 \cup Closes2 BY <3>1, Neither
    <3> QED BY <2>1, <2>2, <2>3, <3>1, <3>2, StackSame DEF InnerLabels
  <2>16. CASE NextElement(t)
    <3>1. at \in {"opened", "comma", "value"} /\ Value(t, "array", depth, bits)
      BY <2>16 DEF NextElement, Take
    <3> DEFINE where == "array"
    <3>2. Value(t, where, depth, bits) BY <3>1
    <3> HIDE DEF where
    <3>3. Balance(read') = Held(pending', stack')
      BY <2>1, <2>2, <2>3, <3>1, <3>2, ValueBalanced
    <3> QED BY <3>3 DEF Balanced
  <2>17. CASE Trailing(t)
    <3>1. result' # Running BY <2>17 DEF Trailing, Return, Running
    <3> QED BY <3>1
  <2> QED BY <2>5, <2>6, <2>7, <2>8, <2>9, <2>10, <2>11, <2>12, <2>13, <2>14, <2>15, <2>16, <2>17 DEF Step
<1> QED BY <1>1, <1>2

-----------------------------------------------------------------------------
(* The last token, and the one before it. *)

Ended(r, t) ==
  /\ Last(Append(r, t)) = t /\ Front(Append(r, t)) = r
  /\ \A s \in Seq(Token), x \in Token : r = Append(s, x) => Append(r, t)[Len(Append(r, t)) - 1] = x

LEMMA EndedIs == ASSUME NEW r \in Seq(Token), NEW t \in Token PROVE Ended(r, t)
<1> DEFINE s == Append(r, t)
           n == Len(r)
<1>1. n \in Nat /\ s \in Seq(Token) /\ Len(s) = n + 1 /\ s[n + 1] = t /\ \A i \in 1 .. n : s[i] = r[i]
  <2> HIDE DEF Token
  <2> QED BY Appending
<1> HIDE DEF s, n
<1>2. Last(s) = t BY <1>1 DEF Last
<1>3. Front(s) = r
  <2> DEFINE f == SubSeq(s, 1, n)
  <2>1. Front(s) = f BY <1>1 DEF Front
  <2>2. f \in Seq(Token) /\ Len(f) = n /\ \A i \in 1 .. n : f[i] = s[i]
    <3> HIDE DEF Token
    <3> QED BY <1>1
  <2> HIDE DEF f
  <2>3. f = r
    <3>1. \A i \in 1 .. Len(f) : f[i] = r[i] BY <1>1, <2>2
    <3>2. Len(f) = Len(r) BY <2>2 DEF n
    <3> QED BY <2>2, <3>1, <3>2, SeqEqual
  <2> QED BY <2>1, <2>3
<1>4. ASSUME NEW u \in Seq(Token), NEW x \in Token, r = Append(u, x) PROVE s[Len(s) - 1] = x
  <2>1. Len(r) = Len(u) + 1 /\ r[Len(u) + 1] = x /\ Len(u) \in Nat
    <3> HIDE DEF Token
    <3> QED BY <1>4, Appending
  <2>2. n = Len(r) /\ n \in 1 .. n /\ Len(s) - 1 = n BY <1>1, <2>1 DEF n
  <2> QED BY <1>1, <2>1, <2>2
<1> QED BY <1>2, <1>3, <1>4 DEF Ended, s

-----------------------------------------------------------------------------
(* What error c says of the tokens r. *)
Errs == {"DEPTH_ERROR", "TRAILING_CONTENT", "UNCLOSED_STRING", "STRING_ERROR", "SCALAR_ERROR"}

Says(c, r) ==
  /\ c = "DEPTH_ERROR" => Balance(r) = MaxDepth + 2
  /\ c = "TRAILING_CONTENT" => Append(Front(r), NPOS) \in {d[1] : d \in Denoted}
  /\ c = "UNCLOSED_STRING" => Last(r) = NPOS /\ r[Len(r) - 1] = "quote"
  /\ c = "STRING_ERROR" => Last(r) \in BadContents
  /\ c = "SCALAR_ERROR" => r[Len(r) - 1] \in Refused

LEMMA SaysTold == Says(result', read') => ErrorsTold'
BY DEF Says, ErrorsTold, Unclosed, Placed, Balance, Counted, Opens2, Closes2

LEMMA Quiet == ASSUME NEW c, c \notin Errs, NEW r PROVE Says(c, r)
BY DEF Says, Errs

LEMMA ValueSays ==
  ASSUME Shape, Balanced, at \in {"opened", "comma", "value"}, read \in Seq(Token), NEW t \in Token, read' = Append(read, t),
         NEW where, NEW d, d = Len(stack), NEW b, Value(t, where, d, b)
  PROVE  Says(result', read')
<1>1. CASE result' \notin Errs BY <1>1, Quiet
<1>2. CASE result' \in Errs
  <2>0. Running \notin Errs /\ "TAPE_ERROR" \notin Errs BY DEF Running, Errs
  <2>1. t \in {"{", "["} /\ TooDeep(d)
    <3>1. ASSUME t \in Scalars \cup Refused PROVE result' = Running
      <4>1. t # NPOS /\ t # "quote" /\ t # "{" /\ t # "["
        BY <3>1, TokenAssumption DEF Structure
      <4> QED BY <3>1, <4>1 DEF Value, Go
    <3>2. ASSUME t = "quote" PROVE result' = Running
      <4>1. t # NPOS /\ t \notin Scalars \cup Refused BY <3>2, TokenAssumption
      <4> QED BY <3>2, <4>1 DEF Value, Go
    <3>3. ASSUME t \notin Scalars \cup Refused, t # "quote", t \notin {"{", "["} PROVE result' = "TAPE_ERROR"
      BY <3>3 DEF Value, Return
    <3>4. ASSUME t \in {"{", "["}, ~TooDeep(d) PROVE result' = Running
      <4>1. t # NPOS /\ t # "quote" /\ t \notin Scalars \cup Refused
        BY <3>4, TokenAssumption DEF Structure
      <4> QED BY <3>4, <4>1 DEF Value, Go
    <3> QED BY <1>2, <2>0, <3>1, <3>2, <3>3, <3>4
  <2>2. result' = "DEPTH_ERROR"
    <3>1. t # NPOS /\ t # "quote" /\ t \notin Scalars \cup Refused
      BY <2>1, TokenAssumption DEF Structure
    <3> QED BY <2>1, <3>1 DEF Value, Return
  <2>3. Len(stack) = MaxDepth BY <2>1 DEF TooDeep
  <2>4. Balance(read) = MaxDepth + 1
    <3>1. pending # "end" BY DEF Shape, ControlShape, Nought
    <3> QED BY <2>3, <3>1 DEF Balanced, Held, InnerLabels
  <2>5. Balances(read, t) /\ t \in Opens2 BY <2>1, BalanceIs DEF Opens2
  <2>6. Balance(read') = (MaxDepth + 1) + 1 BY <2>4, <2>5 DEF Balances
  <2>7. (MaxDepth + 1) + 1 = MaxDepth + 2 BY DepthAssumption
  <2> QED BY <2>2, <2>6, <2>7 DEF Says
<1> QED BY <1>1, <1>2

(* A content that is refused, or no content at all. *)
LEMMA StringSays ==
  ASSUME read \in Seq(Token), NEW t \in Token, read' = Append(read, t), NEW s \in Seq(Token), read = Append(s, "quote"),
         result' \in {Running, "TAPE_ERROR"} \/ (result' = "UNCLOSED_STRING" /\ t = NPOS)
           \/ (result' = "STRING_ERROR" /\ t \in BadContents)
  PROVE  Says(result', read')
<1>1. CASE result' \in {Running, "TAPE_ERROR"}
  <2>1. result' \notin Errs BY <1>1 DEF Running, Errs
  <2> QED BY <2>1, Quiet
<1>2. Ended(read, t) /\ "quote" \in Token BY EndedIs, Tokens
<1>3. CASE result' = "UNCLOSED_STRING" /\ t = NPOS BY <1>2, <1>3 DEF Ended, Says
<1>4. CASE result' = "STRING_ERROR" /\ t \in BadContents
  BY <1>2, <1>4 DEF Ended, Says
<1> QED BY <1>1, <1>3, <1>4

(* A scalar that is refused. *)
LEMMA ScalarSays ==
  ASSUME read \in Seq(Token), NEW t \in Token, read' = Append(read, t), result' = "SCALAR_ERROR",
         NEW s \in Seq(Token), pending \in Refused, read = Append(s, pending)
  PROVE  Says(result', read')
<1>1. Ended(read, t) /\ pending \in Token BY EndedIs, Tokens
<1>2. read'[Len(read') - 1] = pending BY <1>1 DEF Ended
<1> QED BY <1>2 DEF Says

(* The texts of the frames are typed. *)
LEMMA StandTyped ==
  ASSUME NEW F, NEW k, Stand(F, k)
  PROVE  /\ SoFar(F[k]) \in Seq(Token)
         /\ Ready(heap, Path[k], F[k], element) => Begun(F[k]) \in Seq(Token)
<1>1. Frame(heap, Path[k], F[k]) BY LevelsFit DEF Stand, Tells, Fits
<1>2. TextsOf(F[k]) BY <1>1, FrameTexts
<1>3. ASSUME Ready(heap, Path[k], F[k], element) PROVE Begun(F[k]) \in Seq(Token)
  <2>1. KeyOk(heap[Path[k]].kind, F[k].key) BY <1>3 DEF Ready
  <2> QED BY <1>1, <2>1, BegunIs DEF BegunTexts
<1> QED BY <1>2, <1>3 DEF TextsOf

LEMMA StepSays ==
  ASSUME Shape, Text, Balanced, read \in Seq(Token), NEW t \in Offered, Step(t), Len(read) < MaxTokens
  PROVE  Says(result', read')
<1>1. result = Running /\ read' = Append(read, t)
  BY DEF Step, Root, RootString, RootEnd, OpenedObject, OpenedArray, Key, Colon, MemberValue, String, Next_,
         NextKey, NextElement, Trailing, Take
<1>2. t \in Token BY DEF Offered, Token
<1> HIDE DEF Token
<1>3. \A c \in {Running, "TAPE_ERROR", "SUCCESS"} : c \notin Errs
  BY DEF Running, Errs
<1>4. CASE Root(t)
  <2>1. result' \in {Running, "TAPE_ERROR"} BY <1>4 DEF Root, Go, Return
  <2> QED BY <1>3, <2>1, Quiet
<1>5. CASE RootString(t)
  <2>1. read = <<"quote">> BY <1>5 DEF RootString, Take, Text, TellsRoot
  <2>2. read = Append(<<>>, "quote") /\ <<>> \in Seq(Token) BY <2>1
  <2>3. result' \in {Running, "TAPE_ERROR"} \/ (result' = "STRING_ERROR" /\ t \in BadContents)
    BY <1>5 DEF RootString, Go, Return
  <2> DEFINE s == <<>>
  <2>4. s \in Seq(Token) /\ read = Append(s, "quote") BY <2>2
  <2> HIDE DEF s
  <2> QED BY <1>1, <1>2, <2>3, <2>4, StringSays
<1>6. CASE RootEnd(t)
  <2>1. at = "rootEnd" BY <1>6 DEF RootEnd, Take
  <2>2. result' \in {"TAPE_ERROR", "SUCCESS"} \/ (result' = "SCALAR_ERROR" /\ pending \in Refused)
    BY <1>6 DEF RootEnd, Return
  <2>3. CASE result' = "SCALAR_ERROR" /\ pending \in Refused
    <3>1. pending # Nought BY <2>3, TokenAssumption DEF Outside, Nought
    <3>2. read = <<pending>> BY <2>1, <3>1 DEF Text, TellsRoot
    <3> DEFINE s == <<>>
    <3>3. s \in Seq(Token) /\ read = Append(s, pending) BY <3>2
    <3> HIDE DEF s
    <3> QED BY <1>1, <1>2, <2>3, <3>3, ScalarSays
  <2> QED BY <1>3, <2>2, <2>3, Quiet
<1>7. CASE OpenedObject(t)
  <2>1. result' \in {Running, "TAPE_ERROR"}
    BY <1>7 DEF OpenedObject, Empty, Go, Return
  <2> QED BY <1>3, <2>1, Quiet
<1>8. CASE Colon(t) \/ NextKey(t)
  <2>1. result' \in {Running, "TAPE_ERROR"}
    BY <1>8 DEF Colon, NextKey, Go, Return
  <2> QED BY <1>3, <2>1, Quiet
<1>9. CASE Trailing(t)
  <2>1. at = "trailing" /\ result' \in {"SUCCESS", "TRAILING_CONTENT"}
    BY <1>9 DEF Trailing, Take, Return
  <2>2. WholeAt(heap, read) BY <2>1 DEF Text, TellsRoot
  <2>3. <<Append(read, NPOS), Denotes(heap)[1]>> \in Denoted
    BY <2>2, WholeDenoted
  <2>4. Front(read') = read BY <1>1, <1>2, EndedIs DEF Ended
  <2>5. Append(Front(read'), NPOS) \in {d[1] : d \in Denoted}
    <3> DEFINE x == Append(read, NPOS)
               y == Denotes(heap)[1]
    <3>1. <<x, y>> \in Denoted BY <2>3
    <3> HIDE DEF x, y
    <3>2. <<x, y>>[1] = x OBVIOUS
    <3>3. x \in {d[1] : d \in Denoted} BY <3>1, <3>2
    <3> QED BY <2>4, <3>3 DEF x
  <2>6. CASE result' = "SUCCESS" BY <1>3, <2>6, Quiet
  <2>7. CASE result' = "TRAILING_CONTENT" BY <2>5, <2>7 DEF Says
  <2> QED BY <2>1, <2>6, <2>7
<1> DEFINE k == Len(Path)
<1>10. at \in InnerLabels => \E F : Stand(F, k) BY Standing
<1> HIDE DEF k
<1>11. CASE Key(t)
  <2>1. at = "key" /\ at \in InnerLabels BY <1>11 DEF Key, Take, InnerLabels
  <2> PICK F : Stand(F, k) BY <1>10, <2>1
  <2>2. read = Append(SoFar(F[k]), "quote") /\ SoFar(F[k]) \in Seq(Token)
    BY <2>1, StandTyped DEF Stand, Tells
  <2>3. result' \in {Running, "TAPE_ERROR"} \/ (result' = "UNCLOSED_STRING" /\ t = NPOS)
           \/ (result' = "STRING_ERROR" /\ t \in BadContents)
    BY <1>11 DEF Key, Go, Return
  <2> QED BY <1>1, <1>2, <2>2, <2>3, StringSays
<1>12. CASE String(t)
  <2>1. at = "string" /\ at \in InnerLabels
    BY <1>12 DEF String, Take, InnerLabels
  <2> PICK F : Stand(F, k) BY <1>10, <2>1
  <2>2. read = Append(Begun(F[k]), "quote") /\ Begun(F[k]) \in Seq(Token)
    BY <2>1, StandTyped DEF Stand, Tells
  <2>3. result' \in {Running, "TAPE_ERROR"} \/ (result' = "UNCLOSED_STRING" /\ t = NPOS)
           \/ (result' = "STRING_ERROR" /\ t \in BadContents)
    BY <1>12 DEF String, Go, Return
  <2> QED BY <1>1, <1>2, <2>2, <2>3, StringSays
<1>13. CASE Next_(t)
  <2>1. at = "next" /\ at \in InnerLabels BY <1>13 DEF Next_, Take, InnerLabels
  <2>2. result' \in {Running, "TAPE_ERROR"} \/ (result' = "SCALAR_ERROR" /\ pending \in Refused)
    BY <1>13 DEF Next_, Go, Return
  <2>3. CASE result' = "SCALAR_ERROR" /\ pending \in Refused
    <3> PICK F : Stand(F, k) BY <1>10, <2>1
    <3>1. read = Append(Begun(F[k]), pending) /\ Begun(F[k]) \in Seq(Token)
      BY <2>1, <2>3, StandTyped DEF Stand, Tells
    <3> QED BY <1>1, <1>2, <2>3, <3>1, ScalarSays
  <2> QED BY <1>3, <2>2, <2>3, Quiet
<1>14. ASSUME at \in {"opened", "comma", "value"}
       PROVE  Len(stack) = IF at = "opened" THEN Deeper ELSE depth
  BY <1>14 DEF Shape, StackShape, ControlShape, Ahead, Deeper, Nought
<1>15. CASE OpenedArray(t)
  <2>1. at = "opened" /\ at \in {"opened", "comma", "value"}
    BY <1>15 DEF OpenedArray, Take
  <2>2. CASE t = "]"
    <3>1. result' \in {Running, "TAPE_ERROR"}
      BY <1>15, <2>2 DEF OpenedArray, Empty, Go
    <3> QED BY <1>3, <3>1, Quiet
  <2>3. CASE t # "]"
    <3>1. Value(t, "array", Deeper, Pushed) /\ Deeper = Len(stack)
      BY <1>14, <1>15, <2>1, <2>3 DEF OpenedArray
    <3> DEFINE where == "array"
               d == Deeper
               b == Pushed
    <3>2. Value(t, where, d, b) /\ d = Len(stack) BY <3>1
    <3> HIDE DEF where, d, b
    <3> QED BY <1>1, <1>2, <2>1, <3>2, ValueSays
  <2> QED BY <2>2, <2>3
<1>16. CASE MemberValue(t)
  <2>1. at \in {"opened", "comma", "value"} /\ at # "opened" /\ Value(t, "object", depth, bits)
    BY <1>16 DEF MemberValue, Take
  <2> DEFINE where == "object"
  <2>2. Value(t, where, depth, bits) /\ depth = Len(stack) BY <1>14, <2>1
  <2> HIDE DEF where
  <2> QED BY <1>1, <1>2, <2>1, <2>2, ValueSays
<1>17. CASE NextElement(t)
  <2>1. at \in {"opened", "comma", "value"} /\ at # "opened" /\ Value(t, "array", depth, bits)
    BY <1>17 DEF NextElement, Take
  <2> DEFINE where == "array"
  <2>2. Value(t, where, depth, bits) /\ depth = Len(stack) BY <1>14, <2>1
  <2> HIDE DEF where
  <2> QED BY <1>1, <1>2, <2>1, <2>2, ValueSays
<1> QED BY <1>4, <1>5, <1>6, <1>7, <1>8, <1>9, <1>11, <1>12, <1>13, <1>15, <1>16, <1>17 DEF Step

LEMMA StepErrors ==
  ASSUME VInv, PInv, BInv, ErrorsTold, [Next]_vars
  PROVE  ErrorsTold'
<1>1. CASE UNCHANGED vars BY <1>1 DEF ErrorsTold, Unclosed, Placed, vars
<1>2. CASE Next
  <2> PICK t \in Offered : Step(t) BY <1>2 DEF Next
  <2>1. result = Running /\ Len(read) < MaxTokens
    BY <1>2 DEF Next, Step, Root, RootString, RootEnd, OpenedObject, OpenedArray, Key, Colon, MemberValue, String, Next_,
           NextKey, NextElement, Trailing, Take
  <2>2. Shape /\ Text /\ Balanced /\ read \in Seq(Token)
    BY <2>1 DEF VInv, PInv, BInv, Shape
  <2> QED BY <2>1, <2>2, StepSays, SaysTold
<1> QED BY <1>1, <1>2

(* An error parse returns is there: a level too many, something behind the
   text, a quote that is missing, a content or a scalar that is refused. *)
THEOREM ErrorsAreTold == Spec => []ErrorsTold
<1>1. Init => BInv /\ ErrorsTold
  <2> SUFFICES ASSUME Init PROVE BInv /\ ErrorsTold OBVIOUS
  <2>1. at = "root" /\ read = <<>> /\ result = Running BY DEF Init
  <2>2. <<>> \in Seq(Token) OBVIOUS
  <2>3. BInv BY <2>1, <2>2 DEF BInv, Balanced, InnerLabels
  <2>4. ErrorsTold BY <2>1 DEF ErrorsTold, Running
  <2> QED BY <2>3, <2>4
<1>2. VInv /\ PInv /\ BInv /\ [Next]_vars => BInv' BY StepBalanced
<1>3. VInv /\ PInv /\ BInv /\ ErrorsTold /\ [Next]_vars => ErrorsTold'
  BY StepErrors
<1> QED BY <1>1, <1>2, <1>3, VisitorInvariant, TextTold, PTL DEF Spec
=============================================================================
