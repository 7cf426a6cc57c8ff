---------------------------- MODULE JsonVisitor ----------------------------
(***************************************************************************)
(* visitor_detail::parse (include/wjr/json/visitor.hpp) driving            *)
(* detail::basic_document_parser (include/wjr/json/document.hpp).          *)
(*                                                                         *)
(* parse is one function of labels and gotos; it asks the reader for one   *)
(* token after the other.  A step takes one token: at names the place that *)
(* waits for it, in the kind of container the place belongs to.  Nesting is *)
(* kept twice: the visitor has depth and a bit per level, the parser a     *)
(* stack of pointers to the open containers, current and element.          *)
(*                                                                         *)
(* A scalar is visited, and a closed container left, only when the token   *)
(* behind it has been read: pending holds what waits for that.             *)
(*                                                                         *)
(* check_parser drives the same function and keeps no state at all.        *)
(***************************************************************************)
EXTENDS JsonGrammar, FiniteSets

CONSTANTS
  MaxDepth,     \* max_depth, and the capacity of the parser's stack: 256
  BadContents,  \* contents parse_string refuses
  Junk,         \* tokens that start with a character no value starts with
  Refused,      \* tokens that start like a literal or a number and are none
  NPOS,         \* npos
  MaxTokens     \* bound: how many tokens are read

ASSUME DepthAssumption == MaxDepth \in Nat /\ MaxDepth > 0
ASSUME LengthAssumption == MaxTokens \in Nat

VARIABLES
  at, in,       \* the label or read that waits for a token
  outer,        \* in "opened": the case block the container was opened in
  pending,      \* a scalar to be visited, "end" to leave a container, or Nought
  depth, bits,  \* depth, stk: TRUE where the container around is an array
  heap,         \* the documents: node 1 is the root
  stack,        \* the parser's stk
  current, element,
  read,         \* the tokens taken so far
  result        \* what parse returned

visitor == <<at, in, outer, pending, depth, bits>>
parser == <<heap, stack, current, element>>
vars == <<visitor, parser, read, result>>

Nought == "nothing"
Running == "running"

Structure == {"{", "}", "[", "]", ":", ","}
Outside == Structure \cup Scalars \cup Junk \cup Refused \cup {"quote", NPOS}
Inside == Contents \cup BadContents \cup {NPOS}

(* The kinds of tokens differ, and differ from what else pending may hold. *)
ASSUME TokenAssumption ==
  /\ (Structure \cup {"quote"}) \cap (Scalars \cup Refused) = {}
  /\ NPOS \notin Structure \cup {"quote"} \cup Scalars \cup Refused
  /\ {"end", "nothing"} \cap (Outside \cup Inside) = {}

(* So do what is accepted and what is refused.  What a string holds has a *)
(* name of its own: it opens and closes nothing. *)
ASSUME ContentAssumption ==
  /\ Scalars \cap Refused = {}
  /\ NPOS \notin Contents \cup BadContents /\ Contents \cap Structure = {}

Init ==
  /\ at = "root" /\ in = "root" /\ outer = "root" /\ pending = Nought
  /\ depth = 0 /\ bits \in [0 .. MaxDepth - 1 -> BOOLEAN]   \* left uninitialized
  /\ heap = <<Leaf("null", "")>> /\ stack = <<>> /\ current = 1 /\ element = 0
  /\ read = <<>> /\ result = Running

-----------------------------------------------------------------------------
(* The parser's visits. *)

New == Len(heap) + 1

(* document with its last kid under key, node n. *)
Entered(document, key, n) ==
  [kind |-> document.kind, text |-> document.text, kids |-> Append(document.kids, <<key, n>>)]

(* emplace_back and try_emplace: a new document under key in node n of h. *)
Attach(h, n, key, node) ==
  Append([h EXCEPT ![n] = Entered(h[n], key, Len(h) + 1)], node)

(* The node a new value of kind and text goes to: the element an object's *)
(* key has prepared, or a new one of the array current, c. *)
PutValue(h, where, c, leaf) ==
  CASE where = "root"   -> [h EXCEPT ![1] = leaf]
    [] where = "object" -> [h EXCEPT ![element] = leaf]
    [] where = "array"  -> Attach(h, c, NoKey, leaf)

(* visit_..._null, _true, _false and _number.  A null is not written where *)
(* the document is null already. *)
VisitScalar(h, where, c) ==
  IF pending = Null /\ where # "array" THEN h ELSE PutValue(h, where, c, ScalarLeaf(pending))

(* Mutant: current stays with the container that is left. *)
LeftStays == [current |-> current, stack |-> IF pending = "end" THEN Front(stack) ELSE stack]

(* visit_end_..._to_object and _to_array. *)
Left == IF pending = "end" THEN [current |-> Last(stack), stack |-> Front(stack)]
        ELSE [current |-> current, stack |-> stack]

(* visit_..._start_object and _start_array. *)
VisitStart(where, kind) ==
  /\ heap' = PutValue(heap, where, current, Leaf(kind, ""))
  /\ stack' = Append(stack, current)
  /\ current' = IF where = "object" THEN element ELSE New
  /\ UNCHANGED element

(* Mutant: the value a key had is not reset. *)
VisitKeyKeeps(c) ==
  LET had == {i \in DOMAIN heap[current].kids : heap[current].kids[i][1] = c}
  IN  IF had # {}
        THEN /\ element' = heap[current].kids[CHOOSE i \in had : TRUE][2]
             /\ UNCHANGED heap
        ELSE heap' = Attach(heap, current, c, Leaf("null", "")) /\ element' = New

(* visit_object_key_string: a key that is there already keeps its place and *)
(* is reset. *)
VisitKey(c) ==
  LET had == {i \in DOMAIN heap[current].kids : heap[current].kids[i][1] = c}
  IN  IF had # {}
        THEN LET n == heap[current].kids[CHOOSE i \in had : TRUE][2]
             IN  heap' = [heap EXCEPT ![n] = Leaf("null", "")] /\ element' = n
        ELSE heap' = Attach(heap, current, c, Leaf("null", "")) /\ element' = New

-----------------------------------------------------------------------------
(* Steps. *)

InString == at \in {"rootString", "key", "string"}

(* The reader's tokens: in a string only its closing quote. *)
Offered == IF InString THEN Inside ELSE Outside

Take(place, t) ==
  /\ result = Running /\ at = place
  /\ read' = Append(read, t)

Goto(place, where) == at' = place /\ in' = where /\ UNCHANGED outer
Return(code) == result' = code /\ UNCHANGED <<visitor, parser>>
Go == result' = Running

(* The first token. *)
Root(t) ==
  /\ Take("root", t)
  /\ CASE t = NPOS -> Return("TAPE_ERROR")
       [] t \in {"{", "["} ->
            LET kind == IF t = "{" THEN "object" ELSE "array"
            IN  /\ heap' = PutValue(heap, "root", current, Leaf(kind, ""))
                /\ at' = "opened" /\ in' = kind /\ outer' = "root"
                /\ Go /\ UNCHANGED <<pending, depth, bits, stack, current, element>>
       [] t = "quote" -> Goto("rootString", "root") /\ Go /\ UNCHANGED <<pending, depth, bits, parser>>
       [] OTHER -> Goto("rootEnd", "root") /\ pending' = t /\ Go /\ UNCHANGED <<depth, bits, parser>>

RootString(t) ==
  /\ Take("rootString", t)
  /\ CASE t = NPOS -> Return("TAPE_ERROR")
       [] t \in BadContents -> Return("STRING_ERROR")
       [] OTHER -> /\ heap' = PutValue(heap, "root", current, Leaf("string", t))
                   /\ Goto("rootEnd", "root") /\ Go
                   /\ UNCHANGED <<pending, depth, bits, stack, current, element>>

(* A scalar or a string is the whole text. *)
RootEnd(t) ==
  /\ Take("rootEnd", t)
  /\ IF t # NPOS THEN Return("TAPE_ERROR")
     ELSE CASE pending = Nought -> Return("SUCCESS")
            [] pending \in Scalars -> /\ heap' = VisitScalar(heap, "root", current)
                                      /\ result' = "SUCCESS"
                                      /\ UNCHANGED <<visitor, stack, current, element>>
            [] pending \in Refused -> Return("SCALAR_ERROR")
            [] OTHER -> Return("TAPE_ERROR")

(* Mutant: a container is opened although max_depth are open. *)
TooDeepLate(d) == d > MaxDepth

TooDeep(d) == d = MaxDepth

(* The switch on the first token of a value, with d levels and bits b. *)
Value(t, where, d, b) ==
  CASE t = NPOS -> Return("TAPE_ERROR")
    [] t \in Scalars \cup Refused ->
         /\ Goto("next", where) /\ pending' = t
         /\ depth' = d /\ bits' = b /\ Go /\ UNCHANGED parser
    [] t = "quote" ->
         /\ Goto("string", where)
         /\ depth' = d /\ bits' = b /\ Go /\ UNCHANGED <<pending, parser>>
    [] t \in {"{", "["} /\ TooDeep(d) -> Return("DEPTH_ERROR")
    [] t \in {"{", "["} /\ ~TooDeep(d) ->
         LET kind == IF t = "{" THEN "object" ELSE "array"
         IN  /\ VisitStart(where, kind)
             /\ at' = "opened" /\ in' = kind /\ outer' = where
             /\ depth' = d /\ bits' = b /\ Go /\ UNCHANGED pending
    [] OTHER -> Return("TAPE_ERROR")

(* stk[depth++] for a container opened in outer; the root has no bit. *)
Deeper == IF outer = "root" THEN depth ELSE depth + 1

(* Mutant: the bit tells the kind of the container that is opened. *)
PushedInner == IF outer = "root" THEN bits ELSE [bits EXCEPT ![depth] = (in = "array")]

Pushed == IF outer = "root" THEN bits ELSE [bits EXCEPT ![depth] = (outer = "array")]

(* An empty container: its level has not been pushed. *)
Empty ==
  IF outer = "root"
    THEN Goto("trailing", "root") /\ Go /\ UNCHANGED <<pending, depth, bits, parser>>
    ELSE Goto("next", outer) /\ pending' = "end" /\ Go /\ UNCHANGED <<depth, bits, parser>>

OpenedObject(t) ==
  /\ Take("opened", t) /\ in = "object"
  /\ CASE t = "quote" -> /\ Goto("key", "object") /\ depth' = Deeper /\ bits' = Pushed
                         /\ Go /\ UNCHANGED <<pending, parser>>
       [] t = "}" -> Empty
       [] OTHER -> Return("TAPE_ERROR")

OpenedArray(t) ==
  /\ Take("opened", t) /\ in = "array"
  /\ IF t = "]" THEN Empty ELSE Value(t, "array", Deeper, Pushed)

(* OBJECT_ELEMENT: the key, the colon, the value. *)
Key(t) ==
  /\ Take("key", t)
  /\ CASE t = NPOS -> Return("UNCLOSED_STRING")
       [] t \in BadContents -> Return("STRING_ERROR")
       [] OTHER -> /\ VisitKey(t) /\ Goto("colon", "object") /\ Go
                   /\ UNCHANGED <<pending, depth, bits, stack, current>>

Colon(t) ==
  /\ Take("colon", t)
  /\ IF t = ":" THEN Goto("value", "object") /\ Go /\ UNCHANGED <<pending, depth, bits, parser>>
                ELSE Return("TAPE_ERROR")

MemberValue(t) == Take("value", t) /\ Value(t, "object", depth, bits)

(* visit_object_string and visit_array_string. *)
String(t) ==
  /\ Take("string", t)
  /\ CASE t = NPOS -> Return("UNCLOSED_STRING")
       [] t \in BadContents -> Return("STRING_ERROR")
       [] OTHER -> /\ heap' = PutValue(heap, in, current, Leaf("string", t))
                   /\ Goto("next", in) /\ pending' = Nought /\ Go
                   /\ UNCHANGED <<depth, bits, stack, current, element>>

(* Mutant: the level above is always taken for an array. *)
AboveArray == "array"

(* type: what the container is in that is being closed. *)
Above == IF bits[depth - 1] THEN "array" ELSE "object"

(* OBJECT_ELEMENTS and ARRAY_ELEMENTS, entered with the token behind an *)
(* element: first the visit that waits for it, then the token. *)
Next_(t) ==
  /\ Take("next", t)
  /\ IF t = NPOS THEN Return("TAPE_ERROR")
     ELSE IF pending \in Refused THEN Return("SCALAR_ERROR")
     ELSE LET close == IF in = "object" THEN "}" ELSE "]"
          IN  /\ heap' = IF pending \in Scalars THEN VisitScalar(heap, in, current) ELSE heap
              /\ current' = Left.current /\ stack' = Left.stack
              /\ UNCHANGED element
              /\ CASE t = "," -> /\ Goto("comma", in) /\ pending' = Nought
                                 /\ Go /\ UNCHANGED <<depth, bits>>
                   [] t = close /\ depth = 0 -> /\ Goto("trailing", "root") /\ pending' = Nought
                                                /\ Go /\ UNCHANGED <<depth, bits>>
                   [] t = close /\ depth > 0 -> /\ Goto("next", Above) /\ pending' = "end"
                                                /\ depth' = depth - 1 /\ Go /\ UNCHANGED bits
                   [] OTHER -> result' = "TAPE_ERROR" /\ UNCHANGED visitor

(* Behind a comma: the next key, or the next element. *)
NextKey(t) ==
  /\ Take("comma", t) /\ in = "object"
  /\ IF t = "quote" THEN Goto("key", "object") /\ Go /\ UNCHANGED <<pending, depth, bits, parser>>
                    ELSE Return("TAPE_ERROR")

NextElement(t) == Take("comma", t) /\ in = "array" /\ Value(t, "array", depth, bits)

Trailing(t) == Take("trailing", t) /\ Return(IF t = NPOS THEN "SUCCESS" ELSE "TRAILING_CONTENT")

Step(t) ==
  \/ Root(t) \/ RootString(t) \/ RootEnd(t)
  \/ OpenedObject(t) \/ OpenedArray(t)
  \/ Key(t) \/ Colon(t) \/ MemberValue(t)
  \/ String(t) \/ Next_(t) \/ NextKey(t) \/ NextElement(t)
  \/ Trailing(t)

Next == Len(read) < MaxTokens /\ \E t \in Offered : Step(t)

Spec == Init /\ [][Next]_vars

-----------------------------------------------------------------------------
(* Properties. *)

(* What the documents of h denote, with all that is nested in them. *)
Denotes(h) ==
  LET value[n \in 1 .. Len(h)] ==
        [kind |-> h[n].kind, text |-> h[n].text,
         kids |-> [i \in DOMAIN h[n].kids |-> <<h[n].kids[i][1], value[h[n].kids[i][2]]>>]]
  IN  value

(* The document under the root. *)
Document == Denotes(heap)[1]

(* The texts that may be parsed: one level of containers has no bit. *)
Texts == Language(MaxTokens - 1, MaxDepth + 1)
Denoted == {<<Append(p.text, NPOS), p.value>> : p \in Texts}
Beginnings == UNION {{SubSeq(d[1], 1, n) : n \in 0 .. Len(d[1])} : d \in Denoted}

(* A text is accepted only if it is JSON, nested no deeper than allowed, *)
(* and the document is its value: every element in its container, the last *)
(* of equal keys winning, nothing of the overwritten value left. *)
Sound == result = "SUCCESS" => <<read, Document>> \in Denoted

(* No beginning of such a text is refused, whatever bits the stack held. *)
Complete == result \notin {Running, "SUCCESS"} => read \notin Beginnings

(* How many containers the tokens have opened and not closed. *)
Placed(tokens) == Cardinality({i \in DOMAIN read : read[i] \in tokens})
Unclosed == Placed({"{", "["}) - Placed({"}", "]"})

(* An error says what is wrong: a level too many; a text with something *)
(* behind it; a string without a closing quote; a content or a scalar that *)
(* is refused, which is the last or, being known late, the one before. *)
ErrorsTold ==
  /\ result = "DEPTH_ERROR" => Unclosed = MaxDepth + 2
  /\ result = "TRAILING_CONTENT" => Append(Front(read), NPOS) \in {d[1] : d \in Denoted}
  /\ result = "UNCLOSED_STRING" => Last(read) = NPOS /\ read[Len(read) - 1] = "quote"
  /\ result = "STRING_ERROR" => Last(read) \in BadContents
  /\ result = "SCALAR_ERROR" => read[Len(read) - 1] \in Refused

(* The parser's stack holds what the visitor's bits say, one above the *)
(* other, and never more than its capacity, though empty containers are *)
(* pushed on it without a level of their own. *)
StacksAgree == result = Running =>
  /\ Len(stack) <= MaxDepth
  /\ Len(stack) = depth + (IF pending = "end" \/ (at = "opened" /\ outer # "root") THEN 1 ELSE 0)
  /\ \A i \in 1 .. depth : heap[stack[i]].kind = IF bits[i - 1] THEN "array" ELSE "object"

(* A visit that waits goes to where it belongs: element is a child of the *)
(* open object, and current the open container itself. *)
TargetsLive == result = Running =>
  /\ at \in {"key", "colon", "value", "string", "comma"} => heap[current].kind = in
  /\ at = "next" => heap[Left.current].kind = in
  /\ at \in {"colon", "value"} \/ (in = "object" /\ (at = "string" \/ (at = "next" /\ pending \in Scalars)))
       => \E i \in DOMAIN heap[current].kids : heap[current].kids[i][2] = element

-----------------------------------------------------------------------------
(* The inductive invariant behind StacksAgree and TargetsLive. *)

Kinds == {"null", "scalar", "string", "object", "array"}
Kid == (Contents \cup {NoKey}) \X Nat
Node == [kind : Kinds, text : Scalars \cup Contents \cup {""}, kids : Seq(Kid)]

(* A document is older than what is nested in it. *)
KidsNewer(h) == \A n \in 1 .. Len(h) : \A i \in 1 .. Len(h[n].kids) : h[n].kids[i][2] \in n + 1 .. Len(h)

(* A container is on the parser's stack that the visitor has no level for. *)
Ahead == pending = "end" \/ (at = "opened" /\ outer # "root")

DocumentShape == heap \in Seq(Node) /\ KidsNewer(heap) /\ current \in 1 .. Len(heap) /\ element \in Nat

StackShape ==
  /\ stack \in Seq(Nat) /\ depth \in Nat /\ bits \in [0 .. MaxDepth - 1 -> BOOLEAN]
  /\ Len(stack) <= MaxDepth /\ Len(stack) = (IF Ahead THEN depth + 1 ELSE depth)
  /\ \A i \in 1 .. Len(stack) : stack[i] \in 1 .. current - 1
  /\ \A i, j \in 1 .. Len(stack) : i < j => stack[i] < stack[j]
  /\ \A i \in 1 .. depth : heap[stack[i]].kind = IF bits[i - 1] THEN "array" ELSE "object"
  /\ Ahead => heap[stack[Len(stack)]].kind = IF at = "opened" THEN outer ELSE in

ControlShape ==
  /\ at \in {"root", "rootString", "rootEnd", "trailing"} => depth = 0
  /\ at \in {"root", "rootString", "rootEnd"} => current = 1
  /\ at \in {"opened", "string", "comma", "next"} => in \in {"object", "array"}
  /\ at \in {"key", "colon", "value"} => in = "object"
  /\ at = "opened" => outer \in {"root", "object", "array"} /\ (outer = "root" => depth = 0)
  /\ at = "next" => pending \in {Nought, "end"} \cup Scalars \cup Refused
  /\ at = "rootEnd" => pending # "end"
  /\ at \notin {"next", "rootEnd"} => pending = Nought

TargetShape ==
  /\ at \in {"opened", "key", "colon", "value", "string", "comma"} \/ (at = "next" /\ pending # "end")
       => heap[current].kind = in
  /\ at \in {"colon", "value"} \/ (in = "object" /\ (at = "string" \/ (at = "next" /\ pending \in Scalars)))
       => \E i \in 1 .. Len(heap[current].kids) : heap[current].kids[i][2] = element

(* The containers on the parser's stack are older from level to level, so *)
(* that what a visit writes is never one of them; one more than the visitor *)
(* counts is there just while an empty or closed container waits. *)
VInv == result = Running => DocumentShape /\ StackShape /\ ControlShape /\ TargetShape

(* detail.hpp says of UNCLOSED_STRING: missing quote at the end. *)
MissingQuoteTold ==
  result \notin {Running, "SUCCESS"} /\ Len(read) > 1 /\ Last(read) = NPOS /\ read[Len(read) - 1] = "quote"
    => result = "UNCLOSED_STRING"
=============================================================================
