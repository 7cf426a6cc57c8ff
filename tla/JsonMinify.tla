----------------------------- MODULE JsonMinify ----------------------------
(***************************************************************************)
(* json::minify (src/json/lexer.cpp): drops the white space outside strings *)
(* block by block and writes the rest to dst, which may be the text itself. *)
(*                                                                         *)
(* Characters are told apart by the position they had in the source; source *)
(* gives their classes.                                                    *)
(***************************************************************************)
EXTENDS JsonLexer

VARIABLES
  source,       \* the classes of the characters
  inPlace,      \* dst = first
  input,        \* the memory at first
  output,       \* the memory at dst when it is another
  lexed,        \* first: how many characters are lexed
  written,      \* dst: how many are written
  minifyCarry   \* prev_in_string, prev_is_escape

minifyVars == <<source, inPlace, input, output, lexed, written, minifyCarry>>

Unwritten == -1

(* minify is called on source. *)
MinifyCalled ==
  /\ inPlace \in BOOLEAN
  /\ input = [i \in 1 .. Len(source) |-> i - 1]
  /\ output = [i \in 1 .. Len(source) |-> Unwritten]
  /\ lexed = 0 /\ written = 0 /\ minifyCarry = FirstCarry

(* What minify has written. *)
Minified == SubSeq(IF inPlace THEN input ELSE output, 1, written)

(* Mutant: where a character goes is counted with itself. *)
DiffTableWide == [x \in 1 .. 16 |-> IF x = 1 THEN <<2, 3, 4, 4>> ELSE <<1, 1, 1, 1>>]

(* Mutant: a row counts as if one more character were white space. *)
DiffTableShort == [x \in 1 .. 16 |-> IF x = 1 THEN <<1, 2, 3, 3>> ELSE <<1, 1, 1, 1>>]

(* diff_table, by the mask of the white space among four characters: where *)
(* the second, third, fourth and the next group's first character go. *)
DiffTable == <<
  <<1, 2, 3, 4>>, <<0, 1, 2, 3>>, <<1, 1, 2, 3>>, <<0, 0, 1, 2>>,
  <<1, 2, 2, 3>>, <<0, 1, 1, 2>>, <<1, 1, 1, 2>>, <<0, 0, 0, 1>>,
  <<1, 2, 3, 3>>, <<0, 1, 2, 2>>, <<1, 1, 2, 2>>, <<0, 0, 1, 1>>,
  <<1, 2, 2, 2>>, <<0, 1, 1, 1>>, <<1, 1, 1, 1>>, <<0, 0, 0, 0>> >>

(* The writes of one block, from dst on: m is [mem, dst].  Whole groups of *)
(* four are written through the table, and each write may be overwritten by *)
(* the next; the rest is written one by one. *)
Put(m, at, c) == [m EXCEPT !.mem[m.dst + at + 1] = c]

Group(m, chars, white, i, alias) ==
  LET X == (IF i \in white THEN 1 ELSE 0) + (IF i + 1 \in white THEN 2 ELSE 0)
             + (IF i + 2 \in white THEN 4 ELSE 0) + (IF i + 3 \in white THEN 8 ELSE 0)
      to == DiffTable[X + 1]
      ch(now, k) == IF alias THEN now.mem[lexed + i + k + 1] ELSE chars[i + k + 1]
      m0 == Put(m, 0, ch(m, 0))
      m1 == Put(m0, to[1], ch(m0, 1))
      m2 == Put(m1, to[2], ch(m1, 2))
      m3 == Put(m2, to[3], ch(m2, 3))
  IN  [m3 EXCEPT !.dst = @ + to[4]]

Single(m, chars, white, i, alias) ==
  IF i \in white THEN m
  ELSE [Put(m, 0, IF alias THEN m.mem[lexed + i + 1] ELSE chars[i + 1]) EXCEPT !.dst = @ + 1]

(* The rest of a group that is not whole is written from its start. *)
Write(m0, chars, white, alias) ==
  LET n == Len(chars)
      groups[g \in 0 .. n \div 4] ==
        IF g = 0 THEN m0 ELSE Group(groups[g - 1], chars, white, 4 * (g - 1), alias)
      rest[k \in 0 .. n % 4] ==
        IF k = 0 THEN groups[n \div 4]
                 ELSE Single(rest[k - 1], chars, white, 4 * (n \div 4) + k - 1, alias)
  IN  rest[n % 4]

Least(a, b) == IF a < b THEN a ELSE b

(* Mutant: the white space inside strings goes as well. *)
DroppedEverywhere(block, b) == Class(block, "space")

(* The characters of a block that go. *)
Dropped(block, b) == Bits \ b.kept

(* One block.  A whole one is read where it is, while it is written; a *)
(* shorter one is copied to the stack before. *)
MinifyBlock ==
  /\ lexed < Len(source)
  /\ LET n     == Least(Len(source) - lexed, W)
         chars == SubSeq(input, lexed + 1, lexed + n)
         block == Fill([i \in 1 .. n |-> source[chars[i] + 1]])
     IN  \E b \in {Block(block, minifyCarry)} :
         \E m \in {Write([mem |-> IF inPlace THEN input ELSE output, dst |-> written],
                         chars, Dropped(block, b), inPlace /\ n = W)} :
           /\ IF inPlace THEN input' = m.mem /\ UNCHANGED output
                         ELSE output' = m.mem /\ UNCHANGED input
           /\ written' = m.dst
           /\ minifyCarry' = b.carry
           /\ lexed' = lexed + n
  /\ UNCHANGED <<source, inPlace>>

-----------------------------------------------------------------------------
(* Properties. *)

(* minify writes the characters that are in a string or no white space, in *)
(* order, and nothing else before dst, also where dst is the text: a write *)
(* never hits a character that has not been read yet (minify). *)
MinifyExact == Minified = Kept(source, lexed)

(* dst may be the text, and otherwise has no more room than the text: what *)
(* minify's groups of four write past the end of what is kept stays within *)
(* as many characters as have been read (minify). *)
UnreadIntact == \A p \in lexed + 1 .. Len(source) : input[p] = p - 1 /\ output[p] = Unwritten
=============================================================================
