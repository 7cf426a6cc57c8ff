----------------------------- MODULE JsonLexer -----------------------------
(***************************************************************************)
(* The block step of json::lexer::read and json::minify                    *)
(* (src/json/lexer.cpp, include/wjr/json/lexer-impl.hpp).                  *)
(*                                                                         *)
(* The lexer classifies W characters at a time into machine words and finds *)
(* the tokens among them with arithmetic on the words; three words carry   *)
(* over to the next block.  A word is the set of its 1 bits here.  Bit i   *)
(* stands for character i of the block.                                    *)
(***************************************************************************)
EXTENDS JsonTokens, FiniteSets

CONSTANT W   \* the width of a word: 64

(* The groups of minify are of four characters, and those of the stores of *)
(* tokens of at least four. *)
ASSUME WidthAssumption == W \in Nat \ {0} /\ W % 4 = 0

Bits == 0 .. W - 1
NoBits == {}

-----------------------------------------------------------------------------
(* Machine words. *)

(* What bit i stands for in a number, 2^i. *)
Weight[i \in 0 .. W] == IF i = 0 THEN 1 ELSE 2 * Weight[i - 1]

Number(B) ==
  LET upto[i \in 0 .. W] == IF i = 0 THEN 0 ELSE upto[i - 1] + (IF i - 1 \in B THEN Weight[i - 1] ELSE 0)
  IN  upto[W]

Word(n) == {i \in Bits : (n \div Weight[i]) % 2 = 1}

Xor(A, B) == (A \ B) \cup (B \ A)
ShiftLeft(B) == {i + 1 : i \in B} \cap Bits
Minus(A, B) == Word((Number(A) - Number(B)) % Weight[W])
Top(B) == IF W - 1 \in B THEN {0} ELSE NoBits

(* prefix_xor: the bits at or behind which an odd number of 1 bits begins. *)
PrefixXor(B) == {i \in Bits : Cardinality({j \in B : j <= i}) % 2 = 1}

(* shld(high, low, 1). *)
ShiftIn(high, low) == ShiftLeft(high) \cup Top(low)

OddBits == {i \in Bits : i % 2 = 1}

(* Mutant: the borrow of the subtraction starts at even positions only. *)
CalcBackslashEven(B) == Xor(Minus(ShiftLeft(B), B), OddBits)

(* calc_backslash: an odd number of backslashes ends in front of a 1 bit *)
(* that is no backslash; within a run every other one is set. *)
CalcBackslash(B) == Xor(Minus(ShiftLeft(B) \cup OddBits, B), OddBits)

-----------------------------------------------------------------------------
(* One block.  A carry has the words inString, isEscape and isSpace. *)

FirstCarry == [inString |-> NoBits, isEscape |-> NoBits, isSpace |-> Bits]

Class(block, c) == {i \in Bits : block[i + 1] = c}

(* The escaped characters, and whether the first one of the next block is. *)
Escaped(B, isEscape) ==
  IF B = NoBits THEN [chars |-> isEscape, carry |-> NoBits]
  ELSE LET code == CalcBackslash(B \ isEscape)
       IN  [chars |-> Xor(code, B \cup isEscape), carry |-> Top(code \cap B)]

(* The last block of a text is filled up with spaces. *)
Fill(chars) == [i \in 1 .. W |-> IF i <= Len(chars) THEN chars[i] ELSE "space"]

(* The tokens of a block: quotes that are not escaped, and outside strings *)
(* the structural characters and what follows one of them or a space. *)
Block(block, was) ==
  LET escaped == Escaped(Class(block, "backslash"), was.isEscape)
      quotes  == Class(block, "quote") \ escaped.chars
      string  == Xor(PrefixXor(quotes), was.inString)
      white   == Class(block, "space")
      spaces  == Class(block, "structural") \cup white
      follows == ShiftIn(spaces, was.isSpace)
  IN  [tokens  |-> ((Class(block, "structural") \cup (follows \ white)) \ string) \cup quotes,
       kept    |-> Bits \ (white \ (string \cup quotes)),
       carry   |-> [inString |-> IF W - 1 \in string THEN Bits ELSE NoBits,
                    isEscape |-> escaped.carry,
                    isSpace  |-> spaces]]
=============================================================================
