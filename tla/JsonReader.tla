----------------------------- MODULE JsonReader ----------------------------
(***************************************************************************)
(* json::ondemand_reader (include/wjr/json/reader.hpp) over json::lexer    *)
(* (src/json/lexer.cpp): get() hands out the tokens of a text one by one   *)
(* and lets the lexer refill a bounded buffer when it is used up.          *)
(*                                                                         *)
(* lexer::read runs a loop, one block of W characters per iteration; the   *)
(* iterations are steps here.  A token is the position of a character.     *)
(***************************************************************************)
EXTENDS JsonLexer, SequencesExt

CONSTANTS
  Extra,        \* extra_memory: 64
  Threshold,    \* threshold: 4096 - extra_memory
  NPOS          \* npos

(* A block has up to a token for each bit, and the first four of them are *)
(* stored at once. *)
ASSUME ReaderAssumption == Extra \in Nat /\ Extra >= W /\ Threshold \in Nat /\ NPOS \notin Nat \cup Seq(Nat)

VARIABLES
  text,         \* m_input
  first,        \* m_lexer: how many characters are lexed
  carry,        \* m_lexer: prev_in_string, prev_is_escape, prev_is_ws
  buffer,       \* m_tokens: the tokens of the last refill
  ptr,          \* m_ptr: how many of them are handed out
  filling,      \* the tokens the running lexer::read has stored, NPOS if none runs
  stored,       \* the highest index it has written to, plus 1
  got           \* what get() has returned so far

readerVars == <<text, first, carry, buffer, ptr, filling, stored, got>>

Capacity == (IF Len(text) < Threshold THEN Len(text) ELSE Threshold) + Extra

(* Nothing of the text has been lexed. *)
NothingRead ==
  /\ first = 0 /\ carry = FirstCarry
  /\ buffer = <<>> /\ ptr = 0
  /\ filling = NPOS /\ stored = 0
  /\ got = <<>>

-----------------------------------------------------------------------------
Idle == filling = NPOS
LastBlock == Len(text) - first <= W

(* get() while the buffer has tokens. *)
Get ==
  /\ Idle /\ ptr < Len(buffer)
  /\ got' = Append(got, buffer[ptr + 1])
  /\ ptr' = ptr + 1
  /\ UNCHANGED <<text, first, carry, buffer, filling, stored>>

(* get() with the buffer used up calls lexer::read. *)
Refill ==
  /\ Idle /\ ptr = Len(buffer) /\ first < Len(text)
  /\ filling' = <<>> /\ stored' = 0
  /\ UNCHANGED <<text, first, carry, buffer, ptr, got>>

(* What a caller that goes on after npos has got. *)
GotNpos == IF got # <<>> /\ Last(got) = NPOS THEN got ELSE Append(got, NPOS)

(* Mutant: the last block need not be lexed. *)
GetNposEarly ==
  /\ Idle /\ ptr = Len(buffer) /\ LastBlock
  /\ got' = GotNpos
  /\ UNCHANGED <<text, first, carry, buffer, ptr, filling, stored>>

(* get() with the buffer used up and the text lexed returns npos. *)
GetNpos ==
  /\ Idle /\ ptr = Len(buffer) /\ first = Len(text)
  /\ got' = GotNpos
  /\ UNCHANGED <<text, first, carry, buffer, ptr, filling, stored>>

(* What the stores of num tokens write to: they are stored in groups. *)
Stored(num) ==
  IF num = 0 THEN 0
  ELSE IF num <= 4 THEN 4
  ELSE IF num <= 8 THEN 8
  ELSE IF num <= 12 THEN 12
  ELSE IF num <= 16 THEN 16
  ELSE num

(* Mutant: there is room as long as not every slot is taken. *)
RoomTight == Len(filling) < Capacity

(* The loop goes on while another block is sure to fit. *)
Room == Len(filling) <= Capacity - Extra

NextBlock == Fill(SubSeq(text, first + 1, Len(text)))

(* The tokens of block b behind those stored before. *)
Store(b) ==
  LET t == Places(b.tokens, W)
  IN  /\ filling' = filling \o [i \in DOMAIN t |-> first + t[i]]
      /\ stored' = Len(filling) + Stored(Len(t))
      /\ carry' = b.carry

(* One iteration of lexer::read. *)
ReadBlock ==
  /\ ~Idle /\ first < Len(text) /\ Room
  /\ \E b \in {Block(NextBlock, carry)} : Store(b)
  /\ first' = IF LastBlock THEN Len(text) ELSE first + W
  /\ UNCHANGED <<text, buffer, ptr, got>>

(* lexer::read returns to get(): npos if it found no token, else the first. *)
Deliver ==
  /\ ~Idle /\ (first = Len(text) \/ ~Room)
  /\ IF filling = <<>>
       THEN got' = GotNpos /\ UNCHANGED <<buffer, ptr>>
       ELSE got' = Append(got, filling[1]) /\ buffer' = filling /\ ptr' = 1
  /\ filling' = NPOS /\ stored' = 0
  /\ UNCHANGED <<text, first, carry>>

ReaderNext == Get \/ GetNpos \/ Refill \/ ReadBlock \/ Deliver

-----------------------------------------------------------------------------
(* Properties. *)

(* What get() has returned but for the npos at the end. *)
Given == IF got # <<>> /\ Last(got) = NPOS THEN Front(got) ELSE got

(* The word arithmetic and the buffer together give exactly the tokens a *)
(* character-by-character reading finds: none lost at the seams of blocks *)
(* or refills, none twice, in order, whatever runs of backslashes, strings *)
(* and spaces cross a seam (lexer::read, ondemand_reader::get). *)
TokensExact ==
  Given \o SubSeq(buffer, ptr + 1, Len(buffer)) \o (IF Idle THEN <<>> ELSE filling)
    = Tokens(text, first)

(* npos is handed out only behind the last token, and is final *)
(* (ondemand_reader::get). *)
NposFinal ==
  \A i \in DOMAIN got : got[i] = NPOS => i = Len(got) /\ Given = Tokens(text, Len(text))

(* No store of lexer::read goes past the buffer, though a block may have a *)
(* token per character and they are stored in groups. *)
StoresInBuffer == ~Idle => Len(filling) <= Capacity /\ stored <= Capacity
=============================================================================
