----------------------------- MODULE JsonTokens ----------------------------
(***************************************************************************)
(* What the words of JsonLexer stand for: a text of JSON read one character *)
(* after the other, with a state of three Booleans.  A character is its    *)
(* class; a position counts the characters in front of it.                 *)
(***************************************************************************)
EXTENDS Integers, Sequences

(* The classes of code_table. *)
Classes == {"backslash", "quote", "structural", "space", "other"}

Start == [inString |-> FALSE, escaped |-> FALSE, delimited |-> TRUE]

(* The state behind a character of class c. *)
After(s, c) ==
  [inString  |-> IF c = "quote" /\ ~s.escaped THEN ~s.inString ELSE s.inString,
   escaped   |-> c = "backslash" /\ ~s.escaped,
   delimited |-> c \in {"structural", "space"}]

(* The state behind each of the characters of chars, from state s on. *)
StatesFrom(s, chars) ==
  LET at[i \in 0 .. Len(chars)] == IF i = 0 THEN s ELSE After(at[i - 1], chars[i])
  IN  at

(* The states in front of each character of text, and behind the last. *)
States(text) == StatesFrom(Start, text)

(* A character of class c in state s is a token; minify keeps it. *)
IsToken(s, c) ==
  \/ c = "quote" /\ ~s.escaped
  \/ ~s.inString /\ (c = "structural" \/ (s.delimited /\ c # "space"))
IsKept(s, c) == s.inString \/ c # "space"

(* The members of B below n, in order. *)
Places(B, n) ==
  LET upto[i \in 0 .. n] ==
        IF i = 0 THEN <<>> ELSE IF i - 1 \in B THEN Append(upto[i - 1], i - 1) ELSE upto[i - 1]
  IN  upto[n]

(* The positions of the tokens among the first n characters, in order, and *)
(* of the characters that minify keeps. *)
TokenPlaces(text) ==
  LET at == States(text) IN {p \in 0 .. Len(text) - 1 : IsToken(at[p], text[p + 1])}
KeptPlaces(text) ==
  LET at == States(text) IN {p \in 0 .. Len(text) - 1 : IsKept(at[p], text[p + 1])}

Tokens(text, n) == Places(TokenPlaces(text), n)
Kept(text, n) == Places(KeptPlaces(text), n)
=============================================================================
