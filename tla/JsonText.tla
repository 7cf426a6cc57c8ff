------------------------------ MODULE JsonText -----------------------------
(***************************************************************************)
(* json::document::parse on characters: the tokens that JsonLexer finds in *)
(* a text go to JsonVisitor.  JsonReader shows that the reader hands out   *)
(* just these.                                                             *)
(*                                                                         *)
(* The visitor sees of a token the character it starts with, and of a      *)
(* number the characters up to the next token.                             *)
(***************************************************************************)
EXTENDS JsonVisitor

CONSTANT Inputs   \* the texts, over Characters

VARIABLE text

Characters == {"[", "]", ",", "quote", "space", "1", "x"}

CharClass(c) == CASE c \in Structure -> "structural"
                  [] c \in {"quote", "space"} -> c
                  [] OTHER -> "other"

Lexer == INSTANCE JsonTokens

Classified == [i \in DOMAIN text |-> CharClass(text[i])]
States == Lexer!States(Classified)
Positions == Lexer!Tokens(Classified, Len(text))

(* parse_number: behind the digits comes the next token, white space or the *)
(* end, or it is refused. *)
Number(p) ==
  LET behind == {q \in p + 1 .. Len(text) - 1 : text[q + 1] # "1"}
  IN  IF behind # {} /\ text[(CHOOSE q \in behind : \A r \in behind : q <= r) + 1] = "x"
        THEN CHOOSE s \in Refused : TRUE
        ELSE CHOOSE s \in Scalars : TRUE

(* What the visitor sees of the token at p. *)
Seen(p) ==
  LET c == text[p + 1]
  IN  CASE c = "quote" /\ States[p].inString -> CHOOSE s \in Contents : TRUE
        [] c = "1" -> Number(p)
        [] c = "x" -> CHOOSE s \in Junk : TRUE
        [] OTHER -> c

NextToken == IF Len(read) < Len(Positions) THEN Seen(Positions[Len(read) + 1]) ELSE NPOS

TextInit == Init /\ text \in Inputs
Parse == (\E t \in {NextToken} : Step(t)) /\ UNCHANGED text

TextSpec == TextInit /\ [][Parse]_<<vars, text>>

-----------------------------------------------------------------------------
(* detail.hpp names an error for unexpected trailing content in the input: *)
(* in a text that is accepted every character that is neither in a string *)
(* nor white space belongs to a token, none is passed over. *)
CharsAccounted ==
  result = "SUCCESS" =>
    \A p \in 0 .. Len(text) - 1 :
      ~States[p].inString /\ text[p + 1] # "space"
        => \/ p \in {Positions[i] : i \in DOMAIN Positions}
           \/ text[p + 1] = "1" /\ p > 0 /\ text[p] = "1"
=============================================================================
