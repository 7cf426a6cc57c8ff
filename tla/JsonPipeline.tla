---------------------------- MODULE JsonPipeline ---------------------------
(***************************************************************************)
(* A text is read by json::ondemand_reader as it is, or first minified,    *)
(* elsewhere or in place, and what minify has written is read              *)
(* (include/wjr/json/reader.hpp, src/json/lexer.cpp).                      *)
(*                                                                         *)
(* Both components classify a text block by block with the words of        *)
(* JsonLexer, each with carries of its own.                                *)
(***************************************************************************)
EXTENDS JsonReader, JsonMinify

CONSTANT Texts   \* the texts there are

ASSUME TextsAssumption == Texts \subseteq Seq(Classes)

VARIABLE minifying   \* minify has not returned yet

vars == <<minifying, minifyVars, readerVars>>

(* A text that is read as it is is not lexed by minify: lexed = 0. *)
Init ==
  /\ source \in Texts
  /\ MinifyCalled
  /\ minifying \in BOOLEAN
  /\ ~minifying => ~inPlace
  /\ text = IF minifying THEN <<>> ELSE source
  /\ NothingRead

Minify == minifying /\ MinifyBlock /\ UNCHANGED <<minifying, readerVars>>

(* minify returns the end of what it has written, and that is read. *)
MinifyReturns ==
  /\ minifying /\ lexed = Len(source)
  /\ minifying' = FALSE
  /\ text' = [i \in 1 .. written |-> source[Minified[i] + 1]]
  /\ UNCHANGED <<minifyVars, first, carry, buffer, ptr, filling, stored, got>>

Read == ~minifying /\ ReaderNext /\ UNCHANGED <<minifying, minifyVars>>

Next == Minify \/ MinifyReturns \/ Read

Spec == Init /\ [][Next]_vars

-----------------------------------------------------------------------------
(* Properties. *)

(* As in every JSON text: backslashes are in strings, and a scalar that is *)
(* no string follows a structural character or nothing. *)
Separated ==
  LET t  == Tokens(source, Len(source))
      at == States(source)
  IN  /\ \A p \in DOMAIN source : source[p] = "backslash" => at[p - 1].inString
      /\ \A i \in 2 .. Len(t) :
           source[t[i] + 1] = "other" => source[t[i - 1] + 1] = "structural"

(* A separated text has the same tokens whether it is read as it is or *)
(* minified before: what minify removes separates nothing, and no character *)
(* it keeps changes sides of a quote (minify, lexer::read). *)
SameTokens ==
  LET place == IF lexed = 0 THEN [i \in DOMAIN source |-> i - 1] ELSE Minified
  IN  ~minifying /\ NPOS \in Range(got) /\ Separated =>
        [i \in DOMAIN Given |-> place[Given[i] + 1]] = Tokens(source, Len(source))
=============================================================================
