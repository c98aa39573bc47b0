------------------------------ MODULE AtTokens ------------------------------
(***************************************************************************)
(* The tokenizer of src/at.c: what stands behind the colon of a line, or   *)
(* between the parentheses of a list, is cut at its commas, but for those  *)
(* inside a string or a list.  A line is a sequence of characters.         *)
(***************************************************************************)
EXTENDS Naturals, Sequences, SequencesExt

Quote == "\""
NoToken == <<"NULL">>

\* What is known behind a character: what it is in, the characters of the token it
\* is in, if it is in one, and the tokens that are complete.
Reading(type, token, tokens) == [type |-> type, token |-> token, tokens |-> tokens]

Ready(tokens) == Reading("NONE", <<>>, tokens)

\* Mutant: between two commas there is no item.
TakeBetweenCommas(s, c) ==
  CASE c = Quote -> Reading("STR", <<c>>, s.tokens)
    [] c = "(" -> Reading("PAREN", <<c>>, s.tokens)
    [] c \in {",", " "} -> s
    [] OTHER -> Reading("RAW", <<c>>, s.tokens)

\* A character between two items.
TakeBetween(s, c) ==
  CASE c = Quote -> Reading("STR", <<c>>, s.tokens)
    [] c = "(" -> Reading("PAREN", <<c>>, s.tokens)
    [] c = "," -> Ready(Append(s.tokens, <<>>))
    [] c = " " -> s
    [] OTHER -> Reading("RAW", <<c>>, s.tokens)

\* A character of a string or a list, which its closing character ends.
TakeInside(s, c, closing) ==
  IF c = closing THEN Reading("FIN", <<>>, Append(s.tokens, Append(s.token, c)))
  ELSE Reading(s.type, Append(s.token, c), s.tokens)

TakeChar(s, c) ==
  CASE s.type = "NONE" -> TakeBetween(s, c)
    [] s.type = "STR" -> TakeInside(s, c, Quote)
    [] s.type = "PAREN" -> TakeInside(s, c, ")")
    [] s.type = "RAW" -> IF c = "," THEN Ready(Append(s.tokens, s.token))
                         ELSE Reading("RAW", Append(s.token, c), s.tokens)
    [] s.type = "FIN" -> IF c = "," THEN Ready(s.tokens) ELSE s

\* The end of the line, or the parenthesis that closes it: it may also close a
\* list inside; a string or a list that is not closed is dropped.
Finished(s, closed) ==
  CASE s.type = "NONE" -> Append(s.tokens, <<>>)
    [] s.type = "RAW" -> Append(s.tokens, s.token)
    [] s.type = "PAREN" /\ closed -> Append(s.tokens, Append(s.token, ")"))
    [] OTHER -> s.tokens

\* What is known behind the characters of text, if it was s before them.
Reads(s, text) ==
  LET after[n \in 0..Len(text)] == IF n = 0 THEN s ELSE TakeChar(after[n - 1], text[n])
  IN after[Len(text)]

Scan(text, closed) == Finished(Reads(Ready(<<>>), text), closed)

\* tcore_at_tok_new
Tokens(line) ==
  LET closed == Last(line) = ")"
      text == SubSeq(line, 2, IF closed THEN Len(line) - 1 ELSE Len(line))
      colon == CHOOSE i \in 1..Len(line) :
                 line[i] = ":" /\ \A j \in 1..(i - 1) : line[j] # ":"
  IN CASE line = <<>> -> <<>>
       [] line # <<>> /\ Head(line) = "(" -> Scan(text, closed)
       [] line # <<>> /\ Head(line) # "(" /\ ~Contains(line, ":") -> <<line>>
       [] OTHER -> Scan(SubSeq(line, colon + 1, Len(line)), FALSE)

\* tcore_at_tok_extract: a string or a list without what encloses it.
Extract(src) ==
  LET closing == IF Head(src) = "(" THEN ")" ELSE Quote
  IN IF Len(src) < 2 \/ Head(src) \notin {"(", Quote} THEN src
     ELSE IF Last(src) = closing THEN SubSeq(src, 2, Len(src) - 1)
     ELSE NoToken

\* tcore_at_tok_nth
Nth(tokens, index) == IF index < Len(tokens) THEN tokens[index + 1] ELSE NoToken
=============================================================================
