------------------------------- MODULE Texts -------------------------------
(***************************************************************************)
(* Texts on their way through the conversions that keep no state: the      *)
(* packing of characters (Codings) and the tokenizer of AT lines           *)
(* (AtTokens).                                                             *)
(***************************************************************************)
EXTENDS Codings, AtTokens

CONSTANTS
  Alphabet, \* characters of the texts that are packed and unpacked
  MaxText,  \* bound: length of these texts
  Words,    \* what a modem writes between two commas
  MaxWords  \* bound: items of a line

ASSUME TextAssumption == Alphabet \subseteq 0..127

\* w is between two marks, the second of which ends it.
Encloses(opening, closing, w) ==
  /\ Len(w) >= 2 /\ w[1] = opening /\ w[Len(w)] = closing
  /\ \A i \in 2..(Len(w) - 1) : w[i] # closing

IsWord(w) == w # <<>> /\ w[1] \notin {Quote, "(", " "} /\ ~Contains(w, ",")

\* An item of a line: nothing, a word or a number, a string, or a list.
IsItem(w) == w = <<>> \/ IsWord(w) \/ Encloses(Quote, Quote, w) \/ Encloses("(", ")", w)

\* The characters of the items.
Signs == UNION {{w[i] : i \in 1..Len(w)} : w \in Words}

ASSUME WordAssumption == \A w \in Words : w \in Seq(Signs) /\ IsItem(w)

VARIABLES
  chars, \* a text
  items  \* the items of a line

textVars == <<chars, items>>

TextInit == chars = <<>> /\ items = <<>>

WriteText ==
  /\ items = <<>> /\ Len(chars) < MaxText
  /\ \E c \in Alphabet : chars' = Append(chars, c)
  /\ UNCHANGED items

WriteItem ==
  /\ chars = <<>> /\ Len(items) < MaxWords
  /\ \E i \in Words : items' = Append(items, i)
  /\ UNCHANGED chars

Erase == textVars # <<<<>>, <<>>>> /\ chars' = <<>> /\ items' = <<>>

TextNext == WriteText \/ WriteItem \/ Erase

TextSpec == TextInit /\ [][TextNext]_textVars

-----------------------------------------------------------------------------
(* Properties *)

\* A text comes back from packing and unpacking as it was, but for line ends, and
\* with at most one character of padding behind it (tcore_util_pack_gsm7bit,
\* tcore_util_unpack_gsm7bit).
SeptetsSurvive ==
  LET back == UnpackGsm7(PackGsm7(chars))
  IN chars # <<>> =>
       /\ SubSeq(back, 1, Len(chars)) =
            [i \in 1..Len(chars) |-> IF chars[i] = CR THEN Space ELSE chars[i]]
       /\ SubSeq(back, Len(chars) + 1, Len(back)) \in {<<>>, <<0>>, <<Space>>}

\* The items with a comma, and perhaps a blank, between them.
Listing(s, blank) ==
  FlattenSeq([i \in 1..Len(s) |-> IF i = 1 THEN s[i] ELSE <<",">> \o blank \o s[i]])

\* The items of a line are the tokens of it, whatever commas, parentheses and
\* quotes are in them and wherever the empty ones are: behind a colon, in a list,
\* and, as long as no list is in another, in a list that is a token of a line;
\* reading behind the last token gives none (tcore_at_tok_new, _extract, _nth).
TokensSurvive ==
  items # <<>> =>
    \A blank \in {<<>>, <<" ">>} :
      LET list == <<"(">> \o Listing(items, blank) \o <<")">>
          line == <<"+", ":", " ">> \o Listing(<<list, <<"a">>>>, blank)
          plain == \A i \in 1..Len(items) : ~Contains(items[i], ")")
      IN /\ Tokens(<<"+", ":", " ">> \o Listing(items, blank)) = items
         /\ Tokens(list) = items
         /\ plain => /\ Len(Tokens(line)) = 2
                     /\ Tokens(Nth(Tokens(line), 0)) = items
                     /\ Extract(Nth(Tokens(line), 0)) = Listing(items, blank)
                     /\ Nth(Tokens(line), 1) = <<"a">> /\ Nth(Tokens(line), 2) = NoToken
=============================================================================
