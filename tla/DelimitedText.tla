---------------------------- MODULE DelimitedText ----------------------------
(***************************************************************************)
(* Texts and delimited lines, as service/importexport.go writes and reads  *)
(* them.  A text is a sequence of symbols: words, blanks, quotes and the   *)
(* character the delimiter is made of; the delimiter has several of it     *)
(* (the built-in formats have four).  Line breaks within a value are left  *)
(* out: the writer quotes them, the reader splits the file before it looks *)
(* at quotes.                                                              *)
(***************************************************************************)
EXTENDS Naturals, Sequences, FiniteSetsExt, SequencesExt

Quote == "quote"
Blank == "blank"
Escape == "escape"
Dash == "dash"
Delimiter == <<Dash, Dash>>
Empty == <<>>

Trim(text) ==
    LET solid == {i \in DOMAIN text : text[i] # Blank}
    IN  IF solid = {} THEN Empty ELSE SubSeq(text, Min(solid), Max(solid))

DelimiterAt(line, i) == IsPrefix(Delimiter, SubSeq(line, i, Len(line)))

-----------------------------------------------------------------------------
\* Writing: a value with a quote or a whole delimiter in it is quoted.
SlipQuoted(text) == \E i \in DOMAIN text : DelimiterAt(text, i)
Quoted(text) == \E i \in DOMAIN text : text[i] = Quote \/ DelimiterAt(text, i)

EncodeValue(text) ==
    IF Quoted(text)
      THEN <<Quote>> \o FlattenSeq([i \in DOMAIN text |-> IF text[i] = Quote THEN <<Quote, Quote>> ELSE <<text[i]>>])
                     \o <<Quote>>
      ELSE text

EncodeLine(values) ==
    FlattenSeq([i \in DOMAIN values |-> IF i = 1 THEN EncodeValue(values[i]) ELSE Delimiter \o EncodeValue(values[i])])

-----------------------------------------------------------------------------
\* Reading: one symbol or delimiter after the other, inside or outside of
\* quotes; a quote that is never closed is an error.
Advance(line, s) ==
    IF s.at > Len(line) THEN s
    ELSE IF line[s.at] = Quote
      THEN IF s.inside /\ s.at < Len(line) /\ line[s.at + 1] = Quote
             THEN [s EXCEPT !.at = @ + 2, !.field = Append(@, Quote)]
             ELSE [s EXCEPT !.at = @ + 1, !.inside = ~@]
    ELSE IF ~s.inside /\ DelimiterAt(line, s.at)
      THEN [s EXCEPT !.at = @ + Len(Delimiter), !.fields = Append(@, s.field), !.field = Empty]
    ELSE [s EXCEPT !.at = @ + 1, !.field = Append(@, line[s.at])]

\* The reader in a line, which it crosses in no more steps than it has symbols.
Reading(line) ==
    LET after[k \in 0..Len(line)] ==
            IF k = 0 THEN [at |-> 1, inside |-> FALSE, field |-> Empty, fields |-> <<>>]
            ELSE Advance(line, after[k - 1])
    IN  after

ParseLine(line) ==
    LET end == Reading(line)[Len(line)]
    IN  [values |-> Append(end.fields, end.field), unclosed |-> end.inside]
=============================================================================
