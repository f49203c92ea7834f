-------------------------- MODULE MailboxTemplates --------------------------
(***************************************************************************)
(* Template formats (service/importexport.go:904-1260): records are        *)
(* written and read by one template of literals and variables, one after   *)
(* the other with a separator, between a prefix and a suffix when they are  *)
(* marked to repeat.  A template is given as its parts; a variable may ask  *)
(* for its value as a JSON string.  Values have no backslash in them.       *)
(***************************************************************************)
EXTENDS DelimitedText

\* What compiling a template accepts: mapped variables, each target once, and
\* a literal between two of them.
WellFormed(t) ==
    /\ t.variables # <<>>
    /\ \A i \in DOMAIN t.variables :
         /\ t.variables[i].target \in DOMAIN t.default
         /\ i > 1 => t.literals[i] # Empty
         /\ \A j \in 1..(i - 1) : t.variables[j].target # t.variables[i].target
    /\ t.separator # Empty

-----------------------------------------------------------------------------
\* Writing.
EncodeJSON(text) ==
    <<Quote>> \o FlattenSeq([i \in DOMAIN text |-> IF text[i] = Quote THEN <<Escape, Quote>> ELSE <<text[i]>>])
              \o <<Quote>>

Rendered(variable, values) ==
    IF variable.json THEN EncodeJSON(values[variable.target]) ELSE values[variable.target]

RenderRecord(t, values) ==
    FlattenSeq([i \in DOMAIN t.variables |-> t.literals[i] \o Rendered(t.variables[i], values)]) \o Last(t.literals)

Render(t, records) ==
    t.prefix \o FlattenSeq([i \in DOMAIN records |->
                              IF i = 1 THEN RenderRecord(t, records[i]) ELSE t.separator \o RenderRecord(t, records[i])])
             \o t.suffix

-----------------------------------------------------------------------------
\* Reading.  A record is matched by a regular expression that prefers the
\* shortest value of the first variable, then of the second, and so on, among
\* those after which a separator or the end follows.
LiteralAt(text, i, literal) == IsPrefix(literal, SubSeq(text, i, Len(text)))

\* Where literal k can begin so that all behind it matches.
Places(t, text) ==
    LET last == Len(t.literals)
        from[k \in 1..last] ==
            LET later == IF k = last THEN {} ELSE from[k + 1]
            IN  {i \in 1..(Len(text) + 1) :
                    LET after == i + Len(t.literals[k])
                    IN  /\ LiteralAt(text, i, t.literals[k])
                        /\ IF k = last THEN after = Len(text) + 1 \/ LiteralAt(text, after, t.separator)
                                       ELSE \E j \in later : j >= after}
    IN  from

\* The places the expression prefers, for a record at the start of the text.
Preferred(t, text) ==
    LET places == [k \in DOMAIN t.literals |-> Places(t, text)[k]]
        at[k \in DOMAIN t.literals] ==
            IF k = 1 THEN 1 ELSE Min({j \in places[k] : j >= at[k - 1] + Len(t.literals[k - 1])})
    IN  [k \in DOMAIN t.literals |-> at[k]]

WellEncoded(text) ==
    /\ Len(text) > 1 /\ Head(text) = Quote /\ Last(text) = Quote
    /\ \A i \in 2..(Len(text) - 1) : text[i] = Quote <=> text[i - 1] = Escape

\* What is between the quotes, without the backslashes.
DecodeJSON(text) ==
    LET inside == SubSeq(text, 2, Len(text) - 1)
    IN  FlattenSeq([i \in DOMAIN inside |-> IF inside[i] = Escape THEN Empty ELSE <<inside[i]>>])

Row(t, captured) ==
    LET read(i) == IF t.variables[i].json THEN DecodeJSON(captured[i]) ELSE captured[i]
        bad == \E i \in DOMAIN captured : t.variables[i].json /\ ~WellEncoded(captured[i])
        values == [target \in DOMAIN t.default |->
                     IF \E i \in DOMAIN t.variables : t.variables[i].target = target
                       THEN read(CHOOSE i \in DOMAIN t.variables : t.variables[i].target = target)
                       ELSE t.default[target]]
    IN  IF bad THEN [broken |-> TRUE]
        ELSE [broken |-> \E target \in t.required : Trim(values[target]) = Empty, values |-> values]

\* The next record is taken off what remains of a text; one that does not match
\* refuses the file.
Refused == [remaining |-> Empty, rows |-> <<[broken |-> TRUE]>>]
NextRecord(t, s) ==
    LET text == s.remaining
        at == Preferred(t, text)
        captured == [k \in DOMAIN t.variables |-> SubSeq(text, at[k] + Len(t.literals[k]), at[k + 1] - 1)]
        after == at[Len(at)] + Len(Last(t.literals))
    IN  IF text = Empty THEN s
        ELSE IF 1 \notin Places(t, text)[1] THEN Refused
        ELSE [remaining |-> SubSeq(text, after + Len(t.separator), Len(text)), rows |-> Append(s.rows, Row(t, captured))]

\* The rows of a text without prefix and suffix.
ParseRecords(t, content) ==
    LET after[k \in 0..Len(content)] ==
            IF k = 0 THEN [remaining |-> content, rows |-> <<>>] ELSE NextRecord(t, after[k - 1])
    IN  after[Len(content)].rows

ParseTemplate(t, text) ==
    LET rest == SubSeq(text, Len(t.prefix) + 1, Len(text))
    IN  IF IsPrefix(t.prefix, text) /\ IsSuffix(t.suffix, rest)
          THEN ParseRecords(t, SubSeq(rest, 1, Len(rest) - Len(t.suffix)))
          ELSE Refused.rows

-----------------------------------------------------------------------------
\* No value runs into the literal behind it.
Apart(t, values) ==
    \A i \in DOMAIN t.variables :
        LET value == Rendered(t.variables[i], values)
            behind == IF i = Len(t.variables) /\ Last(t.literals) = Empty THEN t.separator ELSE t.literals[i + 1]
        IN  \A k \in DOMAIN value : ~LiteralAt(value \o behind, k, behind)

\* What a template has written it reads back record by record
\* (importexport.go:1149), whatever follows the last variable, when no value
\* runs into the literal behind it and the last record is not empty.
TemplateComesBack(t, first, second) ==
    LET records == <<first, second>>
        expected(values) == [target \in DOMAIN t.default |->
                                IF \E i \in DOMAIN t.variables : t.variables[i].target = target
                                  THEN values[target] ELSE t.default[target]]
        row(values) == [broken |-> \E target \in t.required : Trim(expected(values)[target]) = Empty,
                        values |-> expected(values)]
    IN  (/\ WellFormed(t) /\ \A i \in 1..2 : Apart(t, records[i])
         /\ RenderRecord(t, second) # Empty)
          => ParseTemplate(t, Render(t, records)) = <<row(first), row(second)>>
=============================================================================
