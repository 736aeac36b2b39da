----------------------------- MODULE TextFormats -----------------------------
(***************************************************************************)
(* Texts on their way into the database and back: what PostgresTable       *)
(* escapes, what COPY, hstore and array input undo, what hstore and array  *)
(* output escape, and what HStoreParser and ArrayParser make of that.      *)
(* A text is a sequence of characters (tokens).                            *)
(***************************************************************************)
EXTENDS Naturals, Sequences
LOCAL INSTANCE SequencesExt

BS == "\\"
QU == "\""
TAB == "\t"
NL == "\n"
CR == "\r"

\* The field \N, and the null it is read as.
NullCell == <<BS, "N">>
NullField == <<"null">>

Quoted(s) == <<QU>> \o s \o <<QU>>
-----------------------------------------------------------------------------
(* PostgresTable. *)

\* Faulty variant: backslashes are escaped for COPY, but not for hstore.
escape4hstore_OneLevel(text) ==
    Quoted(FlattenSeq([i \in DOMAIN text |->
        CASE text[i] = BS -> <<BS, BS>>
          [] text[i] = QU -> <<BS, BS, QU>>
          [] text[i] \in {TAB, CR, NL} -> <<BS, text[i]>>
          [] OTHER -> <<text[i]>>]))

escape4hstore(text) ==
    Quoted(FlattenSeq([i \in DOMAIN text |->
        CASE text[i] = BS -> <<BS, BS, BS, BS>>
          [] text[i] = QU -> <<BS, BS, QU>>
          [] text[i] \in {TAB, CR, NL} -> <<BS, text[i]>>
          [] OTHER -> <<text[i]>>]))

\* Faulty variant: tabulators are not escaped.
escape_NoTab(text) ==
    FlattenSeq([i \in DOMAIN text |->
        IF text[i] \in {BS, CR, NL} THEN <<BS, text[i]>> ELSE <<text[i]>>])

\* The absent text becomes NULL.
escape(text) ==
    FlattenSeq([i \in DOMAIN text |->
        IF text[i] \in {BS, TAB, CR, NL} THEN <<BS, text[i]>> ELSE <<text[i]>>])

\* Not used yet.  Line breaks and tabulators lose their meaning in array input.
escape4array(text) ==
    FlattenSeq([i \in DOMAIN text |->
        CASE text[i] = BS -> <<BS, BS, BS, BS>>
          [] text[i] = QU -> <<BS, BS, QU>>
          [] text[i] = NL -> <<BS, BS, "n">>
          [] text[i] = CR -> <<BS, BS, "r">>
          [] text[i] = TAB -> <<BS, BS, "t">>
          [] OTHER -> <<text[i]>>])
-----------------------------------------------------------------------------
(* PostgreSQL: COPY in text format, hstore and array input and output.      *)

Unescaped(c) ==
    CASE c = "n" -> NL [] c = "t" -> TAB [] c = "r" -> CR [] OTHER -> c

\* The rows of COPY data, each of them the sequence of its fields.  The last row
\* is what follows the last line break.
CopyRows(data) ==
    LET Read(s, c) ==
            CASE s.esc ->
                    [s EXCEPT !.esc = FALSE, !.cell =
                        IF c = "N" /\ @ = <<>> THEN NullField ELSE Append(@, Unescaped(c))]
              [] c = BS -> [s EXCEPT !.esc = TRUE]
              [] c = TAB -> [s EXCEPT !.row = Append(@, s.cell), !.cell = <<>>]
              [] c = NL -> [s EXCEPT !.rows = Append(@, Append(s.row, s.cell)),
                                     !.row = <<>>, !.cell = <<>>]
              [] OTHER -> [s EXCEPT !.cell = Append(@, c)]
        end == FoldLeft(Read, [rows |-> <<>>, row |-> <<>>, cell |-> <<>>, esc |-> FALSE], data)
    IN  Append(end.rows, Append(end.row, end.cell))

\* A text with quoted parts: these parts, and what is between them.
QuotedParts(text) ==
    LET Read(s, c) ==
            CASE s.esc -> [s EXCEPT !.esc = FALSE, !.part = Append(@, c)]
              [] ~s.esc /\ c = QU ->
                    IF s.inside THEN [s EXCEPT !.inside = FALSE, !.parts = Append(@, s.part)]
                    ELSE [s EXCEPT !.inside = TRUE, !.part = <<>>]
              [] ~s.esc /\ c = BS -> [s EXCEPT !.esc = TRUE]
              [] OTHER -> IF s.inside THEN [s EXCEPT !.part = Append(@, c)]
                          ELSE [s EXCEPT !.between = Append(@, c)]
        end == FoldLeft(Read, [parts |-> <<>>, between |-> <<>>, part |-> <<>>,
                               inside |-> FALSE, esc |-> FALSE], text)
    IN  [parts |-> end.parts, between |-> end.between, complete |-> ~end.inside /\ ~end.esc]

\* hstore input: the pairs in the order they are written, <<>> if it is no hstore.
HstoreIn(cell) ==
    LET q == QuotedParts(cell)
        n == Len(q.parts) \div 2
        between == FlattenSeq([k \in 1..n |-> IF k < n THEN <<"=", ">", ",">> ELSE <<"=", ">">>])
    IN  IF q.complete /\ Len(q.parts) = 2 * n /\ q.between = between
        THEN [k \in 1..n |-> <<q.parts[2 * k - 1], q.parts[2 * k]>>] ELSE <<>>

BackslashQuotes(text) ==
    FlattenSeq([i \in DOMAIN text |-> IF text[i] \in {BS, QU} THEN <<BS, text[i]>> ELSE <<text[i]>>])
Joined(parts) ==
    FlattenSeq([k \in DOMAIN parts |-> IF k > 1 THEN <<",">> \o parts[k] ELSE parts[k]])
HstoreOut(pairs) ==
    FlattenSeq([k \in DOMAIN pairs |->
        (IF k > 1 THEN <<",", " ">> ELSE <<>>)
        \o Quoted(BackslashQuotes(pairs[k][1])) \o <<"=", ">">>
        \o Quoted(BackslashQuotes(pairs[k][2]))])
ArrayOut(elements) ==
    <<"{">>
    \o Joined([k \in DOMAIN elements |->
            IF elements[k] \in {<<>>, <<"N", "U", "L", "L">>} \/ \E i \in DOMAIN elements[k] :
                    elements[k][i] \in {"{", "}", ",", " ", TAB, CR, NL, BS, QU}
            THEN Quoted(BackslashQuotes(elements[k])) ELSE elements[k]])
    \o <<"}">>
-----------------------------------------------------------------------------
(* HStoreParser.  Positions count from 1, progress is NONE = 0, KEY = 1,     *)
(* SEPARATOR = 2, VALUE = 3, END = 4.                                        *)

NONE == 0
KEY == 1
SEPARATOR == 2
VALUE == 3
END == 4
MIN_KV_PAIR_LENGTH == 7

\* The subtraction is one of unsigned numbers: it wraps for short hstores.
hstore_has_next(repr, pos) ==
    /\ pos <= Len(repr)
    /\ Len(repr) >= MIN_KV_PAIR_LENGTH => pos - 1 <= Len(repr) - MIN_KV_PAIR_LENGTH

add_to_key_or_value(p, c) ==
    CASE p.progress = KEY -> [p EXCEPT !.key = Append(@, c)]
      [] p.progress = VALUE -> [p EXCEPT !.value = Append(@, c)]
      [] OTHER -> [p EXCEPT !.error = TRUE]
increase_parse_progress(p) == [p EXCEPT !.progress = @ + 1]
invalid_syntax(p) == [p EXCEPT !.error = TRUE]

\* Faulty variant: a comma ends a value even between quotation marks.
hstore_char_Comma(p, c) ==
    LET within == p.progress \in {KEY, VALUE}
        added == add_to_key_or_value(p, c)
        further == increase_parse_progress(p)
    IN CASE p.slash -> IF c \in {QU, BS} THEN [added EXCEPT !.slash = FALSE] ELSE invalid_syntax(p)
         [] ~p.slash /\ c = BS -> [p EXCEPT !.slash = TRUE]
         [] ~p.slash /\ c = QU -> [further EXCEPT !.quoted = ~within]
         [] ~p.slash /\ c \in {" ", ","} -> IF within THEN further ELSE p
         [] OTHER -> IF within THEN added ELSE p

\* One character.  A quotation mark begins or ends a key or value.
hstore_char(p, c) ==
    LET within == p.progress \in {KEY, VALUE}
        added == add_to_key_or_value(p, c)
        further == increase_parse_progress(p)
    IN CASE p.slash -> IF c \in {QU, BS} THEN [added EXCEPT !.slash = FALSE] ELSE invalid_syntax(p)
         [] ~p.slash /\ c = BS -> [p EXCEPT !.slash = TRUE]
         [] ~p.slash /\ c = "=" ->
                CASE within /\ p.quoted -> added
                  [] within /\ ~p.quoted -> IF p.progress = KEY THEN further ELSE invalid_syntax(p)
                  [] p.progress = NONE -> invalid_syntax(p)
                  [] OTHER -> p
         [] ~p.slash /\ c = ">" ->
                CASE within -> IF p.quoted THEN added ELSE invalid_syntax(p)
                  [] p.progress = SEPARATOR -> p
                  [] OTHER -> invalid_syntax(p)
         [] ~p.slash /\ c = QU -> [further EXCEPT !.quoted = ~within]
         [] ~p.slash /\ c \in {" ", ","} ->
                IF within THEN IF p.quoted THEN added ELSE further ELSE p
         [] OTHER -> IF within THEN added ELSE add_to_key_or_value(further, c)

\* get_next() from a position on: key, value and the position behind them.
hstore_get_next(repr, pos) ==
    LET Read(p, c) ==
            IF p.progress = END \/ p.error THEN p
            ELSE LET q == hstore_char(p, c) IN [q EXCEPT !.pos = p.pos + 1]
    IN  FoldLeft(Read, [pos |-> pos, progress |-> NONE, key |-> <<>>, value |-> <<>>,
                        slash |-> FALSE, quoted |-> FALSE, error |-> FALSE],
                 SubSeq(repr, pos, Len(repr)))

\* while (has_next()) get_next(): the pairs, and whether an exception ended it.
HStoreParser(repr) ==
    LET Read(s, k) ==
            IF s.error \/ ~hstore_has_next(repr, s.pos) THEN s
            ELSE LET p == hstore_get_next(repr, s.pos)
                 IN  [pos |-> p.pos, error |-> p.error,
                      found |-> IF p.error THEN s.found ELSE Append(s.found, <<p.key, p.value>>)]
    IN  FoldLeft(Read, [pos |-> 1, error |-> FALSE, found |-> <<>>], [k \in DOMAIN repr |-> k])
-----------------------------------------------------------------------------
(* ArrayParser, with elements that are converted to strings.                 *)

array_has_next(repr, pos) == pos < Len(repr) /\ repr[pos] # "}"

remove_escape_sequences(source, start, last) ==
    LET Read(s, c) ==
            CASE s.slash -> IF c \in {QU, BS} THEN [s EXCEPT !.slash = FALSE, !.result = Append(@, c)]
                            ELSE [s EXCEPT !.error = TRUE]
              [] ~s.slash /\ c = BS -> [s EXCEPT !.slash = TRUE]
              [] OTHER -> [s EXCEPT !.result = Append(@, c)]
    IN  FoldLeft(Read, [result |-> <<>>, slash |-> FALSE, error |-> FALSE],
                 SubSeq(source, start, last))

\* Progress is NONE, ELEMENT or END; last = 0 stands for "not known yet".
array_char(p, c) ==
    CASE p.progress = "NONE" ->
            CASE c = QU -> [p EXCEPT !.quoted = TRUE, !.start = p.pos + 1, !.progress = "ELEMENT"]
              [] c \in {",", " "} -> p
              [] OTHER -> [p EXCEPT !.start = p.pos, !.progress = "ELEMENT"]
      [] p.progress = "ELEMENT" /\ p.quoted ->
            CASE p.slash -> IF c \in {QU, BS} THEN [p EXCEPT !.slash = FALSE] ELSE invalid_syntax(p)
              [] ~p.slash /\ c = BS -> [p EXCEPT !.slash = TRUE]
              [] ~p.slash /\ c = QU -> [p EXCEPT !.last = p.pos - 1, !.progress = "END"]
              [] OTHER -> p
      [] p.progress = "ELEMENT" /\ ~p.quoted ->
            CASE c = " " -> [p EXCEPT !.last = p.pos - 1]
              [] c \in {",", "}"} ->
                    [p EXCEPT !.last = IF @ = 0 THEN p.pos - 1 ELSE @, !.progress = "END"]
              [] OTHER -> p

array_get_next(repr, pos) ==
    LET Read(p, c) ==
            IF p.progress = "END" \/ p.error THEN p
            ELSE LET q == array_char(p, c) IN [q EXCEPT !.pos = p.pos + 1]
        end == FoldLeft(Read, [pos |-> pos, progress |-> "NONE", start |-> 1, last |-> 0,
                               slash |-> FALSE, quoted |-> FALSE, error |-> FALSE],
                        SubSeq(repr, pos, Len(repr)))
        clean == remove_escape_sequences(repr, end.start, end.last)
    IN  [pos |-> end.pos, error |-> end.error \/ clean.error,
         element |-> IF ~end.quoted /\ clean.result = <<"N", "U", "L", "L">> THEN <<>>
                     ELSE clean.result]

\* The parser starts behind the opening brace.
ArrayParser(repr) ==
    LET Read(s, k) ==
            IF s.error \/ ~array_has_next(repr, s.pos) THEN s
            ELSE LET p == array_get_next(repr, s.pos)
                 IN  [pos |-> p.pos, error |-> p.error,
                      found |-> IF p.error THEN s.found ELSE Append(s.found, p.element)]
    IN  FoldLeft(Read, [pos |-> 2, error |-> FALSE, found |-> <<>>], [k \in DOMAIN repr |-> k])
=============================================================================
