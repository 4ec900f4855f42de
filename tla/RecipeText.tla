------------------------------ MODULE RecipeText ------------------------------
(***************************************************************************)
(* recipe.rs: from a line of a `.wants` file to an operation, and from a    *)
(* recipe with $params to one without.                                      *)
(*                                                                         *)
(* A text is a sequence of symbols: two quotes, the backslash, the space,   *)
(* the dollar, the braces, and Letters and Digits that stand for the rest.  *)
(* A token of a line is [key, val]: key is "" but for KEY=VALUE.            *)
(***************************************************************************)
EXTENDS Integers, Sequences, FiniteSets, SequencesExt, FiniteSetsExt

CONSTANTS Letters, Digits

Space == " "
Quotes == {"\"", "'"}
Backslash == "\\"
Dollar == "$"

\* What names are made of: `is_ident_start` and `is_ident_continue`
ASSUME TextAssumption == Dollar \notin Letters \union Digits

-----------------------------------------------------------------------------
(* tokenize                                                                 *)

Fresh == [quote |-> Space, escaped |-> FALSE, buf |-> <<>>, out |-> <<>>]
Push(st) == [st EXCEPT !.out = Append(@, st.buf), !.buf = <<>>]
Put(st, c) == [st EXCEPT !.buf = Append(@, c)]

\* A closing quote ends the token when a space or the end follows, empty or not
Closed(st, edge) ==
    LET open == [st EXCEPT !.quote = Space] IN IF edge THEN Push(open) ELSE open

Quoted(st, c, edge) ==
    IF c = st.quote THEN Closed(st, edge)
    ELSE IF c = Backslash THEN [st EXCEPT !.escaped = TRUE] ELSE Put(st, c)

Bare(st, c) ==
    IF c \in Quotes THEN [st EXCEPT !.quote = c]
    ELSE IF c # Space THEN Put(st, c)
    ELSE IF st.buf = <<>> THEN st ELSE Push(st)

TokenStep(st, c, edge) ==
    IF st.escaped THEN Put([st EXCEPT !.escaped = FALSE], c)
    ELSE IF st.quote # Space THEN Quoted(st, c, edge) ELSE Bare(st, c)

Unterminated == <<"unterminated quote">>

\* The tokens of a line, or the error
Tokenized(line) ==
    LET read[i \in 0 .. Len(line)] ==
          IF i = 0 THEN Fresh
          ELSE TokenStep(read[i - 1], line[i], i = Len(line) \/ line[i + 1] = Space)
        st == read[Len(line)]
    IN IF st.quote # Space THEN Unterminated
       ELSE IF st.buf = <<>> THEN st.out ELSE Push(st).out

-----------------------------------------------------------------------------
(* Placeholders: $ident and ${ident}                                        *)

IsIdent(name) ==
    /\ name # <<>> /\ name[1] \in Letters
    /\ ToSet(name) \subseteq Letters \union Digits

NoPlaceholder == [name |-> <<>>, next |-> 0]

\* parse_placeholder_bytes: what the dollar at i stands for and where it ends
PlaceholderAt(text, i) ==
    LET braced == i < Len(text) /\ text[i + 1] = "{"
        closing == {j \in i + 2 .. Len(text) : text[j] = "}"}
        word == {j \in i + 1 .. Len(text) :
                   \A k \in i + 1 .. j : text[k] \in Letters \union Digits}
        name == IF braced THEN SubSeq(text, i + 2, Min(closing) - 1)
                ELSE SubSeq(text, i + 1, Max(word))
    IN IF \/ braced /\ closing = {}
          \/ ~braced /\ word = {}
          \/ ~IsIdent(name)
       THEN NoPlaceholder
       ELSE [name |-> name, next |-> IF braced THEN Min(closing) + 1 ELSE Max(word) + 1]

\* The text from i on, as pieces: placeholders, and the symbols between them
Pieces(text) ==
    LET from[i \in 1 .. Len(text) + 1] ==
          IF i > Len(text) THEN <<>>
          ELSE LET ref == PlaceholderAt(text, i)
               IN IF text[i] = Dollar /\ ref # NoPlaceholder
                  THEN <<[ref |-> TRUE, val |-> ref.name]>> \o from[ref.next]
                  ELSE <<[ref |-> FALSE, val |-> <<text[i]>>]>> \o from[i + 1]
    IN from[1]

References(text) ==
    {j \in DOMAIN text : text[j] = Dollar /\ PlaceholderAt(text, j) # NoPlaceholder}

\* Fault: only the bare form is collected
NamesBare(text) ==
    {PlaceholderAt(text, j).name : j \in {k \in References(text) : text[k + 1] # "{"}}

\* collect_placeholders: no placeholder starts inside another
Names(text) == {PlaceholderAt(text, j).name : j \in References(text)}

\* The names substitute_string looks up, on a walk of its own
Wanted(text) == LET ps == Pieces(text)
                IN {ps[i].val : i \in {j \in DOMAIN ps : ps[j].ref}}

\* substitute_string: one pass, a value is not looked at again
Substituted(text, set) ==
    LET ps == Pieces(text)
    IN FlattenSeq([i \in DOMAIN ps |-> IF ps[i].ref THEN set[ps[i].val] ELSE ps[i].val])

\* Two matches over the operations that the code asks to keep in step.  The keys
\* of an invoke's arguments are in neither.
AssertTexts == {"target", "name", "value", "role"}

Collected ==
    [click |-> {"target"}, type |-> {"target", "text"}, set_value |-> {"target", "value"},
     key |-> {"target", "key"}, keybinding |-> {"binding", "chord"}, assert |-> AssertTexts,
     wait_until |-> AssertTexts, invoke |-> {"name", "args"}, screenshot |-> {"path", "target"}]

Filled ==
    [wait_until |-> AssertTexts, assert |-> AssertTexts, click |-> {"target"},
     type |-> {"target", "text"}, set_value |-> {"target", "value"}, key |-> {"target", "key"},
     keybinding |-> {"binding", "chord"}, invoke |-> {"name", "args"},
     screenshot |-> {"path", "target"}]

\* collect_placeholders_in_op
OpNames(op) == UNION {Names(op.fields[f]) : f \in Collected[op.kind] \intersect DOMAIN op.fields}

\* substitute_op_in_place: an error when a name has no value
FilledIn(op) == Filled[op.kind] \intersect DOMAIN op.fields
OpSubstituted(op, set) ==
    [op EXCEPT !.fields = [f \in DOMAIN @ |-> IF f \in FilledIn(op) THEN Substituted(@[f], set)
                                               ELSE @[f]]]
Substitutable(op, set) == UNION {Wanted(op.fields[f]) : f \in FilledIn(op)} \subseteq DOMAIN set

\* parse_wants: the params of a recipe are the names its steps use
ParamsOf(ops) == UNION {OpNames(ops[i]) : i \in DOMAIN ops}

\* apply_params: every declared param must be set, then every step is filled in
ParamsSet(params, set) == params \subseteq DOMAIN set
Applied(ops, set) == [i \in DOMAIN ops |-> OpSubstituted(ops[i], set)]
=============================================================================
