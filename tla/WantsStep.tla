------------------------------- MODULE WantsStep -------------------------------
(***************************************************************************)
(* parse_wants_step: the tokens of one line of a `.wants` file, read as one *)
(* protocol operation.                                                      *)
(*                                                                         *)
(* A token is [is, name, val]: one with a dash in front is a flag, name=val  *)
(* a pair, anything else a word.  A flag, and a pair of an assert, has the   *)
(* name of the field it gives, whatever its spelling (--id gives the target, *)
(* --out the path).  An operation is [kind, fields]; a field has the token   *)
(* it was given, and one that is not given is not there.                     *)
(***************************************************************************)
EXTENDS Naturals, Sequences, FiniteSets, SequencesExt, TLC

CONSTANT Numerals  \* the words that parse as a number

Word(v) == [is |-> "word", name |-> "", val |-> v]
Flag(n) == [is |-> "flag", name |-> n, val |-> ""]
Pair(n, v) == [is |-> "pair", name |-> n, val |-> v]
Bools == {"true", "false"}
Nothing == [x \in {} |-> Word("")]

\* What each flag-reading operation takes: flags with a value, switches with an
\* optional one, what the values of a field may be when that is not any text, the
\* field of a word of its own, and whether pairs give fields
AssertSwitches == {"checked", "exists", "visible", "in_viewport"}
AssertFlags ==
    [valued |-> {"target", "name", "value", "role"}, switches |-> AssertSwitches,
     values |-> [s \in AssertSwitches |-> Bools], positional |-> "target", pairs |-> TRUE]
KeybindingFlags ==
    [valued |-> {"binding", "scope", "chord"}, switches |-> {"confirm", "activate"},
     values |-> [scope |-> {"focused", "global"}, confirm |-> Bools, activate |-> Bools],
     positional |-> "binding", pairs |-> FALSE]
ScreenshotFlags ==
    [valued |-> {"path", "mode", "target", "max_height_px"}, switches |-> {},
     values |-> [mode |-> {"viewport", "scrolled"}, max_height_px |-> Numerals],
     positional |-> "path", pairs |-> FALSE]
Deliveries == {"semantic", "virtual"}

IsOneOf(t, words) == t.is = "word" /\ t.val \in words
Parses(spec, field, t) == field \in DOMAIN spec.values => IsOneOf(t, spec.values[field])

\* An assert's target is not given while it is empty; other fields may be empty
Given(spec, fields, f) == f \in DOMAIN fields /\ ~(spec.pairs /\ fields[f] = Word(""))

Refused == [kind |-> "error", fields |-> Nothing]
Bad(st) == [st EXCEPT !.ok = FALSE]
Give(spec, st, field, t) ==
    IF Parses(spec, field, t) THEN [st EXCEPT !.fields = field :> t @@ @] ELSE Bad(st)

\* Fault: a switch takes whatever word comes next
SwitchTakesWord(st, t) == st.switch # "" /\ t.is = "word"

\* A switch takes the next token only if that is true or false
SwitchTakes(st, t) == st.switch # "" /\ IsOneOf(t, Bools)

\* One token; a flag waiting for its value takes whatever comes
ReadToken(spec, st, t) ==
    LET idle == [st EXCEPT !.switch = "", !.awaiting = ""]
    IN CASE st.awaiting # "" -> Give(spec, idle, st.awaiting, t)
         [] st.awaiting = "" /\ SwitchTakes(st, t) -> Give(spec, idle, st.switch, t)
         [] OTHER ->
              CASE t.is = "flag" /\ t.name \in spec.valued -> [idle EXCEPT !.awaiting = t.name]
                [] t.is = "flag" /\ t.name \in spec.switches ->
                     [Give(spec, st, t.name, Word("true")) EXCEPT !.switch = t.name]
                [] t = Flag("absent") /\ spec.pairs -> Give(spec, idle, "exists", Word("false"))
                [] t.is = "pair" /\ spec.pairs ->
                     IF t.name \in spec.valued \union spec.switches
                     THEN Give(spec, idle, t.name, Word(t.val)) ELSE Bad(idle)
                [] t.is # "flag" /\ (t.is = "pair" => ~spec.pairs)
                     /\ ~Given(spec, st.fields, spec.positional) ->
                     Give(spec, idle, spec.positional, t)
                [] OTHER -> Bad(idle)

\* The fields the tokens give, if each is understood
ReadFlags(spec, tokens) ==
    LET st == FoldLeft(LAMBDA s, t : ReadToken(spec, s, t),
                       [fields |-> Nothing, awaiting |-> "", switch |-> "", ok |-> TRUE], tokens)
    IN [ok |-> st.ok /\ st.awaiting = "", fields |-> st.fields]

FlagOp(kind, spec, required, tokens) ==
    LET r == ReadFlags(spec, tokens)
    IN IF r.ok /\ \A f \in required : Given(spec, r.fields, f)
       THEN [kind |-> kind, fields |-> r.fields] ELSE Refused

\* parse_wait_until_op: a timeout is taken out wherever it stands, the rest is an
\* assert
TimeoutGiven(st, t) ==
    [st EXCEPT !.timeout = {t}, !.awaiting = FALSE, !.ok = @ /\ IsOneOf(t, Numerals)]
TakeTimeout(st, t) ==
    CASE st.awaiting -> TimeoutGiven(st, t)
      [] ~st.awaiting /\ t = Flag("timeout_ms") -> [st EXCEPT !.awaiting = TRUE]
      [] ~st.awaiting /\ t.is = "pair" /\ t.name = "timeout_ms" -> TimeoutGiven(st, Word(t.val))
      [] OTHER -> [st EXCEPT !.rest = Append(@, t)]

ReadWaitUntil(tokens) ==
    LET st == FoldLeft(TakeTimeout,
                       [rest |-> <<>>, timeout |-> {}, awaiting |-> FALSE, ok |-> TRUE], tokens)
        op == FlagOp("wait_until", AssertFlags, {"target"}, st.rest)
    IN IF ~st.ok \/ st.awaiting \/ st.timeout = {} \/ op = Refused THEN Refused
       ELSE [op EXCEPT !.fields = [timeout_ms |-> CHOOSE t \in st.timeout : TRUE] @@ @]

\* parse_screenshot_op: a scrolled one needs the id of what is scrolled
ReadScreenshot(tokens) ==
    LET op == FlagOp("screenshot", ScreenshotFlags, {}, tokens)
        Is(f, t) == f \in DOMAIN op.fields /\ op.fields[f] = t
    IN IF Is("mode", Word("scrolled")) /\ ("target" \in DOMAIN op.fields => Is("target", Word("")))
       THEN Refused ELSE op

\* take_delivery: only in front; semantic otherwise
Delivery(tokens) ==
    LET said == tokens # <<>> /\ tokens[1] = Flag("delivery")
    IN [ok |-> said => Len(tokens) > 1 /\ IsOneOf(tokens[2], Deliveries),
        by |-> IF said /\ Len(tokens) > 1 THEN tokens[2] ELSE Word("semantic"),
        rest |-> IF said THEN SubSeq(tokens, 3, Len(tokens)) ELSE tokens]

\* click, type, set_value and key: the first tokens are the fields, more are ignored
Plain == [click |-> <<"target">>, type |-> <<"target", "text">>,
          set_value |-> <<"target", "value">>, key |-> <<"target", "key">>]

ReadPlain(kind, tokens) ==
    LET delivered == kind # "set_value"
        d == IF delivered THEN Delivery(tokens) ELSE [ok |-> TRUE, rest |-> tokens]
        names == Plain[kind]
        at(f) == CHOOSE i \in DOMAIN names : names[i] = f
    IN IF ~d.ok \/ Len(d.rest) < Len(names) THEN Refused
       ELSE [kind |-> kind,
             fields |-> [f \in ToSet(names) |-> d.rest[at(f)]] @@
                        (IF delivered THEN [delivery |-> d.by] ELSE Nothing)]

\* invoke: a name, then pairs only, of which the last of a key counts
ReadInvoke(tokens) ==
    IF tokens = <<>> \/ \E i \in 2 .. Len(tokens) : tokens[i].is # "pair" THEN Refused
    ELSE [kind |-> "invoke",
          fields |-> [name |-> tokens[1],
                      args |-> FoldLeft(LAMBDA args, t : t.name :> Word(t.val) @@ args,
                                        Nothing, Tail(tokens))]]

\* What stands behind these is not looked at
Wordless == {"wait", "hello", "snapshot", "revision", "shutdown", "keybindings"}

\* --screenshot marks the step, wherever it stands in the line
Unmarked(tokens) == SelectSeq(tokens, LAMBDA t : t # Flag("screenshot"))

\* The step of a line: its operation, and whether a picture follows it
ReadStep(line) ==
    LET tokens == Unmarked(line)
        kind == IF tokens # <<>> /\ tokens[1].is = "word" THEN tokens[1].val ELSE ""
        args == Tail(tokens)
    IN [screenshot |-> \E i \in DOMAIN line : line[i] = Flag("screenshot"),
        op |-> CASE kind \in Wordless     -> [kind |-> kind, fields |-> Nothing]
                 [] kind = "assert"     -> FlagOp("assert", AssertFlags, {"target"}, args)
                 [] kind = "keybinding" -> FlagOp("keybinding", KeybindingFlags,
                                                  {"binding", "scope"}, args)
                 [] kind = "wait_until" -> ReadWaitUntil(args)
                 [] kind = "screenshot" -> ReadScreenshot(args)
                 [] kind = "invoke"     -> ReadInvoke(args)
                 [] kind \in DOMAIN Plain -> ReadPlain(kind, args)
                 [] OTHER -> Refused]
=============================================================================
