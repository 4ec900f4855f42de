----------------------------- MODULE MCAlgorithms -----------------------------
(***************************************************************************)
(* The pure algorithms on bounded inputs: an input grows by one piece at a  *)
(* time, and each property is about the inputs of one algorithm.            *)
(***************************************************************************)
EXTENDS Resolve, RecipeText, WantsStep, Ndjson

G == INSTANCE GoalText
J == INSTANCE Jev

CONSTANTS MaxGoal, MaxClause, MaxWords, MaxText, MaxIntent, MaxStream, MaxPlan, MaxParts

ASSUME AlgorithmsAssumption == MaxPlan \in Nat

P == INSTANCE RecipePlan WITH Params <- {}, QuitBindings <- {}, MaxSteps <- MaxPlan

VARIABLES of,    \* which algorithm: one of those in AlgorithmsInit
          on,    \* what it reads the input against
          input  \* the input so far

algorithmVars == <<of, on, input>>

MCStems == {<<"complete", "completed">>}

-----------------------------------------------------------------------------
(* Goals and what is on screen                                              *)

W(w) == [lit |-> FALSE, words |-> <<w>>]
L(words) == [lit |-> TRUE, words |-> words]

\* A literal no label has, with an operation's keyword in it, and the same
\* literal with words that name nothing
LoudLit == L(<<"run">>)
QuietLit == L(<<"x">>)

GoalItems == {W("type"), W("click"), W("delete"), W("mark"), W("done"), W("in"), W("buy"),
              W("milk"), W("search"), L(<<"buy", "milk">>), LoudLit}

Offer(id, kind, label, role) ==
    [id |-> id, kind |-> kind, label |-> label, role |-> role, dangerous |-> FALSE]

Field == {Offer("search", "type_text", <<"search">>, "textbox"),
          Offer("search=", "set_value", <<"search">>, "textbox"),
          Offer("submit", "key", <<"search", "submit">>, "textbox")}
Buttons == {Offer("del1", "click", <<"delete", "buy", "milk">>, "button"),
            Offer("del2", "click", <<"delete", "buy", "milk", "today", "after", "work">>, "button"),
            Offer("go", "click", <<"search">>, "button")}
Boxes == {Offer("box", "click", <<"toggle", "buy", "milk">>, "checkbox")}

Shown(offers) == [offers |-> offers,
                  texts |-> {[role |-> o.role, label |-> o.label, value |-> <<>>] : o \in offers}]
Spaces == {Shown(Field), Shown(Field \union Buttons), Shown(Field \union Boxes),
           Shown(Buttons \union Boxes)}

-----------------------------------------------------------------------------
(* Lines, texts and steps                                                   *)

Symbols == {"a", "1", "\"", "'", "\\", " "}
TextSymbols == {"a", "b", "1", "$", "{", "}"}

\* A part of a step gives one field a value.  A bare word gives the one that needs no
\* flag, a lone switch is one without a value behind it, an aside is read wherever it
\* stands, and a part that is not fit cannot be read at all.
Part(tokens, field, val) ==
    [tokens |-> tokens, field |-> field, val |-> Word(val),
     bare |-> FALSE, lone |-> FALSE, aside |-> FALSE, fit |-> TRUE]
BareWord(field, val) == [Part(<<Word(val)>>, field, val) EXCEPT !.bare = TRUE]
Switch(name) == [Part(<<Flag(name)>>, name, "true") EXCEPT !.lone = TRUE]
Aside(part) == [part EXCEPT !.aside = TRUE]
Misfit(tokens) == [Part(tokens, "", "") EXCEPT !.fit = FALSE]
Valued(name, val) == Part(<<Flag(name), Word(val)>>, name, val)
Paired(name, val) == Part(<<Pair(name, val)>>, name, val)
Mark == Aside(Part(<<Flag("screenshot")>>, "screenshot", "true"))

AssertParts ==
    {BareWord("target", "btn"), BareWord("target", "false"), Valued("target", "x"),
     Switch("checked"), Paired("checked", "false"), Valued("visible", "false"),
     Switch("exists"), Part(<<Flag("absent")>>, "exists", "false"),
     Paired("value", "b"), [Valued("value", "") EXCEPT !.tokens[2] = Flag("checked"),
                                                       !.val = Flag("checked")],
     Misfit(<<Pair("visible", "no")>>), Mark}

Parts ==
    [assert |-> AssertParts,
     wait_until |-> {BareWord("target", "btn"), BareWord("target", "false"), Switch("in_viewport"),
                     Paired("target", "x"), Aside(Valued("timeout_ms", "9")),
                     Aside(Paired("timeout_ms", "5")),
                     Misfit(<<Pair("timeout_ms", "soon")>>), Mark},
     keybinding |-> {BareWord("binding", "save"), BareWord("binding", "false"),
                     Valued("binding", "x"), Valued("scope", "focused"), Valued("scope", "global"),
                     Misfit(<<Flag("scope"), Word("window")>>), Switch("confirm"),
                     Valued("activate", "false"), Mark},
     screenshot |-> {BareWord("path", "out.png"), Valued("path", "x"), Valued("mode", "scrolled"),
                     Valued("mode", "viewport"), Valued("target", "list"),
                     Valued("max_height_px", "9"), Misfit(<<Flag("max_height_px"), Word("tall")>>),
                     Mark},
     revision |-> {BareWord("", "x"), Mark}]

-----------------------------------------------------------------------------
(* Goals as text, and answers of the service                                *)

GoalPieces == {<<"last">>, <<"name">>, <<"then">>, <<"and">>, <<"\"">>, <<"'">>,
               <<"\"", "ann", "\"">>, <<"\"", "lee", "then", "x", "\"">>}
Label == <<"last", "name">>
TypedSets == {{}, {<<"ann">>}}

O(kind, region) == [kind |-> kind, region |-> region]
Menus == {{O("click", "go"), O("click", "back"), O("done", "")},
          {O("click", "go"), O("key", "in:Enter")}}

\* An answer to a head may be anything: off the menu, with odds for more than the
\* menu or for less, odds that do not add up, a choice that is not the best
Answers(menu) ==
    UNION {LET keys == J!KeysFor(menu, head)
           IN {[head |-> head, is |-> [choice |-> c, odds |-> odds]] :
                 c \in keys \union {"other"},
                 odds \in UNION {[ks -> {0, 40, 60}] : ks \in {keys, keys \union {"other"}}}} :
           head \in J!Heads(menu)}

-----------------------------------------------------------------------------
(* Intents and schemas                                                      *)

Intended(is, words) == [is |-> is, words |-> words]
IntentItems == {Intended("word", <<"add">>), Intended("word", <<"click">>),
                Intended("word", <<"press">>), Intended("word", <<"enter">>),
                Intended("word", <<"todo">>), Intended("name", <<"todo", "add">>),
                Intended("name", <<"todo", "add", "all">>), Intended("word", <<"snapshot">>),
                Intended("quoted", <<"shutdown">>), Intended("quoted", <<"x">>),
                Intended("id", <<"btn">>), Intended("number", <<"1">>)}

TodoRegistry == FromFiles(Protocol, <<TodoRows>>).schemas

-----------------------------------------------------------------------------

AlgorithmsInit ==
    /\ input = <<>>
    /\ \/ of = "goal" /\ on \in Spaces
       \/ of = "clauses" /\ on = ""
       \/ of = "jev" /\ on \in Menus
       \/ of = "quoting" /\ on = ""
       \/ of = "params" /\ on = ""
       \/ of = "step" /\ on \in DOMAIN Parts
       \/ of = "intent" /\ on = ""
       \/ of = "stream" /\ on \in 1 .. 3
       \/ of = "plan" /\ on = ""

Grow(kind, max, pieces) ==
    /\ of = kind /\ Len(input) < max
    /\ \E p \in pieces : input' = Append(input, p)
    /\ UNCHANGED <<of, on>>

GrowGoal == Grow("goal", MaxGoal, GoalItems)
GrowClauses == Grow("clauses", MaxClause, GoalPieces)
GrowJev == of = "jev" /\ Grow("jev", 2, Answers(on))
GrowLine == Grow("quoting", MaxWords, BoundedSeq(Symbols, 2))
GrowText == Grow("params", MaxText, TextSymbols)
GrowStep == of = "step" /\ Grow("step", MaxParts, Parts[on])
GrowIntent == Grow("intent", MaxIntent, IntentItems)
GrowStream == Grow("stream", MaxStream, Byte)

\* Steps in any order of their ids, with up to two needs, the same one twice too
GrowPlan ==
    Grow("plan", MaxPlan,
         [id : (1 .. MaxPlan) \ {input[i].id : i \in DOMAIN input},
          needs : BoundedSeq(1 .. MaxPlan, 2),
          op : {[op |-> "snapshot", arg |-> "", confirm |-> FALSE]}, shot : {FALSE}])

AlgorithmsNext ==
    \/ GrowGoal \/ GrowClauses \/ GrowJev \/ GrowLine \/ GrowText \/ GrowStep
    \/ GrowIntent \/ GrowStream \/ GrowPlan
AlgorithmsSpec == AlgorithmsInit /\ [][AlgorithmsNext]_algorithmVars

-----------------------------------------------------------------------------
(* Goals                                                                    *)

Best == Decision(input, on)

\* The policy never passes over a control whose label is the goal, or all of it but
\* the verb in front and the words that join: of the operation decided on it is that
\* one or none.  Bonuses for verbs, roles and places lift no other label to within
\* the margin (score_action_ctx, with_bonus and NON_EXACT_CAP).
ExactNeverLoses ==
    of = "goal" =>
      LET best == Best
      IN best.id # None =>
           \A o \in on.offers : o.kind = best.kind /\ ExactLabel(input, o) => o.id = best.id

\* What stands in quotes is what to enter, never what to do: with other words in
\* quotes that are not on screen either, the decision is the same
\* (score_operation_ctx and unquoted_text; "run" is a keyword of invoke).
QuotedIsData ==
    of = "goal" /\ LoudLit \in ToSet(input) =>
      Decision([i \in DOMAIN input |-> IF input[i] = LoudLit THEN QuietLit ELSE input[i]], on)
        = Best

\* No literal is cut in two, lost or made up when a goal is split: the clauses
\* have the literals of the goal, in order.  Not with apostrophes, which only
\* the split takes for quotes (split_sequential_clauses and quoted_literals).
LiteralsSurviveSplit ==
    of = "clauses" =>
      LET goal == FlattenSeq(input)
          Literal(text) == [k \in DOMAIN G!LiteralsOf(text) |-> G!LiteralsOf(text)[k].val]
          clauses == G!ClausesOf(goal)
      IN "'" \notin ToSet(goal) =>
           FlattenSeq([k \in DOMAIN clauses |-> Literal(clauses[k])]) = Literal(goal)

\* What stands in quotes in a goal is data, for the choice of a clause's control
\* and for the split into clauses (GoalProgram::parse, then the deterministic policy).
QuotedTextIsData == QuotedIsData /\ LiteralsSurviveSplit

\* "more than one candidate quote is `Ambiguous` unless the field label
\* disambiguates" (DeterministicTextResolver::resolve).
NeverGuesses ==
    of = "clauses" =>
      \A typed \in TypedSets :
         LET goal == FlattenSeq(input)
             untyped == ToSet(G!Untyped(goal, typed))
         IN /\ Cardinality({lit.val : lit \in untyped}) > 1
            /\ G!Resolved(goal, Label, typed).ok
            => Cardinality({lit \in untyped : G!Mentions(goal, lit, Label)}) = 1

\* Whatever the service answers, what is taken from it was offered, is what it
\* thought most likely of all operations and, within that one, of all targets
\* (validate_choice and choose).
JevOnMenu ==
    of = "jev" =>
      LET heads == {input[i].head : i \in DOMAIN input}
          answers == [h \in heads |-> input[Max({i \in DOMAIN input : input[i].head = h})].is]
          out == J!Chosen(on, answers)
          Likeliest(head, key) == \A k \in J!KeysFor(on, head) :
                                     answers[head].odds[k] <= answers[head].odds[key]
      IN out # J!Abstained =>
           /\ out \in on
           /\ Likeliest("operation", out.kind)
           /\ out.kind \in J!ElementKinds => Likeliest(out.kind, out.region)

-----------------------------------------------------------------------------
(* Lines on the wire                                                        *)

\* A stream cut at its line feeds, byte by byte; what follows the last is a line too
LinesOf(stream) ==
    LET cut[i \in 0 .. Len(stream)] ==
          IF i = 0 THEN << <<>> >>
          ELSE IF stream[i] = "lf" THEN Append(cut[i - 1], <<>>)
          ELSE [cut[i - 1] EXCEPT ![Len(cut[i - 1])] = Append(@, stream[i])]
    IN cut[Len(stream)]

\* A line that is refused: not UTF-8, or with its line feed longer than the limit
Unfit(lines, k, max) ==
    \/ "bad" \in ToSet(lines[k])
    \/ Len(lines[k]) + (IF k < Len(lines) THEN 1 ELSE 0) > max

\* The lines of a stream up to the first that is refused, but the blank ones; the
\* carriage return before a line feed is not of the line
FitLines(stream, max) ==
    LET lines == LinesOf(stream)
        Fit(k) == /\ \A j \in 1 .. k : ~Unfit(lines, j, max)
                  /\ ~(ToSet(lines[k]) \subseteq Ws)
        Line(k) == IF k < Len(lines) THEN ChopCr(lines[k]) ELSE lines[k]
    IN FlattenSeq([k \in 1 .. Len(lines) |-> IF Fit(k) THEN <<Line(k)>> ELSE <<>>])

\* Each line heard is one whole line of the stream, in the order sent and without
\* gaps, up to the first that is as long as the limit or not UTF-8; nothing behind
\* that one is heard, and no part of it (read_limited_line_into with the loops of
\* the server).
LinesHeardWhole == of = "stream" => Heard(input, on).lines = FitLines(input, on)

\* "Read one NDJSON line into `buf`, capped at `max_bytes` (excluding the newline)":
\* lines of at most that many bytes are heard as they were written.
CapExcludesNewline ==
    of = "stream" /\ Len(input) \in 1 .. on /\ ToSet(input) = {"x"} =>
      Heard(Written(<<input>>), on).lines = <<input>>

-----------------------------------------------------------------------------
(* Lines of a recipe                                                        *)

Escape(q, word) == FlattenSeq([i \in DOMAIN word |->
                                 IF word[i] \in {q, Backslash} THEN <<Backslash, word[i]>>
                                 ELSE <<word[i]>>])
InQuotes(q, word) == <<q>> \o Escape(q, word) \o <<q>>

\* Any words, whatever is in them and the empty ones too, can be written on a
\* line of a recipe in either kind of quotes and are read back as they were
\* (tokenize).
QuotingIsExact ==
    of = "quoting" =>
      \A q \in Quotes :
         Tokenized(FlattenSeq([i \in DOMAIN input |-> InQuotes(q, input[i]) \o <<Space>>])) = input

\* With every declared parameter set no step is refused for a parameter nobody
\* asked for, and no parameter is asked for in vain: what parse_wants collects
\* is what apply_params looks up, in every text of every operation
\* (collect_placeholders_in_op and substitute_op_in_place, "keep in sync").
ParamsComplete ==
    of = "params" =>
      \A kind \in DOMAIN Filled : \A f \in Filled[kind] :
         LET op == [kind |-> kind, fields |-> [g \in Filled[kind] |-> IF g = f THEN input ELSE <<"a">>]]
             params == ParamsOf(<<op>>)
         IN \A set \in SUBSET params :
               LET values == [n \in set |-> <<"$", "a">>]
               IN Substitutable(op, values) <=> ParamsSet(params, values)

\* What each operation cannot be without
Needed == [assert |-> {"target"}, wait_until |-> {"target", "timeout_ms"},
           keybinding |-> {"binding", "scope"}, screenshot |-> {}]

\* The operation some parts stand for, by what they give and not by how they are read.
\* Asides apart, a bare true or false right behind a lone switch is the switch's.
OpMeant(kind, parts) ==
    LET asides == SelectSeq(parts, LAMBDA p : p.aside)
        own == SelectSeq(parts, LAMBDA p : ~p.aside)
        Taken(k) == k > 1 /\ own[k].bare /\ own[k].val.val \in Bools /\ own[k - 1].lone
        Says(k) == IF k < Len(own) /\ Taken(k + 1) THEN own[k + 1].val ELSE own[k].val
        Giving(f) == {k \in DOMAIN own : own[k].field = f /\ ~Taken(k)}
        LastAside(f) == asides[Max({k \in DOMAIN asides : asides[k].field = f})].val
        fields == [f \in {own[k].field : k \in {j \in DOMAIN own : ~Taken(j)}} |->
                     Says(Max(Giving(f)))] @@
                  [f \in {asides[k].field : k \in DOMAIN asides} \ {"screenshot"} |-> LastAside(f)]
        readable ==
          /\ \A k \in DOMAIN parts : parts[k].fit
          /\ \A k \in DOMAIN own :
                own[k].bare /\ ~Taken(k) => \A j \in Giving(own[k].field) : j >= k
          /\ Needed[kind] \subseteq DOMAIN fields
          /\ kind = "screenshot" /\ "mode" \in DOMAIN fields =>
               (fields["mode"] = Word("scrolled") => "target" \in DOMAIN fields)
    IN IF kind \in Wordless THEN [kind |-> kind, fields |-> Nothing]
       ELSE IF readable THEN [kind |-> kind, fields |-> fields] ELSE Refused

\* A step says what its parts give, in whatever order and however often: of several
\* parts that give a field the last one counts, but a bare word behind another part
\* that gives its field is refused, as is a part that does not parse or a field that is
\* missing; the mark --screenshot and a wait's timeout are found wherever they stand,
\* also between a switch and its value (parse_wants_step, parse_assert_spec,
\* parse_keybinding_wants, parse_screenshot_op, parse_wait_until_op).
StepMeansItsParts ==
    of = "step" =>
      ReadStep(<<Word(on)>> \o FlattenSeq([k \in DOMAIN input |-> input[k].tokens]))
        = [screenshot |-> Mark \in ToSet(input), op |-> OpMeant(on, input)]

\* What a recipe's needs ask for is what its plan does: of every recipe that is not
\* refused, each step has one place in the waves, behind all it needs
\* (validate_recipe, schedule and compile_plan of plan.rs).
PlanKeepsNeeds ==
    of = "plan" => P!PromiseKept([params |-> {}, steps |-> input], <<>>, <<>>)

\* What is written in a recipe is what its runner gets: its words and its parameters
\* (parse_wants and apply_params), and an order that its needs ask for.
RecipeKept == QuotingIsExact /\ ParamsComplete /\ PlanKeepsNeeds

-----------------------------------------------------------------------------
(* Intents                                                                  *)

\* An intent that names one operation of the registry as a whole word means that
\* one, however much the other words say for others, unless its first verb
\* vetoes it (instinct resolve: 1000 against at most NON_EXACT_CAP is a margin).
NamedSchemaChosen ==
    of = "intent" =>
      \A s \in TodoRegistry :
         /\ s.kind # "id" /\ Named(input, s) /\ ~Vetoed(OperationText(input), s)
         /\ \A r \in TodoRegistry \ {s} : r.kind # "id" => ~Named(input, r)
         => ByEvidence(input, TodoRegistry) = s

\* What is named exactly is what is chosen, of the controls on screen and of the
\* operations of the registry, whatever else speaks for another (both score with
\* NON_EXACT_CAP as the ceiling of what is not named).
NamedIsChosen == ExactNeverLoses /\ NamedSchemaChosen

\* "the quoted text and the dashed id are the payload and the target, not
\* operation evidence" (operation_text).
QuotedIsPayload ==
    of = "intent" =>
      LET other == [i \in DOMAIN input |->
                      IF input[i] = Intended("quoted", <<"shutdown">>)
                      THEN Intended("quoted", <<"x">>) ELSE input[i]]
      IN ByEvidence(input, TodoRegistry) = ByEvidence(other, TodoRegistry)
===============================================================================
