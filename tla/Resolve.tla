-------------------------------- MODULE Resolve --------------------------------
(***************************************************************************)
(* resolve.rs and registry.rs: which schema of a registry an intent means,  *)
(* and the operation made of it.  Two resolvers: by keywords (the default   *)
(* build) and by weighted evidence (feature `instinct`).                    *)
(*                                                                         *)
(* An intent is a sequence of items [is, words]: a "word", a "name" (dotted *)
(* or underscored, one word each part), an "id" (dashed), a "number", or    *)
(* "quoted".  A schema is [name, kind, keywords, about, required]; its name *)
(* is a sequence of words.                                                  *)
(***************************************************************************)
EXTENDS Evidence, Functions

NoSchema == [name |-> <<>>]

-----------------------------------------------------------------------------
(* The registry                                                             *)

NamesIn(registry) == {s.name : s \in registry}

\* Registry::insert within one file: a later row replaces an earlier one
InsertAll(rows) ==
    {rows[i] : i \in {j \in DOMAIN rows : \A k \in j + 1 .. Len(rows) : rows[k].name # rows[j].name}}

\* Registry::merge: a name that is already there is an error
Merged(registry, rows) ==
    [ok |-> NamesIn(registry) \intersect NamesIn(InsertAll(rows)) = {},
     schemas |-> registry \union InsertAll(rows)]

\* registry_from_schema_paths: the protocol's schemas, then the files in order
FromFiles(protocol, files) ==
    FoldLeft(LAMBDA r, rows : IF r.ok THEN Merged(r.schemas, rows) ELSE r,
             [ok |-> TRUE, schemas |-> protocol], files)

\* protocol_registry and todo_app_registry, the words of a description in `about`
Row(name, kind, keywords, about, required) ==
    [name |-> name, kind |-> kind, keywords |-> keywords, about |-> about, required |-> required]

Protocol ==
    LET Op(name, keywords, about, required) == Row(name, "protocol", keywords, about, required)
    IN {Op(<<"hello">>, {"hello", "handshake"}, {"handshake", "version", "app"}, {}),
        Op(<<"wait">>, {"wait", "ready"}, {"block", "until", "host", "ready"}, {}),
        Op(<<"wait", "until">>, {"wait_until"}, {"poll", "assert", "until", "match"}, {"target"}),
        Op(<<"snapshot">>, {"snapshot", "tree", "perceive"}, {"read", "the", "ui", "tree"}, {}),
        Op(<<"revision">>, {"revision", "rev"}, {"read", "the", "snapshot", "revision"}, {}),
        Op(<<"screenshot">>, {"screenshot", "png", "frame"}, {"write", "a", "png", "the", "app"}, {}),
        Op(<<"click">>, {"click", "press", "tap"}, {"activate", "a", "widget", "by", "id"}, {"target"}),
        Op(<<"type">>, {"type", "append"}, {"append", "text", "to", "widget"}, {"target", "text"}),
        Op(<<"set", "value">>, {"set", "value", "fill"}, {"replace", "the", "value", "widget"},
           {"target", "value"}),
        Op(<<"key">>, {"key", "enter", "backspace"}, {"send", "a", "key", "to", "widget"},
           {"target", "key"}),
        Op(<<"keybinding">>, {"keybinding", "shortcut", "chord"}, {"fire", "action", "by", "id"},
           {"binding", "scope"}),
        Op(<<"keybindings">>, {"keybindings", "shortcuts"}, {"list", "action", "id"}, {}),
        Op(<<"assert">>, {"assert", "check", "verify"}, {"check", "snapshot", "visible", "id"},
           {"target"}),
        Op(<<"invoke">>, {"invoke", "command"}, {"call", "host", "command", "app"}, {"name"}),
        Op(<<"shutdown">>, {"shutdown", "exit", "quit"}, {"ask", "the", "host", "to", "exit"}, {})}

TodoRows ==
    <<Row(<<"todo", "add">>, "invoke", {"add", "create", "new", "todo", "task"},
          {"create", "a", "todo", "from", "title"}, {"title"}),
      Row(<<"todo", "toggle">>, "invoke", {"toggle", "check", "complete", "todo"},
          {"toggle", "todo", "done"}, {"id"}),
      Row(<<"todo", "delete">>, "invoke", {"delete", "remove", "todo"}, {"delete", "todo"}, {"id"}),
      Row(<<"todo", "list">>, "invoke", {"list", "todos", "items"}, {"list", "todo", "items"}, {}),
      Row(<<"todo", "toggle", "sidebar">>, "invoke", {"sidebar", "nav"},
          {"toggle", "the", "nav", "sidebar", "visible"}, {}),
      Row(<<"todo-input">>, "id", {"input", "draft", "textbox"}, {"draft", "text", "todo"}, {}),
      Row(<<"todo-add">>, "id", {"add", "button"}, {"add", "button", "draft"}, {}),
      Row(<<"todo-list">>, "id", {"list"}, {"list", "todo", "items"}, {}),
      Row(<<"todo-window">>, "id", {"window"}, {"root", "window", "todo", "app"}, {})>>

-----------------------------------------------------------------------------
(* By keywords                                                              *)

\* score: the name anywhere in the text, inside a longer one too, and every word,
\* quoted or not
KeywordScore(intent, schema) ==
    LET words == UNION {ToSet(intent[i].words) : i \in DOMAIN intent}
    IN (IF \E i \in DOMAIN intent : HasRun(schema.name, intent[i].words) THEN 10 ELSE 0)
       + 2 * Cardinality(schema.keywords \intersect words)
       + Cardinality(schema.about \intersect words)

\* resolve_intent_keywords: two points or more, and alone at the top
ByKeywords(intent, registry) ==
    LET top == {s \in registry :
                  \A r \in registry : KeywordScore(intent, r) <= KeywordScore(intent, s)}
    IN IF Cardinality(top) = 1 /\ \A s \in top : KeywordScore(intent, s) >= 2
       THEN CHOOSE s \in top : TRUE ELSE NoSchema

-----------------------------------------------------------------------------
(* By evidence                                                              *)

ClickVerbs == {"click", "press", "tap", "push", "activate"}
KeyNames == {"key", "enter", "backspace", "return", "escape", "tab", "space"}
RawMin == 500

\* operation_text: without quoted payloads, ids and numbers
OperationText(intent) ==
    LET kept == SelectSeq(intent, LAMBDA it : it.is \in {"word", "name"})
    IN FlattenSeq([i \in DOMAIN kept |-> kept[i].words])

\* token_df and zone_overlap: a word many schemas share weighs less
Coverage(words, part, zones) ==
    LET weight == [w \in part |-> 1000 \div Max({1, Cardinality({z \in DOMAIN zones : w \in zones[z]})})]
    IN (1000 * SumFunctionOnSet(weight, part \intersect words)) \div Max({1, SumFunction(weight)})

\* The raw evidence of every schema, by name; what a name and its keywords give
\* nothing to is not scored further
RawScores(text, schemas) ==
    LET words == ToSet(text)
        names == [s \in schemas |-> ToSet(s.name)]
        keywords == [s \in schemas |-> s.keywords]
        Raw(s) ==
          LET own == names[s] \union s.keywords
              hits == Cardinality({i \in DOMAIN text : text[i] \in own \union s.about})
              base == Coverage(words, names[s], names) + Coverage(words, s.keywords, keywords)
                      + (IF text # <<>> /\ text[1] \in own THEN 300 ELSE 0)
          IN IF own \intersect words = {} THEN base
             ELSE base + (IF hits = Len(text) THEN 300 ELSE (150 * hits) \div Len(text))
                  + LexicalOverlap(text, own)
    IN [s \in schemas |-> Raw(s)]

\* Without its name no schema comes within the margin of one that is named
Scaled(raw, top) == IF top >= RawMin THEN (NonExactCap * raw) \div top ELSE raw

\* name_in_intent_lowered: the name as a whole identifier, in quotes too
Named(intent, schema) ==
    \E i \in DOMAIN intent :
       IF intent[i].is = "quoted" THEN HasRun(schema.name, intent[i].words)
       ELSE intent[i].words = schema.name

\* A click verb leaves only `click`, unless a key is named: then all but `click`
Vetoed(text, schema) ==
    /\ text # <<>> /\ text[1] \in ClickVerbs
    /\ (schema.name = <<"click">>) <=> (ToSet(text) \intersect KeyNames # {})

SchemaScores(intent, schemas) ==
    LET text == OperationText(intent)
        raw == RawScores(text, schemas)
        top == Max({0} \union {raw[s] : s \in schemas})
        Of(s) == LET score == IF Named(intent, s) THEN Full ELSE Scaled(raw[s], top)
                 IN IF Vetoed(text, s) THEN Lower(score, 500) ELSE score
    IN [s \in schemas |-> Of(s)]

\* instinct_resolve::resolve: ids are targets, not operations
ByEvidence(intent, registry) ==
    ArbitratedOver(SchemaScores(intent, {s \in registry : s.kind # "id"}), NoSchema)

-----------------------------------------------------------------------------
(* The operation                                                            *)

Has(intent, is) == \E i \in DOMAIN intent : intent[i].is = is

\* extract_title: what is quoted, or all that follows titled, called or named
HasTitle(intent) ==
    \/ Has(intent, "quoted")
    \/ \E i \in 1 .. Len(intent) - 1 :
          intent[i].is = "word" /\ intent[i].words[1] \in {"titled", "called", "named"}

\* materialize: the arguments filled in; an invoke's are title and id, whatever
\* else its schema requires
Materialized(intent, schema) ==
    CASE schema.kind = "invoke" ->
           [ok |-> /\ "title" \in schema.required => HasTitle(intent)
                   /\ "id" \in schema.required => Has(intent, "number"),
            args |-> schema.required \intersect {"title", "id"}]
      [] schema.kind = "id" -> [ok |-> TRUE, args |-> {"target"}]
      [] schema.kind = "protocol" ->
           [ok |-> /\ schema.name \in {<<"hello">>, <<"wait">>, <<"snapshot">>, <<"screenshot">>,
                                       <<"shutdown">>, <<"click">>, <<"set", "value">>, <<"assert">>}
                   /\ "target" \in schema.required => Has(intent, "id")
                   /\ "value" \in schema.required => HasTitle(intent),
            args |-> schema.required]
=============================================================================
