------------------------------- MODULE Evidence -------------------------------
(***************************************************************************)
(* evidence.rs and the scoring of policy.rs: how one clause of a goal is    *)
(* scored against the offered actions, and what is chosen from the scores.  *)
(*                                                                         *)
(* A clause is a sequence of items [lit, words]: a word, or a quoted        *)
(* literal of several.  Words are whole: folding, case and punctuation are  *)
(* left out, and where the code looks for one string in another this looks  *)
(* for a run of words.  A space is [offers, texts]: an offer is [id, kind,  *)
(* label, role, dangerous], a text [role, label, value] of what is shown.   *)
(***************************************************************************)
EXTENDS Integers, Sequences, FiniteSets, SequencesExt, FiniteSetsExt

CONSTANT Stems   \* the pairs of words that share a stem of four letters

NonExactCap == 849
UnnamedCap == 500
Full == 1000            \* Confidence::MAX
EnoughConfidence == 750    \* Profile::Standard
MinMargin == 150

ControlKinds == {"done", "blocked", "wait"}

Saturated(n) == IF n > Full THEN Full ELSE n
Lower(a, b) == IF a < b THEN a ELSE b

StemEq(a, b) == a = b \/ <<a, b>> \in Stems \/ <<b, a>> \in Stems

\* contains_run: the words of `part`, in a row, in `whole`
HasRun(part, whole) ==
    part # <<>> /\ \E i \in 0 .. Len(whole) - Len(part) :
                      SubSeq(whole, i + 1, i + Len(part)) = part

-----------------------------------------------------------------------------
(* Reading a clause                                                         *)

Tokens(goal) == FlattenSeq([i \in DOMAIN goal |-> goal[i].words])
AsGoal(words) == [i \in DOMAIN words |-> [lit |-> FALSE, words |-> <<words[i]>>]]
Unquoted(goal) == SelectSeq(goal, LAMBDA item : ~item.lit)
Literals(goal) == {goal[i].words : i \in {j \in DOMAIN goal : goal[j].lit}}

\* eq_fold of a clause and a label: a quote is a character no label has
Same(goal, label) == Literals(goal) = {} /\ Tokens(goal) = label

LeadingVerbs == {"click", "press", "tap", "type", "enter", "fill", "input", "select",
                 "choose", "pick", "open"}
Connectives == {"into", "in", "on", "to", "the", "a", "an", "from", "as"}

\* target_phrase: without the literals, a leading operation verb and the
\* connectives that follow either
Phrase(goal) ==
    LET stripped == goal # <<>> /\ ~goal[1].lit /\ goal[1].words[1] \in LeadingVerbs
        rest == IF stripped THEN Tail(goal) ELSE goal
        Joint(i) == ~rest[i].lit /\ rest[i].words[1] \in Connectives
        After(i) == \E j \in 0 .. i - 1 :
                      /\ j = 0 => stripped
                      /\ j > 0 => rest[j].lit
                      /\ \A k \in j + 1 .. i - 1 : Joint(k) \/ rest[k].lit
        kept == SelectSeq([i \in DOMAIN rest |-> i],
                          LAMBDA i : ~rest[i].lit /\ ~(Joint(i) /\ After(i)))
        out == [k \in DOMAIN kept |-> rest[kept[k]].words[1]]
        plain == Tokens(Unquoted(rest))
    IN IF Literals(rest) # {} /\ ~stripped /\ out # <<>> /\ out[1] = plain[1]
       THEN Tail(out) ELSE out

Keywords ==
    [done |-> {<<"done">>, <<"finished">>, <<"complete">>, <<"completed">>},
     blocked |-> {<<"blocked">>, <<"stuck">>, <<"impossible">>},
     wait |-> {<<"wait">>, <<"pause">>, <<"loading">>},
     click |-> {<<"click">>, <<"press">>, <<"tap">>},
     type_text |-> {<<"type">>, <<"enter">>, <<"fill">>, <<"input">>},
     set_value |-> {<<"set">>, <<"change">>, <<"update">>},
     select |-> {<<"select">>, <<"choose">>, <<"pick">>},
     key |-> {<<"hit", "enter">>, <<"send", "enter">>, <<"keypress">>, <<"submit">>}
             \union {<<"press", k>> : k \in {"enter", "return", "tab", "escape", "backspace", "space"}},
     keybinding |-> {<<"shortcut">>, <<"hotkey">>, <<"keybinding">>},
     invoke |-> {<<"invoke">>, <<"run">>, <<"call">>, <<"execute">>, <<"trigger">>}]

\* control_keyword_hit; a conditional clause gives no instruction
KeywordHit(words, kind) ==
    /\ words # <<>> /\ words[1] \notin {"if", "unless", "otherwise"}
    /\ \E key \in Keywords[kind] : HasRun(key, words)

NamedOperations(words) == {k \in DOMAIN Keywords \ ControlKinds : KeywordHit(words, k)}

-----------------------------------------------------------------------------
(* GoalEvidence                                                             *)

PayloadVerbs == {"add", "create", "new", "insert", "type", "enter", "fill", "input", "submit"}
ToggleWords == {"mark", "marked", "done", "check", "checked", "complete", "completed",
                "toggle", "tick", "ticked"}
TurnWords == {<<"turn", "on">>, <<"turned", "on">>, <<"turn", "off">>, <<"enable">>, <<"disable">>}
Locatives == {"in", "on", "inside", "under", "to", "from", "into"}

LiteralPlaced(space, lit) ==
    \E t \in space.texts : HasRun(lit, t.label) \/ HasRun(lit, t.value)

LocationShown(space, word) ==
    \E t \in space.texts : t.role = "page" /\ HasRun(<<word>>, t.label)

SoleId(offers) == IF Cardinality(offers) = 1 THEN (CHOOSE o \in offers : TRUE).id ELSE "none"

\* goal_evidence
EvidenceOf(goal, space) ==
    LET words == Tokens(goal)
        verb == IF words = <<>> THEN "" ELSE words[1]
        unplaced == \E lit \in Literals(goal) : ~LiteralPlaced(space, lit)
        places == {words[i + 1] : i \in {j \in 1 .. Len(words) - 1 : words[j] \in Locatives}}
    IN [hasLiteral |-> Literals(goal) # {}, unplaced |-> unplaced, verb |-> verb,
        payload |-> IF verb \in PayloadVerbs /\ unplaced
                    THEN SoleId({o \in space.offers : o.kind = "type_text"}) ELSE "none",
        checkbox |-> SoleId({o \in space.offers : o.kind = "click" /\ o.role = "checkbox"}),
        toggle |-> \/ ToSet(words) \intersect ToggleWords # {}
                   \/ \E run \in TurnWords : HasRun(run, words),
        places |-> places,
        toVisit |-> {w \in places : ~LocationShown(space, w)}]

\* "Mark ... as done" with a literal says what to make true, not that the run is done
DoneSuppressed(kind, ctx) == kind = "done" /\ ctx.hasLiteral

-----------------------------------------------------------------------------
(* A label against a clause                                                 *)

Hits(words, label) == Cardinality({i \in DOMAIN words : words[i] \in ToSet(label)})
CoversMost(words, label) == words # <<>> /\ 3 * Hits(words, label) >= 2 * Len(words)

\* instinct_lexicon::overlap: the share of a label's words that the clause has
LexicalOverlap(words, label) ==
    IF words = <<>> \/ label = {} THEN 0
    ELSE (1000 * Cardinality(label \intersect ToSet(words))) \div Cardinality(label)

RoleWord == [button |-> "button", textbox |-> "text", checkbox |-> "checkbox",
             tab |-> "tab", navigation |-> "nav"]

\* The words of a clause that are evidence on a label: not those of a literal,
\* and not the verb while a literal has yet to be placed
Residue(goal, ctx) ==
    LET words == Tokens(IF ctx.hasLiteral THEN Unquoted(goal) ELSE goal)
    IN IF ctx.unplaced /\ words # <<>> /\ StemEq(words[1], ctx.verb) THEN Tail(words) ELSE words

\* words_hit, overlap, containment and role of a label against those words
ScoreWords(words, offer) ==
    LET label == offer.label
        whole == offer.kind # "click" \/ CoversMost(words, label)
        overlap == IF whole THEN LexicalOverlap(words, ToSet(label))
                   ELSE (LexicalOverlap(words, ToSet(label)) * Hits(words, label)) \div Len(words)
        inside == IF HasRun(label, words) /\ whole THEN 250
                  ELSE IF HasRun(words, label) THEN 200 ELSE 0
        hits == IF Hits(words, label) = Len(words) THEN 300
                ELSE (Hits(words, label) * 150) \div Len(words)
        role == IF offer.role \in DOMAIN RoleWord /\ RoleWord[offer.role] \in ToSet(words)
                THEN 80 ELSE 0
    IN IF words = <<>> THEN 0 ELSE Saturated(overlap + inside + hits + role)

\* score_action_text_ctx, of an offer that has a target
ScoreText(goal, offer, ctx) ==
    IF Same(goal, offer.label) THEN Full ELSE ScoreWords(Residue(goal, ctx), offer)

\* Fault: the whole clause only
ScoreWhole(goal, offer, ctx) == ScoreText(goal, offer, ctx)

\* score_action_best_ctx
ScoreBest(goal, offer, ctx) ==
    Max({ScoreText(goal, offer, ctx)} \union
        {ScoreText(AsGoal(p), offer, ctx) : p \in {Phrase(goal)} \ {<<>>}})

CoverStop == {"the", "a", "an", "as", "in", "on", "to", "into", "from", "at", "by", "of",
              "for", "and", "then", "it", "them", "that", "this", "with"}
StateWords == {"done", "on", "off", "checked", "unchecked", "complete", "completed", "enabled",
               "disabled", "open", "closed", "marked", "set", "toggled", "shown", "hidden"}
Synonyms == [collapse |-> {"hide", "collapse", "minimize"}, expand |-> {"show", "expand", "maximize"},
             open |-> {"open", "show"}, close |-> {"close", "hide", "dismiss"},
             quit |-> {"quit", "exit", "close"}, delete |-> {"delete", "remove", "trash"},
             add |-> {"add", "create", "new"}, mark |-> {"mark", "check", "tick"},
             toggle |-> {"toggle", "flip", "switch"}]

Covers(words, others) == \A w \in words : \E o \in others : StemEq(o, w)

\* object_covered: the label has every word of what the clause acts on
ObjectCovered(goal, label, ctx) ==
    LET object == {w \in UNION {ToSet(lit) : lit \in Literals(goal)}
                        \union (ToSet(Tokens(goal)) \ CoverStop) :
                     ~StemEq(w, ctx.verb) /\ w \notin ctx.places /\ w \notin StateWords}
    IN object # {} /\ Covers(object, ToSet(label))

VerbMatches(verb, label) ==
    \E w \in ToSet(label) :
       \/ StemEq(w, verb)
       \/ \E v \in DOMAIN Synonyms : StemEq(v, verb) /\ w \in Synonyms[v]

\* exact_label_ctx and tokens_equal: the label is the clause, or its target
ExactLabel(goal, offer) ==
    \/ Same(goal, offer.label)
    \/ Phrase(goal) # <<>> /\ Phrase(goal) = offer.label

SameWords(goal, label) ==
    LET g == ToSet(Tokens(goal)) \ CoverStop
        l == ToSet(label) \ CoverStop
    IN g # {} /\ l # {} /\ Covers(g, l) /\ Covers(l, g)

Exact(goal, offer, ctx) ==
    \/ ExactLabel(goal, offer) \/ SameWords(goal, offer.label)
    \/ ctx.toggle /\ offer.role = "checkbox" /\ ObjectCovered(goal, offer.label, ctx)

\* with_bonus: a bonus lifts only an exact label past the cap
Lift(due, score, exact, bonus) ==
    IF ~due THEN score
    ELSE IF exact THEN Saturated(score + bonus) ELSE Lower(score + bonus, NonExactCap)

\* The words' score with the bonuses for the verb, the place and the checkbox
Lifted(base, offer, exact, covered, ctx) ==
    LET capped == IF base = Full /\ ~exact THEN NonExactCap ELSE base
        verb == ~ctx.unplaced /\ ctx.verb # "" /\ VerbMatches(ctx.verb, offer.label)
        place == \E w \in ctx.toVisit : offer.label = <<w>>
        box == ctx.toggle /\ offer.role = "checkbox"
        boxBonus == (IF ctx.checkbox = offer.id THEN 700 ELSE 300) + (IF covered THEN 150 ELSE 0)
    IN Lift(box, Lift(place, Lift(verb, capped, exact, IF covered THEN 650 ELSE 500),
                      exact, 600),
            exact, boxBonus)

\* score_action_ctx
Score(goal, offer, ctx) ==
    LET base == Max({ScoreBest(goal, offer, ctx)} \union
                    {Lower(ScoreText(AsGoal(lit), offer, ctx), NonExactCap) : lit \in Literals(goal)})
        payload == offer.kind = "type_text" /\ ctx.payload = offer.id
    IN Saturated(Lifted(base, offer, Exact(goal, offer, ctx),
                        ObjectCovered(goal, offer.label, ctx), ctx)
                 + (IF payload THEN 850 ELSE 0))

-----------------------------------------------------------------------------
(* The decision                                                             *)

\* Operation keywords count outside quotes only
OperationWords(goal, ctx) == Tokens(IF ctx.hasLiteral THEN Unquoted(goal) ELSE goal)

\* score_operation_ctx
ScoreOperation(goal, kind, space, ctx) ==
    LET words == OperationWords(goal, ctx)
        keyword == IF KeywordHit(words, kind) /\ ~DoneSuppressed(kind, ctx) THEN 920 ELSE 0
        named == NamedOperations(words)
        best == Max({keyword} \union
                    {Score(goal, o, ctx) : o \in {x \in space.offers : x.kind = kind}})
    IN IF Same(goal, <<kind>>) THEN Full
       ELSE IF kind \in ControlKinds THEN Saturated(keyword + 50)
       ELSE IF named # {} /\ kind \notin named THEN Lower(best, UnnamedCap) ELSE best

None == "none"

\* Instinct's arbitration: the best, if it is good enough and clear of the others
ArbitratedOver(scores, none) ==
    LET best == CHOOSE c \in DOMAIN scores : \A d \in DOMAIN scores : scores[d] <= scores[c]
    IN IF /\ DOMAIN scores # {} /\ scores[best] >= EnoughConfidence
          /\ \A d \in DOMAIN scores \ {best} : scores[best] - scores[d] >= MinMargin
       THEN best ELSE none

Arbitrated(scores) == ArbitratedOver(scores, None)

\* The operation, by the best of its targets
Operation(goal, space, ctx) ==
    Arbitrated([k \in {o.kind : o \in space.offers} \union ControlKinds |->
                  ScoreOperation(goal, k, space, ctx)])

\* The target, of those of one operation
Target(goal, targets, ctx) ==
    Arbitrated([i \in {o.id : o \in targets} |->
                  Score(goal, CHOOSE o \in targets : o.id = i, ctx)])

Verdict(kind, id, targets) ==
    [kind |-> kind, id |-> id,
     abstain |-> IF kind = None THEN "operation"
                 ELSE IF kind \in ControlKinds THEN None
                 ELSE IF id = None THEN "target"
                 ELSE IF \E o \in targets : o.id = id /\ o.dangerous
                 THEN "needs_confirmation" ELSE None]

DecisionOn(kind, goal, targets, ctx) ==
    Verdict(kind, IF targets = {} \/ kind \in ControlKinds THEN None ELSE Target(goal, targets, ctx),
            targets)

DecisionWith(kind, goal, space, ctx) ==
    DecisionOn(kind, goal, {o \in space.offers : o.kind = kind}, ctx)

\* InstinctPolicy::decide with no history: the operation, then its target
Decision(goal, space) ==
    LET ctx == EvidenceOf(goal, space)
    IN DecisionWith(Operation(goal, space, ctx), goal, space, ctx)
=============================================================================
