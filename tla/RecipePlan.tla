----------------------------- MODULE RecipePlan -----------------------------
(***************************************************************************)
(* gpui-agent-recipe's planner (plan.rs, with validate_recipe and           *)
(* apply_params of recipe.rs): from a recipe, the --set values and the      *)
(* schema registry to an ordered plan of steps in waves.                    *)
(*                                                                         *)
(* A step is [id, needs, op, shot]; an op is [op, arg, confirm], where arg  *)
(* stands for the one string of the op that matters here (the binding, the  *)
(* invoke's name) and is a literal or a placeholder of Params.  Ids are     *)
(* numbers, so that sorting a wave by id is sorting numbers.                *)
(***************************************************************************)
EXTENDS Naturals, Sequences, FiniteSets, SequencesExt

CONSTANTS Params,        \* placeholders: "$name" as it stands in an op
          QuitBindings,  \* what is_quit_binding answers TRUE for
          MaxSteps       \* MAX_RECIPE_STEPS, 256 in the code

ASSUME ParamsAssumption == Params \cap QuitBindings = {} /\ MaxSteps \in Nat

Effects == {"read", "write", "exit"}

\* Op as far as planning reads it, RecipeStep, and a recipe of a registry or a file
PlanOp == [op : STRING, arg : STRING, confirm : BOOLEAN]
RecipeStep == [id : Nat, needs : Seq(Nat), op : PlanOp, shot : BOOLEAN]
RecipeDoc == [params : SUBSET Params, steps : Seq(RecipeStep)]

-----------------------------------------------------------------------------
(* What a step does, by the registry                                        *)

\* lookup: an op without a schema is taken for a write that may not be repeated
Lookup(name, registry) ==
    IF name \in DOMAIN registry
    THEN [effects |-> registry[name].effects, idempotent |-> registry[name].idempotent]
    ELSE [effects |-> {"write"}, idempotent |-> FALSE]

IsInvokeSchema(name, registry) ==
    name \in DOMAIN registry /\ registry[name].kind = "invoke"

\* Fault: every op is looked up by its name alone
AnnotateByOpName(op, registry) == Lookup(op.op, registry)

\* annotate: the effects the plan writes down for an op
Annotate(op, registry) ==
    IF op.op = "keybinding" /\ op.arg \in QuitBindings
    THEN [Lookup("keybinding", registry) EXCEPT !.effects = {"exit"}]
    ELSE IF op.op = "invoke" /\ IsInvokeSchema(op.arg, registry)
         THEN Lookup(op.arg, registry)
         ELSE Lookup(op.op, registry)

-----------------------------------------------------------------------------
(* Parameters                                                               *)

Placeholders(op) == {op.arg} \cap Params

Substituted(op, set) ==
    IF op.arg \in Params THEN [op EXCEPT !.arg = set[op.arg]] ELSE op

\* apply_params can answer "missing --set"
MissingParam(recipe, set) == ~(recipe.params \subseteq DOMAIN set)

ApplyParams(recipe, set) ==
    LET filled(s) == [s EXCEPT !.op = Substituted(s.op, set)]
    IN [recipe EXCEPT !.steps = [i \in DOMAIN recipe.steps |-> filled(recipe.steps[i])]]

-----------------------------------------------------------------------------
(* validate_recipe: run on the recipe as written, before any substitution   *)

IdsDistinct(steps) == \A i, j \in DOMAIN steps : steps[i].id = steps[j].id => i = j

NeedsKnown(steps) ==
    \A i \in DOMAIN steps : ToSet(steps[i].needs) \subseteq
        {steps[j].id : j \in DOMAIN steps} \ {steps[i].id}

OpAllowed(op, recipe, registry) ==
    /\ Placeholders(op) \subseteq recipe.params
    /\ op.op = "keybinding" /\ op.arg \in QuitBindings => op.confirm
    /\ op.op = "invoke" => IsInvokeSchema(op.arg, registry)

ValidRecipe(recipe, registry) ==
    /\ Len(recipe.steps) \in 1 .. MaxSteps
    /\ IdsDistinct(recipe.steps)
    /\ NeedsKnown(recipe.steps)
    /\ \A i \in DOMAIN recipe.steps : OpAllowed(recipe.steps[i].op, recipe, registry)

-----------------------------------------------------------------------------
(* schedule: waves by counting down the needs each step still waits for     *)

Implicit(steps) == \A i \in DOMAIN steps : steps[i].needs = <<>>

\* The needs of step i that a step of the wave meets: a need written twice is
\* counted twice, in the adjacency list and in the indegree alike.
Met(steps, wave, i) ==
    {k \in DOMAIN steps[i].needs : \E j \in wave : steps[i].needs[k] = steps[j].id}

\* Fault: the first need done sets a step free
ReleasedByFirst(steps, wave, i) ==
    IF Met(steps, wave, i) # {} THEN Len(steps[i].needs) ELSE 0

Released(steps, wave, i) == Cardinality(Met(steps, wave, i))

ById(steps, wave) ==
    CHOOSE sorted \in [1 .. Cardinality(wave) -> wave] :
        \A a, b \in DOMAIN sorted : a < b => steps[sorted[a]].id < steps[sorted[b]].id

\* Before the loop: every step's count of needs, and the steps that have none
FirstRound(steps) ==
    [order   |-> <<>>,
     waves   |-> <<>>,
     waiting |-> [i \in DOMAIN steps |-> Len(steps[i].needs)],
     ready   |-> {i \in DOMAIN steps : steps[i].needs = <<>>}]

\* One turn of the loop: the ready steps are a wave, and what they release is next
NextRound(steps, s) ==
    LET wave == ById(steps, s.ready)
        left == [i \in DOMAIN steps |->
                   IF s.waiting[i] = 0 THEN 0
                   ELSE s.waiting[i] - Released(steps, s.ready, i)]
    IN IF s.ready = {} THEN s
       ELSE [order   |-> s.order \o wave,
             waves   |-> Append(s.waves, wave),
             waiting |-> left,
             ready   |-> {i \in DOMAIN steps : s.waiting[i] > 0 /\ left[i] = 0}]

LastRound(steps) ==
    LET round[n \in 0 .. Len(steps)] ==
          IF n = 0 THEN FirstRound(steps) ELSE NextRound(steps, round[n - 1])
    IN round[Len(steps)]

\* The order of the steps and their waves, as indices into the recipe; a recipe
\* without needs runs in file order
Schedule(steps) ==
    IF Implicit(steps)
    THEN [order |-> [i \in DOMAIN steps |-> i], waves |-> [i \in DOMAIN steps |-> <<i>>]]
    ELSE LastRound(steps)

\* remaining != 0
HasCycle(steps) == Len(Schedule(steps).order) < Len(steps)

-----------------------------------------------------------------------------
(* compile_plan                                                             *)

\* A recipe without needs runs in file order: each step needs the one before
PlannedNeeds(steps, i) ==
    IF ~Implicit(steps) THEN ToSet(steps[i].needs)
    ELSE IF i = 1 THEN {} ELSE {steps[i - 1].id}

PlannedStep(steps, i, registry) ==
    LET does == Annotate(steps[i].op, registry)
    IN [id |-> steps[i].id, op |-> steps[i].op, shot |-> steps[i].shot,
        needs |-> PlannedNeeds(steps, i),
        effects |-> does.effects, idempotent |-> does.idempotent]

\* The recipe with its parameters filled in
Filled(recipe, set) == IF recipe.params = {} THEN recipe ELSE ApplyParams(recipe, set)

\* compile_plan answers Ok
Compiles(recipe, set, registry) ==
    /\ ValidRecipe(recipe, registry)
    /\ recipe.params # {} => ~MissingParam(recipe, set)
    /\ ~HasCycle(Filled(recipe, set).steps)

Refused(recipe, set, registry) == ~Compiles(recipe, set, registry)

Compile(recipe, set, registry) ==
    LET steps   == Filled(recipe, set).steps
        made    == Schedule(steps)
        planned == [k \in DOMAIN made.order |-> PlannedStep(steps, made.order[k], registry)]
    IN [steps       |-> planned,
        waves       |-> [w \in DOMAIN made.waves |->
                           [k \in DOMAIN made.waves[w] |-> steps[made.waves[w][k]].id]],
        effects     |-> UNION {planned[k].effects : k \in DOMAIN planned},
        requiresYes |-> \E k \in DOMAIN planned : "exit" \in planned[k].effects]

\* order_check: does writing the steps in the other order change the waves?
OrderDependent(recipe, set, registry) ==
    LET sets(r) == LET ws == Compile(r, set, registry).waves
                   IN [w \in DOMAIN ws |-> ToSet(ws[w])]
    IN sets(recipe) # sets([recipe EXCEPT !.steps = Reverse(@)])

-----------------------------------------------------------------------------
(* The planner's promise                                                    *)

IdsOf(p) == {s.id : s \in ToSet(p.steps)}

\* The waves of a plan, as places <<wave, position>>
PlacesIn(p) == UNION {{w} \X DOMAIN p.waves[w] : w \in DOMAIN p.waves}
IdIn(p, a) == p.waves[a[1]][a[2]]
Earlier(a, b) == a[1] < b[1] \/ (a[1] = b[1] /\ a[2] < b[2])

\* What run_plan takes for granted of a plan: every step has a place in the waves,
\* the waves are in the order of the steps, and what a step needs is in a wave
\* before its own (plan.rs schedule, compile_plan).
Sound(p) ==
    /\ p.steps \in Seq(ToSet(p.steps))
    /\ \A i, j \in DOMAIN p.steps : p.steps[i].id = p.steps[j].id => i = j
    /\ p.waves \in Seq(Seq(IdsOf(p)) \ {<<>>})
    /\ \A id \in IdsOf(p) : \E a \in PlacesIn(p) : IdIn(p, a) = id
    /\ \A a, b \in PlacesIn(p) : Earlier(a, b) <=>
          \E i, j \in DOMAIN p.steps :
             i < j /\ p.steps[i].id = IdIn(p, a) /\ p.steps[j].id = IdIn(p, b)
    /\ \A a \in PlacesIn(p) : \A s \in ToSet(p.steps) : s.id = IdIn(p, a) =>
          \A need \in s.needs : \E b \in PlacesIn(p) : b[1] < a[1] /\ IdIn(p, b) = need

\* A recipe that is not refused gets a sound plan, of its own steps: none is added
\* and none is lost.
PromiseKept(recipe, set, registry) ==
    ~Refused(recipe, set, registry) =>
       LET p == Compile(recipe, set, registry)
       IN Sound(p) /\ IdsOf(p) = {s.id : s \in ToSet(recipe.steps)}
=============================================================================
