------------------------------ MODULE RecipeRun ------------------------------
(***************************************************************************)
(* run_plan_with_screenshots of run.rs over one AgentClient: a recipe is    *)
(* compiled, then its waves are sent to the host, all-Read waves in one     *)
(* pipeline and the others step by step, until a step fails.                *)
(***************************************************************************)
EXTENDS RecipePlan, AgentClient

CONSTANTS Recipes,   \* the recipes to run, with the --set values given
          Registry,  \* the schemas
          Captures   \* --screenshot-dir: "off", "all" or "flagged"

ASSUME RecipesAssumption == \A r \in Recipes : r.recipe \in RecipeDoc

\* protocol_registry has it built in, and a schema file that names it again is refused
ASSUME RegistryAssumption ==
    "shutdown" \in DOMAIN Registry /\ "exit" \in Registry["shutdown"].effects

VARIABLES
    job,      \* what the user asked for: [recipe, set, yes, capture]
    plan,     \* the compiled plan
    phase,    \* "compile", "run", "await", "shot", "done"
    wave,     \* the wave under way
    at,       \* the step of the wave under way
    receipt,  \* Receipt: ok, and a row [id, ok] for each step reported
    shots     \* the ids of the steps with a screenshot row

runVars == <<job, plan, phase, wave, at, receipt, shots>>
vars    == <<wireVars, runVars>>

NoPlan == [steps |-> <<>>, waves |-> <<>>, effects |-> {}, requiresYes |-> FALSE]

Init ==
    /\ ClientInit
    /\ job \in {[recipe |-> r.recipe, set |-> r.set, yes |-> y, capture |-> c] :
                   r \in Recipes, y \in BOOLEAN, c \in Captures}
    /\ plan = NoPlan /\ phase = "compile" /\ wave = 1 /\ at = 1
    /\ receipt = [ok |-> TRUE, rows |-> <<>>] /\ shots = <<>>

-----------------------------------------------------------------------------
(* The plan as the runner reads it                                          *)

StepOf(id) == CHOOSE s \in ToSet(plan.steps) : s.id = id

WaveSteps == [k \in DOMAIN plan.waves[wave] |-> StepOf(plan.waves[wave][k])]

\* step_is_read_only: a step of no known effect is not
ReadOnly(s) == s.effects = {"read"}

\* Fault: a wave of independent steps goes out at once, whatever they do
CanPipelineAll == job.capture = "off" /\ Len(WaveSteps) > 1

\* wave_can_pipeline
CanPipeline ==
    /\ job.capture = "off" /\ Len(WaveSteps) > 1
    /\ \A k \in DOMAIN WaveSteps : ReadOnly(WaveSteps[k])

Wants(s) == job.capture = "all" \/ (job.capture = "flagged" /\ s.shot)

\* What a line stands for at the host: the step, or the picture after a step
StepLine(s) ==
    [id |-> s.id, effect |-> IF "exit" \in s.effects THEN "exit"
                             ELSE IF ReadOnly(s) THEN "read" ELSE "write"]
ShotLine(s) == [id |-> s.id, effect |-> "shot"]

-----------------------------------------------------------------------------

Reject ==
    /\ phase = "compile" /\ Refused(job.recipe, job.set, Registry)
    /\ phase' = "done" /\ receipt' = [receipt EXCEPT !.ok = FALSE]
    /\ UNCHANGED <<wireVars, job, plan, wave, at, shots>>

\* compile_plan, then run_plan's first test: an exit effect needs --yes
Accepted ==
    /\ phase = "compile" /\ ~Refused(job.recipe, job.set, Registry)
    /\ plan' = Compile(job.recipe, job.set, Registry)
    /\ IF plan'.requiresYes /\ ~job.yes
       THEN phase' = "done" /\ receipt' = [receipt EXCEPT !.ok = FALSE]
       ELSE phase' = "run" /\ UNCHANGED receipt
    /\ UNCHANGED <<wireVars, job, wave, at, shots>>

\* The next wave in one pipeline
SendWave ==
    /\ phase = "run" /\ wave <= Len(plan.waves) /\ CanPipeline
    /\ Begin([k \in DOMAIN WaveSteps |-> StepLine(WaveSteps[k])])
    /\ phase' = "await"
    /\ UNCHANGED <<job, plan, wave, at, receipt, shots>>

\* The next step of a wave that is not pipelined
SendStep ==
    /\ phase = "run" /\ wave <= Len(plan.waves) /\ ~CanPipeline
    /\ Begin(<<StepLine(WaveSteps[at])>>)
    /\ phase' = "await"
    /\ UNCHANGED <<job, plan, wave, at, receipt, shots>>

Row(id, ok) == [id |-> id, ok |-> ok]

\* Fault: the first failure is not looked for among the answers
WaveAnsweredUnread ==
    /\ phase = "await" /\ CanPipeline /\ call.state = "ok" /\ End
    /\ receipt' = [receipt EXCEPT !.rows = @ \o
                      [k \in DOMAIN call.got |-> Row(WaveSteps[k].id, call.got[k].ok)]]
    /\ phase' = "run" /\ wave' = wave + 1
    /\ UNCHANGED <<job, plan, at, shots>>

\* Every answer of the pipeline is a row; one that is not ok ends the run
WaveAnswered ==
    /\ phase = "await" /\ CanPipeline /\ call.state = "ok" /\ End
    /\ LET rows == [k \in DOMAIN call.got |-> Row(WaveSteps[k].id, call.got[k].ok)]
           good == \A k \in DOMAIN rows : rows[k].ok
       IN /\ receipt' = [ok |-> good, rows |-> receipt.rows \o rows]
          /\ phase' = IF good THEN "run" ELSE "done"
          /\ wave' = IF good THEN wave + 1 ELSE wave
    /\ UNCHANGED <<job, plan, at, shots>>

\* The pipeline broke: one row, for the wave's first step, whichever failed
WaveBroke ==
    /\ phase = "await" /\ CanPipeline /\ call.state = "error" /\ End
    /\ receipt' = [ok |-> FALSE, rows |-> Append(receipt.rows, Row(WaveSteps[1].id, FALSE))]
    /\ phase' = "done"
    /\ UNCHANGED <<job, plan, wave, at, shots>>

\* After the step's row: stop at a failure, else the next step or wave
Continue(ok) ==
    IF ~ok THEN phase' = "done" /\ UNCHANGED <<wave, at>>
    ELSE /\ phase' = "run"
         /\ IF at < Len(WaveSteps) THEN at' = at + 1 /\ UNCHANGED wave
            ELSE at' = 1 /\ wave' = wave + 1

StepOk == call.state = "ok" /\ call.got[1].ok

\* A step's own row, when no screenshot is wanted after it
StepAnswered ==
    /\ phase = "await" /\ ~CanPipeline /\ call.state \in {"ok", "error"}
    /\ ~Wants(WaveSteps[at]) /\ End
    /\ receipt' = [ok |-> StepOk,
                   rows |-> Append(receipt.rows, Row(WaveSteps[at].id, StepOk))]
    /\ Continue(StepOk)
    /\ UNCHANGED <<job, plan, shots>>

\* A screenshot is taken after the step, whether it went well or not.  The code
\* writes the step's row after it; nobody reads the receipt in between.
StepAnsweredThenShot ==
    /\ phase = "await" /\ ~CanPipeline /\ call.state \in {"ok", "error"}
    /\ Wants(WaveSteps[at]) /\ End
    /\ receipt' = [ok |-> StepOk,
                   rows |-> Append(receipt.rows, Row(WaveSteps[at].id, StepOk))]
    /\ phase' = "shot"
    /\ UNCHANGED <<job, plan, wave, at, shots>>

SendShot ==
    /\ phase = "shot" /\ Begin(<<ShotLine(WaveSteps[at])>>)
    /\ UNCHANGED runVars

\* capture_screenshot never fails the recipe
ShotAnswered ==
    /\ phase = "shot" /\ call.state \in {"ok", "error"} /\ End
    /\ shots' = Append(shots, Row(WaveSteps[at].id, StepOk))
    /\ Continue(receipt.ok)
    /\ UNCHANGED <<job, plan, receipt>>

Finish ==
    /\ phase = "run" /\ wave > Len(plan.waves)
    /\ phase' = "done"
    /\ UNCHANGED <<wireVars, job, plan, wave, at, receipt, shots>>

\* The run is over and the host has nothing of it left to do
Rest ==
    /\ phase = "done"
    /\ \A c \in Conn : conns[c].up = <<>>
    /\ UNCHANGED vars

RunStep == \/ Reject \/ Accepted \/ SendWave \/ SendStep \/ WaveAnswered \/ WaveBroke
           \/ StepAnswered \/ StepAnsweredThenShot \/ SendShot \/ ShotAnswered \/ Finish

WireStep == (ClientStep \/ HostStep) /\ UNCHANGED runVars

Next == RunStep \/ WireStep \/ Rest

Spec == Init /\ [][Next]_vars

-----------------------------------------------------------------------------
(* Properties                                                               *)

Performed(id) == {k \in DOMAIN log : log[k].op.id = id /\ log[k].op.effect # "shot"}
RowsOf(id) == {k \in DOMAIN receipt.rows : receipt.rows[k].id = id}
PlannedIds == {s.id : s \in ToSet(plan.steps)}

\* Types and ranges: no step has two rows, and at most one call is under way
RunTypeOK ==
    /\ session \in 0 .. opened /\ opened \in 0 .. MaxConns
    /\ \A c \in Conn : c > opened => conns[c].up = <<>> /\ conns[c].down = <<>>
    /\ call.state \in {"none", "wire", "ok", "error"}
    /\ Len(call.got) <= call.sent \/ call.state \in {"ok", "error"}
    /\ phase \in {"compile", "run", "await", "shot", "done"}
    /\ \A id \in PlannedIds : Cardinality(RowsOf(id)) <= 1
    /\ {receipt.rows[k].id : k \in DOMAIN receipt.rows} \subseteq PlannedIds
    /\ Len(shots) <= Len(receipt.rows)

\* A step reaches the host only after every step it needs was reported ok, for
\* every placement of faults and however late its line is read (plan.rs schedule
\* with run.rs's fail-fast).
NeedsHonoured ==
    [][log' # log /\ Last(log').op.effect # "shot" =>
         \A need \in StepOf(Last(log').op.id).needs :
            \E k \in RowsOf(need) : receipt.rows[k].ok]_vars

\* Steps of a pipelined chunk reach the host at most once: "After any request
\* line is written, a transport error is not retried" (client.rs rpc_pipeline).
\* The odd last step of a long wave is no chunk of its own kind and may repeat.
PipelinedOnce ==
    \A w \in DOMAIN plan.waves :
       LET steps == [k \in DOMAIN plan.waves[w] |-> StepOf(plan.waves[w][k])]
       IN /\ job.capture = "off" /\ Len(steps) > 1
          /\ \A k \in DOMAIN steps : ReadOnly(steps[k])
          => \A n \in DOMAIN Chunks(steps) : Len(Chunks(steps)[n]) > 1 =>
                \A k \in DOMAIN Chunks(steps)[n] :
                   Cardinality(Performed(Chunks(steps)[n][k].id)) <= 1

\* A step reaches the host more often than once only when a fault came between
\* its performance and its answer: each repetition costs a fault.
RepeatsCostFaults ==
    \A id \in PlannedIds : Cardinality(Performed(id)) <= 1 + faults

\* A retry never acts twice for nothing: no step of a chunk is performed again, and
\* any other at most once for each time that the wire failed (roundtrip_retry and
\* pipeline_retry of client.rs).
RepeatsEarned == PipelinedOnce /\ RepeatsCostFaults

\* An answer handed to the caller is the answer to that call's own line, though
\* the client never compares ids (client.rs exchange_wire, exchange_pipeline).
AnswersMatch ==
    \A k \in DOMAIN call.got :
       call.state \in {"wire"} =>
          call.got[k].call = calls /\ call.got[k].op = call.ops[k]

\* The receipt tells the truth: a row is ok only if the host performed the step
\* and answered ok; a write or exit the host performed has a row once the run is
\* over, unless its line is read after the end; and a receipt that is ok has a
\* row, and all are ok, for every step.
ReceiptHonest ==
    /\ \A k \in DOMAIN receipt.rows : receipt.rows[k].ok =>
          \E n \in Performed(receipt.rows[k].id) : log[n].ok
    /\ phase = "done" => \A s \in ToSet(plan.steps) :
          Performed(s.id) # {} /\ ~ReadOnly(s) => RowsOf(s.id) # {}
    /\ phase = "done" /\ receipt.ok => \A id \in PlannedIds :
          \E k \in RowsOf(id) : receipt.rows[k].ok

Quits(op) == op.op = "shutdown" \/ (op.op = "keybinding" /\ op.arg \in QuitBindings)

\* Nothing with an exit effect reaches the host without --yes, whichever value
\* a parameter is given (run.rs NeedsYes, plan.rs annotate).
ExitOnlyWithYes ==
    \A n \in DOMAIN log :
       log[n].op.effect # "shot" /\ Quits(StepOf(log[n].op.id).op) => job.yes

\* Once a step failed, no step after it in the plan reaches the host, also where
\* no need would hold it back; only the siblings in one pipeline of reads may
\* have been on their way (run.rs: "Write, Exit, mixed ... waves stay sequential
\* fail-fast (no later sibling). A failed wave does not start the next one").
FailFast ==
    \A k \in DOMAIN receipt.rows : ~receipt.rows[k].ok =>
       \A w \in DOMAIN plan.waves : receipt.rows[k].id \in ToSet(plan.waves[w]) =>
          \A i, j \in DOMAIN plan.steps :
             /\ plan.steps[i].id = receipt.rows[k].id
             /\ i < j /\ Performed(plan.steps[j].id) # {}
             => /\ plan.steps[j].id \in ToSet(plan.waves[w])
                /\ \A id \in ToSet(plan.waves[w]) : ReadOnly(StepOf(id))
=============================================================================
