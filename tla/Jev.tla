---------------------------------- MODULE Jev ----------------------------------
(***************************************************************************)
(* jev.rs: an abstained decision put to a service as several choices at     *)
(* once, and what is made of the answers.                                   *)
(*                                                                         *)
(* An offer is [kind, region]; a control has the region "".  The answers    *)
(* are a function of the heads asked; an answer is [choice, odds], odds a   *)
(* function from the keys it speaks of to hundredths.  No answer to a head  *)
(* is a head missing from the function.                                     *)
(***************************************************************************)
EXTENDS Integers, FiniteSets, FiniteSetsExt, Functions

ElementKinds == {"click", "type_text", "set_value", "key", "keybinding", "invoke"}

OpKinds(offers) == {o.kind : o \in offers}
RegionsOf(offers, kind) == {o.region : o \in {p \in offers : p.kind = kind}}

\* build_questions: the operation, and the target of each operation that has one
Heads(offers) == {"operation"} \union (OpKinds(offers) \intersect ElementKinds)
KeysFor(offers, head) == IF head = "operation" THEN OpKinds(offers) ELSE RegionsOf(offers, head)

\* Fault: any key that was offered will do
ValidLoose(answer, keys) == answer.choice \in keys /\ DOMAIN answer.odds = keys

\* validate_choice: on the menu, odds for the whole menu and nothing else, each a
\* probability, together one, none better than the choice's
Valid(answer, keys) ==
    /\ answer.choice \in keys
    /\ DOMAIN answer.odds = keys
    /\ \A k \in keys : answer.odds[k] \in 0 .. 100
    /\ SumFunction(answer.odds) \in 99 .. 101
    /\ \A k \in keys : answer.odds[k] <= answer.odds[answer.choice]

Abstained == [kind |-> "abstain", region |-> ""]

\* choose: one call, and the pieces of a valid answer put together
Chosen(offers, answers) ==
    LET Answered(head) == /\ head \in DOMAIN answers
                          /\ Valid(answers[head], KeysFor(offers, head))
        op == answers["operation"].choice
    IN IF offers = {} \/ ~Answered("operation") THEN Abstained
       ELSE IF op \notin ElementKinds THEN [kind |-> op, region |-> ""]
       ELSE IF ~Answered(op) THEN Abstained
       ELSE [kind |-> op, region |-> answers[op].choice]
================================================================================
