------------------------------- MODULE GoalText -------------------------------
(***************************************************************************)
(* goal.rs and text.rs: the clauses of a goal, and the text to enter into a *)
(* field.                                                                   *)
(*                                                                         *)
(* A goal is a sequence of words, and of quotes, which stand where they do  *)
(* in the text: `"` and `'`.  A word is apart from the next by a space.     *)
(***************************************************************************)
EXTENDS Integers, Sequences, FiniteSets, SequencesExt, FiniteSetsExt

QuoteMark == "\""
Apostrophe == "'"
Marks == {QuoteMark, Apostrophe}

-----------------------------------------------------------------------------
(* Clauses                                                                  *)

\* The mark that is open after the first i symbols, or ""
OpenAfter(goal) ==
    LET open[i \in 0 .. Len(goal)] ==
          IF i = 0 THEN ""
          ELSE CASE open[i - 1] = "" /\ goal[i] \in Marks -> goal[i]
                 [] open[i - 1] = goal[i] -> ""
                 [] OTHER -> open[i - 1]
    IN open

\* Fault: a connective counts inside quotes
SeparatesAnywhere(goal, i) == TRUE

Separates(goal, i) == OpenAfter(goal)[i - 1] = ""

\* match_connective: a connective of how many words starts at i
ConnectiveAt(goal, i) ==
    IF i + 1 < Len(goal) /\ goal[i] = "and" /\ goal[i + 1] = "then" THEN 2
    ELSE IF i < Len(goal) /\ goal[i] = "then" THEN 1 ELSE 0

\* split_sequential_clauses: one connective takes the space before the next
ClausesOf(goal) ==
    LET Pos == 1 .. Len(goal) + 1
        from[i \in Pos, start \in Pos] ==
          IF i > Len(goal) THEN <<SubSeq(goal, start, Len(goal))>>
          ELSE IF i > start /\ ConnectiveAt(goal, i) > 0 /\ Separates(goal, i)
          THEN LET next == i + ConnectiveAt(goal, i)
               IN <<SubSeq(goal, start, i - 1)>> \o from[next, next]
          ELSE from[i + 1, start]
    IN SelectSeq(from[1, 1], LAMBDA clause : clause # <<>>)

-----------------------------------------------------------------------------
(* The text for a field                                                     *)

Between(goal, i, j) == SubSeq(goal, i + 1, j - 1)

\* quoted_literals: where each opens and what is in it; an empty one is none
LiteralsOf(goal) ==
    LET at == SelectSeq([i \in DOMAIN goal |-> i], LAMBDA i : goal[i] = QuoteMark)
        all == [k \in 1 .. Len(at) \div 2 |->
                  [at |-> at[2 * k - 1], val |-> Between(goal, at[2 * k - 1], at[2 * k])]]
    IN SelectSeq(all, LAMBDA lit : lit.val # <<>>)

\* The last three words before i
WordsBefore(goal, i) ==
    LET words == SelectSeq(SubSeq(goal, 1, i - 1), LAMBDA w : w \notin Marks)
    IN ToSet(SubSeq(words, Max({1, Len(words) - 2}), Len(words)))

Mentions(goal, lit, label) == WordsBefore(goal, lit.at) \intersect ToSet(label) # {}

Text(v) == [ok |-> TRUE, text |-> v]
NoText(why) == [ok |-> FALSE, text |-> <<why>>]

\* first_quoted: between the first mark and the next of its kind
FirstQuoted(goal) ==
    LET marks == {i \in DOMAIN goal : goal[i] \in Marks}
        next == {j \in DOMAIN goal : j > Min(marks) /\ goal[j] = goal[Min(marks)]}
    IN IF marks = {} \/ next = {} THEN {} ELSE {Between(goal, Min(marks), Min(next))}

Run(part, whole) == \/ part = <<>>
                    \/ \E i \in 0 .. Len(whole) - Len(part) : SubSeq(whole, i + 1, i + Len(part)) = part
Bare(v) == SelectSeq(v, LAMBDA w : w \notin Marks)

\* type_into_pattern and fill_with_pattern
TypeInto(goal, label) ==
    LET types == {i \in 1 .. Len(goal) - 1 : goal[i] = "type"}
        intos == {i \in 2 .. Len(goal) - 1 : goal[i] = "into"}
    IN IF types = {} \/ intos = {} THEN {}
       ELSE IF Min(intos) <= Min(types) + 1 THEN {}
       ELSE IF ~Run(label, SubSeq(goal, Min(intos) + 1, Len(goal))) THEN {}
       ELSE {Bare(Between(goal, Min(types), Min(intos)))}

FillWith(goal, label) ==
    LET withs == {i \in 2 .. Len(goal) - 1 : goal[i] = "with"}
    IN IF withs = {} \/ ~Run(label, goal) THEN {}
       ELSE {Bare(SubSeq(goal, Min(withs) + 1, Len(goal)))}

Untyped(goal, typed) == SelectSeq(LiteralsOf(goal), LAMBDA lit : lit.val \notin typed)

\* DeterministicTextResolver::resolve, for a field with this label
Resolved(goal, label, typed) ==
    LET untyped == Untyped(goal, typed)
        near == SelectSeq(untyped, LAMBDA lit : Mentions(goal, lit, label))
        patterns == IF TypeInto(goal, label) # {} THEN TypeInto(goal, label)
                    ELSE FillWith(goal, label)
    IN IF LiteralsOf(goal) # <<>>
       THEN CASE untyped = <<>>     -> NoText("abstain")
              [] Len(untyped) = 1   -> Text(untyped[1].val)
              [] Len(untyped) > 1 /\ near = <<>> -> NoText("ambiguous")
              [] OTHER              -> Text(near[1].val)
       ELSE CASE FirstQuoted(goal) = {<<>>} -> NoText("missing")
              [] FirstQuoted(goal) \notin {{}, {<<>>}} -> Text(CHOOSE v \in FirstQuoted(goal) : TRUE)
              [] OTHER -> IF patterns = {} THEN NoText("missing")
                          ELSE Text(CHOOSE v \in patterns : TRUE)
===============================================================================
