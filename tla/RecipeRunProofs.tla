--------------------------- MODULE RecipeRunProofs ---------------------------
(***************************************************************************)
(* Proofs about a recipe's run over one client (RecipeRun, AgentClient).    *)
(*                                                                         *)
(* The theorems hold for every set of recipes, registry, pipeline depth and *)
(* number of connections and faults.  What the run takes for granted of a   *)
(* plan is what RecipePlanProofs proves of the planner.                     *)
(*                                                                         *)
(* WireInv is about one exchange: which answer on a connection belongs to   *)
(* which line of the call.  RunInv is about the run: what may be on the     *)
(* wire by its place in the plan, and what its rows say.  OnceInv is about  *)
(* the lines of a pipeline: each is at one place, unwritten or unique.      *)
(* CostInv is about the other lines: how many there are for so many faults. *)
(***************************************************************************)
EXTENDS RecipeRun, RecipePlanProofs

-----------------------------------------------------------------------------
(* What holds on the wire                                                  *)

\* A line's op, a line, an answer, the two directions of a connection, a call
LineOp == [id : PlannedIds, effect : Effects \cup {"shot"}]
Line   == [call : Nat, op : LineOp]
Answer == [call : Nat, op : LineOp, ok : BOOLEAN, readable : BOOLEAN]
Ends   == [open : BOOLEAN, up : Seq(Line), down : Seq(Answer)]

Calls  == [state : {"none", "wire", "ok", "error"}, ops : Seq(LineOp), sent : Nat,
           got : Seq(Answer), earlier : Seq(Answer), later : Seq(Seq(LineOp))]

WireTypeOK ==
    /\ session \in 0..opened /\ opened \in 0..MaxConns
    /\ calls \in Nat
    /\ conns \in [Conn -> Ends]
    /\ log \in Seq(Answer)
    /\ call \in Calls

\* Only the connection in use holds answers, and between calls it holds nothing.
ConnsInv ==
    /\ \A c \in Conn : c > opened => ~conns[c].open
    /\ \A c \in Conn : ~conns[c].open => conns[c].up = <<>>
    /\ \A c \in Conn : c # session => conns[c].down = <<>>
    /\ session # 0 /\ ~Busy => conns[session].up = <<>> /\ conns[session].down = <<>>

\* The list's entries are of call id, for its ops behind the first `from`.
Answers(list, from, ops, id) ==
    \A k \in 1..Len(list) : list[k].call = id /\ list[k].op = ops[from + k]

\* What the call has read answers the lines it has written.
Asked(c, id) ==
    /\ Len(c.got) <= c.sent /\ c.sent <= Len(c.ops)
    /\ Answers(c.got, 0, c.ops, id)

\* Behind the answers read come those on their way, then the lines to be performed.
OnWire(c, id, end) ==
    /\ Len(c.got) + Len(end.down) + Len(end.up) <= c.sent
    /\ end.open => Len(c.got) + Len(end.down) + Len(end.up) = c.sent
    /\ Answers(end.down, Len(c.got), c.ops, id)
    /\ Answers(end.up, Len(c.got) + Len(end.down), c.ops, id)

ExchangeInv ==
    Busy => /\ Asked(call, calls)
            /\ session = 0 => call.sent = 0
            /\ session # 0 => OnWire(call, calls, conns[session])

\* Every answer on its way or read was the host's.
Heard == ToSet(call.got) \cup ToSet(call.earlier)
           \cup UNION {ToSet(conns[c].down) : c \in Conn}
HeardInv == Heard \subseteq ToSet(log)

WireInv == WireTypeOK /\ ConnsInv /\ ExchangeInv /\ HeardInv

-----------------------------------------------------------------------------
(* What holds of the run                                                   *)

\* The plan's waves, as places <<wave, position>>
Places == UNION {{w} \X DOMAIN plan.waves[w] : w \in DOMAIN plan.waves}
IdAt(p) == plan.waves[p[1]][p[2]]

\* The plan in hand is sound, in the words of the runner.
PlanSound ==
    /\ plan.steps \in Seq(ToSet(plan.steps))
    /\ \A i, j \in DOMAIN plan.steps : plan.steps[i].id = plan.steps[j].id => i = j
    /\ plan.waves \in Seq(Seq(PlannedIds) \ {<<>>})
    /\ \A id \in PlannedIds : \E p \in Places : IdAt(p) = id
    /\ \A p, q \in Places : Earlier(p, q) <=>
          \E i, j \in DOMAIN plan.steps :
             i < j /\ plan.steps[i].id = IdAt(p) /\ plan.steps[j].id = IdAt(q)
    /\ \A p \in Places : \A need \in StepOf(IdAt(p)).needs :
          \E q \in Places : q[1] < p[1] /\ IdAt(q) = need

\* The job is one of the recipes, and the plan none yet or a sound one.
PlanInv ==
    /\ \E r \in Recipes : job.recipe = r.recipe /\ job.set = r.set
    /\ plan = NoPlan \/ Sound(plan)

\* The ops of the call that phase, wave and at stand for
LinesOf(steps) == [k \in DOMAIN steps |-> StepLine(steps[k])]
OpsNow == IF phase = "shot" THEN <<ShotLine(WaveSteps[at])>>
          ELSE IF CanPipeline THEN LinesOf(WaveSteps)
          ELSE <<StepLine(WaveSteps[at])>>

\* The ops in the chunks before the n-th
Before(n) == (n - 1) * MailboxDepth

\* A call for ops is at its n-th chunk: behind it the answers of the earlier ones.
Serving(c, ops, n) ==
    /\ n \in DOMAIN Chunks(ops) /\ c.ops = Chunks(ops)[n]
    /\ Len(c.later) = Len(Chunks(ops)) - n
    /\ \A m \in 1..Len(c.later) : c.later[m] = Chunks(ops)[n + m]
    /\ Len(c.earlier) = Before(n)
    /\ \A k \in 1..Before(n) : c.earlier[k].op = ops[k]

\* A call that ended well answers all its ops.
Answered(c, ops) ==
    Len(c.got) = Len(ops) /\ \A k \in 1..Len(ops) : c.got[k].op = ops[k]

\* There is a call under way when the phase says so, and it serves what is in hand.
CallInv ==
    /\ phase \in {"compile", "run", "done"} => call.state = "none"
    /\ phase = "await" => call.state # "none"
    /\ call.state = "wire" => \E n \in DOMAIN Chunks(OpsNow) : Serving(call, OpsNow, n)
    /\ call.state = "ok" => Answered(call, OpsNow)

\* Places the run is past; places whose lines are written or about to be
Behind(p) == p[1] < wave \/ (p[1] = wave /\ p[2] < at)
Out(p) == Behind(p) \/ (p[1] = wave /\ phase # "run" /\ (CanPipeline \/ p[2] = at))
Reached(id) == \E p \in Places : IdAt(p) = id /\ Out(p)

\* What the host has performed, and all that was written to it and not lost
Heeded == {a.op : a \in ToSet(log)}
OnTheWay == UNION {ToSet(conns[c].up) : c \in Conn}
WireOps == Heeded \cup {line.op : line \in OnTheWay}

\* Nothing is out or performed that the run has not come to.
LinesInv == \A op \in WireOps : op.effect # "shot" => Reached(op.id)

\* Where the run is.
ProgressInv ==
    /\ wave \in 1..(Len(plan.waves) + 1) /\ at \in Nat \ {0}
    /\ phase \in {"compile", "run", "await", "shot", "done"}
    /\ wave \in DOMAIN plan.waves => at \in DOMAIN plan.waves[wave] /\ (CanPipeline => at = 1)
    /\ phase \in {"await", "shot"} => wave \in DOMAIN plan.waves
    /\ phase = "shot" => ~CanPipeline

\* The steps reported, by their outcome; the step in hand
Rows == ToSet(receipt.rows)
OkIds == {id \in PlannedIds : Row(id, TRUE) \in Rows}
FailedIds == {id \in PlannedIds : Row(id, FALSE) \in Rows}
Here == IdAt(<<wave, at>>)

\* Every step behind the run is reported ok; a failure is one of the wave in hand.
RowsInv ==
    /\ receipt \in [ok : BOOLEAN, rows : Seq([id : PlannedIds, ok : BOOLEAN])]
    /\ \A p \in Places : Behind(p) => IdAt(p) \in OkIds
    /\ receipt.ok => FailedIds = {}
    /\ phase \in {"compile", "run", "await"} => receipt.ok
    /\ phase = "shot" => Here \in IF receipt.ok THEN OkIds ELSE FailedIds
    /\ FailedIds # {} => /\ wave \in DOMAIN plan.waves
                         /\ IF CanPipeline THEN FailedIds \subseteq ToSet(plan.waves[wave])
                            ELSE FailedIds = {Here}
    /\ phase = "done" /\ receipt.ok => wave = Len(plan.waves) + 1

\* The host performed the step and answered ok.
Well(id) == \E a \in ToSet(log) : a.op.id = id /\ a.op.effect # "shot" /\ a.ok

\* A row that is ok is earned; a run that ends badly sent nothing or says where.
TruthInv ==
    /\ \A id \in OkIds : Well(id)
    /\ phase = "done" /\ ~receipt.ok =>
          \/ WireOps = {}
          \/ wave \in DOMAIN plan.waves /\ (CanPipeline \/ Here \in FailedIds)

\* Nothing is sent before the plan is there, nor of a plan that wants a --yes it lacks.
ConfirmedInv ==
    /\ phase = "compile" => WireOps = {} /\ call = NoCall /\ plan = NoPlan
                             /\ wave = 1 /\ at = 1 /\ receipt.rows = <<>>
    /\ \A s \in ToSet(plan.steps) : Quits(s.op) => plan.requiresYes
    /\ plan.requiresYes => job.yes \/ (phase = "done" /\ WireOps = {})

RunInv == ProgressInv /\ CallInv /\ LinesInv /\ RowsInv /\ TruthInv /\ ConfirmedInv

-----------------------------------------------------------------------------
(* Sequences                                                               *)

\* An element of a sequence over S is in S.
LEMMA Element == ASSUME NEW S, NEW s \in Seq(S), NEW k \in DOMAIN s PROVE s[k] \in S
BY LenProperties, ElementOfSeq

\* A sequence's first element and the others.
LEMMA HeadTail ==
    ASSUME NEW S, NEW s \in Seq(S), s # <<>>
    PROVE  /\ Len(s) \in Nat \ {0} /\ DOMAIN s = 1..Len(s)
           /\ Head(s) = s[1] /\ Head(s) \in S
           /\ Tail(s) \in Seq(S) /\ Len(Tail(s)) = Len(s) - 1
           /\ DOMAIN Tail(s) = 1..(Len(s) - 1)
           /\ \A k \in 1..(Len(s) - 1) : Tail(s)[k] = s[k + 1]
<1>1. Len(s) \in Nat \ {0} /\ DOMAIN s = 1..Len(s)
  BY EmptySeq, LenProperties
<1>2. Tail(s) \in Seq(S) /\ Len(Tail(s)) = Len(s) - 1
      /\ \A k \in 1..(Len(s) - 1) : Tail(s)[k] = s[k + 1]
  BY <1>1, HeadTailProperties, LenProperties
<1> QED
  BY <1>1, <1>2, HeadTailProperties, LenProperties

\* An element added behind a sequence.
LEMMA Added ==
    ASSUME NEW S, NEW s \in Seq(S), NEW e \in S
    PROVE  /\ Append(s, e) \in Seq(S) /\ Append(s, e) # <<>>
           /\ Len(s) \in Nat /\ DOMAIN s = 1..Len(s)
           /\ Len(Append(s, e)) = Len(s) + 1
           /\ DOMAIN Append(s, e) = 1..(Len(s) + 1)
           /\ \A k \in 1..Len(s) : Append(s, e)[k] = s[k]
           /\ Append(s, e)[Len(s) + 1] = e
           /\ ToSet(Append(s, e)) = ToSet(s) \cup {e}
<1>1. /\ Append(s, e) \in Seq(S) /\ Append(s, e) # <<>>
      /\ Len(s) \in Nat /\ DOMAIN s = 1..Len(s)
      /\ Len(Append(s, e)) = Len(s) + 1
      /\ DOMAIN Append(s, e) = 1..(Len(s) + 1)
      /\ \A k \in 1..Len(s) : Append(s, e)[k] = s[k]
      /\ Append(s, e)[Len(s) + 1] = e
  BY AppendProperties, LenProperties
<1> QED
  BY <1>1 DEF ToSet

\* The elements of two sequences, one behind the other.
LEMMA ConcatSet ==
    ASSUME NEW S, NEW s \in Seq(S), NEW t \in Seq(S)
    PROVE  ToSet(s \o t) = ToSet(s) \cup ToSet(t)
<1>1. /\ s \o t \in Seq(S) /\ Len(s \o t) = Len(s) + Len(t)
      /\ \A k \in 1..(Len(s) + Len(t)) :
            (s \o t)[k] = IF k <= Len(s) THEN s[k] ELSE t[k - Len(s)]
  BY ConcatProperties, Zenon
<1>2. PICK n \in Nat, m \in Nat : n = Len(s) /\ m = Len(t)
  BY LenProperties
<1>3. DOMAIN (s \o t) = 1..(n + m) /\ DOMAIN s = 1..n /\ DOMAIN t = 1..m
  BY <1>1, <1>2, LenProperties
<1>4. \A k \in 1..(n + m) : (s \o t)[k] = IF k <= n THEN s[k] ELSE t[k - n]
  BY <1>1, <1>2
<1>5. ASSUME NEW k \in 1..m PROVE t[k] \in ToSet(s \o t)
  <2>1. k + n \in 1..(n + m) /\ ~(k + n <= n) /\ k + n - n = k
    OBVIOUS
  <2>2. PICK i \in 1..(n + m) : i = k + n /\ ~(i <= n) /\ i - n = k
    BY <2>1
  <2>3. (s \o t)[i] = t[k]
    BY <1>4, <2>2
  <2> QED
    BY <1>3, <2>3 DEF ToSet
<1>6. ASSUME NEW k \in 1..n PROVE s[k] \in ToSet(s \o t)
  BY <1>3, <1>4 DEF ToSet
<1>7. ASSUME NEW k \in 1..(n + m) PROVE (s \o t)[k] \in ToSet(s) \cup ToSet(t)
  <2>1. CASE k <= n
    BY <1>3, <1>4, <2>1 DEF ToSet
  <2>2. CASE ~(k <= n)
    <3>1. k - n \in 1..m
      BY <2>2
    <3> QED
      BY <1>3, <1>4, <2>2, <3>1 DEF ToSet
  <2> QED
    BY <2>1, <2>2
<1> QED
  BY <1>3, <1>5, <1>6, <1>7 DEF ToSet

-----------------------------------------------------------------------------
(* The wire                                                                *)

\* One connection changes.
LEMMA OneEnd ==
    ASSUME NEW net \in [Conn -> Ends], NEW s \in Conn, NEW r \in Ends, NEW new,
           new = [net EXCEPT ![s] = r]
    PROVE  /\ new \in [Conn -> Ends] /\ new[s] = r
           /\ \A c \in Conn : c # s => new[c] = net[c]
OBVIOUS

\* The connection in use.
LEMMA InUse ==
    ASSUME WireTypeOK, session # 0
    PROVE  session \in Conn /\ conns[session] \in Ends /\ conns \in [Conn -> Ends]
<1>1. session \in Conn
  BY ClientAssumption DEF WireTypeOK, Conn
<1> QED
  BY <1>1 DEF WireTypeOK

\* LiveSession::open: the next connection is the one in use, with nothing on it.
LEMMA ConnectDoes ==
    ASSUME WireTypeOK, Connect
    PROVE  \E s \in Conn :
             /\ s = opened + 1 /\ session' = s /\ opened' = s
             /\ conns' \in [Conn -> Ends]
             /\ \A c \in Conn : c # s => conns'[c] = conns[c]
             /\ conns'[s].open /\ conns'[s].up = conns[s].up /\ conns'[s].down = conns[s].down
<1>1. PICK s \in Conn : s = opened + 1
  BY ClientAssumption DEF WireTypeOK, Connect, Conn
<1>2. conns[s] \in Ends /\ conns \in [Conn -> Ends]
  BY DEF WireTypeOK
<1>3. PICK r : r = [conns[s] EXCEPT !.open = TRUE]
  OBVIOUS
<1>4. r \in Ends /\ r.open /\ r.up = conns[s].up /\ r.down = conns[s].down
  BY <1>2, <1>3 DEF Ends
<1>5. conns' = [conns EXCEPT ![s] = r] /\ session' = s /\ opened' = s
  BY <1>1, <1>3 DEF Connect
<1> QED
  BY <1>1, <1>2, <1>4, <1>5, OneEnd

\* write_json_line: one more line of the call, on the wire unless the host is gone.
LEMMA WriteDoes ==
    ASSUME WireTypeOK, WriteLine
    PROVE  /\ session \in Conn /\ call.sent < Len(call.ops)
           /\ call' \in Calls /\ call'.sent = call.sent + 1
           /\ call'.state = call.state /\ call'.ops = call.ops /\ call'.got = call.got
           /\ call'.earlier = call.earlier /\ call'.later = call.later
           /\ \E line \in Line :
               /\ line.call = calls /\ line.op = call.ops[call.sent + 1]
               /\ conns' \in [Conn -> Ends]
               /\ \A c \in Conn : c # session => conns'[c] = conns[c]
               /\ conns'[session].open = conns[session].open
               /\ conns'[session].down = conns[session].down
               /\ conns'[session].up = IF conns[session].open THEN Append(conns[session].up, line)
                                       ELSE conns[session].up
<1>1. /\ session \in Conn /\ call.sent < Len(call.ops) /\ call \in Calls
      /\ conns \in [Conn -> Ends] /\ conns[session] \in Ends
  BY InUse DEF WireTypeOK, WriteLine
<1>2. /\ call' \in Calls /\ call'.sent = call.sent + 1
      /\ call'.state = call.state /\ call'.ops = call.ops /\ call'.got = call.got
      /\ call'.earlier = call.earlier /\ call'.later = call.later
  <2>1. call' = [call EXCEPT !.sent = call.sent + 1]
    BY DEF WriteLine
  <2>2. call.sent \in Nat
    BY <1>1 DEF Calls
  <2>3. PICK n \in Nat : n = call.sent + 1
    BY <2>2
  <2> QED
    BY <1>1, <2>1, <2>3 DEF Calls
<1>3. PICK line : line = [call |-> calls, op |-> call.ops[call.sent + 1]]
  OBVIOUS
<1>4. line \in Line /\ line.call = calls /\ line.op = call.ops[call.sent + 1]
  <2>1. call.ops \in Seq(LineOp) /\ call.sent \in Nat
    BY <1>1 DEF Calls
  <2>2. call.sent + 1 \in DOMAIN call.ops
    BY <1>1, <2>1, LenProperties
  <2>3. call.ops[call.sent + 1] \in LineOp
    BY <2>1, <2>2, Element
  <2> QED
    BY <1>3, <2>3 DEF Line, WireTypeOK
<1>5. CASE conns[session].open
  <2>1. PICK r : r = [conns[session] EXCEPT !.up = Append(conns[session].up, line)]
    OBVIOUS
  <2>2. Append(conns[session].up, line) \in Seq(Line)
    BY <1>1, <1>4, AppendProperties DEF Ends
  <2>3. /\ r \in Ends /\ r.open = conns[session].open /\ r.down = conns[session].down
        /\ r.up = Append(conns[session].up, line)
    BY <1>1, <2>1, <2>2 DEF Ends
  <2>4. conns' = [conns EXCEPT ![session] = r]
    BY <1>3, <1>5, <2>1 DEF WriteLine
  <2>5. /\ conns' \in [Conn -> Ends] /\ conns'[session] = r
        /\ \A c \in Conn : c # session => conns'[c] = conns[c]
    BY <1>1, <2>3, <2>4, OneEnd
  <2> QED
    BY <1>1, <1>2, <1>4, <1>5, <2>3, <2>5
<1>6. CASE ~conns[session].open
  BY <1>1, <1>2, <1>4, <1>6 DEF WriteLine
<1> QED
  BY <1>5, <1>6

\* Reading stops with the session.
LEMMA LeftDoes ==
    ASSUME WireTypeOK, session # 0, conns' = Left(conns)
    PROVE  /\ session \in Conn
           /\ conns' \in [Conn -> Ends]
           /\ \A c \in Conn : c # session => conns'[c] = conns[c]
           /\ conns'[session].open = (conns[session].open /\ conns[session].up # <<>>)
           /\ conns'[session].up = conns[session].up
           /\ conns'[session].down = <<>>
<1>1. session \in Conn /\ conns \in [Conn -> Ends] /\ conns[session] \in Ends
  BY InUse
<1>2. PICK r : r = [open |-> conns[session].open /\ conns[session].up # <<>>,
                    up |-> conns[session].up, down |-> <<>>]
  OBVIOUS
<1>3. /\ r \in Ends /\ r.open = (conns[session].open /\ conns[session].up # <<>>)
      /\ r.up = conns[session].up /\ r.down = <<>>
  BY <1>1, <1>2, EmptySeq DEF Ends
<1>4. conns' = [conns EXCEPT ![session] = r]
  BY <1>2 DEF Left
<1> QED
  BY <1>1, <1>3, <1>4, OneEnd

\* A call that fails, or starts over.
LEMMA CallErrs ==
    ASSUME NEW c \in Calls
    PROVE  /\ [c EXCEPT !.state = "error"] \in Calls
           /\ [c EXCEPT !.state = "error"].state = "error"
           /\ [c EXCEPT !.sent = 0, !.got = <<>>] \in Calls
           /\ [c EXCEPT !.sent = 0, !.got = <<>>].sent = 0
           /\ [c EXCEPT !.sent = 0, !.got = <<>>].got = <<>>
           /\ [c EXCEPT !.sent = 0, !.got = <<>>].state = c.state
           /\ [c EXCEPT !.sent = 0, !.got = <<>>].ops = c.ops
           /\ [c EXCEPT !.sent = 0, !.got = <<>>].earlier = c.earlier
           /\ [c EXCEPT !.sent = 0, !.got = <<>>].later = c.later
BY EmptySeq DEF Calls

\* What every error on the wire does: the session goes, the call starts over or ends.
Resets == /\ call'.sent = 0 /\ call'.got = <<>> /\ call'.state = call.state
          /\ call'.ops = call.ops /\ call'.earlier = call.earlier /\ call'.later = call.later

\* Every error of the exchange ends the session; the call starts over or fails.
LEMMA DropDoes ==
    ASSUME WireTypeOK, WriteFails \/ ReadEof \/ ReadTimeout \/
                       (ReadAnswer /\ ~Head(conns[session].down).readable)
    PROVE  /\ session' = 0 /\ session # 0 /\ Busy /\ conns' = Left(conns)
           /\ call' \in Calls
           /\ call'.state = "error" \/ (Resets /\ MayRetry(call))
           /\ UNCHANGED <<opened, calls, log>>
<1>1. call \in Calls
  BY DEF WireTypeOK
<1>2. /\ session' = 0 /\ session # 0 /\ Busy /\ conns' = Left(conns)
      /\ \/ call' = [call EXCEPT !.state = "error"]
         \/ call' = [call EXCEPT !.sent = 0, !.got = <<>>] /\ MayRetry(call)
      /\ UNCHANGED <<opened, calls, log>>
  BY DEF WriteFails, ReadEof, ReadTimeout, ReadAnswer, Reading, Dropped
<1> QED
  BY <1>1, <1>2, CallErrs DEF Resets

\* exchange_wire takes one answer, the first that came down.
LEMMA ReadDoes ==
    ASSUME WireTypeOK, ReadAnswer, Head(conns[session].down).readable
    PROVE  /\ session \in Conn /\ Busy /\ UNCHANGED <<session, opened, calls, log>>
           /\ call.sent = Len(call.ops) /\ Len(call.got) < Len(call.ops)
           /\ conns[session].down # <<>>
           /\ call' \in Calls
           /\ call'.got = Append(call.got, Head(conns[session].down))
           /\ call'.state = call.state /\ call'.ops = call.ops /\ call'.sent = call.sent
           /\ call'.earlier = call.earlier /\ call'.later = call.later
           /\ conns' \in [Conn -> Ends]
           /\ \A c \in Conn : c # session => conns'[c] = conns[c]
           /\ conns'[session].open = conns[session].open
           /\ conns'[session].up = conns[session].up
           /\ conns'[session].down = Tail(conns[session].down)
<1>1. /\ session \in Conn /\ Busy /\ UNCHANGED <<session, opened, calls, log>>
      /\ call.sent = Len(call.ops) /\ Len(call.got) < Len(call.ops)
      /\ conns[session].down # <<>> /\ call \in Calls
      /\ conns \in [Conn -> Ends] /\ conns[session] \in Ends
  BY InUse DEF WireTypeOK, ReadAnswer, Reading
<1>2. PICK h : h = Head(conns[session].down)
  OBVIOUS
<1>3. h \in Answer /\ Tail(conns[session].down) \in Seq(Answer)
  BY <1>1, <1>2, HeadTail DEF Ends
<1>4. /\ call' \in Calls /\ call'.got = Append(call.got, h)
      /\ call'.state = call.state /\ call'.ops = call.ops /\ call'.sent = call.sent
      /\ call'.earlier = call.earlier /\ call'.later = call.later
  <2>1. call' = [call EXCEPT !.got = Append(call.got, h)]
    BY <1>2 DEF ReadAnswer
  <2>2. Append(call.got, h) \in Seq(Answer)
    BY <1>1, <1>3, AppendProperties DEF Calls
  <2> QED
    BY <1>1, <2>1, <2>2 DEF Calls
<1>5. PICK r : r = [conns[session] EXCEPT !.down = Tail(conns[session].down)]
  OBVIOUS
<1>6. /\ r \in Ends /\ r.open = conns[session].open /\ r.up = conns[session].up
      /\ r.down = Tail(conns[session].down)
  BY <1>1, <1>3, <1>5 DEF Ends
<1>7. conns' = [conns EXCEPT ![session] = r]
  BY <1>5 DEF ReadAnswer
<1>8. /\ conns' \in [Conn -> Ends] /\ conns'[session] = r
      /\ \A c \in Conn : c # session => conns'[c] = conns[c]
  BY <1>1, <1>6, <1>7, OneEnd
<1> QED
  BY <1>1, <1>2, <1>4, <1>6, <1>8

\* A chunk that is answered: the next one, or the call's result.
LEMMA ChunkDoneDoes ==
    ASSUME WireTypeOK, ChunkDone
    PROVE  /\ Busy /\ Len(call.got) = Len(call.ops) /\ call' \in Calls
           /\ UNCHANGED <<session, opened, conns, calls, log>>
           /\ \/ /\ call.later = <<>> /\ call'.state = "ok" /\ call'.earlier = <<>>
                 /\ call'.got = call.earlier \o call.got
              \/ /\ call.later # <<>> /\ call'.state = "wire" /\ call'.sent = 0
                 /\ call'.ops = Head(call.later) /\ call'.later = Tail(call.later)
                 /\ call'.got = <<>> /\ call'.earlier = call.earlier \o call.got
<1>1. /\ Busy /\ Len(call.got) = Len(call.ops) /\ call \in Calls
      /\ UNCHANGED <<session, opened, conns, calls, log>>
  BY DEF ChunkDone, WireTypeOK, netVars
<1>2. PICK all : all = call.earlier \o call.got
  OBVIOUS
<1>3. all \in Seq(Answer)
  BY <1>1, <1>2, ConcatProperties, Zenon DEF Calls
<1>4. CASE call.later = <<>>
  <2>1. call' = [call EXCEPT !.state = "ok", !.got = all, !.earlier = <<>>]
    BY <1>2, <1>4 DEF ChunkDone
  <2> QED
    BY <1>1, <1>2, <1>3, <1>4, <2>1, EmptySeq DEF Calls
<1>5. CASE call.later # <<>>
  <2>1. PICK ops \in Seq(LineOp), later \in Seq(Seq(LineOp)) :
           ops = Head(call.later) /\ later = Tail(call.later)
    BY <1>1, <1>5, HeadTail DEF Calls
  <2>2. call' = [state |-> "wire", ops |-> ops, sent |-> 0, got |-> <<>>,
                 earlier |-> all, later |-> later]
    BY <1>2, <1>5, <2>1 DEF ChunkDone, NewCall, NoCall
  <2> QED
    BY <1>1, <1>2, <1>3, <1>5, <2>1, <2>2, EmptySeq DEF Calls
<1> QED
  BY <1>4, <1>5

\* What the host's end may do without performing a line: close connections
HostCuts ==
    /\ UNCHANGED <<session, opened, call, calls, log>>
    /\ conns' \in [Conn -> Ends]
    /\ \A d \in Conn : \/ conns'[d] = conns[d]
                       \/ /\ ~conns'[d].open /\ conns'[d].up = <<>>
                          /\ conns'[d].down \in {conns[d].down, <<>>}

\* What it does when it performs the line at c
HostPerforms(c, answer) ==
    /\ UNCHANGED <<session, opened, call, calls>>
    /\ conns[c].open /\ conns[c].up # <<>>
    /\ answer.call = Head(conns[c].up).call /\ answer.op = Head(conns[c].up).op
    /\ log' = Append(log, answer)
    /\ conns' \in [Conn -> Ends]
    /\ \A d \in Conn : conns'[d].down = IF d = c /\ d = session
                                        THEN Append(conns[d].down, answer) ELSE conns[d].down
    /\ \A d \in Conn :
         \/ ~conns'[d].open /\ conns'[d].up = <<>>
         \/ d # c /\ conns'[d].open = conns[d].open /\ conns'[d].up = conns[d].up
         \/ /\ d = c /\ conns'[d].up = Tail(conns[d].up)
            /\ conns'[d].open \/ (d # session /\ Tail(conns[d].up) = <<>>)

\* A connection closed at the host's end.
LEMMA ClosedEnd ==
    ASSUME NEW e \in Ends
    PROVE  /\ Closed(e) \in Ends /\ ~Closed(e).open /\ Closed(e).up = <<>>
           /\ Closed(e).down = e.down
           /\ [Closed(e) EXCEPT !.down = <<>>] \in Ends
           /\ ~[Closed(e) EXCEPT !.down = <<>>].open
           /\ [Closed(e) EXCEPT !.down = <<>>].up = <<>>
           /\ [Closed(e) EXCEPT !.down = <<>>].down = <<>>
BY EmptySeq DEF Closed, Ends

\* A connection the host closes, a host that dies or comes back: nothing is performed.
LEMMA CutDoes ==
    ASSUME WireTypeOK,
           \/ \E c \in Conn : ServerCloses(c)
           \/ \E lost \in BOOLEAN : HostDies(lost)
           \/ HostRestarts
    PROVE  HostCuts
<1>0. conns \in [Conn -> Ends]
  BY DEF WireTypeOK
<1>1. ASSUME NEW c \in Conn, ServerCloses(c) PROVE HostCuts
  <2>1. PICK r : r = Closed(conns[c])
    OBVIOUS
  <2>2. r \in Ends /\ ~r.open /\ r.up = <<>> /\ r.down = conns[c].down
    BY <1>0, <2>1, ClosedEnd
  <2>3. conns' = [conns EXCEPT ![c] = r] /\ UNCHANGED <<session, opened, call, calls, log>>
    BY <1>1, <2>1 DEF ServerCloses, clientVars
  <2> QED
    BY <1>0, <2>2, <2>3, OneEnd DEF HostCuts
<1>2. ASSUME NEW lost \in BOOLEAN, HostDies(lost) PROVE HostCuts
  <2>1. \A d \in Conn : /\ conns'[d] \in Ends /\ ~conns'[d].open /\ conns'[d].up = <<>>
                        /\ conns'[d].down \in {conns[d].down, <<>>}
    <3> SUFFICES ASSUME NEW d \in Conn
                 PROVE  /\ conns'[d] \in Ends /\ ~conns'[d].open /\ conns'[d].up = <<>>
                        /\ conns'[d].down \in {conns[d].down, <<>>}
      OBVIOUS
    <3>1. conns'[d] = IF lost THEN [Closed(conns[d]) EXCEPT !.down = <<>>] ELSE Closed(conns[d])
      BY <1>2 DEF HostDies
    <3> QED
      BY <1>0, <3>1, ClosedEnd
  <2>2. conns' \in [Conn -> Ends]
    BY <1>2, <2>1 DEF HostDies
  <2> QED
    BY <1>2, <2>1, <2>2 DEF HostDies, HostCuts, clientVars
<1>3. CASE HostRestarts
  BY <1>0, <1>3 DEF HostRestarts, HostCuts, clientVars
<1> QED
  BY <1>1, <1>2, <1>3

\* A handler performs the first line of a connection and answers it there.
LEMMA PerformDoes ==
    ASSUME WireTypeOK, NEW c \in Conn, NEW ok \in BOOLEAN, NEW readable \in BOOLEAN,
           Perform(c, ok, readable)
    PROVE  \E answer \in Answer : /\ answer.ok = ok /\ answer.readable = readable
                                   /\ HostPerforms(c, answer)
<1>0. /\ conns \in [Conn -> Ends] /\ conns[c] \in Ends /\ conns[c].open /\ conns[c].up # <<>>
      /\ UNCHANGED <<session, opened, call, calls>>
  BY DEF WireTypeOK, Perform, clientVars
<1> DEFINE line   == Head(conns[c].up)
           rest   == Tail(conns[c].up)
           answer == [call |-> line.call, op |-> line.op, ok |-> ok, readable |-> readable]
           down   == IF c = session THEN Append(conns[c].down, answer) ELSE conns[c].down
           r      == [open |-> c = session \/ rest # <<>>, up |-> rest, down |-> down]
           told   == [conns EXCEPT ![c] = r]
<1>1. line \in Line /\ rest \in Seq(Line)
  BY <1>0, HeadTail DEF Ends
<1>3. /\ answer \in Answer /\ answer.ok = ok /\ answer.readable = readable
      /\ answer.call = line.call /\ answer.op = line.op
  BY <1>1 DEF Line, Answer
<1>8. /\ log' = Append(log, answer)
      /\ conns' = [d \in Conn |-> Closed(told[d])] \/ conns' = told
  BY Zenon DEF Perform
<1> HIDE DEF answer
<1>5. /\ r \in Ends /\ r.up = rest
      /\ r.open = (c = session \/ rest # <<>>)
      /\ r.down = IF c = session THEN Append(conns[c].down, answer) ELSE conns[c].down
  <2>1. Append(conns[c].down, answer) \in Seq(Answer)
    BY <1>0, <1>3, AppendProperties DEF Ends
  <2>2. down \in Seq(Answer)
    BY <1>0, <2>1 DEF Ends
  <2> QED
    BY <1>1, <2>2 DEF Ends
<1> HIDE DEF r
<1>7. told \in [Conn -> Ends] /\ told[c] = r /\ \A d \in Conn : d # c => told[d] = conns[d]
  BY <1>0, <1>5, OneEnd
<1> HIDE DEF told
<1>9. /\ conns' \in [Conn -> Ends]
      /\ \A d \in Conn : conns'[d].down = told[d].down
      /\ \A d \in Conn : conns'[d] = told[d] \/ (~conns'[d].open /\ conns'[d].up = <<>>)
  <2>1. CASE conns' = told
    BY <1>7, <2>1
  <2>2. CASE conns' = [d \in Conn |-> Closed(told[d])]
    <3>1. \A d \in Conn : /\ Closed(told[d]) \in Ends /\ ~Closed(told[d]).open
                          /\ Closed(told[d]).up = <<>> /\ Closed(told[d]).down = told[d].down
      BY <1>7, ClosedEnd
    <3> QED
      BY <2>2, <3>1
  <2> QED
    BY <1>8, <2>1, <2>2
<1>10. \A d \in Conn : conns'[d].down = IF d = c /\ d = session
                                        THEN Append(conns[d].down, answer) ELSE conns[d].down
  BY <1>5, <1>7, <1>9
<1>11. \A d \in Conn :
         \/ ~conns'[d].open /\ conns'[d].up = <<>>
         \/ d # c /\ conns'[d].open = conns[d].open /\ conns'[d].up = conns[d].up
         \/ /\ d = c /\ conns'[d].up = Tail(conns[d].up)
            /\ conns'[d].open \/ (d # session /\ Tail(conns[d].up) = <<>>)
  BY <1>1, <1>5, <1>7, <1>9
<1>12. HostPerforms(c, answer)
  BY <1>0, <1>1, <1>3, <1>8, <1>9, <1>10, <1>11 DEF HostPerforms
<1> QED
  BY <1>3, <1>12


\* A line behind those on the wire.
LEMMA AnswersAppend ==
    ASSUME NEW S, NEW s \in Seq(S), NEW e \in S, NEW from \in Nat, NEW ops, NEW id,
           Answers(s, from, ops, id), e.call = id, e.op = ops[from + Len(s) + 1]
    PROVE  Answers(Append(s, e), from, ops, id)
<1>1. /\ Len(Append(s, e)) = Len(s) + 1 /\ Len(s) \in Nat
      /\ \A k \in 1..Len(s) : Append(s, e)[k] = s[k]
      /\ Append(s, e)[Len(s) + 1] = e
  BY Added
<1>2. SUFFICES ASSUME NEW k \in 1..(Len(s) + 1)
               PROVE  Append(s, e)[k].call = id /\ Append(s, e)[k].op = ops[from + k]
  BY <1>1 DEF Answers
<1>3. CASE k \in 1..Len(s)
  BY <1>1, <1>3 DEF Answers
<1>4. CASE k = Len(s) + 1
  <2>1. from + k = from + Len(s) + 1
    BY <1>1, <1>4
  <2> QED
    BY <1>1, <1>4, <2>1
<1> QED
  BY <1>1, <1>3, <1>4

\* The first of a list, and the others.
LEMMA AnswersTail ==
    ASSUME NEW S, NEW s \in Seq(S), s # <<>>, NEW from \in Nat, NEW ops, NEW id,
           Answers(s, from, ops, id)
    PROVE  /\ Head(s).call = id /\ Head(s).op = ops[from + 1]
           /\ Answers(Tail(s), from + 1, ops, id)
<1>1. /\ Len(s) \in Nat \ {0} /\ Head(s) = s[1] /\ Len(Tail(s)) = Len(s) - 1
      /\ \A k \in 1..(Len(s) - 1) : Tail(s)[k] = s[k + 1]
  BY HeadTail
<1>2. Head(s).call = id /\ Head(s).op = ops[from + 1]
  BY <1>1 DEF Answers
<1>3. Answers(Tail(s), from + 1, ops, id)
  <2> SUFFICES ASSUME NEW k \in 1..(Len(s) - 1)
               PROVE  Tail(s)[k].call = id /\ Tail(s)[k].op = ops[from + 1 + k]
    BY <1>1 DEF Answers
  <2>1. k + 1 \in 1..Len(s) /\ from + (k + 1) = from + 1 + k
    BY <1>1
  <2>2. s[k + 1].call = id /\ s[k + 1].op = ops[from + (k + 1)]
    BY <2>1 DEF Answers
  <2> QED
    BY <1>1, <2>1, <2>2
<1> QED
  BY <1>2, <1>3

\* Types depend on the plan alone.
LEMMA SameTypes ==
    ASSUME UNCHANGED plan
    PROVE  /\ PlannedIds' = PlannedIds /\ LineOp' = LineOp /\ Line' = Line
           /\ Answer' = Answer /\ Ends' = Ends /\ Calls' = Calls
BY DEF PlannedIds, LineOp, Line, Answer, Ends, Calls

\* What the lists of a connection and a call are.
LEMMA EndLists ==
    ASSUME WireTypeOK
    PROVE  /\ \A c \in Conn : /\ conns[c].up \in Seq(Line) /\ conns[c].down \in Seq(Answer)
                              /\ conns[c].open \in BOOLEAN
                              /\ Len(conns[c].up) \in Nat /\ Len(conns[c].down) \in Nat
                              /\ DOMAIN conns[c].up = 1..Len(conns[c].up)
                              /\ DOMAIN conns[c].down = 1..Len(conns[c].down)
           /\ call.ops \in Seq(LineOp) /\ call.got \in Seq(Answer) /\ call.earlier \in Seq(Answer)
           /\ call.later \in Seq(Seq(LineOp)) /\ call.sent \in Nat
           /\ Len(call.ops) \in Nat /\ DOMAIN call.ops = 1..Len(call.ops)
           /\ Len(call.got) \in Nat /\ DOMAIN call.got = 1..Len(call.got)
           /\ session \in 0..MaxConns /\ opened \in 0..MaxConns
<1>1. call \in Calls /\ conns \in [Conn -> Ends]
  BY DEF WireTypeOK
<1>2. ASSUME NEW c \in Conn
      PROVE  conns[c].up \in Seq(Line) /\ conns[c].down \in Seq(Answer) /\ conns[c].open \in BOOLEAN
  BY <1>1 DEF Ends
<1>3. /\ call.ops \in Seq(LineOp) /\ call.got \in Seq(Answer) /\ call.earlier \in Seq(Answer)
      /\ call.later \in Seq(Seq(LineOp)) /\ call.sent \in Nat
  BY <1>1 DEF Calls
<1>4. session \in 0..MaxConns /\ opened \in 0..MaxConns
  BY ClientAssumption DEF WireTypeOK
<1> QED
  BY <1>2, <1>3, <1>4, LenProperties

\* The wire invariant while a connection is opened.
LEMMA ConnectKept == ASSUME WireInv, Connect, UNCHANGED plan PROVE WireInv'
<1>0. WireTypeOK /\ ConnsInv /\ ExchangeInv /\ HeardInv
  BY DEF WireInv
<1>1. PICK s \in Conn : /\ s = opened + 1 /\ session' = s /\ opened' = s
                        /\ conns' \in [Conn -> Ends]
                        /\ \A c \in Conn : c # s => conns'[c] = conns[c]
                        /\ conns'[s].open /\ conns'[s].up = conns[s].up
                        /\ conns'[s].down = conns[s].down
  BY <1>0, ConnectDoes
<1>2. Busy /\ session = 0 /\ opened < MaxConns /\ UNCHANGED <<call, calls, log>>
  BY DEF Connect
<1>3. conns[s].up = <<>> /\ conns[s].down = <<>> /\ Busy'
  BY <1>0, <1>1, <1>2, EndLists DEF ConnsInv, Busy
<1>4. WireTypeOK'
  BY <1>0, <1>1, <1>2, SameTypes, ClientAssumption DEF WireTypeOK, Conn
<1>5. ConnsInv'
  <2>1. \A c \in Conn : c > opened' => c # s /\ c > opened
    BY <1>0, <1>1, EndLists DEF Conn
  <2> QED
    BY <1>0, <1>1, <1>2, <1>3, <2>1 DEF ConnsInv, Conn
<1>6. ExchangeInv'
  <2>1. Asked(call, calls) /\ call.sent = 0 /\ session' # 0
    BY <1>0, <1>1, <1>2 DEF ExchangeInv, Conn
  <2>2. OnWire(call, calls, conns'[s])
    <3>1. Len(call.got) = 0 /\ Len(<<>>) = 0
      BY <1>0, <2>1, EndLists, EmptySeq DEF Asked
    <3> QED
      BY <1>1, <1>3, <2>1, <3>1 DEF OnWire, Answers
  <2> QED
    BY <1>1, <1>2, <2>1, <2>2 DEF ExchangeInv
<1>7. HeardInv'
  <2>1. \A c \in Conn : conns'[c].down = conns[c].down
    BY <1>1
  <2> QED
    BY <1>0, <1>2, <2>1 DEF HeardInv, Heard
<1> QED
  BY <1>4, <1>5, <1>6, <1>7 DEF WireInv

\* A call that waited in vain for a connection.
LEMMA DeadlineKept == ASSUME WireInv, DeadlinePasses, UNCHANGED plan PROVE WireInv'
<1>0. WireTypeOK /\ ConnsInv /\ ExchangeInv /\ HeardInv /\ call \in Calls
  BY DEF WireInv, WireTypeOK
<1>1. session = 0 /\ UNCHANGED <<session, opened, conns, calls, log>>
  BY DEF DeadlinePasses, netVars
<1>2. /\ call' \in Calls /\ call'.state = "error"
      /\ call'.got = call.got /\ call'.earlier = call.earlier
  <2>1. call' = [call EXCEPT !.state = "error"]
    BY DEF DeadlinePasses
  <2> QED
    BY <1>0, <2>1 DEF Calls
<1>3. WireTypeOK'
  BY <1>0, <1>1, <1>2, SameTypes DEF WireTypeOK
<1>4. ConnsInv'
  BY <1>0, <1>1 DEF ConnsInv
<1>5. ExchangeInv'
  BY <1>2 DEF ExchangeInv, Busy
<1>6. HeardInv'
  BY <1>0, <1>1, <1>2 DEF HeardInv, Heard
<1> QED
  BY <1>3, <1>4, <1>5, <1>6 DEF WireInv

\* A line written goes behind those on the wire, or nowhere.
LEMMA WrittenOnWire ==
    ASSUME NEW c \in Calls, NEW c2 \in Calls, NEW e \in Ends, NEW e2 \in Ends,
           NEW id, NEW line \in Line, OnWire(c, id, e),
           c2.sent = c.sent + 1, c2.ops = c.ops, c2.got = c.got,
           line.call = id, line.op = c.ops[c.sent + 1],
           e2.open = e.open, e2.down = e.down,
           e2.up = IF e.open THEN Append(e.up, line) ELSE e.up
    PROVE  OnWire(c2, id, e2)
<1>1. e.up \in Seq(Line) /\ e.down \in Seq(Answer) /\ c.got \in Seq(Answer) /\ c.sent \in Nat
  BY DEF Calls, Ends
<1>2. PICK g \in Nat, d \in Nat, u \in Nat, n \in Nat :
         g = Len(c.got) /\ d = Len(e.down) /\ u = Len(e.up) /\ n = c.sent
  BY <1>1, LenProperties
<1>3. /\ g + d + u <= n /\ (e.open => g + d + u = n)
      /\ Answers(e.down, g, c.ops, id) /\ Answers(e.up, g + d, c.ops, id)
  BY <1>2 DEF OnWire
<1>4. CASE ~e.open
  <2>1. g + d + u <= n + 1
    BY <1>3
  <2> QED
    BY <1>2, <1>3, <1>4, <2>1 DEF OnWire
<1>5. CASE e.open
  <2>1. g + d \in Nat /\ g + d + u = n /\ g + d + u + 1 = n + 1 /\ g + d + (u + 1) = n + 1
    BY <1>3, <1>5
  <2>2. line.op = c.ops[g + d + Len(e.up) + 1]
    BY <1>2, <2>1
  <2>3. Answers(Append(e.up, line), g + d, c.ops, id) /\ Len(Append(e.up, line)) = u + 1
    <3>1. PICK from \in Nat : from = g + d
      BY <2>1
    <3>2. /\ line.op = c.ops[from + Len(e.up) + 1] /\ Answers(e.up, from, c.ops, id)
      BY <1>3, <2>2, <3>1
    <3>3. Answers(Append(e.up, line), from, c.ops, id)
      BY <1>1, <3>2, AnswersAppend, Zenon
    <3>4. Len(Append(e.up, line)) = Len(e.up) + 1
      BY <1>1, Added
    <3> QED
      BY <1>2, <3>1, <3>3, <3>4
  <2>4. /\ g + d + (u + 1) <= n + 1
    BY <2>1
  <2> QED
    BY <1>2, <1>3, <1>5, <2>1, <2>3, <2>4 DEF OnWire
<1> QED
  BY <1>4, <1>5

\* The wire invariant while a line is written: it is the next of the call behind all before it.
LEMMA WriteKept == ASSUME WireInv, WriteLine, UNCHANGED plan PROVE WireInv'
<1>0. WireTypeOK /\ ConnsInv /\ ExchangeInv /\ HeardInv
  BY DEF WireInv
<1>1. /\ session \in Conn /\ call.sent < Len(call.ops)
      /\ call' \in Calls /\ call'.sent = call.sent + 1
      /\ call'.state = call.state /\ call'.ops = call.ops /\ call'.got = call.got
      /\ call'.earlier = call.earlier
  BY <1>0, WriteDoes
<1>2. PICK line \in Line :
        /\ line.call = calls /\ line.op = call.ops[call.sent + 1]
        /\ conns' \in [Conn -> Ends]
        /\ \A c \in Conn : c # session => conns'[c] = conns[c]
        /\ conns'[session].open = conns[session].open
        /\ conns'[session].down = conns[session].down
        /\ conns'[session].up = IF conns[session].open THEN Append(conns[session].up, line)
                                ELSE conns[session].up
  BY <1>0, WriteDoes
<1>3. UNCHANGED <<session, opened, calls, log>> /\ Busy /\ Busy'
  BY <1>1 DEF WriteLine, Busy
<1>4. WireTypeOK'
  BY <1>0, <1>1, <1>2, <1>3, SameTypes DEF WireTypeOK
<1>5. ConnsInv'
  BY <1>0, <1>1, <1>2, <1>3 DEF ConnsInv
<1>6. ExchangeInv'
  <2>1. Asked(call, calls) /\ OnWire(call, calls, conns[session]) /\ session # 0
    BY <1>0, <1>1, <1>3 DEF ExchangeInv, Conn
  <2>2. /\ Len(call.got) \in Nat /\ Len(conns[session].down) \in Nat
        /\ Len(conns[session].up) \in Nat /\ call.sent \in Nat /\ Len(call.ops) \in Nat
        /\ conns[session].up \in Seq(Line)
    BY <1>0, <1>1, EndLists
  <2>3. Asked(call', calls)
    BY <1>1, <2>1, <2>2 DEF Asked
  <2>4. OnWire(call', calls, conns'[session])
    <3>1. conns[session] \in Ends /\ conns'[session] \in Ends /\ call \in Calls /\ call' \in Calls
      BY <1>0, <1>1, <1>2 DEF WireTypeOK
    <3> QED
      BY <1>1, <1>2, <2>1, <3>1, WrittenOnWire, Zenon
  <2> QED
    BY <1>3, <2>1, <2>3, <2>4 DEF ExchangeInv
<1>7. HeardInv'
  <2>1. \A c \in Conn : conns'[c].down = conns[c].down
    BY <1>2
  <2> QED
    BY <1>0, <1>1, <1>3, <2>1 DEF HeardInv, Heard
<1> QED
  BY <1>4, <1>5, <1>6, <1>7 DEF WireInv

\* The wire invariant while an error ends the session: the call has none of its lines out.
LEMMA DropKept ==
    ASSUME WireInv, UNCHANGED plan, WriteFails \/ ReadEof \/ ReadTimeout \/
                       (ReadAnswer /\ ~Head(conns[session].down).readable)
    PROVE  WireInv'
<1>0. WireTypeOK /\ ConnsInv /\ ExchangeInv /\ HeardInv
  BY DEF WireInv
<1>1. /\ session' = 0 /\ session # 0 /\ Busy /\ conns' = Left(conns)
      /\ call' \in Calls /\ (call'.state = "error" \/ Resets)
      /\ UNCHANGED <<opened, calls, log>>
  BY <1>0, DropDoes
<1>2. /\ session \in Conn
      /\ conns' \in [Conn -> Ends]
      /\ \A c \in Conn : c # session => conns'[c] = conns[c]
      /\ conns'[session].open = (conns[session].open /\ conns[session].up # <<>>)
      /\ conns'[session].up = conns[session].up
      /\ conns'[session].down = <<>>
  BY <1>0, <1>1, LeftDoes
<1>4. WireTypeOK'
  <2>1. session' \in 0..opened'
    BY <1>0, <1>1, EndLists
  <2> QED
    BY <1>0, <1>1, <1>2, <2>1, SameTypes DEF WireTypeOK
<1>5. ConnsInv'
  BY <1>0, <1>1, <1>2 DEF ConnsInv, Conn
<1>6. ExchangeInv'
  <2>1. CASE call'.state = "error"
    BY <2>1 DEF ExchangeInv, Busy
  <2>2. CASE Resets
    <3>1. call'.sent = 0 /\ call'.got = <<>> /\ call'.ops = call.ops /\ Len(<<>>) = 0
      BY <2>2, EmptySeq DEF Resets
    <3>2. 0 <= Len(call.ops)
      BY <1>0, EndLists
    <3>3. Asked(call', calls')
      BY <3>1, <3>2 DEF Asked, Answers
    <3> QED
      BY <1>1, <3>1, <3>3 DEF ExchangeInv
  <2> QED
    BY <1>1, <2>1, <2>2
<1>7. HeardInv'
  <2>1. \A c \in Conn : ToSet(conns'[c].down) \subseteq ToSet(conns[c].down)
    <3>1. ToSet(<<>>) = {}
      BY DEF ToSet
    <3> QED
      BY <1>2, <3>1
  <2>2. ToSet(call'.got) \subseteq ToSet(call.got) /\ call'.earlier = call.earlier
    <3>1. \/ call' = [call EXCEPT !.state = "error"]
          \/ call' = [call EXCEPT !.sent = 0, !.got = <<>>]
      BY DEF WriteFails, ReadEof, ReadTimeout, ReadAnswer, Reading, Dropped
    <3>2. ToSet(<<>>) = {} /\ call \in Calls
      BY <1>0 DEF ToSet, WireTypeOK
    <3> QED
      BY <3>1, <3>2 DEF Calls
  <2> QED
    BY <1>0, <1>1, <2>1, <2>2 DEF HeardInv, Heard
<1> QED
  BY <1>4, <1>5, <1>6, <1>7 DEF WireInv

\* An answer read moves from the connection to the call.
LEMMA ReadOnWire ==
    ASSUME NEW c \in Calls, NEW c2 \in Calls, NEW e \in Ends, NEW e2 \in Ends, NEW id,
           OnWire(c, id, e), Answers(c.got, 0, c.ops, id), e.down # <<>>,
           c2.got = Append(c.got, Head(e.down)), c2.ops = c.ops, c2.sent = c.sent,
           e2.open = e.open, e2.up = e.up, e2.down = Tail(e.down)
    PROVE  /\ OnWire(c2, id, e2) /\ Answers(c2.got, 0, c.ops, id)
           /\ Len(c2.got) = Len(c.got) + 1
<1>1. /\ e.up \in Seq(Line) /\ e.down \in Seq(Answer) /\ c.got \in Seq(Answer)
      /\ c.sent \in Nat
  BY DEF Calls, Ends
<1>2. PICK g \in Nat, d \in Nat, u \in Nat :
         g = Len(c.got) /\ d + 1 = Len(e.down) /\ u = Len(e.up) /\ d = Len(Tail(e.down))
  <2>1. /\ Len(e.down) \in Nat \ {0} /\ Len(e.down) - 1 \in Nat
        /\ Len(e.down) - 1 + 1 = Len(e.down) /\ Len(Tail(e.down)) = Len(e.down) - 1
    BY <1>1, HeadTail
  <2> QED
    BY <1>1, <2>1, LenProperties
<1>3. Head(e.down) \in Answer /\ Tail(e.down) \in Seq(Answer)
  BY <1>1, HeadTail
<1>4. /\ g + (d + 1) + u <= c.sent /\ (e.open => g + (d + 1) + u = c.sent)
      /\ Answers(e.down, g, c.ops, id) /\ Answers(e.up, g + (d + 1), c.ops, id)
  BY <1>2 DEF OnWire
<1>5. /\ Head(e.down).call = id /\ Head(e.down).op = c.ops[g + 1]
      /\ Answers(Tail(e.down), g + 1, c.ops, id)
  BY <1>1, <1>4, AnswersTail, Zenon
<1>6. Answers(Append(c.got, Head(e.down)), 0, c.ops, id)
  <2>1. Head(e.down).op = c.ops[0 + Len(c.got) + 1]
    BY <1>2, <1>5
  <2> QED
    BY <1>1, <1>3, <1>5, <2>1, AnswersAppend
<1>7. Len(Append(c.got, Head(e.down))) = g + 1
  BY <1>1, <1>2, <1>3, Added
<1>8. g + 1 + d = g + (d + 1)
  OBVIOUS
<1> QED
  BY <1>2, <1>4, <1>5, <1>6, <1>7, <1>8 DEF OnWire

\* A line performed: its answer goes behind those on their way.
LEMMA PerformedOnWire ==
    ASSUME NEW c \in Calls, NEW e \in Ends, NEW e2 \in Ends, NEW id, NEW answer \in Answer,
           OnWire(c, id, e), e.open, e.up # <<>>,
           answer.call = Head(e.up).call, answer.op = Head(e.up).op,
           e2.down = Append(e.down, answer),
           (e2.open /\ e2.up = Tail(e.up)) \/ (~e2.open /\ e2.up = <<>>)
    PROVE  OnWire(c, id, e2)
<1>1. /\ e.up \in Seq(Line) /\ e.down \in Seq(Answer) /\ c.got \in Seq(Answer)
      /\ c.sent \in Nat
  BY DEF Calls, Ends
<1>2. PICK g \in Nat, d \in Nat, u \in Nat :
         g = Len(c.got) /\ d = Len(e.down) /\ u + 1 = Len(e.up) /\ u = Len(Tail(e.up))
  <2>1. /\ Len(e.up) \in Nat \ {0} /\ Len(e.up) - 1 \in Nat
        /\ Len(e.up) - 1 + 1 = Len(e.up) /\ Len(Tail(e.up)) = Len(e.up) - 1
    BY <1>1, HeadTail
  <2> QED
    BY <1>1, <2>1, LenProperties
<1>3. /\ g + d + (u + 1) = c.sent
      /\ Answers(e.down, g, c.ops, id) /\ Answers(e.up, g + d, c.ops, id)
  BY <1>2 DEF OnWire
<1>4. PICK from \in Nat : from = g + d
  OBVIOUS
<1>5. /\ answer.call = id /\ answer.op = c.ops[from + 1]
      /\ Answers(Tail(e.up), from + 1, c.ops, id)
  <2>1. Answers(e.up, from, c.ops, id)
    BY <1>3, <1>4
  <2>2. /\ Head(e.up).call = id /\ Head(e.up).op = c.ops[from + 1]
        /\ Answers(Tail(e.up), from + 1, c.ops, id)
    BY <1>1, <2>1, AnswersTail, Zenon
  <2> QED
    BY <2>2
<1>6. Answers(Append(e.down, answer), g, c.ops, id)
  <2>1. answer.op = c.ops[g + Len(e.down) + 1]
    BY <1>2, <1>4, <1>5
  <2> QED
    BY <1>1, <1>3, <1>5, <2>1, AnswersAppend, Zenon
<1>7. Len(Append(e.down, answer)) = d + 1 /\ Len(<<>>) = 0
  BY <1>1, <1>2, Added, EmptySeq
<1>8. g + (d + 1) = from + 1 /\ g + (d + 1) + u = c.sent /\ g + (d + 1) <= c.sent
  BY <1>3, <1>4
<1>9. CASE e2.open /\ e2.up = Tail(e.up)
  BY <1>1, <1>2, <1>5, <1>6, <1>7, <1>8, <1>9 DEF OnWire
<1>10. CASE ~e2.open /\ e2.up = <<>>
  <2>1. Answers(<<>>, g + (d + 1), c.ops, id) /\ g + (d + 1) + 0 <= c.sent
    BY <1>7, <1>8 DEF Answers
  <2> QED
    BY <1>1, <1>2, <1>6, <1>7, <1>10, <2>1 DEF OnWire
<1> QED
  BY <1>9, <1>10

\* A connection the host closes.
LEMMA CutOnWire ==
    ASSUME NEW c \in Calls, NEW e \in Ends, NEW e2 \in Ends, NEW id, OnWire(c, id, e),
           Len(c.got) <= c.sent,
           ~e2.open, e2.up = <<>>, e2.down \in {e.down, <<>>}
    PROVE  OnWire(c, id, e2)
<1>1. PICK g \in Nat, d \in Nat, u \in Nat, n \in Nat :
         g = Len(c.got) /\ d = Len(e.down) /\ u = Len(e.up) /\ n = c.sent
  BY LenProperties DEF Calls, Ends
<1>2. g + d + u <= n /\ g <= n /\ Answers(e.down, g, c.ops, id) /\ Len(<<>>) = 0
  BY <1>1, EmptySeq DEF OnWire
<1>3. /\ g + d + 0 <= n /\ g + 0 + 0 <= n
      /\ \A from : Answers(<<>>, from, c.ops, id)
  BY <1>2 DEF Answers
<1> QED
  BY <1>1, <1>2, <1>3 DEF OnWire

\* Once all answers of a chunk are read nothing is on the wire.
LEMMA AllRead ==
    ASSUME NEW c \in Calls, NEW e \in Ends, NEW id, OnWire(c, id, e), Asked(c, id),
           Len(c.got) = Len(c.ops)
    PROVE  e.up = <<>> /\ e.down = <<>>
<1>1. e.up \in Seq(Line) /\ e.down \in Seq(Answer)
  BY DEF Ends
<1>2. PICK g \in Nat, d \in Nat, u \in Nat, n \in Nat :
         g = Len(c.got) /\ d = Len(e.down) /\ u = Len(e.up) /\ n = c.sent
  BY LenProperties DEF Calls, Ends
<1>3. g + d + u <= n /\ n <= g
  BY <1>2 DEF OnWire, Asked
<1>4. d = 0 /\ u = 0
  BY <1>3
<1> QED
  BY <1>1, <1>2, <1>4, EmptySeq

\* A fresh call on a connection with nothing on it.
LEMMA FreshOnWire ==
    ASSUME NEW c \in Calls, NEW e \in Ends, NEW id, c.sent = 0, c.got = <<>>,
           e.up = <<>>, e.down = <<>>
    PROVE  OnWire(c, id, e) /\ Asked(c, id)
<1>1. Len(<<>>) = 0 /\ Len(c.ops) \in Nat
  BY EmptySeq, LenProperties DEF Calls
<1>2. 0 + 0 + 0 <= 0 /\ 0 + 0 + 0 = 0 /\ 0 + 0 = 0 /\ 0 <= Len(c.ops)
  BY <1>1
<1>3. \A from : Answers(<<>>, from, c.ops, id)
  BY <1>1 DEF Answers
<1> QED
  BY <1>1, <1>2, <1>3 DEF OnWire, Asked


\* What the client has heard, list by list.
LEMMA HeardIff ==
    HeardInv <=> /\ ToSet(call.got) \subseteq ToSet(log)
                 /\ ToSet(call.earlier) \subseteq ToSet(log)
                 /\ \A c \in Conn : ToSet(conns[c].down) \subseteq ToSet(log)
BY Zenon DEF HeardInv, Heard

\* The wire invariant while an answer is read: it is the answer to the next line.
LEMMA ReadKept ==
    ASSUME WireInv, UNCHANGED plan, ReadAnswer, Head(conns[session].down).readable
    PROVE  WireInv'
<1>0. WireTypeOK /\ ConnsInv /\ ExchangeInv /\ HeardInv
  BY DEF WireInv
<1>1. /\ session \in Conn /\ Busy /\ UNCHANGED <<session, opened, calls, log>>
      /\ call.sent = Len(call.ops) /\ Len(call.got) < Len(call.ops)
      /\ conns[session].down # <<>>
      /\ call' \in Calls
      /\ call'.got = Append(call.got, Head(conns[session].down))
      /\ call'.state = call.state /\ call'.ops = call.ops /\ call'.sent = call.sent
      /\ call'.earlier = call.earlier
  BY <1>0, ReadDoes
<1>2. /\ conns' \in [Conn -> Ends]
      /\ \A c \in Conn : c # session => conns'[c] = conns[c]
      /\ conns'[session].open = conns[session].open
      /\ conns'[session].up = conns[session].up
      /\ conns'[session].down = Tail(conns[session].down)
  BY <1>0, ReadDoes
<1>3. call \in Calls /\ conns[session] \in Ends /\ conns'[session] \in Ends /\ Busy'
  BY <1>0, <1>1, <1>2 DEF WireTypeOK, Busy
<1>4. WireTypeOK'
  BY <1>0, <1>1, <1>2, SameTypes DEF WireTypeOK
<1>5. ConnsInv'
  BY <1>0, <1>1, <1>2, <1>3 DEF ConnsInv
<1>6. ExchangeInv'
  <2>1. Asked(call, calls) /\ OnWire(call, calls, conns[session]) /\ session # 0
    BY <1>0, <1>1 DEF ExchangeInv, Conn
  <2>2. Answers(call.got, 0, call.ops, calls)
    BY <2>1 DEF Asked
  <2>3. /\ OnWire(call', calls, conns'[session]) /\ Answers(call'.got, 0, call.ops, calls)
        /\ Len(call'.got) = Len(call.got) + 1
    BY <1>1, <1>2, <1>3, <2>1, <2>2, ReadOnWire, Zenon
  <2>4. Asked(call', calls)
    <3>1. PICK g \in Nat, n \in Nat : g = Len(call.got) /\ n = Len(call.ops)
      BY <1>0, EndLists
    <3>2. g + 1 <= n /\ n <= n
      BY <1>1, <3>1
    <3> QED
      BY <1>1, <2>3, <3>1, <3>2 DEF Asked
  <2> QED
    BY <1>1, <1>3, <2>1, <2>3, <2>4 DEF ExchangeInv
<1>7. HeardInv'
  <2>1. conns[session].down \in Seq(Answer) /\ call.got \in Seq(Answer)
    BY <1>0, <1>1, EndLists
  <2>2. PICK h \in Answer : h = Head(conns[session].down)
    BY <1>1, <2>1, HeadTail
  <2>3. h \in ToSet(conns[session].down)
    BY <1>1, <2>1, <2>2, HeadTail DEF ToSet
  <2>4. ToSet(call'.got) = ToSet(call.got) \cup {h}
    BY <1>1, <2>1, <2>2, Added
  <2>5. \A c \in Conn : ToSet(conns'[c].down) \subseteq ToSet(conns[c].down)
    <3>1. ToSet(Tail(conns[session].down)) \subseteq ToSet(conns[session].down)
      BY <1>1, <2>1, HeadTail DEF ToSet
    <3> QED
      BY <1>2, <3>1
  <2>6. h \in ToSet(log) /\ ToSet(call'.got) \subseteq ToSet(log)
    BY <1>0, <1>1, <2>3, <2>4, HeardIff
  <2>7. /\ ToSet(call'.got) \subseteq ToSet(log') /\ ToSet(call'.earlier) \subseteq ToSet(log')
        /\ \A c \in Conn : ToSet(conns'[c].down) \subseteq ToSet(log')
    BY <1>0, <1>1, <2>5, <2>6, HeardIff
  <2> QED
    BY <2>7, Zenon DEF HeardInv, Heard
<1> QED
  BY <1>4, <1>5, <1>6, <1>7 DEF WireInv

\* The wire invariant while the host closes, dies or comes back.
LEMMA CutKept == ASSUME WireInv, HostCuts, UNCHANGED plan PROVE WireInv'
<1>0. WireTypeOK /\ ConnsInv /\ ExchangeInv /\ HeardInv
  BY DEF WireInv
<1>1. /\ UNCHANGED <<session, opened, call, calls, log>> /\ conns' \in [Conn -> Ends]
      /\ \A d \in Conn : \/ conns'[d] = conns[d]
                         \/ /\ ~conns'[d].open /\ conns'[d].up = <<>>
                            /\ conns'[d].down \in {conns[d].down, <<>>}
  BY DEF HostCuts
<1>2. call \in Calls /\ conns \in [Conn -> Ends]
  BY <1>0 DEF WireTypeOK
<1>4. WireTypeOK'
  BY <1>0, <1>1, SameTypes DEF WireTypeOK
<1>5. ConnsInv'
  <2>1. session # 0 => session \in Conn
    BY <1>0, InUse
  <2> QED
    BY <1>0, <1>1, <2>1 DEF ConnsInv, Busy
<1>6. ExchangeInv'
  <2> SUFFICES ASSUME Busy, session # 0
               PROVE  OnWire(call, calls, conns'[session])
    BY <1>0, <1>1 DEF ExchangeInv, Busy
  <2>1. session \in Conn
    BY <1>0, InUse
  <2>2. OnWire(call, calls, conns[session]) /\ Len(call.got) <= call.sent
    BY <1>0 DEF ExchangeInv, Asked
  <2>3. CASE conns'[session] = conns[session]
    BY <2>2, <2>3
  <2>4. CASE /\ ~conns'[session].open /\ conns'[session].up = <<>>
             /\ conns'[session].down \in {conns[session].down, <<>>}
    BY <1>1, <1>2, <2>1, <2>2, <2>4, CutOnWire
  <2> QED
    BY <1>1, <2>1, <2>3, <2>4
<1>7. HeardInv'
  <2>1. \A c \in Conn : ToSet(conns'[c].down) \subseteq ToSet(conns[c].down)
    <3>1. ToSet(<<>>) = {}
      BY DEF ToSet
    <3> QED
      BY <1>1, <3>1
  <2> QED
    BY <1>0, <1>1, <2>1 DEF HeardInv, Heard
<1> QED
  BY <1>4, <1>5, <1>6, <1>7 DEF WireInv

\* The wire invariant while the host performs a line.
LEMMA PerformKept ==
    ASSUME WireInv, NEW c \in Conn, NEW answer \in Answer, HostPerforms(c, answer),
           UNCHANGED plan
    PROVE  WireInv'
<1>0. WireTypeOK /\ ConnsInv /\ ExchangeInv /\ HeardInv
  BY DEF WireInv
<1>1. /\ UNCHANGED <<session, opened, call, calls>>
      /\ conns[c].open /\ conns[c].up # <<>>
      /\ answer.call = Head(conns[c].up).call /\ answer.op = Head(conns[c].up).op
      /\ log' = Append(log, answer)
      /\ conns' \in [Conn -> Ends]
  BY DEF HostPerforms
<1>2. \A d \in Conn : conns'[d].down = IF d = c /\ d = session
                                       THEN Append(conns[d].down, answer) ELSE conns[d].down
  BY DEF HostPerforms
<1>3. \A d \in Conn :
         \/ ~conns'[d].open /\ conns'[d].up = <<>>
         \/ d # c /\ conns'[d].open = conns[d].open /\ conns'[d].up = conns[d].up
         \/ /\ d = c /\ conns'[d].up = Tail(conns[d].up)
            /\ conns'[d].open \/ (d # session /\ Tail(conns[d].up) = <<>>)
  BY DEF HostPerforms
<1>4. call \in Calls /\ conns \in [Conn -> Ends] /\ log \in Seq(Answer)
  BY <1>0 DEF WireTypeOK
<1>5. log' \in Seq(Answer) /\ ToSet(log') = ToSet(log) \cup {answer}
  BY <1>1, <1>4, Added
<1>6. WireTypeOK'
  BY <1>0, <1>1, <1>5, SameTypes DEF WireTypeOK
<1>7. ConnsInv'
  <2>1. session # 0 => session \in Conn
    BY <1>0, InUse
  <2>2. Busy \/ c # session
    BY <1>0, <1>1 DEF ConnsInv, Conn
  <2>3. \A d \in Conn : (d > opened => ~conns'[d].open) /\ (~conns'[d].open => conns'[d].up = <<>>)
                        /\ (d # session => conns'[d].down = <<>>)
    BY <1>0, <1>1, <1>2, <1>3 DEF ConnsInv
  <2>4. session # 0 /\ ~Busy => conns'[session].up = <<>> /\ conns'[session].down = <<>>
    BY <1>0, <1>2, <1>3, <2>1, <2>2 DEF ConnsInv
  <2> QED
    BY <1>1, <2>3, <2>4 DEF ConnsInv, Busy
<1>8. ExchangeInv'
  <2> SUFFICES ASSUME Busy, session # 0
               PROVE  OnWire(call, calls, conns'[session])
    BY <1>0, <1>1 DEF ExchangeInv, Busy
  <2>1. session \in Conn /\ conns[session] \in Ends /\ conns'[session] \in Ends
    BY <1>0, <1>1, InUse
  <2>2. OnWire(call, calls, conns[session]) /\ Len(call.got) <= call.sent
    BY <1>0 DEF ExchangeInv, Asked
  <2>3. CASE session = c
    <3>1. conns'[session].down = Append(conns[session].down, answer)
      BY <1>2, <2>1, <2>3
    <3>2. \/ conns'[session].open /\ conns'[session].up = Tail(conns[session].up)
          \/ ~conns'[session].open /\ conns'[session].up = <<>>
      BY <1>3, <2>1, <2>3
    <3>3. /\ conns[session].open /\ conns[session].up # <<>>
          /\ answer.call = Head(conns[session].up).call
          /\ answer.op = Head(conns[session].up).op
      BY <1>1, <2>3
    <3> QED
      BY <1>4, <2>1, <2>2, <3>1, <3>2, <3>3, PerformedOnWire
  <2>4. CASE session # c
    <3>1. conns'[session].down = conns[session].down
      BY <1>2, <2>1, <2>4
    <3>2. CASE ~conns'[session].open /\ conns'[session].up = <<>>
      BY <1>4, <2>1, <2>2, <3>1, <3>2, CutOnWire
    <3>3. CASE /\ conns'[session].open = conns[session].open
               /\ conns'[session].up = conns[session].up
      BY <2>2, <3>1, <3>3 DEF OnWire
    <3> QED
      BY <1>3, <2>1, <2>4, <3>2, <3>3
  <2> QED
    BY <2>3, <2>4
<1>9. HeardInv'
  <2>1. \A d \in Conn : ToSet(conns'[d].down) \subseteq ToSet(conns[d].down) \cup {answer}
    <3>1. \A d \in Conn : ToSet(Append(conns[d].down, answer)) = ToSet(conns[d].down) \cup {answer}
      BY <1>0, EndLists, Added
    <3> QED
      BY <1>2, <3>1
  <2>2. /\ ToSet(call'.got) \subseteq ToSet(log') /\ ToSet(call'.earlier) \subseteq ToSet(log')
        /\ \A d \in Conn : ToSet(conns'[d].down) \subseteq ToSet(log')
    BY <1>0, <1>1, <1>5, <2>1, HeardIff
  <2> QED
    BY <2>2, Zenon DEF HeardInv, Heard
<1> QED
  BY <1>6, <1>7, <1>8, <1>9 DEF WireInv

\* The wire invariant while a chunk ends: the next one is written on a wire with nothing on it.
LEMMA ChunkKept == ASSUME WireInv, ChunkDone, UNCHANGED plan PROVE WireInv'
<1>0. WireTypeOK /\ ConnsInv /\ ExchangeInv /\ HeardInv
  BY DEF WireInv
<1>1. /\ Busy /\ Len(call.got) = Len(call.ops) /\ call' \in Calls
      /\ UNCHANGED <<session, opened, conns, calls, log>>
      /\ \/ /\ call'.state = "ok" /\ call'.earlier = <<>>
            /\ call'.got = call.earlier \o call.got
         \/ /\ call'.state = "wire" /\ call'.sent = 0
            /\ call'.got = <<>> /\ call'.earlier = call.earlier \o call.got
  BY <1>0, ChunkDoneDoes
<1>2. session # 0 => conns[session].up = <<>> /\ conns[session].down = <<>>
                     /\ conns[session] \in Ends
  <2> SUFFICES ASSUME session # 0
               PROVE  /\ conns[session].up = <<>> /\ conns[session].down = <<>>
                      /\ conns[session] \in Ends
    OBVIOUS
  <2>1. call \in Calls /\ conns[session] \in Ends
    BY <1>0, InUse DEF WireTypeOK
  <2>2. OnWire(call, calls, conns[session]) /\ Asked(call, calls)
    BY <1>0, <1>1 DEF ExchangeInv
  <2> QED
    BY <1>1, <2>1, <2>2, AllRead
<1>4. WireTypeOK'
  BY <1>0, <1>1, SameTypes DEF WireTypeOK
<1>5. ConnsInv'
  BY <1>0, <1>1, <1>2 DEF ConnsInv
<1>6. ExchangeInv'
  <2>1. CASE call'.state = "ok"
    BY <2>1 DEF ExchangeInv, Busy
  <2>2. CASE call'.sent = 0 /\ call'.got = <<>>
    <3>1. session # 0 => OnWire(call', calls, conns[session])
      BY <1>1, <1>2, <2>2, FreshOnWire
    <3>2. Asked(call', calls)
      <4>1. Len(<<>>) = 0 /\ Len(call'.ops) \in Nat
        BY <1>1, EmptySeq, LenProperties DEF Calls
      <4> QED
        BY <2>2, <4>1 DEF Asked, Answers
    <3> QED
      BY <1>1, <2>2, <3>1, <3>2 DEF ExchangeInv
  <2> QED
    BY <1>1, <2>1, <2>2
<1>7. HeardInv'
  <2>1. ToSet(<<>>) = {}
    BY DEF ToSet
  <2>2. ToSet(call.earlier \o call.got) = ToSet(call.earlier) \cup ToSet(call.got)
    BY <1>0, EndLists, ConcatSet
  <2> QED
    BY <1>0, <1>1, <2>1, <2>2 DEF HeardInv, Heard
<1> QED
  BY <1>4, <1>5, <1>6, <1>7 DEF WireInv


-----------------------------------------------------------------------------
(* A call's ops in chunks                                                  *)

\* How many pieces of length d a list of n needs.
LEMMA Pieces ==
    ASSUME NEW n \in Nat \ {0}, NEW d \in Nat \ {0}, NEW p, p = (n + d - 1) \div d
    PROVE  p \in Nat \ {0} /\ (p - 1) * d < n /\ n <= p * d
OBVIOUS

\* Where one chunk ends the next begins.
LEMMA NextChunk ==
    ASSUME NEW n \in Nat
    PROVE  Before(n) + MailboxDepth = n * MailboxDepth /\ Before(n + 1) = n * MailboxDepth
           /\ n * MailboxDepth \in Nat /\ MailboxDepth \in Nat \ {0, 1} /\ Before(1) = 0
BY ClientAssumption DEF Before

\* More chunks have more ops.
LEMMA Monotone ==
    ASSUME NEW a \in Nat, NEW b \in Nat, a <= b
    PROVE  a * MailboxDepth <= b * MailboxDepth
<1>1. PICK c \in Nat : b = a + c
  <2>1. b - a \in Nat /\ b = a + (b - a)
    OBVIOUS
  <2> QED
    BY <2>1
<1>2. b * MailboxDepth = a * MailboxDepth + c * MailboxDepth /\ c * MailboxDepth \in Nat
      /\ a * MailboxDepth \in Nat
  BY <1>1, ClientAssumption
<1> QED
  BY <1>2

\* p chunks of a list: each is full but the last, and they are the list in order.
ChunksOf(S, ops, chunks, p) ==
    /\ chunks \in Seq(Seq(S)) /\ Len(chunks) = p /\ DOMAIN chunks = 1..p
    /\ \A n \in 1..p :
         /\ chunks[n] # <<>>
         /\ Before(n) \in Nat /\ Before(n) + Len(chunks[n]) <= Len(ops)
         /\ n < p => Len(chunks[n]) = MailboxDepth
         /\ n = p => Before(n) + Len(chunks[n]) = Len(ops)
         /\ \A k \in 1..Len(chunks[n]) : chunks[n][k] = ops[Before(n) + k]

\* rpc_pipeline cuts a list of ops into pieces that make it up, in order.
LEMMA ChunksAre ==
    ASSUME NEW S, NEW ops \in Seq(S), ops # <<>>
    PROVE  \E p \in Nat \ {0} : ChunksOf(S, ops, Chunks(ops), p)
<1>1. PICK l \in Nat \ {0} : l = Len(ops) /\ \A k \in 1..l : ops[k] \in S
  BY EmptySeq, LenProperties, ElementOfSeq
<1>2. PICK p : p = (l + MailboxDepth - 1) \div MailboxDepth
  OBVIOUS
<1>3. p \in Nat \ {0} /\ (p - 1) * MailboxDepth < l /\ l <= p * MailboxDepth
  BY <1>2, Pieces, ClientAssumption
<1> DEFINE Least(a, b) == IF a < b THEN a ELSE b
           Chunk(n) == SubSeq(ops, (n - 1) * MailboxDepth + 1, Least(n * MailboxDepth, l))
<1>4. Chunks(ops) = [n \in 1..p |-> Chunk(n)]
  BY <1>1, <1>2, Zenon DEF Chunks
<1>5. ASSUME NEW n \in 1..p
      PROVE  /\ Chunk(n) \in Seq(S) /\ Chunk(n) # <<>>
             /\ Before(n) \in Nat
             /\ Before(n) + Len(Chunk(n)) <= l
             /\ n < p => Len(Chunk(n)) = MailboxDepth
             /\ n = p => Before(n) + Len(Chunk(n)) = l
             /\ \A k \in 1..Len(Chunk(n)) : Chunk(n)[k] = ops[Before(n) + k]
  <2>1. PICK b \in Nat : b = Before(n) /\ b + MailboxDepth = n * MailboxDepth /\ b < l
    <3>1. n - 1 \in Nat /\ n - 1 <= p - 1 /\ p - 1 \in Nat /\ n \in Nat
      BY <1>3
    <3>2. (n - 1) * MailboxDepth <= (p - 1) * MailboxDepth
          /\ (n - 1) * MailboxDepth \in Nat /\ (p - 1) * MailboxDepth \in Nat
      BY <3>1, Monotone, ClientAssumption
    <3>3. PICK b : b = Before(n)
      OBVIOUS
    <3>4. b = (n - 1) * MailboxDepth /\ b + MailboxDepth = n * MailboxDepth
      BY <3>1, <3>3, NextChunk DEF Before
    <3>5. b \in Nat /\ b < l
      BY <1>3, <3>2, <3>4
    <3> QED
      BY <3>3, <3>4, <3>5
  <2>2. PICK e \in Nat : /\ e = Least(n * MailboxDepth, l) /\ b + 1 <= e /\ e <= l
                         /\ n < p => e = b + MailboxDepth
                         /\ n = p => e = l
    <3>1. n < p => n * MailboxDepth < l
      <4> SUFFICES ASSUME n < p PROVE n * MailboxDepth < l
        OBVIOUS
      <4>1. n <= p - 1 /\ p - 1 \in Nat /\ n \in Nat
        BY <1>3
      <4>2. n * MailboxDepth <= (p - 1) * MailboxDepth
            /\ n * MailboxDepth \in Nat /\ (p - 1) * MailboxDepth \in Nat
        BY <4>1, Monotone, ClientAssumption
      <4> QED
        BY <1>3, <4>2
    <3>2. n = p => l <= n * MailboxDepth
      BY <1>3
    <3> QED
      BY <2>1, <3>1, <3>2, ClientAssumption
  <2>3. Chunk(n) = SubSeq(ops, b + 1, e)
    BY <2>1, <2>2 DEF Before
  <2> HIDE DEF Chunk, Least
  <2>4. \A i \in (b + 1)..e : ops[i] \in S
    BY <1>1, <2>2
  <2>5. /\ SubSeq(ops, b + 1, e) \in Seq(S)
        /\ Len(SubSeq(ops, b + 1, e)) = e - b
        /\ \A k \in 1..(e - b) : SubSeq(ops, b + 1, e)[k] = ops[b + k]
    <3>1. /\ SubSeq(ops, b + 1, e) \in Seq(S)
          /\ Len(SubSeq(ops, b + 1, e)) = IF b + 1 <= e THEN e - (b + 1) + 1 ELSE 0
          /\ \A i \in 1 .. e - (b + 1) + 1 : SubSeq(ops, b + 1, e)[i] = ops[b + 1 + i - 1]
      BY <2>4, SubSeqProperties
    <3>2. e - (b + 1) + 1 = e - b /\ \A k \in 1..(e - b) : b + 1 + k - 1 = b + k
      OBVIOUS
    <3> QED
      BY <2>2, <3>1, <3>2
  <2>6. SubSeq(ops, b + 1, e) # <<>>
    BY <2>2, <2>5, EmptySeq
  <2>7. b + (e - b) = e /\ (e = b + MailboxDepth => e - b = MailboxDepth)
    BY ClientAssumption
  <2> QED
    BY <2>1, <2>2, <2>3, <2>5, <2>6, <2>7
<1> HIDE DEF Chunk, Least
<1>6. Chunks(ops) \in Seq(Seq(S))
  BY <1>3, <1>4, <1>5
<1>7. Len(Chunks(ops)) = p /\ DOMAIN Chunks(ops) = 1..p
  BY <1>3, <1>4, <1>6, LenProperties
<1> QED
  BY <1>1, <1>3, <1>4, <1>5, <1>6, <1>7 DEF ChunksOf


\* The ops of a call that begins, and its first chunk.
LEMMA BeginDoes ==
    ASSUME WireTypeOK, NEW ops \in Seq(LineOp), ops # <<>>, Begin(ops)
    PROVE  /\ call.state = "none" /\ call' \in Calls /\ call'.state = "wire"
           /\ call'.sent = 0 /\ call'.got = <<>> /\ call'.earlier = <<>>
           /\ Serving(call', ops, 1)
           /\ calls' = calls + 1 /\ UNCHANGED <<session, opened, conns, log>>
<1>0. PICK p \in Nat \ {0} : ChunksOf(LineOp, ops, Chunks(ops), p)
  BY ChunksAre, Zenon
<1>1. /\ Chunks(ops) \in Seq(Seq(LineOp)) /\ Len(Chunks(ops)) = p
      /\ DOMAIN Chunks(ops) = 1..p
  BY <1>0, Zenon DEF ChunksOf
<1>2. Chunks(ops) # <<>>
  BY <1>1, EmptySeq
<1>3. PICK head \in Seq(LineOp), later \in Seq(Seq(LineOp)) :
         /\ head = Head(Chunks(ops)) /\ later = Tail(Chunks(ops))
         /\ head = Chunks(ops)[1] /\ Len(later) = p - 1
         /\ \A m \in 1..(p - 1) : later[m] = Chunks(ops)[m + 1]
  <2>1. /\ Head(Chunks(ops)) \in Seq(LineOp) /\ Tail(Chunks(ops)) \in Seq(Seq(LineOp))
        /\ Head(Chunks(ops)) = Chunks(ops)[1]
        /\ Len(Tail(Chunks(ops))) = Len(Chunks(ops)) - 1
        /\ \A m \in 1..(Len(Chunks(ops)) - 1) : Tail(Chunks(ops))[m] = Chunks(ops)[m + 1]
    BY <1>1, <1>2, HeadTail, Zenon
  <2> QED
    BY <1>1, <2>1
<1>4. call' = [state |-> "wire", ops |-> head, sent |-> 0, got |-> <<>>,
               earlier |-> <<>>, later |-> later]
  BY <1>3 DEF Begin, NewCall, NoCall
<1>5. Serving(call', ops, 1)
  <2>1. Before(1) = 0 /\ Len(<<>>) = 0
    BY NextChunk, EmptySeq
  <2>2. \A m \in 1..(p - 1) : m + 1 = 1 + m
    BY <1>1
  <2> QED
    BY <1>1, <1>3, <1>4, <2>1, <2>2 DEF Serving
<1> QED
  BY <1>3, <1>4, <1>5, EmptySeq DEF Begin, netVars, Calls

\* The wire invariant while a call begins.
LEMMA BeginKept ==
    ASSUME WireInv, NEW ops \in Seq(LineOp), ops # <<>>, Begin(ops), UNCHANGED plan
    PROVE  WireInv'
<1>0. WireTypeOK /\ ConnsInv /\ ExchangeInv /\ HeardInv
  BY DEF WireInv
<1>1. /\ call.state = "none" /\ call' \in Calls /\ call'.state = "wire"
      /\ call'.sent = 0 /\ call'.got = <<>> /\ call'.earlier = <<>>
      /\ calls' = calls + 1 /\ UNCHANGED <<session, opened, conns, log>>
  BY <1>0, BeginDoes, Zenon
<1>2. ~Busy /\ Busy'
  BY <1>1 DEF Busy
<1>4. WireTypeOK'
  BY <1>0, <1>1, SameTypes DEF WireTypeOK
<1>5. ConnsInv'
  BY <1>0, <1>1, <1>2 DEF ConnsInv
<1>6. ExchangeInv'
  <2>1. session # 0 => /\ conns[session].up = <<>> /\ conns[session].down = <<>>
                       /\ conns[session] \in Ends
    BY <1>0, <1>2, InUse DEF ConnsInv
  <2>2. session # 0 => OnWire(call', calls', conns[session])
    BY <1>1, <2>1, FreshOnWire
  <2>3. Asked(call', calls')
    <3>1. Len(<<>>) = 0 /\ Len(call'.ops) \in Nat
      BY <1>1, EmptySeq, LenProperties DEF Calls
    <3> QED
      BY <1>1, <3>1 DEF Asked, Answers
  <2> QED
    BY <1>1, <2>2, <2>3 DEF ExchangeInv
<1>7. HeardInv'
  <2>1. ToSet(<<>>) = {}
    BY DEF ToSet
  <2> QED
    BY <1>0, <1>1, <2>1 DEF HeardInv, Heard
<1> QED
  BY <1>4, <1>5, <1>6, <1>7 DEF WireInv

\* The wire invariant while the caller takes the result.
LEMMA EndKept == ASSUME WireInv, End, UNCHANGED plan PROVE WireInv' /\ call' = NoCall
<1>0. WireTypeOK /\ ConnsInv /\ ExchangeInv /\ HeardInv
  BY DEF WireInv
<1>1. /\ call.state \in {"ok", "error"} /\ call' = NoCall
      /\ UNCHANGED <<session, opened, conns, calls, log>>
  BY DEF End, netVars
<1>2. /\ NoCall \in Calls /\ NoCall.state = "none" /\ NoCall.got = <<>>
      /\ NoCall.earlier = <<>>
  BY EmptySeq DEF NoCall, Calls
<1>3. ~Busy /\ ~Busy'
  BY <1>1, <1>2 DEF Busy
<1>4. WireTypeOK'
  BY <1>0, <1>1, <1>2, SameTypes DEF WireTypeOK
<1>5. ConnsInv'
  BY <1>0, <1>1, <1>3 DEF ConnsInv
<1>6. ExchangeInv'
  BY <1>3 DEF ExchangeInv
<1>7. HeardInv'
  <2>1. ToSet(<<>>) = {}
    BY DEF ToSet
  <2> QED
    BY <1>0, <1>1, <1>2, <2>1 DEF HeardInv, Heard
<1> QED
  BY <1>1, <1>4, <1>5, <1>6, <1>7 DEF WireInv

\* The list is n long and answers the ops behind the first `from`.
OpsAre(list, n, from, ops) == Len(list) = n /\ \A k \in 1..n : list[k].op = ops[from + k]

\* Answers joined are the answers to the ops in a row.
LEMMA AnswersJoined ==
    ASSUME NEW S, NEW e \in Seq(S), NEW g \in Seq(S), NEW b \in Nat, NEW n \in Nat,
           NEW ops, OpsAre(e, b, 0, ops), OpsAre(g, n, b, ops)
    PROVE  OpsAre(e \o g, b + n, 0, ops)
<1>0. /\ Len(e) = b /\ Len(g) = n
      /\ \A k \in 1..b : e[k].op = ops[0 + k]
      /\ \A k \in 1..n : g[k].op = ops[b + k]
  BY DEF OpsAre
<1>1. /\ Len(e \o g) = Len(e) + Len(g)
      /\ \A k \in 1..(Len(e) + Len(g)) :
            (e \o g)[k] = IF k <= Len(e) THEN e[k] ELSE g[k - Len(e)]
  BY ConcatProperties, Zenon
<1>2. /\ Len(e \o g) = b + n
      /\ \A k \in 1..(b + n) : (e \o g)[k] = IF k <= b THEN e[k] ELSE g[k - b]
  BY <1>0, <1>1
<1>3. ASSUME NEW k \in 1..(b + n) PROVE (e \o g)[k].op = ops[0 + k]
  <2>1. CASE k <= b
    BY <1>0, <1>2, <2>1
  <2>2. CASE ~(k <= b)
    <3>1. PICK j \in 1..n : j = k - b /\ k = b + j
      BY <2>2
    <3>2. (e \o g)[k] = g[j]
      BY <1>2, <2>2, <3>1
    <3>3. g[j].op = ops[b + j] /\ 0 + k = b + j
      BY <1>0, <3>1
    <3> QED
      BY <3>2, <3>3
  <2> QED
    BY <2>1, <2>2
<1> QED
  BY <1>2, <1>3 DEF OpsAre

\* The rest of a list that is still to come.
LEMMA Rest1 ==
    ASSUME NEW S, NEW l \in Seq(S), l # <<>>, NEW p \in Nat, NEW n \in Nat, NEW all,
           Len(l) = p - n, \A m \in 1..(p - n) : l[m] = all[n + m]
    PROVE  /\ n + 1 <= p /\ Head(l) = all[n + 1] /\ Len(Tail(l)) = p - (n + 1)
           /\ \A m \in 1..(p - (n + 1)) : Tail(l)[m] = all[n + 1 + m]
<1>1. /\ Len(l) \in Nat \ {0} /\ Head(l) = l[1]
      /\ Len(Tail(l)) = Len(l) - 1
      /\ \A m \in 1..(Len(l) - 1) : Tail(l)[m] = l[m + 1]
  BY HeadTail
<1>2. n + 1 <= p /\ p - n - 1 = p - (n + 1) /\ 1 \in 1..(p - n)
  BY <1>1
<1>3. ASSUME NEW m \in 1..(p - (n + 1)) PROVE Tail(l)[m] = all[n + 1 + m]
  <2>1. m + 1 \in 1..(p - n) /\ n + (m + 1) = n + 1 + m /\ m \in 1..(p - n - 1)
    BY <1>2
  <2>2. Tail(l)[m] = l[m + 1]
    BY <1>1, <2>1
  <2>3. l[m + 1] = all[n + (m + 1)]
    BY <2>1
  <2> QED
    BY <2>1, <2>2, <2>3
<1> QED
  BY <1>1, <1>2, <1>3

\* The last chunk answered is the call answered; any other brings on the next.
LEMMA ServedOn ==
    ASSUME NEW S, NEW ops \in Seq(S), ops # <<>>, NEW c \in Calls, NEW c2 \in Calls,
           NEW n \in Nat, Serving(c, ops, n), NEW id, Asked(c, id), Len(c.got) = Len(c.ops)
    PROVE  /\ c.later = <<>> /\ c2.got = c.earlier \o c.got => Answered(c2, ops)
           /\ c.later # <<>> /\ c2.ops = Head(c.later) /\ c2.later = Tail(c.later)
                 /\ c2.earlier = c.earlier \o c.got => Serving(c2, ops, n + 1)
<1>1. PICK p \in Nat \ {0} : ChunksOf(S, ops, Chunks(ops), p)
  BY ChunksAre, Zenon
<1>2. PICK chunks \in Seq(Seq(S)), b \in Nat, g \in Nat, early \in Seq(Answer),
           got \in Seq(Answer), later \in Seq(Seq(LineOp)) :
         /\ chunks = Chunks(ops) /\ b = Before(n) /\ g = Len(got)
         /\ early = c.earlier /\ got = c.got /\ later = c.later
  <2>1. Chunks(ops) \in Seq(Seq(S)) /\ n \in 1..p
    BY <1>1, Zenon DEF ChunksOf, Serving
  <2>2. Before(n) \in Nat
    BY <1>1, <2>1, Zenon DEF ChunksOf
  <2>3. c.earlier \in Seq(Answer) /\ c.got \in Seq(Answer) /\ c.later \in Seq(Seq(LineOp))
        /\ Len(c.got) \in Nat
    BY LenProperties DEF Calls
  <2> QED
    BY <2>1, <2>2, <2>3
<1>3. /\ n \in 1..p /\ Len(chunks) = p /\ DOMAIN chunks = 1..p
      /\ Len(chunks[n]) = g /\ c.ops = chunks[n]
      /\ n < p => g = MailboxDepth
      /\ n = p => b + g = Len(ops)
      /\ \A k \in 1..g : chunks[n][k] = ops[b + k]
  <2>1. n \in 1..p /\ c.ops = chunks[n] /\ Len(chunks) = p /\ DOMAIN chunks = 1..p
    BY <1>1, <1>2, Zenon DEF ChunksOf, Serving
  <2>2. Len(chunks[n]) = g
    BY <1>2, <2>1
  <2> QED
    BY <1>1, <1>2, <2>1, <2>2, Zenon DEF ChunksOf
<1>4. /\ Len(later) = p - n /\ \A m \in 1..(p - n) : later[m] = chunks[n + m]
      /\ Len(early) = b /\ \A k \in 1..b : early[k].op = ops[k]
  <2>1. /\ Len(later) = Len(chunks) - n /\ \A m \in 1..Len(later) : later[m] = chunks[n + m]
        /\ Len(early) = b /\ \A k \in 1..b : early[k].op = ops[k]
    BY <1>2, Zenon DEF Serving
  <2> QED
    BY <1>3, <2>1
<1>5. \A k \in 1..g : got[k].op = ops[b + k]
  <2>1. \A k \in 1..g : got[k].op = c.ops[0 + k]
    BY <1>2, Zenon DEF Asked, Answers
  <2>2. \A k \in 1..g : 0 + k = k
    OBVIOUS
  <2> QED
    BY <1>3, <2>1, <2>2
<1>6. Len(early \o got) = b + g /\ \A k \in 1..(b + g) : (early \o got)[k].op = ops[k]
  <2>1. \A k \in Nat : 0 + k = k
    OBVIOUS
  <2>2. OpsAre(early, b, 0, ops) /\ OpsAre(got, g, b, ops)
    BY <1>2, <1>4, <1>5, <2>1 DEF OpsAre
  <2>3. OpsAre(early \o got, b + g, 0, ops)
    BY <2>2, AnswersJoined, Zenon
  <2> QED
    BY <2>1, <2>3 DEF OpsAre
<1>7. ASSUME later = <<>>, c2.got = early \o got PROVE Answered(c2, ops)
  <2>1. n = p
    BY <1>3, <1>4, <1>7, EmptySeq
  <2>2. b + g = Len(ops)
    BY <1>3, <2>1
  <2> QED
    BY <1>6, <1>7, <2>2 DEF Answered
<1>8. ASSUME later # <<>>, c2.ops = Head(later), c2.later = Tail(later),
             c2.earlier = early \o got
      PROVE  Serving(c2, ops, n + 1)
  <2>1. /\ n + 1 <= p /\ Head(later) = chunks[n + 1] /\ Len(Tail(later)) = p - (n + 1)
        /\ \A m \in 1..(p - (n + 1)) : Tail(later)[m] = chunks[n + 1 + m]
    <3>1. p \in Nat
      OBVIOUS
    <3> QED
      BY <1>4, <1>8, <3>1, Rest1, SMTT(20)
  <2>2. n < p /\ n + 1 \in 1..p
    BY <1>3, <2>1
  <2>3. Before(n + 1) = b + g
    BY <1>2, <1>3, <2>2, NextChunk
  <2>4. /\ c2.ops = chunks[n + 1] /\ Len(c2.later) = Len(chunks) - (n + 1)
        /\ \A m \in 1..Len(c2.later) : c2.later[m] = chunks[n + 1 + m]
        /\ n + 1 \in DOMAIN chunks
    BY <1>3, <1>8, <2>1, <2>2
  <2>5. Len(c2.earlier) = Before(n + 1) /\ \A k \in 1..Before(n + 1) : c2.earlier[k].op = ops[k]
    BY <1>6, <1>8, <2>3
  <2> QED
    BY <1>2, <2>4, <2>5, Zenon DEF Serving
<1> QED
  BY <1>2, <1>7, <1>8, Zenon

-----------------------------------------------------------------------------
(* The plan                                                                *)

\* The plan's steps by their ids.
LEMMA StepsById ==
    ASSUME PlanSound
    PROVE  /\ \A s \in ToSet(plan.steps) : s.id \in PlannedIds /\ StepOf(s.id) = s
           /\ \A id \in PlannedIds : StepOf(id) \in ToSet(plan.steps) /\ StepOf(id).id = id
<1>1. \A i, j \in DOMAIN plan.steps : plan.steps[i].id = plan.steps[j].id => i = j
  BY Zenon DEF PlanSound
<1>2. \A s, t \in ToSet(plan.steps) : s.id = t.id => s = t
  BY <1>1 DEF ToSet
<1>3. ASSUME NEW id \in PlannedIds
      PROVE  StepOf(id) \in ToSet(plan.steps) /\ StepOf(id).id = id
  <2>1. \E s \in ToSet(plan.steps) : s.id = id
    BY DEF PlannedIds
  <2> QED
    BY <2>1, Zenon DEF StepOf
<1>4. ASSUME NEW s \in ToSet(plan.steps) PROVE s.id \in PlannedIds
  BY DEF PlannedIds
<1> QED
  BY <1>2, <1>3, <1>4

\* The waves, and the places in them.
LEMMA Waves1 ==
    ASSUME PlanSound
    PROVE  /\ Len(plan.waves) \in Nat /\ DOMAIN plan.waves = 1..Len(plan.waves)
           /\ \A w \in DOMAIN plan.waves :
                 /\ plan.waves[w] \in Seq(PlannedIds)
                 /\ Len(plan.waves[w]) \in Nat \ {0}
                 /\ DOMAIN plan.waves[w] = 1..Len(plan.waves[w])
                 /\ \A k \in DOMAIN plan.waves[w] : plan.waves[w][k] \in PlannedIds
<1>1. plan.waves \in Seq(Seq(PlannedIds) \ {<<>>})
  BY Zenon DEF PlanSound
<1>2. Len(plan.waves) \in Nat /\ DOMAIN plan.waves = 1..Len(plan.waves)
  BY <1>1, LenProperties
<1>3. ASSUME NEW w \in DOMAIN plan.waves
      PROVE  plan.waves[w] \in Seq(PlannedIds) /\ plan.waves[w] # <<>>
  BY <1>1, <1>3, Element
<1>4. ASSUME NEW s \in Seq(PlannedIds), s # <<>>
      PROVE  /\ Len(s) \in Nat \ {0} /\ DOMAIN s = 1..Len(s)
             /\ \A k \in DOMAIN s : s[k] \in PlannedIds
  BY <1>4, HeadTail, Element
<1> QED
  BY <1>2, <1>3, <1>4

\* The places of a sound plan are those of its waves, and every step has one.
LEMMA PlacesAre ==
    ASSUME PlanSound
    PROVE  /\ \A w \in DOMAIN plan.waves : \A k \in DOMAIN plan.waves[w] :
                 <<w, k>> \in Places /\ IdAt(<<w, k>>) = plan.waves[w][k]
           /\ \A p \in Places : /\ p = <<p[1], p[2]>> /\ p[1] \in DOMAIN plan.waves
                                /\ p[1] \in Nat /\ p[2] \in Nat
                                /\ p[2] \in DOMAIN plan.waves[p[1]]
                                /\ IdAt(p) = plan.waves[p[1]][p[2]] /\ IdAt(p) \in PlannedIds
           /\ \A id \in PlannedIds : \E p \in Places : IdAt(p) = id
<1>1. \A w \in DOMAIN plan.waves : \A k \in DOMAIN plan.waves[w] :
         <<w, k>> \in Places /\ IdAt(<<w, k>>) = plan.waves[w][k]
  BY DEF Places, IdAt
<1>2. \A p \in Places : /\ p = <<p[1], p[2]>> /\ p[1] \in DOMAIN plan.waves
                        /\ p[2] \in DOMAIN plan.waves[p[1]]
                        /\ IdAt(p) = plan.waves[p[1]][p[2]]
  BY DEF Places, IdAt
<1>3. \A id \in PlannedIds : \E p \in Places : IdAt(p) = id
  BY Zenon DEF PlanSound
<1>4. \A p \in Places : p[1] \in Nat /\ p[2] \in Nat /\ IdAt(p) \in PlannedIds
  BY <1>2, Waves1
<1> QED
  BY <1>1, <1>2, <1>3, <1>4

\* The steps' indices are numbers.
LEMMA PlanIndices == ASSUME PlanSound PROVE \A i \in DOMAIN plan.steps : ~(i < i)
<1>1. plan.steps \in Seq(ToSet(plan.steps))
  BY Zenon DEF PlanSound
<1> QED
  BY <1>1, LenProperties

\* No step has two places, and steps have places in their order.
LEMMA OnePlace ==
    ASSUME PlanSound, NEW p \in Places, NEW q \in Places, IdAt(p) = IdAt(q)
    PROVE  p = q
<1>1. /\ \A i, j \in DOMAIN plan.steps : plan.steps[i].id = plan.steps[j].id => i = j
      /\ \A x, y \in Places : Earlier(x, y) =>
          \E i, j \in DOMAIN plan.steps :
             i < j /\ plan.steps[i].id = IdAt(x) /\ plan.steps[j].id = IdAt(y)
  BY Zenon DEF PlanSound
<1>2. ASSUME NEW x \in Places, NEW y \in Places, IdAt(x) = IdAt(y) PROVE ~Earlier(x, y)
  <2> SUFFICES ASSUME Earlier(x, y) PROVE FALSE
    OBVIOUS
  <2>1. PICK i \in DOMAIN plan.steps, j \in DOMAIN plan.steps :
           i < j /\ plan.steps[i].id = IdAt(x) /\ plan.steps[j].id = IdAt(y)
    BY <1>1
  <2>2. i = j
    BY <1>1, <1>2, <2>1
  <2>3. ~(i < i)
    BY PlanIndices
  <2> QED
    BY <2>1, <2>2, <2>3
<1>3. /\ p = <<p[1], p[2]>> /\ p[1] \in Nat /\ p[2] \in Nat
      /\ q = <<q[1], q[2]>> /\ q[1] \in Nat /\ q[2] \in Nat
  BY PlacesAre, Zenon
<1>4. ~Earlier(p, q) /\ ~Earlier(q, p)
  BY <1>2
<1>5. p[1] = q[1] /\ p[2] = q[2]
  BY <1>3, <1>4 DEF Earlier
<1> QED
  BY <1>3, <1>5

\* The steps of the wave under way.
LEMMA WaveIs ==
    ASSUME PlanSound, wave \in DOMAIN plan.waves
    PROVE  /\ WaveSteps \in Seq(ToSet(plan.steps)) /\ Len(WaveSteps) = Len(plan.waves[wave])
           /\ DOMAIN WaveSteps = DOMAIN plan.waves[wave]
           /\ DOMAIN WaveSteps = 1..Len(WaveSteps) /\ Len(WaveSteps) \in Nat \ {0}
           /\ \A k \in DOMAIN WaveSteps : /\ WaveSteps[k] = StepOf(plan.waves[wave][k])
                                          /\ WaveSteps[k].id = plan.waves[wave][k]
                                          /\ WaveSteps[k].id \in PlannedIds
<1>1. PICK n \in Nat \ {0} : n = Len(plan.waves[wave]) /\ DOMAIN plan.waves[wave] = 1..n
  BY Waves1
<1>2. \A k \in 1..n : plan.waves[wave][k] \in PlannedIds
  BY <1>1, Waves1
<1>3. WaveSteps = [k \in 1..n |-> StepOf(plan.waves[wave][k])]
  BY <1>1, Zenon DEF WaveSteps
<1>4. \A k \in 1..n : /\ StepOf(plan.waves[wave][k]) \in ToSet(plan.steps)
                      /\ StepOf(plan.waves[wave][k]).id = plan.waves[wave][k]
  BY <1>2, StepsById
<1>5. \A k \in 1..n : WaveSteps[k] = StepOf(plan.waves[wave][k])
  BY <1>3
<1>6. WaveSteps \in Seq(ToSet(plan.steps)) /\ DOMAIN WaveSteps = 1..n
  BY <1>3, <1>4
<1>7. Len(WaveSteps) = n
  BY <1>6, LenProperties
<1> QED
  BY <1>1, <1>2, <1>4, <1>5, <1>6, <1>7


\* The lines a call has in hand.
LEMMA OpsAreTyped ==
    ASSUME PlanSound, ProgressInv, wave \in DOMAIN plan.waves
    PROVE  /\ OpsNow \in Seq(LineOp) /\ OpsNow # <<>>
           /\ phase = "shot" => \A op \in ToSet(OpsNow) : op.effect = "shot"
           /\ phase # "shot" /\ CanPipeline =>
                 /\ Len(OpsNow) = Len(WaveSteps) /\ OpsNow = LinesOf(WaveSteps)
                 /\ \A k \in 1..Len(WaveSteps) : OpsNow[k] = StepLine(WaveSteps[k])
           /\ phase # "shot" /\ ~CanPipeline =>
                 /\ Len(OpsNow) = 1 /\ OpsNow = <<StepLine(WaveSteps[at])>>
                 /\ OpsNow[1] = StepLine(WaveSteps[at])
<1>1. /\ WaveSteps \in Seq(ToSet(plan.steps)) /\ DOMAIN WaveSteps = DOMAIN plan.waves[wave]
      /\ DOMAIN WaveSteps = 1..Len(WaveSteps) /\ Len(WaveSteps) \in Nat \ {0}
      /\ \A k \in DOMAIN WaveSteps : WaveSteps[k].id \in PlannedIds
  BY WaveIs
<1>2. at \in DOMAIN WaveSteps
  BY <1>1 DEF ProgressInv
<1>3. \A k \in DOMAIN WaveSteps : StepLine(WaveSteps[k]) \in LineOp
                                  /\ ShotLine(WaveSteps[k]) \in LineOp
  BY <1>1 DEF StepLine, ShotLine, LineOp, Effects
<1>4. ASSUME NEW x \in LineOp
      PROVE  /\ <<x>> \in Seq(LineOp) /\ <<x>> # <<>> /\ Len(<<x>>) = 1 /\ <<x>>[1] = x
             /\ \A y \in ToSet(<<x>>) : y = x
  BY <1>4 DEF ToSet
<1>5. CASE phase = "shot"
  <2>1. OpsNow = <<ShotLine(WaveSteps[at])>>
    BY <1>5 DEF OpsNow
  <2>2. ShotLine(WaveSteps[at]).effect = "shot"
    BY DEF ShotLine
  <2> QED
    BY <1>2, <1>3, <1>4, <1>5, <2>1, <2>2
<1>6. CASE phase # "shot" /\ ~CanPipeline
  <2>1. OpsNow = <<StepLine(WaveSteps[at])>>
    BY <1>6 DEF OpsNow
  <2> QED
    BY <1>2, <1>3, <1>4, <1>6, <2>1
<1>7. CASE phase # "shot" /\ CanPipeline
  <2>1. PICK n \in Nat \ {0} : n = Len(WaveSteps) /\ DOMAIN WaveSteps = 1..n
    BY <1>1
  <2>2. OpsNow = [k \in 1..n |-> StepLine(WaveSteps[k])] /\ OpsNow = LinesOf(WaveSteps)
    BY <1>7, <2>1 DEF OpsNow, LinesOf
  <2>3. OpsNow \in Seq(LineOp) /\ DOMAIN OpsNow = 1..n
        /\ \A k \in 1..n : OpsNow[k] = StepLine(WaveSteps[k])
    BY <1>3, <2>1, <2>2
  <2>4. Len(OpsNow) = n /\ OpsNow # <<>>
    BY <2>3, LenProperties, EmptySeq
  <2> QED
    BY <1>7, <2>1, <2>2, <2>3, <2>4
<1> QED
  BY <1>5, <1>6, <1>7

\* Every line of a chunk is one of the call's.
LEMMA ChunkOps ==
    ASSUME NEW S, NEW ops \in Seq(S), ops # <<>>, NEW c, NEW n, Serving(c, ops, n)
    PROVE  ToSet(c.ops) \subseteq ToSet(ops)
<1>1. PICK p \in Nat \ {0} : ChunksOf(S, ops, Chunks(ops), p)
  BY ChunksAre, Zenon
<1>2. /\ n \in 1..p /\ c.ops = Chunks(ops)[n] /\ Chunks(ops) \in Seq(Seq(S))
      /\ DOMAIN Chunks(ops) = 1..p
      /\ Before(n) \in Nat /\ Before(n) + Len(Chunks(ops)[n]) <= Len(ops)
      /\ \A k \in 1..Len(Chunks(ops)[n]) : Chunks(ops)[n][k] = ops[Before(n) + k]
  BY <1>1, Zenon DEF ChunksOf, Serving
<1>3. PICK chunk \in Seq(S), b \in Nat, g \in Nat, m \in Nat :
         chunk = c.ops /\ b = Before(n) /\ g = Len(chunk) /\ m = Len(ops)
  <2>1. Chunks(ops)[n] \in Seq(S)
    BY <1>2, Element
  <2>2. Len(Chunks(ops)[n]) \in Nat /\ Len(ops) \in Nat
    BY <2>1, LenProperties
  <2> QED
    BY <1>2, <2>1, <2>2
<1>4. b + g <= m /\ \A k \in 1..g : chunk[k] = ops[b + k]
  BY <1>2, <1>3
<1>5. DOMAIN chunk = 1..g /\ DOMAIN ops = 1..m
  BY <1>3, LenProperties
<1>6. ASSUME NEW k \in 1..g PROVE chunk[k] \in ToSet(ops)
  <2>1. b + k \in 1..m
    BY <1>4
  <2> QED
    BY <1>4, <1>5, <2>1 DEF ToSet
<1> QED
  BY <1>3, <1>5, <1>6 DEF ToSet

\* How a step of the wire moves the call on.
CallKept(ops) ==
    /\ call.state # "wire" => call' = call
    /\ call.state = "wire" => call'.state \in {"wire", "ok", "error"}
    /\ call'.state = "wire" => \E n \in DOMAIN Chunks(ops) : Serving(call', ops, n)
    /\ call'.state = "ok" => Answered(call', ops)

\* A call whose chunk has not changed.
LEMMA SameChunk ==
    ASSUME NEW ops, NEW c, NEW c2, NEW n, Serving(c, ops, n),
           c2.ops = c.ops, c2.earlier = c.earlier, c2.later = c.later
    PROVE  Serving(c2, ops, n)
BY Zenon DEF Serving

\* However the wire moves, a call goes on serving the ops it was begun with.
LEMMA CallMoves ==
    ASSUME WireInv, ClientStep \/ HostCuts \/ UNCHANGED call,
           NEW S, NEW ops \in Seq(S),
           call.state = "wire" => ops # <<>> /\ \E n \in DOMAIN Chunks(ops) : Serving(call, ops, n),
           call.state = "ok" => Answered(call, ops)
    PROVE  CallKept(ops)
<1>0. WireTypeOK /\ ExchangeInv /\ call \in Calls
  BY DEF WireInv, WireTypeOK
<1>1. CASE UNCHANGED call
  BY <1>0, <1>1 DEF CallKept, Calls
<1>2. CASE HostCuts
  BY <1>1, <1>2 DEF HostCuts
<1>3. ASSUME Busy, call'.ops = call.ops, call'.earlier = call.earlier, call'.later = call.later,
             call'.state = "wire"
      PROVE  CallKept(ops)
  <2>1. PICK n \in DOMAIN Chunks(ops) : Serving(call, ops, n)
    BY <1>3 DEF Busy
  <2>2. Serving(call', ops, n)
    BY <1>3, <2>1, SameChunk, Zenon
  <2> QED
    BY <1>3, <2>1, <2>2 DEF CallKept, Busy
<1>4. ASSUME Busy, call'.state = "error" PROVE CallKept(ops)
  BY <1>4 DEF CallKept, Busy
<1>5. CASE Connect
  BY <1>1, <1>5 DEF Connect
<1>6. CASE DeadlinePasses
  <2>1. Busy /\ call'.state = "error"
    BY <1>0, <1>6 DEF DeadlinePasses, Calls
  <2> QED
    BY <1>4, <2>1
<1>7. CASE WriteLine
  <2>1. Busy /\ call'.ops = call.ops /\ call'.earlier = call.earlier /\ call'.later = call.later
        /\ call'.state = "wire"
    BY <1>0, <1>7, WriteDoes DEF WriteLine, Busy
  <2> QED
    BY <1>3, <2>1
<1>8. CASE WriteFails \/ ReadEof \/ ReadTimeout \/
             (ReadAnswer /\ ~Head(conns[session].down).readable)
  <2>1. Busy /\ (call'.state = "error" \/ Resets)
    BY <1>0, <1>8, DropDoes
  <2> QED
    BY <1>3, <1>4, <2>1 DEF Resets, Busy
<1>9. CASE ReadAnswer /\ Head(conns[session].down).readable
  <2>1. Busy /\ call'.ops = call.ops /\ call'.earlier = call.earlier /\ call'.later = call.later
        /\ call'.state = "wire"
    BY <1>0, <1>9, ReadDoes DEF Busy
  <2> QED
    BY <1>3, <2>1
<1>10. CASE ChunkDone
  <2>1. /\ Busy /\ Len(call.got) = Len(call.ops) /\ call' \in Calls
        /\ \/ /\ call.later = <<>> /\ call'.state = "ok"
              /\ call'.got = call.earlier \o call.got
           \/ /\ call.later # <<>> /\ call'.state = "wire"
              /\ call'.ops = Head(call.later) /\ call'.later = Tail(call.later)
              /\ call'.earlier = call.earlier \o call.got
    BY <1>0, <1>10, ChunkDoneDoes
  <2>2. PICK n \in DOMAIN Chunks(ops) : Serving(call, ops, n)
    BY <2>1 DEF Busy
  <2>3. n \in Nat /\ ops # <<>>
    <3>1. ops # <<>>
      BY <2>1 DEF Busy
    <3>2. PICK p \in Nat \ {0} : ChunksOf(S, ops, Chunks(ops), p)
      BY <3>1, ChunksAre, Zenon
    <3>3. DOMAIN Chunks(ops) = 1..p
      BY <3>2 DEF ChunksOf
    <3> QED
      BY <3>1, <3>3
  <2>4. Asked(call, calls)
    BY <1>0, <2>1 DEF ExchangeInv
  <2>5. CASE call.later = <<>> /\ call'.state = "ok" /\ call'.got = call.earlier \o call.got
    <3>1. Answered(call', ops)
      BY <1>0, <2>1, <2>2, <2>3, <2>4, <2>5, ServedOn, Zenon
    <3> QED
      BY <2>1, <2>5, <3>1 DEF CallKept, Busy
  <2>6. CASE /\ call.later # <<>> /\ call'.state = "wire"
             /\ call'.ops = Head(call.later) /\ call'.later = Tail(call.later)
             /\ call'.earlier = call.earlier \o call.got
    <3>1. Serving(call', ops, n + 1)
      BY <1>0, <2>1, <2>2, <2>3, <2>4, <2>6, ServedOn, Zenon
    <3>2. n + 1 \in DOMAIN Chunks(ops)
      BY <3>1 DEF Serving
    <3> QED
      BY <2>1, <2>6, <3>1, <3>2 DEF CallKept, Busy
  <2> QED
    BY <2>1, <2>5, <2>6
<1> QED
  BY <1>1, <1>2, <1>5, <1>6, <1>7, <1>8, <1>9, <1>10 DEF ClientStep


-----------------------------------------------------------------------------
(* What reaches the host                                                   *)

\* The lines on their way to the host, from the connections' lists.
LEMMA SameLog ==
    ASSUME UNCHANGED log, NEW S,
           \A c \in Conn : \A line \in ToSet(conns'[c].up) :
              line \in ToSet(conns[c].up) \/ line.op \in S
    PROVE  WireOps' \subseteq WireOps \cup S /\ ToSet(log) \subseteq ToSet(log')
<1>1. Heeded' = Heeded /\ ToSet(log) \subseteq ToSet(log')
  BY DEF Heeded
<1>2. \A line \in OnTheWay' : line \in OnTheWay \/ line.op \in S
  BY Zenon DEF OnTheWay
<1> QED
  BY <1>1, <1>2 DEF WireOps

\* Opening a connection sends nothing.
LEMMA ConnectSends ==
    ASSUME WireTypeOK, Connect
    PROVE  WireOps' \subseteq WireOps /\ ToSet(log) \subseteq ToSet(log')
<1>1. \A c \in Conn : conns'[c].up = conns[c].up
  BY ConnectDoes
<1>2. UNCHANGED log
  BY DEF Connect
<1> QED
  BY <1>1, <1>2, SameLog

\* What a line written adds to the wire is an op of the call.
LEMMA WriteSends ==
    ASSUME WireTypeOK, WriteLine
    PROVE  WireOps' \subseteq WireOps \cup ToSet(call.ops) /\ ToSet(log) \subseteq ToSet(log')
<1>1. /\ session \in Conn /\ call.sent < Len(call.ops)
      /\ call.sent \in Nat /\ DOMAIN call.ops = 1..Len(call.ops) /\ Len(call.ops) \in Nat
      /\ conns[session].up \in Seq(Line)
  BY WriteDoes, EndLists
<1>2. PICK line \in Line :
        /\ line.op = call.ops[call.sent + 1]
        /\ \A c \in Conn : c # session => conns'[c] = conns[c]
        /\ conns'[session].up = IF conns[session].open THEN Append(conns[session].up, line)
                                ELSE conns[session].up
  BY WriteDoes
<1>3. line.op \in ToSet(call.ops)
  <2>1. call.sent + 1 \in DOMAIN call.ops
    BY <1>1
  <2> QED
    BY <1>2, <2>1 DEF ToSet
<1>4. ToSet(Append(conns[session].up, line)) = ToSet(conns[session].up) \cup {line}
  BY <1>1, Added
<1>5. \A c \in Conn : \A l \in ToSet(conns'[c].up) :
         l \in ToSet(conns[c].up) \/ l.op \in ToSet(call.ops)
  BY <1>2, <1>3, <1>4
<1>6. UNCHANGED log
  BY DEF WriteLine
<1> QED
  BY <1>5, <1>6, SameLog

\* An error, or an answer read, sends nothing.
LEMMA DropSends ==
    ASSUME WireTypeOK, WriteFails \/ ReadEof \/ ReadTimeout \/ ReadAnswer
    PROVE  WireOps' \subseteq WireOps /\ ToSet(log) \subseteq ToSet(log')
<1>1. CASE ReadAnswer /\ Head(conns[session].down).readable
  <2>1. \A c \in Conn : conns'[c].up = conns[c].up
    BY <1>1, ReadDoes
  <2>2. UNCHANGED log
    BY <1>1 DEF ReadAnswer
  <2> QED
    BY <2>1, <2>2, SameLog
<1>2. CASE WriteFails \/ ReadEof \/ ReadTimeout \/
             (ReadAnswer /\ ~Head(conns[session].down).readable)
  <2>1. session # 0 /\ conns' = Left(conns) /\ UNCHANGED log
    BY <1>2, DropDoes
  <2>2. \A c \in Conn : conns'[c].up = conns[c].up
    BY <2>1, LeftDoes
  <2> QED
    BY <2>1, <2>2, SameLog
<1> QED
  BY <1>1, <1>2

\* Neither do a closed connection, a crash and a restart.
LEMMA CutSends ==
    ASSUME HostCuts
    PROVE  WireOps' \subseteq WireOps /\ ToSet(log) \subseteq ToSet(log')
<1>1. \A c \in Conn : conns'[c].up = conns[c].up \/ conns'[c].up = <<>>
  BY DEF HostCuts
<1>2. ToSet(<<>>) = {}
  BY DEF ToSet
<1>3. UNCHANGED log
  BY DEF HostCuts
<1> QED
  BY <1>1, <1>2, <1>3, SameLog

\* What the host performs had been written to it.
LEMMA PerformSends ==
    ASSUME WireTypeOK, NEW c \in Conn, NEW answer \in Answer, HostPerforms(c, answer)
    PROVE  /\ answer.op \in WireOps /\ WireOps' \subseteq WireOps
           /\ ToSet(log') = ToSet(log) \cup {answer} /\ Last(log') = answer
<1>1. /\ log \in Seq(Answer) /\ log' = Append(log, answer)
      /\ conns[c].up # <<>> /\ answer.op = Head(conns[c].up).op
      /\ \A d \in Conn : conns[d].up \in Seq(Line)
  BY EndLists DEF WireTypeOK, HostPerforms
<1>2. ToSet(log') = ToSet(log) \cup {answer} /\ Last(log') = answer
  BY <1>1, Added DEF Last
<1>3. \A d \in Conn : /\ conns[d].up # <<>> => Head(conns[d].up) \in ToSet(conns[d].up)
                      /\ conns[d].up # <<>> =>
                            ToSet(Tail(conns[d].up)) \subseteq ToSet(conns[d].up)
  BY <1>1, HeadTail DEF ToSet
<1>4. answer.op \in WireOps
  <2>1. Head(conns[c].up) \in ToSet(conns[c].up)
    BY <1>1, <1>3
  <2> QED
    BY <1>1, <2>1 DEF WireOps, OnTheWay
<1>5. \A d \in Conn : ToSet(conns'[d].up) \subseteq ToSet(conns[d].up)
  <2>1. \A d \in Conn : \/ conns'[d].up = <<>> \/ conns'[d].up = conns[d].up
                        \/ conns[d].up # <<>> /\ conns'[d].up = Tail(conns[d].up)
    BY <1>1 DEF HostPerforms
  <2>2. ToSet(<<>>) = {}
    BY DEF ToSet
  <2> QED
    BY <1>3, <2>1, <2>2
<1>6. Heeded' = Heeded \cup {answer.op}
  BY <1>2 DEF Heeded
<1>7. OnTheWay' \subseteq OnTheWay
  BY <1>5, Zenon DEF OnTheWay
<1> QED
  BY <1>2, <1>4, <1>6, <1>7 DEF WireOps

\* A step of the client or the host: only lines of the call under way come to
\* the wire, and the host forgets nothing it has performed.
LEMMA WireMoves ==
    ASSUME WireInv, ClientStep \/ HostStep, UNCHANGED plan
    PROVE  /\ WireInv'
           /\ WireOps' \subseteq WireOps \cup ToSet(call.ops)
           /\ ~Busy => WireOps' \subseteq WireOps
           /\ ToSet(log) \subseteq ToSet(log')
           /\ ClientStep \/ HostCuts \/ UNCHANGED call
           /\ log' # log => Last(log').op \in WireOps
<1>0. WireTypeOK
  BY DEF WireInv
<1>1. ASSUME ClientStep
      PROVE  WireInv' /\ Busy /\ UNCHANGED log
             /\ WireOps' \subseteq WireOps \cup ToSet(call.ops)
             /\ ToSet(log) \subseteq ToSet(log')
  <2>0. Busy /\ UNCHANGED log
    BY <1>1 DEF ClientStep, Connect, DeadlinePasses, WriteLine, WriteFails, ReadAnswer, ReadEof,
                ReadTimeout, ChunkDone, Reading, netVars
  <2>1. CASE Connect
    BY <1>0, <2>0, <2>1, ConnectKept, ConnectSends
  <2>2. CASE DeadlinePasses \/ ChunkDone
    <3>1. conns' = conns
      BY <2>2 DEF DeadlinePasses, ChunkDone, netVars
    <3>2. WireOps' = WireOps /\ ToSet(log') = ToSet(log)
      BY <2>0, <3>1 DEF WireOps, Heeded, OnTheWay
    <3> QED
      BY <2>0, <2>2, <3>2, DeadlineKept, ChunkKept
  <2>3. CASE WriteLine
    BY <1>0, <2>0, <2>3, WriteKept, WriteSends
  <2>4. CASE WriteFails \/ ReadEof \/ ReadTimeout \/ ReadAnswer
    <3>1. WireInv'
      BY <2>4, DropKept, ReadKept
    <3> QED
      BY <1>0, <2>0, <2>4, <3>1, DropSends
  <2> QED
    BY <1>1, <2>1, <2>2, <2>3, <2>4 DEF ClientStep
<1>2. CASE HostCuts
  BY <1>2, CutKept, CutSends DEF HostCuts
<1>3. ASSUME NEW c \in Conn, NEW ok \in BOOLEAN, NEW readable \in BOOLEAN,
             Perform(c, ok, readable)
      PROVE  /\ WireInv' /\ UNCHANGED call /\ WireOps' \subseteq WireOps
             /\ ToSet(log) \subseteq ToSet(log') /\ Last(log').op \in WireOps
  <2>1. PICK answer \in Answer : HostPerforms(c, answer)
    BY <1>0, <1>3, PerformDoes
  <2>2. WireInv'
    BY <2>1, PerformKept
  <2>3. /\ answer.op \in WireOps /\ WireOps' \subseteq WireOps
        /\ ToSet(log) \subseteq ToSet(log') /\ Last(log') = answer
    BY <1>0, <2>1, PerformSends
  <2> QED
    BY <2>1, <2>2, <2>3 DEF HostPerforms
<1>4. CASE ClientStep
  BY <1>1, <1>4
<1>5. CASE HostStep
  <2>1. CASE HostCuts
    BY <1>2, <2>1 DEF HostCuts
  <2>2. CASE \E c \in Conn, ok, readable \in BOOLEAN : Perform(c, ok, readable)
    BY <1>3, <2>2
  <2>3. HostCuts \/ \E c \in Conn, ok, readable \in BOOLEAN : Perform(c, ok, readable)
    BY <1>0, <1>5, CutDoes DEF HostStep
  <2> QED
    BY <2>1, <2>2, <2>3
<1> QED
  BY <1>4, <1>5


-----------------------------------------------------------------------------
(* The run                                                                 *)

\* What is read off the plan and the place the run is at.
LEMMA SameWave ==
    ASSUME UNCHANGED <<job, plan, wave>>
    PROVE  /\ PlannedIds' = PlannedIds /\ Places' = Places /\ WaveSteps' = WaveSteps
           /\ CanPipeline' = CanPipeline
           /\ \A p \in Places : IdAt(p)' = IdAt(p)
BY DEF PlannedIds, Places, WaveSteps, CanPipeline, StepOf, IdAt, ReadOnly

\* What is read of the run and the plan while only the wire moves.
LEMMA SameRun ==
    ASSUME UNCHANGED runVars
    PROVE  /\ PlannedIds' = PlannedIds /\ Places' = Places /\ WaveSteps' = WaveSteps
           /\ CanPipeline' = CanPipeline /\ OpsNow' = OpsNow
           /\ OkIds' = OkIds /\ FailedIds' = FailedIds /\ Here' = Here
           /\ \A p \in Places : IdAt(p)' = IdAt(p) /\ Behind(p)' = Behind(p)
           /\ \A id : Reached(id) => Reached(id)'
<1>1. /\ PlannedIds' = PlannedIds /\ Places' = Places /\ WaveSteps' = WaveSteps
      /\ CanPipeline' = CanPipeline /\ \A p \in Places : IdAt(p)' = IdAt(p)
      /\ UNCHANGED <<job, plan, wave, at, receipt, phase>>
  BY SameWave DEF runVars
<1>2. OpsNow' = OpsNow
  BY <1>1 DEF OpsNow, LinesOf
<1>3. OkIds' = OkIds /\ FailedIds' = FailedIds
  BY <1>1 DEF OkIds, FailedIds, Rows
<1>4. Here' = Here
  BY <1>1 DEF Here, IdAt
<1>5. \A p \in Places : Behind(p)' = Behind(p)
  BY <1>1 DEF Behind
<1>6. \A p \in Places : Out(p)' = Out(p)
  BY <1>1, <1>5 DEF Out
<1>7. ASSUME NEW id, Reached(id) PROVE Reached(id)'
  BY <1>1, <1>6, <1>7 DEF Reached
<1> QED
  BY <1>1, <1>2, <1>3, <1>4, <1>5, <1>7

\* A step whose line is in hand is reached.
LEMMA InHand ==
    ASSUME PlanSound, ProgressInv, phase = "await", NEW op \in ToSet(OpsNow)
    PROVE  Reached(op.id)
<1>1. /\ wave \in DOMAIN plan.waves /\ at \in DOMAIN plan.waves[wave]
  BY DEF ProgressInv
<1>2. /\ DOMAIN WaveSteps = DOMAIN plan.waves[wave] /\ DOMAIN WaveSteps = 1..Len(WaveSteps)
      /\ \A k \in DOMAIN WaveSteps : WaveSteps[k].id = plan.waves[wave][k]
  BY <1>1, WaveIs
<1>3. \A k \in DOMAIN WaveSteps : <<wave, k>> \in Places /\ IdAt(<<wave, k>>) = WaveSteps[k].id
  <2>1. \A k \in DOMAIN plan.waves[wave] :
           <<wave, k>> \in Places /\ IdAt(<<wave, k>>) = plan.waves[wave][k]
    BY <1>1, PlacesAre, Zenon
  <2> QED
    BY <1>2, <2>1
<1>4. \A s : StepLine(s).id = s.id
  BY DEF StepLine
<1>5. CASE CanPipeline
  <2>1. /\ Len(OpsNow) = Len(WaveSteps) /\ OpsNow \in Seq(LineOp)
        /\ \A k \in 1..Len(WaveSteps) : OpsNow[k] = StepLine(WaveSteps[k])
    BY <1>1, <1>5, OpsAreTyped
  <2>2. PICK k \in DOMAIN WaveSteps : op = StepLine(WaveSteps[k])
    BY <1>2, <2>1, LenProperties DEF ToSet
  <2>3. <<wave, k>>[1] = wave
    OBVIOUS
  <2> QED
    BY <1>3, <1>4, <1>5, <2>2, <2>3, Zenon DEF Reached, Out
<1>6. CASE ~CanPipeline
  <2>1. /\ Len(OpsNow) = 1 /\ OpsNow \in Seq(LineOp) /\ OpsNow[1] = StepLine(WaveSteps[at])
    BY <1>1, <1>6, OpsAreTyped
  <2>2. op = StepLine(WaveSteps[at]) /\ at \in DOMAIN WaveSteps
    BY <1>1, <1>2, <2>1, LenProperties DEF ToSet
  <2>3. <<wave, at>>[1] = wave /\ <<wave, at>>[2] = at
    OBVIOUS
  <2> QED
    BY <1>3, <1>4, <2>2, <2>3 DEF Reached, Out
<1> QED
  BY <1>5, <1>6

\* The wire's steps keep what the run relies on.
LEMMA WireKeepsRun ==
    ASSUME PlanSound, WireInv, RunInv, ClientStep \/ HostStep, UNCHANGED runVars
    PROVE  RunInv'
<1>0. ProgressInv /\ CallInv /\ LinesInv /\ RowsInv /\ TruthInv /\ ConfirmedInv
  BY DEF RunInv
<1>1. UNCHANGED <<job, plan, phase, wave, at, receipt, shots>>
  BY DEF runVars
<1>2. /\ WireOps' \subseteq WireOps \cup ToSet(call.ops)
      /\ ~Busy => WireOps' \subseteq WireOps
      /\ ToSet(log) \subseteq ToSet(log')
      /\ ClientStep \/ HostCuts \/ UNCHANGED call
  BY <1>1, WireMoves
<1>3. call.state # "wire" => call' = call
  <2>1. CASE call.state \in {"wire", "ok"}
    <3>1. phase \in {"await", "shot"}
      BY <1>0, <2>1 DEF CallInv, ProgressInv
    <3>2. OpsNow \in Seq(LineOp) /\ OpsNow # <<>>
      BY <1>0, <3>1, OpsAreTyped DEF ProgressInv
    <3>3. CallKept(OpsNow)
      BY <1>0, <1>2, <3>2, CallMoves DEF CallInv
    <3> QED
      BY <3>3 DEF CallKept
  <2>2. CASE ~(call.state \in {"wire", "ok"})
    <3>1. CallKept(<<>>)
      BY <1>2, <2>2, CallMoves, EmptySeq
    <3> QED
      BY <3>1 DEF CallKept
  <2> QED
    BY <2>1, <2>2
<1>4. Busy => phase \in {"await", "shot"} /\ wave \in DOMAIN plan.waves
  BY <1>0 DEF CallInv, ProgressInv, Busy
<1>5. ProgressInv'
  BY <1>0, <1>1, SameRun DEF ProgressInv
<1>6. CallInv'
  <2>1. CASE Busy
    <3>1. OpsNow \in Seq(LineOp) /\ OpsNow # <<>>
      BY <1>0, <1>4, <2>1, OpsAreTyped
    <3>2. CallKept(OpsNow)
      BY <1>0, <1>2, <3>1, CallMoves DEF CallInv
    <3>3. OpsNow' = OpsNow
      BY SameRun
    <3> QED
      BY <1>1, <1>4, <2>1, <3>2, <3>3 DEF CallKept, CallInv, Busy
  <2>2. CASE ~Busy
    <3>1. call' = call /\ OpsNow' = OpsNow
      BY <1>3, <2>2, SameRun DEF Busy
    <3> QED
      BY <1>0, <1>1, <3>1 DEF CallInv
  <2> QED
    BY <2>1, <2>2
<1>7. LinesInv'
  <2> SUFFICES ASSUME NEW op \in WireOps', op.effect # "shot" PROVE Reached(op.id)'
    BY DEF LinesInv
  <2>1. CASE op \in WireOps
    BY <1>0, <2>1, SameRun DEF LinesInv
  <2>2. CASE Busy /\ op \in ToSet(call.ops)
    <3>1. OpsNow \in Seq(LineOp) /\ OpsNow # <<>>
      BY <1>0, <1>4, <2>2, OpsAreTyped
    <3>2. PICK n \in DOMAIN Chunks(OpsNow) : Serving(call, OpsNow, n)
      BY <1>0, <2>2 DEF CallInv, Busy
    <3>3. op \in ToSet(OpsNow)
      BY <2>2, <3>1, <3>2, ChunkOps
    <3>4. phase = "await"
      BY <1>0, <1>4, <2>2, <3>3, OpsAreTyped
    <3>5. Reached(op.id)
      BY <1>0, <3>3, <3>4, InHand
    <3> QED
      BY <3>5, SameRun
  <2> QED
    BY <1>2, <2>1, <2>2
<1>8. RowsInv'
  <2>1. \A p \in Places' : Behind(p)' => IdAt(p)' \in OkIds'
    <3>1. \A p \in Places : Behind(p) => IdAt(p) \in OkIds
      BY <1>0 DEF RowsInv
    <3>2. Places' = Places /\ OkIds' = OkIds
          /\ \A p \in Places : IdAt(p)' = IdAt(p) /\ Behind(p)' = Behind(p)
      BY SameRun
    <3> QED
      BY <3>1, <3>2
  <2>2. /\ PlannedIds' = PlannedIds /\ CanPipeline' = CanPipeline
        /\ OkIds' = OkIds /\ FailedIds' = FailedIds /\ Here' = Here
    BY SameRun
  <2> QED
    BY <1>0, <1>1, <2>1, <2>2 DEF RowsInv
<1>9. TruthInv'
  <2>1. \A id : Well(id) => Well(id)'
    BY <1>2 DEF Well
  <2>2. phase = "done" => WireOps' \subseteq WireOps
    BY <1>2, <1>4
  <2> QED
    BY <1>0, <1>1, <2>1, <2>2, SameRun DEF TruthInv
<1>10. ConfirmedInv'
  <2>1. phase \in {"compile", "done"} => WireOps' \subseteq WireOps
    BY <1>2, <1>4
  <2>2. phase = "compile" => call' = call
    BY <1>3, <1>4 DEF Busy
  <2> QED
    BY <1>0, <1>1, <2>1, <2>2 DEF ConfirmedInv
<1> QED
  BY <1>5, <1>6, <1>7, <1>8, <1>9, <1>10 DEF RunInv


\* While the run moves on and nothing happens on the wire.
LEMMA QuietWire ==
    ASSUME UNCHANGED <<conns, log>>
    PROVE  WireOps' = WireOps /\ \A id : Well(id)' = Well(id)
BY DEF WireOps, Heeded, OnTheWay, Well

\* The lines that are out stay accounted for while the run moves on.
LEMMA ReachedMore ==
    ASSUME UNCHANGED <<job, plan>>, \A p \in Places : Out(p) => Out(p)', LinesInv,
           UNCHANGED <<conns, log>>
    PROVE  LinesInv'
<1>1. /\ Places' = Places /\ \A p \in Places : IdAt(p)' = IdAt(p)
  BY DEF Places, IdAt
<1>2. ASSUME NEW id, Reached(id) PROVE Reached(id)'
  BY <1>1, <1>2 DEF Reached
<1> QED
  BY <1>2, QuietWire DEF LinesInv

\* Rows added to the receipt.
LEMMA RowsAdded ==
    ASSUME UNCHANGED plan, NEW new, Rows' = Rows \cup new
    PROVE  /\ OkIds' = OkIds \cup {id \in PlannedIds : Row(id, TRUE) \in new}
           /\ FailedIds' = FailedIds \cup {id \in PlannedIds : Row(id, FALSE) \in new}
<1>1. PlannedIds' = PlannedIds
  BY DEF PlannedIds
<1> QED
  BY <1>1 DEF OkIds, FailedIds, Row

\* The answers of a call that went well are the host's answers to the steps.
LEMMA HeardSteps ==
    ASSUME PlanSound, WireInv, RunInv, phase = "await", call.state = "ok"
    PROVE  /\ CanPipeline =>
                /\ DOMAIN call.got = DOMAIN WaveSteps
                /\ \A k \in DOMAIN WaveSteps :
                      call.got[k].ok \in BOOLEAN /\ (call.got[k].ok => Well(WaveSteps[k].id))
           /\ ~CanPipeline =>
                call.got[1].ok \in BOOLEAN /\ (call.got[1].ok => Well(WaveSteps[at].id))
<1>1. /\ call.got \in Seq(Answer) /\ DOMAIN call.got = 1..Len(call.got)
      /\ ToSet(call.got) \subseteq ToSet(log) /\ wave \in DOMAIN plan.waves
      /\ ProgressInv
  BY EndLists, HeardIff DEF WireInv, RunInv, ProgressInv
<1>2. Answered(call, OpsNow)
  BY DEF RunInv, CallInv
<1>3. \A k \in DOMAIN call.got : call.got[k] \in ToSet(log) /\ call.got[k] \in Answer
  BY <1>1, Element DEF ToSet
<1>4. \A s : StepLine(s).id = s.id /\ StepLine(s).effect # "shot"
  BY DEF StepLine
<1>5. ASSUME NEW k \in DOMAIN call.got, NEW s, call.got[k].op = StepLine(s)
      PROVE  call.got[k].ok \in BOOLEAN /\ (call.got[k].ok => Well(s.id))
  BY <1>3, <1>4, <1>5 DEF Well, Answer
<1>6. CASE CanPipeline
  <2>1. /\ Len(OpsNow) = Len(WaveSteps) /\ DOMAIN WaveSteps = 1..Len(WaveSteps)
        /\ \A k \in 1..Len(WaveSteps) : OpsNow[k] = StepLine(WaveSteps[k])
    BY <1>1, <1>6, OpsAreTyped, WaveIs
  <2>2. /\ DOMAIN call.got = DOMAIN WaveSteps
        /\ \A k \in DOMAIN WaveSteps : call.got[k].op = StepLine(WaveSteps[k])
    BY <1>1, <1>2, <2>1 DEF Answered
  <2> QED
    BY <1>5, <1>6, <2>2
<1>7. CASE ~CanPipeline
  <2>1. Len(OpsNow) = 1 /\ OpsNow[1] = StepLine(WaveSteps[at])
    BY <1>1, <1>7, OpsAreTyped
  <2>2. 1 \in DOMAIN call.got /\ call.got[1].op = StepLine(WaveSteps[at])
    BY <1>1, <1>2, <2>1 DEF Answered
  <2> QED
    BY <1>5, <1>7, <2>2
<1> QED
  BY <1>6, <1>7

\* The step under way.
LEMMA ThisStep ==
    ASSUME PlanSound, ProgressInv, wave \in DOMAIN plan.waves
    PROVE  /\ at \in DOMAIN WaveSteps /\ at \in DOMAIN plan.waves[wave]
           /\ WaveSteps[at].id = Here /\ Here \in PlannedIds
           /\ Here \in ToSet(plan.waves[wave]) /\ <<wave, at>> \in Places
           /\ IdAt(<<wave, at>>) = Here
<1>1. at \in DOMAIN plan.waves[wave]
  BY DEF ProgressInv
<1>2. at \in DOMAIN WaveSteps /\ WaveSteps[at].id = plan.waves[wave][at]
  BY <1>1, WaveIs
<1>3. <<wave, at>> \in Places /\ IdAt(<<wave, at>>) = plan.waves[wave][at]
  BY <1>1, PlacesAre, Zenon
<1>4. plan.waves[wave][at] \in PlannedIds
  BY <1>1, Waves1, Zenon
<1> QED
  BY <1>1, <1>2, <1>3, <1>4 DEF Here, ToSet

\* A step's row.
LEMMA StepRow ==
    ASSUME PlanSound, WireInv, RunInv, phase = "await", ~CanPipeline,
           call.state \in {"ok", "error"}, UNCHANGED plan,
           receipt' = [ok |-> StepOk,
                       rows |-> Append(receipt.rows, Row(WaveSteps[at].id, StepOk))]
    PROVE  /\ StepOk \in BOOLEAN /\ receipt'.ok = StepOk
           /\ receipt' \in [ok : BOOLEAN, rows : Seq([id : PlannedIds', ok : BOOLEAN])]
           /\ StepOk => Well(Here) /\ OkIds' = OkIds \cup {Here} /\ FailedIds' = {}
           /\ ~StepOk => OkIds' = OkIds /\ FailedIds' = {Here}
<1>1. /\ ProgressInv /\ wave \in DOMAIN plan.waves
      /\ receipt \in [ok : BOOLEAN, rows : Seq([id : PlannedIds, ok : BOOLEAN])]
      /\ FailedIds = {}
  BY DEF RunInv, ProgressInv, RowsInv
<1>2. WaveSteps[at].id = Here /\ Here \in PlannedIds
  BY <1>1, ThisStep
<1>3. StepOk \in BOOLEAN /\ (StepOk => Well(Here))
  BY <1>2, HeardSteps DEF StepOk
<1>4. PICK b \in BOOLEAN : b = StepOk
  BY <1>3
<1>5. PICK row : row = Row(Here, b)
  OBVIOUS
<1>6. row \in [id : PlannedIds, ok : BOOLEAN]
  BY <1>2, <1>5 DEF Row
<1>7. receipt' = [ok |-> b, rows |-> Append(receipt.rows, row)]
  BY <1>2, <1>4, <1>5
<1>8. /\ Append(receipt.rows, row) \in Seq([id : PlannedIds, ok : BOOLEAN])
      /\ ToSet(Append(receipt.rows, row)) = ToSet(receipt.rows) \cup {row}
  <2>1. PICK S : S = [id : PlannedIds, ok : BOOLEAN]
    OBVIOUS
  <2>2. receipt.rows \in Seq(S) /\ row \in S
    BY <1>1, <1>6, <2>1
  <2>3. /\ Append(receipt.rows, row) \in Seq(S)
        /\ ToSet(Append(receipt.rows, row)) = ToSet(receipt.rows) \cup {row}
    BY <2>2, Added
  <2> QED
    BY <2>1, <2>3
<1>9. PlannedIds' = PlannedIds
  BY DEF PlannedIds
<1>10. Rows' = Rows \cup {row}
  BY <1>7, <1>8 DEF Rows
<1>11. /\ OkIds' = OkIds \cup {id \in PlannedIds : Row(id, TRUE) \in {row}}
       /\ FailedIds' = {id \in PlannedIds : Row(id, FALSE) \in {row}}
  BY <1>1, <1>10, RowsAdded
<1>12. /\ {id \in PlannedIds : Row(id, TRUE) \in {row}} = IF b THEN {Here} ELSE {}
       /\ {id \in PlannedIds : Row(id, FALSE) \in {row}} = IF b THEN {} ELSE {Here}
  BY <1>2, <1>5 DEF Row
<1>13. /\ receipt'.ok = StepOk
       /\ receipt' \in [ok : BOOLEAN, rows : Seq([id : PlannedIds', ok : BOOLEAN])]
  BY <1>4, <1>7, <1>8, <1>9
<1>14. CASE StepOk
  <2>1. OkIds' = OkIds \cup {Here} /\ FailedIds' = {}
    BY <1>4, <1>11, <1>12, <1>14, Zenon
  <2> QED
    BY <1>3, <1>13, <1>14, <2>1, Zenon
<1>15. CASE ~StepOk
  <2>1. OkIds' = OkIds \cup {} /\ FailedIds' = {Here}
    BY <1>4, <1>11, <1>12, <1>15, Zenon
  <2>2. OkIds' = OkIds
    BY <2>1
  <2> QED
    BY <1>3, <1>13, <1>15, <2>1, <2>2, Zenon
<1> QED
  BY <1>14, <1>15, Zenon


\* The rows of a wave answered in one go.
LEMMA WaveRows ==
    ASSUME PlanSound, WireInv, RunInv, phase = "await", CanPipeline, call.state = "ok",
           UNCHANGED plan, NEW rows, NEW good,
           rows = [k \in DOMAIN call.got |-> Row(WaveSteps[k].id, call.got[k].ok)],
           good = (\A k \in DOMAIN rows : rows[k].ok),
           receipt' = [ok |-> good, rows |-> receipt.rows \o rows]
    PROVE  /\ good \in BOOLEAN /\ receipt'.ok = good
           /\ receipt' \in [ok : BOOLEAN, rows : Seq([id : PlannedIds', ok : BOOLEAN])]
           /\ OkIds \subseteq OkIds' /\ FailedIds' \subseteq ToSet(plan.waves[wave])
           /\ \A id \in OkIds' : id \in OkIds \/ Well(id)
           /\ good => FailedIds' = {} /\ ToSet(plan.waves[wave]) \subseteq OkIds'
<1>1. /\ wave \in DOMAIN plan.waves
      /\ receipt \in [ok : BOOLEAN, rows : Seq([id : PlannedIds, ok : BOOLEAN])]
      /\ FailedIds = {}
  BY DEF RunInv, ProgressInv, RowsInv
<1>2. /\ DOMAIN WaveSteps = DOMAIN plan.waves[wave]
      /\ DOMAIN WaveSteps = 1..Len(WaveSteps) /\ Len(WaveSteps) \in Nat
      /\ \A k \in DOMAIN WaveSteps : WaveSteps[k].id = plan.waves[wave][k]
                                     /\ WaveSteps[k].id \in PlannedIds
  BY <1>1, WaveIs
<1>3. /\ DOMAIN call.got = DOMAIN WaveSteps
      /\ \A k \in DOMAIN WaveSteps :
            call.got[k].ok \in BOOLEAN /\ (call.got[k].ok => Well(WaveSteps[k].id))
  BY HeardSteps
<1>4. PICK n \in Nat : n = Len(WaveSteps) /\ DOMAIN WaveSteps = 1..n
  BY <1>2
<1>5. PICK S : S = [id : PlannedIds, ok : BOOLEAN]
  OBVIOUS
<1>6. \A k \in 1..n : Row(WaveSteps[k].id, call.got[k].ok) \in S
  BY <1>2, <1>3, <1>4, <1>5 DEF Row
<1>7. rows \in Seq(S) /\ DOMAIN rows = 1..n
      /\ \A k \in 1..n : rows[k] = Row(WaveSteps[k].id, call.got[k].ok)
  <2>1. rows = [k \in 1..n |-> Row(WaveSteps[k].id, call.got[k].ok)]
    BY <1>3, <1>4
  <2> QED
    BY <1>6, <2>1
<1>8. \A k \in 1..n : rows[k].ok = call.got[k].ok /\ rows[k].id = WaveSteps[k].id
  BY <1>7 DEF Row
<1>9. receipt.rows \o rows \in Seq(S) /\ ToSet(receipt.rows \o rows) = Rows \cup ToSet(rows)
  <2>1. receipt.rows \in Seq(S)
    BY <1>1, <1>5
  <2>2. receipt.rows \o rows \in Seq(S)
    BY <1>7, <2>1, ConcatProperties, Zenon
  <2> QED
    BY <1>7, <2>1, <2>2, ConcatSet DEF Rows
<1>10. PlannedIds' = PlannedIds
  BY DEF PlannedIds
<1>11. good \in BOOLEAN
  OBVIOUS
<1>12. /\ receipt'.ok = good
       /\ receipt' \in [ok : BOOLEAN, rows : Seq([id : PlannedIds', ok : BOOLEAN])]
  <2>1. PICK g \in BOOLEAN, r \in Seq(S) : g = good /\ r = receipt.rows \o rows
    BY <1>9, <1>11
  <2>2. receipt' = [ok |-> g, rows |-> r]
    BY <2>1
  <2> QED
    BY <1>5, <1>10, <2>1, <2>2
<1>13. /\ OkIds' = OkIds \cup {id \in PlannedIds : Row(id, TRUE) \in ToSet(rows)}
       /\ FailedIds' = FailedIds \cup {id \in PlannedIds : Row(id, FALSE) \in ToSet(rows)}
  <2>1. receipt'.rows = receipt.rows \o rows
    OBVIOUS
  <2>2. Rows' = Rows \cup ToSet(rows)
    BY <1>9, <2>1 DEF Rows
  <2> QED
    BY <2>2, RowsAdded
<1>14. /\ \A id \in PlannedIds : Row(id, TRUE) \in ToSet(rows) =>
             \E k \in 1..n : id = WaveSteps[k].id /\ call.got[k].ok
       /\ \A id \in PlannedIds : Row(id, FALSE) \in ToSet(rows) =>
             \E k \in 1..n : id = WaveSteps[k].id /\ ~call.got[k].ok
  BY <1>7 DEF Row, ToSet
<1>15. FailedIds' \subseteq ToSet(plan.waves[wave])
  <2>1. \A k \in 1..n : WaveSteps[k].id \in ToSet(plan.waves[wave])
    BY <1>2, <1>4 DEF ToSet
  <2>2. FailedIds' = {id \in PlannedIds : Row(id, FALSE) \in ToSet(rows)}
    BY <1>1, <1>13
  <2>3. ASSUME NEW id \in FailedIds' PROVE id \in ToSet(plan.waves[wave])
    <3>1. PICK k \in 1..n : id = WaveSteps[k].id
      BY <1>14, <2>2
    <3> QED
      BY <2>1, <3>1
  <2> QED
    BY <2>3
<1>16. \A id \in OkIds' : id \in OkIds \/ Well(id)
  <2> SUFFICES ASSUME NEW id \in PlannedIds, Row(id, TRUE) \in ToSet(rows) PROVE Well(id)
    BY <1>13
  <2>1. PICK k \in 1..n : id = WaveSteps[k].id /\ call.got[k].ok
    BY <1>14
  <2> QED
    BY <1>3, <1>4, <2>1
<1>17. ASSUME good PROVE FailedIds' = {} /\ ToSet(plan.waves[wave]) \subseteq OkIds'
  <2>1. \A k \in 1..n : call.got[k].ok
    BY <1>7, <1>8, <1>17
  <2>2. \A k \in 1..n : call.got[k].ok = TRUE
    BY <1>3, <1>4, <2>1, Zenon
  <2>3. FailedIds' = {}
    BY <1>1, <1>13, <1>14, <2>2
  <2>4. \A k \in 1..n : Row(WaveSteps[k].id, TRUE) \in ToSet(rows)
    BY <1>7, <2>2 DEF ToSet
  <2>5. \A id \in ToSet(plan.waves[wave]) :
           \E k \in 1..n : id = WaveSteps[k].id /\ id \in PlannedIds
    BY <1>2, <1>4 DEF ToSet
  <2> QED
    BY <1>13, <2>3, <2>4, <2>5
<1> QED
  BY <1>11, <1>12, <1>13, <1>15, <1>16, <1>17, Zenon

\* The run goes on behind a wave.
LEMMA NextWave ==
    ASSUME PlanSound, ProgressInv, wave \in DOMAIN plan.waves, UNCHANGED <<job, plan>>,
           at = Len(plan.waves[wave]) \/ CanPipeline,
           phase' = "run", wave' = wave + 1, at' = 1
    PROVE  /\ ProgressInv' /\ \A p \in Places : Out(p) => Out(p)'
           /\ \A p \in Places : Behind(p)' => \/ Behind(p)
                                              \/ p = <<wave, at>>
                                              \/ CanPipeline /\ p[1] = wave
<1>1. /\ Len(plan.waves) \in Nat /\ DOMAIN plan.waves = 1..Len(plan.waves)
      /\ \A w \in DOMAIN plan.waves : Len(plan.waves[w]) \in Nat \ {0}
                                      /\ DOMAIN plan.waves[w] = 1..Len(plan.waves[w])
  BY Waves1
<1>2. \A p \in Places : /\ p = <<p[1], p[2]>> /\ p[1] \in Nat /\ p[2] \in Nat
                        /\ p[1] \in DOMAIN plan.waves /\ p[2] \in DOMAIN plan.waves[p[1]]
  BY PlacesAre, Zenon
<1>3. wave \in Nat
  BY DEF ProgressInv
<1>4. ProgressInv'
  <2>1. wave' \in 1..(Len(plan.waves') + 1) /\ at' \in Nat \ {0}
    BY <1>1
  <2>2. wave' \in DOMAIN plan.waves' => at' \in DOMAIN plan.waves'[wave']
    BY <1>1
  <2> QED
    BY <2>1, <2>2 DEF ProgressInv
<1>5. ASSUME NEW p \in Places, Behind(p)'
      PROVE  Behind(p) \/ p = <<wave, at>> \/ (CanPipeline /\ p[1] = wave)
  <2>1. p[1] < wave + 1 \/ (p[1] = wave + 1 /\ p[2] < 1)
    BY <1>5 DEF Behind
  <2>2. p[2] \in Nat \ {0} /\ p[1] \in Nat
    BY <1>1, <1>2
  <2>3. p[1] < wave \/ p[1] = wave
    BY <1>3, <2>1, <2>2
  <2>4. ASSUME p[1] = wave, ~CanPipeline PROVE p[2] < at \/ p[2] = at
    <3>1. p[2] \in 1..Len(plan.waves[wave]) /\ at = Len(plan.waves[wave])
      BY <1>1, <1>2, <2>4
    <3> QED
      BY <1>1, <3>1
  <2> QED
    BY <1>2, <2>3, <2>4 DEF Behind
<1>6. ASSUME NEW p \in Places, Out(p) PROVE Out(p)'
  <2>1. p[1] < wave + 1
    BY <1>2, <1>3, <1>6 DEF Out, Behind
  <2> QED
    BY <2>1 DEF Out, Behind
<1> QED
  BY <1>4, <1>5, <1>6

\* The run goes on behind a step of a wave that is not pipelined.
LEMMA ContinueDoes ==
    ASSUME PlanSound, ProgressInv, wave \in DOMAIN plan.waves, UNCHANGED <<job, plan>>,
           ~CanPipeline, Continue(TRUE)
    PROVE  /\ ProgressInv' /\ phase' = "run" /\ \A p \in Places : Out(p) => Out(p)'
           /\ \A p \in Places : Behind(p)' => Behind(p) \/ p = <<wave, at>>
<1>1. /\ Len(WaveSteps) = Len(plan.waves[wave]) /\ Len(plan.waves[wave]) \in Nat
      /\ DOMAIN plan.waves[wave] = 1..Len(plan.waves[wave])
  BY WaveIs, Waves1
<1>2. at \in 1..Len(plan.waves[wave]) /\ wave \in 1..(Len(plan.waves) + 1) /\ phase' = "run"
  BY <1>1 DEF ProgressInv, Continue
<1>3. CASE at < Len(WaveSteps)
  <2>1. at' = at + 1 /\ wave' = wave
    BY <1>3 DEF Continue
  <2>2. CanPipeline' = CanPipeline
    BY <2>1, SameWave
  <2>3. ProgressInv'
    BY <1>1, <1>2, <1>3, <2>1, <2>2 DEF ProgressInv
  <2>4. \A p \in Places : p = <<p[1], p[2]>> /\ p[1] \in Nat /\ p[2] \in Nat
    BY PlacesAre, Zenon
  <2>5. \A p \in Places : Behind(p)' => Behind(p) \/ p = <<wave, at>>
    BY <1>2, <2>1, <2>4 DEF Behind
  <2>6. \A p \in Places : Out(p) => Out(p)'
    BY <1>2, <2>1, <2>2, <2>4 DEF Behind, Out
  <2> QED
    BY <1>2, <2>3, <2>5, <2>6
<1>4. CASE ~(at < Len(WaveSteps))
  <2>1. at = Len(plan.waves[wave]) /\ wave' = wave + 1 /\ at' = 1
    BY <1>1, <1>2, <1>4 DEF Continue
  <2> QED
    BY <1>2, <2>1, NextWave
<1> QED
  BY <1>3, <1>4


\* The run's place in the plan and its rows while neither moves.
LEMMA SamePlace ==
    ASSUME UNCHANGED <<job, plan, wave, at>>
    PROVE  /\ PlannedIds' = PlannedIds /\ Places' = Places /\ WaveSteps' = WaveSteps
           /\ CanPipeline' = CanPipeline /\ Here' = Here
           /\ \A p \in Places : IdAt(p)' = IdAt(p) /\ Behind(p)' = Behind(p)
           /\ phase # "run" /\ phase' # "run" => \A p \in Places : Out(p)' = Out(p)
           /\ \A p \in Places : phase' # "run" /\ Out(p) => Out(p)'
           /\ receipt' = receipt => OkIds' = OkIds /\ FailedIds' = FailedIds
<1>1. /\ PlannedIds' = PlannedIds /\ Places' = Places /\ WaveSteps' = WaveSteps
      /\ CanPipeline' = CanPipeline /\ \A p \in Places : IdAt(p)' = IdAt(p)
      /\ UNCHANGED <<job, plan, wave, at>>
  BY SameWave
<1>2. receipt' = receipt => OkIds' = OkIds /\ FailedIds' = FailedIds
  BY <1>1 DEF OkIds, FailedIds, Rows
<1>3. Here' = Here
  BY <1>1 DEF Here, IdAt
<1>4. \A p \in Places : Behind(p)' = Behind(p)
  BY <1>1 DEF Behind
<1>5. phase # "run" /\ phase' # "run" => \A p \in Places : Out(p)' = Out(p)
  BY <1>1, <1>4 DEF Out
<1>6. \A p \in Places : phase' # "run" /\ Out(p) => Out(p)'
  BY <1>1, <1>4 DEF Out
<1> QED
  BY <1>1, <1>2, <1>3, <1>4, <1>5, <1>6

\* The lines in hand are sent.
LEMMA Sent ==
    ASSUME PlanSound, WireInv, RunInv, wave \in DOMAIN plan.waves, Begin(OpsNow),
           UNCHANGED <<job, plan, wave, at, receipt>>,
           \/ phase = "run" /\ phase' = "await"
           \/ phase = "shot" /\ phase' = "shot"
    PROVE  WireInv' /\ RunInv'
<1>0. ProgressInv /\ CallInv /\ LinesInv /\ RowsInv /\ TruthInv /\ ConfirmedInv /\ WireTypeOK
  BY DEF RunInv, WireInv
<1>1. OpsNow \in Seq(LineOp) /\ OpsNow # <<>>
  BY <1>0, OpsAreTyped
<1>2. WireInv'
  BY <1>1, BeginKept
<1>3. call'.state = "wire" /\ Serving(call', OpsNow, 1) /\ UNCHANGED <<conns, log>>
  BY <1>0, <1>1, BeginDoes
<1>4. /\ PlannedIds' = PlannedIds /\ Places' = Places /\ WaveSteps' = WaveSteps
      /\ CanPipeline' = CanPipeline /\ Here' = Here /\ OkIds' = OkIds /\ FailedIds' = FailedIds
      /\ \A p \in Places : IdAt(p)' = IdAt(p) /\ Behind(p)' = Behind(p)
      /\ \A p \in Places : Out(p) => Out(p)'
  BY SamePlace
<1>5. OpsNow' = OpsNow
  BY <1>4 DEF OpsNow, LinesOf
<1>6. ProgressInv'
  BY <1>0, <1>4 DEF ProgressInv
<1>7. CallInv'
  <2>1. Serving(call', OpsNow', 1)
    BY <1>3, <1>5
  <2>2. 1 \in DOMAIN Chunks(OpsNow')
    BY <2>1 DEF Serving
  <2> QED
    BY <1>3, <2>1, <2>2 DEF CallInv
<1>8. LinesInv'
  BY <1>0, <1>3, <1>4, ReachedMore
<1>9. RowsInv'
  <2>1. \A p \in Places' : Behind(p)' => IdAt(p)' \in OkIds'
    BY <1>0, <1>4 DEF RowsInv
  <2> QED
    BY <1>0, <1>4, <2>1 DEF RowsInv
<1>10. TruthInv' /\ ConfirmedInv'
  <2>1. WireOps' = WireOps /\ \A id : Well(id)' = Well(id)
    BY <1>3, QuietWire
  <2> QED
    BY <1>0, <1>4, <2>1 DEF TruthInv, ConfirmedInv
<1> QED
  BY <1>2, <1>6, <1>7, <1>8, <1>9, <1>10 DEF RunInv

\* The next wave's, step's or picture's lines are sent.
LEMMA SendKept ==
    ASSUME PlanSound, WireInv, RunInv, SendWave \/ SendStep \/ SendShot
    PROVE  WireInv' /\ RunInv'
<1>0. ProgressInv
  BY DEF RunInv
<1>1. Len(plan.waves) \in Nat /\ DOMAIN plan.waves = 1..Len(plan.waves)
  BY Waves1
<1>2. CASE SendWave
  <2>1. wave \in DOMAIN plan.waves /\ phase = "run" /\ phase' = "await"
    BY <1>0, <1>1, <1>2 DEF ProgressInv, SendWave
  <2>2. Begin(OpsNow) /\ UNCHANGED <<job, plan, wave, at, receipt>>
    BY <1>2, <2>1 DEF SendWave, OpsNow, LinesOf
  <2> QED
    BY <2>1, <2>2, Sent
<1>3. CASE SendStep
  <2>1. wave \in DOMAIN plan.waves /\ phase = "run" /\ phase' = "await"
    BY <1>0, <1>1, <1>3 DEF ProgressInv, SendStep
  <2>2. Begin(OpsNow) /\ UNCHANGED <<job, plan, wave, at, receipt>>
    BY <1>3, <2>1 DEF SendStep, OpsNow
  <2> QED
    BY <2>1, <2>2, Sent
<1>4. CASE SendShot
  <2>1. wave \in DOMAIN plan.waves /\ phase = "shot" /\ phase' = "shot"
    BY <1>0, <1>4 DEF ProgressInv, SendShot, runVars
  <2>2. Begin(OpsNow) /\ UNCHANGED <<job, plan, wave, at, receipt>>
    BY <1>4, <2>1 DEF SendShot, OpsNow, runVars
  <2> QED
    BY <2>1, <2>2, Sent
<1> QED
  BY <1>2, <1>3, <1>4

\* What the end of a call leaves alone.
LEMMA Taken ==
    ASSUME WireInv, RunInv, End, UNCHANGED <<job, plan>>, phase \in {"await", "shot"},
           phase' \in {"run", "shot", "done"}, \A p \in Places : Out(p) => Out(p)'
    PROVE  /\ WireInv' /\ CallInv' /\ LinesInv' /\ ConfirmedInv'
           /\ PlannedIds' = PlannedIds /\ Places' = Places
           /\ \A p \in Places : IdAt(p)' = IdAt(p)
           /\ WireOps' = WireOps /\ \A id : Well(id)' = Well(id)
<1>0. ProgressInv /\ CallInv /\ LinesInv /\ RowsInv /\ TruthInv /\ ConfirmedInv
  BY DEF RunInv
<1>1. WireInv' /\ call' = NoCall
  BY EndKept
<1>2. UNCHANGED <<conns, log>>
  BY DEF End, netVars
<1>3. WireOps' = WireOps /\ \A id : Well(id)' = Well(id)
  BY <1>2, QuietWire
<1>4. CallInv'
  BY <1>1 DEF CallInv, NoCall
<1>5. LinesInv'
  BY <1>0, <1>2, ReachedMore
<1>6. ConfirmedInv'
  BY <1>0 DEF ConfirmedInv
<1> QED
  BY <1>1, <1>3, <1>4, <1>5, <1>6 DEF PlannedIds, Places, IdAt

\* The run ends where it is, at a failure.
LEMMA Stopped ==
    ASSUME PlanSound, WireInv, RunInv, End, phase \in {"await", "shot"},
           UNCHANGED <<job, plan, wave, at>>, phase' = "done",
           receipt' \in [ok : BOOLEAN, rows : Seq([id : PlannedIds', ok : BOOLEAN])],
           ~receipt'.ok, OkIds \subseteq OkIds', \A id \in OkIds' : id \in OkIds \/ Well(id),
           IF CanPipeline THEN FailedIds' \subseteq ToSet(plan.waves[wave])
           ELSE FailedIds' = {Here}
    PROVE  WireInv' /\ RunInv'
<1>0. ProgressInv /\ CallInv /\ LinesInv /\ RowsInv /\ TruthInv /\ ConfirmedInv
  BY DEF RunInv
<1>1. /\ PlannedIds' = PlannedIds /\ Places' = Places /\ WaveSteps' = WaveSteps
      /\ CanPipeline' = CanPipeline /\ Here' = Here
      /\ \A p \in Places : IdAt(p)' = IdAt(p) /\ Behind(p)' = Behind(p)
      /\ \A p \in Places : Out(p) => Out(p)'
  BY SamePlace
<1>2. /\ WireInv' /\ CallInv' /\ LinesInv' /\ ConfirmedInv'
      /\ \A id : Well(id)' = Well(id)
  BY <1>1, Taken
<1>3. wave \in DOMAIN plan.waves
  BY <1>0 DEF ProgressInv
<1>4. ProgressInv'
  BY <1>0, <1>1, <1>3 DEF ProgressInv
<1>5. RowsInv'
  <2>1. \A p \in Places' : Behind(p)' => IdAt(p)' \in OkIds'
    BY <1>0, <1>1 DEF RowsInv
  <2> QED
    BY <1>1, <1>3, <2>1 DEF RowsInv
<1>6. TruthInv'
  <2>1. \A id \in OkIds' : Well(id)'
    BY <1>0, <1>2 DEF TruthInv
  <2> QED
    BY <1>1, <1>3, <2>1 DEF TruthInv
<1> QED
  BY <1>2, <1>4, <1>5, <1>6 DEF RunInv

\* The run goes on behind a wave or a step that went well.
LEMMA WentOn ==
    ASSUME PlanSound, WireInv, RunInv, End, phase \in {"await", "shot"},
           UNCHANGED <<job, plan>>, phase' = "run", ProgressInv',
           \A p \in Places : Out(p) => Out(p)',
           receipt' \in [ok : BOOLEAN, rows : Seq([id : PlannedIds', ok : BOOLEAN])],
           receipt'.ok, OkIds \subseteq OkIds', \A id \in OkIds' : id \in OkIds \/ Well(id),
           FailedIds' = {}, \A p \in Places : Behind(p)' => Behind(p) \/ IdAt(p) \in OkIds'
    PROVE  WireInv' /\ RunInv'
<1>0. ProgressInv /\ CallInv /\ LinesInv /\ RowsInv /\ TruthInv /\ ConfirmedInv
  BY DEF RunInv
<1>1. /\ WireInv' /\ CallInv' /\ LinesInv' /\ ConfirmedInv'
      /\ Places' = Places /\ \A p \in Places : IdAt(p)' = IdAt(p)
      /\ \A id : Well(id)' = Well(id)
  BY Taken
<1>2. RowsInv'
  <2>1. \A p \in Places' : Behind(p)' => IdAt(p)' \in OkIds'
    BY <1>0, <1>1 DEF RowsInv
  <2> QED
    BY <2>1 DEF RowsInv
<1>3. TruthInv'
  BY <1>0, <1>1 DEF TruthInv
<1> QED
  BY <1>1, <1>2, <1>3 DEF RunInv


\* A wave's answers are its rows, and the run goes on or ends.
LEMMA WaveAnsweredKept ==
    ASSUME PlanSound, WireInv, RunInv, WaveAnswered PROVE WireInv' /\ RunInv'
<1>0. ProgressInv /\ CallInv /\ LinesInv /\ RowsInv /\ TruthInv /\ ConfirmedInv
  BY DEF RunInv
<1>1. /\ phase = "await" /\ CanPipeline /\ call.state = "ok" /\ End
      /\ UNCHANGED <<job, plan, at>>
  BY DEF WaveAnswered
<1>2. PICK rows : rows = [k \in DOMAIN call.got |-> Row(WaveSteps[k].id, call.got[k].ok)]
  OBVIOUS
<1>3. PICK good : good = (\A k \in DOMAIN rows : rows[k].ok)
  OBVIOUS
<1>4. /\ receipt' = [ok |-> good, rows |-> receipt.rows \o rows]
      /\ phase' = IF good THEN "run" ELSE "done"
      /\ wave' = IF good THEN wave + 1 ELSE wave
  BY <1>2, <1>3, Zenon DEF WaveAnswered
<1>5. /\ good \in BOOLEAN /\ receipt'.ok = good
      /\ receipt' \in [ok : BOOLEAN, rows : Seq([id : PlannedIds', ok : BOOLEAN])]
      /\ OkIds \subseteq OkIds' /\ FailedIds' \subseteq ToSet(plan.waves[wave])
      /\ \A id \in OkIds' : id \in OkIds \/ Well(id)
      /\ good => FailedIds' = {} /\ ToSet(plan.waves[wave]) \subseteq OkIds'
  BY <1>1, <1>2, <1>3, <1>4, WaveRows, Zenon
<1>6. wave \in DOMAIN plan.waves /\ at = 1
  BY <1>0, <1>1 DEF ProgressInv
<1>7. CASE good
  <2>1. phase' = "run" /\ wave' = wave + 1 /\ at' = 1
    BY <1>1, <1>4, <1>6, <1>7
  <2>2. /\ ProgressInv' /\ \A p \in Places : Out(p) => Out(p)'
        /\ \A p \in Places : Behind(p)' => \/ Behind(p)
                                           \/ p = <<wave, at>>
                                           \/ CanPipeline /\ p[1] = wave
    BY <1>0, <1>1, <1>6, <2>1, NextWave
  <2>3. ASSUME NEW p \in Places, Behind(p)' PROVE Behind(p) \/ IdAt(p) \in OkIds'
    <3>1. /\ p[1] \in DOMAIN plan.waves /\ p[2] \in DOMAIN plan.waves[p[1]]
          /\ IdAt(p) = plan.waves[p[1]][p[2]]
      BY PlacesAre, Zenon
    <3>2. Behind(p) \/ p[1] = wave
      BY <2>2, <2>3
    <3> QED
      BY <1>5, <1>7, <3>1, <3>2 DEF ToSet
  <2>4. receipt'.ok /\ FailedIds' = {}
    BY <1>5, <1>7
  <2> QED
    BY <1>1, <1>5, <2>1, <2>2, <2>3, <2>4, WentOn
<1>8. CASE ~good
  <2>1. phase' = "done" /\ wave' = wave /\ ~receipt'.ok
    BY <1>4, <1>5, <1>8
  <2> QED
    BY <1>1, <1>5, <2>1, Stopped
<1> QED
  BY <1>7, <1>8

\* A broken pipeline is one row, for the wave's first step, and the end of the run.
LEMMA WaveBrokeKept ==
    ASSUME PlanSound, WireInv, RunInv, WaveBroke PROVE WireInv' /\ RunInv'
<1>0. ProgressInv /\ CallInv /\ LinesInv /\ RowsInv /\ TruthInv /\ ConfirmedInv
  BY DEF RunInv
<1>1. /\ phase = "await" /\ CanPipeline /\ End /\ UNCHANGED <<job, plan, wave, at>>
      /\ phase' = "done"
      /\ receipt' = [ok |-> FALSE, rows |-> Append(receipt.rows, Row(WaveSteps[1].id, FALSE))]
  BY DEF WaveBroke
<1>2. wave \in DOMAIN plan.waves /\ at = 1
  BY <1>0, <1>1 DEF ProgressInv
<1>3. WaveSteps[1].id = Here /\ Here \in PlannedIds /\ Here \in ToSet(plan.waves[wave])
  BY <1>0, <1>2, ThisStep
<1>4. PICK row : row = Row(Here, FALSE)
  OBVIOUS
<1>5. row \in [id : PlannedIds, ok : BOOLEAN] /\ row.id = Here /\ row.ok = FALSE
  BY <1>3, <1>4 DEF Row
<1>6. /\ Append(receipt.rows, row) \in Seq([id : PlannedIds, ok : BOOLEAN])
      /\ ToSet(Append(receipt.rows, row)) = ToSet(receipt.rows) \cup {row}
  <2>1. PICK S : S = [id : PlannedIds, ok : BOOLEAN]
    OBVIOUS
  <2>2. receipt.rows \in Seq(S) /\ row \in S
    BY <1>0, <1>5, <2>1 DEF RowsInv
  <2>3. /\ Append(receipt.rows, row) \in Seq(S)
        /\ ToSet(Append(receipt.rows, row)) = ToSet(receipt.rows) \cup {row}
    BY <2>2, Added
  <2> QED
    BY <2>1, <2>3
<1>7. PlannedIds' = PlannedIds /\ UNCHANGED plan
  BY <1>1, SamePlace
<1>8. receipt' = [ok |-> FALSE, rows |-> Append(receipt.rows, row)]
  BY <1>1, <1>3, <1>4
<1>9. /\ ~receipt'.ok
      /\ receipt' \in [ok : BOOLEAN, rows : Seq([id : PlannedIds', ok : BOOLEAN])]
  BY <1>6, <1>7, <1>8
<1>10. Rows' = Rows \cup {row}
  BY <1>6, <1>8 DEF Rows
<1>11. /\ OkIds' = OkIds \cup {id \in PlannedIds : Row(id, TRUE) \in {row}}
       /\ FailedIds' = FailedIds \cup {id \in PlannedIds : Row(id, FALSE) \in {row}}
  BY <1>1, <1>10, RowsAdded
<1>12. OkIds' = OkIds \cup {} /\ FailedIds' = FailedIds \cup {Here}
  <2>1. /\ {id \in PlannedIds : Row(id, TRUE) \in {row}} = {}
        /\ {id \in PlannedIds : Row(id, FALSE) \in {row}} = {Here}
    BY <1>3, <1>5 DEF Row
  <2> QED
    BY <1>11, <2>1
<1>13. FailedIds = {}
  BY <1>0, <1>1 DEF RowsInv
<1>14. /\ OkIds \subseteq OkIds' /\ \A id \in OkIds' : id \in OkIds \/ Well(id)
       /\ FailedIds' \subseteq ToSet(plan.waves[wave])
  BY <1>3, <1>12, <1>13
<1> QED
  BY <1>1, <1>9, <1>14, Stopped

\* A step's row, and the run goes on or ends.
LEMMA StepAnsweredKept ==
    ASSUME PlanSound, WireInv, RunInv, StepAnswered PROVE WireInv' /\ RunInv'
<1>0. ProgressInv /\ CallInv /\ LinesInv /\ RowsInv /\ TruthInv /\ ConfirmedInv
  BY DEF RunInv
<1>1. /\ phase = "await" /\ ~CanPipeline /\ call.state \in {"ok", "error"} /\ End
      /\ UNCHANGED <<job, plan>> /\ Continue(StepOk)
      /\ receipt' = [ok |-> StepOk,
                     rows |-> Append(receipt.rows, Row(WaveSteps[at].id, StepOk))]
  BY DEF StepAnswered
<1>2. /\ StepOk \in BOOLEAN /\ receipt'.ok = StepOk
      /\ receipt' \in [ok : BOOLEAN, rows : Seq([id : PlannedIds', ok : BOOLEAN])]
      /\ StepOk => Well(Here) /\ OkIds' = OkIds \cup {Here} /\ FailedIds' = {}
      /\ ~StepOk => OkIds' = OkIds /\ FailedIds' = {Here}
  BY <1>1, StepRow
<1>3. wave \in DOMAIN plan.waves
  BY <1>0, <1>1 DEF ProgressInv
<1>4. CASE StepOk
  <2>1. Continue(TRUE)
    BY <1>1, <1>4 DEF Continue
  <2>2. /\ ProgressInv' /\ phase' = "run" /\ \A p \in Places : Out(p) => Out(p)'
        /\ \A p \in Places : Behind(p)' => Behind(p) \/ p = <<wave, at>>
    BY <1>0, <1>1, <1>3, <2>1, ContinueDoes
  <2>3. \A p \in Places : Behind(p)' => Behind(p) \/ IdAt(p) \in OkIds'
    BY <1>2, <1>4, <2>2 DEF Here
  <2>4. /\ receipt'.ok /\ OkIds \subseteq OkIds' /\ FailedIds' = {}
        /\ \A id \in OkIds' : id \in OkIds \/ Well(id)
    BY <1>2, <1>4
  <2> QED
    BY <1>1, <1>2, <2>2, <2>3, <2>4, WentOn
<1>5. CASE ~StepOk
  <2>1. phase' = "done" /\ UNCHANGED <<wave, at>>
    BY <1>1, <1>5 DEF Continue
  <2>2. /\ ~receipt'.ok /\ OkIds \subseteq OkIds' /\ FailedIds' = {Here}
        /\ \A id \in OkIds' : id \in OkIds \/ Well(id)
    BY <1>2, <1>5
  <2> QED
    BY <1>1, <1>2, <2>1, <2>2, Stopped
<1> QED
  BY <1>4, <1>5

\* A step's row, with its picture still to be taken.
LEMMA StepAnsweredThenShotKept ==
    ASSUME PlanSound, WireInv, RunInv, StepAnsweredThenShot PROVE WireInv' /\ RunInv'
<1>0. ProgressInv /\ CallInv /\ LinesInv /\ RowsInv /\ TruthInv /\ ConfirmedInv
  BY DEF RunInv
<1>1. /\ phase = "await" /\ ~CanPipeline /\ call.state \in {"ok", "error"} /\ End
      /\ UNCHANGED <<job, plan, wave, at>> /\ phase' = "shot"
      /\ receipt' = [ok |-> StepOk,
                     rows |-> Append(receipt.rows, Row(WaveSteps[at].id, StepOk))]
  BY DEF StepAnsweredThenShot
<1>2. /\ StepOk \in BOOLEAN /\ receipt'.ok = StepOk
      /\ receipt' \in [ok : BOOLEAN, rows : Seq([id : PlannedIds', ok : BOOLEAN])]
      /\ StepOk => Well(Here) /\ OkIds' = OkIds \cup {Here} /\ FailedIds' = {}
      /\ ~StepOk => OkIds' = OkIds /\ FailedIds' = {Here}
  BY <1>1, StepRow
<1>3. wave \in DOMAIN plan.waves
  BY <1>0, <1>1 DEF ProgressInv
<1>4. /\ PlannedIds' = PlannedIds /\ Places' = Places /\ WaveSteps' = WaveSteps
      /\ CanPipeline' = CanPipeline /\ Here' = Here
      /\ \A p \in Places : IdAt(p)' = IdAt(p) /\ Behind(p)' = Behind(p)
      /\ \A p \in Places : Out(p) => Out(p)'
  BY <1>1, SamePlace
<1>5. /\ WireInv' /\ CallInv' /\ LinesInv' /\ ConfirmedInv'
      /\ \A id : Well(id)' = Well(id)
  BY <1>1, <1>4, Taken
<1>6. ProgressInv'
  BY <1>0, <1>1, <1>3, <1>4 DEF ProgressInv
<1>7. OkIds \subseteq OkIds' /\ \A id \in OkIds' : id \in OkIds \/ Well(id)
  BY <1>2
<1>8. RowsInv'
  <2>1. \A p \in Places' : Behind(p)' => IdAt(p)' \in OkIds'
    BY <1>0, <1>4, <1>7 DEF RowsInv
  <2>2. CASE StepOk
    BY <1>1, <1>2, <1>4, <2>1, <2>2 DEF RowsInv
  <2>3. CASE ~StepOk
    BY <1>1, <1>2, <1>3, <1>4, <2>1, <2>3 DEF RowsInv
  <2> QED
    BY <2>2, <2>3
<1>9. TruthInv'
  BY <1>0, <1>1, <1>5, <1>7 DEF TruthInv
<1> QED
  BY <1>5, <1>6, <1>8, <1>9 DEF RunInv

\* The picture is there or not; the run goes on if the step went well.
LEMMA ShotAnsweredKept ==
    ASSUME PlanSound, WireInv, RunInv, ShotAnswered PROVE WireInv' /\ RunInv'
<1>0. ProgressInv /\ CallInv /\ LinesInv /\ RowsInv /\ TruthInv /\ ConfirmedInv
  BY DEF RunInv
<1>1. /\ phase = "shot" /\ End /\ Continue(receipt.ok) /\ UNCHANGED <<job, plan, receipt>>
  BY DEF ShotAnswered
<1>2. wave \in DOMAIN plan.waves /\ ~CanPipeline
  BY <1>0, <1>1 DEF ProgressInv
<1>3. /\ PlannedIds' = PlannedIds /\ OkIds' = OkIds /\ FailedIds' = FailedIds
      /\ receipt' \in [ok : BOOLEAN, rows : Seq([id : PlannedIds', ok : BOOLEAN])]
      /\ receipt.ok \in BOOLEAN /\ receipt'.ok = receipt.ok
  BY <1>0, <1>1 DEF RowsInv, PlannedIds, OkIds, FailedIds, Rows
<1>4. CASE receipt.ok
  <2>1. Continue(TRUE)
    BY <1>1, <1>4 DEF Continue
  <2>2. /\ ProgressInv' /\ phase' = "run" /\ \A p \in Places : Out(p) => Out(p)'
        /\ \A p \in Places : Behind(p)' => Behind(p) \/ p = <<wave, at>>
    BY <1>0, <1>1, <1>2, <2>1, ContinueDoes
  <2>3. Here \in OkIds /\ FailedIds = {}
    BY <1>0, <1>1, <1>4 DEF RowsInv
  <2>4. \A p \in Places : Behind(p)' => Behind(p) \/ IdAt(p) \in OkIds'
    BY <1>3, <2>2, <2>3 DEF Here
  <2> QED
    BY <1>1, <1>3, <1>4, <2>2, <2>3, <2>4, WentOn
<1>5. CASE ~receipt.ok
  <2>1. phase' = "done" /\ UNCHANGED <<wave, at>>
    BY <1>1, <1>5 DEF Continue
  <2>2. Here \in FailedIds
    BY <1>0, <1>1, <1>5 DEF RowsInv
  <2>3. FailedIds = {Here}
    BY <1>0, <1>2, <2>2 DEF RowsInv
  <2> QED
    BY <1>1, <1>2, <1>3, <1>5, <2>1, <2>3, Stopped
<1> QED
  BY <1>4, <1>5


-----------------------------------------------------------------------------
(* The start and the end of a run                                          *)

\* Nothing on the wire and nothing performed.
LEMMA EmptyWire ==
    ASSUME WireInv, WireOps = {}
    PROVE  /\ log = <<>>
           /\ \A c \in Conn : conns[c] \in Ends /\ conns[c].up = <<>> /\ conns[c].down = <<>>
<1>0. WireTypeOK /\ HeardInv
  BY DEF WireInv
<1>1. ASSUME NEW S, NEW s \in Seq(S), s # <<>> PROVE \E e \in ToSet(s) : TRUE
  <2>1. 1 \in DOMAIN s
    BY <1>1, HeadTail
  <2> QED
    BY <2>1 DEF ToSet
<1>2. log = <<>>
  <2>1. log \in Seq(Answer) /\ \A a \in ToSet(log) : FALSE
    BY <1>0 DEF WireTypeOK, WireOps, Heeded
  <2> QED
    BY <1>1, <2>1
<1>3. ToSet(log) = {}
  BY DEF WireOps, Heeded
<1>4. ASSUME NEW c \in Conn
      PROVE  conns[c] \in Ends /\ conns[c].up = <<>> /\ conns[c].down = <<>>
  <2>1. conns[c] \in Ends
    BY <1>0 DEF WireTypeOK
  <2>2. conns[c].up \in Seq(Line) /\ conns[c].down \in Seq(Answer)
    BY <2>1 DEF Ends
  <2>3. \A e \in ToSet(conns[c].up) : FALSE
    BY DEF WireOps, OnTheWay
  <2>4. ToSet(conns[c].down) \subseteq ToSet(log)
    BY <1>0 DEF HeardInv, Heard
  <2>5. \A e \in ToSet(conns[c].down) : FALSE
    BY <1>3, <2>4
  <2> QED
    BY <1>1, <2>1, <2>2, <2>3, <2>5
<1> QED
  BY <1>2, <1>4

\* annotate writes an exit down for everything that quits the app.
LEMMA QuitsExit ==
    ASSUME NEW op, Quits(op) PROVE "exit" \in Annotate(op, Registry).effects
<1>1. CASE op.op = "shutdown"
  <2>1. Annotate(op, Registry) = Lookup("shutdown", Registry)
    BY <1>1 DEF Annotate
  <2> QED
    BY <2>1, RegistryAssumption DEF Lookup
<1>2. CASE op.op = "keybinding" /\ op.arg \in QuitBindings
  <2>1. Annotate(op, Registry) = [Lookup("keybinding", Registry) EXCEPT !.effects = {"exit"}]
    BY <1>2 DEF Annotate
  <2> QED
    BY <2>1 DEF Lookup
<1> QED
  BY <1>1, <1>2 DEF Quits

\* A plan with a step that quits the app requires --yes.
LEMMA QuitsNeedYes ==
    ASSUME NEW recipe, NEW set, NEW p, p = Compile(recipe, set, Registry),
           NEW s \in ToSet(p.steps), Quits(s.op)
    PROVE  p.requiresYes
<1> DEFINE steps   == Filled(recipe, set).steps
           ordered == Schedule(steps).order
           planned == [k \in DOMAIN ordered |-> PlannedStep(steps, ordered[k], Registry)]
<1>1. /\ p.steps = planned
      /\ p.requiresYes = (\E k \in DOMAIN planned : "exit" \in planned[k].effects)
  BY DEF Compile
<1>2. PICK k \in DOMAIN planned : s = planned[k]
  BY <1>1 DEF ToSet
<1>3. s = PlannedStep(steps, ordered[k], Registry)
  BY <1>2
<1>4. s.op = steps[ordered[k]].op /\ s.effects = Annotate(steps[ordered[k]].op, Registry).effects
  BY <1>3 DEF PlannedStep
<1>5. "exit" \in planned[k].effects
  BY <1>2, <1>4, QuitsExit
<1> QED
  BY <1>1, <1>5

\* No step of a plan is reached, and there is no row, before its first wave.
LEMMA FirstPlace ==
    ASSUME PlanSound', wave' = 1, at' = 1, receipt'.rows = <<>>
    PROVE  /\ Len(plan'.waves) \in Nat
           /\ 1 \in DOMAIN plan'.waves => 1 \in DOMAIN plan'.waves[1]
           /\ \A p \in Places' : ~Behind(p)'
           /\ OkIds' = {} /\ FailedIds' = {}
<1>1. plan'.waves \in Seq(Seq(PlannedIds') \ {<<>>})
  BY DEF PlanSound
<1>2. Len(plan'.waves) \in Nat /\ DOMAIN plan'.waves = 1..Len(plan'.waves)
  BY <1>1, LenProperties
<1>3. ASSUME NEW w \in DOMAIN plan'.waves
      PROVE  DOMAIN plan'.waves[w] = 1..Len(plan'.waves[w]) /\ Len(plan'.waves[w]) \in Nat \ {0}
  <2>1. plan'.waves[w] \in Seq(PlannedIds') \ {<<>>}
    BY <1>1, Element
  <2> QED
    BY <2>1, EmptySeq, LenProperties
<1>4. 1 \in DOMAIN plan'.waves => 1 \in DOMAIN plan'.waves[1]
  BY <1>3
<1>5. ASSUME NEW p \in Places', Behind(p)' PROVE FALSE
  <2>0. PICK w \in DOMAIN plan'.waves : p \in {w} \X DOMAIN plan'.waves[w]
    BY DEF Places
  <2>1. PICK k \in DOMAIN plan'.waves[w] : p = <<w, k>>
    BY <2>0
  <2>2. w \in Nat \ {0} /\ k \in Nat \ {0}
    BY <1>2, <1>3
  <2>3. w < 1 \/ (w = 1 /\ k < 1)
    BY <1>5, <2>1 DEF Behind
  <2> QED
    BY <2>2, <2>3
<1>6. OkIds' = {} /\ FailedIds' = {}
  BY DEF OkIds, FailedIds, Rows, ToSet
<1> QED
  BY <1>2, <1>4, <1>5, <1>6

\* The wire while nothing happens on it.
LEMMA SameWire ==
    ASSUME WireInv, UNCHANGED plan,
           UNCHANGED <<session, opened, conns, call, calls, hostUp, faults, log>>
    PROVE  WireInv'
<1>0. WireTypeOK /\ ConnsInv /\ ExchangeInv /\ HeardInv
  BY DEF WireInv
<1>1. Busy' = Busy
  BY DEF Busy
<1>2. WireTypeOK'
  BY <1>0, SameTypes DEF WireTypeOK
<1>3. ConnsInv'
  BY <1>0, <1>1 DEF ConnsInv
<1>4. ExchangeInv'
  BY <1>0, <1>1 DEF ExchangeInv
<1>5. HeardInv'
  BY <1>0 DEF HeardInv, Heard
<1> QED
  BY <1>2, <1>3, <1>4, <1>5 DEF WireInv

\* A recipe the planner refuses: the run is over before anything is sent.
LEMMA RejectKept ==
    ASSUME PlanSound', WireInv, RunInv, Reject PROVE WireInv' /\ RunInv'
<1>0. ProgressInv /\ CallInv /\ LinesInv /\ RowsInv /\ TruthInv /\ ConfirmedInv
  BY DEF RunInv
<1>1. /\ phase = "compile" /\ phase' = "done" /\ receipt' = [receipt EXCEPT !.ok = FALSE]
      /\ UNCHANGED <<wireVars, job, plan, wave, at>>
  BY DEF Reject
<1>2. /\ WireOps = {} /\ call = NoCall /\ plan = NoPlan /\ wave = 1 /\ at = 1
      /\ receipt.rows = <<>>
      /\ receipt \in [ok : BOOLEAN, rows : Seq([id : PlannedIds, ok : BOOLEAN])]
  BY <1>0, <1>1 DEF ConfirmedInv, RowsInv
<1>3. UNCHANGED <<session, opened, conns, call, calls, hostUp, faults, log>>
  BY <1>1 DEF wireVars
<1>4. WireInv'
  BY <1>1, <1>3, SameWire
<1>5. WireOps' = {}
  BY <1>2, <1>3, QuietWire
<1>6. receipt'.ok = FALSE /\ receipt'.rows = <<>>
  BY <1>1, <1>2
<1>7. /\ \A p \in Places' : ~Behind(p)'
      /\ OkIds' = {} /\ FailedIds' = {}
  BY <1>1, <1>2, <1>6, FirstPlace
<1>8. ProgressInv'
  <2>1. plan.waves = <<>> /\ Len(plan.waves) = 0 /\ DOMAIN plan.waves = {}
    BY <1>2, EmptySeq DEF NoPlan
  <2> QED
    BY <1>1, <1>2, <2>1 DEF ProgressInv
<1>9. CallInv' /\ LinesInv' /\ TruthInv'
  BY <1>1, <1>2, <1>3, <1>5, <1>7 DEF CallInv, LinesInv, TruthInv, NoCall
<1>10. RowsInv'
  <2>1. receipt' \in [ok : BOOLEAN, rows : Seq([id : PlannedIds', ok : BOOLEAN])]
    BY <1>1, <1>2, EmptySeq DEF PlannedIds
  <2> QED
    BY <1>1, <1>6, <1>7, <2>1 DEF RowsInv
<1>11. ConfirmedInv'
  BY <1>0, <1>1, <1>5 DEF ConfirmedInv
<1> QED
  BY <1>4, <1>8, <1>9, <1>10, <1>11 DEF RunInv

\* A compiled plan: the run begins, or ends for want of --yes.
LEMMA AcceptedKept ==
    ASSUME PlanSound', WireInv, RunInv, Accepted PROVE WireInv' /\ RunInv'
<1>0. ProgressInv /\ CallInv /\ LinesInv /\ RowsInv /\ TruthInv /\ ConfirmedInv
  BY DEF RunInv
<1>1. /\ phase = "compile" /\ plan' = Compile(job.recipe, job.set, Registry)
      /\ IF plan'.requiresYes /\ ~job.yes
         THEN phase' = "done" /\ receipt' = [receipt EXCEPT !.ok = FALSE]
         ELSE phase' = "run" /\ UNCHANGED receipt
      /\ UNCHANGED <<wireVars, job, wave, at>>
  BY DEF Accepted
<1>2. /\ WireOps = {} /\ call = NoCall /\ wave = 1 /\ at = 1 /\ receipt.rows = <<>>
      /\ receipt \in [ok : BOOLEAN, rows : Seq([id : PlannedIds, ok : BOOLEAN])] /\ receipt.ok
  BY <1>0, <1>1 DEF ConfirmedInv, RowsInv
<1>3. UNCHANGED <<session, opened, conns, call, calls, hostUp, faults, log>>
  BY <1>1 DEF wireVars
<1>4. WireOps' = {}
  BY <1>2, <1>3, QuietWire
<1>5. /\ log = <<>>
      /\ \A c \in Conn : conns[c] \in Ends /\ conns[c].up = <<>> /\ conns[c].down = <<>>
  BY <1>2, EmptyWire
<1>6. WireInv'
  <2>0. WireTypeOK /\ ConnsInv /\ HeardInv
    BY DEF WireInv
  <2>1. conns' \in [Conn -> Ends']
    <3>1. \A c \in Conn : conns[c] \in Ends'
      BY <1>5, EmptySeq DEF Ends
    <3> QED
      BY <1>3, <2>0, <3>1 DEF WireTypeOK
  <2>2. log' \in Seq(Answer') /\ call' \in Calls'
    BY <1>2, <1>3, <1>5, EmptySeq DEF Calls, NoCall
  <2>3. WireTypeOK'
    BY <1>3, <2>0, <2>1, <2>2 DEF WireTypeOK
  <2>4. ~Busy' /\ ~Busy
    BY <1>2, <1>3 DEF Busy, NoCall
  <2>5. ConnsInv' /\ ExchangeInv'
    BY <1>3, <2>0, <2>4 DEF ConnsInv, ExchangeInv
  <2>6. HeardInv'
    BY <1>3, <2>0 DEF HeardInv, Heard
  <2> QED
    BY <2>3, <2>5, <2>6 DEF WireInv
<1>7. receipt'.rows = <<>> /\ receipt'.ok \in BOOLEAN /\ (phase' = "done" <=> ~receipt'.ok)
      /\ phase' \in {"run", "done"}
  BY <1>1, <1>2
<1>8. /\ Len(plan'.waves) \in Nat
      /\ 1 \in DOMAIN plan'.waves => 1 \in DOMAIN plan'.waves[1]
      /\ \A p \in Places' : ~Behind(p)'
      /\ OkIds' = {} /\ FailedIds' = {}
  BY <1>1, <1>2, <1>7, FirstPlace
<1>9. ProgressInv'
  BY <1>1, <1>2, <1>7, <1>8 DEF ProgressInv
<1>10. CallInv' /\ LinesInv' /\ TruthInv'
  BY <1>2, <1>3, <1>4, <1>7, <1>8 DEF CallInv, LinesInv, TruthInv, NoCall
<1>11. RowsInv'
  <2>0. PICK b \in BOOLEAN : receipt' = [ok |-> b, rows |-> <<>>]
    BY <1>1, <1>2
  <2>1. receipt' \in [ok : BOOLEAN, rows : Seq([id : PlannedIds', ok : BOOLEAN])]
    BY <2>0, EmptySeq
  <2> QED
    BY <1>7, <1>8, <2>1 DEF RowsInv
<1>12. ConfirmedInv'
  <2>1. \A s \in ToSet(plan'.steps) : Quits(s.op) => plan'.requiresYes
    BY <1>1, QuitsNeedYes
  <2>2. plan'.requiresYes => job'.yes \/ (phase' = "done" /\ WireOps' = {})
    BY <1>1, <1>4
  <2> QED
    BY <1>7, <2>1, <2>2 DEF ConfirmedInv
<1> QED
  BY <1>6, <1>9, <1>10, <1>11, <1>12 DEF RunInv

\* Every wave is behind the run.
LEMMA FinishKept ==
    ASSUME PlanSound, WireInv, RunInv, Finish PROVE WireInv' /\ RunInv'
<1>0. ProgressInv /\ CallInv /\ LinesInv /\ RowsInv /\ TruthInv /\ ConfirmedInv
  BY DEF RunInv
<1>1. /\ phase = "run" /\ wave > Len(plan.waves) /\ phase' = "done"
      /\ UNCHANGED <<wireVars, job, plan, wave, at, receipt>>
  BY DEF Finish
<1>2. UNCHANGED <<session, opened, conns, call, calls, hostUp, faults, log>>
  BY <1>1 DEF wireVars
<1>3. WireInv'
  BY <1>1, <1>2, SameWire
<1>4. /\ PlannedIds' = PlannedIds /\ Places' = Places /\ WaveSteps' = WaveSteps
      /\ CanPipeline' = CanPipeline /\ Here' = Here /\ OkIds' = OkIds /\ FailedIds' = FailedIds
      /\ \A p \in Places : IdAt(p)' = IdAt(p) /\ Behind(p)' = Behind(p)
      /\ \A p \in Places : Out(p) => Out(p)'
  BY <1>1, SamePlace
<1>5. wave = Len(plan.waves) + 1
  BY <1>0, <1>1, Waves1 DEF ProgressInv
<1>6. ProgressInv' /\ CallInv'
  BY <1>0, <1>1, <1>2, <1>4 DEF ProgressInv, CallInv
<1>7. LinesInv'
  BY <1>0, <1>1, <1>2, <1>4, ReachedMore
<1>8. RowsInv'
  <2>1. \A p \in Places' : Behind(p)' => IdAt(p)' \in OkIds'
    BY <1>0, <1>4 DEF RowsInv
  <2> QED
    BY <1>0, <1>1, <1>4, <1>5, <2>1 DEF RowsInv
<1>9. TruthInv' /\ ConfirmedInv'
  <2>1. WireOps' = WireOps /\ \A id : Well(id)' = Well(id)
    BY <1>2, QuietWire
  <2>2. receipt'.ok
    BY <1>0, <1>1 DEF RowsInv
  <2> QED
    BY <1>0, <1>1, <1>4, <2>1, <2>2 DEF TruthInv, ConfirmedInv
<1> QED
  BY <1>3, <1>6, <1>7, <1>8, <1>9 DEF RunInv

\* Nothing happens.
LEMMA RestKept ==
    ASSUME WireInv, RunInv, UNCHANGED vars PROVE WireInv' /\ RunInv'
<1>0. ProgressInv /\ CallInv /\ LinesInv /\ RowsInv /\ TruthInv /\ ConfirmedInv
  BY DEF RunInv
<1>1. /\ UNCHANGED <<session, opened, conns, call, calls, hostUp, faults, log>>
      /\ UNCHANGED <<job, plan, phase, wave, at, receipt, shots>> /\ UNCHANGED runVars
  BY DEF vars, wireVars, runVars
<1>2. WireInv'
  BY <1>1, SameWire
<1>3. /\ PlannedIds' = PlannedIds /\ Places' = Places /\ WaveSteps' = WaveSteps
      /\ CanPipeline' = CanPipeline /\ OpsNow' = OpsNow
      /\ OkIds' = OkIds /\ FailedIds' = FailedIds /\ Here' = Here
      /\ \A p \in Places : IdAt(p)' = IdAt(p) /\ Behind(p)' = Behind(p)
      /\ \A id : Reached(id) => Reached(id)'
  BY <1>1, SameRun
<1>4. WireOps' = WireOps /\ \A id : Well(id)' = Well(id)
  BY <1>1, QuietWire
<1>5. ProgressInv' /\ CallInv' /\ LinesInv' /\ TruthInv' /\ ConfirmedInv'
  BY <1>0, <1>1, <1>3, <1>4 DEF ProgressInv, CallInv, LinesInv, TruthInv, ConfirmedInv
<1>6. RowsInv'
  <2>1. \A p \in Places' : Behind(p)' => IdAt(p)' \in OkIds'
    BY <1>0, <1>3 DEF RowsInv
  <2> QED
    BY <1>0, <1>1, <1>3, <2>1 DEF RowsInv
<1> QED
  BY <1>2, <1>5, <1>6 DEF RunInv


-----------------------------------------------------------------------------
(* The invariant                                                           *)

\* At the start nothing is on the wire and nothing is reported.
LEMMA RunInit == Init => WireInv /\ RunInv
<1> SUFFICES ASSUME Init PROVE WireInv /\ RunInv
  OBVIOUS
<1>1. /\ session = 0 /\ opened = 0 /\ calls = 0 /\ call = NoCall /\ log = <<>>
      /\ conns = [c \in Conn |-> [open |-> FALSE, up |-> <<>>, down |-> <<>>]]
      /\ plan = NoPlan /\ phase = "compile" /\ wave = 1 /\ at = 1
      /\ receipt = [ok |-> TRUE, rows |-> <<>>]
  BY DEF Init, ClientInit
<1>2. ToSet(<<>>) = {} /\ Len(<<>>) = 0
  BY EmptySeq DEF ToSet
<1>3. ~Busy /\ NoCall \in Calls /\ NoCall.got = <<>> /\ NoCall.earlier = <<>>
  BY <1>1, EmptySeq DEF Busy, NoCall, Calls
<1>4. \A c \in Conn : /\ conns[c] \in Ends /\ ~conns[c].open
                      /\ conns[c].up = <<>> /\ conns[c].down = <<>>
  BY <1>1, EmptySeq DEF Ends
<1>5. WireTypeOK
  <2>1. conns \in [Conn -> Ends]
    BY <1>1, <1>4
  <2> QED
    BY <1>1, <1>3, <2>1, ClientAssumption, EmptySeq DEF WireTypeOK
<1>6. ConnsInv /\ ExchangeInv
  BY <1>1, <1>3, <1>4 DEF ConnsInv, ExchangeInv
<1>7. HeardInv
  BY <1>1, <1>2, <1>3, <1>4 DEF HeardInv, Heard
<1>8. WireOps = {}
  BY <1>1, <1>2, <1>4 DEF WireOps, Heeded, OnTheWay
<1>9. /\ plan.waves = <<>> /\ Len(plan.waves) = 0 /\ DOMAIN plan.waves = {}
      /\ plan.steps = <<>> /\ plan.requiresYes = FALSE /\ Places = {}
  BY <1>1, EmptySeq DEF NoPlan, Places
<1>10. ProgressInv /\ CallInv /\ LinesInv
  BY <1>1, <1>8, <1>9 DEF ProgressInv, CallInv, LinesInv, NoCall
<1>11. OkIds = {} /\ FailedIds = {}
  BY <1>1, <1>2 DEF OkIds, FailedIds, Rows
<1>12. RowsInv
  <2>1. receipt \in [ok : BOOLEAN, rows : Seq([id : PlannedIds, ok : BOOLEAN])]
    BY <1>1, EmptySeq
  <2> QED
    BY <1>1, <1>9, <1>11, <2>1 DEF RowsInv
<1>13. TruthInv /\ ConfirmedInv
  BY <1>1, <1>2, <1>8, <1>9, <1>11 DEF TruthInv, ConfirmedInv
<1> QED
  BY <1>5, <1>6, <1>7, <1>10, <1>12, <1>13 DEF WireInv, RunInv

\* Every step keeps the invariant, as long as the plan is sound before and after it.
LEMMA RunNext ==
    PlanSound /\ PlanSound' /\ WireInv /\ RunInv /\ [Next]_vars => WireInv' /\ RunInv'
<1> SUFFICES ASSUME PlanSound, PlanSound', WireInv, RunInv, [Next]_vars
             PROVE  WireInv' /\ RunInv'
  OBVIOUS
<1>1. CASE Reject
  BY <1>1, RejectKept
<1>2. CASE Accepted
  BY <1>2, AcceptedKept
<1>3. CASE SendWave \/ SendStep \/ SendShot
  BY <1>3, SendKept
<1>4. CASE WaveAnswered
  BY <1>4, WaveAnsweredKept
<1>5. CASE WaveBroke
  BY <1>5, WaveBrokeKept
<1>6. CASE StepAnswered
  BY <1>6, StepAnsweredKept
<1>7. CASE StepAnsweredThenShot
  BY <1>7, StepAnsweredThenShotKept
<1>8. CASE ShotAnswered
  BY <1>8, ShotAnsweredKept
<1>9. CASE Finish
  BY <1>9, FinishKept
<1>10. CASE WireStep
  <2>1. (ClientStep \/ HostStep) /\ UNCHANGED runVars /\ UNCHANGED plan
    BY <1>10 DEF WireStep, runVars
  <2> QED
    BY <2>1, WireMoves, WireKeepsRun
<1>11. CASE Rest \/ UNCHANGED vars
  <2>1. UNCHANGED vars
    BY <1>11 DEF Rest
  <2> QED
    BY <2>1, RestKept
<1> QED
  BY <1>1, <1>2, <1>3, <1>4, <1>5, <1>6, <1>7, <1>8, <1>9, <1>10, <1>11 DEF Next, RunStep

\* A plan that keeps the planner's promise is sound in the words of the runner.
LEMMA SoundPlan == ASSUME Sound(plan) PROVE PlanSound
<1>1. /\ PlannedIds = IdsOf(plan) /\ Places = PlacesIn(plan)
      /\ \A p : IdAt(p) = IdIn(plan, p)
  BY DEF PlannedIds, IdsOf, Places, PlacesIn, IdAt, IdIn
<1>2. /\ plan.steps \in Seq(ToSet(plan.steps))
      /\ \A i, j \in DOMAIN plan.steps : plan.steps[i].id = plan.steps[j].id => i = j
      /\ plan.waves \in Seq(Seq(IdsOf(plan)) \ {<<>>})
      /\ \A id \in IdsOf(plan) : \E a \in PlacesIn(plan) : IdIn(plan, a) = id
  BY Zenon DEF Sound
<1>3. \A a, b \in PlacesIn(plan) : Earlier(a, b) <=>
         \E i, j \in DOMAIN plan.steps :
            i < j /\ plan.steps[i].id = IdIn(plan, a) /\ plan.steps[j].id = IdIn(plan, b)
  BY Zenon DEF Sound
<1>4. ASSUME NEW a \in Places, NEW need \in StepOf(IdAt(a)).needs
      PROVE  \E b \in Places : b[1] < a[1] /\ IdAt(b) = need
  <2>1. \E s \in ToSet(plan.steps) : s.id = IdAt(a)
    <3>1. PICK w \in DOMAIN plan.waves, k \in Nat :
             k \in DOMAIN plan.waves[w] /\ IdAt(a) = plan.waves[w][k]
      <4>1. PICK w \in DOMAIN plan.waves : a \in {w} \X DOMAIN plan.waves[w]
        BY DEF Places
      <4>2. plan.waves[w] \in Seq(IdsOf(plan)) \ {<<>>}
        BY <1>2, Element
      <4>3. a[1] = w /\ a[2] \in DOMAIN plan.waves[w] /\ a[2] \in Nat
        BY <4>1, <4>2, LenProperties
      <4> QED
        BY <4>3 DEF IdAt
    <3>2. plan.waves[w] \in Seq(IdsOf(plan)) \ {<<>>}
      BY <1>2, Element
    <3>3. IdAt(a) \in IdsOf(plan)
      BY <3>1, <3>2, Element
    <3> QED
      BY <3>3 DEF IdsOf
  <2>2. StepOf(IdAt(a)) \in ToSet(plan.steps) /\ StepOf(IdAt(a)).id = IdAt(a)
    BY <2>1, Zenon DEF StepOf
  <2>3. \A c \in PlacesIn(plan) : \A s \in ToSet(plan.steps) : s.id = IdIn(plan, c) =>
          \A n \in s.needs : \E b \in PlacesIn(plan) : b[1] < c[1] /\ IdIn(plan, b) = n
    BY Zenon DEF Sound
  <2> QED
    BY <1>1, <2>2, <2>3
<1>5. PlannedIds = IdsOf(plan) /\ plan.waves \in Seq(Seq(PlannedIds) \ {<<>>})
  BY <1>1, <1>2
<1>6. \A id \in PlannedIds : \E p \in Places : IdAt(p) = id
  BY <1>1, <1>2
<1>7. \A p, q \in Places : Earlier(p, q) <=>
          \E i, j \in DOMAIN plan.steps :
             i < j /\ plan.steps[i].id = IdAt(p) /\ plan.steps[j].id = IdAt(q)
  BY <1>1, <1>3
<1> QED
  BY <1>2, <1>4, <1>5, <1>6, <1>7 DEF PlanSound

\* Before there is a plan nothing is asked of it.
LEMMA NoPlanSound == ASSUME plan = NoPlan PROVE PlanSound
<1>1. plan.steps = <<>> /\ plan.waves = <<>> /\ DOMAIN plan.waves = {} /\ DOMAIN plan.steps = {}
  BY EmptySeq DEF NoPlan
<1>2. Places = {} /\ ToSet(plan.steps) = {} /\ PlannedIds = {}
  BY <1>1 DEF Places, PlannedIds, ToSet
<1>3. /\ plan.steps \in Seq(ToSet(plan.steps))
      /\ plan.waves \in Seq(Seq(PlannedIds) \ {<<>>})
  BY <1>1, EmptySeq
<1> QED
  BY <1>1, <1>2, <1>3 DEF PlanSound

\* The runner has no plan but those its planner made.
LEMMA PlanSteps == PlanInv /\ [Next]_vars => PlanInv'
<1> SUFFICES ASSUME PlanInv, [Next]_vars PROVE PlanInv'
  OBVIOUS
<1>1. PICK r \in Recipes : job.recipe = r.recipe /\ job.set = r.set
  BY DEF PlanInv
<1>2. UNCHANGED job
  BY DEF Next, RunStep, Reject, Accepted, SendWave, SendStep, WaveAnswered, WaveBroke,
     StepAnswered, StepAnsweredThenShot, SendShot, ShotAnswered, Finish, Rest, WireStep,
     vars, runVars
<1>3. CASE Accepted
  <2>1. ~Refused(r.recipe, r.set, Registry) /\ plan' = Compile(r.recipe, r.set, Registry)
    BY <1>1, <1>3 DEF Accepted
  <2>3. r.recipe \in RecipesOver(PlanOp)
    BY RecipesAssumption DEF RecipeDoc, RecipeStep, RecipesOver, StepsOver
  <2>2. Sound(plan')
    BY <2>1, <2>3, PlanKeepsPromise DEF PromiseKept
  <2> QED
    BY <1>1, <1>2, <2>2 DEF PlanInv
<1>4. CASE ~Accepted
  <2>1. UNCHANGED plan
    BY <1>4 DEF Next, RunStep, Reject, SendWave, SendStep, WaveAnswered, WaveBroke,
       StepAnswered, StepAnsweredThenShot, SendShot, ShotAnswered, Finish, Rest, WireStep,
       vars, runVars
  <2> QED
    BY <1>1, <1>2, <2>1 DEF PlanInv
<1> QED
  BY <1>3, <1>4

\* Whatever the runner has in hand for a plan is sound.
THEOREM PlanStaysSound == Spec => []PlanSound
<1>1. Init => PlanInv
  BY DEF Init, PlanInv
<1>2. PlanInv /\ [Next]_vars => PlanInv'
  BY PlanSteps
<1>3. PlanInv => PlanSound
  BY SoundPlan, NoPlanSound DEF PlanInv
<1> QED
  BY <1>1, <1>2, <1>3, PTL DEF Spec

\* The wire and the run hold what is written above of them.
THEOREM RunInvariant == Spec => [](PlanSound /\ WireInv /\ RunInv)
<1>1. Init => WireInv /\ RunInv
  BY RunInit
<1>2. PlanSound /\ PlanSound' /\ (WireInv /\ RunInv) /\ [Next]_vars => (WireInv /\ RunInv)'
  BY RunNext
<1> QED
  BY <1>1, <1>2, PlanStaysSound, PTL DEF Spec

-----------------------------------------------------------------------------
(* The properties                                                          *)

\* What the host performed for a step was written for it.
LEMMA PerformedReached ==
    ASSUME WireInv, RunInv, NEW id, Performed(id) # {}
    PROVE  Reached(id) /\ WireOps # {}
<1>1. PICK n \in DOMAIN log : log[n].op.id = id /\ log[n].op.effect # "shot"
  BY DEF Performed
<1>2. log[n].op \in WireOps
  BY DEF WireOps, Heeded, ToSet
<1> QED
  BY <1>1, <1>2 DEF RunInv, LinesInv

\* The rows, as the properties name them.
LEMMA RowsAre ==
    ASSUME RowsInv
    PROVE  /\ \A k \in DOMAIN receipt.rows :
                 IF receipt.rows[k].ok THEN receipt.rows[k].id \in OkIds
                 ELSE receipt.rows[k].id \in FailedIds
           /\ \A id \in OkIds : \E k \in RowsOf(id) : receipt.rows[k].ok
           /\ \A id \in FailedIds : RowsOf(id) # {}
<1>1. PICK S : S = [id : PlannedIds, ok : BOOLEAN]
  OBVIOUS
<1>2. receipt.rows \in Seq(S)
  BY <1>1 DEF RowsInv
<1>3. ASSUME NEW k \in DOMAIN receipt.rows
      PROVE  IF receipt.rows[k].ok THEN receipt.rows[k].id \in OkIds
             ELSE receipt.rows[k].id \in FailedIds
  <2>1. PICK row \in S : row = receipt.rows[k]
    BY <1>2, Element
  <2>2. row \in Rows
    BY <2>1 DEF Rows, ToSet
  <2>3. row.id \in PlannedIds /\ row.ok \in BOOLEAN /\ row = Row(row.id, row.ok)
    BY <1>1, <2>1 DEF Row
  <2>4. CASE row.ok = TRUE
    BY <2>1, <2>2, <2>3, <2>4 DEF OkIds
  <2>5. CASE row.ok = FALSE
    BY <2>1, <2>2, <2>3, <2>5 DEF FailedIds
  <2> QED
    BY <2>3, <2>4, <2>5
<1>4. ASSUME NEW id \in OkIds PROVE \E k \in RowsOf(id) : receipt.rows[k].ok
  BY <1>4 DEF OkIds, Rows, ToSet, RowsOf, Row
<1>5. ASSUME NEW id \in FailedIds PROVE RowsOf(id) # {}
  BY <1>5 DEF FailedIds, Rows, ToSet, RowsOf, Row
<1> QED
  BY <1>3, <1>4, <1>5

\* An answer is the answer to the call's own line (client.rs exchange_wire,
\* exchange_pipeline): the client counts, and every error ends the session.
THEOREM AnswersToTheirLines == Spec => []AnswersMatch
<1>1. WireInv /\ RunInv => AnswersMatch
  <2> SUFFICES ASSUME WireTypeOK, ExchangeInv, NEW k \in DOMAIN call.got, call.state = "wire"
               PROVE  call.got[k].call = calls /\ call.got[k].op = call.ops[k]
    BY DEF WireInv, AnswersMatch
  <2>1. Answers(call.got, 0, call.ops, calls)
    BY DEF ExchangeInv, Busy, Asked
  <2>2. call.got \in Seq(Answer)
    BY DEF WireTypeOK, Calls
  <2>3. k \in 1..Len(call.got) /\ 0 + k = k
    BY <2>2, LenProperties
  <2> QED
    BY <2>1, <2>3 DEF Answers
<1> QED
  BY <1>1, RunInvariant, PTL

\* Nothing that quits the app is performed without --yes (run.rs NeedsYes).
THEOREM NoExitUnlessYes == Spec => []ExitOnlyWithYes
<1>1. PlanSound /\ WireInv /\ RunInv => ExitOnlyWithYes
  <2> SUFFICES ASSUME PlanSound, WireInv, RunInv, NEW n \in DOMAIN log,
                      Quits(StepOf(log[n].op.id).op)
               PROVE  job.yes
    BY DEF ExitOnlyWithYes
  <2>1. log[n] \in Answer
    BY Element DEF WireInv, WireTypeOK
  <2>2. log[n].op.id \in PlannedIds
    BY <2>1 DEF Answer, LineOp
  <2>3. StepOf(log[n].op.id) \in ToSet(plan.steps)
    BY <2>2, StepsById
  <2>4. log[n].op \in WireOps
    BY DEF WireOps, Heeded, ToSet
  <2> QED
    BY <2>3, <2>4 DEF RunInv, ConfirmedInv
<1> QED
  BY <1>1, RunInvariant, PTL

\* Behind a failed step nothing reaches the host but its siblings in a pipeline of
\* reads (run.rs run_plan: a failed wave does not start the next one).
THEOREM FailureStops == Spec => []FailFast
<1>1. PlanSound /\ WireInv /\ RunInv => FailFast
  <2> SUFFICES ASSUME PlanSound, WireInv, RunInv,
                      NEW r \in DOMAIN receipt.rows, ~receipt.rows[r].ok,
                      NEW w \in DOMAIN plan.waves, receipt.rows[r].id \in ToSet(plan.waves[w]),
                      NEW i \in DOMAIN plan.steps, NEW j \in DOMAIN plan.steps,
                      plan.steps[i].id = receipt.rows[r].id, i < j,
                      Performed(plan.steps[j].id) # {}
               PROVE  /\ plan.steps[j].id \in ToSet(plan.waves[w])
                      /\ \A id \in ToSet(plan.waves[w]) : ReadOnly(StepOf(id))
    BY DEF FailFast
  <2>0. RowsInv /\ ProgressInv
    BY DEF RunInv
  <2>1. PICK id : id = receipt.rows[r].id
    OBVIOUS
  <2>2. id \in FailedIds
    BY <2>0, <2>1, RowsAre
  <2>3. /\ wave \in DOMAIN plan.waves
        /\ IF CanPipeline THEN id \in ToSet(plan.waves[wave]) ELSE id = Here
    BY <2>0, <2>2 DEF RowsInv
  <2>4. PICK k \in DOMAIN plan.waves[w] : plan.waves[w][k] = id
    BY <2>1 DEF ToSet
  <2>5. <<w, k>> \in Places /\ IdAt(<<w, k>>) = id
    BY <2>4, PlacesAre
  <2>6. PICK p \in Places : IdAt(p) = plan.steps[j].id /\ Out(p)
    BY PerformedReached DEF Reached
  <2>7. Earlier(<<w, k>>, p)
    BY <2>1, <2>5, <2>6 DEF PlanSound
  <2>8. /\ p = <<p[1], p[2]>> /\ p[1] \in Nat /\ p[2] \in Nat
        /\ p[2] \in DOMAIN plan.waves[p[1]] /\ IdAt(p) = plan.waves[p[1]][p[2]]
        /\ w \in Nat /\ k \in Nat
    BY <2>5, <2>6, PlacesAre
  <2>9. w < p[1] \/ (w = p[1] /\ k < p[2])
    BY <2>7 DEF Earlier
  <2>10. wave \in Nat /\ at \in Nat
    BY <2>0 DEF ProgressInv
  <2>11. CASE CanPipeline
    <3>1. PICK k2 \in DOMAIN plan.waves[wave] : plan.waves[wave][k2] = id
      BY <2>3, <2>11 DEF ToSet
    <3>2. <<wave, k2>> \in Places /\ IdAt(<<wave, k2>>) = id
      BY <2>3, <3>1, PlacesAre
    <3>3. w = wave
      BY <2>5, <3>2, OnePlace
    <3>4. p[1] = wave
      BY <2>6, <2>8, <2>9, <2>10, <3>3 DEF Out, Behind
    <3>5. plan.steps[j].id \in ToSet(plan.waves[w])
      BY <2>6, <2>8, <3>3, <3>4 DEF ToSet
    <3>6. ASSUME NEW id2 \in ToSet(plan.waves[w]) PROVE ReadOnly(StepOf(id2))
      <4>1. PICK k3 \in DOMAIN plan.waves[wave] : plan.waves[wave][k3] = id2
        BY <3>3, <3>6 DEF ToSet
      <4>2. k3 \in DOMAIN WaveSteps /\ WaveSteps[k3] = StepOf(id2)
        BY <2>3, <4>1, WaveIs
      <4> QED
        BY <2>11, <4>2 DEF CanPipeline
    <3> QED
      BY <3>5, <3>6
  <2>12. CASE ~CanPipeline
    <3>1. <<wave, at>> \in Places /\ IdAt(<<wave, at>>) = id
      BY <2>0, <2>3, <2>12, ThisStep
    <3>2. w = wave /\ k = at
      BY <2>5, <3>1, OnePlace
    <3>3. Behind(p) \/ (p[1] = wave /\ p[2] = at)
      BY <2>6, <2>12 DEF Out
    <3> QED
      BY <2>8, <2>9, <2>10, <3>2, <3>3 DEF Behind
  <2> QED
    BY <2>11, <2>12
<1> QED
  BY <1>1, RunInvariant, PTL

\* The receipt tells the truth (run.rs Receipt).
THEOREM ReceiptsAreHonest == Spec => []ReceiptHonest
<1>1. PlanSound /\ WireInv /\ RunInv => ReceiptHonest
  <2> SUFFICES ASSUME PlanSound, WireInv, RunInv PROVE ReceiptHonest
    OBVIOUS
  <2>0. RowsInv /\ ProgressInv /\ TruthInv
    BY DEF RunInv
  <2>1. ASSUME NEW k \in DOMAIN receipt.rows, receipt.rows[k].ok
        PROVE  \E n \in Performed(receipt.rows[k].id) : log[n].ok
    <3>1. PICK id : id = receipt.rows[k].id
      OBVIOUS
    <3>2. Well(id)
      BY <2>0, <2>1, <3>1, RowsAre DEF TruthInv
    <3>3. PICK n \in DOMAIN log : log[n].op.id = id /\ log[n].op.effect # "shot" /\ log[n].ok
      BY <3>2 DEF Well, ToSet
    <3> QED
      BY <3>1, <3>3 DEF Performed
  <2>2. ASSUME phase = "done", NEW s \in ToSet(plan.steps), Performed(s.id) # {}, ~ReadOnly(s)
        PROVE  RowsOf(s.id) # {}
    <3>1. PICK p \in Places : IdAt(p) = s.id /\ Out(p)
      BY <2>2, PerformedReached DEF Reached
    <3>2. /\ p = <<p[1], p[2]>> /\ p[1] \in DOMAIN plan.waves
          /\ p[2] \in DOMAIN plan.waves[p[1]] /\ IdAt(p) = plan.waves[p[1]][p[2]]
      BY <3>1, PlacesAre
    <3>3. StepOf(s.id) = s
      BY StepsById
    <3>4. s.id \in OkIds => RowsOf(s.id) # {}
      BY <2>0, RowsAre
    <3>5. CASE Behind(p)
      BY <2>0, <3>1, <3>4, <3>5 DEF RowsInv
    <3>6. CASE p[1] = wave /\ CanPipeline
      <4>1. p[2] \in DOMAIN WaveSteps /\ WaveSteps[p[2]] = s
        BY <3>1, <3>2, <3>3, <3>6, WaveIs
      <4> QED
        BY <2>2, <3>6, <4>1 DEF CanPipeline
    <3>7. CASE p[1] = wave /\ p[2] = at /\ ~CanPipeline
      <4>1. s.id = Here
        BY <3>1, <3>2, <3>7 DEF Here
      <4>2. ~receipt.ok
        <5>1. wave # Len(plan.waves) + 1
          BY <3>2, <3>7, Waves1
        <5> QED
          BY <2>0, <2>2, <5>1 DEF RowsInv
      <4>3. Here \in FailedIds
        BY <2>0, <2>2, <3>7, <4>2, PerformedReached DEF TruthInv
      <4> QED
        BY <2>0, <4>1, <4>3, RowsAre
    <3> QED
      BY <3>1, <3>5, <3>6, <3>7 DEF Out
  <2>3. ASSUME phase = "done", receipt.ok, NEW id \in PlannedIds
        PROVE  \E k \in RowsOf(id) : receipt.rows[k].ok
    <3>1. PICK p \in Places : IdAt(p) = id
      BY PlacesAre
    <3>2. wave = Len(plan.waves) + 1
      BY <2>0, <2>3 DEF RowsInv
    <3>3. p[1] < wave
      BY <3>1, <3>2, PlacesAre, Waves1
    <3>4. id \in OkIds
      BY <2>0, <3>1, <3>3 DEF RowsInv, Behind
    <3> QED
      BY <2>0, <3>4, RowsAre
  <2> QED
    BY <2>1, <2>2, <2>3 DEF ReceiptHonest
<1> QED
  BY <1>1, RunInvariant, PTL

\* The host's log grows by a line that had been written to it.
LEMMA LogMoves ==
    ASSUME WireInv, [Next]_vars, log' # log PROVE Last(log').op \in WireOps
<1>1. CASE WireStep
  BY <1>1, WireMoves DEF WireStep, runVars
<1>2. CASE ~WireStep
  <2>1. UNCHANGED log
    BY <1>2 DEF Next, RunStep, Reject, Accepted, SendWave, SendStep, WaveAnswered, WaveBroke,
       StepAnswered, StepAnsweredThenShot, SendShot, ShotAnswered, Finish, Rest, Begin, End,
       netVars, vars, wireVars
  <2> QED
    BY <2>1
<1> QED
  BY <1>1, <1>2

\* A step reaches the host only after what it needs was reported ok (plan.rs
\* schedule with run.rs's fail-fast).
THEOREM NeedsComeFirst == Spec => NeedsHonoured
<1>1. PlanSound /\ WireInv /\ RunInv /\ [Next]_vars =>
        (log' # log /\ Last(log').op.effect # "shot" =>
           \A need \in StepOf(Last(log').op.id).needs :
              \E k \in RowsOf(need) : receipt.rows[k].ok)
  <2> SUFFICES ASSUME PlanSound, WireInv, RunInv, [Next]_vars, log' # log,
                      Last(log').op.effect # "shot",
                      NEW need \in StepOf(Last(log').op.id).needs
               PROVE  \E k \in RowsOf(need) : receipt.rows[k].ok
    OBVIOUS
  <2>0. RowsInv /\ ProgressInv /\ LinesInv
    BY DEF RunInv
  <2>1. PICK op : op = Last(log').op
    OBVIOUS
  <2>2. Reached(op.id)
    BY <2>0, <2>1, LogMoves DEF LinesInv
  <2>3. PICK p \in Places : IdAt(p) = op.id /\ Out(p)
    BY <2>2 DEF Reached
  <2>4. PICK q \in Places : q[1] < p[1] /\ IdAt(q) = need
    BY <2>1, <2>3 DEF PlanSound
  <2>5. q[1] < wave
    <3>1. p[1] \in Nat /\ q[1] \in Nat /\ wave \in Nat
      BY <2>0, <2>3, <2>4, PlacesAre DEF ProgressInv
    <3>2. p[1] < wave \/ p[1] = wave
      BY <2>3 DEF Out, Behind
    <3> QED
      BY <2>4, <3>1, <3>2
  <2>6. need \in OkIds
    BY <2>0, <2>4, <2>5 DEF RowsInv, Behind
  <2> QED
    BY <2>0, <2>6, RowsAre
<1> QED
  BY <1>1, RunInvariant, PTL DEF Spec, NeedsHonoured

-----------------------------------------------------------------------------
(* What is sent once                                                       *)

\* The steps of a wave; the waves that go out in one pipeline
StepsIn(w) == [k \in DOMAIN plan.waves[w] |-> StepOf(plan.waves[w][k])]
Pipelined(w) == /\ job.capture = "off" /\ Len(StepsIn(w)) > 1
                /\ \A k \in DOMAIN StepsIn(w) : ReadOnly(StepsIn(w)[k])

\* A step whose line goes out in a chunk of several, and the lines of such steps
InChunk(id) ==
    \E w \in DOMAIN plan.waves : Pipelined(w) /\
       \E n \in DOMAIN Chunks(StepsIn(w)) : Len(Chunks(StepsIn(w))[n]) > 1 /\
          \E k \in DOMAIN Chunks(StepsIn(w))[n] : Chunks(StepsIn(w))[n][k].id = id
OnceOnly(op) == op.effect # "shot" /\ InChunk(op.id)

\* Where a line may be: performed, or on its way on one of the connections
SpotsOf(done, net) == ({0} \X DOMAIN done) \cup UNION {{c} \X DOMAIN net[c].up : c \in Conn}
OpIn(done, net, s) == IF s[1] = 0 THEN done[s[2]].op ELSE net[s[1]].up[s[2]].op
Spots == SpotsOf(log, conns)
OpAt(s) == OpIn(log, conns, s)

\* The step's line is nowhere.
Nowhere(id) == \A s \in Spots : OnceOnly(OpAt(s)) => OpAt(s).id # id

Single == \A s, t \in Spots :
             OnceOnly(OpAt(s)) /\ OnceOnly(OpAt(t)) /\ OpAt(s).id = OpAt(t).id => s = t

\* How many of its ops' lines the call has written, on this try
Written(c, ops) == Before(Len(Chunks(ops)) - Len(c.later)) + c.sent

\* What is still to be written is nowhere yet.
Unsent == Busy => \A k \in DOMAIN OpsNow :
                     k > Written(call, OpsNow) /\ OnceOnly(OpsNow[k]) => Nowhere(OpsNow[k].id)

OnceInv == Single /\ Unsent

\* Lists of one length are cut alike.
LEMMA SameCut ==
    ASSUME NEW S, NEW ops \in Seq(S), NEW T, NEW ops2 \in Seq(T), ops # <<>>,
           Len(ops2) = Len(ops)
    PROVE  \E p \in Nat \ {0} : /\ ChunksOf(S, ops, Chunks(ops), p)
                                /\ ChunksOf(T, ops2, Chunks(ops2), p)
<1>1. ops2 # <<>>
  BY EmptySeq
<1>2. PICK p \in Nat \ {0} : ChunksOf(S, ops, Chunks(ops), p)
  BY ChunksAre, Zenon
<1>3. PICK q \in Nat \ {0} : ChunksOf(T, ops2, Chunks(ops2), q)
  BY <1>1, ChunksAre, Zenon
<1>4. DOMAIN Chunks(ops) = DOMAIN Chunks(ops2)
  BY DEF Chunks
<1>5. 1..p = 1..q
  BY <1>2, <1>3, <1>4, Zenon DEF ChunksOf
<1>6. p \in 1..q /\ q \in 1..p
  BY <1>5
<1>7. p = q
  BY <1>6
<1> QED
  BY <1>2, <1>3, <1>7

\* A place in a list is in one chunk.
LEMMA OneChunk ==
    ASSUME NEW S, NEW ops \in Seq(S), NEW p \in Nat \ {0}, ChunksOf(S, ops, Chunks(ops), p),
           NEW m \in 1..p, NEW n \in 1..p, NEW k \in Nat,
           Before(m) < k, k <= Before(m) + Len(Chunks(ops)[m]),
           Before(n) < k, k <= Before(n) + Len(Chunks(ops)[n])
    PROVE  m = n
<1>1. ASSUME NEW i \in 1..p, NEW j \in 1..p, i < j
      PROVE  Before(i) + Len(Chunks(ops)[i]) <= Before(j)
  <2>1. Len(Chunks(ops)[i]) = MailboxDepth
    <3>1. i < p
      BY <1>1
    <3> QED
      BY <3>1, Zenon DEF ChunksOf
  <2>2. /\ Before(i) + MailboxDepth = i * MailboxDepth
        /\ i * MailboxDepth <= (j - 1) * MailboxDepth
        /\ Before(j) = (j - 1) * MailboxDepth
    <3>1. i \in Nat /\ j - 1 \in Nat /\ i <= j - 1
      BY <1>1
    <3> QED
      BY <3>1, NextChunk, Monotone DEF Before
  <2> QED
    BY <2>1, <2>2
<1>2. \A i \in 1..p : Before(i) \in Nat /\ Len(Chunks(ops)[i]) \in Nat
  <2>1. \A i \in 1..p : Chunks(ops)[i] \in Seq(S)
    BY Element, Zenon DEF ChunksOf
  <2> QED
    BY <2>1, LenProperties DEF ChunksOf
<1>3. ~(m < n)
  BY <1>1, <1>2
<1>4. ~(n < m)
  BY <1>1, <1>2
<1> QED
  BY <1>3, <1>4

\* A call's chunk in the list of its ops, and how far it is in it.
LEMMA ChunkAt ==
    ASSUME NEW S, NEW ops \in Seq(S), ops # <<>>, NEW c \in Calls, NEW n,
           Serving(c, ops, n)
    PROVE  /\ n \in Nat \ {0} /\ n <= Len(Chunks(ops)) /\ Len(Chunks(ops)) \in Nat
           /\ c.ops \in Seq(S) /\ c.ops = Chunks(ops)[n] /\ n \in DOMAIN Chunks(ops)
           /\ Before(n) \in Nat /\ Len(c.ops) \in Nat \ {0}
           /\ Before(n) + Len(c.ops) <= Len(ops)
           /\ \A k \in 1..Len(c.ops) : c.ops[k] = ops[Before(n) + k]
           /\ c.later # <<>> => Before(n) + Len(c.ops) = Before(n + 1)
           /\ Written(c, ops) = Before(n) + c.sent
<1>1. PICK p \in Nat \ {0} : ChunksOf(S, ops, Chunks(ops), p)
  BY ChunksAre, Zenon
<1>2. /\ n \in 1..p /\ c.ops = Chunks(ops)[n] /\ Chunks(ops) \in Seq(Seq(S))
      /\ DOMAIN Chunks(ops) = 1..p /\ Len(Chunks(ops)) = p /\ Chunks(ops)[n] # <<>>
      /\ Before(n) \in Nat /\ Before(n) + Len(Chunks(ops)[n]) <= Len(ops)
      /\ \A k \in 1..Len(Chunks(ops)[n]) : Chunks(ops)[n][k] = ops[Before(n) + k]
      /\ n < p => Len(Chunks(ops)[n]) = MailboxDepth
  BY <1>1, Zenon DEF ChunksOf, Serving
<1>3. Chunks(ops)[n] \in Seq(S) /\ Len(Chunks(ops)[n]) \in Nat \ {0}
  <2>1. Chunks(ops)[n] \in Seq(S)
    BY <1>2, Element
  <2> QED
    BY <1>2, <2>1, HeadTail
<1>4. Len(c.later) = p - n
  BY <1>2 DEF Serving
<1>5. c.later # <<>> => Before(n) + Len(c.ops) = Before(n + 1)
  <2> SUFFICES ASSUME c.later # <<>> PROVE Before(n) + Len(c.ops) = Before(n + 1)
    OBVIOUS
  <2>1. n < p \/ n = p
    BY <1>2
  <2>2. CASE n < p
    BY <1>2, <2>2, NextChunk
  <2>3. CASE n = p
    <3>1. c.later \in Seq(Seq(LineOp)) /\ Len(c.later) = 0
      BY <1>2, <1>4, <2>3 DEF Calls
    <3> QED
      BY <3>1, EmptySeq
  <2> QED
    BY <2>1, <2>2, <2>3
<1>6. Written(c, ops) = Before(n) + c.sent
  <2>1. Len(Chunks(ops)) - Len(c.later) = n
    BY <1>2, <1>4
  <2> QED
    BY <2>1 DEF Written
<1> QED
  BY <1>2, <1>3, <1>5, <1>6

\* The steps of any wave of the plan.
LEMMA StepsAre ==
    ASSUME PlanSound, NEW w \in DOMAIN plan.waves
    PROVE  /\ StepsIn(w) \in Seq(ToSet(plan.steps)) /\ StepsIn(w) # <<>>
           /\ Len(StepsIn(w)) = Len(plan.waves[w]) /\ Len(StepsIn(w)) \in Nat \ {0}
           /\ DOMAIN StepsIn(w) = 1..Len(StepsIn(w))
           /\ DOMAIN StepsIn(w) = DOMAIN plan.waves[w]
           /\ \A k \in DOMAIN StepsIn(w) : StepsIn(w)[k].id = plan.waves[w][k]
<1>1. PICK n \in Nat \ {0} : n = Len(plan.waves[w]) /\ DOMAIN plan.waves[w] = 1..n
  BY Waves1
<1>2. \A k \in 1..n : plan.waves[w][k] \in PlannedIds
  BY <1>1, Waves1
<1>3. StepsIn(w) = [k \in 1..n |-> StepOf(plan.waves[w][k])]
  BY <1>1, Zenon DEF StepsIn
<1>4. \A k \in 1..n : /\ StepOf(plan.waves[w][k]) \in ToSet(plan.steps)
                      /\ StepOf(plan.waves[w][k]).id = plan.waves[w][k]
  BY <1>2, StepsById
<1>5. StepsIn(w) \in Seq(ToSet(plan.steps)) /\ DOMAIN StepsIn(w) = 1..n
  BY <1>3, <1>4
<1>6. Len(StepsIn(w)) = n /\ StepsIn(w) # <<>>
  BY <1>5, LenProperties, EmptySeq
<1> QED
  BY <1>1, <1>3, <1>4, <1>5, <1>6

\* A step sent in a chunk of several: its wave, and the chunk its place is in.
LEMMA InChunkAt ==
    ASSUME PlanSound, NEW w \in DOMAIN plan.waves, NEW k \in DOMAIN plan.waves[w],
           InChunk(plan.waves[w][k])
    PROVE  /\ Pipelined(w)
           /\ \E n \in DOMAIN Chunks(StepsIn(w)) :
                /\ Len(Chunks(StepsIn(w))[n]) > 1
                /\ Before(n) < k /\ k <= Before(n) + Len(Chunks(StepsIn(w))[n])
<1>1. PICK v, n, j :
         /\ v \in DOMAIN plan.waves /\ Pipelined(v) /\ n \in DOMAIN Chunks(StepsIn(v))
         /\ Len(Chunks(StepsIn(v))[n]) > 1 /\ j \in DOMAIN Chunks(StepsIn(v))[n]
         /\ Chunks(StepsIn(v))[n][j].id = plan.waves[w][k]
  BY Zenon DEF InChunk
<1>2. PICK steps \in Seq(ToSet(plan.steps)) :
         /\ steps = StepsIn(v) /\ steps # <<>> /\ DOMAIN steps = 1..Len(steps)
         /\ Len(steps) \in Nat
         /\ DOMAIN steps = DOMAIN plan.waves[v]
         /\ \A i \in DOMAIN steps : steps[i].id = plan.waves[v][i]
  BY <1>1, StepsAre
<1>3. PICK p \in Nat \ {0} : ChunksOf(ToSet(plan.steps), steps, Chunks(steps), p)
  BY <1>2, ChunksAre, Zenon
<1>4. /\ n \in 1..p /\ Chunks(steps) \in Seq(Seq(ToSet(plan.steps)))
      /\ Before(n) \in Nat /\ Before(n) + Len(Chunks(steps)[n]) <= Len(steps)
      /\ \A i \in 1..Len(Chunks(steps)[n]) : Chunks(steps)[n][i] = steps[Before(n) + i]
  BY <1>1, <1>2, <1>3, Zenon DEF ChunksOf
<1>5. PICK g \in Nat : g = Len(Chunks(steps)[n]) /\ DOMAIN Chunks(steps)[n] = 1..g
  <2>1. Chunks(steps)[n] \in Seq(ToSet(plan.steps))
    BY <1>1, <1>2, <1>4, Element
  <2> QED
    BY <2>1, LenProperties
<1>6. PICK i \in Nat : /\ i = Before(n) + j /\ Before(n) < i /\ i <= Before(n) + g
                      /\ i \in 1..Len(steps)
  <2>1. PICK b \in Nat, l \in Nat : b = Before(n) /\ l = Len(steps) /\ b + g <= l /\ j \in 1..g
    BY <1>1, <1>2, <1>4, <1>5
  <2>2. b + j \in Nat /\ b < b + j /\ b + j <= b + g /\ b + j \in 1..l
    BY <2>1
  <2> QED
    BY <2>1, <2>2
<1>7. plan.waves[v][i] = plan.waves[w][k]
  BY <1>1, <1>2, <1>4, <1>5, <1>6
<1>8. <<v, i>> = <<w, k>>
  <2>1. /\ <<v, i>> \in Places /\ IdAt(<<v, i>>) = plan.waves[v][i]
        /\ <<w, k>> \in Places /\ IdAt(<<w, k>>) = plan.waves[w][k]
    BY <1>1, <1>2, <1>6, PlacesAre, Zenon
  <2> QED
    BY <1>7, <2>1, OnePlace, Zenon
<1>9. v = w /\ i = k
  BY <1>8
<1> QED
  BY <1>1, <1>2, <1>5, <1>6, <1>9

\* A line that goes out alone is not one of those.
LEMMA AloneRepeats ==
    ASSUME PlanSound, ProgressInv, wave \in DOMAIN plan.waves, phase = "shot" \/ ~CanPipeline,
           NEW k \in DOMAIN OpsNow
    PROVE  ~OnceOnly(OpsNow[k])
<1>1. CASE phase = "shot"
  BY <1>1, OpsAreTyped DEF OnceOnly, ToSet
<1>2. CASE phase # "shot" /\ ~CanPipeline
  <2>1. k = 1 /\ OpsNow[1].id = WaveSteps[at].id
    BY <1>2, OpsAreTyped, LenProperties DEF StepLine
  <2>2. at \in DOMAIN plan.waves[wave] /\ WaveSteps[at].id = plan.waves[wave][at]
    BY WaveIs DEF ProgressInv
  <2>3. InChunk(plan.waves[wave][at]) => Pipelined(wave)
    BY <2>2, InChunkAt
  <2>4. Pipelined(wave) => CanPipeline
    BY DEF Pipelined, CanPipeline, StepsIn, WaveSteps
  <2> QED
    BY <1>2, <2>1, <2>2, <2>3, <2>4 DEF OnceOnly
<1> QED
  BY <1>1, <1>2

\* A pipeline's lines are those of its wave's steps, no two of one step.
LEMMA LinesInWave ==
    ASSUME PlanSound, ProgressInv, wave \in DOMAIN plan.waves, phase # "shot", CanPipeline
    PROVE  /\ Len(OpsNow) = Len(StepsIn(wave)) /\ DOMAIN OpsNow = DOMAIN plan.waves[wave]
           /\ \A k \in DOMAIN OpsNow : OpsNow[k].id = plan.waves[wave][k]
           /\ \A i, j \in DOMAIN OpsNow : OpsNow[i].id = OpsNow[j].id => i = j
<1>1. /\ OpsNow \in Seq(LineOp) /\ Len(OpsNow) = Len(WaveSteps)
      /\ \A k \in 1..Len(WaveSteps) : OpsNow[k] = StepLine(WaveSteps[k])
  BY OpsAreTyped
<1>2. /\ DOMAIN WaveSteps = DOMAIN plan.waves[wave] /\ DOMAIN WaveSteps = 1..Len(WaveSteps)
      /\ \A k \in DOMAIN WaveSteps : WaveSteps[k].id = plan.waves[wave][k]
  BY WaveIs
<1>3. DOMAIN OpsNow = 1..Len(WaveSteps)
  BY <1>1, LenProperties
<1>4. StepsIn(wave) = WaveSteps
  BY DEF StepsIn, WaveSteps
<1>5. \A k \in DOMAIN OpsNow : OpsNow[k].id = plan.waves[wave][k]
  BY <1>1, <1>2, <1>3 DEF StepLine
<1>6. ASSUME NEW i \in DOMAIN OpsNow, NEW j \in DOMAIN OpsNow, OpsNow[i].id = OpsNow[j].id
      PROVE  i = j
  <2>1. /\ <<wave, i>> \in Places /\ IdAt(<<wave, i>>) = plan.waves[wave][i]
        /\ <<wave, j>> \in Places /\ IdAt(<<wave, j>>) = plan.waves[wave][j]
    BY <1>2, <1>3, PlacesAre, Zenon
  <2>2. <<wave, i>> = <<wave, j>>
    BY <1>5, <1>6, <2>1, OnePlace, Zenon
  <2> QED
    BY <2>2
<1> QED
  BY <1>1, <1>2, <1>3, <1>4, <1>5, <1>6

\* A chunk of a single line is sent again after an error, and may be.
LEMMA LoneChunk ==
    ASSUME PlanSound, ProgressInv, wave \in DOMAIN plan.waves,
           NEW c \in Calls, NEW n, Serving(c, OpsNow, n), Len(c.ops) = 1
    PROVE  ~OnceOnly(OpsNow[Before(n) + 1])
<1>1. OpsNow \in Seq(LineOp) /\ OpsNow # <<>>
  BY OpsAreTyped
<1>2. /\ n \in DOMAIN Chunks(OpsNow) /\ c.ops = Chunks(OpsNow)[n]
      /\ Before(n) \in Nat /\ Before(n) + 1 <= Len(OpsNow)
  BY <1>1, ChunkAt
<1>3. PICK k \in Nat : k = Before(n) + 1 /\ k \in DOMAIN OpsNow /\ Before(n) < k
  BY <1>1, <1>2, LenProperties
<1>4. CASE phase = "shot" \/ ~CanPipeline
  BY <1>3, <1>4, AloneRepeats
<1>5. CASE phase # "shot" /\ CanPipeline
  <2> SUFFICES ASSUME OnceOnly(OpsNow[k]) PROVE FALSE
    BY <1>3
  <2>1. /\ Len(OpsNow) = Len(StepsIn(wave)) /\ DOMAIN OpsNow = DOMAIN plan.waves[wave]
        /\ OpsNow[k].id = plan.waves[wave][k]
    BY <1>3, <1>5, LinesInWave
  <2>2. PICK m \in DOMAIN Chunks(StepsIn(wave)) :
          /\ Len(Chunks(StepsIn(wave))[m]) > 1
          /\ Before(m) < k /\ k <= Before(m) + Len(Chunks(StepsIn(wave))[m])
    BY <1>3, <2>1, InChunkAt DEF OnceOnly
  <2>3. PICK steps \in Seq(ToSet(plan.steps)) : steps = StepsIn(wave)
    BY StepsAre
  <2>4. PICK p \in Nat \ {0} : /\ ChunksOf(LineOp, OpsNow, Chunks(OpsNow), p)
                               /\ ChunksOf(ToSet(plan.steps), steps, Chunks(steps), p)
    BY <1>1, <2>1, <2>3, SameCut
  <2>5. m \in 1..p /\ n \in 1..p
    BY <1>2, <2>2, <2>3, <2>4, Zenon DEF ChunksOf
  <2>6. Len(Chunks(steps)[n]) = Len(Chunks(OpsNow)[n])
    <3>1. n < p \/ n = p
      BY <2>5
    <3>2. CASE n < p
      BY <2>4, <2>5, <3>2, Zenon DEF ChunksOf
    <3>3. CASE n = p
      <4>1. /\ Before(n) + Len(Chunks(steps)[n]) = Len(steps)
            /\ Before(n) + Len(Chunks(OpsNow)[n]) = Len(OpsNow)
        BY <2>4, <2>5, <3>3, Zenon DEF ChunksOf
      <4>2. Chunks(steps)[n] \in Seq(ToSet(plan.steps)) /\ Chunks(OpsNow)[n] \in Seq(LineOp)
        BY <2>4, <2>5, Element DEF ChunksOf
      <4>3. Len(Chunks(steps)[n]) \in Nat /\ Len(Chunks(OpsNow)[n]) \in Nat
        BY <4>2, LenProperties
      <4>4. PICK b \in Nat, x \in Nat, y \in Nat :
              b = Before(n) /\ x = Len(Chunks(steps)[n]) /\ y = Len(Chunks(OpsNow)[n])
        BY <1>2, <4>3
      <4>5. b + x = b + y
        BY <2>1, <2>3, <4>1, <4>4
      <4> QED
        BY <4>4, <4>5
    <3> QED
      BY <3>1, <3>2, <3>3
  <2>7. k <= Before(n) + Len(Chunks(steps)[n])
    <3>1. Len(Chunks(steps)[n]) = 1
      BY <1>2, <2>6
    <3> QED
      BY <1>3, <3>1
  <2>8. m = n
    BY <1>3, <2>2, <2>3, <2>4, <2>5, <2>7, OneChunk
  <2> QED
    BY <1>2, <2>2, <2>3, <2>6, <2>8
<1> QED
  BY <1>3, <1>4, <1>5

\* The places a line may be at.
LEMMA SpotIs ==
    ASSUME NEW done, NEW net
    PROVE  /\ \A s \in SpotsOf(done, net) :
                /\ s = <<s[1], s[2]>>
                /\ \/ /\ s[1] = 0 /\ s[2] \in DOMAIN done
                      /\ OpIn(done, net, s) = done[s[2]].op
                   \/ /\ s[1] \in Conn /\ s[2] \in DOMAIN net[s[1]].up
                      /\ OpIn(done, net, s) = net[s[1]].up[s[2]].op
           /\ \A k \in DOMAIN done : /\ <<0, k>> \in SpotsOf(done, net)
                                     /\ OpIn(done, net, <<0, k>>) = done[k].op
           /\ \A c \in Conn : \A k \in DOMAIN net[c].up :
                /\ <<c, k>> \in SpotsOf(done, net)
                /\ OpIn(done, net, <<c, k>>) = net[c].up[k].op
<1>1. 0 \notin Conn
  BY ClientAssumption DEF Conn
<1>2. ASSUME NEW s \in SpotsOf(done, net)
      PROVE  /\ s = <<s[1], s[2]>>
             /\ \/ s[1] = 0 /\ s[2] \in DOMAIN done
                \/ s[1] \in Conn /\ s[2] \in DOMAIN net[s[1]].up
  BY DEF SpotsOf
<1>3. \A k \in DOMAIN done : <<0, k>> \in SpotsOf(done, net)
  BY DEF SpotsOf
<1>4. ASSUME NEW c \in Conn, NEW k \in DOMAIN net[c].up PROVE <<c, k>> \in SpotsOf(done, net)
  BY DEF SpotsOf
<1> QED
  BY <1>1, <1>2, <1>3, <1>4 DEF OpIn

\* Which lines go out once is a matter of the plan.
LEMMA SameOnce ==
    ASSUME UNCHANGED <<job, plan>>
    PROVE  \A op : OnceOnly(op)' = OnceOnly(op)
<1>1. \A w : StepsIn(w)' = StepsIn(w)
  BY DEF StepsIn, StepOf
<1>2. \A w : Pipelined(w)' = Pipelined(w)
  BY <1>1 DEF Pipelined, ReadOnly
<1>3. \A id : InChunk(id)' = InChunk(id)
  BY <1>1, <1>2 DEF InChunk
<1> QED
  BY <1>3 DEF OnceOnly

\* Lines that only move, or are lost, stay single.
LEMMA SpotsMove ==
    ASSUME UNCHANGED <<job, plan>>, Single, NEW From,
           \A s \in Spots' : From[s] \in Spots /\ OpAt(s)' = OpAt(From[s]),
           \A s, t \in Spots' : From[s] = From[t] => s = t
    PROVE  Single' /\ \A id : Nowhere(id) => Nowhere(id)'
<1>1. \A op : OnceOnly(op)' = OnceOnly(op)
  BY SameOnce
<1>2. ASSUME NEW s \in Spots', NEW t \in Spots',
             OnceOnly(OpAt(s))', OnceOnly(OpAt(t))', OpAt(s)'.id = OpAt(t)'.id
      PROVE  s = t
  <2>1. /\ From[s] \in Spots /\ From[t] \in Spots
        /\ OnceOnly(OpAt(From[s])) /\ OnceOnly(OpAt(From[t]))
        /\ OpAt(From[s]).id = OpAt(From[t]).id
    <3>1. OpAt(s)' = OpAt(From[s]) /\ OpAt(t)' = OpAt(From[t])
      OBVIOUS
    <3>2. OnceOnly(OpAt(From[s])) /\ OnceOnly(OpAt(From[t]))
      BY <1>1, <1>2, <3>1 DEF OnceOnly
    <3> QED
      BY <1>2, <3>1, <3>2
  <2>2. From[s] = From[t]
    BY <2>1 DEF Single
  <2> QED
    BY <2>2
<1>3. ASSUME NEW id, Nowhere(id), NEW s \in Spots', OnceOnly(OpAt(s))' PROVE OpAt(s)'.id # id
  <2>1. OpAt(s)' = OpAt(From[s]) /\ From[s] \in Spots
    OBVIOUS
  <2>2. OnceOnly(OpAt(From[s]))
    BY <1>1, <1>3, <2>1 DEF OnceOnly
  <2> QED
    BY <1>3, <2>1, <2>2 DEF Nowhere
<1> QED
  BY <1>2, <1>3 DEF Single, Nowhere

\* The places the lines are at now.
LEMMA SpotHere ==
    /\ \A k \in DOMAIN log : <<0, k>> \in Spots /\ OpAt(<<0, k>>) = log[k].op
    /\ \A c \in Conn : \A k \in DOMAIN conns[c].up :
          <<c, k>> \in Spots /\ OpAt(<<c, k>>) = conns[c].up[k].op
<1>1. PICK done, net : done = log /\ net = conns
  OBVIOUS
<1>2. ASSUME NEW k \in DOMAIN done
      PROVE  <<0, k>> \in SpotsOf(done, net) /\ OpIn(done, net, <<0, k>>) = done[k].op
  BY SpotIs
<1>3. ASSUME NEW c \in Conn, NEW k \in DOMAIN net[c].up
      PROVE  /\ <<c, k>> \in SpotsOf(done, net)
             /\ OpIn(done, net, <<c, k>>) = net[c].up[k].op
  BY SpotIs
<1> QED
  BY <1>1, <1>2, <1>3 DEF Spots, OpAt

\* Lines that stay where they are, or are lost with their connection.
LEMMA SpotsStayed ==
    ASSUME UNCHANGED log,
           \A c \in Conn : conns'[c].up = conns[c].up \/ conns'[c].up = <<>>
    PROVE  \A s \in Spots' : s \in Spots /\ OpAt(s)' = OpAt(s)
<1> SUFFICES ASSUME NEW s \in Spots' PROVE s \in Spots /\ OpAt(s)' = OpAt(s)
  OBVIOUS
<1> QED
  <2>1. /\ s = <<s[1], s[2]>>
        /\ \/ s[1] = 0 /\ s[2] \in DOMAIN log /\ OpAt(s)' = log[s[2]].op
           \/ s[1] \in Conn /\ s[2] \in DOMAIN conns'[s[1]].up
              /\ OpAt(s)' = conns'[s[1]].up[s[2]].op
    BY SpotIs DEF Spots, OpAt
  <2>2. CASE s[1] = 0 /\ s[2] \in DOMAIN log /\ OpAt(s)' = log[s[2]].op
    <3>1. <<0, s[2]>> \in Spots /\ OpAt(<<0, s[2]>>) = log[s[2]].op
      BY <2>2, SpotHere
    <3>2. s = <<0, s[2]>>
      BY <2>1, <2>2
    <3> QED
      BY <2>2, <3>1, <3>2
  <2>3. CASE /\ s[1] \in Conn /\ s[2] \in DOMAIN conns'[s[1]].up
             /\ OpAt(s)' = conns'[s[1]].up[s[2]].op
    <3>0. PICK c \in Conn : c = s[1]
      BY <2>3
    <3>1. conns'[c].up # <<>>
      BY <2>3, <3>0, EmptySeq
    <3>2. conns'[c].up = conns[c].up
      BY <3>1
    <3>3. <<c, s[2]>> \in Spots /\ OpAt(<<c, s[2]>>) = conns[c].up[s[2]].op
      BY <2>3, <3>0, <3>2, SpotHere
    <3>4. s = <<c, s[2]>>
      BY <2>1, <3>0
    <3> QED
      BY <2>3, <3>0, <3>2, <3>3, <3>4
  <2> QED
    BY <2>1, <2>2, <2>3

\* They stay single.
LEMMA SpotsStay ==
    ASSUME UNCHANGED <<job, plan, log>>, Single,
           \A c \in Conn : conns'[c].up = conns[c].up \/ conns'[c].up = <<>>
    PROVE  Single' /\ \A id : Nowhere(id) => Nowhere(id)'
<1>1. \A s \in Spots' : s \in Spots /\ OpAt(s)' = OpAt(s)
  BY SpotsStayed
<1>2. PICK From : From = [s \in Spots' |-> s]
  OBVIOUS
<1>3. \A s \in Spots' : From[s] = s
  BY <1>2
<1>4. /\ \A s \in Spots' : From[s] \in Spots /\ OpAt(s)' = OpAt(From[s])
      /\ \A s, t \in Spots' : From[s] = From[t] => s = t
  BY <1>1, <1>3
<1> QED
  BY <1>4, SpotsMove

\* The line performed moves to the log, those behind it move up.
LEMMA SpotsPerformed ==
    ASSUME WireTypeOK, NEW c \in Conn, NEW answer \in Answer, HostPerforms(c, answer)
    PROVE  \E From :
             /\ \A s \in Spots' : /\ From[s] \in Spots /\ OpAt(s)' = OpAt(From[s])
                                  /\ From[s][1] \in {c, s[1]}
             /\ \A s, t \in Spots' : From[s] = From[t] => s = t
<1>0. PICK n \in Nat, m \in Nat :
        /\ n = Len(log) /\ DOMAIN log = 1..n /\ DOMAIN log' = 1..(n + 1)
        /\ \A k \in 1..n : log'[k] = log[k]
        /\ log'[n + 1] = answer
        /\ m = Len(conns[c].up) /\ DOMAIN conns[c].up = 1..m /\ m # 0
        /\ answer.op = conns[c].up[1].op
        /\ DOMAIN Tail(conns[c].up) = 1..(m - 1)
        /\ \A k \in 1..(m - 1) : Tail(conns[c].up)[k] = conns[c].up[k + 1]
  <2>1. /\ Len(log) \in Nat /\ DOMAIN log = 1..Len(log) /\ DOMAIN log' = 1..(Len(log) + 1)
        /\ \A k \in 1..Len(log) : log'[k] = log[k]
        /\ log'[Len(log) + 1] = answer
    BY Added DEF WireTypeOK, HostPerforms
  <2>2. conns[c].up \in Seq(Line) /\ conns[c].up # <<>> /\ answer.op = Head(conns[c].up).op
    BY EndLists DEF HostPerforms
  <2>3. /\ Len(conns[c].up) \in Nat \ {0} /\ DOMAIN conns[c].up = 1..Len(conns[c].up)
        /\ Head(conns[c].up) = conns[c].up[1]
        /\ DOMAIN Tail(conns[c].up) = 1..(Len(conns[c].up) - 1)
        /\ \A k \in 1..(Len(conns[c].up) - 1) : Tail(conns[c].up)[k] = conns[c].up[k + 1]
    BY <2>2, HeadTail
  <2> QED
    BY <2>1, <2>2, <2>3
<1>1. PICK From : From = [s \in Spots' |-> IF s = <<0, n + 1>> THEN <<c, 1>>
                                           ELSE IF s[1] = c THEN <<c, s[2] + 1>> ELSE s]
  OBVIOUS
<1>2. 0 \notin Conn
  BY ClientAssumption DEF Conn
<1>3. ASSUME NEW s \in Spots'
      PROVE  /\ s = <<s[1], s[2]>>
             /\ From[s] \in Spots /\ OpAt(s)' = OpAt(From[s])
             /\ \/ s = <<0, n + 1>> /\ From[s] = <<c, 1>>
                \/ s[1] = c /\ s[2] \in Nat \ {0} /\ From[s] = <<c, s[2] + 1>>
                \/ s # <<0, n + 1>> /\ s[1] # c /\ From[s] = s
  <2>1. /\ s = <<s[1], s[2]>>
        /\ \/ s[1] = 0 /\ s[2] \in 1..(n + 1) /\ OpAt(s)' = log'[s[2]].op
           \/ s[1] \in Conn /\ s[2] \in DOMAIN conns'[s[1]].up
              /\ OpAt(s)' = conns'[s[1]].up[s[2]].op
    BY <1>0, SpotIs DEF Spots, OpAt
  <2>2. CASE s[1] = 0 /\ s[2] = n + 1 /\ OpAt(s)' = log'[s[2]].op
    <3>1. s = <<0, n + 1>>
      BY <2>1, <2>2
    <3>2. From[s] = <<c, 1>>
      BY <1>1, <3>1
    <3>3. 1 \in DOMAIN conns[c].up
      BY <1>0
    <3>4. <<c, 1>> \in Spots /\ OpAt(<<c, 1>>) = conns[c].up[1].op
      BY <3>3, SpotHere
    <3> QED
      BY <1>0, <2>1, <2>2, <3>1, <3>2, <3>4
  <2>3. CASE s[1] = 0 /\ s[2] \in 1..n /\ OpAt(s)' = log'[s[2]].op
    <3>1. s # <<0, n + 1>> /\ s[1] # c /\ s = <<0, s[2]>>
      <4>1. s[2] # n + 1
        BY <2>3
      <4> QED
        BY <1>2, <2>1, <2>3, <4>1
    <3>2. From[s] = s
      BY <1>1, <3>1
    <3>3. <<0, s[2]>> \in Spots /\ OpAt(<<0, s[2]>>) = log[s[2]].op
      BY <1>0, <2>3, SpotHere
    <3> QED
      BY <1>0, <2>1, <2>3, <3>1, <3>2, <3>3
  <2>4. ASSUME NEW d \in Conn, d = s[1], s[2] \in DOMAIN conns'[d].up,
               OpAt(s)' = conns'[d].up[s[2]].op
        PROVE  /\ From[s] \in Spots /\ OpAt(s)' = OpAt(From[s])
               /\ \/ s[1] = c /\ s[2] \in Nat \ {0} /\ From[s] = <<c, s[2] + 1>>
                  \/ s # <<0, n + 1>> /\ s[1] # c /\ From[s] = s
    <3>1. conns'[d].up # <<>>
      BY <2>4, EmptySeq
    <3>2. s # <<0, n + 1>>
      BY <1>2, <2>1, <2>4
    <3>3. CASE d = c
      <4>1. conns'[c].up = Tail(conns[c].up)
        BY <3>1, <3>3 DEF HostPerforms
      <4>2. PICK k \in Nat \ {0} : k = s[2] /\ k \in 1..(m - 1) /\ k + 1 \in 1..m
        <5>1. s[2] \in 1..(m - 1)
          BY <1>0, <2>4, <3>3, <4>1
        <5> QED
          BY <5>1
      <4>3. conns'[c].up[k] = conns[c].up[k + 1]
        BY <1>0, <4>1, <4>2
      <4>4. From[s] = <<c, k + 1>>
        BY <1>1, <2>4, <3>2, <3>3, <4>2
      <4>5. <<c, k + 1>> \in Spots /\ OpAt(<<c, k + 1>>) = conns[c].up[k + 1].op
        BY <1>0, <4>2, SpotHere
      <4> QED
        BY <2>4, <3>3, <4>2, <4>3, <4>4, <4>5
    <3>4. CASE d # c
      <4>1. conns'[d].up = conns[d].up
        BY <3>1, <3>4 DEF HostPerforms
      <4>2. From[s] = s /\ s = <<d, s[2]>>
        BY <1>1, <2>1, <2>4, <3>2, <3>4
      <4>3. <<d, s[2]>> \in Spots /\ OpAt(<<d, s[2]>>) = conns[d].up[s[2]].op
        BY <2>4, <4>1, SpotHere
      <4> QED
        BY <2>4, <3>2, <3>4, <4>1, <4>2, <4>3
    <3> QED
      BY <3>3, <3>4
  <2>5. s[1] = 0 /\ s[2] \in 1..(n + 1) => s[2] = n + 1 \/ s[2] \in 1..n
    OBVIOUS
  <2> QED
    BY <2>1, <2>2, <2>3, <2>4, <2>5
<1>4. ASSUME NEW s \in Spots', NEW t \in Spots', From[s] = From[t] PROVE s = t
  <2>1. CASE s = <<0, n + 1>>
    <3>1. From[s] = <<c, 1>>
      BY <1>1, <2>1
    <3>2. ~(t[1] = c /\ t[2] \in Nat \ {0} /\ From[t] = <<c, t[2] + 1>>)
      <4> SUFFICES ASSUME t[2] \in Nat \ {0}, From[t] = <<c, t[2] + 1>> PROVE FALSE
        OBVIOUS
      <4>1. t[2] + 1 = 1
        BY <1>4, <3>1
      <4> QED
        BY <4>1
    <3>3. ~(t[1] # c /\ From[t] = t)
      <4> SUFFICES ASSUME t[1] # c, From[t] = t PROVE FALSE
        OBVIOUS
      <4>1. t = <<c, 1>>
        BY <1>4, <3>1
      <4> QED
        BY <4>1
    <3> QED
      BY <1>3, <2>1, <3>2, <3>3
  <2>2. CASE s[1] = c /\ s[2] \in Nat \ {0} /\ From[s] = <<c, s[2] + 1>>
    <3>1. ~(t = <<0, n + 1>> /\ From[t] = <<c, 1>>)
      <4> SUFFICES ASSUME From[t] = <<c, 1>> PROVE FALSE
        OBVIOUS
      <4>1. s[2] + 1 = 1
        BY <1>4, <2>2
      <4> QED
        BY <2>2, <4>1
    <3>2. ~(t[1] # c /\ From[t] = t)
      <4> SUFFICES ASSUME t[1] # c, From[t] = t PROVE FALSE
        OBVIOUS
      <4>1. t = <<c, s[2] + 1>>
        BY <1>4, <2>2
      <4> QED
        BY <4>1
    <3>3. t[1] = c /\ t[2] \in Nat \ {0} /\ From[t] = <<c, t[2] + 1>>
      BY <1>3, <3>1, <3>2
    <3>4. s[2] = t[2]
      <4>1. PICK i \in Nat, j \in Nat : i = s[2] /\ j = t[2]
        BY <2>2, <3>3
      <4>2. <<c, i + 1>> = <<c, j + 1>>
        BY <1>4, <2>2, <3>3, <4>1
      <4>3. i + 1 = j + 1
        BY <4>2
      <4> QED
        BY <4>1, <4>3
    <3> QED
      BY <1>3, <2>2, <3>3, <3>4
  <2>3. CASE s # <<0, n + 1>> /\ s[1] # c /\ From[s] = s
    <3>1. ~(From[t] = <<c, 1>>) /\ ~(From[t] = <<c, t[2] + 1>>)
      BY <1>4, <2>3
    <3>2. From[t] = t
      BY <1>3, <3>1
    <3> QED
      BY <1>4, <2>3, <3>2
  <2> QED
    BY <1>3, <2>1, <2>2, <2>3
<1>5. \A s \in Spots' : /\ From[s] \in Spots /\ OpAt(s)' = OpAt(From[s])
                        /\ From[s][1] \in {c, s[1]}
  BY <1>3
<1> QED
  BY <1>4, <1>5

\* A line stays single when it is performed.
LEMMA SpotsPerform ==
    ASSUME WireTypeOK, UNCHANGED <<job, plan>>, Single,
           NEW c \in Conn, NEW answer \in Answer, HostPerforms(c, answer)
    PROVE  Single' /\ \A id : Nowhere(id) => Nowhere(id)'
<1>1. PICK From :
        /\ \A s \in Spots' : From[s] \in Spots /\ OpAt(s)' = OpAt(From[s])
        /\ \A s, t \in Spots' : From[s] = From[t] => s = t
  BY SpotsPerformed
<1> QED
  BY <1>1, SpotsMove

\* A line written is a new place, if the host is there at all.
LEMMA SpotsWritten ==
    ASSUME WireTypeOK, UNCHANGED log, WriteLine, conns[session].open,
           NEW op, op = call.ops[call.sent + 1]
    PROVE  \E new : \A s \in Spots' : \/ s = new /\ OpAt(s)' = op
                                      \/ s \in Spots /\ OpAt(s)' = OpAt(s)
<1>1. PICK line \in Line :
        /\ session \in Conn /\ line.op = op
        /\ \A c \in Conn : c # session => conns'[c] = conns[c]
        /\ conns'[session].up = IF conns[session].open THEN Append(conns[session].up, line)
                                ELSE conns[session].up
  BY WriteDoes
<1>2. PICK m \in Nat : /\ m = Len(conns[session].up)
                       /\ DOMAIN conns[session].up = 1..m /\ DOMAIN conns'[session].up = 1..(m + 1)
                       /\ \A k \in 1..m : conns'[session].up[k] = conns[session].up[k]
                       /\ conns'[session].up[m + 1] = line
  <2>1. PICK up \in Seq(Line) : up = conns[session].up
    BY <1>1, EndLists
  <2>2. conns'[session].up = Append(up, line)
    BY <1>1, <2>1
  <2>3. /\ Len(up) \in Nat /\ DOMAIN up = 1..Len(up)
        /\ DOMAIN Append(up, line) = 1..(Len(up) + 1)
        /\ \A k \in 1..Len(up) : Append(up, line)[k] = up[k]
        /\ Append(up, line)[Len(up) + 1] = line
    BY Added
  <2> QED
    BY <2>1, <2>2, <2>3
<1>3. ASSUME NEW s \in Spots'
      PROVE  (s = <<session, m + 1>> /\ OpAt(s)' = op) \/ (s \in Spots /\ OpAt(s)' = OpAt(s))
  <2>1. /\ s = <<s[1], s[2]>>
        /\ \/ s[1] = 0 /\ s[2] \in DOMAIN log /\ OpAt(s)' = log[s[2]].op
           \/ s[1] \in Conn /\ s[2] \in DOMAIN conns'[s[1]].up
              /\ OpAt(s)' = conns'[s[1]].up[s[2]].op
    BY SpotIs DEF Spots, OpAt
  <2>2. CASE s[1] = 0 /\ s[2] \in DOMAIN log /\ OpAt(s)' = log[s[2]].op
    <3>1. <<0, s[2]>> \in Spots /\ OpAt(<<0, s[2]>>) = log[s[2]].op
      BY <2>2, SpotHere
    <3>2. s = <<0, s[2]>>
      BY <2>1, <2>2
    <3> QED
      BY <2>2, <3>1, <3>2
  <2>3. ASSUME NEW d \in Conn, d = s[1], s[2] \in DOMAIN conns'[d].up,
               OpAt(s)' = conns'[d].up[s[2]].op
        PROVE  (s = <<session, m + 1>> /\ OpAt(s)' = op) \/ (s \in Spots /\ OpAt(s)' = OpAt(s))
    <3>1. CASE d = session /\ s[2] = m + 1
      <4>1. s = <<session, m + 1>>
        BY <2>1, <2>3, <3>1
      <4> QED
        BY <1>1, <1>2, <2>3, <3>1, <4>1
    <3>2. CASE ~(d = session /\ s[2] = m + 1)
      <4>1. s[2] \in DOMAIN conns[d].up /\ conns'[d].up[s[2]] = conns[d].up[s[2]]
        <5>1. CASE d = session
          <6>1. s[2] \in 1..(m + 1) /\ s[2] # m + 1
            BY <1>2, <2>3, <3>2, <5>1
          <6>2. s[2] \in 1..m
            BY <6>1
          <6> QED
            BY <1>2, <5>1, <6>2
        <5>2. CASE d # session
          BY <1>1, <2>3, <5>2
        <5> QED
          BY <5>1, <5>2
      <4>2. <<d, s[2]>> \in Spots /\ OpAt(<<d, s[2]>>) = conns[d].up[s[2]].op
        BY <4>1, SpotHere
      <4>3. s = <<d, s[2]>>
        BY <2>1, <2>3
      <4> QED
        BY <2>3, <4>1, <4>2, <4>3
    <3> QED
      BY <3>1, <3>2
  <2> QED
    BY <2>1, <2>2, <2>3
<1> QED
  BY <1>3

\* What was nowhere stays so, unless it is the line written.
LEMMA SpotsWrite ==
    ASSUME WireTypeOK, UNCHANGED <<job, plan, log>>, WriteLine, Single,
           NEW op, op = call.ops[call.sent + 1], OnceOnly(op) => Nowhere(op.id)
    PROVE  /\ Single'
           /\ \A id : Nowhere(id) /\ (OnceOnly(op) => op.id # id) => Nowhere(id)'
<1>1. /\ session \in Conn
      /\ \A c \in Conn : c # session => conns'[c] = conns[c]
      /\ ~conns[session].open => conns'[session].up = conns[session].up
  BY WriteDoes
<1>2. CASE ~conns[session].open
  <2>1. \A c \in Conn : conns'[c].up = conns[c].up
    BY <1>1, <1>2
  <2> QED
    BY <2>1, SpotsStay
<1>3. CASE conns[session].open
  <2>1. PICK new : \A s \in Spots' : \/ s = new /\ OpAt(s)' = op
                                     \/ s \in Spots /\ OpAt(s)' = OpAt(s)
    BY <1>3, SpotsWritten
  <2>2. ASSUME NEW s \in Spots'
        PROVE  (s = new /\ OpAt(s)' = op) \/ (s \in Spots /\ OpAt(s)' = OpAt(s))
    BY <2>1
  <2>3. \A o : OnceOnly(o)' = OnceOnly(o)
    BY SameOnce
  <2>4. ASSUME NEW s \in Spots', NEW t \in Spots',
               OnceOnly(OpAt(s))', OnceOnly(OpAt(t))', OpAt(s)'.id = OpAt(t)'.id
        PROVE  s = t
    <3>1. CASE s \in Spots /\ OpAt(s)' = OpAt(s) /\ t \in Spots /\ OpAt(t)' = OpAt(t)
      <4>1. OnceOnly(OpAt(s)) /\ OnceOnly(OpAt(t)) /\ OpAt(s).id = OpAt(t).id
        BY <2>3, <2>4, <3>1 DEF OnceOnly
      <4> QED
        BY <3>1, <4>1 DEF Single
    <3>2. ASSUME NEW x \in Spots, NEW y, OnceOnly(OpAt(x))', OnceOnly(OpAt(y))',
                 OpAt(x)' = OpAt(x), OpAt(y)' = op, OpAt(x)'.id = OpAt(y)'.id
          PROVE  FALSE
      <4>1. OnceOnly(OpAt(x)) /\ OnceOnly(op)
        BY <2>3, <3>2 DEF OnceOnly
      <4> QED
        BY <3>2, <4>1 DEF Nowhere
    <3> QED
      BY <2>2, <2>4, <3>1, <3>2
  <2>5. ASSUME NEW id, Nowhere(id), OnceOnly(op) => op.id # id,
               NEW s \in Spots', OnceOnly(OpAt(s))'
        PROVE  OpAt(s)'.id # id
    <3>1. CASE s \in Spots /\ OpAt(s)' = OpAt(s)
      <4>1. OnceOnly(OpAt(s))
        BY <2>3, <2>5, <3>1 DEF OnceOnly
      <4> QED
        BY <2>5, <3>1, <4>1 DEF Nowhere
    <3>2. CASE OpAt(s)' = op
      <4>1. OnceOnly(op)
        BY <2>3, <2>5, <3>2 DEF OnceOnly
      <4> QED
        BY <2>5, <3>2, <4>1
    <3> QED
      BY <2>2, <3>1, <3>2
  <2> QED
    BY <2>4, <2>5 DEF Single, Nowhere
<1> QED
  BY <1>2, <1>3

\* What was nowhere and unsent stays so while a call sends none of it.
LEMMA OnceCarried ==
    ASSUME UNCHANGED <<job, plan>>, OpsNow' = OpsNow, Unsent, Single',
           \A id : Nowhere(id) => Nowhere(id)',
           Busy' => Busy,
           Busy' => \A k \in DOMAIN OpsNow :
                       k > Written(call', OpsNow) /\ OnceOnly(OpsNow[k])
                       => k > Written(call, OpsNow)
    PROVE  OnceInv'
<1>1. PICK ops : ops = OpsNow
  OBVIOUS
<1>2. ASSUME Busy', NEW k \in DOMAIN ops, k > Written(call', ops), OnceOnly(ops[k])'
      PROVE  Nowhere(ops[k].id)'
  <2>1. PICK op : op = ops[k]
    OBVIOUS
  <2>2. OnceOnly(op)'
    BY <1>2, <2>1 DEF OnceOnly
  <2>3. OnceOnly(op)
    BY <2>2, SameOnce
  <2>4. k > Written(call, ops)
    BY <1>1, <1>2, <2>1, <2>3
  <2>5. Nowhere(op.id)
    BY <1>1, <1>2, <2>1, <2>3, <2>4 DEF Unsent
  <2>6. PICK id : id = op.id
    OBVIOUS
  <2>7. Nowhere(id)'
    BY <2>5, <2>6
  <2> QED
    BY <2>1, <2>6, <2>7 DEF Nowhere
<1>3. Unsent'
  <2>1. OpsNow' = ops
    BY <1>1
  <2> QED
    BY <1>2, <2>1 DEF Unsent, Nowhere, OnceOnly
<1> QED
  BY <1>3 DEF OnceInv

\* A line written is the next of those in hand, and no other of them is of its step.
LEMMA NextLine ==
    ASSUME PlanSound, ProgressInv, wave \in DOMAIN plan.waves, WireTypeOK, WriteLine,
           NEW n, Serving(call, OpsNow, n)
    PROVE  \E k \in DOMAIN OpsNow :
             /\ k > Written(call, OpsNow) /\ OpsNow[k] = call.ops[call.sent + 1]
             /\ \A i \in DOMAIN OpsNow : i > Written(call', OpsNow) =>
                   /\ i > Written(call, OpsNow)
                   /\ OpsNow[i].effect # "shot" => OpsNow[i].id # OpsNow[k].id
<1>0. /\ OpsNow \in Seq(LineOp) /\ OpsNow # <<>> /\ call \in Calls
      /\ call.sent < Len(call.ops) /\ call'.sent = call.sent + 1 /\ call'.later = call.later
  BY OpsAreTyped, WriteDoes DEF WireTypeOK
<1>1. PICK b \in Nat, g \in Nat, s \in Nat, m \in Nat :
        /\ b = Before(n) /\ g = Len(call.ops) /\ s = call.sent /\ m = Len(OpsNow)
        /\ b + g <= m /\ s < g /\ DOMAIN OpsNow = 1..m
        /\ \A k \in 1..g : call.ops[k] = OpsNow[b + k]
        /\ Written(call, OpsNow) = b + s
  <2>1. /\ Before(n) \in Nat /\ Len(call.ops) \in Nat \ {0}
        /\ Before(n) + Len(call.ops) <= Len(OpsNow)
        /\ \A k \in 1..Len(call.ops) : call.ops[k] = OpsNow[Before(n) + k]
        /\ Written(call, OpsNow) = Before(n) + call.sent
    BY <1>0, ChunkAt
  <2>2. call.sent \in Nat /\ Len(OpsNow) \in Nat /\ DOMAIN OpsNow = 1..Len(OpsNow)
    BY <1>0, LenProperties DEF Calls
  <2> QED
    BY <1>0, <2>1, <2>2
<1>2. PICK k \in Nat : k = b + s + 1 /\ k \in 1..m /\ s + 1 \in 1..g /\ b + (s + 1) = k
  <2>1. b + g <= m /\ s < g
    BY <1>1
  <2>2. /\ b + s + 1 \in Nat /\ b + s + 1 \in 1..m
        /\ s + 1 \in 1..g /\ b + (s + 1) = b + s + 1
    BY <2>1
  <2> QED
    BY <2>2
<1>3. Written(call', OpsNow) = k
  <2>1. Before(Len(Chunks(OpsNow)) - Len(call.later)) + s = b + s
    BY <1>1 DEF Written
  <2>2. PICK x : x = Before(Len(Chunks(OpsNow)) - Len(call.later))
    OBVIOUS
  <2>3. x \in Nat
    <3>1. Len(Chunks(OpsNow)) - Len(call.later) = n
      <4>1. n \in Nat /\ Len(Chunks(OpsNow)) \in Nat
        BY <1>0, ChunkAt
      <4> QED
        BY <4>1 DEF Serving
    <3> QED
      BY <1>1, <2>2, <3>1
  <2>4. Written(call', OpsNow) = x + (s + 1)
    BY <1>0, <1>1, <2>2 DEF Written
  <2>5. x + s = b + s
    BY <2>1, <2>2
  <2> QED
    BY <1>1, <1>2, <2>3, <2>4, <2>5
<1>4. OpsNow[k] = call.ops[call.sent + 1]
  BY <1>1, <1>2
<1>5. ASSUME NEW i \in DOMAIN OpsNow, i > k, OpsNow[i].effect # "shot"
      PROVE  OpsNow[i].id # OpsNow[k].id
  <2>1. k \in DOMAIN OpsNow /\ i # k /\ m # 1
    BY <1>1, <1>2, <1>5
  <2>2. phase # "shot" /\ CanPipeline
    BY <1>1, <1>5, <2>1, OpsAreTyped DEF ToSet
  <2> QED
    BY <2>1, <2>2, LinesInWave
<1>6. \A i \in DOMAIN OpsNow : i > k => i > b + s
  BY <1>1, <1>2
<1>7. k > b + s /\ k \in DOMAIN OpsNow
  BY <1>1, <1>2
<1> QED
  BY <1>1, <1>3, <1>4, <1>5, <1>6, <1>7

\* write_json_line sends no line for the second time, but of a step that may repeat.
LEMMA WriteOnce ==
    ASSUME PlanSound, WireInv, RunInv, OnceInv, WriteLine, UNCHANGED runVars
    PROVE  OnceInv'
<1>0. /\ ProgressInv /\ CallInv /\ WireTypeOK /\ Single /\ Unsent /\ Busy
      /\ UNCHANGED <<job, plan, log>> /\ OpsNow' = OpsNow
  BY SameRun DEF RunInv, WireInv, OnceInv, WriteLine, runVars
<1>1. wave \in DOMAIN plan.waves
  BY <1>0 DEF CallInv, ProgressInv, Busy
<1>2. PICK n \in DOMAIN Chunks(OpsNow) : Serving(call, OpsNow, n)
  BY <1>0 DEF CallInv, Busy
<1>3. PICK k \in DOMAIN OpsNow :
         /\ k > Written(call, OpsNow) /\ OpsNow[k] = call.ops[call.sent + 1]
         /\ \A i \in DOMAIN OpsNow : i > Written(call', OpsNow) =>
               /\ i > Written(call, OpsNow)
               /\ OpsNow[i].effect # "shot" => OpsNow[i].id # OpsNow[k].id
  BY <1>0, <1>1, <1>2, NextLine
<1>4. PICK op : op = OpsNow[k]
  OBVIOUS
<1>5. OnceOnly(op) => Nowhere(op.id)
  BY <1>0, <1>3, <1>4 DEF Unsent
<1>6. Single' /\ \A id : Nowhere(id) /\ (OnceOnly(op) => op.id # id) => Nowhere(id)'
  BY <1>0, <1>3, <1>4, <1>5, SpotsWrite
<1>7. PICK ops : ops = OpsNow
  OBVIOUS
<1>8. ASSUME NEW i \in DOMAIN ops, i > Written(call', ops), OnceOnly(ops[i])'
      PROVE  Nowhere(ops[i].id)'
  <2>1. PICK o : o = ops[i]
    OBVIOUS
  <2>2. OnceOnly(o)'
    BY <1>8, <2>1 DEF OnceOnly
  <2>3. OnceOnly(o)
    BY <1>0, <2>2, SameOnce
  <2>4. i > Written(call, ops) /\ op.id # o.id
    BY <1>3, <1>4, <1>7, <1>8, <2>1, <2>3 DEF OnceOnly
  <2>5. Nowhere(o.id)
    BY <1>0, <1>7, <1>8, <2>1, <2>3, <2>4 DEF Unsent
  <2>6. PICK id : id = o.id
    OBVIOUS
  <2>7. Nowhere(id)'
    BY <1>6, <2>4, <2>5, <2>6
  <2> QED
    BY <2>1, <2>6, <2>7 DEF Nowhere
<1>9. Unsent'
  <2>1. OpsNow' = ops
    BY <1>0, <1>7
  <2> QED
    BY <1>8, <2>1 DEF Unsent, Nowhere, OnceOnly
<1> QED
  BY <1>6, <1>9 DEF OnceInv

\* A call that starts over has nothing to write again but a line that is its chunk.
LEMMA StartsOver ==
    ASSUME PlanSound, ProgressInv, CallInv, WireTypeOK, ExchangeInv, Busy,
           Resets, MayRetry(call)
    PROVE  /\ wave \in DOMAIN plan.waves
           /\ \E n : /\ Serving(call, OpsNow, n)
                    /\ \A k \in DOMAIN OpsNow : k > Written(call', OpsNow) =>
                          \/ k > Written(call, OpsNow)
                          \/ /\ Len(call.ops) = 1 /\ call.sent = 1 /\ k = Before(n) + 1
                             /\ OpsNow[k] = call.ops[1]
<1>1. wave \in DOMAIN plan.waves
  BY DEF CallInv, ProgressInv, Busy
<1>2. PICK n \in DOMAIN Chunks(OpsNow) : Serving(call, OpsNow, n)
  BY DEF CallInv, Busy
<1>3. OpsNow \in Seq(LineOp) /\ OpsNow # <<>> /\ call \in Calls
  BY <1>1, OpsAreTyped DEF WireTypeOK
<1>4. PICK b \in Nat, s \in Nat, m \in Nat :
        /\ b = Before(n) /\ s = call.sent /\ Written(call, OpsNow) = b + s
        /\ Written(call', OpsNow) = b /\ s <= Len(call.ops)
        /\ m = Len(OpsNow) /\ DOMAIN OpsNow = 1..m
        /\ \A k \in 1..Len(call.ops) : call.ops[k] = OpsNow[b + k]
  <2>1. /\ Before(n) \in Nat /\ Written(call, OpsNow) = Before(n) + call.sent
        /\ \A k \in 1..Len(call.ops) : call.ops[k] = OpsNow[Before(n) + k]
    BY <1>2, <1>3, ChunkAt
  <2>2. Len(Chunks(OpsNow)) - Len(call'.later) = n
    <3>1. n \in Nat /\ Len(Chunks(OpsNow)) \in Nat
      BY <1>2, <1>3, ChunkAt
    <3> QED
      BY <1>2, <3>1 DEF Serving, Resets
  <2>3. Written(call', OpsNow) = Before(n)
    <3>1. Before(n) + 0 = Before(n)
      BY <2>1
    <3> QED
      BY <2>2, <3>1 DEF Written, Resets
  <2>4. call.sent \in Nat /\ call.sent <= Len(call.ops)
    BY <1>3 DEF ExchangeInv, Asked, Calls
  <2>5. Len(OpsNow) \in Nat /\ DOMAIN OpsNow = 1..Len(OpsNow)
    BY <1>3, LenProperties
  <2> QED
    BY <2>1, <2>3, <2>4, <2>5
<1>5. ASSUME NEW k \in 1..m, k > b
      PROVE  k > b + s \/ (Len(call.ops) = 1 /\ s = 1 /\ k = b + 1 /\ OpsNow[k] = call.ops[1])
  <2>1. CASE s = 0
    BY <1>4, <1>5, <2>1
  <2>2. CASE Len(call.ops) = 1
    <3>1. s = 0 \/ s = 1
      BY <1>4, <2>2
    <3>2. call.ops[1] = OpsNow[b + 1]
      BY <1>4, <2>2
    <3> QED
      BY <1>4, <1>5, <2>1, <2>2, <3>1, <3>2
  <2> QED
    BY <1>4, <2>1, <2>2 DEF MayRetry
<1> QED
  BY <1>1, <1>2, <1>4, <1>5

\* An error on the wire: the call starts over where nothing that goes once is lost.
LEMMA DropOnce ==
    ASSUME PlanSound, WireInv, RunInv, OnceInv, UNCHANGED runVars,
           WriteFails \/ ReadEof \/ ReadTimeout \/
             (ReadAnswer /\ ~Head(conns[session].down).readable)
    PROVE  OnceInv'
<1>0. /\ ProgressInv /\ CallInv /\ WireTypeOK /\ ExchangeInv /\ Single /\ Unsent
      /\ UNCHANGED <<job, plan>> /\ OpsNow' = OpsNow
  BY SameRun DEF RunInv, WireInv, OnceInv, runVars
<1>1. /\ session # 0 /\ Busy /\ conns' = Left(conns) /\ UNCHANGED log
      /\ call'.state = "error" \/ (Resets /\ MayRetry(call))
  BY <1>0, DropDoes
<1>2. \A c \in Conn : conns'[c].up = conns[c].up
  <2>1. /\ \A c \in Conn : c # session => conns'[c] = conns[c]
        /\ conns'[session].up = conns[session].up
    BY <1>0, <1>1, LeftDoes
  <2> QED
    BY <2>1
<1>3. Single' /\ \A id : Nowhere(id) => Nowhere(id)'
  BY <1>0, <1>1, <1>2, SpotsStay
<1>4. CASE call'.state = "error"
  <2>1. ~Busy'
    BY <1>4 DEF Busy
  <2> QED
    BY <1>0, <1>3, <2>1, OnceCarried
<1>5. CASE Resets /\ MayRetry(call)
  <2>1. PICK n : /\ wave \in DOMAIN plan.waves /\ Serving(call, OpsNow, n)
                 /\ \A k \in DOMAIN OpsNow : k > Written(call', OpsNow) =>
                       \/ k > Written(call, OpsNow)
                       \/ Len(call.ops) = 1 /\ k = Before(n) + 1
    BY <1>0, <1>1, <1>5, StartsOver
  <2>2. Len(call.ops) = 1 => ~OnceOnly(OpsNow[Before(n) + 1])
    BY <1>0, <2>1, LoneChunk DEF WireTypeOK
  <2> QED
    BY <1>0, <1>1, <1>3, <2>1, <2>2, OnceCarried
<1> QED
  BY <1>1, <1>4, <1>5

\* A chunk answered is a chunk written: the next one takes up where it ended.
LEMMA ChunkContinues ==
    ASSUME PlanSound, ProgressInv, CallInv, WireTypeOK, ExchangeInv, ChunkDone
    PROVE  /\ Busy /\ UNCHANGED <<conns, log>>
           /\ \/ call'.state = "ok"
              \/ call'.sent = 0 /\ Written(call', OpsNow) = Written(call, OpsNow)
<1>1. /\ Busy /\ Len(call.got) = Len(call.ops) /\ call' \in Calls
      /\ UNCHANGED <<conns, log>>
      /\ \/ call'.state = "ok"
         \/ /\ call.later # <<>> /\ call'.state = "wire" /\ call'.sent = 0
            /\ call'.ops = Head(call.later) /\ call'.later = Tail(call.later)
            /\ call'.earlier = call.earlier \o call.got
  BY ChunkDoneDoes
<1>2. CASE /\ call.later # <<>> /\ call'.state = "wire" /\ call'.sent = 0
           /\ call'.ops = Head(call.later) /\ call'.later = Tail(call.later)
           /\ call'.earlier = call.earlier \o call.got
  <2>1. wave \in DOMAIN plan.waves
    BY <1>1 DEF CallInv, ProgressInv, Busy
  <2>2. PICK n \in DOMAIN Chunks(OpsNow) : Serving(call, OpsNow, n)
    BY <1>1 DEF CallInv, Busy
  <2>3. OpsNow \in Seq(LineOp) /\ OpsNow # <<>> /\ call \in Calls
    BY <2>1, OpsAreTyped DEF WireTypeOK
  <2>4. n \in Nat /\ Before(n) + Len(call.ops) = Before(n + 1)
        /\ Written(call, OpsNow) = Before(n) + call.sent
    BY <1>2, <2>2, <2>3, ChunkAt
  <2>5. Asked(call, calls)
    BY <1>1 DEF ExchangeInv
  <2>6. call.sent = Len(call.ops)
    <3>1. Len(call.got) <= call.sent /\ call.sent <= Len(call.ops)
      BY <2>5 DEF Asked
    <3>2. call.sent \in Nat /\ Len(call.ops) \in Nat
      BY <2>3, LenProperties DEF Calls
    <3> QED
      BY <1>1, <3>1, <3>2
  <2>7. Serving(call', OpsNow, n + 1)
    BY <1>1, <1>2, <2>2, <2>3, <2>4, <2>5, ServedOn
  <2>8. /\ Written(call', OpsNow) = Before(n + 1) + call'.sent
        /\ Before(n + 1) \in Nat
    BY <1>1, <2>3, <2>7, ChunkAt
  <2>9. Written(call', OpsNow) = Written(call, OpsNow)
    BY <1>2, <2>4, <2>6, <2>8
  <2> QED
    BY <1>1, <1>2, <2>9
<1> QED
  BY <1>1, <1>2

\* The lines that go once stay so when a chunk is answered.
LEMMA ChunkOnce ==
    ASSUME PlanSound, WireInv, RunInv, OnceInv, ChunkDone, UNCHANGED runVars
    PROVE  OnceInv'
<1>0. /\ ProgressInv /\ CallInv /\ WireTypeOK /\ ExchangeInv /\ Single /\ Unsent
      /\ UNCHANGED <<job, plan>> /\ OpsNow' = OpsNow
  BY SameRun DEF RunInv, WireInv, OnceInv, runVars
<1>1. /\ Busy /\ UNCHANGED <<conns, log>>
      /\ call'.state = "ok" \/ Written(call', OpsNow) = Written(call, OpsNow)
  BY <1>0, ChunkContinues
<1>2. Single' /\ \A id : Nowhere(id) => Nowhere(id)'
  BY <1>0, <1>1, SpotsStay
<1>3. CASE call'.state = "ok"
  <2>1. ~Busy'
    BY <1>3 DEF Busy
  <2> QED
    BY <1>0, <1>2, <2>1, OnceCarried
<1>4. CASE Written(call', OpsNow) = Written(call, OpsNow)
  BY <1>0, <1>1, <1>2, <1>4, OnceCarried
<1> QED
  BY <1>1, <1>3, <1>4

\* No step of the client or the host has a line that goes once written again.
LEMMA WireOnce ==
    ASSUME PlanSound, WireInv, RunInv, OnceInv, ClientStep \/ HostStep, UNCHANGED runVars
    PROVE  OnceInv'
<1>0. /\ WireTypeOK /\ Single /\ Unsent /\ UNCHANGED <<job, plan>> /\ OpsNow' = OpsNow
  BY SameRun DEF WireInv, OnceInv, runVars
<1>1. ASSUME Single', \A id : Nowhere(id) => Nowhere(id)', UNCHANGED call PROVE OnceInv'
  <2>1. Busy' = Busy /\ \A ops : Written(call', ops) = Written(call, ops)
    BY <1>1 DEF Busy
  <2> QED
    BY <1>0, <1>1, <2>1, OnceCarried
<1>2. CASE Connect
  <2>1. PICK s \in Conn : /\ \A c \in Conn : c # s => conns'[c] = conns[c]
                          /\ conns'[s].up = conns[s].up
    BY <1>0, <1>2, ConnectDoes
  <2>2. \A c \in Conn : conns'[c].up = conns[c].up
    BY <2>1
  <2>3. UNCHANGED <<call, log>>
    BY <1>2 DEF Connect
  <2>4. Single' /\ \A id : Nowhere(id) => Nowhere(id)'
    BY <1>0, <2>2, <2>3, SpotsStay
  <2> QED
    BY <1>1, <2>3, <2>4
<1>3. CASE DeadlinePasses
  <2>1. UNCHANGED <<conns, log>> /\ call' = [call EXCEPT !.state = "error"]
    BY <1>3 DEF DeadlinePasses, netVars
  <2>2. ~Busy'
    <3>1. call'.state = "error"
      BY <1>0, <2>1, CallErrs DEF WireTypeOK
    <3> QED
      BY <3>1 DEF Busy
  <2>3. Single' /\ \A id : Nowhere(id) => Nowhere(id)'
    BY <1>0, <2>1, SpotsStay
  <2> QED
    BY <1>0, <2>2, <2>3, OnceCarried
<1>4. CASE ReadAnswer /\ Head(conns[session].down).readable
  <2>1. /\ UNCHANGED log /\ Busy
        /\ call'.sent = call.sent /\ call'.later = call.later
        /\ \A c \in Conn : c # session => conns'[c] = conns[c]
        /\ conns'[session].up = conns[session].up
    BY <1>0, <1>4, ReadDoes
  <2>2. \A c \in Conn : conns'[c].up = conns[c].up
    BY <2>1
  <2>3. Single' /\ \A id : Nowhere(id) => Nowhere(id)'
    BY <1>0, <2>1, <2>2, SpotsStay
  <2>4. Written(call', OpsNow) = Written(call, OpsNow)
    BY <2>1 DEF Written
  <2> QED
    BY <1>0, <2>1, <2>3, <2>4, OnceCarried
<1>5. CASE HostCuts
  <2>1. UNCHANGED <<call, log>>
        /\ \A d \in Conn : conns'[d] = conns[d] \/ conns'[d].up = <<>>
    BY <1>5 DEF HostCuts
  <2>2. \A d \in Conn : conns'[d].up = conns[d].up \/ conns'[d].up = <<>>
    BY <2>1
  <2>3. Single' /\ \A id : Nowhere(id) => Nowhere(id)'
    BY <1>0, <2>1, <2>2, SpotsStay
  <2> QED
    BY <1>1, <2>1, <2>3
<1>6. ASSUME NEW c \in Conn, NEW ok \in BOOLEAN, NEW readable \in BOOLEAN,
             Perform(c, ok, readable)
      PROVE  OnceInv'
  <2>1. PICK answer \in Answer : HostPerforms(c, answer)
    BY <1>0, <1>6, PerformDoes
  <2>2. Single' /\ \A id : Nowhere(id) => Nowhere(id)'
    BY <1>0, <2>1, SpotsPerform
  <2>3. UNCHANGED call
    BY <2>1 DEF HostPerforms
  <2> QED
    BY <1>1, <2>2, <2>3
<1>7. CASE HostStep
  <2>1. HostCuts \/ \E c \in Conn, ok, readable \in BOOLEAN : Perform(c, ok, readable)
    BY <1>0, <1>7, CutDoes DEF HostStep
  <2> QED
    BY <1>5, <1>6, <2>1
<1> QED
  BY <1>2, <1>3, <1>4, <1>7, WriteOnce, DropOnce, ChunkOnce DEF ClientStep

\* With no call under way there is nothing unsent.
LEMMA QuietOnce ==
    ASSUME UNCHANGED <<job, plan, conns, log>>, Single, ~Busy' PROVE OnceInv'
<1>1. Single'
  BY SpotsStay
<1> QED
  BY <1>1 DEF OnceInv, Unsent

\* A step's line is nowhere when the run comes to it.
LEMMA FreshStep ==
    ASSUME PlanSound, RunInv, phase = "run", wave \in DOMAIN plan.waves,
           NEW k \in DOMAIN plan.waves[wave], CanPipeline \/ k = at
    PROVE  \A s \in Spots : OpAt(s).effect # "shot" => OpAt(s).id # plan.waves[wave][k]
<1>0. LinesInv /\ at \in Nat /\ wave \in Nat /\ (CanPipeline => at = 1)
  BY DEF RunInv, ProgressInv
<1>1. /\ <<wave, k>> \in Places /\ IdAt(<<wave, k>>) = plan.waves[wave][k]
  BY PlacesAre, Zenon
<1>2. ~Reached(plan.waves[wave][k])
  <2> SUFFICES ASSUME NEW p \in Places, IdAt(p) = plan.waves[wave][k], Out(p) PROVE FALSE
    BY DEF Reached
  <2>1. p = <<wave, k>>
    BY <1>1, OnePlace, Zenon
  <2>2. p[1] = wave /\ p[2] = k
    BY <2>1
  <2>3. k \in Nat /\ k # 0
    <3>1. DOMAIN plan.waves[wave] = 1..Len(plan.waves[wave])
      BY Waves1
    <3> QED
      BY <3>1
  <2> QED
    BY <1>0, <2>2, <2>3 DEF Out, Behind
<1>3. ASSUME NEW s \in Spots PROVE OpAt(s) \in WireOps
  <2>1. \/ s[1] = 0 /\ s[2] \in DOMAIN log /\ OpAt(s) = log[s[2]].op
        \/ s[1] \in Conn /\ s[2] \in DOMAIN conns[s[1]].up /\ OpAt(s) = conns[s[1]].up[s[2]].op
    BY SpotIs DEF Spots, OpAt
  <2>2. CASE s[2] \in DOMAIN log /\ OpAt(s) = log[s[2]].op
    BY <2>2 DEF WireOps, Heeded, ToSet
  <2>3. CASE s[1] \in Conn /\ s[2] \in DOMAIN conns[s[1]].up
             /\ OpAt(s) = conns[s[1]].up[s[2]].op
    BY <2>3 DEF WireOps, OnTheWay, ToSet
  <2> QED
    BY <2>1, <2>2, <2>3
<1> QED
  BY <1>0, <1>2, <1>3 DEF LinesInv

\* What is sent next is nowhere yet, or may repeat.
LEMMA SendOnce ==
    ASSUME PlanSound, WireInv, RunInv, OnceInv, wave \in DOMAIN plan.waves, Begin(OpsNow),
           UNCHANGED <<job, plan, wave, at>>,
           \/ phase = "run" /\ phase' = "await"
           \/ phase = "shot" /\ phase' = "shot"
    PROVE  OnceInv'
<1>0. ProgressInv /\ WireTypeOK /\ Single
  BY DEF RunInv, WireInv, OnceInv
<1>1. OpsNow \in Seq(LineOp) /\ OpsNow # <<>>
  BY <1>0, OpsAreTyped
<1>2. UNCHANGED <<conns, log>>
  BY <1>0, <1>1, BeginDoes
<1>3. Single' /\ \A id : Nowhere(id) => Nowhere(id)'
  BY <1>0, <1>2, SpotsStay
<1>4. OpsNow' = OpsNow
  BY SamePlace DEF OpsNow, LinesOf
<1>5. ASSUME NEW k \in DOMAIN OpsNow, OnceOnly(OpsNow[k]) PROVE Nowhere(OpsNow[k].id)
  <2>1. phase = "run" /\ CanPipeline
    BY <1>0, <1>5, AloneRepeats
  <2>2. k \in DOMAIN plan.waves[wave] /\ OpsNow[k].id = plan.waves[wave][k]
    BY <1>0, <2>1, LinesInWave
  <2>3. \A s \in Spots : OpAt(s).effect # "shot" => OpAt(s).id # plan.waves[wave][k]
    BY <2>1, <2>2, FreshStep
  <2> QED
    BY <2>2, <2>3 DEF Nowhere, OnceOnly
<1>6. PICK ops : ops = OpsNow
  OBVIOUS
<1>7. ASSUME NEW k \in DOMAIN ops, OnceOnly(ops[k])' PROVE Nowhere(ops[k].id)'
  <2>1. PICK o : o = ops[k]
    OBVIOUS
  <2>2. OnceOnly(o)'
    BY <1>7, <2>1 DEF OnceOnly
  <2>3. OnceOnly(o)
    BY <2>2, SameOnce
  <2>4. PICK id : id = o.id
    OBVIOUS
  <2>5. Nowhere(id)'
    BY <1>3, <1>5, <1>6, <2>1, <2>3, <2>4
  <2> QED
    BY <2>1, <2>4, <2>5 DEF Nowhere
<1>8. Unsent'
  <2>1. OpsNow' = ops
    BY <1>4, <1>6
  <2> QED
    BY <1>7, <2>1 DEF Unsent, Nowhere, OnceOnly
<1> QED
  BY <1>3, <1>8 DEF OnceInv

\* The three steps that send what is in hand.
LEMMA SendsOps ==
    ASSUME PlanSound, ProgressInv, SendWave \/ SendStep \/ SendShot
    PROVE  /\ wave \in DOMAIN plan.waves /\ Begin(OpsNow) /\ UNCHANGED <<job, plan, wave, at>>
           /\ \/ phase = "run" /\ phase' = "await"
              \/ phase = "shot" /\ phase' = "shot"
<1>1. Len(plan.waves) \in Nat /\ DOMAIN plan.waves = 1..Len(plan.waves)
  BY Waves1
<1>2. CASE SendWave
  <2>1. wave \in DOMAIN plan.waves /\ phase = "run" /\ phase' = "await"
    BY <1>1, <1>2 DEF ProgressInv, SendWave
  <2> QED
    BY <1>2, <2>1 DEF SendWave, OpsNow, LinesOf
<1>3. CASE SendStep
  <2>1. wave \in DOMAIN plan.waves /\ phase = "run" /\ phase' = "await"
    BY <1>1, <1>3 DEF ProgressInv, SendStep
  <2> QED
    BY <1>3, <2>1 DEF SendStep, OpsNow
<1>4. CASE SendShot
  <2>1. wave \in DOMAIN plan.waves /\ phase = "shot" /\ phase' = "shot"
    BY <1>4 DEF ProgressInv, SendShot, runVars
  <2> QED
    BY <1>4, <2>1 DEF SendShot, OpsNow, runVars
<1> QED
  BY <1>2, <1>3, <1>4

\* Every step of the program keeps the lines that go once apart.
LEMMA OnceNext ==
    PlanSound /\ WireInv /\ RunInv /\ OnceInv /\ [Next]_vars => OnceInv'
<1> SUFFICES ASSUME PlanSound, WireInv, RunInv, OnceInv, [Next]_vars PROVE OnceInv'
  OBVIOUS
<1>0. Single /\ Unsent /\ CallInv /\ ConfirmedInv
  BY DEF RunInv, OnceInv
<1>1. CASE SendWave \/ SendStep \/ SendShot
  <2>1. /\ wave \in DOMAIN plan.waves /\ Begin(OpsNow) /\ UNCHANGED <<job, plan, wave, at>>
        /\ \/ phase = "run" /\ phase' = "await"
           \/ phase = "shot" /\ phase' = "shot"
    BY <1>1, SendsOps DEF RunInv
  <2> QED
    BY <2>1, SendOnce
<1>2. CASE WaveAnswered \/ WaveBroke \/ StepAnswered \/ StepAnsweredThenShot \/ ShotAnswered
  <2>1. UNCHANGED <<job, plan, conns, log>> /\ call' = NoCall
    BY <1>2 DEF WaveAnswered, WaveBroke, StepAnswered, StepAnsweredThenShot, ShotAnswered,
       End, netVars
  <2>2. ~Busy'
    BY <2>1 DEF Busy, NoCall
  <2> QED
    BY <1>0, <2>1, <2>2, QuietOnce
<1>3. CASE Reject \/ Finish
  <2>1. UNCHANGED <<job, plan, conns, log, call>> /\ phase \in {"compile", "run"}
    BY <1>3 DEF Reject, Finish, wireVars
  <2>2. ~Busy'
    BY <1>0, <2>1 DEF Busy, CallInv
  <2> QED
    BY <1>0, <2>1, <2>2, QuietOnce
<1>4. CASE Accepted
  <2>1. UNCHANGED <<conns, log, call>> /\ phase = "compile"
    BY <1>4 DEF Accepted, wireVars
  <2>2. ~Busy'
    BY <1>0, <2>1 DEF Busy, CallInv
  <2>3. log = <<>> /\ \A c \in Conn : conns[c].up = <<>>
    BY <1>0, <2>1, EmptyWire DEF ConfirmedInv
  <2>4. Spots' = {}
    BY <2>1, <2>3, EmptySeq DEF Spots, SpotsOf
  <2> QED
    BY <2>2, <2>4 DEF OnceInv, Single, Unsent
<1>5. CASE WireStep
  BY <1>5, WireOnce DEF WireStep
<1>6. CASE Rest \/ UNCHANGED vars
  <2>1. UNCHANGED vars
    BY <1>6 DEF Rest
  <2>2. UNCHANGED <<job, plan, conns, log, call, phase, wave, at>>
    BY <2>1 DEF vars, wireVars, runVars
  <2>3. Single' /\ \A id : Nowhere(id) => Nowhere(id)'
    BY <1>0, <2>2, SpotsStay
  <2>4. OpsNow' = OpsNow
    BY <2>2, SamePlace DEF OpsNow, LinesOf
  <2>5. Busy' = Busy /\ \A ops : Written(call', ops) = Written(call, ops)
    BY <2>2 DEF Busy
  <2> QED
    BY <1>0, <2>2, <2>3, <2>4, <2>5, OnceCarried
<1> QED
  BY <1>1, <1>2, <1>3, <1>4, <1>5, <1>6 DEF Next, RunStep

\* What OnceInv says of the lines performed.
LEMMA PerformedOnce == OnceInv => PipelinedOnce
<1> SUFFICES ASSUME Single PROVE PipelinedOnce
  BY DEF OnceInv
<1>1. ASSUME NEW w \in DOMAIN plan.waves, Pipelined(w),
             NEW n \in DOMAIN Chunks(StepsIn(w)), Len(Chunks(StepsIn(w))[n]) > 1,
             NEW k \in DOMAIN Chunks(StepsIn(w))[n]
      PROVE  Cardinality(Performed(Chunks(StepsIn(w))[n][k].id)) <= 1
  <2>1. PICK id : id = Chunks(StepsIn(w))[n][k].id
    OBVIOUS
  <2>2. InChunk(id)
    BY <1>1, <2>1 DEF InChunk
  <2>3. ASSUME NEW i \in Performed(id), NEW j \in Performed(id) PROVE i = j
    <3>1. /\ i \in DOMAIN log /\ OnceOnly(log[i].op) /\ log[i].op.id = id
          /\ j \in DOMAIN log /\ OnceOnly(log[j].op) /\ log[j].op.id = id
      BY <2>2 DEF Performed, OnceOnly
    <3>2. /\ <<0, i>> \in Spots /\ OpAt(<<0, i>>) = log[i].op
          /\ <<0, j>> \in Spots /\ OpAt(<<0, j>>) = log[j].op
      BY <3>1, SpotHere
    <3>3. <<0, i>> = <<0, j>>
      BY <3>1, <3>2, Zenon DEF Single
    <3> QED
      BY <3>3
  <2>4. Performed(id) = {} \/ \E i : Performed(id) = {i}
    BY <2>3
  <2>5. Cardinality(Performed(id)) \in {0, 1}
    BY <2>4, FS_EmptySet, FS_Singleton
  <2> QED
    BY <2>1, <2>5
<1>2. \A w \in DOMAIN plan.waves : Pipelined(w) =>
         \A n \in DOMAIN Chunks(StepsIn(w)) : Len(Chunks(StepsIn(w))[n]) > 1 =>
            \A k \in DOMAIN Chunks(StepsIn(w))[n] :
               Cardinality(Performed(Chunks(StepsIn(w))[n][k].id)) <= 1
  BY <1>1
<1> QED
  BY <1>2 DEF PipelinedOnce, Pipelined, StepsIn

\* The line of a step in a pipelined chunk is performed at most once (client.rs
\* rpc_pipeline: "After any request line is written, a transport error is not retried").
THEOREM ChunksGoOnce == Spec => []PipelinedOnce
<1>1. Init => OnceInv
  <2> SUFFICES ASSUME Init PROVE OnceInv
    OBVIOUS
  <2>1. log = <<>> /\ \A c \in Conn : conns[c].up = <<>>
    BY DEF Init, ClientInit
  <2>2. Spots = {}
    BY <2>1, EmptySeq DEF Spots, SpotsOf
  <2>3. ~Busy
    BY DEF Init, ClientInit, Busy, NoCall
  <2> QED
    BY <2>2, <2>3 DEF OnceInv, Single, Unsent
<1>2. (PlanSound /\ WireInv /\ RunInv) /\ OnceInv /\ [Next]_vars => OnceInv'
  BY OnceNext
<1> QED
  BY <1>1, <1>2, PerformedOnce, RunInvariant, PTL DEF Spec

-----------------------------------------------------------------------------
(* What repetitions cost                                                   *)

\* Where a step's own line is: each time it was performed, and on the way
LinesFor(id) == {s \in Spots : OpAt(s).effect # "shot" /\ OpAt(s).id = id}
Within(id, n) == IsFiniteSet(LinesFor(id)) /\ Cardinality(LinesFor(id)) <= n

\* No step of a program adds a line of it.
NoMore == \A id : \A n \in Nat : Within(id, n) => Within(id, n)'

\* The ops of a call still to be written may each be paid for by the faults so far.
Owed(ops, c, n) == \A k \in DOMAIN ops : k > Written(c, ops) /\ ops[k].effect # "shot"
                                         => Within(ops[k].id, n)

\* A line that goes alone was written; it waits for the host no longer, and no answer
\* to it can be read.  An error is all that can come of this try.
Unanswered ==
    /\ Busy /\ session # 0 /\ Len(call.ops) = 1 /\ call.sent = 1 /\ call.got = <<>>
    /\ conns[session].up = <<>>
    /\ conns[session].down # <<>> => ~Head(conns[session].down).readable

LoneInv == Unanswered /\ call.ops[1].effect # "shot" => Within(call.ops[1].id, faults)

\* A step's first line is free, each further one was paid for by a fault.
Spent == \A id : Within(id, faults + 1)

CostInv ==
    /\ faults \in Nat /\ Spent
    /\ Busy => Owed(OpsNow, call, faults)
    /\ LoneInv

\* A bound holds with more to spend.
LEMMA WithinMore ==
    ASSUME NEW id, NEW m \in Nat, NEW n \in Nat, m <= n, Within(id, m) PROVE Within(id, n)
<1>1. Cardinality(LinesFor(id)) \in Nat
  BY FS_CardinalityType DEF Within
<1> QED
  BY <1>1 DEF Within

\* Lines that stay or are lost, or that move each to a place of its own, are no more.
LEMMA LinesMove ==
    ASSUME NEW From, NEW id, NEW lost, NEW n \in Nat, Within(id, n),
           \A s \in Spots' : From[s] \in Spots /\ OpAt(s)' = OpAt(From[s]) /\ From[s] # lost,
           \A s, t \in Spots' : From[s] = From[t] => s = t
    PROVE  /\ Within(id, n)'
           /\ lost \in LinesFor(id) /\ n # 0 => Within(id, n - 1)'
<1>1. PICK S, T, R : S = LinesFor(id)' /\ T = LinesFor(id) /\ R = T \ {lost}
  OBVIOUS
<1>2. IsFiniteSet(T) /\ Cardinality(T) <= n /\ Cardinality(T) \in Nat
  BY <1>1, FS_CardinalityType DEF Within
<1>3. /\ IsFiniteSet(R) /\ Cardinality(R) \in Nat
      /\ Cardinality(R) = IF lost \in T THEN Cardinality(T) - 1 ELSE Cardinality(T)
  BY <1>1, <1>2, FS_RemoveElement, FS_CardinalityType
<1>4. PICK f : f = [s \in S |-> From[s]]
  OBVIOUS
<1>5. f \in Injection(S, R)
  <2>1. ASSUME NEW s \in S PROVE s \in Spots' /\ From[s] \in R
    BY <1>1, <2>1 DEF LinesFor
  <2> QED
    BY <1>4, <2>1 DEF Injection, IsInjective
<1>6. IsFiniteSet(S) /\ Cardinality(S) <= Cardinality(R) /\ Cardinality(S) \in Nat
  BY <1>3, <1>5, FS_Injection, FS_CardinalityType
<1> QED
  BY <1>1, <1>2, <1>3, <1>6 DEF Within

LEMMA LinesStay ==
    ASSUME UNCHANGED log,
           \A c \in Conn : conns'[c].up = conns[c].up \/ conns'[c].up = <<>>
    PROVE  NoMore
<1>1. \A s \in Spots' : s \in Spots /\ OpAt(s)' = OpAt(s)
  BY SpotsStayed
<1>2. ASSUME NEW id, NEW n \in Nat, Within(id, n) PROVE Within(id, n)'
  <2>1. LinesFor(id)' \in SUBSET LinesFor(id)
    BY <1>1 DEF LinesFor
  <2>2. /\ IsFiniteSet(LinesFor(id)') /\ Cardinality(LinesFor(id)') <= Cardinality(LinesFor(id))
        /\ Cardinality(LinesFor(id)') \in Nat /\ Cardinality(LinesFor(id)) \in Nat
    BY <1>2, <2>1, FS_Subset, FS_CardinalityType DEF Within
  <2> QED
    BY <1>2, <2>2 DEF Within
<1> QED
  BY <1>2 DEF NoMore

\* A line performed is where it was, in another place.
LEMMA LinesPerform ==
    ASSUME WireTypeOK, NEW c \in Conn, NEW answer \in Answer, HostPerforms(c, answer)
    PROVE  /\ NoMore
           /\ \A d \in Conn : \A op : d # c /\ conns[d].up # <<>> /\ conns'[d].up = <<>>
                              /\ conns[d].up[1].op = op /\ op.effect # "shot" =>
                \A n \in Nat : Within(op.id, n + 1) => Within(op.id, n)'
<1>1. PICK From : /\ \A s \in Spots' : /\ From[s] \in Spots /\ OpAt(s)' = OpAt(From[s])
                                       /\ From[s][1] \in {c, s[1]}
                  /\ \A s, t \in Spots' : From[s] = From[t] => s = t
  BY SpotsPerformed
<1>2. ASSUME NEW id, NEW n \in Nat, Within(id, n) PROVE Within(id, n)'
  <2>1. PICK lost : lost \notin Spots
    <3>1. 0 \notin Conn /\ 0 \notin DOMAIN log
      BY ClientAssumption, LenProperties DEF Conn, WireTypeOK
    <3>2. \A s \in Spots : (s[1] = 0 /\ s[2] \in DOMAIN log) \/ s[1] \in Conn
      BY SpotIs DEF Spots
    <3>3. <<0, 0>>[1] = 0 /\ <<0, 0>>[2] = 0
      OBVIOUS
    <3>4. <<0, 0>> \notin Spots
      BY <3>1, <3>2, <3>3
    <3> QED
      BY <3>4
  <2> QED
    BY <1>1, <1>2, <2>1, LinesMove
<1>3. ASSUME NEW d \in Conn, d # c, conns[d].up # <<>>, conns'[d].up = <<>>,
             NEW op, op = conns[d].up[1].op, op.effect # "shot",
             NEW n \in Nat, Within(op.id, n + 1)
      PROVE  Within(op.id, n)'
  <2>1. 1 \in DOMAIN conns[d].up
    <3>1. conns[d].up \in Seq(Line)
      BY EndLists
    <3> QED
      BY <1>3, <3>1, EmptySeq, LenProperties
  <2>2. <<d, 1>> \in Spots /\ OpAt(<<d, 1>>) = op
    BY <1>3, <2>1, SpotHere
  <2>3. <<d, 1>> \in LinesFor(op.id)
    BY <1>3, <2>2 DEF LinesFor
  <2>4. ASSUME NEW s \in Spots' PROVE From[s] # <<d, 1>>
    <3> SUFFICES ASSUME From[s] = <<d, 1>> PROVE FALSE
      OBVIOUS
    <3>1. s[1] = d
      BY <1>1, <1>3
    <3>2. (s[1] \in Conn /\ s[2] \in DOMAIN conns'[s[1]].up) \/ s[1] = 0
      BY SpotIs DEF Spots
    <3>3. 0 \notin Conn
      BY ClientAssumption DEF Conn
    <3> QED
      BY <1>3, <3>1, <3>2, <3>3, EmptySeq
  <2>5. PICK m \in Nat : m = n + 1 /\ m # 0 /\ m - 1 = n
    OBVIOUS
  <2>6. Within(op.id, m - 1)'
    BY <1>1, <1>3, <2>3, <2>4, <2>5, LinesMove
  <2> QED
    BY <2>5, <2>6
<1>4. NoMore
  BY <1>2 DEF NoMore
<1> QED
  BY <1>3, <1>4

\* A line written is one more of its step, and of no other.
LEMMA LinesWrite ==
    ASSUME WireTypeOK, UNCHANGED log, WriteLine, NEW op, op = call.ops[call.sent + 1]
    PROVE  /\ ~conns[session].open => NoMore
           /\ \A id : \A n \in Nat : Within(id, n) => Within(id, n + 1)'
           /\ \A id : \A n \in Nat : (op.effect # "shot" => op.id # id) /\ Within(id, n)
                                     => Within(id, n)'
<1>1. /\ session \in Conn
      /\ \A c \in Conn : c # session => conns'[c] = conns[c]
      /\ ~conns[session].open => conns'[session].up = conns[session].up
  BY WriteDoes
<1>2. PICK new : \A s \in Spots' : \/ s = new /\ OpAt(s)' = op
                                   \/ s \in Spots /\ OpAt(s)' = OpAt(s)
  <2>1. CASE conns[session].open
    BY <2>1, SpotsWritten
  <2>2. CASE ~conns[session].open
    <3>1. \A c \in Conn : conns'[c].up = conns[c].up
      BY <1>1, <2>2
    <3> QED
      BY <3>1, SpotsStayed
  <2> QED
    BY <2>1, <2>2
<1>3. ASSUME ~conns[session].open PROVE NoMore
  <2>1. \A c \in Conn : conns'[c].up = conns[c].up
    BY <1>1, <1>3
  <2> QED
    BY <2>1, LinesStay
<1>4. ASSUME NEW id, NEW n \in Nat, Within(id, n)
      PROVE  /\ Within(id, n + 1)'
             /\ (op.effect # "shot" => op.id # id) => Within(id, n)'
  <2>1. PICK S, T : S = LinesFor(id)' /\ T = LinesFor(id)
    OBVIOUS
  <2>2. IsFiniteSet(T) /\ Cardinality(T) <= n /\ Cardinality(T) \in Nat
    BY <1>4, <2>1, FS_CardinalityType DEF Within
  <2>3. /\ IsFiniteSet(T \cup {new}) /\ Cardinality(T \cup {new}) <= n + 1
        /\ Cardinality(T \cup {new}) \in Nat
    <3>1. /\ IsFiniteSet(T \cup {new})
          /\ Cardinality(T \cup {new}) = IF new \in T THEN Cardinality(T) ELSE Cardinality(T) + 1
      BY <2>2, FS_AddElement
    <3>2. PICK a \in Nat, b \in Nat : a = Cardinality(T) /\ b = Cardinality(T \cup {new})
      BY <2>2, <3>1, FS_CardinalityType
    <3>3. a <= n /\ b \in {a, a + 1}
      BY <2>2, <3>1, <3>2
    <3> QED
      BY <3>1, <3>2, <3>3
  <2>4. S \in SUBSET (T \cup {new})
    BY <1>2, <2>1 DEF LinesFor
  <2>5. IsFiniteSet(S) /\ Cardinality(S) <= n + 1
    <3>1. /\ IsFiniteSet(S) /\ Cardinality(S) <= Cardinality(T \cup {new})
          /\ Cardinality(S) \in Nat
      BY <2>3, <2>4, FS_Subset, FS_CardinalityType
    <3> QED
      BY <2>3, <3>1
  <2>6. ASSUME op.effect # "shot" => op.id # id PROVE IsFiniteSet(S) /\ Cardinality(S) <= n
    <3>1. S \in SUBSET T
      BY <1>2, <2>1, <2>6 DEF LinesFor
    <3>2. IsFiniteSet(S) /\ Cardinality(S) <= Cardinality(T) /\ Cardinality(S) \in Nat
      BY <2>2, <3>1, FS_Subset, FS_CardinalityType
    <3> QED
      BY <2>2, <3>2
  <2> QED
    BY <2>1, <2>5, <2>6 DEF Within
<1> QED
  BY <1>3, <1>4

\* More to spend keeps a bound, for every step of a program.
LEMMA MoreStays ==
    ASSUME NoMore, NEW id, NEW m \in Nat, NEW n \in Nat, m <= n, Within(id, m)
    PROVE  Within(id, n)'
<1>1. Within(id, n)
  BY WithinMore
<1> QED
  BY <1>1 DEF NoMore

\* Without a fault: what is still to be written was owed, or is paid for.
LEMMA CostKept ==
    ASSUME CostInv, NoMore, faults' = faults, LoneInv',
           NEW ops, Busy' => OpsNow' = ops,
           Busy' => \A k \in DOMAIN ops : k > Written(call', ops) /\ ops[k].effect # "shot"
                                          => Within(ops[k].id, faults)
    PROVE  CostInv'
<1>1. PICK n \in Nat : n = faults /\ n + 1 \in Nat
  BY DEF CostInv
<1>2. \A id : Within(id, n + 1)'
  BY <1>1 DEF CostInv, Spent, NoMore
<1>3. ASSUME Busy', NEW k \in DOMAIN ops, k > Written(call', ops), ops[k].effect # "shot"
      PROVE  Within(ops[k].id, n)'
  <2>1. PICK id : id = ops[k].id
    OBVIOUS
  <2>2. Within(id, n)
    BY <1>1, <1>3, <2>1
  <2>3. Within(id, n)'
    BY <2>2 DEF NoMore
  <2> QED
    BY <2>1, <2>3
<1>4. faults' = n
  BY <1>1
<1>5. Busy' => Owed(OpsNow, call, faults)'
  BY <1>3, <1>4 DEF Owed
<1>6. faults' \in Nat /\ Spent'
  BY <1>2, <1>4 DEF Spent, Within
<1> QED
  BY <1>5, <1>6 DEF CostInv

\* A fault pays for every line in hand.
LEMMA CostPaid ==
    ASSUME CostInv, NoMore, faults' = faults + 1
    PROVE  CostInv'
<1>1. PICK n \in Nat : n = faults /\ n + 1 \in Nat /\ n + 2 \in Nat /\ n + 1 <= n + 2
                       /\ (n + 1) + 1 = n + 2
  BY DEF CostInv
<1>2. faults' = n + 1
  BY <1>1
<1>3. ASSUME NEW id PROVE Within(id, n + 1)' /\ Within(id, n + 2)'
  <2>1. Within(id, n + 1)
    BY <1>1 DEF CostInv, Spent
  <2>2. Within(id, n + 1)'
    BY <1>1, <2>1 DEF NoMore
  <2>3. Within(id, n + 2)'
    BY <1>1, <2>1, MoreStays
  <2> QED
    BY <2>2, <2>3
<1>4. Owed(OpsNow, call, faults)'
  BY <1>2, <1>3 DEF Owed
<1>5. LoneInv'
  BY <1>2, <1>3 DEF LoneInv
<1>6. faults' \in Nat /\ Spent'
  <2>1. faults' + 1 = n + 2
    BY <1>1, <1>2
  <2> QED
    BY <1>1, <1>2, <1>3, <2>1 DEF Spent, Within
<1> QED
  BY <1>4, <1>5, <1>6 DEF CostInv

\* With no call under way nothing is owed.
LEMMA QuietCosts ==
    ASSUME CostInv, UNCHANGED <<conns, log, faults>>, ~Busy' PROVE CostInv'
<1>1. NoMore
  BY LinesStay
<1>2. LoneInv'
  BY DEF LoneInv, Unanswered
<1> QED
  BY <1>1, <1>2, CostKept

\* No line is written again but the one that waits alone, and that was paid for.
LEMMA LoneWaits ==
    ASSUME WireInv, WriteFails \/ ReadEof \/ (ReadAnswer /\ ~Head(conns[session].down).readable),
           Len(call.ops) = 1, call.sent = 1
    PROVE  Unanswered
<1>0. /\ WireTypeOK /\ ConnsInv /\ ExchangeInv /\ Reading
  <2>1. ~WriteFails
    BY DEF WriteFails
  <2> QED
    BY <2>1 DEF WireInv, ReadEof, ReadAnswer
<1>1. /\ session \in Conn /\ OnWire(call, calls, conns[session]) /\ Busy
      /\ Len(call.got) = 0 /\ Len(conns[session].down) \in Nat /\ Len(conns[session].up) \in Nat
      /\ call.got \in Seq(Answer) /\ conns[session].up \in Seq(Line)
      /\ conns[session].down \in Seq(Answer)
  <2>1. /\ session \in Conn /\ OnWire(call, calls, conns[session]) /\ Busy /\ call \in Calls
        /\ conns[session] \in Ends
    BY <1>0, InUse DEF ExchangeInv, Reading, WireTypeOK
  <2>2. call.got \in Seq(Answer) /\ conns[session].up \in Seq(Line)
        /\ conns[session].down \in Seq(Answer)
    BY <2>1 DEF Calls, Ends
  <2>3. Len(call.got) \in Nat /\ Len(call.got) < 1
    BY <1>0, <2>2, LenProperties DEF Reading
  <2> QED
    BY <2>1, <2>2, <2>3, LenProperties
<1>2. call.got = <<>>
  BY <1>1, EmptySeq
<1>3. CASE ReadEof
  <2>1. conns[session].down = <<>> /\ conns[session].up = <<>>
    BY <1>0, <1>1, <1>3 DEF ReadEof, ConnsInv
  <2> QED
    BY <1>1, <1>2, <2>1, <1>0 DEF Unanswered, Reading
<1>4. CASE ReadAnswer /\ ~Head(conns[session].down).readable
  <2>1. Len(conns[session].down) # 0
    BY <1>1, <1>4, EmptySeq DEF ReadAnswer
  <2>2. Len(call.got) + Len(conns[session].down) + Len(conns[session].up) <= 1
    BY <1>1 DEF OnWire
  <2>3. Len(conns[session].up) = 0
    <3>1. PICK d \in Nat, u \in Nat : d = Len(conns[session].down) /\ u = Len(conns[session].up)
      BY <1>1
    <3>2. 0 + d + u <= 1 /\ d # 0
      BY <1>1, <2>1, <2>2, <3>1
    <3>3. u = 0
      BY <3>2
    <3> QED
      BY <3>1, <3>3
  <2>4. conns[session].up = <<>>
    BY <1>1, <2>3, EmptySeq
  <2> QED
    BY <1>0, <1>1, <1>2, <1>4, <2>4 DEF Unanswered, Reading
<1>5. ~WriteFails
  BY DEF WriteFails
<1> QED
  BY <1>3, <1>4, <1>5

\* An error on the wire costs nothing: what is sent again was paid for.
LEMMA DropCosts ==
    ASSUME PlanSound, WireInv, RunInv, CostInv, UNCHANGED <<runVars, faults>>,
           WriteFails \/ ReadEof \/ ReadTimeout \/
             (ReadAnswer /\ ~Head(conns[session].down).readable)
    PROVE  CostInv'
<1>0. /\ ProgressInv /\ CallInv /\ WireTypeOK /\ ExchangeInv /\ OpsNow' = OpsNow
      /\ LoneInv /\ Owed(OpsNow, call, faults)
  <2>1. Busy
    BY DropDoes DEF WireInv
  <2> QED
    BY <2>1, SameRun DEF RunInv, WireInv, CostInv
<1>1. /\ session # 0 /\ session' = 0 /\ Busy /\ conns' = Left(conns) /\ UNCHANGED log
      /\ call'.state = "error" \/ (Resets /\ MayRetry(call))
  BY <1>0, DropDoes
<1>2. NoMore
  <2>1. /\ \A c \in Conn : c # session => conns'[c] = conns[c]
        /\ conns'[session].up = conns[session].up
    BY <1>0, <1>1, LeftDoes
  <2>2. \A c \in Conn : conns'[c].up = conns[c].up
    BY <2>1
  <2> QED
    BY <1>1, <2>2, LinesStay
<1>3. LoneInv'
  BY <1>1 DEF LoneInv, Unanswered
<1>4. PICK ops : ops = OpsNow
  OBVIOUS
<1>5. ASSUME Busy', NEW k \in DOMAIN ops, k > Written(call', ops), ops[k].effect # "shot"
      PROVE  Within(ops[k].id, faults)
  <2>1. Resets /\ MayRetry(call)
    BY <1>1, <1>5 DEF Busy
  <2>2. \/ k > Written(call, OpsNow)
        \/ Len(call.ops) = 1 /\ call.sent = 1 /\ OpsNow[k] = call.ops[1]
    BY <1>0, <1>1, <1>4, <1>5, <2>1, StartsOver
  <2>3. CASE k > Written(call, OpsNow)
    BY <1>0, <1>4, <1>5, <2>3 DEF Owed
  <2>4. CASE Len(call.ops) = 1 /\ call.sent = 1 /\ OpsNow[k] = call.ops[1]
    <3>1. ~ReadTimeout
      <4> SUFFICES ASSUME ReadTimeout PROVE FALSE
        OBVIOUS
      <4>1. call'.state = "error"
        BY <1>0, CallErrs DEF ReadTimeout, WireTypeOK
      <4> QED
        BY <1>5, <4>1 DEF Busy
    <3>2. Unanswered
      BY <2>4, <3>1, LoneWaits
    <3> QED
      BY <1>0, <1>4, <1>5, <2>4, <3>2 DEF LoneInv
  <2> QED
    BY <2>2, <2>3, <2>4
<1>6. OpsNow' = ops
  BY <1>0, <1>4
<1> QED
  BY <1>2, <1>3, <1>5, <1>6, CostKept

\* write_json_line: what is written was owed.
LEMMA WriteCosts ==
    ASSUME PlanSound, WireInv, RunInv, CostInv, UNCHANGED <<runVars, faults>>, WriteLine
    PROVE  CostInv'
<1>0. /\ ProgressInv /\ CallInv /\ WireTypeOK /\ ExchangeInv /\ OpsNow' = OpsNow /\ Busy
      /\ UNCHANGED log /\ Owed(OpsNow, call, faults) /\ Spent
  BY SameRun DEF RunInv, WireInv, CostInv, WriteLine
<1>1. wave \in DOMAIN plan.waves
  BY <1>0 DEF CallInv, ProgressInv, Busy
<1>2. PICK n \in DOMAIN Chunks(OpsNow) : Serving(call, OpsNow, n)
  BY <1>0 DEF CallInv, Busy
<1>3. PICK k \in DOMAIN OpsNow :
         /\ k > Written(call, OpsNow) /\ OpsNow[k] = call.ops[call.sent + 1]
         /\ \A i \in DOMAIN OpsNow : i > Written(call', OpsNow) =>
               /\ i > Written(call, OpsNow)
               /\ OpsNow[i].effect # "shot" => OpsNow[i].id # OpsNow[k].id
  BY <1>0, <1>1, <1>2, NextLine
<1>4. PICK op, ops : op = call.ops[call.sent + 1] /\ op = ops[k] /\ ops = OpsNow
  BY <1>3
<1>5. PICK m \in Nat : m = faults /\ m + 1 \in Nat
  BY DEF CostInv
<1>6. /\ ~conns[session].open => NoMore
      /\ \A id : \A i \in Nat : Within(id, i) => Within(id, i + 1)'
      /\ \A id : \A i \in Nat : (op.effect # "shot" => op.id # id) /\ Within(id, i)
                                => Within(id, i)'
  BY <1>0, <1>4, LinesWrite
<1>7. op.effect # "shot" => Within(op.id, m)
  BY <1>0, <1>3, <1>4, <1>5 DEF Owed
<1>8. ASSUME NEW id PROVE Within(id, m + 1)'
  <2>1. CASE op.effect # "shot" /\ op.id = id
    <3>1. Within(id, m)
      BY <1>7, <2>1
    <3> QED
      BY <1>5, <1>6, <3>1
  <2>2. CASE op.effect # "shot" => op.id # id
    <3>1. Within(id, m + 1)
      BY <1>0, <1>5 DEF Spent
    <3> QED
      BY <1>5, <1>6, <2>2, <3>1
  <2> QED
    BY <2>1, <2>2
<1>9. ASSUME NEW i \in DOMAIN ops, i > Written(call', ops), ops[i].effect # "shot"
      PROVE  Within(ops[i].id, m)'
  <2>1. PICK id : id = ops[i].id
    OBVIOUS
  <2>2. i > Written(call, ops) /\ op.id # id
    BY <1>3, <1>4, <1>9, <2>1
  <2>3. Within(id, m)
    BY <1>0, <1>4, <1>5, <1>9, <2>1, <2>2 DEF Owed
  <2>4. Within(id, m)'
    BY <1>6, <2>2, <2>3
  <2> QED
    BY <2>1, <2>4
<1>10. LoneInv'
  <2> SUFFICES ASSUME Unanswered', call'.ops[1].effect # "shot"
               PROVE  Within(call.ops[1].id, faults)'
    BY DEF LoneInv
  <2>1. /\ session \in Conn /\ call'.sent = call.sent + 1 /\ call'.ops = call.ops
        /\ UNCHANGED <<session, faults>> /\ call.sent \in Nat
        /\ \E line \in Line : conns'[session].up =
             IF conns[session].open THEN Append(conns[session].up, line)
             ELSE conns[session].up
    BY <1>0, WriteDoes DEF WriteLine, WireTypeOK, Calls
  <2>2. ~conns[session].open
    <3> SUFFICES ASSUME conns[session].open PROVE FALSE
      OBVIOUS
    <3>1. PICK line \in Line : conns'[session].up = Append(conns[session].up, line)
      BY <2>1
    <3>2. conns[session].up \in Seq(Line)
      BY <1>0, <2>1, EndLists
    <3>3. conns'[session].up # <<>>
      BY <3>1, <3>2, Added
    <3> QED
      BY <2>1, <3>3 DEF Unanswered
  <2>3. call.sent = 0 /\ 0 + 1 = 1
    <3>1. call.sent + 1 = 1
      BY <2>1 DEF Unanswered
    <3> QED
      BY <2>1, <3>1
  <2>4. call'.ops[1] = op /\ op.effect # "shot"
    BY <1>4, <2>1, <2>3
  <2>5. PICK id : id = op.id
    OBVIOUS
  <2>6. Within(id, m)'
    BY <1>6, <1>7, <2>2, <2>4, <2>5 DEF NoMore
  <2> QED
    BY <1>5, <2>1, <2>4, <2>5, <2>6
<1>11. faults' = m /\ OpsNow' = ops
  BY <1>0, <1>4, <1>5
<1>12. faults' \in Nat /\ Spent'
  BY <1>8, <1>11 DEF Spent, Within
<1>13. Owed(OpsNow, call, faults)'
  BY <1>9, <1>11 DEF Owed
<1> QED
  BY <1>10, <1>12, <1>13 DEF CostInv

\* A chunk answered costs nothing.
LEMMA ChunkCosts ==
    ASSUME PlanSound, WireInv, RunInv, CostInv, UNCHANGED <<runVars, faults>>, ChunkDone
    PROVE  CostInv'
<1>0. /\ ProgressInv /\ CallInv /\ WireTypeOK /\ ExchangeInv /\ OpsNow' = OpsNow
  BY SameRun DEF RunInv, WireInv
<1>1. /\ Busy /\ UNCHANGED <<conns, log>>
      /\ call'.state = "ok" \/ (call'.sent = 0 /\ Written(call', OpsNow) = Written(call, OpsNow))
  BY <1>0, ChunkContinues
<1>2. NoMore
  BY <1>1, LinesStay
<1>3. LoneInv'
  BY <1>1 DEF LoneInv, Unanswered, Busy
<1>4. PICK ops : ops = OpsNow
  OBVIOUS
<1>5. ASSUME Busy', NEW k \in DOMAIN ops, k > Written(call', ops), ops[k].effect # "shot"
      PROVE  Within(ops[k].id, faults)
  <2>1. k > Written(call, OpsNow)
    BY <1>1, <1>4, <1>5 DEF Busy
  <2> QED
    BY <1>1, <1>4, <1>5, <2>1 DEF CostInv, Owed
<1>6. OpsNow' = ops
  BY <1>0, <1>4
<1> QED
  BY <1>2, <1>3, <1>5, <1>6, CostKept

\* A line performed and answered costs nothing, an answer nobody can read is a fault.
LEMMA PerformCosts ==
    ASSUME PlanSound, WireInv, RunInv, CostInv, UNCHANGED runVars,
           NEW c \in Conn, NEW ok \in BOOLEAN, NEW readable \in BOOLEAN,
           Perform(c, ok, readable)
    PROVE  CostInv'
<1>0. /\ WireTypeOK /\ ExchangeInv /\ LoneInv /\ Spent /\ OpsNow' = OpsNow
      /\ Busy => Owed(OpsNow, call, faults)
  BY SameRun DEF WireInv, CostInv
<1>1. PICK answer \in Answer : answer.readable = readable /\ HostPerforms(c, answer)
  BY <1>0, PerformDoes
<1>2. /\ NoMore
      /\ \A d \in Conn : \A op : d # c /\ conns[d].up # <<>> /\ conns'[d].up = <<>>
                              /\ conns[d].up[1].op = op /\ op.effect # "shot" =>
            \A n \in Nat : Within(op.id, n + 1) => Within(op.id, n)'
  BY <1>0, <1>1, LinesPerform
<1>3. faults' = IF readable THEN faults ELSE faults + 1
  BY DEF Perform
<1>4. CASE ~readable
  BY <1>2, <1>3, <1>4, CostPaid
<1>5. ASSUME readable, Unanswered', NEW op, op = call.ops[1], op.effect # "shot"
      PROVE  Within(op.id, faults)'
  <2>0. PICK m \in Nat : m = faults /\ faults' = m /\ Within(op.id, m + 1)
    BY <1>0, <1>3, <1>5 DEF CostInv, Spent
  <2>1. /\ session \in Conn /\ conns[session] \in Ends
        /\ UNCHANGED <<session, call>> /\ Busy /\ Len(call.ops) = 1 /\ call.sent = 1
        /\ call.got = <<>> /\ conns'[session].up = <<>>
        /\ conns'[session].down # <<>> => ~Head(conns'[session].down).readable
        /\ session # 0
    <3>1. UNCHANGED <<session, call>>
      BY <1>1 DEF HostPerforms
    <3> QED
      BY <1>0, <1>5, <3>1, InUse DEF Unanswered, Busy
  <2>2. OnWire(call, calls, conns[session])
    BY <1>0, <2>1 DEF ExchangeInv
  <2>3. conns[session].up \in Seq(Line) /\ conns[session].down \in Seq(Answer)
    BY <2>1 DEF Ends
  <2>4. CASE conns[session].up = <<>>
    <3>1. c # session
      BY <1>1, <2>4 DEF HostPerforms
    <3>2. conns'[session].down = conns[session].down
      BY <1>1, <2>1, <3>1 DEF HostPerforms
    <3>3. Unanswered
      BY <2>1, <2>4, <3>2 DEF Unanswered
    <3>4. Within(op.id, m)
      BY <1>0, <1>5, <2>0, <3>3 DEF LoneInv
    <3>5. Within(op.id, m)'
      BY <1>2, <3>4 DEF NoMore
    <3> QED
      BY <2>0, <3>5
  <2>5. CASE conns[session].up # <<>>
    <3>1. Len(conns[session].up) \in Nat \ {0}
      BY <2>3, <2>5, HeadTail
    <3>2. Len(conns[session].down) = 0
      <4>1. PICK d \in Nat, u \in Nat : d = Len(conns[session].down) /\ u = Len(conns[session].up)
        BY <2>3, LenProperties
      <4>2. 0 + d + u <= 1 /\ u # 0
        BY <2>1, <2>2, <3>1, <4>1, EmptySeq DEF OnWire
      <4>3. d = 0
        BY <4>2
      <4> QED
        BY <4>1, <4>3
    <3>3. conns[session].down = <<>>
      BY <2>3, <3>2, EmptySeq
    <3>4. c # session
      <4> SUFFICES ASSUME c = session PROVE FALSE
        OBVIOUS
      <4>1. conns'[session].down = Append(conns[session].down, answer)
        BY <1>1, <2>1 DEF HostPerforms
      <4>2. conns'[session].down = <<answer>>
        BY <3>3, <4>1
      <4>3. <<answer>> # <<>> /\ Head(<<answer>>) = answer
        OBVIOUS
      <4> QED
        BY <1>1, <1>5, <2>1, <4>2, <4>3
    <3>5. conns[session].up[1].op = op
      <4>1. Len(call.got) + Len(conns[session].down) = 0
        BY <2>1, <3>2, EmptySeq
      <4>2. Answers(conns[session].up, 0, call.ops, calls)
        BY <2>2, <4>1 DEF OnWire
      <4>3. 1 \in 1..Len(conns[session].up) /\ 0 + 1 = 1
        BY <3>1
      <4> QED
        BY <1>5, <4>2, <4>3 DEF Answers
    <3>6. Within(op.id, m)'
      BY <1>2, <1>5, <2>0, <2>1, <2>5, <3>4, <3>5
    <3> QED
      BY <2>0, <3>6
  <2> QED
    BY <2>4, <2>5
<1>6. CASE readable
  <2>1. UNCHANGED call
    BY <1>1 DEF HostPerforms
  <2>2. LoneInv'
    <3> SUFFICES ASSUME Unanswered', call'.ops[1].effect # "shot"
                 PROVE  Within(call.ops[1].id, faults)'
      BY DEF LoneInv
    <3>1. PICK op : op = call.ops[1]
      OBVIOUS
    <3>2. Within(op.id, faults)'
      BY <1>5, <1>6, <2>1, <3>1
    <3> QED
      BY <2>1, <3>1, <3>2
  <2>3. PICK ops : ops = OpsNow
    OBVIOUS
  <2>4. Busy' => \A k \in DOMAIN ops : k > Written(call', ops) /\ ops[k].effect # "shot"
                                          => Within(ops[k].id, faults)
    BY <1>0, <2>1, <2>3 DEF Busy, Owed
  <2>5. OpsNow' = ops /\ faults' = faults
    BY <1>0, <1>3, <1>6, <2>3
  <2> QED
    BY <1>2, <2>2, <2>4, <2>5, CostKept
<1> QED
  BY <1>4, <1>6

\* Only a fault makes room for another line of a step.
LEMMA WireCosts ==
    ASSUME PlanSound, WireInv, RunInv, CostInv, ClientStep \/ HostStep, UNCHANGED runVars
    PROVE  CostInv'
<1>0. /\ WireTypeOK /\ ExchangeInv /\ OpsNow' = OpsNow
      /\ Busy => Owed(OpsNow, call, faults)
  BY SameRun DEF WireInv, CostInv
<1>1. PICK ops : ops = OpsNow /\ OpsNow' = ops
  BY <1>0
<1>2. CASE Connect
  <2>1. PICK s \in Conn : /\ \A c \in Conn : c # s => conns'[c] = conns[c]
                          /\ conns'[s].up = conns[s].up
    BY <1>0, <1>2, ConnectDoes
  <2>2. \A c \in Conn : conns'[c].up = conns[c].up
    BY <2>1
  <2>3. UNCHANGED <<call, log, faults>> /\ Busy /\ session = 0
    BY <1>2 DEF Connect
  <2>4. NoMore
    BY <2>2, <2>3, LinesStay
  <2>5. LoneInv'
    BY <1>0, <2>3 DEF ExchangeInv, LoneInv, Unanswered
  <2>6. \A k \in DOMAIN ops : k > Written(call', ops) /\ ops[k].effect # "shot"
                                 => Within(ops[k].id, faults)
    BY <1>0, <1>1, <2>3 DEF Owed
  <2> QED
    BY <1>1, <2>3, <2>4, <2>5, <2>6, CostKept
<1>3. CASE DeadlinePasses
  <2>1. UNCHANGED <<conns, log, faults>> /\ call' = [call EXCEPT !.state = "error"]
    BY <1>3 DEF DeadlinePasses, netVars
  <2>2. ~Busy'
    <3>1. call'.state = "error"
      BY <1>0, <2>1, CallErrs DEF WireTypeOK
    <3> QED
      BY <3>1 DEF Busy
  <2> QED
    BY <2>1, <2>2, QuietCosts
<1>4. CASE ReadAnswer /\ Head(conns[session].down).readable
  <2>1. /\ UNCHANGED <<log, faults>> /\ Busy
        /\ call'.sent = call.sent /\ call'.later = call.later
        /\ \A c \in Conn : c # session => conns'[c] = conns[c]
        /\ conns'[session].up = conns[session].up
        /\ call'.got = Append(call.got, Head(conns[session].down))
        /\ conns[session].down # <<>> /\ session \in Conn
    BY <1>0, <1>4, ReadDoes DEF ReadAnswer
  <2>2. \A c \in Conn : conns'[c].up = conns[c].up
    BY <2>1
  <2>3. NoMore
    BY <2>1, <2>2, LinesStay
  <2>4. call'.got # <<>>
    <3>1. call.got \in Seq(Answer) /\ conns[session].down \in Seq(Answer)
      BY <1>0, <2>1, EndLists DEF WireTypeOK, Calls
    <3>2. Head(conns[session].down) \in Answer
      BY <2>1, <3>1, HeadTail
    <3> QED
      BY <2>1, <3>1, <3>2, Added
  <2>5. LoneInv'
    BY <2>4 DEF LoneInv, Unanswered
  <2>6. \A k \in DOMAIN ops : k > Written(call', ops) /\ ops[k].effect # "shot"
                                 => Within(ops[k].id, faults)
    BY <1>0, <1>1, <2>1 DEF Owed, Written
  <2> QED
    BY <1>1, <2>1, <2>3, <2>5, <2>6, CostKept
<1>5. CASE \/ \E c \in Conn : ServerCloses(c)
           \/ \E lost \in BOOLEAN : HostDies(lost)
           \/ HostRestarts
  <2>1. UNCHANGED log
        /\ \A d \in Conn : conns'[d] = conns[d] \/ conns'[d].up = <<>>
    BY <1>0, <1>5, CutDoes DEF HostCuts
  <2>2. \A d \in Conn : conns'[d].up = conns[d].up \/ conns'[d].up = <<>>
    BY <2>1
  <2>3. faults' = faults + 1
    BY <1>5 DEF ServerCloses, HostDies, HostRestarts
  <2> QED
    BY <2>1, <2>2, <2>3, LinesStay, CostPaid
<1>6. CASE HostStep
  BY <1>5, <1>6, PerformCosts DEF HostStep
<1>7. CASE WriteLine \/ WriteFails \/ ReadEof \/ ReadTimeout \/ ChunkDone
           \/ (ReadAnswer /\ ~Head(conns[session].down).readable)
  <2>1. UNCHANGED faults
    BY <1>7 DEF WriteLine, WriteFails, ReadEof, ReadTimeout, ChunkDone, ReadAnswer, netVars
  <2> QED
    BY <1>7, <2>1, WriteCosts, DropCosts, ChunkCosts
<1> QED
  BY <1>2, <1>3, <1>4, <1>6, <1>7 DEF ClientStep

\* What is sent next has no line yet, or is a picture.
LEMMA SendCosts ==
    ASSUME PlanSound, WireInv, RunInv, CostInv, wave \in DOMAIN plan.waves, Begin(OpsNow),
           UNCHANGED <<job, plan, wave, at>>,
           \/ phase = "run" /\ phase' = "await"
           \/ phase = "shot" /\ phase' = "shot"
    PROVE  CostInv'
<1>0. ProgressInv /\ WireTypeOK /\ faults \in Nat
  BY DEF RunInv, WireInv, CostInv
<1>1. OpsNow \in Seq(LineOp) /\ OpsNow # <<>>
  BY <1>0, OpsAreTyped
<1>2. UNCHANGED <<conns, log, faults>> /\ call'.sent = 0
  BY <1>0, <1>1, BeginDoes DEF Begin, netVars
<1>3. NoMore
  BY <1>2, LinesStay
<1>4. PICK ops : ops = OpsNow /\ OpsNow' = ops
  <2>1. OpsNow' = OpsNow
    BY SamePlace DEF OpsNow, LinesOf
  <2> QED
    BY <2>1
<1>5. ASSUME NEW k \in DOMAIN ops, ops[k].effect # "shot" PROVE Within(ops[k].id, faults)
  <2>1. phase = "run"
    BY <1>0, <1>4, <1>5, OpsAreTyped DEF ToSet
  <2>2. PICK i \in DOMAIN plan.waves[wave] :
          (CanPipeline \/ i = at) /\ ops[k].id = plan.waves[wave][i]
    <3>1. CASE CanPipeline
      <4>1. k \in DOMAIN plan.waves[wave] /\ ops[k].id = plan.waves[wave][k]
        BY <1>0, <1>4, <2>1, <3>1, LinesInWave
      <4> QED
        BY <3>1, <4>1
    <3>2. CASE ~CanPipeline
      <4>1. k = 1 /\ ops[1].id = WaveSteps[at].id
        BY <1>0, <1>4, <2>1, <3>2, OpsAreTyped, LenProperties DEF StepLine
      <4>2. at \in DOMAIN plan.waves[wave] /\ WaveSteps[at].id = plan.waves[wave][at]
        BY <1>0, WaveIs DEF ProgressInv
      <4> QED
        BY <4>1, <4>2
    <3> QED
      BY <3>1, <3>2
  <2>3. \A s \in Spots : OpAt(s).effect # "shot" => OpAt(s).id # plan.waves[wave][i]
    BY <2>1, <2>2, FreshStep
  <2>4. LinesFor(ops[k].id) = {}
    BY <2>2, <2>3 DEF LinesFor
  <2>5. IsFiniteSet({}) /\ Cardinality({}) = 0
    BY FS_EmptySet
  <2> QED
    BY <1>0, <2>4, <2>5 DEF Within
<1>6. LoneInv'
  BY <1>2 DEF LoneInv, Unanswered
<1> QED
  BY <1>2, <1>3, <1>4, <1>5, <1>6, CostKept

\* The three steps that send.
LEMMA SendsCost ==
    ASSUME PlanSound, WireInv, RunInv, CostInv, SendWave \/ SendStep \/ SendShot
    PROVE  CostInv'
<1>1. /\ wave \in DOMAIN plan.waves /\ Begin(OpsNow) /\ UNCHANGED <<job, plan, wave, at>>
      /\ \/ phase = "run" /\ phase' = "await"
         \/ phase = "shot" /\ phase' = "shot"
  BY SendsOps DEF RunInv
<1> QED
  BY <1>1, SendCosts

\* A step that leaves the wire alone costs nothing.
LEMMA StillCosts ==
    ASSUME CostInv, UNCHANGED <<session, conns, log, faults, call>>, OpsNow' = OpsNow
    PROVE  CostInv'
<1>1. NoMore
  BY LinesStay
<1>2. LoneInv'
  <2> SUFFICES ASSUME Unanswered', call'.ops[1].effect # "shot"
               PROVE  Within(call.ops[1].id, faults)'
    BY DEF LoneInv
  <2>1. PICK n \in Nat, id \in {call.ops[1].id} : n = faults
    BY DEF CostInv
  <2>2. Unanswered
    BY DEF Unanswered, Busy
  <2>3. Within(id, n)
    BY <2>1, <2>2 DEF CostInv, LoneInv
  <2>4. Within(id, n)'
    BY <1>1, <2>3 DEF NoMore
  <2>5. call'.ops[1].id = id /\ faults' = n
    BY <2>1
  <2> QED
    BY <2>4, <2>5
<1>3. PICK ops : ops = OpsNow /\ OpsNow' = ops
  OBVIOUS
<1>4. Busy' => \A k \in DOMAIN ops : k > Written(call', ops) /\ ops[k].effect # "shot"
                                        => Within(ops[k].id, faults)
  BY <1>3 DEF CostInv, Busy, Owed
<1> QED
  BY <1>1, <1>2, <1>3, <1>4, CostKept

\* Every step of the program keeps a step's lines within what the faults paid for.
LEMMA CostNext ==
    PlanSound /\ WireInv /\ RunInv /\ CostInv /\ [Next]_vars => CostInv'
<1> SUFFICES ASSUME PlanSound, WireInv, RunInv, CostInv, [Next]_vars PROVE CostInv'
  OBVIOUS
<1>0. CallInv
  BY DEF RunInv
<1>1. CASE SendWave \/ SendStep \/ SendShot
  BY <1>1, SendsCost
<1>2. CASE WaveAnswered \/ WaveBroke \/ StepAnswered \/ StepAnsweredThenShot \/ ShotAnswered
  <2>1. UNCHANGED <<conns, log, faults>> /\ call' = NoCall
    BY <1>2 DEF WaveAnswered, WaveBroke, StepAnswered, StepAnsweredThenShot, ShotAnswered,
       End, netVars
  <2>2. ~Busy'
    BY <2>1 DEF Busy, NoCall
  <2> QED
    BY <2>1, <2>2, QuietCosts
<1>3. CASE Reject \/ Accepted \/ Finish
  <2>1. UNCHANGED <<conns, log, faults, call>> /\ phase \in {"compile", "run"}
    BY <1>3 DEF Reject, Accepted, Finish, wireVars
  <2>2. ~Busy'
    BY <1>0, <2>1 DEF Busy, CallInv
  <2> QED
    BY <2>1, <2>2, QuietCosts
<1>4. CASE WireStep
  BY <1>4, WireCosts DEF WireStep
<1>5. CASE Rest \/ UNCHANGED vars
  <2>1. UNCHANGED vars
    BY <1>5 DEF Rest
  <2>2. UNCHANGED <<job, plan, session, conns, log, faults, call, phase, wave, at>>
    BY <2>1 DEF vars, wireVars, runVars
  <2>3. OpsNow' = OpsNow
    BY <2>2, SamePlace DEF OpsNow, LinesOf
  <2> QED
    BY <2>2, <2>3, StillCosts
<1> QED
  BY <1>1, <1>2, <1>3, <1>4, <1>5 DEF Next, RunStep

\* What CostInv says of the lines performed.
LEMMA PerformedCost == CostInv => RepeatsCostFaults
<1> SUFFICES ASSUME CostInv, NEW id PROVE Cardinality(Performed(id)) <= 1 + faults
  BY DEF RepeatsCostFaults
<1>1. PICK S, T : S = Performed(id) /\ T = LinesFor(id)
  OBVIOUS
<1>2. IsFiniteSet(T) /\ Cardinality(T) <= faults + 1 /\ Cardinality(T) \in Nat
  BY <1>1, FS_CardinalityType DEF CostInv, Spent, Within
<1>3. PICK f : f = [k \in S |-> <<0, k>>]
  OBVIOUS
<1>4. f \in Injection(S, T)
  <2>1. ASSUME NEW k \in S PROVE <<0, k>> \in T
    <3>1. k \in DOMAIN log /\ log[k].op.id = id /\ log[k].op.effect # "shot"
      BY <1>1 DEF Performed
    <3>2. <<0, k>> \in Spots /\ OpAt(<<0, k>>) = log[k].op
      BY <3>1, SpotHere
    <3> QED
      BY <1>1, <3>1, <3>2 DEF LinesFor
  <2>2. \A k, l : <<0, k>> = <<0, l>> => k = l
    OBVIOUS
  <2> QED
    BY <1>3, <2>1, <2>2 DEF Injection, IsInjective
<1>5. IsFiniteSet(S) /\ Cardinality(S) <= Cardinality(T) /\ Cardinality(S) \in Nat
  BY <1>2, <1>4, FS_Injection, FS_CardinalityType
<1>6. faults + 1 = 1 + faults /\ faults \in Nat
  BY DEF CostInv
<1>7. Cardinality(S) <= faults + 1
  BY <1>2, <1>5, <1>6
<1> QED
  BY <1>1, <1>6, <1>7

\* However the wire fails, a step was performed once for the asking, and once more
\* at most for each fault (client.rs roundtrip_retry: a request is sent again after
\* an error, and the host may have performed it).
THEOREM EachRepeatWasAFault == Spec => []RepeatsCostFaults
<1>1. Init => CostInv
  <2> SUFFICES ASSUME Init PROVE CostInv
    OBVIOUS
  <2>1. log = <<>> /\ (\A c \in Conn : conns[c].up = <<>>) /\ faults = 0 /\ ~Busy
    BY DEF Init, ClientInit, Busy, NoCall
  <2>2. Spots = {}
    BY <2>1, EmptySeq DEF Spots, SpotsOf
  <2>3. \A id : LinesFor(id) = {}
    BY <2>2 DEF LinesFor
  <2>4. IsFiniteSet({}) /\ Cardinality({}) = 0
    BY FS_EmptySet
  <2>5. faults + 1 = 1
    BY <2>1
  <2>6. Spent
    BY <2>3, <2>4, <2>5 DEF Spent, Within
  <2> QED
    BY <2>1, <2>6 DEF CostInv, LoneInv, Unanswered
<1>2. (PlanSound /\ WireInv /\ RunInv) /\ CostInv /\ [Next]_vars => CostInv'
  BY CostNext
<1> QED
  BY <1>1, <1>2, PerformedCost, RunInvariant, PTL DEF Spec

\* A retry never acts twice for nothing.
THEOREM RetriesAreEarned == Spec => []RepeatsEarned
BY ChunksGoOnce, EachRepeatWasAFault, PTL DEF RepeatsEarned
=============================================================================
