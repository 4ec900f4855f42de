------------------------- MODULE DirectServerProofs -------------------------
(***************************************************************************)
(* Proofs about DirectServer, for any connections, lines, connection cap   *)
(* and contents of lines, with or without a token: every line is answered  *)
(* in order and nothing behind a refused one, and the daemon keeps the     *)
(* promise of RpcService.                                                  *)
(***************************************************************************)
EXTENDS DirectServer, SequenceTheorems, FiniteSetTheorems, TLAPS

Phase == {"new", "greeting", "reading", "closed"} \cup Serving

DirectTypeOK ==
    /\ phase \in [Conn -> Phase]
    /\ nonce \in [Conn -> Conn \cup {NoSession}]
    /\ sent \in [Conn -> Seq(Line)]
    /\ unread \in [Conn -> Seq(Line)]
    /\ answered \in [Conn -> Seq(Line)]
    /\ current \in [Conn -> Line \cup {0}]
    /\ ran \in Seq(Line)

\* Lines are numbered as they are sent, over all connections.
AllSent == UNION {ToSet(sent[d]) : d \in Conn}
LinesInv ==
    /\ \E k \in 0..MaxLines : AllSent = 1..k
    /\ \A c, d \in Conn : c # d => Lines(c) \cap Lines(d) = {}
    /\ DOMAIN content \subseteq AllSent
    /\ ToSet(ran) \subseteq DOMAIN content

\* A handler has read a connection's lines up to some point.
ReadInOrder(c) ==
    /\ ToSet(unread[c]) = Lines(c) \ DOMAIN content
    /\ Increasing(unread[c])
    /\ \A l \in Lines(c) \cap DOMAIN content : \A k \in Lines(c) :
           k < l => k \in DOMAIN content
    /\ phase[c] \in {"new", "greeting"} => Lines(c) \cap DOMAIN content = {}

\* The line a handler serves is the last one it has read, and is what it still owes
\* an answer to; until the host has run it, it is in no history.
ServingInv(c) ==
    /\ phase[c] \in {"new", "greeting"} => current[c] = 0
    /\ phase[c] \in Serving => current[c] # 0
    /\ current[c] # 0 => current[c] \in Read(c) /\ Served(c, content[current[c]])
    /\ phase[c] \in Serving =>
           /\ current[c] \notin ToSet(answered[c])
           /\ \A l \in Lines(c) \cap DOMAIN content : l <= current[c]
    /\ phase[c] = "reading" /\ current[c] # 0 => current[c] \in ToSet(answered[c])
    /\ phase[c] \in {"locking", "holding"} => current[c] \notin ToSet(ran)
    /\ phase[c] = "writing" => current[c] \in ToSet(ran)

AnswersInv(c) ==
    /\ ToSet(answered[c]) \subseteq Read(c)
    /\ Increasing(answered[c])
    /\ \A l \in Read(c) : l \in ToSet(answered[c]) \/ l = current[c]
    /\ current[c] # 0 /\ current[c] \notin ToSet(answered[c]) =>
           \A l \in ToSet(answered[c]) : l < current[c]
    /\ \A l \in Read(c) : ~Served(c, content[l]) =>
           /\ phase[c] = "closed"
           /\ \A k \in Lines(c) : k > l => k \notin DOMAIN content

ConnInv(c) == ReadInOrder(c) /\ ServingInv(c) /\ AnswersInv(c)

DirectInv ==
    /\ DirectTypeOK
    /\ LinesInv
    /\ \A c \in Conn : ConnInv(c)

-----------------------------------------------------------------------------
(* Sequences of lines                                                      *)

\* A line added to a history is in it, with those that were there.
LEMMA ToSetAppend ==
    ASSUME NEW S, NEW s \in Seq(S), NEW e \in S
    PROVE  ToSet(Append(s, e)) = ToSet(s) \cup {e}
<1>1. /\ Append(s, e) \in Seq(S)
      /\ DOMAIN Append(s, e) = 1..(Len(s) + 1) /\ DOMAIN s = 1..Len(s) /\ Len(s) \in Nat
      /\ \A i \in 1..Len(s) : Append(s, e)[i] = s[i]
      /\ Append(s, e)[Len(s) + 1] = e
  BY AppendProperties, LenProperties
<1> QED
  BY <1>1 DEF ToSet

\* A line that is read leaves the others.
LEMMA ToSetTail ==
    ASSUME NEW S, NEW s \in Seq(S), s # <<>>
    PROVE  /\ Head(s) \in S /\ Tail(s) \in Seq(S)
           /\ ToSet(s) = {Head(s)} \cup ToSet(Tail(s))
<1>1. /\ Head(s) = s[1] /\ Head(s) \in S /\ Tail(s) \in Seq(S)
      /\ Len(s) \in Nat /\ Len(s) # 0 /\ DOMAIN s = 1..Len(s)
      /\ DOMAIN Tail(s) = 1..(Len(s) - 1)
      /\ \A i \in 1..(Len(s) - 1) : Tail(s)[i] = s[i + 1]
  BY HeadTailProperties, LenProperties, EmptySeq
<1>2. ASSUME NEW i \in 1..Len(s), i # 1 PROVE s[i] \in ToSet(Tail(s))
  <2>1. i - 1 \in 1..(Len(s) - 1) /\ (i - 1) + 1 = i
    BY <1>1, <1>2
  <2> QED
    BY <1>1, <2>1 DEF ToSet
<1>3. ASSUME NEW i \in 1..(Len(s) - 1) PROVE Tail(s)[i] \in ToSet(s)
  <2>1. i + 1 \in 1..Len(s)
    BY <1>1
  <2> QED
    BY <1>1, <2>1 DEF ToSet
<1> QED
  BY <1>1, <1>2, <1>3 DEF ToSet

\* The first line of an increasing sequence is below the others.
LEMMA IncreasingTail ==
    ASSUME NEW s \in Seq(Nat), s # <<>>, Increasing(s)
    PROVE  /\ Increasing(Tail(s))
           /\ \A x \in ToSet(Tail(s)) : Head(s) < x
<1>1. /\ Head(s) = s[1] /\ Len(Tail(s)) = Len(s) - 1 /\ Tail(s) \in Seq(Nat)
      /\ Len(s) \in Nat /\ Len(s) # 0 /\ DOMAIN Tail(s) = 1..(Len(s) - 1)
      /\ \A i \in 1..(Len(s) - 1) : Tail(s)[i] = s[i + 1]
  BY HeadTailProperties, LenProperties, EmptySeq
<1>2. \A i, j \in 1..Len(s) : i < j => s[i] < s[j]
  BY DEF Increasing, IsSorted
<1>3. Increasing(Tail(s))
  BY <1>1, <1>2 DEF Increasing, IsSorted
<1>4. \A i \in 1..(Len(s) - 1) : s[1] < s[i + 1]
  BY <1>1, <1>2
<1> QED
  BY <1>1, <1>3, <1>4 DEF ToSet

\* A later line behind an increasing sequence.
LEMMA IncreasingAppend ==
    ASSUME NEW s \in Seq(Nat), NEW e \in Nat, Increasing(s), \A x \in ToSet(s) : x < e
    PROVE  Increasing(Append(s, e))
<1>1. /\ Len(Append(s, e)) = Len(s) + 1 /\ DOMAIN s = 1..Len(s) /\ Len(s) \in Nat
      /\ \A i \in 1..Len(s) : Append(s, e)[i] = s[i]
      /\ Append(s, e)[Len(s) + 1] = e
  BY AppendProperties, LenProperties
<1>2. \A i, j \in 1..Len(s) : i < j => s[i] < s[j]
  BY DEF Increasing, IsSorted
<1>3. \A i \in 1..Len(s) : s[i] < e
  BY <1>1 DEF ToSet
<1>4. ASSUME NEW i \in 1..(Len(s) + 1), NEW j \in 1..(Len(s) + 1), i < j
      PROVE  Append(s, e)[i] < Append(s, e)[j]
  <2>1. CASE j = Len(s) + 1
    BY <1>1, <1>3, <1>4, <2>1
  <2>2. CASE j \in 1..Len(s)
    BY <1>1, <1>2, <1>4, <2>2
  <2> QED
    BY <1>1, <2>1, <2>2
<1> QED
  BY <1>1, <1>4 DEF Increasing, IsSorted

-----------------------------------------------------------------------------
(* Types                                                                   *)

\* Types, for every action.
LEMMA TypeStep == DirectInv /\ [Next]_vars => DirectTypeOK'
<1> SUFFICES ASSUME DirectInv, [Next]_vars PROVE DirectTypeOK'
  OBVIOUS
<1>t. DirectTypeOK
  BY DEF DirectInv
<1> USE <1>t DEF DirectTypeOK
<1>1. CASE ListenerCheck \/ ListenerNoConnection \/ MainLooks \/ UNCHANGED vars
  BY <1>1 DEF ListenerCheck, ListenerNoConnection, MainLooks, vars, lineVars, hostVars
<1>2. ASSUME NEW c \in Conn, Accept(c) \/ Greet(c) \/ ReadNothing(c) \/ Lock(c) \/ Panic(c)
      PROVE  DirectTypeOK'
  BY <1>2 DEF Accept, Greet, ReadNothing, Lock, Panic, Leave, lineVars, hostVars, Phase, Serving
<1>3. ASSUME NEW c \in Conn, Send(c) PROVE DirectTypeOK'
  <2>1. PICK l \in Line : /\ sent' = [sent EXCEPT ![c] = Append(@, l)]
                          /\ unread' = [unread EXCEPT ![c] = Append(@, l)]
    BY <1>3 DEF Send
  <2>2. Append(sent[c], l) \in Seq(Line) /\ Append(unread[c], l) \in Seq(Line)
    BY <2>1, AppendProperties
  <2> QED
    BY <1>3, <2>1, <2>2 DEF Send, hostVars
<1>4. ASSUME NEW c \in Conn, NEW holds, TakeLine(c, holds)
      PROVE  Head(unread[c]) \in Line /\ unread' \in [Conn -> Seq(Line)] /\ sent' = sent
  BY <1>4, HeadTailProperties DEF TakeLine
<1>5. ASSUME NEW c \in Conn, NEW holds,
             SkipBlank(c, holds) \/ Refuse(c, holds) \/ ReadRequest(c, holds)
      PROVE  DirectTypeOK'
  <2>1. Head(unread[c]) \in Line /\ unread' \in [Conn -> Seq(Line)] /\ sent' = sent
    BY <1>4, <1>5 DEF SkipBlank, Refuse, ReadRequest
  <2>2. Append(answered[c], Head(unread[c])) \in Seq(Line)
    BY <2>1, AppendProperties
  <2> QED
    BY <1>5, <2>1, <2>2 DEF SkipBlank, Refuse, ReadRequest, Leave, hostVars, Phase, Serving
<1>6. ASSUME NEW c \in Conn, NEW ok, Run(c, ok) \/ EndWait(c) PROVE DirectTypeOK'
  <2>1. ran' = Append(ran, current[c]) /\ phase' = [phase EXCEPT ![c] = "writing"]
    BY <1>6 DEF Run, EndWait, Record, Unlock
  <2>2. current[c] \in Line
    BY <1>6 DEF DirectInv, ConnInv, ServingInv, Run, EndWait, Serving
  <2>3. ran' \in Seq(Line)
    BY <2>1, <2>2, AppendProperties
  <2> QED
    BY <1>6, <2>1, <2>3 DEF Run, EndWait, lineVars, Phase, Serving
<1>7. ASSUME NEW c \in Conn, Write(c) PROVE DirectTypeOK'
  <2>1. current[c] \in Line
    BY <1>7 DEF DirectInv, ConnInv, ServingInv, Write, Serving
  <2>2. Append(answered[c], current[c]) \in Seq(Line)
    BY <2>1, AppendProperties
  <2> QED
    BY <1>7, <2>2 DEF Write, Leave, lineVars, hostVars, Phase, Serving
<1> QED
  BY <1>1, <1>2, <1>3, <1>5, <1>6, <1>7 DEF Next, Listener, Work

-----------------------------------------------------------------------------
(* The lines of all connections                                            *)

\* Numbers of lines, for every action.
LEMMA LinesStep == DirectInv /\ [Next]_vars => LinesInv'
<1> SUFFICES ASSUME DirectInv, [Next]_vars PROVE LinesInv'
  OBVIOUS
<1>t. DirectTypeOK /\ LinesInv
  BY DEF DirectInv
<1>1. ASSUME UNCHANGED <<sent, content, ran>> PROVE LinesInv'
  BY <1>t, <1>1 DEF LinesInv, AllSent, Lines
<1>2. ASSUME NEW c \in Conn, Send(c) PROVE LinesInv'
  <2>1. PICK k \in 0..MaxLines : AllSent = 1..k
    BY <1>t DEF LinesInv
  <2>2. Cardinality(AllSent) = k
    BY <2>1, DirectAssumption, FS_Interval
  <2>3. /\ k + 1 \in Line
        /\ sent' = [sent EXCEPT ![c] = Append(@, k + 1)]
    BY <1>2, <2>2 DEF Send, AllSent
  <2>4. \A d \in Conn : Lines(d)' = IF d = c THEN Lines(d) \cup {k + 1} ELSE Lines(d)
    <3>1. ToSet(Append(sent[c], k + 1)) = ToSet(sent[c]) \cup {k + 1}
      BY <1>t, <2>3, ToSetAppend DEF DirectTypeOK
    <3>2. \A d \in Conn : sent'[d] = IF d = c THEN Append(sent[c], k + 1) ELSE sent[d]
      BY <1>t, <2>3 DEF DirectTypeOK
    <3> QED
      BY <3>1, <3>2 DEF Lines
  <2>5. AllSent' = AllSent \cup {k + 1}
    BY <2>4 DEF AllSent, Lines
  <2>6. AllSent' = 1..(k + 1) /\ k + 1 \in 0..MaxLines
    BY <2>1, <2>3, <2>5, DirectAssumption DEF Line
  <2>7. k + 1 \notin AllSent
    BY <2>1
  <2>8. \A d \in Conn : k + 1 \notin Lines(d)
    BY <2>7 DEF AllSent, Lines
  <2>9. \A d, e \in Conn : d # e => Lines(d)' \cap Lines(e)' = {}
    BY <1>t, <2>4, <2>8 DEF LinesInv
  <2>10. UNCHANGED <<content, ran>>
    BY <1>2 DEF Send, hostVars
  <2> QED
    BY <1>t, <2>5, <2>6, <2>9, <2>10 DEF LinesInv
<1>3. ASSUME NEW c \in Conn, NEW holds, TakeLine(c, holds), UNCHANGED ran PROVE LinesInv'
  <2>1. DOMAIN content' = DOMAIN content \cup {Head(unread[c])} /\ sent' = sent
    BY <1>3 DEF TakeLine
  <2>2. Head(unread[c]) \in ToSet(unread[c])
    BY <1>t, <1>3, ToSetTail DEF TakeLine, DirectTypeOK
  <2>3. Head(unread[c]) \in AllSent
    BY <2>2 DEF DirectInv, ConnInv, ReadInOrder, Lines, AllSent
  <2> QED
    BY <1>t, <1>3, <2>1, <2>3 DEF LinesInv, AllSent, Lines
<1>4. ASSUME NEW c \in Conn, NEW ok, Run(c, ok) \/ EndWait(c) PROVE LinesInv'
  <2>1. ran' = Append(ran, current[c]) /\ UNCHANGED <<sent, content>>
    BY <1>4 DEF Run, EndWait, Record, lineVars
  <2>2. current[c] \in Line /\ current[c] \in DOMAIN content
    BY <1>4 DEF DirectInv, DirectTypeOK, ConnInv, ServingInv, Read, Run, EndWait, Serving
  <2>3. ToSet(ran') = ToSet(ran) \cup {current[c]}
    BY <1>t, <2>1, <2>2, ToSetAppend DEF DirectTypeOK
  <2> QED
    BY <1>t, <2>1, <2>2, <2>3 DEF LinesInv, AllSent, Lines
<1>5. CASE ListenerCheck \/ ListenerNoConnection \/ MainLooks \/ UNCHANGED vars
  BY <1>1, <1>5 DEF ListenerCheck, ListenerNoConnection, MainLooks, vars, lineVars, hostVars
<1>6. ASSUME NEW c \in Conn,
             Accept(c) \/ Greet(c) \/ ReadNothing(c) \/ Lock(c) \/ Panic(c) \/ Write(c)
      PROVE  LinesInv'
  BY <1>1, <1>6 DEF Accept, Greet, ReadNothing, Lock, Panic, Write, lineVars, hostVars
<1>7. ASSUME NEW c \in Conn, NEW holds,
             SkipBlank(c, holds) \/ Refuse(c, holds) \/ ReadRequest(c, holds)
      PROVE  LinesInv'
  BY <1>3, <1>7 DEF SkipBlank, Refuse, ReadRequest, hostVars
<1> QED
  BY <1>2, <1>4, <1>5, <1>6, <1>7 DEF Next, Listener, Work

-----------------------------------------------------------------------------
(* One connection                                                          *)

\* A connection none of whose own state changes keeps its invariant.
LEMMA OthersKept ==
    ASSUME NEW d \in Conn, ConnInv(d),
           phase'[d] = phase[d], nonce'[d] = nonce[d], sent'[d] = sent[d],
           unread'[d] = unread[d], answered'[d] = answered[d], current'[d] = current[d],
           \A l \in Lines(d) : /\ l \in DOMAIN content' <=> l \in DOMAIN content
                               /\ l \in DOMAIN content => content'[l] = content[l],
           current[d] # 0 => (current[d] \in ToSet(ran') <=> current[d] \in ToSet(ran))
    PROVE  ConnInv(d)'
<1>1. Lines(d)' = Lines(d) /\ Read(d)' = Read(d)
  BY DEF Lines, Read
<1>2. \A l \in Read(d) : Served(d, content[l])' <=> Served(d, content[l])
  BY DEF Read, Served, Authorized
<1>3. ReadInOrder(d)'
  BY <1>1 DEF ConnInv, ReadInOrder
<1>4. ServingInv(d)'
  BY <1>1, <1>2 DEF ConnInv, ServingInv, Serving
<1>5. AnswersInv(d)'
  BY <1>1, <1>2 DEF ConnInv, AnswersInv
<1> QED
  BY <1>3, <1>4, <1>5 DEF ConnInv

\* A step that only ends a handler which owes nothing, or gives its line up.
LEMMA ClosingKept ==
    ASSUME NEW c \in Conn, ConnInv(c), DirectTypeOK, phase[c] # "new",
           phase'[c] = "closed",
           phase[c] # "greeting" \/ current[c] = 0,
           UNCHANGED <<sent, unread, content, answered, current, nonce, ran>>
    PROVE  ConnInv(c)'
<1>1. Lines(c)' = Lines(c) /\ Read(c)' = Read(c)
  BY DEF Lines, Read
<1>2. \A l \in Read(c) : Served(c, content[l])' <=> Served(c, content[l])
  BY DEF Read, Served, Authorized
<1>3. ReadInOrder(c)'
  BY <1>1 DEF ConnInv, ReadInOrder
<1>4. ServingInv(c)'
  BY <1>1, <1>2 DEF ConnInv, ServingInv, Serving
<1>5. AnswersInv(c)'
  BY <1>1, <1>2 DEF ConnInv, AnswersInv
<1> QED
  BY <1>3, <1>4, <1>5 DEF ConnInv

\* A new connection has no line that was read.
LEMMA GreetingKept ==
    ASSUME NEW c \in Conn, ConnInv(c), DirectTypeOK, phase[c] \in {"new", "greeting"},
           phase'[c] \in {"greeting", "reading", "closed"},
           UNCHANGED <<sent, unread, content, answered, current, ran>>
    PROVE  ConnInv(c)'
<1>1. /\ Lines(c)' = Lines(c) /\ Read(c)' = Read(c) /\ Read(c) = {}
      /\ Lines(c) \cap DOMAIN content = {}
  BY DEF Lines, Read, ConnInv, ReadInOrder
<1>2. current[c] = 0 /\ ToSet(answered[c]) = {}
  BY <1>1 DEF ConnInv, ServingInv, AnswersInv
<1>3. ReadInOrder(c)'
  BY <1>1 DEF ConnInv, ReadInOrder
<1>4. ServingInv(c)'
  BY <1>1, <1>2 DEF ConnInv, ServingInv, Serving
<1>5. AnswersInv(c)'
  BY <1>1, <1>2 DEF ConnInv, AnswersInv
<1> QED
  BY <1>3, <1>4, <1>5 DEF ConnInv

\* A client that sends a line, for the handler of its connection.
LEMMA SendKept ==
    ASSUME NEW c \in Conn, DirectInv, Send(c)
    PROVE  ConnInv(c)'
<1>t. DirectTypeOK /\ LinesInv /\ ConnInv(c)
  BY DEF DirectInv
<1>1. PICK k \in 0..MaxLines : AllSent = 1..k
  BY <1>t DEF LinesInv
<1>2. Cardinality(AllSent) = k
  BY <1>1, DirectAssumption, FS_Interval
<1>3. /\ k + 1 \in Line
      /\ sent' = [sent EXCEPT ![c] = Append(@, k + 1)]
      /\ unread' = [unread EXCEPT ![c] = Append(@, k + 1)]
      /\ UNCHANGED <<phase, nonce, content, current, answered, ran>>
  BY <1>2 DEF Send, AllSent, hostVars
<1>4. /\ Lines(c)' = Lines(c) \cup {k + 1}
      /\ ToSet(unread'[c]) = ToSet(unread[c]) \cup {k + 1}
  BY <1>t, <1>3, ToSetAppend DEF DirectTypeOK, Lines
<1>5. /\ k + 1 \notin DOMAIN content /\ k + 1 \notin Lines(c)
      /\ \A l \in Lines(c) : l \in Nat /\ l < k + 1
  BY <1>t, <1>1 DEF LinesInv, AllSent, Lines
<1>6. Read(c)' = Read(c)
  BY <1>3, <1>4, <1>5 DEF Read
<1>7. \A l \in Read(c) : Served(c, content[l])' <=> Served(c, content[l])
  BY <1>3 DEF Read, Served, Authorized
<1>8. ReadInOrder(c)'
  <2>1. ToSet(unread[c]) \subseteq Lines(c)
    BY <1>t DEF ConnInv, ReadInOrder
  <2>2. unread[c] \in Seq(Nat) /\ k + 1 \in Nat /\ Line \subseteq Nat
    BY <1>t, <1>3, SeqMonotonic, DirectAssumption DEF DirectTypeOK, Line
  <2>3. Increasing(unread[c])
    BY <1>t DEF ConnInv, ReadInOrder
  <2>4. Increasing(Append(unread[c], k + 1))
    BY <1>5, <2>1, <2>2, <2>3, IncreasingAppend
  <2>5. Increasing(unread'[c])
    BY <1>t, <1>3, <2>4 DEF DirectTypeOK
  <2>6. \A l \in Lines(c)' \cap DOMAIN content' : \A m \in Lines(c)' :
            m < l => m \in DOMAIN content'
    BY <1>t, <1>3, <1>4, <1>5 DEF ConnInv, ReadInOrder
  <2> QED
    BY <1>t, <1>3, <1>4, <1>5, <2>5, <2>6 DEF ConnInv, ReadInOrder
<1>9. ServingInv(c)'
  BY <1>t, <1>3, <1>4, <1>5, <1>6, <1>7 DEF ConnInv, ServingInv, Serving
<1>10. AnswersInv(c)'
  BY <1>t, <1>3, <1>4, <1>5, <1>6, <1>7 DEF ConnInv, AnswersInv
<1> QED
  BY <1>8, <1>9, <1>10 DEF ConnInv

\* The line a handler takes is one it has not read.
LEMMA TakesNewLine ==
    ASSUME NEW c \in Conn, NEW holds, DirectInv, TakeLine(c, holds)
    PROVE  /\ Head(unread[c]) \in Line
           /\ Head(unread[c]) \in Lines(c)
           /\ Head(unread[c]) \notin DOMAIN content
<1>1. unread[c] # <<>> /\ unread[c] \in Seq(Line)
  BY DEF TakeLine, DirectInv, DirectTypeOK
<1>2. Head(unread[c]) \in Line /\ Head(unread[c]) \in ToSet(unread[c])
  BY <1>1, ToSetTail
<1>3. ToSet(unread[c]) = Lines(c) \ DOMAIN content
  BY DEF DirectInv, ConnInv, ReadInOrder
<1> QED
  BY <1>2, <1>3

\* What a handler knows of the line it takes: it is the first that was not read.
LEMMA TakeFacts ==
    ASSUME NEW c \in Conn, NEW holds, DirectInv, TakeLine(c, holds),
           NEW l, l = Head(unread[c])
    PROVE  /\ l \in Line /\ l \in Lines(c) /\ l \notin DOMAIN content
           /\ l \notin ToSet(ran) /\ l \notin ToSet(answered[c]) /\ current[c] # l
           /\ Lines(c)' = Lines(c) /\ sent' = sent
           /\ DOMAIN content' = DOMAIN content \cup {l}
           /\ \A k \in DOMAIN content : content'[k] = content[k]
           /\ content'[l] = holds
           /\ Read(c)' = IF holds.form = "blank" THEN Read(c) ELSE Read(c) \cup {l}
           /\ \A k \in Lines(c) : k \in Line /\ (k \in DOMAIN content <=> k < l)
           /\ ToSet(unread'[c]) = ToSet(unread[c]) \ {l}
           /\ Increasing(unread'[c])
           /\ \A d \in Conn \ {c} : unread'[d] = unread[d] /\ l \notin Lines(d)
<1>t. DirectTypeOK /\ LinesInv /\ ConnInv(c)
  BY DEF DirectInv
<1> DEFINE rest == ToSet(Tail(unread[c]))
<1>1. /\ unread[c] # <<>> /\ unread[c] \in Seq(Line)
      /\ sent' = sent /\ unread' = [unread EXCEPT ![c] = Tail(@)]
      /\ content' = [k \in DOMAIN content \cup {l} |->
                        IF k \in DOMAIN content THEN content[k] ELSE holds]
  BY <1>t DEF TakeLine, DirectTypeOK
<1>2. l \in Line /\ ToSet(unread[c]) = {l} \cup rest
  BY <1>1, ToSetTail
<1>3. Increasing(Tail(unread[c])) /\ \A k \in rest : l < k
  <2>1. unread[c] \in Seq(Nat) /\ Increasing(unread[c])
    BY <1>t, <1>1, SeqMonotonic, DirectAssumption DEF Line, ConnInv, ReadInOrder
  <2> QED
    BY <1>1, <2>1, IncreasingTail
<1>4. ToSet(unread[c]) = Lines(c) \ DOMAIN content
  BY <1>t DEF ConnInv, ReadInOrder
<1>5. l \in Lines(c) /\ l \notin DOMAIN content
  BY <1>2, <1>4
<1>6. ToSet(ran) \subseteq DOMAIN content
  BY <1>t DEF LinesInv
<1>7. ToSet(answered[c]) \subseteq DOMAIN content /\ current[c] # l
  BY <1>t, <1>2, <1>5, DirectAssumption DEF ConnInv, ServingInv, AnswersInv, Read, Line
<1>8. Lines(c) \subseteq Line
  BY <1>t, LenProperties, ElementOfSeq DEF DirectTypeOK, Lines, ToSet
<1>9. \A k \in Lines(c) : k \in DOMAIN content <=> k < l
  <2>1. ASSUME NEW k \in Lines(c), k \notin DOMAIN content PROVE ~(k < l)
    BY <1>2, <1>3, <1>4, <1>8, <2>1, DirectAssumption DEF Line
  <2>2. ASSUME NEW k \in Lines(c), k \in DOMAIN content PROVE k < l
    <3>1. k \in Nat /\ l \in Nat /\ k # l
      BY <1>2, <1>5, <1>8, <2>2, DirectAssumption DEF Line
    <3>2. ~(l < k)
      BY <1>t, <1>5, <2>2 DEF ConnInv, ReadInOrder
    <3> QED
      BY <3>1, <3>2
  <2> QED
    BY <2>1, <2>2
<1>10. unread'[c] = Tail(unread[c]) /\ rest = ToSet(unread[c]) \ {l}
  <2>1. l \notin rest
    BY <1>2, <1>3, DirectAssumption DEF Line
  <2> QED
    BY <1>t, <1>1, <1>2, <2>1 DEF DirectTypeOK
<1>11. Lines(c)' = Lines(c)
  BY <1>1 DEF Lines
<1>12. Read(c)' = IF holds.form = "blank" THEN Read(c) ELSE Read(c) \cup {l}
  BY <1>1, <1>5, <1>11 DEF Read
<1>13. \A d \in Conn \ {c} : unread'[d] = unread[d] /\ l \notin Lines(d)
  BY <1>t, <1>1, <1>5 DEF DirectTypeOK, LinesInv
<1> QED
  BY <1>1, <1>2, <1>3, <1>5, <1>6, <1>7, <1>8, <1>9, <1>10, <1>11, <1>12, <1>13

\* A handler that takes a line, for its own connection.
LEMMA TakeKept ==
    ASSUME NEW c \in Conn, NEW holds, DirectInv,
           SkipBlank(c, holds) \/ Refuse(c, holds) \/ ReadRequest(c, holds)
    PROVE  ConnInv(c)'
<1>t. DirectTypeOK /\ LinesInv /\ ConnInv(c) /\ TakeLine(c, holds) /\ nonce' = nonce
  BY DEF DirectInv, SkipBlank, Refuse, ReadRequest
<1> PICK l : l = Head(unread[c])
  OBVIOUS
<1>1. /\ l \in Line /\ l \in Lines(c) /\ l \notin DOMAIN content
      /\ l \notin ToSet(ran) /\ l \notin ToSet(answered[c]) /\ current[c] # l
      /\ Lines(c)' = Lines(c) /\ sent' = sent
      /\ DOMAIN content' = DOMAIN content \cup {l}
      /\ \A k \in DOMAIN content : content'[k] = content[k]
      /\ content'[l] = holds
      /\ Read(c)' = IF holds.form = "blank" THEN Read(c) ELSE Read(c) \cup {l}
      /\ \A k \in Lines(c) : k \in Line /\ (k \in DOMAIN content <=> k < l)
      /\ ToSet(unread'[c]) = ToSet(unread[c]) \ {l}
      /\ Increasing(unread'[c])
  BY <1>t, TakeFacts
<1>2. phase[c] = "reading"
  BY <1>t DEF TakeLine
<1>3. \A k \in Read(c) : Served(c, content[k])' <=> Served(c, content[k])
  BY <1>t, <1>1 DEF Read, Served, Authorized
<1>4. Served(c, content[l])' <=> Served(c, holds)
  BY <1>t, <1>1 DEF Served, Authorized
<1>5. ReadInOrder(c)'
  <2>1. \A k \in Lines(c) \cap DOMAIN content' : \A m \in Lines(c) :
            m < k => m \in DOMAIN content'
    BY <1>t, <1>1, DirectAssumption DEF ConnInv, ReadInOrder, Line
  <2>2. phase'[c] \notin {"new", "greeting"}
    BY <1>t, <1>2 DEF SkipBlank, Refuse, ReadRequest, Leave, DirectTypeOK
  <2>3. ToSet(unread'[c]) = Lines(c) \ DOMAIN content'
    BY <1>t, <1>1 DEF ConnInv, ReadInOrder
  <2> QED
    BY <1>1, <2>1, <2>2, <2>3 DEF ReadInOrder
<1>6. Read(c) \subseteq Line /\ \A k \in Read(c) : k < l
  BY <1>1 DEF Read
<1>7. ASSUME SkipBlank(c, holds) PROVE ServingInv(c)' /\ AnswersInv(c)'
  <2>1. Read(c)' = Read(c) /\ UNCHANGED <<phase, current, answered, ran>>
    BY <1>1, <1>7 DEF SkipBlank, hostVars
  <2>2. ServingInv(c)'
    BY <1>t, <1>2, <1>3, <2>1 DEF ConnInv, ServingInv, Serving
  <2>3. AnswersInv(c)'
    BY <1>t, <1>2, <1>3, <2>1 DEF ConnInv, AnswersInv
  <2> QED
    BY <2>2, <2>3
<1>8. ASSUME Refuse(c, holds) PROVE ServingInv(c)' /\ AnswersInv(c)'
  <2>1. /\ Read(c)' = Read(c) \cup {l} /\ UNCHANGED <<current, ran>>
        /\ phase'[c] = "closed" /\ answered'[c] = Append(answered[c], l)
        /\ ~Served(c, holds)
    BY <1>t, <1>1, <1>8 DEF Refuse, Leave, DirectTypeOK, hostVars
  <2>2. ToSet(answered'[c]) = ToSet(answered[c]) \cup {l}
    BY <1>t, <1>1, <2>1, ToSetAppend DEF DirectTypeOK
  <2>3. ServingInv(c)'
    BY <1>t, <1>2, <1>3, <2>1 DEF ConnInv, ServingInv, Serving
  <2>4. Increasing(answered'[c])
    <3>1. answered[c] \in Seq(Nat) /\ l \in Nat
      BY <1>t, <1>1, SeqMonotonic, DirectAssumption DEF DirectTypeOK, Line
    <3>2. Increasing(answered[c]) /\ \A k \in ToSet(answered[c]) : k < l
      BY <1>t, <1>6 DEF ConnInv, AnswersInv
    <3> QED
      BY <2>1, <3>1, <3>2, IncreasingAppend
  <2>5. current[c] # 0 => current[c] \in ToSet(answered[c])
    BY <1>t, <1>2 DEF ConnInv, ServingInv
  <2>6. \A k \in Read(c) : Served(c, content[k])
    BY <1>t, <1>2 DEF ConnInv, AnswersInv
  <2>7. \A k \in Read(c)' : ~Served(c, content[k])' =>
            k = l /\ \A m \in Lines(c) : m > k => m \notin DOMAIN content'
    BY <1>1, <1>3, <1>6, <2>1, <2>6, DirectAssumption DEF Line
  <2> QED
    BY <1>t, <1>1, <2>1, <2>2, <2>3, <2>4, <2>5, <2>7 DEF ConnInv, AnswersInv
<1>9. ASSUME ReadRequest(c, holds) PROVE ServingInv(c)' /\ AnswersInv(c)'
  <2>1. /\ Read(c)' = Read(c) \cup {l} /\ UNCHANGED <<answered, ran>>
        /\ phase'[c] = "locking" /\ current'[c] = l /\ l # 0
        /\ Served(c, holds)
    BY <1>t, <1>1, <1>9, DirectAssumption
    DEF ReadRequest, DirectTypeOK, Served, hostVars, Line
  <2>2. \A k \in Lines(c) \cap DOMAIN content' : k <= l
    BY <1>1, DirectAssumption DEF Line
  <2>3. ServingInv(c)'
    BY <1>1, <1>4, <2>1, <2>2 DEF ServingInv, Serving
  <2>4. \A k \in Read(c) : Served(c, content[k]) /\ k \in ToSet(answered[c])
    BY <1>t, <1>2, <1>6, DirectAssumption DEF ConnInv, ServingInv, AnswersInv, Line
  <2>5. \A k \in ToSet(answered[c]) : k \in Read(c) /\ k < l
    BY <1>t, <1>6 DEF ConnInv, AnswersInv
  <2>6. \A k \in Read(c)' : Served(c, content[k])'
    BY <1>1, <1>3, <1>4, <2>1, <2>4
  <2> QED
    BY <1>t, <1>1, <2>1, <2>3, <2>4, <2>5, <2>6 DEF ConnInv, AnswersInv
<1> QED
  BY <1>5, <1>7, <1>8, <1>9 DEF ConnInv

\* The host runs the line a handler holds the mutex for.
LEMMA RunKept ==
    ASSUME NEW c \in Conn, NEW ok, DirectInv, Run(c, ok) \/ EndWait(c)
    PROVE  /\ ConnInv(c)'
           /\ current[c] \in Line
           /\ ToSet(ran') = ToSet(ran) \cup {current[c]}
<1>t. DirectTypeOK /\ ConnInv(c)
  BY DEF DirectInv
<1>1. /\ ran' = Append(ran, current[c]) /\ phase[c] = "holding" /\ phase'[c] = "writing"
      /\ UNCHANGED <<sent, unread, content, current, answered, nonce>>
  BY <1>t DEF Run, EndWait, Record, Unlock, lineVars, DirectTypeOK
<1>2. current[c] \in Line
  BY <1>t, <1>1 DEF ConnInv, ServingInv, Serving, DirectTypeOK
<1>3. ToSet(ran') = ToSet(ran) \cup {current[c]}
  BY <1>t, <1>1, <1>2, ToSetAppend DEF DirectTypeOK
<1>4. Lines(c)' = Lines(c) /\ Read(c)' = Read(c)
  BY <1>1 DEF Lines, Read
<1>5. \A l \in Read(c) : Served(c, content[l])' <=> Served(c, content[l])
  BY <1>1 DEF Read, Served, Authorized
<1>6. ReadInOrder(c)'
  BY <1>t, <1>1, <1>4 DEF ConnInv, ReadInOrder
<1>7. ServingInv(c)'
  BY <1>t, <1>1, <1>3, <1>4, <1>5 DEF ConnInv, ServingInv, Serving
<1>8. AnswersInv(c)'
  BY <1>t, <1>1, <1>4, <1>5 DEF ConnInv, AnswersInv
<1> QED
  BY <1>2, <1>3, <1>6, <1>7, <1>8 DEF ConnInv

\* A handler gets the mutex.
LEMMA LockKept ==
    ASSUME NEW c \in Conn, DirectInv, Lock(c)
    PROVE  ConnInv(c)'
<1>t. DirectTypeOK /\ ConnInv(c)
  BY DEF DirectInv
<1>1. CASE poisoned
  BY <1>t, <1>1, ClosingKept DEF Lock, Leave, DirectTypeOK, lineVars, hostVars
<1>2. CASE ~poisoned
  <2>1. /\ phase[c] = "locking" /\ phase'[c] = "holding"
        /\ UNCHANGED <<sent, unread, content, current, answered, nonce, ran>>
    BY <1>t, <1>2 DEF Lock, DirectTypeOK, lineVars, hostVars
  <2>2. Lines(c)' = Lines(c) /\ Read(c)' = Read(c)
    BY <2>1 DEF Lines, Read
  <2>3. \A l \in Read(c) : Served(c, content[l])' <=> Served(c, content[l])
    BY <2>1 DEF Read, Served, Authorized
  <2>4. ReadInOrder(c)'
    BY <1>t, <2>1, <2>2 DEF ConnInv, ReadInOrder
  <2>5. ServingInv(c)'
    BY <1>t, <2>1, <2>2, <2>3 DEF ConnInv, ServingInv, Serving
  <2>6. AnswersInv(c)'
    BY <1>t, <2>1, <2>2, <2>3 DEF ConnInv, AnswersInv
  <2> QED
    BY <2>4, <2>5, <2>6 DEF ConnInv
<1> QED
  BY <1>1, <1>2

\* The answer to the line a handler served, after which the connection may end.
LEMMA WriteKept ==
    ASSUME NEW c \in Conn, DirectInv, Write(c)
    PROVE  /\ ConnInv(c)'
           /\ current[c] \in Line
           /\ ToSet(answered'[c]) = ToSet(answered[c]) \cup {current[c]}
<1>t. DirectTypeOK /\ ConnInv(c)
  BY DEF DirectInv
<1>1. /\ phase[c] = "writing" /\ phase'[c] \in {"reading", "closed"}
      /\ answered'[c] = Append(answered[c], current[c])
      /\ UNCHANGED <<sent, unread, content, current, nonce, ran>>
  BY <1>t DEF Write, Leave, lineVars, hostVars, DirectTypeOK
<1>2. current[c] \in Line /\ current[c] \in Read(c) /\ Served(c, content[current[c]])
  BY <1>t, <1>1 DEF ConnInv, ServingInv, Serving, DirectTypeOK
<1>3. ToSet(answered'[c]) = ToSet(answered[c]) \cup {current[c]}
  BY <1>t, <1>1, <1>2, ToSetAppend DEF DirectTypeOK
<1>4. Lines(c)' = Lines(c) /\ Read(c)' = Read(c)
  BY <1>1 DEF Lines, Read
<1>5. \A l \in Read(c) : Served(c, content[l])' <=> Served(c, content[l])
  BY <1>1 DEF Read, Served, Authorized
<1>6. ReadInOrder(c)'
  BY <1>t, <1>1, <1>4 DEF ConnInv, ReadInOrder
<1>7. ServingInv(c)'
  BY <1>t, <1>1, <1>2, <1>3, <1>4, <1>5 DEF ConnInv, ServingInv, Serving
<1>8. Increasing(answered'[c])
  <2>1. answered[c] \in Seq(Nat) /\ current[c] \in Nat
    BY <1>t, <1>2, SeqMonotonic, DirectAssumption DEF DirectTypeOK, Line
  <2>2. Increasing(answered[c]) /\ \A l \in ToSet(answered[c]) : l < current[c]
    BY <1>t, <1>1 DEF ConnInv, ServingInv, AnswersInv, Serving
  <2> QED
    BY <1>1, <2>1, <2>2, IncreasingAppend
<1>9. AnswersInv(c)'
  BY <1>t, <1>1, <1>2, <1>3, <1>4, <1>5, <1>8 DEF ConnInv, AnswersInv
<1> QED
  BY <1>2, <1>3, <1>6, <1>7, <1>9 DEF ConnInv

-----------------------------------------------------------------------------
(* The invariant                                                           *)

\* Every action, for every connection.
LEMMA ConnStep ==
    ASSUME DirectInv, [Next]_vars, NEW d \in Conn
    PROVE  ConnInv(d)'
<1>t. DirectTypeOK /\ LinesInv /\ ConnInv(d)
  BY DEF DirectInv
<1>l. \A c \in Conn : c # d => \A l \in Lines(d) : l \notin Lines(c)
  BY <1>t DEF LinesInv
<1>1. CASE ListenerCheck \/ ListenerNoConnection \/ MainLooks \/ UNCHANGED vars
  BY <1>t, <1>1, OthersKept
  DEF ListenerCheck, ListenerNoConnection, MainLooks, vars, lineVars, hostVars
<1>2. ASSUME NEW c \in Conn, Accept(c) \/ Greet(c) PROVE ConnInv(d)'
  <2>1. CASE c = d
    <3>1. /\ phase[c] \in {"new", "greeting"}
          /\ phase'[c] \in {"greeting", "reading", "closed"}
          /\ UNCHANGED <<sent, unread, content, answered, current, ran>>
      BY <1>t, <1>2 DEF Accept, Greet, Leave, DirectTypeOK, lineVars, hostVars
    <3> QED
      BY <1>t, <2>1, <3>1, GreetingKept
  <2>2. CASE c # d
    BY <1>t, <1>2, <2>2, OthersKept DEF Accept, Greet, Leave, DirectTypeOK, lineVars, hostVars
  <2> QED
    BY <2>1, <2>2
<1>3. ASSUME NEW c \in Conn, ReadNothing(c) \/ Panic(c) \/ Lock(c) PROVE ConnInv(d)'
  <2>1. CASE c = d /\ Lock(c)
    BY <2>1, LockKept
  <2>2. CASE c = d /\ ~Lock(c)
    BY <1>t, <1>3, <2>2, ClosingKept
    DEF ReadNothing, Panic, Leave, DirectTypeOK, lineVars, hostVars
  <2>3. CASE c # d
    BY <1>t, <1>3, <2>3, OthersKept
    DEF ReadNothing, Panic, Lock, Leave, DirectTypeOK, lineVars, hostVars
  <2> QED
    BY <2>1, <2>2, <2>3
<1>4. ASSUME NEW c \in Conn, Send(c) PROVE ConnInv(d)'
  BY <1>t, <1>4, SendKept, OthersKept DEF Send, DirectTypeOK, hostVars
<1>5. ASSUME NEW c \in Conn, NEW holds,
             SkipBlank(c, holds) \/ Refuse(c, holds) \/ ReadRequest(c, holds)
      PROVE  ConnInv(d)'
  <2>1. CASE c = d
    BY <1>5, <2>1, TakeKept
  <2>2. CASE c # d
    <3>1. TakeLine(c, holds)
      BY <1>5 DEF SkipBlank, Refuse, ReadRequest
    <3>2. PICK l : l = Head(unread[c])
      OBVIOUS
    <3>3. /\ l \in Lines(c) /\ sent' = sent
          /\ DOMAIN content' = DOMAIN content \cup {l}
          /\ \A k \in DOMAIN content : content'[k] = content[k]
          /\ unread'[d] = unread[d]
      BY <2>2, <3>1, <3>2, TakeFacts
    <3>4. l \notin Lines(d)
      BY <1>l, <2>2, <3>3
    <3>5. /\ phase'[d] = phase[d] /\ answered'[d] = answered[d] /\ current'[d] = current[d]
          /\ nonce' = nonce /\ ran' = ran
      BY <1>t, <1>5, <2>2 DEF SkipBlank, Refuse, ReadRequest, Leave, hostVars, DirectTypeOK
    <3> QED
      BY <1>t, <3>3, <3>4, <3>5, OthersKept
  <2> QED
    BY <2>1, <2>2
<1>6. ASSUME NEW c \in Conn, NEW ok, Run(c, ok) \/ EndWait(c) PROVE ConnInv(d)'
  <2>1. CASE c = d
    BY <1>6, <2>1, RunKept
  <2>2. CASE c # d
    <3>1. ToSet(ran') = ToSet(ran) \cup {current[c]}
      BY <1>6, RunKept
    <3>2. current[c] \in Lines(c)
      BY <1>6 DEF DirectInv, ConnInv, ServingInv, Serving, Read, Run, EndWait
    <3>3. current[d] # 0 => current[d] # current[c]
      BY <1>t, <1>l, <2>2, <3>2 DEF ConnInv, ServingInv, Read
    <3>4. /\ phase'[d] = phase[d]
          /\ UNCHANGED <<sent, unread, content, answered, current, nonce>>
      BY <1>t, <1>6, <2>2 DEF Run, EndWait, Unlock, lineVars, DirectTypeOK
    <3> QED
      BY <1>t, <3>1, <3>3, <3>4, OthersKept
  <2> QED
    BY <2>1, <2>2
<1>7. ASSUME NEW c \in Conn, Write(c) PROVE ConnInv(d)'
  <2>1. CASE c = d
    BY <1>7, <2>1, WriteKept
  <2>2. CASE c # d
    BY <1>t, <1>7, <2>2, OthersKept DEF Write, Leave, lineVars, hostVars, DirectTypeOK
  <2> QED
    BY <2>1, <2>2
<1> QED
  BY <1>1, <1>2, <1>3, <1>4, <1>5, <1>6, <1>7 DEF Next, Listener, Work

\* No line was sent yet.
LEMMA InitInv == Init => DirectInv
<1> SUFFICES ASSUME Init PROVE DirectInv
  OBVIOUS
<1>1. \A c \in Conn : Lines(c) = {} /\ Read(c) = {} /\ ToSet(answered[c]) = {}
                      /\ ToSet(unread[c]) = {} /\ ToSet(ran) = {} /\ DOMAIN content = {}
  BY DEF Init, Lines, Read, ToSet
<1>2. DirectTypeOK
  BY EmptySeq DEF Init, DirectTypeOK, Phase
<1>3. LinesInv
  <2>1. AllSent = 1..0 /\ 0 \in 0..MaxLines
    BY <1>1, DirectAssumption DEF AllSent, Lines
  <2>2. ToSet(ran) = {} /\ DOMAIN content = {}
    BY DEF Init, ToSet
  <2> QED
    BY <1>1, <2>1, <2>2 DEF LinesInv
<1>4. ASSUME NEW c \in Conn PROVE ConnInv(c)
  <2>1. Increasing(unread[c]) /\ Increasing(answered[c])
    BY DEF Init, Increasing, IsSorted
  <2> QED
    BY <1>1, <2>1 DEF Init, ConnInv, ReadInOrder, ServingInv, AnswersInv, Serving
<1> QED
  BY <1>2, <1>3, <1>4 DEF DirectInv

\* The inductive invariant: what a handler has read, what it owes and what it has
\* answered, for every connection at once (handle_stream_host).
THEOREM DirectInvariant == Spec => []DirectInv
<1>1. DirectInv /\ [Next]_vars => DirectInv'
  BY TypeStep, LinesStep, ConnStep DEF DirectInv
<1> QED
  BY InitInv, <1>1, PTL DEF Spec

\* Every line is answered once, in order, and nothing behind a refused line is run
\* or answered, for any number of connections, whatever the lines hold.
THEOREM DirectAnsweredInOrder == Spec => []AnsweredInOrder
<1>1. DirectInv => AnsweredInOrder
  <2> SUFFICES ASSUME DirectInv, NEW c \in Conn
               PROVE  /\ ToSet(answered[c]) \subseteq Read(c)
                      /\ Increasing(answered[c])
                      /\ \A l \in ToSet(answered[c]) : \A k \in Lines(c) :
                             k < l => /\ k \in DOMAIN content
                                      /\ k \in Read(c) => k \in ToSet(answered[c])
                      /\ \A l \in Read(c) : \A k \in Lines(c) :
                             ~Served(c, content[l]) /\ k > l =>
                                k \notin ToSet(ran) \cup ToSet(answered[c])
    BY DEF AnsweredInOrder
  <2>1. ConnInv(c) /\ ToSet(ran) \subseteq DOMAIN content /\ DirectTypeOK
    BY DEF DirectInv, LinesInv
  <2>2. Read(c) \subseteq Lines(c) \cap DOMAIN content /\ Lines(c) \subseteq Line
    BY <2>1, LenProperties, ElementOfSeq DEF Read, Lines, ToSet, DirectTypeOK
  <2>3. ToSet(answered[c]) \subseteq Read(c) /\ Increasing(answered[c])
    BY <2>1 DEF ConnInv, AnswersInv
  <2>4. ASSUME NEW l \in ToSet(answered[c]), NEW k \in Lines(c), k < l
        PROVE  k \in DOMAIN content /\ (k \in Read(c) => k \in ToSet(answered[c]))
    <3>1. k \in DOMAIN content
      BY <2>1, <2>2, <2>3, <2>4 DEF ConnInv, ReadInOrder
    <3>2. k \in Line /\ l \in Line
      BY <2>2, <2>3
    <3>3. k \in Read(c) => k \in ToSet(answered[c])
      BY <2>1, <2>4, <3>2, DirectAssumption DEF ConnInv, AnswersInv, Line
    <3> QED
      BY <3>1, <3>3
  <2>5. ASSUME NEW l \in Read(c), NEW k \in Lines(c), ~Served(c, content[l]), k > l
        PROVE  k \notin ToSet(ran) \cup ToSet(answered[c])
    BY <2>1, <2>2, <2>3, <2>5 DEF ConnInv, AnswersInv
  <2> QED
    BY <2>3, <2>4, <2>5
<1> QED
  BY <1>1, DirectInvariant, PTL

-----------------------------------------------------------------------------
(* The daemon keeps the promise of RpcService                              *)

\* A line that is on a connection is answered or served on no other.
LEMMA OneConnection ==
    ASSUME DirectInv, NEW c \in Conn, NEW l \in Lines(c), NEW d \in Conn, c # d
    PROVE  l \notin ToSet(answered[d]) /\ (l # 0 => current[d] # l)
BY DEF DirectInv, LinesInv, ConnInv, ServingInv, AnswersInv, Read

\* A line that is being served is one whose caller waits.
LEMMA ServingIsOpen ==
    ASSUME DirectInv, NEW c \in Conn, phase[c] \in Serving
    PROVE  /\ current[c] \in Line
           /\ ~Settled(current[c])
           /\ OutcomeOf(current[c]) = "open"
<1>1. /\ current[c] \in Line /\ current[c] \in Lines(c) /\ current[c] # 0
      /\ current[c] \notin ToSet(answered[c]) /\ phase[c] # "closed"
  BY DEF DirectInv, DirectTypeOK, ConnInv, ServingInv, Read, Serving
<1>2. \A d \in Conn : d # c => current[c] \notin ToSet(answered[d]) /\ current[d] # current[c]
  BY <1>1, OneConnection
<1> QED
  BY <1>1, <1>2 DEF OutcomeOf, Settled

\* A line served before, on a connection that reads on, has its answer.
LEMMA ReadingIsSettled ==
    ASSUME DirectInv, NEW c \in Conn, phase[c] = "reading", current[c] # 0
    PROVE  Settled(current[c])
BY DEF DirectInv, ConnInv, ServingInv, Settled

\* What a caller knows does not change with what others do.
LEMMA OutcomeKept ==
    ASSUME NEW l \in Line, Settled(l)' <=> Settled(l),
           \A d \in Conn : current'[d] = l <=> current[d] = l,
           \A d \in Conn : current[d] = l /\ ~Settled(l) =>
                               (phase'[d] = "closed" <=> phase[d] = "closed")
    PROVE  OutcomeOf(l)' = OutcomeOf(l)
<1>1. CASE Settled(l)
  BY <1>1 DEF OutcomeOf
<1>2. CASE ~Settled(l)
  BY <1>2 DEF OutcomeOf
<1> QED
  BY <1>1, <1>2

\* The lines that are settled change only with an answer, and only where a line
\* that was read is answered.
LEMMA SettledKept ==
    ASSUME DirectInv, NEW l \in Line,
           UNCHANGED <<nonce, answered>>,
           \A k \in DOMAIN content : content'[k] = content[k]
    PROVE  Settled(l)' <=> Settled(l)
<1>1. \A c \in Conn : ToSet(answered[c]) \subseteq DOMAIN content
  BY DEF DirectInv, ConnInv, AnswersInv, Read
<1> QED
  BY <1>1 DEF Settled, Served, Authorized

\* A step that settles no line and runs none is a stutter of the service.
LEMMA StutterRefines ==
    ASSUME \A l \in Line : OutcomeOf(l)' = OutcomeOf(l), ran' = ran
    PROVE  UNCHANGED Service!vars
BY DEF Service!vars

\* Taking a line tells no other caller anything.
LEMMA TakeSettles ==
    ASSUME DirectInv, NEW c \in Conn, NEW holds,
           SkipBlank(c, holds) \/ Refuse(c, holds) \/ ReadRequest(c, holds),
           NEW l \in Line
    PROVE  Settled(l)' <=> Settled(l)
<1>1. PICK new : new = Head(unread[c])
  OBVIOUS
<1>2. TakeLine(c, holds) /\ nonce' = nonce
  BY DEF SkipBlank, Refuse, ReadRequest
<1>3. /\ new \in Line /\ new \in Lines(c) /\ new \notin DOMAIN content
      /\ \A k \in DOMAIN content : content'[k] = content[k]
      /\ content'[new] = holds
  <2>1. new \in Line /\ new \in Lines(c) /\ new \notin DOMAIN content
    BY <1>1, <1>2, TakesNewLine
  <2>2. \A k \in DOMAIN content : content'[k] = content[k]
    BY <1>2 DEF TakeLine
  <2>3. content'[new] = holds
    BY <1>1, <1>2, <2>1 DEF TakeLine
  <2> QED
    BY <2>1, <2>2, <2>3
<1>4. CASE answered' = answered
  BY <1>2, <1>3, <1>4, SettledKept
<1>5. CASE Refuse(c, holds)
  <2>1. \A d \in Conn : ToSet(answered'[d]) =
            IF d = c THEN ToSet(answered[c]) \cup {new} ELSE ToSet(answered[d])
    <3>1. answered' = [answered EXCEPT ![c] = Append(@, new)] /\ answered \in [Conn -> Seq(Line)]
      BY <1>1, <1>5 DEF Refuse, DirectInv, DirectTypeOK
    <3>2. ToSet(Append(answered[c], new)) = ToSet(answered[c]) \cup {new}
      BY <1>3, <3>1, ToSetAppend
    <3> QED
      BY <3>1, <3>2
  <2>2. \A d \in Conn : ToSet(answered[d]) \subseteq DOMAIN content
    BY DEF DirectInv, ConnInv, AnswersInv, Read
  <2>3. ASSUME NEW d \in Conn, NEW k \in DOMAIN content
        PROVE  Served(d, content[k])' <=> Served(d, content[k])
    BY <1>2, <1>3 DEF Served, Authorized
  <2>4. ~Served(c, content[new])'
    BY <1>2, <1>3, <1>5 DEF Refuse, Served, Authorized
  <2>5. \A d \in Conn : l \in ToSet(answered'[d]) /\ Served(d, content[l])'
            <=> l \in ToSet(answered[d]) /\ Served(d, content[l])
    BY <1>3, <2>1, <2>2, <2>3, <2>4
  <2> QED
    BY <2>5 DEF Settled
<1> QED
  BY <1>4, <1>5 DEF SkipBlank, ReadRequest

\* Every step is one of the service or a stutter.
LEMMA StepRefines ==
    DirectInv /\ [Next]_vars => [Service!Next]_(Service!vars)
<1> SUFFICES ASSUME DirectInv, [Next]_vars
             PROVE  [Service!Next]_(Service!vars)
  OBVIOUS
<1> DEFINE oc == [l \in Line |-> OutcomeOf(l)]
<1>t. DirectTypeOK /\ \A l \in Line : l # 0
  BY DirectAssumption DEF DirectInv, Line
<1>k. ASSUME \A l \in Line : OutcomeOf(l)' = OutcomeOf(l), ran' = ran
      PROVE  UNCHANGED Service!vars
  BY <1>k, StutterRefines
\* Nothing a caller could see
<1>1. CASE ListenerCheck \/ ListenerNoConnection \/ MainLooks \/ UNCHANGED vars
  <2>1. UNCHANGED <<phase, nonce, content, current, answered, ran>>
    BY <1>1 DEF ListenerCheck, ListenerNoConnection, MainLooks, vars, lineVars, hostVars
  <2>2. \A l \in Line : OutcomeOf(l)' = OutcomeOf(l)
    BY <2>1, SettledKept, OutcomeKept
  <2> QED
    BY <1>k, <2>1, <2>2
<1>2. ASSUME NEW c \in Conn, Send(c) PROVE UNCHANGED Service!vars
  <2>1. UNCHANGED <<phase, nonce, content, current, answered, ran>>
    BY <1>2 DEF Send, hostVars
  <2>2. \A l \in Line : OutcomeOf(l)' = OutcomeOf(l)
    BY <2>1, SettledKept, OutcomeKept
  <2> QED
    BY <1>k, <2>1, <2>2
<1>3. ASSUME NEW c \in Conn, Accept(c) \/ Greet(c) PROVE UNCHANGED Service!vars
  <2>1. /\ UNCHANGED <<content, current, answered, ran>>
        /\ phase[c] \in {"new", "greeting"}
        /\ \A d \in Conn : d # c => phase'[d] = phase[d] /\ nonce'[d] = nonce[d]
    BY <1>t, <1>3 DEF Accept, Greet, Leave, DirectTypeOK, lineVars, hostVars
  <2>2. current[c] = 0 /\ ToSet(answered[c]) = {}
    BY <2>1 DEF DirectInv, ConnInv, ServingInv, AnswersInv, ReadInOrder, Read
  <2>3. ASSUME NEW l \in Line PROVE Settled(l)' <=> Settled(l)
    <3>1. \A d \in Conn : l \in ToSet(answered[d]) => d # c
      BY <2>2
    <3>2. \A d \in Conn : d # c => (Served(d, content[l])' <=> Served(d, content[l]))
      BY <2>1 DEF Served, Authorized
    <3> QED
      BY <2>1, <3>1, <3>2 DEF Settled
  <2>4. \A l \in Line : OutcomeOf(l)' = OutcomeOf(l)
    BY <1>t, <2>1, <2>2, <2>3, OutcomeKept
  <2> QED
    BY <1>k, <2>1, <2>4
<1>4. ASSUME NEW c \in Conn, ReadNothing(c) PROVE UNCHANGED Service!vars
  <2>1. /\ UNCHANGED <<nonce, content, current, answered, ran>>
        /\ phase[c] = "reading"
        /\ \A d \in Conn : d # c => phase'[d] = phase[d]
    BY <1>t, <1>4 DEF ReadNothing, Leave, DirectTypeOK, lineVars, hostVars
  <2>2. \A l \in Line : current[c] = l => Settled(l)
    BY <1>t, <2>1, ReadingIsSettled
  <2>3. \A l \in Line : OutcomeOf(l)' = OutcomeOf(l)
    BY <2>1, <2>2, SettledKept, OutcomeKept
  <2> QED
    BY <1>k, <2>1, <2>3
<1>5. ASSUME NEW c \in Conn, NEW holds, SkipBlank(c, holds) \/ Refuse(c, holds)
      PROVE  UNCHANGED Service!vars
  <2>1. /\ UNCHANGED <<current, ran>>
        /\ phase[c] = "reading"
        /\ \A d \in Conn : d # c => phase'[d] = phase[d]
    BY <1>t, <1>5 DEF SkipBlank, Refuse, TakeLine, Leave, DirectTypeOK, hostVars
  <2>2. \A l \in Line : current[c] = l => Settled(l)
    BY <1>t, <2>1, ReadingIsSettled
  <2>3. \A l \in Line : Settled(l)' <=> Settled(l)
    BY <1>5, TakeSettles
  <2>4. \A l \in Line : OutcomeOf(l)' = OutcomeOf(l)
    BY <2>1, <2>2, <2>3, OutcomeKept
  <2> QED
    BY <1>k, <2>1, <2>4
\* A request is read
<1>6. ASSUME NEW c \in Conn, NEW holds, ReadRequest(c, holds) PROVE Service!Next
  <2>1. PICK new : new = Head(unread[c])
    OBVIOUS
  <2>2. TakeLine(c, holds)
    BY <1>6 DEF ReadRequest
  <2>3. /\ new \in Line /\ new \in Lines(c) /\ new \notin DOMAIN content
    BY <2>1, <2>2, TakesNewLine
  <2>4. /\ current' = [current EXCEPT ![c] = new] /\ phase'[c] = "locking" /\ ran' = ran
        /\ phase[c] = "reading"
        /\ \A d \in Conn : d # c => phase'[d] = phase[d] /\ current'[d] = current[d]
        /\ current'[c] = new
    BY <1>t, <1>6, <2>1, <2>2 DEF ReadRequest, TakeLine, DirectTypeOK, hostVars
  <2>5. \A d \in Conn : current[d] # new /\ new \notin ToSet(answered[d])
    BY <1>t, <2>3 DEF DirectInv, ConnInv, ServingInv, AnswersInv, Read
  <2>6. oc[new] = "unsent"
    BY <2>3, <2>5 DEF OutcomeOf, Settled
  <2>7. oc'[new] = "open"
    <3>1. ~Settled(new)'
      BY <1>6, <2>3, <2>5, TakeSettles DEF Settled
    <3>2. \A d \in Conn : current'[d] = new <=> d = c
      BY <2>4, <2>5
    <3> QED
      BY <2>3, <2>4, <3>1, <3>2 DEF OutcomeOf
  <2>8. ASSUME NEW l \in Line, l # new PROVE OutcomeOf(l)' = OutcomeOf(l)
    <3>1. Settled(l)' <=> Settled(l)
      BY <1>6, TakeSettles
    <3>2. CASE Settled(l)
      BY <3>1, <3>2 DEF OutcomeOf
    <3>3. CASE ~Settled(l)
      <4>1. \A d \in Conn : current'[d] = l <=> current[d] = l
        BY <1>t, <2>4, <2>8, <3>3, ReadingIsSettled
      <4>2. \A d \in Conn : current[d] = l => d # c
        BY <1>t, <2>4, <3>3, ReadingIsSettled
      <4> QED
        BY <2>4, <3>1, <4>1, <4>2, OutcomeKept
    <3> QED
      BY <3>2, <3>3
  <2>9. oc' = [oc EXCEPT ![new] = "open"]
    BY <2>3, <2>7, <2>8
  <2>10. Service!Ask(new)
    BY <2>4, <2>6, <2>9 DEF Service!Ask
  <2> QED
    BY <2>3, <2>10 DEF Service!Next
\* The host runs it
<1>7. ASSUME NEW c \in Conn, NEW ok, Run(c, ok) \/ EndWait(c) PROVE Service!Next
  <2>1. /\ ran' = Append(ran, current[c])
        /\ phase[c] = "holding" /\ phase' = [phase EXCEPT ![c] = "writing"]
        /\ UNCHANGED <<content, current, answered, nonce>>
    BY <1>7 DEF Run, EndWait, Record, Unlock, lineVars
  <2>2. current[c] \in Line /\ oc[current[c]] = "open"
    BY <2>1, ServingIsOpen DEF Serving
  <2>3. \A l \in Line : OutcomeOf(l)' = OutcomeOf(l)
    BY <1>t, <2>1, SettledKept, OutcomeKept DEF DirectTypeOK
  <2>4. oc' = oc
    BY <2>3
  <2>5. ~Service!Done(current[c])
    BY <1>t, <2>1, LenProperties
    DEF Service!Done, DirectInv, DirectTypeOK, ConnInv, ServingInv, ToSet
  <2>6. Service!Perform(current[c])
    BY <2>1, <2>2, <2>4, <2>5 DEF Service!Perform
  <2> QED
    BY <2>2, <2>6 DEF Service!Next
\* It is answered
<1>8. ASSUME NEW c \in Conn, Write(c) PROVE Service!Next
  <2>1. /\ phase[c] = "writing"
        /\ answered' = [answered EXCEPT ![c] = Append(@, current[c])]
        /\ UNCHANGED <<content, current, nonce, ran>>
        /\ \A d \in Conn : d # c => phase'[d] = phase[d] /\ answered'[d] = answered[d]
    BY <1>t, <1>8 DEF Write, Leave, lineVars, hostVars, DirectTypeOK
  <2>2. current[c] \in Line /\ oc[current[c]] = "open"
    BY <2>1, ServingIsOpen DEF Serving
  <2>3. ToSet(answered'[c]) = ToSet(answered[c]) \cup {current[c]}
    BY <1>8, WriteKept
  <2>4. Served(c, content[current[c]])
    BY <1>t, <2>2 DEF DirectInv, ConnInv, ServingInv
  <2>5. \A d \in Conn, l \in Line : Served(d, content[l])' <=> Served(d, content[l])
    BY <2>1 DEF Served, Authorized
  <2>6. oc'[current[c]] = "reply"
    <3>1. Settled(current[c])'
      BY <2>1, <2>2, <2>3, <2>4, <2>5 DEF Settled
    <3> QED
      BY <2>1, <2>2, <3>1 DEF OutcomeOf
  <2>7. ASSUME NEW l \in Line, l # current[c] PROVE OutcomeOf(l)' = OutcomeOf(l)
    <3>1. Settled(l)' <=> Settled(l)
      BY <2>1, <2>3, <2>5, <2>7 DEF Settled
    <3> QED
      BY <2>1, <2>7, <3>1, OutcomeKept
  <2>8. oc' = [oc EXCEPT ![current[c]] = "reply"]
    BY <2>2, <2>6, <2>7
  <2>9. Service!Done(current[c])
    BY <1>t, <2>1, LenProperties
    DEF Service!Done, DirectInv, DirectTypeOK, ConnInv, ServingInv, ToSet
  <2>10. Service!Answer(current[c], "reply")
    BY <2>1, <2>2, <2>8, <2>9 DEF Service!Answer
  <2> QED
    BY <2>2, <2>10 DEF Service!Next
\* Its handler ends without an answer
<1>9. ASSUME NEW c \in Conn, Panic(c) \/ (Lock(c) /\ poisoned) PROVE Service!Next
  <2>1. /\ phase[c] \in Serving /\ phase'[c] = "closed"
        /\ UNCHANGED <<content, current, nonce, answered, ran>>
        /\ \A d \in Conn : d # c => phase'[d] = phase[d]
    BY <1>t, <1>9 DEF Panic, Lock, Leave, lineVars, hostVars, DirectTypeOK, Serving
  <2>2. current[c] \in Line /\ oc[current[c]] = "open" /\ ~Settled(current[c])
    BY <2>1, ServingIsOpen
  <2>3. \A l \in Line : Settled(l)' <=> Settled(l)
    BY <2>1, SettledKept
  <2>4. oc'[current[c]] = "timeout"
    <3>1. ~Settled(current[c])'
      BY <2>1, <2>2, <2>3
    <3> QED
      BY <2>1, <2>2, <3>1 DEF OutcomeOf
  <2>5. \A l \in Line : l # current[c] => OutcomeOf(l)' = OutcomeOf(l)
    BY <2>1, <2>3, OutcomeKept
  <2>6. oc' = [oc EXCEPT ![current[c]] = "timeout"]
    BY <2>2, <2>4, <2>5
  <2>7. Service!Answer(current[c], "timeout")
    BY <2>1, <2>2, <2>6 DEF Service!Answer
  <2> QED
    BY <2>2, <2>7 DEF Service!Next
<1>10. ASSUME NEW c \in Conn, Lock(c), ~poisoned PROVE UNCHANGED Service!vars
  <2>1. /\ UNCHANGED <<content, current, nonce, answered, ran>>
        /\ phase[c] # "closed" /\ phase'[c] # "closed"
        /\ \A d \in Conn : d # c => phase'[d] = phase[d]
    BY <1>t, <1>10 DEF Lock, lineVars, hostVars, DirectTypeOK
  <2>2. \A l \in Line : OutcomeOf(l)' = OutcomeOf(l)
    BY <2>1, SettledKept, OutcomeKept
  <2> QED
    BY <1>k, <2>1, <2>2
<1> QED
  BY <1>1, <1>2, <1>3, <1>4, <1>5, <1>6, <1>7, <1>8, <1>9, <1>10 DEF Next, Listener, Work

\* The service begins with no call asked.
LEMMA InitRefines == Init => Service!Init
BY DirectAssumption DEF Init, Service!Init, OutcomeOf, Settled, ToSet, Line

\* The daemon, with its threads, its mutex and its refusals, keeps the promise the
\* desktop host keeps with its queue: each request is carried out at most once, and
\* answered only when it has been (serve_host, handle_stream_host).
THEOREM DirectImplementsService == Spec => DirectServiceSpec
BY InitRefines, StepRefines, DirectInvariant, PTL DEF Spec, DirectServiceSpec, Service!Spec

=============================================================================
