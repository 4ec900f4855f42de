-------------------------------- MODULE Ndjson --------------------------------
(***************************************************************************)
(* Lines on the wire (crates/gpui-agent/src/ndjson.rs): both ends write an  *)
(* object and a line feed, and both read with a limit.  A stream is a       *)
(* sequence of bytes: "x" (any other byte), " ", "cr", "lf" and "bad" (not  *)
(* UTF-8).                                                                  *)
(***************************************************************************)
EXTENDS Naturals, Sequences, SequencesExt

Byte == {"x", " ", "cr", "lf", "bad"}
Ws == {" ", "cr"}

Upto(s, max) == IF Len(s) > max THEN SubSeq(s, 1, max) ELSE s

\* read_until on what is left of the limit: through the first line feed
Through(s) ==
    IF "lf" \in ToSet(s) THEN SubSeq(s, 1, SelectInSeq(s, LAMBDA b : b = "lf")) ELSE s

ChopCr(s) == IF s # <<>> /\ Last(s) = "cr" THEN Front(s) ELSE s
Chop(s) == IF s # <<>> /\ Last(s) = "lf" THEN ChopCr(Front(s)) ELSE s

\* Fault: the limit is all that is ever read, so that a longer line looks like one
\* that ends there
ReadCut(stream, max) ==
    LET raw == Through(Upto(stream, max))
        rest == SubSeq(stream, Len(raw) + 1, Len(stream))
        Got(what, line) == [what |-> what, line |-> line, rest |-> rest]
    IN IF raw = <<>> THEN Got("eof", <<>>)
       ELSE IF "bad" \in ToSet(Chop(raw)) THEN Got("refused", <<>>)
       ELSE Got("line", Chop(raw))

\* read_limited_line_into: one byte more than the limit is read, to see that a line
\* is too long; the line feed counts
Read(stream, max) ==
    LET raw == Through(Upto(stream, max + 1))
        rest == SubSeq(stream, Len(raw) + 1, Len(stream))
        Got(what, line) == [what |-> what, line |-> line, rest |-> rest]
    IN IF raw = <<>> THEN Got("eof", <<>>)
       ELSE IF Len(raw) > max \/ "bad" \in ToSet(Chop(raw)) THEN Got("refused", <<>>)
       ELSE Got("line", Chop(raw))

\* What a connection makes of a stream: its lines but the blank ones (line_is_blank),
\* until it ends or one is refused (handle_stream_host, handle_stream_mailbox)
Heard(stream, max) ==
    LET hear[n \in 0 .. Len(stream) + 1] ==
            IF n = 0 THEN [lines |-> <<>>, open |-> TRUE, rest |-> stream]
            ELSE LET h == hear[n - 1]
                     got == Read(h.rest, max)
                 IN IF ~h.open THEN h
                    ELSE [lines |-> IF got.what = "line" /\ ~(ToSet(got.line) \subseteq Ws)
                                    THEN Append(h.lines, got.line) ELSE h.lines,
                          open |-> got.what = "line",
                          rest |-> got.rest]
    IN hear[Len(stream) + 1]

\* write_json_line
Written(lines) == FlattenSeq([i \in DOMAIN lines |-> lines[i] \o <<"lf">>])
===============================================================================
