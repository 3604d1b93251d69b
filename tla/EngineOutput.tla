---------------------------- MODULE EngineOutput ----------------------------
(***************************************************************************)
(* How the server reads what an engine says: the frames on its standard    *)
(* output (lsp_pool.rs) and the diagnostics in its log (convert.rs).       *)
(*                                                                         *)
(* A stream is a sequence of marks: NewLine is a line end, a number n the  *)
(* text "Content-Length: n", and Text any other character. Lengths count   *)
(* marks. A body may hold any of them.                                     *)
(***************************************************************************)
EXTENDS Naturals, SequencesExt

CONSTANTS Text, NewLine, Nothing

ASSUME MarksAssumption == {Text, NewLine, Nothing} \intersect Nat = {} /\ Text # NewLine

-----------------------------------------------------------------------------
(* The framing codec.                                                      *)

\* find_subseq: where the blank line that ends the header begins, 0 if nowhere.
Blank(buf) == {i \in 1..(Len(buf) - 1) : buf[i] = NewLine /\ buf[i + 1] = NewLine}
HeaderEnd(buf) == IF Blank(buf) = {} THEN 0 ELSE Min(Blank(buf))

\* parse_content_length: the first line of the header that is one.
ContentLength(header) ==
    LET lines == {i \in DOMAIN header :
                    /\ header[i] \in Nat
                    /\ i = 1 \/ header[i - 1] = NewLine
                    /\ i = Len(header) \/ header[i + 1] = NewLine}
    IN IF lines = {} THEN Nothing ELSE header[Min(lines)]

\* One turn of take_frame's loop: it needs more bytes, drops a header without a
\* length, or has a frame.
Turn(buf) ==
    LET start  == HeaderEnd(buf) + 2
        length == ContentLength(SubSeq(buf, 1, start - 3))
    IN
    IF HeaderEnd(buf) = 0 THEN [does |-> "wait", rest |-> buf]
    ELSE IF length = Nothing THEN [does |-> "resync", rest |-> SubSeq(buf, start, Len(buf))]
    ELSE IF Len(buf) < start - 1 + length THEN [does |-> "wait", rest |-> buf]
    ELSE [does |-> "frame", body |-> SubSeq(buf, start, start - 1 + length),
          rest |-> SubSeq(buf, start + length, Len(buf))]

\* The read task between two reads: take frames until it needs more bytes.
RECURSIVE TakeFrames(_)
TakeFrames(state) ==
    LET turn == Turn(state.buf) IN
    IF turn.does = "wait" THEN [state EXCEPT !.buf = turn.rest]
    ELSE TakeFrames([buf |-> turn.rest,
                     frames |-> IF turn.does = "frame" THEN Append(state.frames, turn.body)
                                                       ELSE state.frames])

\* ... and over the reads.
Reads(chunks) ==
    FoldLeft(LAMBDA state, chunk : TakeFrames([state EXCEPT !.buf = @ \o chunk]),
             [buf |-> <<>>, frames |-> <<>>], chunks)

\* frame: a body on the wire.
Frame(body) == <<Len(body), NewLine, NewLine>> \o body

-----------------------------------------------------------------------------
(* parse_diagnostics. A line of a log is the head of a record, with a      *)
(* severity, or below it a detail, a location, the logger's own location   *)
(* ("In file:line:col") or anything else.                                  *)

Record(s)   == [is |-> "head", severity |-> s]
Detail(d)   == [is |-> "detail", text |-> d]
At(from, to) == [is |-> "at", from |-> from, to |-> to]      \* to is Nothing for a position
Own         == [is |-> "own"]
Other       == [is |-> "other"]

Fresh(line) == [severity |-> line.severity, message |-> <<>>, from |-> Nothing, to |-> Nothing]

\* fill_location: a position leaves the end of an earlier range in place.
FillLocation(diag, line) ==
    [diag EXCEPT !.from = line.from, !.to = IF line.to = Nothing THEN @ ELSE line.to]

\* One line; current is empty until the first head.
ReadLine(state, line) ==
    IF line.is = "head" THEN
        [out |-> state.out \o state.current, current |-> <<Fresh(line)>>]
    ELSE IF state.current = <<>> \/ line.is \in {"own", "other"} THEN state
    ELSE IF line.is = "at" THEN [state EXCEPT !.current[1] = FillLocation(@, line)]
    ELSE [state EXCEPT !.current[1].message = Append(@, line.text)]

ParseDiagnostics(log) ==
    LET end == FoldLeft(ReadLine, [out |-> <<>>, current |-> <<>>], log)
    IN end.out \o end.current
=============================================================================
