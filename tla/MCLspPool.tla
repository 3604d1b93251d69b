----------------------------- MODULE MCLspPool -----------------------------
(* Small instances of LspPool for TLC, and the inputs over which TLC       *)
(* evaluates the pure functions of EngineOutput when a run begins.         *)
EXTENDS LspPool, EngineOutput, TLC

Symmetry == Permutations(Dirs) \union Permutations(Engines) \union Permutations(Impatient)
                \union Permutations(Callers \ Impatient)

-----------------------------------------------------------------------------
(* EngineOutput over bounded inputs.                                       *)

CONSTANTS
    MaxItems,     \* frames and headers without a length in a stream
    MaxBody,      \* marks of a body
    MaxStream,    \* marks of an arbitrary stream
    MaxLines      \* lines of a log

Marks == {Text, NewLine} \union 0..1

\* Every way to read a stream in two reads.
Cuts(stream) == {<<SubSeq(stream, 1, i), SubSeq(stream, i + 1, Len(stream))>> : i \in 0..Len(stream)}

\* Headers without a length, whole.
Malformed == {<<Text, NewLine, NewLine>>, <<Text, 1, NewLine, NewLine>>, <<Text, NewLine, NewLine, NewLine>>}

Bodies == SeqOf(Marks, MaxBody)

\* "Byte-accurate framing": what the engine frames is what the server reads,
\* whatever is in the bodies, wherever the reads cut the stream and whatever
\* complete header without a length comes between.
FramesRecovered ==
    \A items \in SeqOf([junk : {<<>>}, body : Bodies] \union [junk : Malformed, body : {<<>>}], MaxItems) :
        LET framed == SelectSeq(items, LAMBDA i : i.junk = <<>>)
            wire   == FlattenSeq([i \in DOMAIN items |->
                          IF items[i].junk = <<>> THEN Frame(items[i].body) ELSE items[i].junk])
        IN \A chunks \in Cuts(wire) : Reads(chunks).frames = [i \in DOMAIN framed |-> framed[i].body]

\* The reads do not matter, not even to garbage: the frames and what is kept for
\* later are those of the whole stream.
CutsIrrelevant ==
    \A stream \in SeqOf(Marks, MaxStream) :
        \A chunks \in Cuts(stream) : Reads(chunks) = Reads(<<stream>>)

Lines == {Record("error"), Record("warning"), Detail("a"), Detail("b"), At(1, Nothing), At(2, 3), Own, Other}

\* The lines from a head to the next one are its record: every record of the log
\* is reported, in order, with the details and the location of its own lines,
\* and its own lines only.
RecordsReported ==
    \A log \in SeqOf(Lines, MaxLines) :
        LET heads == SetToSortSeq({i \in DOMAIN log : log[i].is = "head"}, <)
            Block(n) == SubSeq(log, heads[n] + 1,
                               IF n = Len(heads) THEN Len(log) ELSE heads[n + 1] - 1)
            Places(n) == {line \in Range(Block(n)) : line.is = "at"}
            diags == ParseDiagnostics(log)
        IN
        /\ Len(diags) = Len(heads)
        /\ \A n \in DOMAIN heads :
            /\ diags[n].severity = log[heads[n]].severity
            /\ diags[n].message = LET details == SelectSeq(Block(n), LAMBDA l : l.is = "detail")
                                  IN [i \in DOMAIN details |-> details[i].text]
            /\ Places(n) = {} => diags[n].from = Nothing /\ diags[n].to = Nothing
            /\ \A place \in Places(n) :
                Places(n) = {place} => diags[n].from = place.from /\ diags[n].to = place.to

ASSUME CodecChecked   == FramesRecovered /\ CutsIrrelevant
ASSUME RecordsChecked == RecordsReported
=============================================================================
