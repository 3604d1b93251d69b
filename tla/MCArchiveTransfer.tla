------------------------- MODULE MCArchiveTransfer -------------------------
(* Small instances of ArchiveTransfer for TLC. *)
EXTENDS ArchiveTransfer, TLC

MCExt == "main.tex" :> "tex" @@ "a.tex" :> "tex" @@ "b.tex" :> "tex" @@ "x.png" :> "png" @@ "v.mp4" :> "mp4" @@
         "o.def" :> "def" @@ "fig" :> "" @@ "css" :> "" @@ "index.html" :> "html" @@
         "ar5iv.css" :> "css" @@ "ar5iv-fonts.css" :> "css" @@ "__preview.html" :> "html"

Sorted == <<<<"__preview.html">>, <<"a.tex">>, <<"a.tex", "x.png">>, <<"b.tex">>, <<"css">>,
            <<"css", "ar5iv-fonts.css">>, <<"css", "ar5iv.css">>, <<"fig">>, <<"fig", "v.mp4">>,
            <<"fig", "x.png">>, <<"index.html">>, <<"main.tex">>, <<"o.def">>,
            <<"v.mp4">>, <<"x.png">>>>
MCPaths == ToSet(Sorted)
MCRank  == [p \in MCPaths |-> CHOOSE i \in DOMAIN Sorted : Sorted[i] = p]

Of(name, n)     == [name |-> name, kind |-> "file", size |-> n, packed |-> n]
Kind(name, k)   == [name |-> name, kind |-> k, size |-> 0, packed |-> 0]
Sent(f, E)      == [format |-> f, size |-> 1, entries |-> E]

Usual == {Of(<<"main.tex">>, 1), Of(<<".", "main.tex">>, 1), Of(<<"a.tex">>, 2),
          Of(<<"a.tex", "x.png">>, 1), Of(<<"fig", "x.png">>, 2), Of(<<"fig", "v.mp4">>, 3)}
Odd == {Of(<<"..", "a.tex">>, 1), Of(<<"fig", "x.png">>, 3), Of(<<"fig", "fig", "x.png">>, 1),
        Of(<<".">>, 1), Of(<<"b.tex">>, 1), [Of(<<"a.tex">>, 2) EXCEPT !.packed = 1], Kind(<<"fig">>, "dir"),
        Kind(<<"a.tex">>, "symlink")}

\* Zips and tarballs of up to three entries, at most one of them odd, and one
\* beyond the count cap; lone gzipped files; archives too large and unknown.
MCInputs ==
    {Sent(f, E) : f \in {"zip", "tar"},
                  E \in UNION {[1..n -> Usual] : n \in 0..3} \union
                        UNION {{<<e>>, <<u, e>>, <<e, u>>} : u \in Usual, e \in Odd}}
    \union {Sent("zip", [i \in 1..4 |-> Kind(<<"fig">>, "dir")]),
            Sent("tar", [i \in 1..3 |-> Of(<<"fig", "v.mp4">>, 3)]),
            [Sent("zip", <<Of(<<"main.tex">>, 1)>>) EXCEPT !.size = 9],
            Sent("unknown", <<>>)}
    \union {Sent("gz", <<Of(name, n)>>) : n \in {1, 3, 9},
                 name \in {<<>>, <<"fig", "a.tex">>, <<"fig", "..">>, <<"v.mp4">>, <<"/">>,
                           <<"a.tex", ".">>, <<"\\">>}}

\* A blank project, one with figures, an odd extension and the converter's
\* scratch file, and one with a page of its own.
MCSeeds ==
    {<<"main.tex">> :> File("slot", 2),
     <<"a.tex">> :> File("slot", 1) @@ <<"fig">> :> Dir @@ <<"fig", "x.png">> :> File("slot", 1) @@
     <<"o.def">> :> File("slot", 1) @@ <<"__preview.html">> :> File("slot", 1),
     <<"index.html">> :> File("slot", 1) @@ <<"fig">> :> Dir}
=============================================================================
