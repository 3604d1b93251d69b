--------------------------- MODULE MCSessionFiles ---------------------------
(* Small instances of SessionFiles for TLC: a directory with the names m   *)
(* (main.tex), d, and dm (d/main.tex), and two requests at a time.         *)
EXTENDS SessionFiles, TLC

CONSTANTS m, d, dm, r1, r2

MCParent == m :> None @@ d :> None @@ dm :> d
MCBase   == m :> m @@ d :> d @@ dm :> m
MCRank   == m :> 0 @@ dm :> 1 @@ d :> 2

Mix(K, L, a) == [kinds |-> r1 :> K @@ r2 :> L, abandon |-> a]

\* Requests of every kind, one at a time; without clients that go away, those that
\* never find the session empty in the middle of an upload.
Serial ==
    {Mix(Kinds, {}, TRUE),
     Mix(Kinds \ {"delete", "clear"}, {}, FALSE),
     Mix(Kinds \ {"upload"}, {}, FALSE)}

\* ... requests that remove and move nothing, two at a time, and a clear that
\* meets an archive being unpacked.
Mixes == Serial \union
    {Mix({"put", "upload"}, {"put"}, TRUE),
     Mix({"put", "upload"}, {"archive"}, TRUE),
     Mix({"upload"}, {"upload"}, TRUE),
     Mix({"clear"}, {"archive"}, FALSE)}
=============================================================================
