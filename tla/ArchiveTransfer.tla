--------------------------- MODULE ArchiveTransfer ---------------------------
(***************************************************************************)
(* Archives on their way into a session's directory and out of it          *)
(* (archive.rs): the extraction plan, unpack_into (import of an upload),   *)
(* unpack_overlay (an archive among uploads, an example that ships one),   *)
(* and the export, whose bundle may be imported again.                     *)
(*                                                                         *)
(* A name is a sequence of segments. A file is known by its size and by    *)
(* who wrote it. Unpacking and zipping run on the blocking pool, one entry *)
(* at a time, while other requests may write and delete in the directory.  *)
(***************************************************************************)
EXTENDS Naturals, Sequences, FiniteSets, SequencesExt

CONSTANTS
    Paths,        \* names below a session's directory
    Ext,          \* segments -> extensions
    Rank,         \* Paths -> place in a sorted listing
    Inputs,       \* the archives clients send
    Seeds,        \* directories an overlay may meet
    MaxEntries, MaxDepth, RatioCap,
    QuotaArchive, QuotaUpload, QuotaSession,
    MaxOthers     \* bound: what other requests do meanwhile

MainTex    == <<"main.tex">>
OfflineSet == {<<"index.html">>, <<"css", "ar5iv.css">>, <<"css", "ar5iv-fonts.css">>}

ASSUME TransferCapsAssumption ==
    {MaxEntries, MaxDepth, RatioCap, QuotaArchive, QuotaUpload, QuotaSession, MaxOthers} \subseteq Nat

VARIABLES
    mode,       \* "import" (unpack_into); unpack_overlay with policy "skip" or "overwrite"
    archive,    \* the archive: its format, size and entries
    at,         \* where the transfer is
    next,       \* index of the entry in hand
    total,      \* build_plan's sum of sizes
    plan,       \* Plan.entries
    skipped,    \* Plan.skipped
    disk,       \* the session's directory: its names -> a file, or Dir
    staged,     \* names in the staging directory still to be promoted
    counted,    \* the session's bytes_used and file_count
    names,      \* the export's names still to be read
    bundle,     \* the exported zip so far
    before,     \* history: the directory when the transfer, or its export, began
    touched,    \* history: the names other requests have written or deleted since
    others      \* history: how many

planVars == <<total, plan, skipped>>
zipVars  == <<names, bundle>>
pastVars == <<before, touched, others>>
vars == <<mode, archive, at, next, planVars, disk, staged, counted, zipVars, pastVars>>

Dir == [by |-> "dir", size |-> 0]
File(who, n) == [by |-> who, size |-> n]
Nodes == [by : {"dir", "slot", "archive", "other", "server"}, size : Nat]

-----------------------------------------------------------------------------
(* Directories.                                                            *)

Nothing  == [p \in {} |-> Dir]
Files(d) == {p \in DOMAIN d : d[p] # Dir}
Total(d) == FoldLeft(LAMBDA n, p : n + d[p].size, 0, SetToSeq(Files(d)))

Above(p) == {SubSeq(p, 1, i) : i \in 1..(Len(p) - 1)}

\* Mutant of Store: the parents are not made.
Store_NoParents(d, p, f) == [q \in DOMAIN d \union {p} |-> IF q = p THEN f ELSE d[q]]

\* create_dir_all of p's parents succeeds, and what is there with the file f as p.
CanHold(d, p)  == \A q \in Above(p) : q \in DOMAIN d => d[q] = Dir
Store(d, p, f) == [q \in DOMAIN d \union Above(p) \union {p} |->
                     IF q = p THEN f ELSE IF q \in DOMAIN d THEN d[q] ELSE Dir]

\* What is in a session's directory: finitely many names, each of them inside
\* directories.
IsDirectory(d) ==
    /\ DOMAIN d \subseteq Paths /\ IsFiniteSet(DOMAIN d)
    /\ d \in [DOMAIN d -> Nodes]
    /\ \A p \in DOMAIN d : \A q \in Above(p) : q \in DOMAIN d /\ d[q] = Dir
ASSUME TransferSeedsAssumption == \A d \in Seeds : IsDirectory(d)

-----------------------------------------------------------------------------
(* What build_plan knows of an archive and of its entries.                 *)

Formats == {"zip", "tar", "gz", "unknown"}

\* normalize_archive_path. "/" first is an absolute name, and "\\" stands for a
\* segment with a NUL or a backslash.
Normal(name) == SelectSeq(name, LAMBDA c : c # ".")
Proper(name) == Normal(name) # <<>> /\ ToSet(name) \intersect {"..", "/", "\\"} = {}

ArchiveExts == {"tex", "sty", "cls", "clo", "bib", "bst", "bbl", "rhai", "png", "jpg", "jpeg",
                "gif", "svg", "pdf", "eps", "csv", "dat", "txt", "md", "toml", "json", "yaml",
                "yml"}
Allowed(p) == Ext[Last(p)] \in ArchiveExts

\* A lone gzipped file takes Path::file_name of the name in its header, if any.
GzipName(stored) ==
    LET n == Normal(stored) IN IF n = <<>> \/ Last(n) \in {"..", "/"} THEN MainTex ELSE <<Last(n)>>

\* The entries as the collectors hand them on.
RawEntries(a) ==
    IF a.format = "gz" THEN <<[Head(a.entries) EXCEPT !.name = GzipName(@)]>> ELSE a.entries

Faulty(e) == e.kind # "file" \/ ~Proper(e.name) \/ Len(Normal(e.name)) > MaxDepth

\* Names are normalised and have a place in every listing; those of the files an
\* archive may bring are names. The generated page and styles have extensions
\* that archives may not bring.
ASSUME TransferPathsAssumption ==
    /\ OfflineSet \union {MainTex} \subseteq Paths
    /\ \A p \in OfflineSet : ~Allowed(p)
    /\ \A p \in Paths : /\ p \in Seq(STRING) /\ Normal(p) = p /\ Proper(p)
                        /\ Above(p) \subseteq Paths
    /\ Rank \in [Paths -> Nat]
    /\ \A p, q \in Paths : Rank[p] = Rank[q] => p = q
IsArchive(a) ==
    LET R == RawEntries(a) IN
    /\ a.format \in Formats /\ a.size \in Nat
    /\ a.entries \in Seq([name : Seq(STRING), kind : {"file", "dir", "symlink"}, size : Nat, packed : Nat])
    /\ a.format = "gz" => Len(a.entries) = 1
    /\ \A i \in DOMAIN R : ~Faulty(R[i]) /\ Allowed(Normal(R[i].name)) => Normal(R[i].name) \in Paths
ASSUME TransferInputsAssumption == \A a \in Inputs : IsArchive(a)

Inflated(a) == FoldLeft(LAMBDA n, e : n + e.size, 0, a.entries)

Bomb(e) == e.kind = "file" /\ e.packed > 0 /\ e.size \div e.packed > RatioCap

\* collect_zip
ZipReads(a) ==
    /\ Len(a.entries) <= MaxEntries
    /\ \A i \in DOMAIN a.entries : ~Bomb(a.entries[i])

\* collect_gzip, which reads through a LimitReader, and collect_tar
GzipReads(a) == Inflated(a) <= 2 * QuotaSession
TarReads(a) ==
    /\ Len(a.entries) <= MaxEntries
    /\ \A i \in DOMAIN a.entries : a.entries[i].kind = "file" => a.entries[i].size <= QuotaUpload

Readable(a) ==
    /\ a.size <= QuotaArchive
    /\ \/ a.format = "zip" /\ ZipReads(a)
       \/ a.format = "tar" /\ GzipReads(a) /\ TarReads(a)
       \/ a.format = "gz" /\ GzipReads(a)

Init ==
    /\ mode \in {"import", "skip", "overwrite"}
    /\ archive \in Inputs
    /\ disk \in IF mode = "import" THEN {Nothing} ELSE Seeds
    /\ counted = [bytes |-> Total(disk), files |-> Cardinality(Files(disk))]
    /\ at = "open"
    /\ next = 1
    /\ total = 0
    /\ plan = <<>>
    /\ skipped = {}
    /\ staged = <<>>
    /\ names = <<>>
    /\ bundle = <<>>
    /\ before = disk
    /\ touched = {}
    /\ others = 0

-----------------------------------------------------------------------------
(* build_plan: one entry after the other, all of them before any is        *)
(* written.                                                                *)

\* The request fails, and the directory goes with a seed that failed.
Refuse ==
    /\ at' = "refused"
    /\ IF mode = "skip" THEN UNCHANGED <<disk, counted>>
       ELSE disk' = Nothing /\ counted' = [bytes |-> 0, files |-> 0]
    /\ UNCHANGED <<mode, archive, next, planVars, zipVars, pastVars>>

Open ==
    /\ at = "open"
    /\ \/ ~Readable(archive) /\ Refuse
       \/ /\ Readable(archive)
          /\ at' = "plan"
          /\ UNCHANGED <<mode, archive, next, planVars, disk, counted, zipVars, pastVars>>
    /\ UNCHANGED staged

Entry   == RawEntries(archive)[next]
Planned == {plan[i].path : i \in DOMAIN plan}

Excess(e) ==
    \/ e.size > QuotaUpload
    \/ total + e.size > QuotaSession
    \/ Normal(e.name) \in Planned

Planning(kind) == at = "plan" /\ next <= Len(RawEntries(archive)) /\ kind
PlanNext == next' = next + 1 /\ UNCHANGED <<mode, archive, at, disk, staged, counted, zipVars, pastVars>>

\* Directories come with the files in them.
PlanDir == Planning(Entry.kind = "dir") /\ PlanNext /\ UNCHANGED planVars

\* Mutant of PlanDrop: what is left out is charged to the session's quota.
PlanDrop_Charged ==
    /\ Planning(~Faulty(Entry) /\ ~Allowed(Normal(Entry.name)))
    /\ skipped' = skipped \union {Normal(Entry.name)}
    /\ total' = total + Entry.size
    /\ PlanNext
    /\ UNCHANGED plan

\* A file of an extension that is not accepted is left out, and counts for nothing.
PlanDrop ==
    /\ Planning(~Faulty(Entry) /\ ~Allowed(Normal(Entry.name)))
    /\ skipped' = skipped \union {Normal(Entry.name)}
    /\ PlanNext
    /\ UNCHANGED <<total, plan>>

PlanTake ==
    /\ Planning(~Faulty(Entry) /\ Allowed(Normal(Entry.name)) /\ ~Excess(Entry))
    /\ plan' = Append(plan, [path |-> Normal(Entry.name), size |-> Entry.size])
    /\ total' = total + Entry.size
    /\ PlanNext
    /\ UNCHANGED skipped

\* Anything else ends the transfer, before a byte is written.
PlanRefuse ==
    /\ Planning(\/ Entry.kind # "dir" /\ Faulty(Entry)
                \/ ~Faulty(Entry) /\ Allowed(Normal(Entry.name)) /\ Excess(Entry))
    /\ Refuse
    /\ UNCHANGED staged

PlanDone ==
    /\ at = "plan" /\ next > Len(RawEntries(archive))
    /\ at' = IF mode = "import" THEN "write" ELSE "stage"
    /\ next' = 1
    /\ UNCHANGED <<mode, archive, planVars, disk, staged, counted, zipVars, pastVars>>

Item == plan[next]
More == next <= Len(plan)

-----------------------------------------------------------------------------
(* unpack_into, the seed of an upload's session.                           *)

Fresh(p) == p \notin DOMAIN disk /\ CanHold(disk, p)

\* Mutant of WriteEntry: the counter is set, and not added to.
WriteEntry_Last ==
    /\ at = "write" /\ More
    /\ Fresh(Item.path)
    /\ disk' = Store(disk, Item.path, File("archive", Item.size))
    /\ counted' = [bytes |-> Item.size, files |-> counted.files + 1]
    /\ next' = next + 1
    /\ UNCHANGED <<mode, archive, at, planVars, staged, zipVars, pastVars>>

WriteEntry ==
    /\ at = "write" /\ More
    /\ Fresh(Item.path)
    /\ disk' = Store(disk, Item.path, File("archive", Item.size))
    /\ counted' = [bytes |-> counted.bytes + Item.size, files |-> counted.files + 1]
    /\ next' = next + 1
    /\ UNCHANGED <<mode, archive, at, planVars, staged, zipVars, pastVars>>

WriteFail ==
    /\ at = "write" /\ More
    /\ ~Fresh(Item.path)
    /\ Refuse
    /\ UNCHANGED staged

WriteDone ==
    /\ at = "write" /\ ~More
    /\ at' = "done"
    /\ UNCHANGED <<mode, archive, next, planVars, disk, staged, counted, zipVars, pastVars>>

-----------------------------------------------------------------------------
(* unpack_overlay.                                                         *)

\* Mutant of Keeps: the policy is not applied.
Keeps_Never(p) == FALSE

Keeps(p) == mode = "skip" /\ p \in DOMAIN disk
Stageable(p) == \A i \in DOMAIN staged :
    ~IsPrefix(staged[i].path, p) /\ ~IsPrefix(p, staged[i].path)

\* The policy is applied to what is there now ...
StageSkip ==
    /\ at = "stage" /\ More
    /\ Keeps(Item.path)
    /\ next' = next + 1
    /\ UNCHANGED <<mode, archive, at, planVars, disk, staged, counted, zipVars, pastVars>>

StageEntry ==
    /\ at = "stage" /\ More
    /\ ~Keeps(Item.path) /\ Stageable(Item.path)
    /\ staged' = Append(staged, Item)
    /\ next' = next + 1
    /\ UNCHANGED <<mode, archive, at, planVars, disk, counted, zipVars, pastVars>>

StageDone ==
    /\ at = "stage" /\ ~More
    /\ at' = "promote"
    /\ next' = 1
    /\ UNCHANGED <<mode, archive, planVars, disk, staged, counted, zipVars, pastVars>>

Promoting == at = "promote" /\ next <= Len(staged)
Placeable(p) == CanHold(disk, p) /\ (p \in DOMAIN disk => disk[p] # Dir)

\* ... and the file is renamed over what has come there since.
Promote ==
    /\ Promoting /\ Placeable(staged[next].path)
    /\ disk' = Store(disk, staged[next].path, File("archive", staged[next].size))
    /\ next' = next + 1
    /\ UNCHANGED <<mode, archive, at, planVars, staged, counted, zipVars, pastVars>>

\* An error removes the staging directory; what has been promoted stays.
OverlayFail ==
    /\ \/ at = "stage" /\ More /\ ~Keeps(Item.path) /\ ~Stageable(Item.path)
       \/ Promoting /\ ~Placeable(staged[next].path)
    /\ Refuse
    /\ staged' = <<>>

\* Mutant of OverlayDone: what was skipped is counted as well.
OverlayDone_WholePlan ==
    /\ at = "promote" /\ next > Len(staged)
    /\ at' = "done"
    /\ counted' = [bytes |-> counted.bytes + total, files |-> counted.files + Len(plan)]
    /\ staged' = <<>>
    /\ UNCHANGED <<mode, archive, next, planVars, disk, zipVars, pastVars>>

\* The caller adds what was staged to the session's counters.
OverlayDone ==
    /\ at = "promote" /\ next > Len(staged)
    /\ at' = "done"
    /\ counted' = [bytes |-> counted.bytes + FoldLeft(LAMBDA n, i : n + i.size, 0, staged),
                   files |-> counted.files + Len(staged)]
    /\ staged' = <<>>
    /\ UNCHANGED <<mode, archive, next, planVars, disk, zipVars, pastVars>>

-----------------------------------------------------------------------------
(* Other requests of the session. None knows a session being seeded.       *)

Shared == (mode = "skip" /\ at \in {"stage", "promote"}) \/ at = "zip"

OtherPut(p) ==
    /\ Shared /\ others < MaxOthers
    /\ Placeable(p)
    /\ disk' = Store(disk, p, File("other", 1))
    /\ touched' = touched \union {p}
    /\ others' = others + 1
    /\ UNCHANGED <<mode, archive, at, next, planVars, staged, counted, zipVars, before>>

OtherDelete(p) ==
    LET gone == {q \in DOMAIN disk : IsPrefix(p, q)} IN
    /\ Shared /\ others < MaxOthers
    /\ p \in DOMAIN disk
    /\ disk' = [q \in DOMAIN disk \ gone |-> disk[q]]
    /\ touched' = touched \union gone
    /\ others' = others + 1
    /\ UNCHANGED <<mode, archive, at, next, planVars, staged, counted, zipVars, before>>

-----------------------------------------------------------------------------
(* export_zip, and a second import of its bundle.                          *)

\* Left out of every export: the converter's scratch file.
Scratch(p) == "__preview.html" \in ToSet(p)

\* A sorted listing: at each place the name with so many names before it.
InOrder(P) == [i \in 1..Cardinality(P) |->
                 CHOOSE p \in P : Cardinality({q \in P : Rank[q] < Rank[p]}) = i - 1]
Listed(P, made) == [i \in 1..Cardinality(P) |-> [path |-> InOrder(P)[i], made |-> made]]

\* Mutant of Names: generated files do not take the place of the session's own.
Names_NoRetain(extras) == Listed({p \in Files(disk) : ~Scratch(p)}, FALSE) \o Listed(extras, TRUE)

\* The session's files, without those the generated ones replace, and then these.
Names(extras) == Listed({p \in Files(disk) : ~Scratch(p)} \ extras, FALSE) \o Listed(extras, TRUE)

\* The names are collected first. With a cached preview, the page and its styles
\* are part of the bundle ...
ExportWalk ==
    /\ at = "done" \/ (at = "refused" /\ mode = "skip")
    /\ bundle = <<>>
    /\ at' = "zip"
    /\ \E extras \in {{}, OfflineSet} : names' = Names(extras)
    /\ before' = disk
    /\ touched' = {}
    /\ UNCHANGED <<mode, archive, next, planVars, disk, staged, counted, bundle, others>>

\* Mutant of ExportAdd: the directories of a name are lost.
ExportAdd_Flat ==
    LET n == Head(names) IN
    /\ at = "zip" /\ names # <<>>
    /\ n.made \/ n.path \in Files(disk)
    /\ bundle' = Append(bundle, [path |-> <<Last(n.path)>>,
                                 file |-> IF n.made THEN File("server", 1) ELSE disk[n.path]])
    /\ names' = Tail(names)
    /\ UNCHANGED <<mode, archive, at, next, planVars, disk, staged, counted, pastVars>>

\* ... then every file is read.
ExportAdd ==
    LET n == Head(names) IN
    /\ at = "zip" /\ names # <<>>
    /\ n.made \/ n.path \in Files(disk)
    /\ bundle' = Append(bundle, [path |-> n.path,
                                 file |-> IF n.made THEN File("server", 1) ELSE disk[n.path]])
    /\ names' = Tail(names)
    /\ UNCHANGED <<mode, archive, at, next, planVars, disk, staged, counted, pastVars>>

\* A file that has gone since fails the export.
ExportFail ==
    /\ at = "zip" /\ names # <<>>
    /\ ~Head(names).made /\ Head(names).path \notin Files(disk)
    /\ at' = "failed"
    /\ UNCHANGED <<mode, archive, next, planVars, disk, staged, counted, zipVars, pastVars>>

ExportDone ==
    /\ at = "zip" /\ names = <<>>
    /\ at' = "bundled"
    /\ UNCHANGED <<mode, archive, next, planVars, disk, staged, counted, zipVars, pastVars>>

\* The bundle is imported as a session of its own. How well a file compresses is
\* not known.
Reimport ==
    /\ at = "bundled"
    /\ \E dense \in BOOLEAN :
        archive' = [format |-> "zip", size |-> 1,
                    entries |-> [i \in DOMAIN bundle |->
                        [name |-> bundle[i].path, kind |-> "file", size |-> bundle[i].file.size,
                         packed |-> IF dense THEN 1 ELSE bundle[i].file.size]]]
    /\ mode' = "import"
    /\ at' = "open" /\ next' = 1
    /\ total' = 0 /\ plan' = <<>> /\ skipped' = {}
    /\ disk' = Nothing
    /\ counted' = [bytes |-> 0, files |-> 0]
    /\ UNCHANGED <<staged, zipVars, pastVars>>

-----------------------------------------------------------------------------
Planner  == PlanDir \/ PlanDrop \/ PlanTake \/ PlanRefuse \/ PlanDone
Unpacker == WriteEntry \/ WriteFail \/ WriteDone
Overlay  == StageSkip \/ StageEntry \/ StageDone \/ Promote \/ OverlayFail \/ OverlayDone
Exporter == ExportWalk \/ ExportAdd \/ ExportFail \/ ExportDone

Next ==
    \/ Open
    \/ Planner
    \/ Unpacker
    \/ Overlay
    \/ \E p \in Paths : OtherPut(p) \/ OtherDelete(p)
    \/ Exporter
    \/ Reimport

Spec == Init /\ [][Next]_vars

-----------------------------------------------------------------------------
(* The answer to an import.                                                *)

\* The listing has directories too; "kind" is from the extension.
TexFiles(d) == {p \in Files(d) : Ext[Last(p)] = "tex"}

\* Mutant of PickDefaultEntry: whatever ends in .tex will do.
PickDefaultEntry_AnyKind(d) ==
    LET tex == {p \in DOMAIN d : Ext[Last(p)] = "tex"} IN
    IF MainTex \in DOMAIN d \/ d = Nothing THEN MainTex
    ELSE Head(InOrder(IF tex # {} THEN tex ELSE DOMAIN d))

PickDefaultEntry(d) ==
    IF MainTex \in DOMAIN d \/ d = Nothing THEN MainTex
    ELSE Head(InOrder(IF TexFiles(d) # {} THEN TexFiles(d) ELSE DOMAIN d))

-----------------------------------------------------------------------------
(* Properties.                                                             *)

\* The type invariant; every name is inside a directory.
TypeOK ==
    /\ mode \in {"import", "skip", "overwrite"} /\ archive.format \in Formats
    /\ at \in {"open", "plan", "write", "stage", "promote", "done", "refused", "zip", "failed",
               "bundled"}
    /\ next \in Nat \ {0} /\ total \in Nat
    /\ IsDirectory(disk) /\ IsDirectory(before)
    /\ Planned \union touched \subseteq Paths
    /\ counted \in [bytes : Nat, files : Nat]

\* What an import has to bring, read off the archive as a whole.
Brings(a) ==
    LET R == RawEntries(a) IN
    {i \in DOMAIN R : R[i].kind = "file" /\ Proper(R[i].name) /\ Allowed(Normal(R[i].name))}

\* The files held to the cap on a single file: those that are brought, and in a
\* tarball the others too, since collect_tar comes before the extensions are
\* looked at.
Measured(a) ==
    LET R == RawEntries(a) IN
    IF a.format = "tar" THEN {i \in DOMAIN R : R[i].kind = "file"} ELSE Brings(a)

Sound(a) ==
    LET R == RawEntries(a) IN
    /\ a.format # "unknown" /\ a.size <= QuotaArchive
    /\ a.format # "gz" => Len(R) <= MaxEntries
    /\ IF a.format = "zip" THEN \A i \in DOMAIN R : ~Bomb(R[i]) ELSE Inflated(a) <= 2 * QuotaSession
    /\ \A i \in DOMAIN R : R[i].kind = "dir" \/ ~Faulty(R[i])
    /\ \A i \in Measured(a) : R[i].size <= QuotaUpload
    /\ \A i, j \in Brings(a) : i # j => ~IsPrefix(Normal(R[i].name), Normal(R[j].name))
    /\ FoldLeft(LAMBDA n, i : n + R[i].size, 0, SetToSeq(Brings(a))) <= QuotaSession

\* An archive is imported or refused as a whole: every sound one is accepted, and
\* a refusal leaves no file. A file that is left out for its extension is charged
\* to no quota, clashes with no other file and, in a zip, may be of any size; in
\* a tarball one above the per-file cap still sinks the whole archive, and the
\* caps on entries, ratio and inflated bytes are for all entries.
ImportedIffSound ==
    mode = "import" =>
        /\ at = "done" => Sound(archive)
        /\ at = "refused" => ~Sound(archive) /\ disk = Nothing /\ counted.files = 0

\* An imported session has the archive's files, nothing else, and its counters
\* say so.
ImportExact ==
    LET R == RawEntries(archive) IN
    mode = "import" /\ at = "done" =>
        /\ Files(disk) = {Normal(R[i].name) : i \in Brings(archive)}
        /\ \A i \in Brings(archive) : disk[Normal(R[i].name)] = File("archive", R[i].size)
        /\ counted = [bytes |-> Total(disk), files |-> Cardinality(Files(disk))]

\* "Existing files in the destination are kept" under Skip, in every state and
\* after every failure, and replaced under Overwrite; the rest of the archive is
\* added. What other requests write or delete meanwhile is theirs.
OverlayMerges ==
    LET wins(p) == \E i \in DOMAIN plan : plan[i].path = p /\ (mode = "overwrite" \/ p \notin Files(before))
    IN
    /\ mode = "skip" => \A p \in Files(before) \ touched : p \in DOMAIN disk /\ disk[p] = before[p]
    /\ mode # "import" /\ at = "done" =>
        \A p \in (Planned \union Files(before)) \ touched :
            /\ p \in DOMAIN disk
            /\ disk[p] # Dir /\ wins(p) => disk[p].by = "archive"
            /\ ~wins(p) => disk[p] = before[p]

\* The quota guard sees every byte an overlay adds, and counts none twice unless
\* it overwrites.
OverlayCounted ==
    mode # "import" /\ at = "done" /\ others = 0 =>
        /\ counted.bytes >= Total(disk) /\ counted.files >= Cardinality(Files(disk))
        /\ mode = "skip" => counted = [bytes |-> Total(disk), files |-> Cardinality(Files(disk))]

\* A bundle names each file once, and has every file that nobody touched while it
\* was made, as it was.
ExportComplete ==
    at = "bundled" =>
        /\ \A i, j \in DOMAIN bundle : bundle[i].path = bundle[j].path => i = j
        /\ \A p \in Files(before) \ touched : ~Scratch(p) =>
            \E i \in DOMAIN bundle : /\ bundle[i].path = p
                                     /\ bundle[i].file \in {before[p], File("server", 1)}

\* An exported session that is imported again has its files back, but for those
\* of an extension that archives may not bring and for the generated page.
RoundTrip ==
    mode = "import" /\ at = "done" /\ bundle # <<>> =>
        \A p \in Paths \ touched :
            p \in Files(disk) <=> p \in Files(before) /\ ~Scratch(p) /\ Allowed(p)

\* The file an import tells the page to open is there, if there is a .tex file
\* at all.
EntryOpens ==
    mode = "import" /\ at = "done" /\ TexFiles(disk) # {} /\ MainTex \notin DOMAIN disk \ Files(disk) =>
        PickDefaultEntry(disk) \in Files(disk)
=============================================================================
