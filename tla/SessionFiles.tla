---------------------------- MODULE SessionFiles ----------------------------
(***************************************************************************)
(* The files of one session and what the server remembers about them: the  *)
(* mutating file routes (files.rs), the quota guard they share (quota.rs), *)
(* the archive overlay (archive.rs) and the main-entry cache (session.rs). *)
(*                                                                         *)
(* Every request is a task; a step is what it does between two awaits, so  *)
(* that several requests interleave as they do on the server. A task whose *)
(* client has gone is dropped at an await, and its blocking work goes on.  *)
(* The version counter and last_activity are left out: every request that  *)
(* succeeds moves them, and nothing here reads them.                       *)
(***************************************************************************)
EXTENDS Integers, FiniteSets, FiniteSetsExt, Functions

CONSTANTS
    Paths,        \* names of files and directories below the session's directory
    Parent,       \* Paths -> the directory the name is in, None at the top
    Base,         \* Paths -> the name without its first segment
    Rank,         \* Paths -> the order in which find_main_tex prefers files
    None, Dir,
    Tasks,        \* requests in flight at once
    Setups,       \* which routes the tasks may call, and whether clients go away
    QuotaBytes,   \* quota_session_bytes
    QuotaFiles,   \* quota_session_files
    UploadMax,    \* quota_upload_bytes
    CountMod,     \* file_count is a u32: 2^32
    MaxFields,    \* bound: files in one upload
    MaxCount,     \* bound: file_count, for empty uploads and the overlay, which
                  \* check no quota
    MaxBytes,     \* bound: bytes_used, for the overlay
    MaxStray      \* bound: stray

Kinds == {"put", "delete", "upload", "archive", "mkdir", "rename", "clear"}
Sizes == 0..UploadMax

ASSUME FilesNamesAssumption ==
    /\ {None, Dir} \intersect (Paths \union Int) = {} /\ None # Dir
    /\ Parent \in [Paths -> Paths \union {None}]
    /\ \A p, q \in Paths : Parent[p] = q => Parent[q] = None      \* two segments at most
    /\ Base \in [Paths -> Paths]
    /\ \A p \in Paths : Parent[p] # None => Parent[Base[p]] = None
    /\ Rank \in [Paths -> Nat]
ASSUME FilesConstantsAssumption ==
    /\ Setups \subseteq [kinds : [Tasks -> SUBSET Kinds], abandon : BOOLEAN]
    /\ {QuotaBytes, QuotaFiles, UploadMax, MaxFields, MaxCount, MaxBytes, MaxStray} \subseteq Nat
    /\ CountMod \in Nat \ {0} /\ QuotaFiles < CountMod               \* quota_session_files is a u32
    /\ IsFiniteSet(Tasks)
\* The bounds leave room for what all requests may add to file_count.
ASSUME FilesBoundsAssumption ==
    (Max({QuotaFiles, MaxCount}) + 1) * Cardinality(Tasks) < CountMod

VARIABLES
    setup,       \* never changes
    node,        \* the session's directory: Paths -> a file's size, Dir or None
    bytesUsed,   \* Session.bytes_used
    fileCount,   \* Session.file_count
    mainEntry,   \* Session.main_entry
    staging,     \* the tasks whose .staging- directory exists
    req,         \* Tasks -> the request being served
    stray        \* history: bytes that requests left on disk without counting them

counters == <<bytesUsed, fileCount>>
vars == <<setup, node, counters, mainEntry, staging, req, stray>>

\* A request: where it is and its local variables.
Idle == [at |-> "idle", path |-> None, size |-> 0, prior |-> None, off |-> 0, take |-> 0,
         fresh |-> FALSE, upload |-> FALSE, dropped |-> FALSE, todo |-> {}, done |-> {},
         twice |-> {}, pick |-> None]

\* What find_main_tex picks from the files P.
Preferred(P) == IF P = {} THEN None ELSE CHOOSE p \in P : \A q \in P : Rank[p] <= Rank[q]

\* The slot has been seeded with some files, all of them counted.
Init ==
    /\ setup \in Setups
    /\ \E F \in SUBSET Paths :
        /\ F # {} /\ IsFiniteSet(F) /\ Cardinality(F) <= Min({QuotaBytes, QuotaFiles})
        /\ \A p \in F : Parent[p] \notin F
        /\ node = [p \in Paths |-> IF p \in F THEN 1
                                  ELSE IF \E q \in F : Parent[q] = p THEN Dir ELSE None]
        /\ bytesUsed = Cardinality(F)
        /\ fileCount = Cardinality(F)
        /\ mainEntry = Preferred(F)
    /\ staging = {}
    /\ req = [r \in Tasks |-> Idle]
    /\ stray = 0

-----------------------------------------------------------------------------
(* The file system.                                                        *)

Files(nd) == {p \in Paths : nd[p] \notin {None, Dir}}
Total(nd) == FoldFunctionOnSet(+, 0, nd, Files(nd))

\* create_dir_all of p's parent succeeds, and what it leaves behind.
CanHold(p) == Parent[p] # None => node[Parent[p]] \in {None, Dir}
WithParent(p) == [q \in Paths |-> IF q = Parent[p] THEN Dir ELSE node[q]]
Reachable(p) == Parent[p] # None => node[Parent[p]] = Dir

\* Mutant of Removed: what is below a directory stays.
Removed_Shallow(P) == [q \in Paths |-> IF q \in P THEN None ELSE node[q]]

\* What is left when everything below and including P is removed.
Removed(P) == [q \in Paths |-> IF q \in P \/ Parent[q] \in P THEN None ELSE node[q]]

\* Mutant of Growth: the bytes are not compared.
Growth_FilesOnly(bytes, files) == fileCount + files <= QuotaFiles

\* check_session_growth.
Growth(bytes, files) == bytesUsed + bytes <= QuotaBytes /\ fileCount + files <= QuotaFiles

May(r, kind) == req[r].at = "idle" /\ kind \in setup.kinds[r]
Go(r, rec)   == req' = [req EXCEPT ![r] = rec]
At(r, place) == req[r].at = place
End(r)       == Go(r, Idle)

\* The request has done its work; refresh_main_entry is what is left of it.
Refresh(r)   == Go(r, [Idle EXCEPT !.at = "pick"])

-----------------------------------------------------------------------------
(* put_file.                                                               *)

\* The body is within the upload cap; the parent directories are made.
PutBegin(r, p, n) ==
    /\ May(r, "put")
    /\ CanHold(p)
    /\ node' = WithParent(p)
    /\ Go(r, [Idle EXCEPT !.at = "stat", !.path = p, !.size = n])
    /\ UNCHANGED <<setup, counters, mainEntry, staging, stray>>

PriorSize(r) == IF req[r].prior = None THEN 0 ELSE req[r].prior
NewBytes(r)  == Max({0, req[r].size - PriorSize(r)})
NewFiles(r)  == IF req[r].prior = None THEN 1 ELSE 0

\* Look at what is there.
PutStat(r) ==
    /\ At(r, "stat")
    /\ \/ /\ node[req[r].path] # Dir
          /\ Go(r, [req[r] EXCEPT !.at = "grow", !.prior = node[req[r].path]])
       \/ node[req[r].path] = Dir /\ Go(r, Idle)
    /\ UNCHANGED <<setup, node, counters, mainEntry, staging, stray>>

\* Check the quota against it, then write.
PutWrite(r) ==
    /\ At(r, "grow")
    /\ \/ /\ Growth(NewBytes(r), NewFiles(r))
          /\ Reachable(req[r].path) /\ node[req[r].path] # Dir
          /\ node' = [node EXCEPT ![req[r].path] = req[r].size]
          /\ Go(r, [req[r] EXCEPT !.at = "count"])
       \/ /\ \/ ~Growth(NewBytes(r), NewFiles(r))
             \/ ~Reachable(req[r].path) \/ node[req[r].path] = Dir
          /\ Go(r, Idle)
          /\ UNCHANGED node
    /\ UNCHANGED <<setup, counters, mainEntry, staging, stray>>

\* Mutant of PutCount: the bytes of an overwrite are not counted.
PutCount_NewOnly(r) ==
    /\ At(r, "count")
    /\ bytesUsed' = bytesUsed + (IF NewFiles(r) = 1 THEN NewBytes(r) ELSE 0)
    /\ fileCount' = (fileCount + NewFiles(r)) % CountMod
    /\ IF NewFiles(r) = 1 THEN Refresh(r) ELSE End(r)
    /\ UNCHANGED <<setup, node, mainEntry, staging, stray>>

\* Count what was written; only a new file can change the main entry.
PutCount(r) ==
    /\ At(r, "count")
    /\ bytesUsed' = bytesUsed + NewBytes(r)
    /\ fileCount' = (fileCount + NewFiles(r)) % CountMod
    /\ IF NewFiles(r) = 1 THEN Refresh(r) ELSE End(r)
    /\ UNCHANGED <<setup, node, mainEntry, staging, stray>>

-----------------------------------------------------------------------------
(* delete_file.                                                            *)

DeleteBegin(r, p) ==
    /\ May(r, "delete")
    /\ node[p] # None
    /\ Go(r, [Idle EXCEPT !.at = "remove", !.path = p, !.prior = node[p]])
    /\ UNCHANGED <<setup, node, counters, mainEntry, staging, stray>>

\* A directory goes with everything below it, and no counter moves.
DeleteRemove(r) ==
    LET p == req[r].path
        same == (req[r].prior = Dir) = (node[p] = Dir)
    IN
    /\ At(r, "remove")
    /\ \/ /\ node[p] # None /\ same
          /\ node' = Removed({p})
          /\ IF req[r].prior = Dir THEN Refresh(r)
             ELSE Go(r, [req[r] EXCEPT !.at = "uncount"])
       \/ /\ node[p] = None \/ ~same
          /\ End(r)
          /\ UNCHANGED node
    /\ UNCHANGED <<setup, counters, mainEntry, staging, stray>>

\* Mutant of DeleteUncount: the count is not read, one is taken off it.
DeleteUncount_NoMin(r) ==
    /\ At(r, "uncount")
    /\ bytesUsed' = Max({0, bytesUsed - req[r].prior})
    /\ Go(r, [req[r] EXCEPT !.at = "less", !.take = 1])
    /\ UNCHANGED <<setup, node, fileCount, mainEntry, staging, stray>>

\* Give the bytes back, and read the file count ...
DeleteUncount(r) ==
    /\ At(r, "uncount")
    /\ bytesUsed' = Max({0, bytesUsed - req[r].prior})
    /\ Go(r, [req[r] EXCEPT !.at = "less", !.take = Min({1, fileCount})])
    /\ UNCHANGED <<setup, node, fileCount, mainEntry, staging, stray>>

\* ... then subtract from it in an operation of its own, which wraps around.
DeleteLess(r) ==
    /\ At(r, "less")
    /\ fileCount' = (fileCount + CountMod - req[r].take) % CountMod
    /\ Refresh(r)
    /\ UNCHANGED <<setup, node, bytesUsed, mainEntry, staging, stray>>

-----------------------------------------------------------------------------
(* upload_files: the fields of a multipart body, one after another.        *)

UploadBegin(r) ==
    /\ May(r, "upload")
    /\ Go(r, [Idle EXCEPT !.at = "next", !.upload = TRUE, !.fresh = (fileCount = 0)])
    /\ UNCHANGED <<setup, node, counters, mainEntry, staging, stray>>

\* The next field: make its parents, and open its file, which truncates it.
UploadField(r, p) ==
    /\ At(r, "next") /\ req[r].upload
    /\ Cardinality(req[r].done) < MaxFields /\ fileCount < MaxCount
    /\ \/ /\ CanHold(p) /\ node[p] # Dir
          /\ node' = [WithParent(p) EXCEPT ![p] = 0]
          /\ Go(r, [req[r] EXCEPT !.at = "body", !.path = p, !.off = 0])
       \/ /\ ~CanHold(p) \/ node[p] = Dir
          /\ End(r)
          /\ UNCHANGED node
    /\ UNCHANGED <<setup, counters, mainEntry, staging, stray>>

Fits(r) == req[r].off < UploadMax /\ Growth(1, 0)

\* A chunk that fits is written where the last one ended, unless the name has
\* been unlinked meanwhile.
UploadChunk(r) ==
    LET p == req[r].path IN
    /\ At(r, "body")
    /\ Fits(r)
    /\ node' = IF p \in Files(node) THEN [node EXCEPT ![p] = Max({@, req[r].off + 1})] ELSE node
    /\ Go(r, [req[r] EXCEPT !.at = "add"])
    /\ UNCHANGED <<setup, counters, mainEntry, staging, stray>>

\* A chunk beyond the quota ends the request with an error; what has been
\* written stays.
UploadReject(r) ==
    /\ At(r, "body")
    /\ ~Fits(r)
    /\ End(r)
    /\ UNCHANGED <<setup, node, counters, mainEntry, staging, stray>>

\* The chunk is counted once it is written.
UploadAdd(r) ==
    /\ At(r, "add")
    /\ bytesUsed' = bytesUsed + 1
    /\ Go(r, [req[r] EXCEPT !.at = "body", !.off = @ + 1])
    /\ UNCHANGED <<setup, node, fileCount, mainEntry, staging, stray>>

\* The names in the answer; one may come twice.
Written(k, p) ==
    [k EXCEPT !.done = @ \union {p}, !.twice = @ \union ({p} \intersect k.done)]

\* The last chunk of a field was counted: one file more, new or not.
UploadEnd(r) ==
    /\ At(r, "body")
    /\ fileCount' = (fileCount + 1) % CountMod
    /\ Go(r, Written([req[r] EXCEPT !.at = "next", !.path = None, !.off = 0], req[r].path))
    /\ UNCHANGED <<setup, node, bytesUsed, mainEntry, staging, stray>>

\* single_top_level_prefix: everything that was uploaded is in one directory.
Wrapper(P) == {Parent[p] : p \in P}
Unwraps(r) == req[r].fresh /\ \E p \in Paths : Wrapper(req[r].done) = {p}

\* No more fields: unwrap_one_level for a wrapped upload into an empty session,
\* or finish.
UploadDone(r) ==
    /\ At(r, "next") /\ req[r].upload
    /\ IF Unwraps(r)
       THEN Go(r, [req[r] EXCEPT !.at = "unwrap", !.todo = req[r].done])
       ELSE Refresh(r)
    /\ UNCHANGED <<setup, node, counters, mainEntry, staging, stray>>

\* Move a file up one level, over what is there.
Unwrap(r, p) ==
    /\ At(r, "unwrap")
    /\ p \in req[r].todo
    /\ \/ /\ p \in Files(node) /\ node[Base[p]] # Dir
          /\ node' = [node EXCEPT ![Base[p]] = node[p], ![p] = None]
          /\ Go(r, [req[r] EXCEPT !.todo = @ \ {p}])
       \/ /\ p \notin Files(node) \/ node[Base[p]] = Dir
          /\ End(r)
          /\ UNCHANGED node
    /\ UNCHANGED <<setup, counters, mainEntry, staging, stray>>

\* A name that came twice is not there a second time.
UnwrapAgain(r) ==
    /\ At(r, "unwrap")
    /\ req[r].twice \ req[r].todo # {}
    /\ End(r)
    /\ UNCHANGED <<setup, node, counters, mainEntry, staging, stray>>

\* All moved: the wrapper goes, with whatever it still holds.
UnwrapDone(r) ==
    /\ At(r, "unwrap")
    /\ req[r].todo = {} /\ req[r].twice = {}
    /\ node' = Removed(Wrapper(req[r].done))
    /\ Refresh(r)
    /\ UNCHANGED <<setup, counters, mainEntry, staging, stray>>

-----------------------------------------------------------------------------
(* upload_archive, and an archive among the fields of upload_files: both   *)
(* run unpack_overlay on the blocking pool, with the policy Skip. Every    *)
(* file in an archive has size 1.                                          *)

\* The archive is sound, and within the caps that build_plan knows. What is not
\* there yet is staged.
ArchiveBegin(r, E) ==
    /\ May(r, "archive") \/ (At(r, "next") /\ "archive" \in setup.kinds[r])
    /\ IsFiniteSet(E) /\ Cardinality(E) <= QuotaBytes
    /\ \A p \in E : Parent[p] \notin E
    /\ bytesUsed + Cardinality(E) <= MaxBytes /\ fileCount + Cardinality(E) <= MaxCount
    /\ stray + Cardinality(E) <= MaxStray
    /\ staging' = staging \union {r}
    /\ Go(r, [req[r] EXCEPT !.at = "promote", !.todo = {p \in E : node[p] = None}, !.off = 0])
    /\ UNCHANGED <<setup, node, counters, mainEntry, stray>>

\* Rename a staged file into place, over what may have come there meanwhile.
Promotable(r, p) == r \in staging /\ CanHold(p) /\ node[p] # Dir
ArchivePromote(r, p) ==
    /\ At(r, "promote")
    /\ p \in req[r].todo
    /\ Promotable(r, p)
    /\ node' = [WithParent(p) EXCEPT ![p] = 1]
    /\ Go(r, Written([req[r] EXCEPT !.todo = @ \ {p}, !.off = @ + 1], p))
    /\ UNCHANGED <<setup, counters, mainEntry, staging, stray>>

\* A rename that fails ends the unpacking, and the request with it. The files
\* renamed before stay, and are not counted.
ArchiveFail(r, p) ==
    /\ At(r, "promote")
    /\ p \in req[r].todo
    /\ ~Promotable(r, p)
    /\ staging' = staging \ {r}
    /\ stray' = stray + req[r].off
    /\ End(r)
    /\ UNCHANGED <<setup, node, counters, mainEntry>>

\* Everything is in place: count it, unless the client has gone.
ArchiveCount(r) ==
    /\ At(r, "promote")
    /\ req[r].todo = {}
    /\ staging' = staging \ {r}
    /\ IF req[r].dropped
       THEN stray' = stray + req[r].off /\ UNCHANGED counters
       ELSE /\ bytesUsed' = bytesUsed + req[r].off
            /\ fileCount' = (fileCount + req[r].off) % CountMod
            /\ UNCHANGED stray
    /\ IF req[r].dropped THEN End(r)
       ELSE IF req[r].upload
       THEN Go(r, [req[r] EXCEPT !.at = "next", !.off = 0])
       ELSE Refresh(r)
    /\ UNCHANGED <<setup, node, mainEntry>>

-----------------------------------------------------------------------------
(* mkdir, rename (of a file) and clear_files.                              *)

Mkdir(r, p) ==
    /\ May(r, "mkdir")
    /\ CanHold(p) /\ node[p] \in {None, Dir}
    /\ node' = [WithParent(p) EXCEPT ![p] = Dir]
    /\ Refresh(r)
    /\ UNCHANGED <<setup, counters, mainEntry, staging, stray>>

\* The parents of the target are made even if the rename fails. A directory as
\* the source is left out.
Rename(r, p, q) ==
    /\ May(r, "rename")
    /\ node[p] # Dir
    /\ CanHold(q)
    /\ \/ /\ p \in Files(node) /\ node[q] # Dir
          /\ node' = [[WithParent(q) EXCEPT ![p] = None] EXCEPT ![q] = node[p]]
          /\ Refresh(r)
       \/ /\ p \notin Files(node) \/ node[q] = Dir
          /\ node' = WithParent(q)
          /\ UNCHANGED req
    /\ UNCHANGED <<setup, counters, mainEntry, staging, stray>>

Top == {p \in Paths : Parent[p] = None}

ClearBegin(r) ==
    /\ May(r, "clear")
    /\ Go(r, [Idle EXCEPT !.at = "clear", !.todo = {p \in Top : node[p] # None}])
    /\ UNCHANGED <<setup, node, counters, mainEntry, staging, stray>>

\* One entry of the listing; one that has gone meanwhile ends the request.
ClearRemove(r, p) ==
    /\ At(r, "clear")
    /\ p \in req[r].todo
    /\ IF node[p] = None
       THEN End(r) /\ UNCHANGED node
       ELSE /\ node' = Removed({p})
            /\ Go(r, [req[r] EXCEPT !.todo = @ \ {p}])
    /\ UNCHANGED <<setup, counters, mainEntry, staging, stray>>

\* A staging directory is an entry like any other.
ClearStaging(r, q) ==
    /\ At(r, "clear")
    /\ q \in staging
    /\ staging' = staging \ {q}
    /\ UNCHANGED <<setup, node, counters, mainEntry, req, stray>>

\* Mutant of ClearDone: the main entry outlives the files.
ClearDone_KeepEntry(r) ==
    /\ At(r, "clear")
    /\ req[r].todo = {}
    /\ bytesUsed' = 0
    /\ fileCount' = 0
    /\ End(r)
    /\ UNCHANGED <<setup, node, mainEntry, staging, stray>>

\* All gone: the counters and the main entry start over.
ClearDone(r) ==
    /\ At(r, "clear")
    /\ req[r].todo = {}
    /\ bytesUsed' = 0
    /\ fileCount' = 0
    /\ mainEntry' = None
    /\ End(r)
    /\ UNCHANGED <<setup, node, staging, stray>>

-----------------------------------------------------------------------------
(* refresh_main_entry, and clients that go away.                           *)

\* find_main_tex looks at the files ...
RefreshPick(r) ==
    /\ At(r, "pick")
    /\ Go(r, [req[r] EXCEPT !.at = "store", !.pick = Preferred(Files(node))])
    /\ UNCHANGED <<setup, node, counters, mainEntry, staging, stray>>

\* ... and the pick is stored afterwards.
RefreshStore(r) ==
    /\ At(r, "store")
    /\ mainEntry' = req[r].pick
    /\ Go(r, Idle)
    /\ UNCHANGED <<setup, node, counters, staging, stray>>

\* The bytes a request has written and not counted yet.
Uncounted(r) ==
    IF At(r, "count") THEN NewBytes(r) ELSE IF At(r, "add") THEN 1 ELSE 0

\* The client goes away and the handler is dropped at an await. An overlay on the
\* blocking pool goes on by itself.
Abandon(r) ==
    /\ setup.abandon
    /\ IF At(r, "promote")
       THEN /\ ~req[r].dropped
            /\ Go(r, [req[r] EXCEPT !.dropped = TRUE])
            /\ UNCHANGED stray
       ELSE /\ req[r].at \in {"stat", "grow", "count", "remove", "uncount", "next", "body", "add",
                              "unwrap", "clear"}
            /\ stray' = stray + Uncounted(r) /\ stray' <= MaxStray
            /\ End(r)
    /\ UNCHANGED <<setup, node, counters, mainEntry, staging>>

-----------------------------------------------------------------------------
Put(r) ==
    \/ \E p \in Paths, n \in Sizes : PutBegin(r, p, n)
    \/ PutStat(r)
    \/ PutWrite(r)
    \/ PutCount(r)

Delete(r) ==
    \/ \E p \in Paths : DeleteBegin(r, p)
    \/ DeleteRemove(r)
    \/ DeleteUncount(r)
    \/ DeleteLess(r)

Upload(r) ==
    \/ UploadBegin(r)
    \/ \E p \in Paths : UploadField(r, p)
    \/ UploadChunk(r)
    \/ UploadReject(r)
    \/ UploadAdd(r)
    \/ UploadEnd(r)
    \/ UploadDone(r)
    \/ \E p \in req[r].todo : Unwrap(r, p)
    \/ UnwrapAgain(r)
    \/ UnwrapDone(r)

Archive(r) ==
    \/ \E E \in SUBSET Paths : ArchiveBegin(r, E)
    \/ \E p \in req[r].todo : ArchivePromote(r, p) \/ ArchiveFail(r, p)
    \/ ArchiveCount(r)

Clear(r) ==
    \/ ClearBegin(r)
    \/ \E p \in req[r].todo : ClearRemove(r, p)
    \/ \E q \in staging : ClearStaging(r, q)
    \/ ClearDone(r)

Next ==
    \E r \in Tasks :
        \/ Put(r)
        \/ Delete(r)
        \/ Upload(r)
        \/ Archive(r)
        \/ Clear(r)
        \/ \E p \in Paths : Mkdir(r, p)
        \/ \E p, q \in Paths : Rename(r, p, q)
        \/ RefreshPick(r)
        \/ RefreshStore(r)
        \/ Abandon(r)

Spec == Init /\ [][Next]_vars

-----------------------------------------------------------------------------
(* Properties.                                                             *)

Places == {"idle", "stat", "grow", "count", "remove", "uncount", "less", "next", "body", "add",
           "unwrap", "promote", "clear", "pick", "store"}
Nodes  == [Paths -> Nat \union {None, Dir}]
Requests ==
    [at : Places, path : Paths \union {None}, size : Sizes, prior : Nat \union {None, Dir},
     off : Nat, take : 0..1, fresh : BOOLEAN, upload : BOOLEAN, dropped : BOOLEAN,
     todo : SUBSET Paths, done : SUBSET Paths, twice : SUBSET Paths, pick : Paths \union {None}]

\* The type invariant; a name exists only inside a directory.
TypeOK ==
    /\ setup \in Setups
    /\ node \in Nodes
    /\ \A p \in Paths : node[p] # None => Reachable(p)
    /\ bytesUsed \in Nat
    /\ fileCount \in 0..(CountMod - 1)
    /\ mainEntry \in Paths \union {None}
    /\ staging \subseteq Tasks
    /\ stray \in Nat
    /\ req \in [Tasks -> Requests]

Quiet == \A r \in Tasks : At(r, "idle")

\* Requests that remove and move nothing, however many overlap.
Growing(s) == \A r \in Tasks : s.kinds[r] \subseteq {"put", "upload", "archive", "mkdir"}

\* One request at a time.
Alone(s) == \A r, o \in Tasks : r # o /\ s.kinds[r] # {} => s.kinds[o] = {}

\* The quota guard sees every byte: what is on disk is counted, or was left
\* there by an overlay that failed or a request whose client went away, unless
\* what one request removes or moves is being written by another.
NothingUncounted ==
    Quiet /\ (Growing(setup) \/ Alone(setup)) => Total(node) <= bytesUsed + stray

\* Requests check the quota and count later, so they can pass the check
\* together, but each of them only once: the session's quota is exceeded by at
\* most one file for every other writer.
Writers == {r \in Tasks : setup.kinds[r] \intersect {"put", "upload"} # {}}
QuotaHolds ==
    (\A r \in Tasks : "archive" \notin setup.kinds[r]) =>
        bytesUsed <= QuotaBytes + Max({0, Cardinality(Writers) - 1}) * UploadMax

\* A file may be deleted that no counter knows of; the file count still never
\* wraps around, which would refuse every later file, while nobody else takes
\* files off it between the two operations of a delete.
CountNeverWraps ==
    (\A r, o \in Tasks : r # o /\ "delete" \in setup.kinds[r] =>
        setup.kinds[o] \intersect {"delete", "clear"} = {}) => fileCount < CountMod - Cardinality(Tasks)

\* "Validate that the picked path actually exists": between requests the main
\* entry is a file, so a conversion never starts from one that is gone.
EntryPresent == Quiet /\ mainEntry # None => mainEntry \in Files(node)

\* It is if nothing is removed or moved; and request by request, if every client
\* stays and no upload can meet an empty session again, whose files it would move.
Steady(s) ==
    \/ Growing(s)
    \/ /\ Alone(s) /\ ~s.abandon
       /\ \A r \in Tasks : "upload" \in s.kinds[r] => s.kinds[r] \intersect {"delete", "clear"} = {}
EntryExists == Steady(setup) => EntryPresent
=============================================================================
