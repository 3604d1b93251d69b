---------------------------- MODULE LivePreview ----------------------------
(***************************************************************************)
(* From a saved edit to the rendered preview: the browser client's request *)
(* bookkeeping (main.ts), the WebSocket handler that cancels the request a *)
(* newer frame overtakes (ws.rs), the warm-pool lane, and the one worker   *)
(* thread all sessions share (convert.rs), which also packs the archives   *)
(* that pages download.                                                    *)
(*                                                                         *)
(* A request is named by its tab and its id. What a file holds is known by *)
(* the number of the edit that wrote it, counted per session. Frames and   *)
(* responses travel in order, and a frame is handled in the step that      *)
(* sends it; what another task does in between is another step.            *)
(***************************************************************************)
EXTENDS Naturals, Sequences, FiniteSets

CONSTANTS
    Tabs,         \* browser tabs, each with a client and a socket of its own
    Sessions,
    Downloads,    \* requests for a session's archive
    None,
    Setups,       \* the kinds of server and project considered; see setup
    MayFail,      \* a conversion may end with status 3, "fatal"
    MaxFrames,    \* bound: ids per tab
    MaxEdits,     \* bound: writes per session
    MayCut,       \* the connection of a tab may break, once
    MayClear      \* the "clear" button may be used

Requests == Tabs \X (1..MaxFrames)

ASSUME PreviewNoneAssumption ==
    None \notin Nat \union Requests \union {"ok", "fatal", "superseded", "busy"}
ASSUME PreviewConstantsAssumption ==
    /\ Setups \subseteq [pool : BOOLEAN, fallBack : BOOLEAN, inline : BOOLEAN]
    /\ {MayFail, MayCut, MayClear} \subseteq BOOLEAN
    /\ MaxFrames \in Nat \ {0}                 \* the boot conversion is one
    /\ MaxEdits \in Nat
    /\ Downloads \intersect Requests = {}

VARIABLES
    setup,       \* never changes: an engine binary was found at startup (pool); the
                 \* pool may fail, or be passed by for what is not a document
                 \* (fallBack); the project is one document (inline)
    \* sessions
    bound,       \* Tabs -> the session of the tab's socket
    edits,       \* Sessions -> edits made so far
    disk,        \* Sessions -> the edit its files hold, None without files
    lastHtml,    \* Session.last_html: the edit it shows, or None
    \* clients
    text,        \* Tabs -> the last edit of its buffer
    puts,        \* Tabs -> edits whose PUT is in flight
    due,         \* Tabs -> calls of scheduleConvert still to run
    frames,      \* nextId - 1
    latestSeen,  \* latestSeenId
    view,        \* the edit the preview pane shows, or None
    sentAt,      \* ids the loading indicator waits for
    cut,         \* the last id sent over a connection that broke
    \* server tasks
    stage,       \* Requests -> where its task is
    doc,         \* Requests -> the edit it carries or converts, or None
    reply,       \* Requests -> "ok", "fatal", "superseded" or None
    newest,      \* Sessions -> the last request its engine was given, or None
    chan,        \* the worker's channel
    burst,       \* the jobs the worker drained from it
    download     \* Downloads -> where it is, its session, the edit it shows or None;
                 \* history: the edit on disk when it was asked for

givenVars  == <<setup, bound>>
fileVars   == <<edits, disk>>
editVars   == <<text, puts>>
clientVars == <<due, frames, latestSeen, view, sentAt, cut>>
laneVars   == <<reply, newest, chan, burst, download>>
vars == <<givenVars, fileVars, lastHtml, editVars, clientVars, stage, doc, laneVars>>

Init ==
    /\ setup \in Setups
    /\ bound \in [Tabs -> Sessions]
    /\ edits = [s \in Sessions |-> 0]
    /\ disk = [s \in Sessions |-> 0]                     \* the slot's own files
    /\ lastHtml = [s \in Sessions |-> None]
    /\ text = [k \in Tabs |-> 0]
    /\ puts = [k \in Tabs |-> {}]
    /\ due = [k \in Tabs |-> 1]                          \* the boot conversion
    /\ frames = [k \in Tabs |-> 0]
    /\ latestSeen = [k \in Tabs |-> 0]
    /\ view = [k \in Tabs |-> None]
    /\ sentAt = [k \in Tabs |-> {}]
    /\ cut = [k \in Tabs |-> 0]
    /\ stage = [r \in Requests |-> "none"]
    /\ doc = [r \in Requests |-> None]
    /\ reply = [r \in Requests |-> None]
    /\ newest = [s \in Sessions |-> None]
    /\ chan = <<>>
    /\ burst = <<>>
    /\ download \in [Downloads -> {[at |-> "none", session |-> s, shows |-> None, asked |-> None] :
                                    s \in Sessions}]

Session(r) == bound[r[1]]

\* The task's cancel signal has been sent: a newer frame came, or the socket closed.
Cancelled(r) == r[2] < frames[r[1]] \/ r[2] <= cut[r[1]]

-----------------------------------------------------------------------------
(* The client and the file routes.                                         *)

\* The next edit of the tab's session. The first conjunct is an assumption: a PUT
\* is served within the debounce. The last two are the bounds.
MayEdit(k) ==
    /\ \A j \in Tabs : bound[j] = bound[k] => puts[j] = {}
    /\ edits[bound[k]] < MaxEdits
    /\ frames[k] + due[k] + (IF setup.inline THEN 0 ELSE Cardinality(puts[k])) < MaxFrames
Stamp(k) == edits[bound[k]] + 1

\* The debounce fires: PUT the buffer.
Save(k) ==
    /\ ~setup.inline
    /\ MayEdit(k)
    /\ edits' = [edits EXCEPT ![bound[k]] = Stamp(k)]
    /\ text' = [text EXCEPT ![k] = Stamp(k)]
    /\ puts' = [puts EXCEPT ![k] = @ \union {Stamp(k)}]
    /\ UNCHANGED <<givenVars, disk, lastHtml, clientVars, stage, doc, laneVars>>

\* The frame with the next id goes out. The handler signals the previous request
\* of the socket (see Cancelled) and spawns a task for this one.
SendFrame(k, source) ==
    /\ frames' = [frames EXCEPT ![k] = @ + 1]
    /\ sentAt' = [sentAt EXCEPT ![k] = @ \union {frames'[k]}]
    /\ stage' = [stage EXCEPT ![<<k, frames'[k]>>] = "start"]
    /\ doc' = [doc EXCEPT ![<<k, frames'[k]>>] = source]

\* The debounce fires for a single document: the frame carries the buffer, and
\* the PUT goes out without anybody waiting for it. The boot conversion is out.
SaveInline(k) ==
    /\ setup.inline /\ due[k] = 0
    /\ MayEdit(k)
    /\ edits' = [edits EXCEPT ![bound[k]] = Stamp(k)]
    /\ text' = [text EXCEPT ![k] = Stamp(k)]
    /\ puts' = [puts EXCEPT ![k] = @ \union {Stamp(k)}]
    /\ SendFrame(k, Stamp(k))
    /\ UNCHANGED <<givenVars, disk, lastHtml, due, latestSeen, view, cut, laneVars>>

\* put_file writes the file, and the acknowledgement reaches the tab.
PutDone(k, v) ==
    /\ v \in puts[k]
    /\ puts' = [puts EXCEPT ![k] = @ \ {v}]
    /\ disk' = [disk EXCEPT ![bound[k]] = v]
    /\ due' = IF setup.inline THEN due ELSE [due EXCEPT ![k] = @ + 1]
    /\ UNCHANGED <<givenVars, edits, lastHtml, text, frames, latestSeen, view, sentAt, cut,
                   stage, doc, laneVars>>

\* The "clear" button (not for an empty project) and clear_files: the cached
\* preview goes with the files. Nothing is converted.
Clear(k) ==
    /\ MayClear /\ disk[bound[k]] # None
    /\ MayEdit(k)
    /\ edits' = [edits EXCEPT ![bound[k]] = Stamp(k)]
    /\ disk' = [disk EXCEPT ![bound[k]] = None]
    /\ lastHtml' = [lastHtml EXCEPT ![bound[k]] = None]
    /\ UNCHANGED <<givenVars, text, puts, clientVars, stage, doc, laneVars>>

\* Mutant of Send: the id is taken before nextId is advanced.
Send_OffByOne(k) ==
    /\ due[k] > 0
    /\ due' = [due EXCEPT ![k] = @ - 1]
    /\ frames' = [frames EXCEPT ![k] = @ + 1]
    /\ sentAt' = [sentAt EXCEPT ![k] = @ \union {frames[k]}]
    /\ stage' = [stage EXCEPT ![<<k, frames'[k]>>] = "start"]
    /\ UNCHANGED <<givenVars, fileVars, lastHtml, editVars, latestSeen, view, cut, doc, laneVars>>

\* scheduleConvert, for a conversion that reads the files.
Send(k) ==
    /\ due[k] > 0
    /\ due' = [due EXCEPT ![k] = @ - 1]
    /\ SendFrame(k, None)
    /\ UNCHANGED <<givenVars, fileVars, lastHtml, editVars, latestSeen, view, cut, laneVars>>

\* The connection breaks. ConvertClient reconnects by itself; what was in
\* flight is not sent again.
Cut(k) ==
    /\ MayCut
    /\ cut[k] = 0 /\ frames[k] > 0
    /\ cut' = [cut EXCEPT ![k] = frames[k]]
    /\ UNCHANGED <<givenVars, fileVars, lastHtml, editVars, due, frames, latestSeen, view, sentAt, stage,
                   doc, laneVars>>

-----------------------------------------------------------------------------
(* The request's task: a select! of the conversion and the cancel signal,  *)
(* which is polled in either order. A signalled task is dropped at its next *)
(* poll, but that poll may first take the conversion to where it next      *)
(* waits: to its engine or into the worker's channel, where it is "late"   *)
(* and its reply goes nowhere; or to its end, when the reply is there.     *)

Cancel(r) ==
    /\ Cancelled(r)
    /\ stage[r] \in {"start", "engine", "queued", "ready"}
    /\ stage' = [stage EXCEPT ![r] = "gone"]
    /\ UNCHANGED <<givenVars, fileVars, lastHtml, editVars, clientVars, doc, laneVars>>

\* The source of a request: as its frame carries it, or as it is on disk.
Source(r) == IF doc[r] # None THEN doc[r] ELSE disk[Session(r)]

\* The conversion moves on to the place where it waits next; a signalled task is
\* dropped there.
GoesOn(r, place) == stage' = [stage EXCEPT ![r] = IF Cancelled(r) THEN "late" ELSE place]

\* A document goes to the session's engine, and preempts what is there.
GoWarm(r) ==
    /\ setup.pool
    /\ stage[r] = "start"
    /\ Source(r) # None
    /\ GoesOn(r, "engine")
    /\ doc' = [doc EXCEPT ![r] = Source(r)]
    /\ newest' = [newest EXCEPT ![Session(r)] = r]
    /\ UNCHANGED <<givenVars, fileVars, lastHtml, editVars, clientVars, reply, chan, burst, download>>

\* Not a document, no pool, no such file, or a pool that failed: queue for the
\* worker.
GoCold(r) ==
    /\ stage[r] \in {"start", "engine"}
    /\ ~setup.pool \/ setup.fallBack \/ Source(r) = None
    /\ GoesOn(r, "queued")
    /\ chan' = Append(chan, r)
    /\ UNCHANGED <<givenVars, fileVars, lastHtml, editVars, clientVars, doc, reply, newest, burst, download>>

\* What a conversion of the source v may end with.
Outcomes(v) ==
    (IF v = None THEN {} ELSE {"ok"}) \union (IF MayFail \/ v = None THEN {"fatal"} ELSE {})

\* The engine renders the document, or a newer request preempted this one.
EngineReply(r) ==
    /\ stage[r] = "engine"
    /\ stage' = [stage EXCEPT ![r] = "ready"]
    /\ \E o \in Outcomes(doc[r]) \union
                 (IF newest[Session(r)] # r THEN {"superseded"} ELSE {}) :
          reply' = [reply EXCEPT ![r] = o]
    /\ UNCHANGED <<givenVars, fileVars, lastHtml, editVars, clientVars, doc, newest, chan, burst, download>>

\* The reply is there: keep a useful one for the export route.
Stash(r) ==
    /\ stage[r] = "ready"
    /\ stage' = [stage EXCEPT ![r] = "send"]
    /\ lastHtml' = IF reply[r] = "ok" THEN [lastHtml EXCEPT ![Session(r)] = doc[r]] ELSE lastHtml
    /\ UNCHANGED <<givenVars, fileVars, editVars, clientVars, doc, laneVars>>

-----------------------------------------------------------------------------
(* worker_main.                                                            *)

\* Take everything that is queued.
Drain ==
    /\ burst = <<>>
    /\ chan # <<>>
    /\ burst' = chan
    /\ chan' = <<>>
    /\ UNCHANGED <<givenVars, fileVars, lastHtml, editVars, clientVars, stage, doc, reply, newest, download>>

\* The reply of a job; if its task is gone, it goes nowhere.
Answered(r, o) ==
    /\ reply' = [reply EXCEPT ![r] = o]
    /\ stage' = [stage EXCEPT ![r] = IF @ = "queued" THEN "ready" ELSE @]

\* The jobs that remain hold a conversion behind the first.
Overtaken == \E i \in 2..Len(burst) : burst[i] \in Requests

\* Mutants of Skip: the first conversion of a burst is the one that runs, or an
\* archive job overtakes and is overtaken like a conversion.
Skip_Later ==
    /\ Len(burst) > 1 /\ burst[Len(burst)] \in Requests /\ Head(burst) \in Requests
    /\ Answered(burst[Len(burst)], "superseded")
    /\ burst' = SubSeq(burst, 1, Len(burst) - 1)
    /\ UNCHANGED <<givenVars, fileVars, lastHtml, editVars, clientVars, doc, newest, chan, download>>
Skip_EveryJob ==
    /\ Len(burst) > 1
    /\ IF Head(burst) \in Requests THEN Answered(Head(burst), "superseded") ELSE UNCHANGED <<reply, stage>>
    /\ burst' = Tail(burst)
    /\ UNCHANGED <<givenVars, fileVars, lastHtml, editVars, clientVars, doc, newest, chan, download>>

\* Only the last conversion of a burst runs.
Skip ==
    /\ burst # <<>> /\ Head(burst) \in Requests
    /\ Overtaken
    /\ Answered(Head(burst), "superseded")
    /\ burst' = Tail(burst)
    /\ UNCHANGED <<givenVars, fileVars, lastHtml, editVars, clientVars, doc, newest, chan, download>>

\* convert_one reads the files, whatever the frame carried ...
Read ==
    /\ burst # <<>> /\ Head(burst) \in Requests
    /\ ~Overtaken
    /\ reply[Head(burst)] = None
    /\ reply' = [reply EXCEPT ![Head(burst)] = "busy"]
    /\ doc' = [doc EXCEPT ![Head(burst)] = disk[Session(Head(burst))]]
    /\ UNCHANGED <<givenVars, fileVars, lastHtml, editVars, clientVars, stage, newest, chan, burst, download>>

\* ... and renders them; a panic is caught and answered as fatal.
Render ==
    /\ burst # <<>> /\ Head(burst) \in Requests
    /\ reply[Head(burst)] = "busy"
    /\ \E o \in Outcomes(doc[Head(burst)]) : Answered(Head(burst), o)
    /\ burst' = Tail(burst)
    /\ UNCHANGED <<givenVars, fileVars, lastHtml, editVars, clientVars, doc, newest, chan, download>>

-----------------------------------------------------------------------------
(* Archive jobs: the route archive_zip, and convert_one_archive, which all *)
(* run, whatever else is in the burst.                                     *)

givenToJobs == <<givenVars, fileVars, lastHtml, editVars, clientVars, stage, doc, reply, newest>>
Job(z, place) == download[z].at = place

Ask(z) ==
    /\ Job(z, "none")
    /\ download' = [download EXCEPT ![z].at = "queued", ![z].asked = disk[download[z].session]]
    /\ chan' = Append(chan, z)
    /\ UNCHANGED <<givenToJobs, burst>>

\* What the archive of z answers when it is made from v: what does not render,
\* does not pack or panics is answered with its log.
Packed(z, v) ==
    \E o \in Outcomes(v) :
        download' = [download EXCEPT ![z].at = IF o = "ok" THEN "packed" ELSE "unpacked",
                                     ![z].shows = v]

\* Mutant of Pack: the cached preview is packed.
Pack_Cached(z) ==
    /\ Job(z, "queued") /\ burst # <<>> /\ Head(burst) = z
    /\ Packed(z, IF lastHtml[download[z].session] # None THEN lastHtml[download[z].session]
                                                         ELSE disk[download[z].session])
    /\ burst' = Tail(burst)
    /\ UNCHANGED <<givenToJobs, chan>>

\* The main entry is read from disk and rendered anew, and packed with its
\* resources in a directory of its own.
Pack(z) ==
    /\ Job(z, "queued") /\ burst # <<>> /\ Head(burst) = z
    /\ Packed(z, disk[download[z].session])
    /\ burst' = Tail(burst)
    /\ UNCHANGED <<givenToJobs, chan>>

-----------------------------------------------------------------------------
(* onWsMessage.                                                            *)

\* Stale or superseded: forget the request, show nothing.
Ignore(k, id) ==
    /\ id < latestSeen[k] \/ reply[<<k, id>>] = "superseded"
    /\ sentAt' = [sentAt EXCEPT ![k] = @ \ {id}]
    /\ UNCHANGED <<latestSeen, view>>

ShowFatal(k, id) ==
    /\ id >= latestSeen[k] /\ reply[<<k, id>>] = "fatal"
    /\ latestSeen' = [latestSeen EXCEPT ![k] = id]
    /\ sentAt' = [sentAt EXCEPT ![k] = @ \ {id}]
    /\ UNCHANGED view

\* Mutants of ShowResult: a stale id is shown too, or the ids a silent cancel
\* left behind are not swept.
ShowResult_AnyId(k, id) ==
    /\ reply[<<k, id>>] = "ok"
    /\ latestSeen' = [latestSeen EXCEPT ![k] = id]
    /\ view' = [view EXCEPT ![k] = doc[<<k, id>>]]
    /\ sentAt' = [sentAt EXCEPT ![k] = {j \in @ : j > id}]
ShowResult_NoSweep(k, id) ==
    /\ id >= latestSeen[k] /\ reply[<<k, id>>] = "ok"
    /\ latestSeen' = [latestSeen EXCEPT ![k] = id]
    /\ view' = [view EXCEPT ![k] = doc[<<k, id>>]]
    /\ sentAt' = [sentAt EXCEPT ![k] = @ \ {id}]

ShowResult(k, id) ==
    /\ id >= latestSeen[k] /\ reply[<<k, id>>] = "ok"
    /\ latestSeen' = [latestSeen EXCEPT ![k] = id]
    /\ view' = [view EXCEPT ![k] = doc[<<k, id>>]]
    /\ sentAt' = [sentAt EXCEPT ![k] = {j \in @ : j > id}]

\* The response reaches the client, unless its connection broke.
Deliver(r) ==
    /\ stage[r] = "send"
    /\ stage' = [stage EXCEPT ![r] = "gone"]
    /\ IF r[2] <= cut[r[1]]
       THEN UNCHANGED <<latestSeen, view, sentAt>>
       ELSE Ignore(r[1], r[2]) \/ ShowFatal(r[1], r[2]) \/ ShowResult(r[1], r[2])
    /\ UNCHANGED <<givenVars, fileVars, lastHtml, editVars, due, frames, cut, doc, laneVars>>

-----------------------------------------------------------------------------
TaskStep(r) ==
    \/ Cancel(r)
    \/ GoWarm(r)
    \/ GoCold(r)
    \/ EngineReply(r)
    \/ Stash(r)
    \/ Deliver(r)

WorkerStep ==
    \/ Drain
    \/ Skip
    \/ Read
    \/ Render
    \/ \E z \in Downloads : Pack(z)

Next ==
    \/ \E k \in Tabs :
          \/ Save(k)
          \/ SaveInline(k)
          \/ \E v \in puts[k] : PutDone(k, v)
          \/ Clear(k)
          \/ Send(k)
          \/ Cut(k)
    \/ \E r \in Requests : TaskStep(r)
    \/ \E z \in Downloads : Ask(z)
    \/ WorkerStep

Spec == Init /\ [][Next]_vars

\* A PUT and its acknowledgement arrive, tokio polls woken tasks, the pool
\* answers or gives up, and a conversion ends.
Fairness ==
    /\ \A k \in Tabs : WF_vars(Send(k)) /\ WF_vars(\E v \in puts[k] : PutDone(k, v))
    /\ \A r \in Requests : WF_vars(TaskStep(r))
    /\ WF_vars(WorkerStep)

FairSpec == Spec /\ Fairness

-----------------------------------------------------------------------------
(* Properties.                                                             *)

Edits == 0..MaxEdits

\* The type invariant.
TypeOK ==
    /\ setup \in Setups
    /\ bound \in [Tabs -> Sessions]
    /\ edits \in [Sessions -> Edits]
    /\ disk \in [Sessions -> Edits \union {None}]
    /\ lastHtml \in [Sessions -> Edits \union {None}]
    /\ text \in [Tabs -> Edits]
    /\ puts \in [Tabs -> SUBSET Edits]
    /\ due \in [Tabs -> 0..MaxFrames]
    /\ frames \in [Tabs -> 0..MaxFrames]
    /\ latestSeen \in [Tabs -> 0..MaxFrames]
    /\ view \in [Tabs -> Edits \union {None}]
    /\ sentAt \in [Tabs -> SUBSET (1..MaxFrames)]
    /\ cut \in [Tabs -> 0..MaxFrames]
    /\ stage \in [Requests -> {"none", "start", "engine", "queued", "ready", "send", "gone",
                           "late"}]
    /\ doc \in [Requests -> Edits \union {None}]
    /\ reply \in [Requests -> {"ok", "fatal", "superseded", "busy", None}]
    /\ newest \in [Sessions -> Requests \union {None}]
    /\ chan \in Seq(Requests \union Downloads)
    /\ burst \in Seq(Requests \union Downloads)
    /\ download \in [Downloads -> [at : {"none", "queued", "packed", "unpacked"},
                                   session : Sessions, shows : Edits \union {None},
                                   asked : Edits \union {None}]]

\* One lane serves every conversion: there is no pool, or it is never passed by.
OneLane == ~setup.pool \/ (~setup.fallBack /\ ~MayClear)

\* Where one lane serves every conversion, a preview never goes back to an older
\* edit, whatever the order in which tasks, worker and sockets get to run. Between
\* two lanes it can: what a cancelled request reads late in the one may be newer
\* than what the request after it had read in the other (README.md, "stale convert
\* results can't overwrite a freshest preview").
NeverBackwards ==
    [][OneLane => \A k \in Tabs : view[k] # None => view'[k] >= view[k]]_vars

\* A request of the tab that was cancelled went on all the same, and the newest one
\* is answered "superseded" for it: nobody asks again before the next edit.
Preempted(k) ==
    /\ frames[k] > 0
    /\ reply[<<k, frames[k]>>] = "superseded"
    /\ \E id \in 1..(frames[k] - 1) : stage[<<k, id>>] = "late"

\* Whenever a user pauses, the preview shows the last edit of the tab, unless that
\* was preempted, and then it does after the next: nothing else between the requests
\* of one tab loses it, neither the two lanes, nor the worker's burst, nor a cancel.
\* (Edits are bounded, so that every behaviour ends in a pause.)
CatchesUp ==
    \A k \in Tabs : []<>((view[k] # None /\ view[k] >= text[k]) \/ Preempted(k))

\* The loading indicator goes off once the newest request has been answered, with
\* the same exception: "superseded" takes its own id off, and leaves those of the
\* cancelled requests before it.
IndicatorSettles == \A k \in Tabs : []<>(sentAt[k] = {} \/ Preempted(k))

\* "Archive jobs are one-shot - all run": a page that asks for an archive gets it,
\* or its log, however many conversions are in its burst.
DownloadAnswered ==
    \A z \in Downloads : download[z].at = "queued" ~> download[z].at \in {"packed", "unpacked"}

\* An archive never shows an older edit than the one that was saved when it was
\* asked for.
DownloadCurrent ==
    \A z \in Downloads : download[z].at = "packed" /\ download[z].asked # None =>
        download[z].shows >= download[z].asked
=============================================================================
