------------------------- MODULE LivePreviewProofs -------------------------
(***************************************************************************)
(* Proofs about LivePreview: its types, that a downloaded archive is as    *)
(* new as what was saved when it was asked for, and that where one lane    *)
(* serves every conversion a preview never goes back to an older edit.     *)
(***************************************************************************)
EXTENDS LivePreview, FiniteSetTheorems, SequenceTheorems, TLAPS

-----------------------------------------------------------------------------
(* The inductive invariants.                                               *)

\* What a tab has in flight is the session's last edit.
PutsCurrent == \A k \in Tabs : puts[k] \subseteq {edits[bound[k]]}

\* Frames sent, due, and due once a PUT is acknowledged: within the bound.
Budget ==
    \A k \in Tabs :
        frames[k] + due[k] + (IF setup.inline \/ puts[k] = {} THEN 0 ELSE 1) <= MaxFrames

PreviewTypes == TypeOK /\ PutsCurrent /\ Budget

\* Nothing shows an edit that was not made.
DiskPast == \A s \in Sessions : disk[s] # None => disk[s] <= edits[s]
DocPast  == \A r \in Requests : doc[r] # None => doc[r] <= edits[Session(r)]

\* An archive that is asked for finds what was saved then, or newer, or nothing.
DownloadPast(z) ==
    download[z].asked # None =>
        LET s == download[z].session IN
        /\ download[z].asked <= edits[s]
        /\ download[z].at = "queued" /\ disk[s] # None => download[z].asked <= disk[s]
        /\ download[z].at = "packed" => download[z].asked <= download[z].shows

DownloadsInv == DiskPast /\ \A z \in Downloads : DownloadPast(z)

\* Of two requests of a tab, the first was sent earlier.
Earlier(r, q) == r \in Requests /\ q \in Requests /\ r[1] = q[1] /\ r[2] < q[2]

\* Of two jobs in the queue: the requests of a tab are in the order of their ids,
\* but for those that came late, and none is there twice.
Ahead(r, q) ==
    {r, q} \subseteq Requests =>
        /\ r # q
        /\ r[1] = q[1] /\ "late" \notin {stage[r], stage[q]} => r[2] < q[2]

\* The worker takes the requests of a tab in the order of their ids.
QueueOrder ==
    /\ \A i, j \in 1..Len(burst) : i < j => Ahead(burst[i], burst[j])
    /\ \A i, j \in 1..Len(chan) : i < j => Ahead(chan[i], chan[j])
    /\ \A i \in 1..Len(burst), j \in 1..Len(chan) : Ahead(burst[i], chan[j])

Waits(r) == (\E i \in 1..Len(burst) : burst[i] = r) \/ (\E i \in 1..Len(chan) : chan[i] = r)

\* Where a request is agrees with its id, its document and its reply.
Placed(r) ==
    /\ stage[r] = "none" <=> r[2] > frames[r[1]]
    /\ stage[r] = "none" => doc[r] = None
    /\ stage[r] = "engine" => setup.pool
    /\ stage[r] \in {"none", "start", "engine"} => reply[r] = None
    /\ reply[r] = "ok" => doc[r] # None
    /\ Waits(r) => reply[r] \in {None, "busy"} /\ stage[r] \in {"queued", "gone", "late"}

\* A request whose source is known: the edit that its result will show. What comes
\* late has no result.
Known(r) == doc[r] # None /\ stage[r] # "late" /\ (setup.pool \/ reply[r] \in {"busy", "ok"})

\* Without a pool, what the worker has read is behind it.
WorkerInOrder ==
    ~setup.pool => \A r, q \in Requests :
        Earlier(r, q) /\ "late" \notin {stage[r], stage[q]} /\ reply[q] \in {"busy", "ok"} => ~Waits(r)

\* With nothing but the pool, the worker sees no conversion, and only the boot
\* frame of a single document leaves its text to the disk.
PoolOnly ==
    setup.pool /\ OneLane =>
        /\ \A s \in Sessions : disk[s] # None
        /\ \A r \in Requests : ~Waits(r)
BootFirst ==
    setup.inline => \A k \in Tabs :
        /\ due[k] > 0 => frames[k] = 0
        /\ due[k] <= 1
        /\ setup.pool /\ OneLane => \A i \in 2..MaxFrames : i <= frames[k] => doc[<<k, i>>] # None

\* What a request has read from disk is not newer than the disk.
ReadPast ==
    OneLane /\ ~(setup.pool /\ setup.inline) =>
        \A r \in Requests : Known(r) /\ disk[Session(r)] # None => doc[r] <= disk[Session(r)]

\* Results of a tab are in the order of their requests.
ResultsInOrder ==
    OneLane => \A r, q \in Requests : Earlier(r, q) /\ Known(r) /\ Known(q) => doc[r] <= doc[q]

\* The preview is a result, and no newer than the last id that was shown.
ViewIsResult ==
    \A k \in Tabs : view[k] # None =>
        \E m \in 1..MaxFrames : /\ m <= latestSeen[k] /\ reply[<<k, m>>] = "ok"
                                /\ stage[<<k, m>>] # "late" /\ doc[<<k, m>>] = view[k]

QueueInv  == QueueOrder /\ \A r \in Requests : Placed(r)
LaneInv   == WorkerInOrder /\ PoolOnly /\ BootFirst
ResultInv == DocPast /\ ReadPast /\ ResultsInOrder /\ ViewIsResult
PreviewInv == PreviewTypes /\ DownloadsInv /\ QueueInv /\ LaneInv /\ ResultInv

-----------------------------------------------------------------------------
(* Types.                                                                  *)

\* A request is a pair of a tab and an id.
LEMMA RequestPairs ==
    /\ \A r \in Requests : r[1] \in Tabs /\ r[2] \in 1..MaxFrames /\ r = <<r[1], r[2]>>
    /\ \A k \in Tabs, i \in 1..MaxFrames :
          <<k, i>> \in Requests /\ <<k, i>>[1] = k /\ <<k, i>>[2] = i
  BY PreviewConstantsAssumption DEF Requests

\* The session of a request, and its source.
LEMMA SourceTypes ==
    ASSUME TypeOK, NEW r \in Requests
    PROVE  Session(r) \in Sessions /\ Source(r) \in Edits \union {None}
  <1>1. Session(r) \in Sessions
    BY RequestPairs DEF TypeOK, Session
  <1>2. doc[r] \in Edits \union {None} /\ disk[Session(r)] \in Edits \union {None}
    BY <1>1 DEF TypeOK
  <1> QED
    BY <1>1, <1>2 DEF Source

\* A tab that may edit has nothing in flight, and its edit and frame are within
\* the bounds.
LEMMA StampTypes ==
    ASSUME PreviewTypes, NEW k \in Tabs, MayEdit(k)
    PROVE  /\ bound[k] \in Sessions
           /\ edits[bound[k]] \in Nat
           /\ Stamp(k) = edits[bound[k]] + 1
           /\ Stamp(k) \in Edits
           /\ \A j \in Tabs : bound[j] = bound[k] => puts[j] = {}
           /\ frames[k] + due[k] < MaxFrames
  <1>1. bound[k] \in Sessions /\ edits[bound[k]] \in Edits
    BY DEF PreviewTypes, TypeOK
  <1>2. /\ \A j \in Tabs : bound[j] = bound[k] => puts[j] = {}
        /\ edits[bound[k]] < MaxEdits
        /\ frames[k] + due[k] + (IF setup.inline THEN 0 ELSE Cardinality(puts[k])) < MaxFrames
    BY DEF MayEdit
  <1>3. Cardinality(puts[k]) = 0
    BY <1>2, FS_EmptySet
  <1>4. frames[k] \in 0..MaxFrames /\ due[k] \in 0..MaxFrames
    BY DEF PreviewTypes, TypeOK
  <1>5. frames[k] + due[k] < MaxFrames
    BY <1>2, <1>3, <1>4, PreviewConstantsAssumption
  <1> QED
    BY <1>1, <1>2, <1>5, PreviewConstantsAssumption DEF Edits, Stamp

\* An outcome is "ok" or "fatal", and "ok" only for a source that is there.
LEMMA OutcomeTypes ==
    ASSUME NEW v, NEW o \in Outcomes(v)
    PROVE  o \in {"ok", "fatal"} /\ (o = "ok" => v # None)
  BY DEF Outcomes

\* The head of a burst is one of its jobs, and the tail keeps the others.
LEMMA BurstTypes ==
    ASSUME TypeOK, burst # <<>>
    PROVE  /\ Len(burst) \in Nat /\ Len(burst) > 0
           /\ Head(burst) = burst[1]
           /\ Head(burst) \in Requests \union Downloads
           /\ Tail(burst) \in Seq(Requests \union Downloads)
           /\ Len(Tail(burst)) = Len(burst) - 1
           /\ \A i \in 1..Len(Tail(burst)) : Tail(burst)[i] = burst[i + 1]
  <1> DEFINE Jobs == Requests \union Downloads
  <1>1. burst \in Seq(Jobs)
    BY DEF TypeOK
  <1> HIDE DEF Jobs
  <1>2. Len(burst) \in Nat /\ Len(burst) > 0
    BY <1>1, EmptySeq
  <1>3. /\ Head(burst) \in Jobs /\ Tail(burst) \in Seq(Jobs) /\ Len(Tail(burst)) = Len(burst) - 1
        /\ \A i \in 1..Len(Tail(burst)) : Tail(burst)[i] = burst[i + 1]
    BY <1>1, HeadTailProperties
  <1>4. Head(burst) = burst[1]
    BY <1>1
  <1> QED
    BY <1>2, <1>3, <1>4 DEF Jobs

\* The next frame of a tab that is below the bound.
LEMMA FrameTypes ==
    ASSUME TypeOK, NEW k \in Tabs, frames[k] < MaxFrames, NEW x \in Edits \union {None},
           SendFrame(k, x)
    PROVE  LET r == <<k, frames[k] + 1>> IN
           /\ r \in Requests /\ r[1] = k /\ r[2] = frames[k] + 1
           /\ frames' \in [Tabs -> 0..MaxFrames]
           /\ sentAt' \in [Tabs -> SUBSET (1..MaxFrames)]
           /\ stage' \in [Requests -> {"none", "start", "engine", "queued", "ready", "send", "gone", "late"}]
           /\ doc' \in [Requests -> Edits \union {None}]
           /\ frames' = [frames EXCEPT ![k] = frames[k] + 1]
           /\ stage' = [stage EXCEPT ![r] = "start"]
           /\ doc' = [doc EXCEPT ![r] = x]
  <1> DEFINE r == <<k, frames[k] + 1>>
  <1>1. frames[k] \in 0..MaxFrames /\ frames[k] + 1 \in 1..MaxFrames
    BY PreviewConstantsAssumption DEF TypeOK
  <1>2. r \in Requests /\ r[1] = k /\ r[2] = frames[k] + 1
    BY <1>1, RequestPairs
  <1>3. frames' = [frames EXCEPT ![k] = frames[k] + 1] /\ frames'[k] = frames[k] + 1
    BY DEF TypeOK, SendFrame
  <1>4. /\ stage' = [stage EXCEPT ![r] = "start"] /\ doc' = [doc EXCEPT ![r] = x]
        /\ sentAt' = [sentAt EXCEPT ![k] = @ \union {frames[k] + 1}]
    BY <1>3 DEF SendFrame
  <1>5. frames' \in [Tabs -> 0..MaxFrames]
    BY <1>1, <1>3, PreviewConstantsAssumption DEF TypeOK
  <1>6. sentAt' \in [Tabs -> SUBSET (1..MaxFrames)]
    BY <1>1, <1>4 DEF TypeOK
  <1>7. stage' \in [Requests -> {"none", "start", "engine", "queued", "ready", "send", "gone", "late"}]
    BY <1>2, <1>4 DEF TypeOK
  <1>8. doc' \in [Requests -> Edits \union {None}]
    BY <1>2, <1>4 DEF TypeOK
  <1> QED
    BY <1>2, <1>3, <1>4, <1>5, <1>6, <1>7, <1>8

\* Every step keeps the types: a stamp is an edit, an id is a frame.
LEMMA TypesNext == PreviewTypes /\ [Next]_vars => PreviewTypes'
  <1> SUFFICES ASSUME PreviewTypes, [Next]_vars
               PROVE  PreviewTypes'
    OBVIOUS
  <1>0. MaxFrames \in Nat /\ MaxEdits \in Nat
    BY PreviewConstantsAssumption
  <1> USE <1>0 DEF Edits, givenVars, fileVars, editVars, clientVars, laneVars, givenToJobs
  <1>1. ASSUME NEW k \in Tabs, Save(k)  PROVE PreviewTypes'
    <2>1. /\ ~setup.inline /\ edits' = [edits EXCEPT ![bound[k]] = Stamp(k)]
          /\ text' = [text EXCEPT ![k] = Stamp(k)] /\ puts' = [puts EXCEPT ![k] = @ \union {Stamp(k)}]
          /\ UNCHANGED <<setup, bound, disk, lastHtml, due, frames, latestSeen, view, sentAt, cut,
                         stage, doc, reply, newest, chan, burst, download>>
      BY <1>1 DEF Save
    <2>2. /\ bound[k] \in Sessions /\ Stamp(k) \in Edits
          /\ \A j \in Tabs : bound[j] = bound[k] => puts[j] = {}
          /\ frames[k] + due[k] < MaxFrames
      BY <1>1, StampTypes DEF Save
    <2>3. edits' \in [Sessions -> Edits] /\ text' \in [Tabs -> Edits]
      BY <2>1, <2>2 DEF PreviewTypes, TypeOK
    <2>4. puts' \in [Tabs -> SUBSET Edits]
      BY <2>1, <2>2 DEF PreviewTypes, TypeOK
    <2>5. PutsCurrent'
      BY <2>1, <2>2 DEF PreviewTypes, PutsCurrent, TypeOK
    <2>6. \A j \in Tabs : frames[j] \in Nat /\ due[j] \in Nat
      BY DEF PreviewTypes, TypeOK
    <2>7. \A j \in Tabs : j # k => puts'[j] = puts[j]
      BY <2>1 DEF PreviewTypes, TypeOK
    <2>8. TypeOK'
      BY <2>1, <2>3, <2>4 DEF PreviewTypes, TypeOK
    <2>9. PutsCurrent' /\ Budget'
      BY <2>1, <2>2, <2>5, <2>6, <2>7 DEF PreviewTypes, Budget
    <2> QED
      BY <2>8, <2>9 DEF PreviewTypes
  <1>2. ASSUME NEW k \in Tabs, SaveInline(k)  PROVE PreviewTypes'
    <2>1. /\ setup.inline /\ edits' = [edits EXCEPT ![bound[k]] = Stamp(k)]
          /\ text' = [text EXCEPT ![k] = Stamp(k)] /\ puts' = [puts EXCEPT ![k] = @ \union {Stamp(k)}]
          /\ UNCHANGED <<setup, bound, disk, lastHtml, due, latestSeen, view, cut,
                         reply, newest, chan, burst, download>>
          /\ SendFrame(k, Stamp(k))
      BY <1>2 DEF SaveInline
    <2>2. /\ bound[k] \in Sessions /\ Stamp(k) \in Edits
          /\ \A j \in Tabs : bound[j] = bound[k] => puts[j] = {}
          /\ frames[k] + due[k] < MaxFrames
      BY <1>2, StampTypes DEF SaveInline
    <2>3. edits' \in [Sessions -> Edits] /\ text' \in [Tabs -> Edits]
      BY <2>1, <2>2 DEF PreviewTypes, TypeOK
    <2>4. puts' \in [Tabs -> SUBSET Edits]
      BY <2>1, <2>2 DEF PreviewTypes, TypeOK
    <2>5. PutsCurrent'
      BY <2>1, <2>2 DEF PreviewTypes, PutsCurrent, TypeOK
    <2>6. \A j \in Tabs : frames[j] \in Nat /\ due[j] \in Nat
      BY DEF PreviewTypes, TypeOK
    <2>7. /\ frames' = [frames EXCEPT ![k] = frames[k] + 1] /\ frames' \in [Tabs -> 0..MaxFrames]
          /\ sentAt' \in [Tabs -> SUBSET (1..MaxFrames)]
          /\ stage' \in [Requests -> {"none", "start", "engine", "queued", "ready", "send", "gone", "late"}]
          /\ doc' \in [Requests -> Edits \union {None}]
      <3>1. TypeOK /\ Stamp(k) \in Edits \union {None}
        BY <2>2 DEF PreviewTypes
      <3>2. frames[k] < MaxFrames
        <4>1. frames[k] \in Nat /\ due[k] \in Nat /\ frames[k] + due[k] < MaxFrames
          BY <2>2, <2>6
        <4> QED
          BY <4>1, PreviewConstantsAssumption
      <3> QED
        BY <3>1, <3>2, <2>1, FrameTypes
    <2>8. TypeOK'
      BY <2>1, <2>3, <2>4, <2>7 DEF PreviewTypes, TypeOK
    <2>9. PutsCurrent' /\ Budget'
      BY <2>1, <2>2, <2>5, <2>6, <2>7 DEF PreviewTypes, Budget, TypeOK
    <2> QED
      BY <2>8, <2>9 DEF PreviewTypes
  <1>3. ASSUME NEW k \in Tabs, NEW v \in puts[k], PutDone(k, v)  PROVE PreviewTypes'
    <2>1. /\ v \in puts[k] /\ puts' = [puts EXCEPT ![k] = @ \ {v}]
          /\ disk' = [disk EXCEPT ![bound[k]] = v]
          /\ due' = IF setup.inline THEN due ELSE [due EXCEPT ![k] = @ + 1]
          /\ UNCHANGED <<setup, bound, edits, lastHtml, text, frames, latestSeen, view, sentAt, cut,
                         stage, doc, reply, newest, chan, burst, download>>
      BY <1>3 DEF PutDone
    <2>2. /\ bound[k] \in Sessions /\ v \in Edits /\ puts[k] = {v}
          /\ \A j \in Tabs : frames[j] \in Nat /\ due[j] \in Nat
      BY <2>1 DEF PreviewTypes, TypeOK, PutsCurrent
    <2>3. puts' = [puts EXCEPT ![k] = {}]
      BY <2>1, <2>2
    <2>4. puts' \in [Tabs -> SUBSET Edits]
      BY <2>3 DEF PreviewTypes, TypeOK
    <2>5. disk' \in [Sessions -> Edits \union {None}]
      BY <2>1, <2>2 DEF PreviewTypes, TypeOK
    <2>6. PutsCurrent'
      BY <2>1, <2>3 DEF PreviewTypes, TypeOK, PutsCurrent
    <2>7. due' \in [Tabs -> 0..MaxFrames] /\ Budget'
      <3>1. CASE setup.inline
        BY <3>1, <2>1, <2>2, <2>3 DEF PreviewTypes, TypeOK, Budget
      <3>2. CASE ~setup.inline
        <4>1. frames[k] + due[k] + 1 <= MaxFrames
          BY <3>2, <2>2 DEF PreviewTypes, Budget
        <4>2. due' = [due EXCEPT ![k] = due[k] + 1] /\ due[k] + 1 \in 0..MaxFrames
          BY <3>2, <2>1, <2>2, <4>1
        <4>3. due' \in [Tabs -> 0..MaxFrames]
          BY <4>2 DEF PreviewTypes, TypeOK
        <4>4. /\ puts'[k] = {} /\ due'[k] = due[k] + 1
              /\ \A j \in Tabs : j # k => puts'[j] = puts[j] /\ due'[j] = due[j]
          BY <2>3, <4>2 DEF PreviewTypes, TypeOK
        <4>5. Budget'
          BY <2>1, <2>2, <4>1, <4>4 DEF PreviewTypes, Budget
        <4> QED
          BY <4>3, <4>5
      <3> QED
        BY <3>1, <3>2
    <2>8. TypeOK'
      BY <2>1, <2>4, <2>5, <2>7 DEF PreviewTypes, TypeOK
    <2>9. PutsCurrent' /\ Budget'
      BY <2>6, <2>7
    <2> QED
      BY <2>8, <2>9 DEF PreviewTypes
  <1>4. ASSUME NEW k \in Tabs, Clear(k)  PROVE PreviewTypes'
    <2>1. TypeOK'
      BY <1>4, StampTypes DEF PreviewTypes, TypeOK, Clear
    <2>2. PutsCurrent' /\ Budget'
      BY <1>4, StampTypes DEF PreviewTypes, TypeOK, PutsCurrent, Budget, Clear
    <2> QED
      BY <2>1, <2>2 DEF PreviewTypes
  <1>5. ASSUME NEW k \in Tabs, Send(k)  PROVE PreviewTypes'
    <2>1. /\ due[k] > 0 /\ due' = [due EXCEPT ![k] = @ - 1] /\ SendFrame(k, None)
          /\ UNCHANGED <<setup, bound, edits, disk, lastHtml, text, puts, latestSeen, view, cut,
                         reply, newest, chan, burst, download>>
      BY <1>5 DEF Send
    <2>2. \A j \in Tabs : frames[j] \in Nat /\ due[j] \in 0..MaxFrames
      BY DEF PreviewTypes, TypeOK
    <2>3. frames[k] < MaxFrames
      BY <2>1, <2>2 DEF PreviewTypes, Budget
    <2>4. /\ frames' = [frames EXCEPT ![k] = frames[k] + 1] /\ frames' \in [Tabs -> 0..MaxFrames]
          /\ sentAt' \in [Tabs -> SUBSET (1..MaxFrames)]
          /\ stage' \in [Requests -> {"none", "start", "engine", "queued", "ready", "send", "gone", "late"}]
          /\ doc' \in [Requests -> Edits \union {None}]
      BY <2>1, <2>3, FrameTypes DEF PreviewTypes
    <2>5. due' \in [Tabs -> 0..MaxFrames]
      BY <2>1, <2>2 DEF PreviewTypes, TypeOK
    <2>8. TypeOK'
      BY <2>1, <2>4, <2>5 DEF PreviewTypes, TypeOK
    <2>6. frames'[k] + due'[k] = frames[k] + due[k]
      BY <2>1, <2>2, <2>4 DEF PreviewTypes, TypeOK
    <2>7. \A j \in Tabs : j # k => frames'[j] = frames[j] /\ due'[j] = due[j]
      BY <2>1, <2>4 DEF PreviewTypes, TypeOK
    <2>9. PutsCurrent' /\ Budget'
      BY <2>1, <2>2, <2>6, <2>7 DEF PreviewTypes, PutsCurrent, Budget
    <2> QED
      BY <2>8, <2>9 DEF PreviewTypes
  <1>6. ASSUME NEW k \in Tabs, Cut(k)  PROVE PreviewTypes'
    <2>1. TypeOK'
      BY <1>6 DEF PreviewTypes, TypeOK, Cut
    <2>2. PutsCurrent' /\ Budget'
      BY <1>6 DEF PreviewTypes, TypeOK, PutsCurrent, Budget, Cut
    <2> QED
      BY <2>1, <2>2 DEF PreviewTypes
  <1>7. ASSUME NEW r \in Requests, Cancel(r)  PROVE PreviewTypes'
    <2>1. TypeOK'
      BY <1>7 DEF PreviewTypes, TypeOK, Cancel
    <2>2. PutsCurrent' /\ Budget'
      BY <1>7 DEF PreviewTypes, TypeOK, PutsCurrent, Budget, Cancel
    <2> QED
      BY <2>1, <2>2 DEF PreviewTypes
  <1>8. ASSUME NEW r \in Requests, GoWarm(r)  PROVE PreviewTypes'
    <2>1. TypeOK'
      BY <1>8, SourceTypes DEF PreviewTypes, TypeOK, GoWarm, GoesOn
    <2>2. PutsCurrent' /\ Budget'
      BY <1>8, SourceTypes DEF PreviewTypes, TypeOK, PutsCurrent, Budget, GoWarm, GoesOn
    <2> QED
      BY <2>1, <2>2 DEF PreviewTypes
  <1>9. ASSUME NEW r \in Requests, GoCold(r)  PROVE PreviewTypes'
    <2>1. TypeOK'
      BY <1>9 DEF PreviewTypes, TypeOK, GoCold, GoesOn
    <2>2. PutsCurrent' /\ Budget'
      BY <1>9 DEF PreviewTypes, TypeOK, PutsCurrent, Budget, GoCold, GoesOn
    <2> QED
      BY <2>1, <2>2 DEF PreviewTypes
  <1>10. ASSUME NEW r \in Requests, EngineReply(r)  PROVE PreviewTypes'
    <2>1. PICK o \in Outcomes(doc[r]) \union (IF newest[Session(r)] # r THEN {"superseded"} ELSE {}) :
             reply' = [reply EXCEPT ![r] = o]
      BY <1>10 DEF EngineReply
    <2>2. /\ stage' = [stage EXCEPT ![r] = "ready"]
          /\ UNCHANGED <<setup, bound, edits, disk, lastHtml, text, puts, due, frames, latestSeen, view,
                         sentAt, cut, doc, newest, chan, burst, download>>
      BY <1>10 DEF EngineReply
    <2>3. reply' \in [Requests -> {"ok", "fatal", "superseded", "busy", None}]
      BY <2>1, OutcomeTypes DEF PreviewTypes, TypeOK
    <2>8. TypeOK'
      BY <2>2, <2>3 DEF PreviewTypes, TypeOK
    <2>9. PutsCurrent' /\ Budget'
      BY <2>2 DEF PreviewTypes, PutsCurrent, Budget
    <2> QED
      BY <2>8, <2>9 DEF PreviewTypes
  <1>11. ASSUME NEW r \in Requests, Stash(r)  PROVE PreviewTypes'
    <2>1. TypeOK'
      BY <1>11, SourceTypes DEF PreviewTypes, TypeOK, Stash
    <2>2. PutsCurrent' /\ Budget'
      BY <1>11, SourceTypes DEF PreviewTypes, TypeOK, PutsCurrent, Budget, Stash
    <2> QED
      BY <2>1, <2>2 DEF PreviewTypes
  <1>12. ASSUME NEW r \in Requests, Deliver(r)  PROVE PreviewTypes'
    <2>1. /\ stage' = [stage EXCEPT ![r] = "gone"]
          /\ UNCHANGED <<setup, bound, edits, disk, lastHtml, text, puts, due, frames, cut, doc,
                         reply, newest, chan, burst, download>>
          /\ \/ UNCHANGED <<latestSeen, view, sentAt>>
             \/ Ignore(r[1], r[2]) \/ ShowFatal(r[1], r[2]) \/ ShowResult(r[1], r[2])
      BY <1>12 DEF Deliver
    <2>2. r[1] \in Tabs /\ r[2] \in 1..MaxFrames /\ doc[<<r[1], r[2]>>] \in Edits \union {None}
      BY RequestPairs DEF PreviewTypes, TypeOK
    <2>3. latestSeen' \in [Tabs -> 0..MaxFrames]
      <3>1. latestSeen' = latestSeen \/ latestSeen' = [latestSeen EXCEPT ![r[1]] = r[2]]
        BY <2>1 DEF Ignore, ShowFatal, ShowResult
      <3>2. latestSeen \in [Tabs -> 0..MaxFrames] /\ r[2] \in 0..MaxFrames
        BY <2>2, PreviewConstantsAssumption DEF PreviewTypes, TypeOK
      <3> QED
        BY <3>1, <3>2, <2>2
    <2>4. view' \in [Tabs -> Edits \union {None}]
      BY <2>1, <2>2 DEF PreviewTypes, TypeOK, Ignore, ShowFatal, ShowResult
    <2>5. sentAt' \in [Tabs -> SUBSET (1..MaxFrames)]
      <3>1. \/ sentAt' = sentAt
            \/ sentAt' = [sentAt EXCEPT ![r[1]] = @ \ {r[2]}]
            \/ sentAt' = [sentAt EXCEPT ![r[1]] = {j \in @ : j > r[2]}]
        BY <2>1 DEF Ignore, ShowFatal, ShowResult
      <3>2. sentAt[r[1]] \subseteq 1..MaxFrames
        BY <2>2 DEF PreviewTypes, TypeOK
      <3>3. {j \in sentAt[r[1]] : j > r[2]} \subseteq 1..MaxFrames
        BY <3>2
      <3>4. sentAt \in [Tabs -> SUBSET (1..MaxFrames)]
        BY DEF PreviewTypes, TypeOK
      <3> QED
        BY <3>1, <3>2, <3>3, <3>4, <2>2
    <2>8. TypeOK'
      BY <2>1, <2>3, <2>4, <2>5 DEF PreviewTypes, TypeOK
    <2>9. PutsCurrent' /\ Budget'
      BY <2>1 DEF PreviewTypes, PutsCurrent, Budget
    <2> QED
      BY <2>8, <2>9 DEF PreviewTypes
  <1>13. ASSUME NEW z \in Downloads, Ask(z)  PROVE PreviewTypes'
    <2>1. /\ download' = [download EXCEPT ![z].at = "queued", ![z].asked = disk[download[z].session]]
          /\ chan' = Append(chan, z)
          /\ UNCHANGED <<setup, bound, edits, disk, lastHtml, text, puts, due, frames, latestSeen, view,
                         sentAt, cut, stage, doc, reply, newest, burst>>
      BY <1>13 DEF Ask
    <2>2. disk[download[z].session] \in Edits \union {None}
      BY DEF PreviewTypes, TypeOK
    <2>3. download' \in [Downloads -> [at : {"none", "queued", "packed", "unpacked"},
                                       session : Sessions, shows : Edits \union {None},
                                       asked : Edits \union {None}]]
      <3>1. download' = [download EXCEPT ![z] = [download[z] EXCEPT
                            !.at = "queued", !.asked = disk[download[z].session]]]
        BY <2>1 DEF PreviewTypes, TypeOK
      <3>2. download \in [Downloads -> [at : {"none", "queued", "packed", "unpacked"},
                                       session : Sessions, shows : Edits \union {None},
                                       asked : Edits \union {None}]]
        BY DEF PreviewTypes, TypeOK
      <3> QED
        BY <3>1, <3>2, <2>2
    <2>4. chan' \in Seq(Requests \union Downloads)
      BY <2>1, AppendProperties DEF PreviewTypes, TypeOK
    <2>8. TypeOK'
      BY <2>1, <2>3, <2>4 DEF PreviewTypes, TypeOK
    <2>9. PutsCurrent' /\ Budget'
      BY <2>1 DEF PreviewTypes, PutsCurrent, Budget
    <2> QED
      BY <2>8, <2>9 DEF PreviewTypes
  <1>14. ASSUME Drain  PROVE PreviewTypes'
    <2>1. TypeOK'
      BY <1>14 DEF PreviewTypes, TypeOK, Drain
    <2>2. PutsCurrent' /\ Budget'
      BY <1>14 DEF PreviewTypes, TypeOK, PutsCurrent, Budget, Drain
    <2> QED
      BY <2>1, <2>2 DEF PreviewTypes
  <1>15. ASSUME Skip  PROVE PreviewTypes'
    <2>1. TypeOK'
      BY <1>15, BurstTypes DEF PreviewTypes, TypeOK, Skip, Answered
    <2>2. PutsCurrent' /\ Budget'
      BY <1>15, BurstTypes DEF PreviewTypes, TypeOK, PutsCurrent, Budget, Skip, Answered
    <2> QED
      BY <2>1, <2>2 DEF PreviewTypes
  <1>16. ASSUME Read  PROVE PreviewTypes'
    <2>1. TypeOK'
      BY <1>16, BurstTypes, SourceTypes DEF PreviewTypes, TypeOK, Read
    <2>2. PutsCurrent' /\ Budget'
      BY <1>16, BurstTypes, SourceTypes DEF PreviewTypes, TypeOK, PutsCurrent, Budget, Read
    <2> QED
      BY <2>1, <2>2 DEF PreviewTypes
  <1>17. ASSUME Render  PROVE PreviewTypes'
    <2> DEFINE h == Head(burst)
    <2>1. h \in Requests /\ Tail(burst) \in Seq(Requests \union Downloads)
      BY <1>17, BurstTypes DEF Render, PreviewTypes
    <2>2. PICK o \in Outcomes(doc[h]) : reply' = [reply EXCEPT ![h] = o]
      BY <1>17 DEF Render, Answered
    <2>3. /\ stage' = [stage EXCEPT ![h] = IF @ = "queued" THEN "ready" ELSE @]
          /\ burst' = Tail(burst)
          /\ UNCHANGED <<setup, bound, edits, disk, lastHtml, text, puts, due, frames, latestSeen, view,
                         sentAt, cut, doc, newest, chan, download>>
      BY <1>17 DEF Render, Answered
    <2> HIDE DEF h
    <2>4. reply' \in [Requests -> {"ok", "fatal", "superseded", "busy", None}]
      BY <2>1, <2>2, OutcomeTypes DEF PreviewTypes, TypeOK
    <2>5. stage' \in [Requests -> {"none", "start", "engine", "queued", "ready", "send", "gone", "late"}]
      BY <2>1, <2>3 DEF PreviewTypes, TypeOK
    <2>8. TypeOK'
      BY <2>1, <2>3, <2>4, <2>5 DEF PreviewTypes, TypeOK
    <2>9. PutsCurrent' /\ Budget'
      BY <2>3 DEF PreviewTypes, PutsCurrent, Budget
    <2> QED
      BY <2>8, <2>9 DEF PreviewTypes
  <1>18. ASSUME NEW z \in Downloads, Pack(z)  PROVE PreviewTypes'
    <2>1. PICK o \in Outcomes(disk[download[z].session]) :
             download' = [download EXCEPT ![z].at = IF o = "ok" THEN "packed" ELSE "unpacked",
                                          ![z].shows = disk[download[z].session]]
      BY <1>18 DEF Pack, Packed
    <2>2. /\ burst # <<>> /\ burst' = Tail(burst)
          /\ UNCHANGED <<setup, bound, edits, disk, lastHtml, text, puts, due, frames, latestSeen, view,
                         sentAt, cut, stage, doc, reply, newest, chan>>
      BY <1>18 DEF Pack
    <2>3. disk[download[z].session] \in Edits \union {None}
      BY DEF PreviewTypes, TypeOK
    <2>4. download' \in [Downloads -> [at : {"none", "queued", "packed", "unpacked"},
                                       session : Sessions, shows : Edits \union {None},
                                       asked : Edits \union {None}]]
      <3>1. download' = [download EXCEPT ![z] = [download[z] EXCEPT
                            !.at = IF o = "ok" THEN "packed" ELSE "unpacked",
                            !.shows = disk[download[z].session]]]
        BY <2>1 DEF PreviewTypes, TypeOK
      <3>2. download \in [Downloads -> [at : {"none", "queued", "packed", "unpacked"},
                                       session : Sessions, shows : Edits \union {None},
                                       asked : Edits \union {None}]]
        BY DEF PreviewTypes, TypeOK
      <3> DEFINE at == IF o = "ok" THEN "packed" ELSE "unpacked"
      <3>3. at \in {"packed", "unpacked"}
        OBVIOUS
      <3>4. download' = [download EXCEPT ![z] =
                            [download[z] EXCEPT !.at = at, !.shows = disk[download[z].session]]]
        BY <3>1
      <3> HIDE DEF at
      <3> QED
        BY <3>2, <3>3, <3>4, <2>3
    <2>5. burst' \in Seq(Requests \union Downloads)
      BY <2>2, BurstTypes DEF PreviewTypes
    <2>8. TypeOK'
      BY <2>2, <2>4, <2>5 DEF PreviewTypes, TypeOK
    <2>9. PutsCurrent' /\ Budget'
      BY <2>2 DEF PreviewTypes, PutsCurrent, Budget
    <2> QED
      BY <2>8, <2>9 DEF PreviewTypes
  <1>19. CASE UNCHANGED vars
    BY <1>19 DEF vars, PreviewTypes, TypeOK, PutsCurrent, Budget
  <1> QED
    BY <1>1, <1>2, <1>3, <1>4, <1>5, <1>6, <1>7, <1>8, <1>9, <1>10, <1>11, <1>12, <1>13, <1>14, <1>15, <1>16, <1>17, <1>18, <1>19 DEF Next, TaskStep, WorkerStep

\* The first state has the types.
LEMMA TypesInit == Init => PreviewTypes
  <1> SUFFICES ASSUME Init PROVE PreviewTypes
    OBVIOUS
  <1>1. MaxFrames \in Nat /\ MaxFrames >= 1 /\ 0 \in Edits
    BY PreviewConstantsAssumption DEF Edits
  <1>2. /\ burst \in Seq(Requests \union Downloads)
        /\ chan \in Seq(Requests \union Downloads)
    BY EmptySeq DEF Init
  <1>3. download \in [Downloads -> [at : {"none", "queued", "packed", "unpacked"},
                                   session : Sessions, shows : Edits \union {None},
                                   asked : Edits \union {None}]]
    BY DEF Init
  <1>4. TypeOK
    BY <1>1, <1>2, <1>3 DEF Init, TypeOK
  <1>5. PutsCurrent /\ Budget
    BY <1>1 DEF Init, PutsCurrent, Budget
  <1> QED
    BY <1>4, <1>5 DEF PreviewTypes

\* The types, with what is in flight and what is due.
LEMMA TypesAlways == Spec => []PreviewTypes
  BY TypesInit, TypesNext, PTL DEF Spec

\* Every variable of the preview holds a value of its kind: frames stay within
\* the ids of a tab, edits within those that were made.
THEOREM PreviewTypeCorrect == Spec => []TypeOK
  <1>1. PreviewTypes => TypeOK
    BY DEF PreviewTypes
  <1> QED
    BY <1>1, TypesAlways, PTL

-----------------------------------------------------------------------------
(* Downloads.                                                              *)

\* The edits of a session only grow.
LEMMA EditsGrow ==
    ASSUME PreviewTypes, NEW k \in Tabs, MayEdit(k),
           edits' = [edits EXCEPT ![bound[k]] = Stamp(k)]
    PROVE  \A s \in Sessions : edits[s] \in Nat /\ edits'[s] \in Nat /\ edits[s] <= edits'[s]
  <1>1. \A s \in Sessions : edits[s] \in Nat
    BY PreviewConstantsAssumption DEF PreviewTypes, TypeOK, Edits
  <1>2. \A s \in Sessions : edits'[s] = IF s = bound[k] THEN edits[s] + 1 ELSE edits[s]
    BY StampTypes DEF PreviewTypes, TypeOK
  <1> QED
    BY <1>1, <1>2

\* What the numbers of edits are compared with.
LEMMA StampsComparable ==
    ASSUME PreviewTypes
    PROVE  /\ \A s \in Sessions : edits[s] \in Nat /\ disk[s] \in Nat \union {None}
           /\ \A r \in Requests : doc[r] \in Nat \union {None}
           /\ \A z \in Downloads :
                /\ download[z].session \in Sessions
                /\ download[z].asked \in Nat \union {None}
                /\ download[z].shows \in Nat \union {None}
  BY PreviewConstantsAssumption DEF PreviewTypes, TypeOK, Edits

\* The PUT in flight carries the last edit.
LEMMA PutIsCurrent ==
    ASSUME PreviewTypes, NEW k \in Tabs, NEW v \in puts[k], PutDone(k, v)
    PROVE  /\ bound[k] \in Sessions /\ v = edits[bound[k]] /\ v \in Nat /\ edits' = edits
           /\ disk' = [disk EXCEPT ![bound[k]] = v]
           /\ \A s \in Sessions : disk'[s] = IF s = bound[k] THEN v ELSE disk[s]
  <1>1. bound[k] \in Sessions /\ edits' = edits /\ disk' = [disk EXCEPT ![bound[k]] = v]
    BY DEF PreviewTypes, TypeOK, PutDone
  <1>2. v = edits[bound[k]]
    BY DEF PreviewTypes, PutsCurrent
  <1>3. v \in Nat
    BY <1>1, <1>2, StampsComparable
  <1>4. \A s \in Sessions : disk'[s] = IF s = bound[k] THEN v ELSE disk[s]
    BY <1>1 DEF PreviewTypes, TypeOK
  <1> QED
    BY <1>1, <1>2, <1>3, <1>4

\* Every step keeps what is known of the archives.
LEMMA DownloadsNext ==
    PreviewTypes /\ DownloadsInv /\ [Next]_vars => DownloadsInv'
  <1> SUFFICES ASSUME PreviewTypes, DownloadsInv, [Next]_vars
               PROVE  DownloadsInv'
    OBVIOUS
  <1>0. None \notin Nat
    BY PreviewNoneAssumption
  <1> USE DEF givenVars, fileVars, editVars, clientVars, laneVars, givenToJobs
  <1>1. ASSUME NEW k \in Tabs, Save(k) \/ SaveInline(k)
        PROVE  DownloadsInv'
    <2>1. MayEdit(k) /\ edits' = [edits EXCEPT ![bound[k]] = Stamp(k)] /\ UNCHANGED <<disk, download>>
      BY <1>1 DEF Save, SaveInline
    <2>2. \A s \in Sessions : edits[s] \in Nat /\ edits'[s] \in Nat /\ edits[s] <= edits'[s]
      BY <2>1, EditsGrow
    <2>3. DiskPast'
      BY <2>1, <2>2, StampsComparable DEF DownloadsInv, DiskPast
    <2>4. ASSUME NEW z \in Downloads PROVE DownloadPast(z)'
      <3>1. DownloadPast(z) /\ download[z].session \in Sessions /\ download[z].asked \in Nat \union {None}
        BY StampsComparable DEF DownloadsInv
      <3> QED
        BY <3>1, <2>1, <2>2 DEF DownloadPast
    <2> QED
      BY <2>3, <2>4 DEF DownloadsInv
  <1>2. ASSUME NEW k \in Tabs, NEW v \in puts[k], PutDone(k, v)
        PROVE  DownloadsInv'
    <2>1. UNCHANGED download
      BY <1>2 DEF PutDone
    <2> QED
      BY <1>2, <2>1, PutIsCurrent, StampsComparable, <1>0 DEF DownloadsInv, DiskPast, DownloadPast
  <1>3. ASSUME NEW k \in Tabs, Clear(k)
        PROVE  DownloadsInv'
    <2>1. /\ MayEdit(k) /\ edits' = [edits EXCEPT ![bound[k]] = Stamp(k)]
          /\ disk' = [disk EXCEPT ![bound[k]] = None] /\ UNCHANGED download
      BY <1>3 DEF Clear
    <2>2. \A s \in Sessions : disk'[s] \in {None, disk[s]}
      BY <2>1 DEF PreviewTypes, TypeOK
    <2>3. \A s \in Sessions : edits[s] \in Nat /\ edits'[s] \in Nat /\ edits[s] <= edits'[s]
      BY <2>1, EditsGrow
    <2>4. DiskPast'
      BY <2>2, <2>3, StampsComparable, <1>0 DEF DownloadsInv, DiskPast
    <2>5. ASSUME NEW z \in Downloads PROVE DownloadPast(z)'
      <3>1. DownloadPast(z) /\ download[z].session \in Sessions /\ download[z].asked \in Nat \union {None}
        BY StampsComparable DEF DownloadsInv
      <3> QED
        BY <3>1, <2>1, <2>2, <2>3 DEF DownloadPast
    <2> QED
      BY <2>4, <2>5 DEF DownloadsInv
  <1>4. ASSUME NEW z \in Downloads, Ask(z)
        PROVE  DownloadsInv'
    <2>1. /\ download' = [download EXCEPT ![z].at = "queued", ![z].asked = disk[download[z].session]]
          /\ UNCHANGED <<edits, disk>>
      BY <1>4 DEF Ask
    <2>2. /\ download'[z].session = download[z].session /\ download'[z].at = "queued"
          /\ download'[z].asked = disk[download[z].session]
          /\ \A y \in Downloads : y # z => download'[y] = download[y]
      BY <2>1 DEF PreviewTypes, TypeOK
    <2>3. DownloadPast(z)'
      BY <2>1, <2>2, StampsComparable, <1>0 DEF DownloadsInv, DiskPast, DownloadPast
    <2>4. \A y \in Downloads : y # z => DownloadPast(y)'
      BY <2>1, <2>2 DEF DownloadsInv, DownloadPast
    <2> QED
      BY <2>1, <2>3, <2>4 DEF DownloadsInv, DiskPast
  <1>5. ASSUME NEW z \in Downloads, Pack(z)
        PROVE  DownloadsInv'
    <2>1. /\ download[z].at = "queued" /\ UNCHANGED <<edits, disk>>
      BY <1>5 DEF Pack, Job
    <2>2. PICK o \in Outcomes(disk[download[z].session]) :
             download' = [download EXCEPT ![z].at = IF o = "ok" THEN "packed" ELSE "unpacked",
                                          ![z].shows = disk[download[z].session]]
      BY <1>5 DEF Pack, Packed
    <2>3. /\ download'[z].session = download[z].session /\ download'[z].asked = download[z].asked
          /\ download'[z].at = (IF o = "ok" THEN "packed" ELSE "unpacked")
          /\ download'[z].shows = disk[download[z].session]
          /\ \A y \in Downloads : y # z => download'[y] = download[y]
      BY <2>2 DEF PreviewTypes, TypeOK
    <2>4. download'[z].at = "packed" => disk[download[z].session] # None
      BY <2>3, OutcomeTypes
    <2>5. DownloadPast(z)'
      BY <2>1, <2>3, <2>4, StampsComparable DEF DownloadsInv, DownloadPast
    <2>6. \A y \in Downloads : y # z => DownloadPast(y)'
      BY <2>1, <2>3 DEF DownloadsInv, DownloadPast
    <2> QED
      BY <2>1, <2>5, <2>6 DEF DownloadsInv, DiskPast
  <1>6. CASE UNCHANGED <<edits, disk, download>>
    BY <1>6 DEF DownloadsInv, DiskPast, DownloadPast
  <1>7. \A k \in Tabs : Send(k) \/ Cut(k) => UNCHANGED <<edits, disk, download>>
    BY DEF Send, Cut
  <1>8. \A r \in Requests : TaskStep(r) => UNCHANGED <<edits, disk, download>>
    BY DEF TaskStep, Cancel, GoWarm, GoCold, EngineReply, Stash, Deliver
  <1>9. Drain \/ Skip \/ Read \/ Render \/ UNCHANGED vars => UNCHANGED <<edits, disk, download>>
    BY DEF Drain, Skip, Read, Render, vars
  <1> QED
    BY <1>1, <1>2, <1>3, <1>4, <1>5, <1>6, <1>7, <1>8, <1>9 DEF Next, WorkerStep

\* An archive shows no edit older than the one that was saved when it was asked
\* for: the worker reads the files when the job's turn comes.
THEOREM DownloadsAreCurrent == Spec => []DownloadCurrent
  <1>1. Init => DownloadsInv
    BY PreviewNoneAssumption DEF Init, DownloadsInv, DiskPast, DownloadPast
  <1>2. PreviewTypes /\ DownloadsInv => DownloadCurrent
    BY StampsComparable, PreviewNoneAssumption DEF DownloadsInv, DownloadPast, DownloadCurrent
  <1> QED
    BY <1>1, <1>2, TypesAlways, DownloadsNext, PTL DEF Spec

-----------------------------------------------------------------------------
(* The worker's queue.                                                     *)

\* A job is queued behind the others.
LEMMA QueueAppend ==
    ASSUME TypeOK, NEW j \in Requests \union Downloads, chan' = Append(chan, j), burst' = burst
    PROVE  /\ Len(chan) \in Nat /\ Len(chan') = Len(chan) + 1 /\ chan'[Len(chan) + 1] = j
           /\ \A i \in 1..Len(chan) : chan'[i] = chan[i]
           /\ \A r : Waits(r)' <=> Waits(r) \/ r = j
  <1> DEFINE Jobs == Requests \union Downloads
  <1>1. chan \in Seq(Jobs) /\ j \in Jobs
    BY DEF TypeOK
  <1> HIDE DEF Jobs
  <1>2. /\ Len(chan) \in Nat /\ Len(chan') = Len(chan) + 1 /\ chan'[Len(chan) + 1] = j
        /\ \A i \in 1..Len(chan) : chan'[i] = chan[i]
    BY <1>1, AppendProperties, LenProperties
  <1>3. \A r : (\E i \in 1..Len(chan') : chan'[i] = r) <=> (\E i \in 1..Len(chan) : chan[i] = r) \/ r = j
    BY <1>2
  <1>4. \A r : (\E i \in 1..Len(burst') : burst'[i] = r) <=> (\E i \in 1..Len(burst) : burst[i] = r)
    OBVIOUS
  <1> QED
    BY <1>2, <1>3, <1>4 DEF Waits

\* A request that came late stays late.
LateStays == \A q \in Requests : stage[q] = "late" => stage'[q] = "late"

\* Ahead in the next state, of jobs that are named in this one.
StillAhead(r, q) ==
    {r, q} \subseteq Requests =>
        /\ r # q
        /\ r[1] = q[1] /\ "late" \notin {stage'[r], stage'[q]} => r[2] < q[2]

\* A job that is ahead of another one stays ahead of it.
LEMMA AheadKept ==
    ASSUME LateStays
    PROVE  \A r, q : Ahead(r, q) => StillAhead(r, q)
  BY DEF LateStays, Ahead, StillAhead

\* A request is queued behind those of its tab when they are all older, or when it
\* comes late.
LEMMA AppendKeepsOrder ==
    ASSUME TypeOK, QueueOrder, LateStays, NEW j \in Requests \union Downloads,
           chan' = Append(chan, j), burst' = burst,
           \A q \in Requests : Waits(q) => StillAhead(q, j)
    PROVE  QueueOrder'
  <1>1. /\ Len(chan) \in Nat /\ Len(chan') = Len(chan) + 1 /\ chan'[Len(chan) + 1] = j
        /\ \A i \in 1..Len(chan) : chan'[i] = chan[i]
    BY QueueAppend
  <1>2. \A i \in 1..Len(chan') : i \in 1..Len(chan) \/ i = Len(chan) + 1
    BY <1>1
  <1>3. \A i \in 1..Len(chan) : StillAhead(chan[i], j)
    BY DEF Waits, StillAhead
  <1>4. \A i \in 1..Len(burst) : StillAhead(burst[i], j)
    BY DEF Waits, StillAhead
  <1>5. \A m, n \in 1..Len(chan') : m < n => StillAhead(chan'[m], chan'[n])
    <2> SUFFICES ASSUME NEW m \in 1..Len(chan'), NEW n \in 1..Len(chan'), m < n
                 PROVE  StillAhead(chan'[m], chan'[n])
      OBVIOUS
    <2>1. m \in 1..Len(chan) /\ chan'[m] = chan[m]
      BY <1>1
    <2>2. CASE n \in 1..Len(chan)
      BY <1>1, <2>1, <2>2, AheadKept DEF QueueOrder
    <2>3. CASE n = Len(chan) + 1
      BY <1>1, <1>3, <2>1, <2>3
    <2> QED
      BY <1>2, <2>2, <2>3
  <1>6. \A m \in 1..Len(burst), n \in 1..Len(chan') : StillAhead(burst[m], chan'[n])
    BY <1>1, <1>2, <1>4, AheadKept DEF QueueOrder
  <1>7. \A m, n \in 1..Len(burst) : m < n => StillAhead(burst[m], burst[n])
    BY AheadKept DEF QueueOrder
  <1> QED
    BY <1>5, <1>6, <1>7 DEF QueueOrder, Ahead, StillAhead

\* Nothing waits that did not, once the head of a burst is taken off.
LEMMA QueueTail ==
    ASSUME TypeOK, burst # <<>>, burst' = Tail(burst), chan' = chan
    PROVE  \A r : Waits(r)' => Waits(r)
  <1>1. \A i \in 1..Len(burst') : burst'[i] = burst[i + 1] /\ i + 1 \in 1..Len(burst)
    BY BurstTypes
  <1> QED
    BY <1>1 DEF Waits

\* ... and the rest is in the order it was in.
LEMMA TailKeepsOrder ==
    ASSUME TypeOK, QueueOrder, LateStays, burst # <<>>, burst' = Tail(burst), chan' = chan
    PROVE  QueueOrder'
  <1>1. \A i \in 1..Len(burst') : burst'[i] = burst[i + 1] /\ i + 1 \in 1..Len(burst)
    BY BurstTypes
  <1>2. \A m, n \in 1..Len(burst') : m < n => StillAhead(burst'[m], burst'[n])
    <2> SUFFICES ASSUME NEW m \in 1..Len(burst'), NEW n \in 1..Len(burst'), m < n
                 PROVE  StillAhead(burst'[m], burst'[n])
      OBVIOUS
    <2>1. /\ burst'[m] = burst[m + 1] /\ burst'[n] = burst[n + 1] /\ m + 1 < n + 1
          /\ {m + 1, n + 1} \subseteq 1..Len(burst)
      BY <1>1
    <2> QED
      BY <2>1, AheadKept DEF QueueOrder
  <1>3. \A m \in 1..Len(burst'), n \in 1..Len(chan) : StillAhead(burst'[m], chan[n])
    BY <1>1, AheadKept DEF QueueOrder
  <1>4. \A m, n \in 1..Len(chan) : m < n => StillAhead(chan[m], chan[n])
    BY AheadKept DEF QueueOrder
  <1> QED
    BY <1>2, <1>3, <1>4 DEF QueueOrder, Ahead, StillAhead

\* The head of a burst is ahead of whatever waits behind it.
LEMMA HeadIsOldest ==
    ASSUME TypeOK, QueueOrder, burst # <<>>, Head(burst) \in Requests
    PROVE  /\ Waits(Head(burst))
           /\ \A r \in Requests : Waits(r) => r = Head(burst) \/ Ahead(Head(burst), r)
  <1>1. Len(burst) \in Nat /\ Len(burst) > 0 /\ Head(burst) = burst[1] /\ 1 \in 1..Len(burst)
    BY BurstTypes
  <1>2. Waits(Head(burst))
    BY <1>1 DEF Waits
  <1>3. ASSUME NEW i \in 1..Len(burst)
        PROVE  burst[i] = Head(burst) \/ Ahead(Head(burst), burst[i])
    <2>1. i = 1 \/ 1 < i
      BY <1>1
    <2> QED
      BY <1>1, <1>3, <2>1 DEF QueueOrder
  <1>4. ASSUME NEW i \in 1..Len(chan)
        PROVE  Ahead(Head(burst), chan[i])
    BY <1>1, <1>4 DEF QueueOrder
  <1> QED
    BY <1>2, <1>3, <1>4 DEF Waits

\* ... and does not wait any more once it is taken off.
LEMMA HeadLeaves ==
    ASSUME TypeOK, QueueOrder, burst # <<>>, NEW h \in Requests, h = Head(burst),
           burst' = Tail(burst), chan' = chan
    PROVE  ~Waits(h)'
  <1>1. /\ Len(burst) \in Nat /\ Len(burst) > 0 /\ h = burst[1] /\ 1 \in 1..Len(burst)
        /\ \A i \in 1..Len(burst') : burst'[i] = burst[i + 1] /\ i + 1 \in 1..Len(burst) /\ 1 < i + 1
    BY BurstTypes
  <1>2. ~Ahead(h, h)
    BY DEF Ahead
  <1>3. \A i \in 1..Len(burst) : 1 < i => burst[i] # h
    BY <1>1, <1>2 DEF QueueOrder
  <1>4. \A i \in 1..Len(chan) : chan[i] # h
    BY <1>1, <1>2 DEF QueueOrder
  <1> QED
    BY <1>1, <1>3, <1>4 DEF Waits

\* Drain moves the channel into the burst.
LEMMA QueueDrain ==
    ASSUME TypeOK, burst = <<>>, burst' = chan, chan' = <<>>
    PROVE  /\ \A r : Waits(r)' <=> Waits(r)
           /\ QueueOrder /\ LateStays => QueueOrder'
  <1>1. Len(burst) = 0 /\ Len(chan') = 0
    BY EmptySeq
  <1>2. ASSUME QueueOrder, LateStays PROVE QueueOrder'
    <2>1. \A m, n \in 1..Len(chan) : m < n => StillAhead(chan[m], chan[n])
      BY <1>2, AheadKept DEF QueueOrder
    <2> QED
      BY <1>1, <2>1 DEF QueueOrder, Ahead, StillAhead
  <1> QED
    BY <1>1, <1>2 DEF Waits

\* A request that is left alone stays where it is.
LEMMA PlacedKept ==
    ASSUME NEW r \in Requests, Placed(r), setup' = setup, frames' = frames,
           stage'[r] = stage[r], doc'[r] = doc[r], reply'[r] = reply[r], Waits(r)' => Waits(r)
    PROVE  Placed(r)'
  BY DEF Placed

\* The queue is left alone.
LEMMA QueueKept ==
    ASSUME QueueInv, UNCHANGED <<setup, frames, stage, doc, reply, chan, burst>>
    PROVE  QueueInv'
  BY DEF QueueInv, QueueOrder, Ahead, Placed, Waits

\* The task of one request takes a step; the queue stays as it is.
LEMMA TaskKeepsQueue ==
    ASSUME TypeOK, QueueInv, LateStays, NEW r \in Requests, UNCHANGED <<setup, frames, chan, burst>>,
           \A q \in Requests : q # r => stage'[q] = stage[q] /\ doc'[q] = doc[q] /\ reply'[q] = reply[q],
           Placed(r)'
    PROVE  QueueInv'
  <1>1. QueueOrder' /\ \A q : Waits(q)' <=> Waits(q)
    BY AheadKept DEF QueueInv, QueueOrder, Waits, Ahead, StillAhead
  <1>2. ASSUME NEW q \in Requests, q # r PROVE Placed(q)'
    BY <1>1, <1>2, PlacedKept DEF QueueInv
  <1> QED
    BY <1>1, <1>2 DEF QueueInv

\* The worker takes the head of its burst and answers it.
LEMMA AnswerKeepsQueue ==
    ASSUME TypeOK, QueueInv, LateStays, burst # <<>>, NEW h \in Requests, h = Head(burst),
           NEW o \in {"ok", "fatal", "superseded"}, o = "ok" => doc[h] # None,
           Answered(h, o), burst' = Tail(burst), UNCHANGED <<setup, frames, doc, chan>>
    PROVE  QueueInv'
  <1>1. QueueOrder' /\ ~Waits(h)' /\ \A q : Waits(q)' => Waits(q)
    BY QueueTail, TailKeepsOrder, HeadLeaves DEF QueueInv
  <1>2. /\ reply'[h] = o /\ stage'[h] = (IF stage[h] = "queued" THEN "ready" ELSE stage[h])
        /\ \A q \in Requests : q # h => stage'[q] = stage[q] /\ reply'[q] = reply[q]
    BY DEF Answered, TypeOK
  <1>3. Placed(h) /\ Waits(h)
    BY HeadIsOldest DEF QueueInv
  <1>4. Placed(h)'
    BY <1>1, <1>2, <1>3 DEF Placed
  <1>5. ASSUME NEW q \in Requests, q # h PROVE Placed(q)'
    BY <1>1, <1>2, <1>5, PlacedKept DEF QueueInv
  <1> QED
    BY <1>1, <1>4, <1>5 DEF QueueInv

\* The next frame of a tab.
LEMMA FrameKeepsQueue ==
    ASSUME TypeOK, QueueInv, LateStays, NEW k \in Tabs, frames[k] < MaxFrames, NEW x \in Edits \union {None},
           SendFrame(k, x), UNCHANGED <<setup, reply, chan, burst>>
    PROVE  QueueInv'
  <1> DEFINE r == <<k, frames[k] + 1>>
  <1>1. /\ r \in Requests /\ r[1] = k /\ r[2] = frames[k] + 1
        /\ frames' = [frames EXCEPT ![k] = frames[k] + 1]
        /\ stage' = [stage EXCEPT ![r] = "start"] /\ doc' = [doc EXCEPT ![r] = x]
    BY FrameTypes
  <1>2. QueueOrder' /\ \A q : Waits(q)' <=> Waits(q)
    BY AheadKept DEF QueueInv, QueueOrder, Waits, Ahead, StillAhead
  <1>3. frames[k] \in Nat /\ frames'[k] = frames[k] + 1 /\ \A j \in Tabs : j # k => frames'[j] = frames[j]
    BY <1>1 DEF TypeOK
  <1>4. stage[r] = "none" /\ ~Waits(r) /\ reply[r] = None
    BY <1>1, <1>3 DEF QueueInv, Placed
  <1> SUFFICES ASSUME NEW q \in Requests PROVE Placed(q)'
    BY <1>2 DEF QueueInv
  <1>5. CASE q = r
    <2>1. stage'[q] = "start" /\ reply'[q] = None /\ q[1] = k /\ q[2] = frames[k] + 1
      BY <1>1, <1>4, <1>5 DEF TypeOK
    <2> QED
      BY <2>1, <1>2, <1>3, <1>4, <1>5, PreviewNoneAssumption DEF Placed
  <1>6. CASE q # r
    <2>1. stage'[q] = stage[q] /\ doc'[q] = doc[q] /\ reply'[q] = reply[q]
      BY <1>1, <1>6 DEF TypeOK
    <2>2. q[1] \in Tabs /\ q[2] \in Nat /\ q = <<q[1], q[2]>>
      BY RequestPairs
    <2>3. q[2] > frames'[q[1]] <=> q[2] > frames[q[1]]
      BY <1>3, <1>6, <2>2
    <2>4. Placed(q)
      BY DEF QueueInv
    <2> QED
      BY <2>1, <2>3, <2>4, <1>2 DEF Placed
  <1> QED
    BY <1>5, <1>6

\* Only its own task makes a request late, and it stays so.
LEMMA LateNext ==
    ASSUME PreviewTypes, QueueInv, Next, NEW q \in Requests
    PROVE  /\ stage[q] = "late" => stage'[q] = "late"
           /\ stage[q] # "late" /\ stage'[q] = "late" => GoWarm(q) \/ GoCold(q)
  <1> USE DEF givenVars, fileVars, editVars, clientVars, laneVars, givenToJobs
  <1>0. TypeOK
    BY DEF PreviewTypes
  <1>1. \A k \in Tabs : Save(k) \/ Clear(k) \/ Cut(k) \/ (\E v \in puts[k] : PutDone(k, v)) => UNCHANGED stage
    BY DEF Save, Clear, Cut, PutDone
  <1>2. (\E z \in Downloads : Ask(z) \/ Pack(z)) \/ Drain \/ Read => UNCHANGED stage
    BY DEF Ask, Pack, Drain, Read
  <1>3. ASSUME NEW k \in Tabs, Send(k) \/ SaveInline(k)
        PROVE  stage'[q] = stage[q] \/ (stage[q] = "none" /\ stage'[q] = "start")
    <2> DEFINE r == <<k, frames[k] + 1>>
    <2>1. \E x : SendFrame(k, x)
      BY <1>3 DEF Send, SaveInline
    <2>2. frames'[k] = frames[k] + 1 /\ stage' = [stage EXCEPT ![r] = "start"] /\ frames[k] \in Nat
      BY <1>0, <2>1 DEF SendFrame, TypeOK
    <2>3. q = r => stage[q] = "none"
      BY <2>2 DEF QueueInv, Placed
    <2> QED
      BY <1>0, <2>2, <2>3 DEF TypeOK
  <1>4. ASSUME NEW r \in Requests, TaskStep(r)
        PROVE  /\ stage[q] = "late" => stage'[q] = "late"
               /\ stage[q] # "late" /\ stage'[q] = "late" => r = q /\ (GoWarm(r) \/ GoCold(r))
    <2>1. stage[r] # "late" /\ \E x : stage' = [stage EXCEPT ![r] = x]
      BY <1>4 DEF TaskStep, Cancel, GoWarm, GoCold, GoesOn, EngineReply, Stash, Deliver
    <2>2. CASE Cancel(r) \/ EngineReply(r) \/ Stash(r) \/ Deliver(r)
      <3>1. stage' = [stage EXCEPT ![r] = stage'[r]] /\ stage'[r] \in {"gone", "ready", "send"}
        BY <1>0, <2>2 DEF Cancel, EngineReply, Stash, Deliver, TypeOK
      <3> QED
        BY <1>0, <2>1, <3>1 DEF TypeOK
    <2>3. CASE GoWarm(r) \/ GoCold(r)
      BY <1>0, <2>1, <2>3 DEF TypeOK
    <2> QED
      BY <1>4, <2>2, <2>3 DEF TaskStep
  <1>5. ASSUME Skip \/ Render
        PROVE  stage'[q] = stage[q] \/ (stage[q] = "queued" /\ stage'[q] = "ready")
    <2>1. \E r \in Requests : stage' = [stage EXCEPT ![r] = IF @ = "queued" THEN "ready" ELSE @]
      BY <1>5 DEF Skip, Render, Answered
    <2> QED
      BY <1>0, <2>1 DEF TypeOK
  <1> QED
    BY <1>1, <1>2, <1>3, <1>4, <1>5 DEF Next, WorkerStep

\* ... so a request that is not late was not late before.
LEMMA LateStaysNext ==
    ASSUME PreviewTypes, QueueInv, Next
    PROVE  LateStays
  BY LateNext DEF LateStays

\* Every step keeps the order of the queue and the place of each request.
LEMMA QueueNext ==
    PreviewTypes /\ QueueInv /\ [Next]_vars => QueueInv'
  <1> SUFFICES ASSUME PreviewTypes, QueueInv, [Next]_vars
               PROVE  QueueInv'
    OBVIOUS
  <1>0. TypeOK /\ (Next => LateStays)
    BY LateStaysNext DEF PreviewTypes
  <1> USE DEF givenVars, fileVars, editVars, clientVars, laneVars, givenToJobs
  <1>1. \A k \in Tabs : Save(k) \/ Clear(k) \/ Cut(k) \/ (\E v \in puts[k] : PutDone(k, v)) =>
            UNCHANGED <<setup, frames, stage, doc, reply, chan, burst>>
    BY DEF Save, Clear, Cut, PutDone
  <1>2. UNCHANGED vars => UNCHANGED <<setup, frames, stage, doc, reply, chan, burst>>
    BY DEF vars
  <1>3. ASSUME NEW k \in Tabs, SaveInline(k)
        PROVE  QueueInv'
    <2>1. SendFrame(k, Stamp(k)) /\ MayEdit(k) /\ UNCHANGED <<setup, reply, chan, burst>>
      BY <1>3 DEF SaveInline
    <2>2. Stamp(k) \in Edits \union {None} /\ frames[k] + due[k] < MaxFrames
      BY <2>1, StampTypes
    <2>3. frames[k] < MaxFrames
      BY <1>0, <2>2, PreviewConstantsAssumption DEF TypeOK
    <2> QED
      BY <1>0, <1>3, <2>1, <2>2, <2>3, FrameKeepsQueue DEF Next
  <1>4. ASSUME NEW k \in Tabs, Send(k)
        PROVE  QueueInv'
    <2>1. SendFrame(k, None) /\ due[k] > 0 /\ UNCHANGED <<setup, reply, chan, burst>>
      BY <1>4 DEF Send
    <2>2. MaxFrames \in Nat /\ frames[k] \in Nat /\ due[k] \in Nat
      BY <1>0, PreviewConstantsAssumption DEF TypeOK
    <2>3. frames[k] < MaxFrames
      BY <2>1, <2>2 DEF PreviewTypes, Budget
    <2> QED
      BY <1>0, <1>4, <2>1, <2>3, FrameKeepsQueue DEF Next
  <1>5. ASSUME NEW r \in Requests, Cancel(r)
        PROVE  QueueInv'
    <2>1. /\ stage[r] # "none" /\ stage' = [stage EXCEPT ![r] = "gone"]
          /\ UNCHANGED <<setup, frames, doc, reply, chan, burst>>
      BY <1>5 DEF Cancel
    <2>2. stage'[r] = "gone" /\ \A q \in Requests : q # r => stage'[q] = stage[q]
      BY <1>0, <2>1 DEF TypeOK
    <2>3. Placed(r)'
      BY <2>1, <2>2 DEF QueueInv, Placed, Waits
    <2> QED
      BY <1>0, <1>5, <2>1, <2>2, <2>3, TaskKeepsQueue DEF Next, TaskStep
  <1>6. ASSUME NEW r \in Requests, GoWarm(r)
        PROVE  QueueInv'
    <2>1. /\ setup.pool /\ stage[r] = "start" /\ Source(r) # None
          /\ stage' = [stage EXCEPT ![r] = IF Cancelled(r) THEN "late" ELSE "engine"]
          /\ doc' = [doc EXCEPT ![r] = Source(r)]
          /\ UNCHANGED <<setup, frames, reply, chan, burst>>
      BY <1>6 DEF GoWarm, GoesOn
    <2>2. /\ stage'[r] \in {"engine", "late"} /\ doc'[r] # None
          /\ \A q \in Requests : q # r => stage'[q] = stage[q] /\ doc'[q] = doc[q]
      BY <1>0, <2>1 DEF TypeOK
    <2>3. Placed(r)'
      BY <2>1, <2>2 DEF QueueInv, Placed, Waits
    <2> QED
      BY <1>0, <1>6, <2>1, <2>2, <2>3, TaskKeepsQueue DEF Next, TaskStep
  <1>7. ASSUME NEW r \in Requests, GoCold(r)
        PROVE  QueueInv'
    <2>1. /\ stage[r] \in {"start", "engine"}
          /\ stage' = [stage EXCEPT ![r] = IF Cancelled(r) THEN "late" ELSE "queued"]
          /\ chan' = Append(chan, r)
          /\ UNCHANGED <<setup, frames, doc, reply, burst>>
      BY <1>7 DEF GoCold, GoesOn
    <2>2. \A q : Waits(q)' <=> Waits(q) \/ q = r
      BY <1>0, <2>1, QueueAppend
    <2>3. r[1] \in Tabs /\ r[2] \in Nat /\ frames[r[1]] \in Nat /\ r[2] <= frames[r[1]]
      BY <1>0, <2>1, RequestPairs DEF TypeOK, QueueInv, Placed
    <2>4. stage'[r] \in {"queued", "late"} /\ \A q \in Requests : q # r => stage'[q] = stage[q]
      BY <1>0, <2>1 DEF TypeOK
    <2>5. ASSUME NEW q \in Requests, Waits(q) PROVE StillAhead(q, r)
      <3>1. q[1] = r[1] => q[2] \in Nat /\ q[2] <= frames[r[1]]
        BY <2>3, <2>5, RequestPairs DEF QueueInv, Placed
      <3>2. q # r
        BY <2>1, <2>5 DEF QueueInv, Placed
      <3>3. q[1] = r[1] => q[2] # r[2]
        BY <3>2, RequestPairs
      <3>4. stage'[r] # "late" => r[2] = frames[r[1]]
        BY <1>0, <2>1, <2>3 DEF TypeOK, Cancelled
      <3> QED
        BY <2>3, <3>1, <3>2, <3>3, <3>4 DEF StillAhead
    <2>6. QueueOrder'
      BY <1>0, <1>7, <2>1, <2>5, AppendKeepsOrder DEF QueueInv, Next, TaskStep
    <2>7. Placed(r)'
      BY <2>1, <2>3, <2>4, PreviewNoneAssumption DEF QueueInv, Placed
    <2>8. ASSUME NEW q \in Requests, q # r PROVE Placed(q)'
      BY <2>1, <2>2, <2>4, <2>8, PlacedKept DEF QueueInv
    <2> QED
      BY <2>6, <2>7, <2>8 DEF QueueInv
  <1>8. ASSUME NEW r \in Requests, EngineReply(r)
        PROVE  QueueInv'
    <2>1. /\ stage[r] = "engine" /\ stage' = [stage EXCEPT ![r] = "ready"]
          /\ UNCHANGED <<setup, frames, doc, chan, burst>>
      BY <1>8 DEF EngineReply
    <2>2. PICK o : reply' = [reply EXCEPT ![r] = o] /\ (o = "ok" => doc[r] # None)
      BY <1>8, OutcomeTypes DEF EngineReply
    <2>3. /\ stage'[r] = "ready" /\ reply'[r] = o
          /\ \A q \in Requests : q # r => stage'[q] = stage[q] /\ reply'[q] = reply[q]
      BY <1>0, <2>1, <2>2 DEF TypeOK
    <2>4. Placed(r)'
      BY <2>1, <2>2, <2>3 DEF QueueInv, Placed, Waits
    <2> QED
      BY <1>0, <1>8, <2>1, <2>3, <2>4, TaskKeepsQueue DEF Next, TaskStep
  <1>9. ASSUME NEW r \in Requests, Stash(r) \/ Deliver(r)
        PROVE  QueueInv'
    <2>1. /\ stage[r] \in {"ready", "send"} /\ UNCHANGED <<setup, frames, doc, reply, chan, burst>>
          /\ stage' = [stage EXCEPT ![r] = "send"] \/ stage' = [stage EXCEPT ![r] = "gone"]
      BY <1>9 DEF Stash, Deliver
    <2>2. stage'[r] \in {"send", "gone"} /\ \A q \in Requests : q # r => stage'[q] = stage[q]
      BY <1>0, <2>1 DEF TypeOK
    <2>3. Placed(r)'
      BY <2>1, <2>2 DEF QueueInv, Placed, Waits
    <2> QED
      BY <1>0, <1>9, <2>1, <2>2, <2>3, TaskKeepsQueue DEF Next, TaskStep
  <1>10. ASSUME NEW z \in Downloads, Ask(z)
         PROVE  QueueInv'
    <2>1. chan' = Append(chan, z) /\ UNCHANGED <<setup, frames, stage, doc, reply, burst>>
      BY <1>10 DEF Ask
    <2>2. z \notin Requests
      BY PreviewConstantsAssumption
    <2>3. QueueOrder' /\ \A q : Waits(q)' <=> Waits(q) \/ q = z
      <3>1. \A q \in Requests : StillAhead(q, z)
        BY <2>2 DEF StillAhead
      <3> QED
        BY <1>0, <1>10, <2>1, <3>1, QueueAppend, AppendKeepsOrder DEF QueueInv, Next
    <2>4. ASSUME NEW q \in Requests PROVE Placed(q)'
      BY <2>1, <2>2, <2>3, PlacedKept DEF QueueInv
    <2> QED
      BY <2>3, <2>4 DEF QueueInv
  <1>11. CASE Drain
    <2>1. burst = <<>> /\ burst' = chan /\ chan' = <<>> /\ UNCHANGED <<setup, frames, stage, doc, reply>>
      BY <1>11 DEF Drain
    <2>2. QueueOrder' /\ \A q : Waits(q)' <=> Waits(q)
      BY <1>0, <1>11, <2>1, QueueDrain DEF QueueInv, Next, WorkerStep
    <2>3. ASSUME NEW q \in Requests PROVE Placed(q)'
      BY <2>1, <2>2, PlacedKept DEF QueueInv
    <2> QED
      BY <2>2, <2>3 DEF QueueInv
  <1>12. CASE Skip
    <2>1. PICK h \in Requests : h = Head(burst)
      BY <1>12 DEF Skip
    <2>2. /\ burst # <<>> /\ Answered(h, "superseded") /\ burst' = Tail(burst)
          /\ UNCHANGED <<setup, frames, doc, chan>>
      BY <1>12, <2>1 DEF Skip
    <2> QED
      BY <1>0, <1>12, <2>1, <2>2, AnswerKeepsQueue DEF Next, WorkerStep
  <1>13. CASE Read
    <2>1. PICK h \in Requests : h = Head(burst)
      BY <1>13 DEF Read
    <2>2. /\ burst # <<>> /\ reply' = [reply EXCEPT ![h] = "busy"]
          /\ doc' = [doc EXCEPT ![h] = disk[Session(h)]]
          /\ UNCHANGED <<setup, frames, stage, chan, burst>>
      BY <1>13, <2>1 DEF Read
    <2>3. /\ reply'[h] = "busy"
          /\ \A q \in Requests : q # h => doc'[q] = doc[q] /\ reply'[q] = reply[q]
      BY <1>0, <2>2 DEF TypeOK
    <2>4. Waits(h) /\ Placed(h)
      BY <1>0, <2>1, <2>2, HeadIsOldest DEF QueueInv
    <2>5. Placed(h)'
      BY <2>2, <2>3, <2>4 DEF Placed
    <2> QED
      BY <1>0, <1>13, <2>2, <2>3, <2>5, TaskKeepsQueue DEF Next, WorkerStep
  <1>14. CASE Render
    <2>1. PICK h \in Requests : h = Head(burst)
      BY <1>14 DEF Render
    <2>2. PICK o \in Outcomes(doc[h]) : Answered(h, o)
      BY <1>14, <2>1 DEF Render
    <2>3. burst # <<>> /\ burst' = Tail(burst) /\ UNCHANGED <<setup, frames, doc, chan>>
      BY <1>14 DEF Render
    <2>4. o \in {"ok", "fatal", "superseded"} /\ (o = "ok" => doc[h] # None)
      BY OutcomeTypes
    <2> QED
      BY <1>0, <1>14, <2>1, <2>2, <2>3, <2>4, AnswerKeepsQueue DEF Next, WorkerStep
  <1>15. ASSUME NEW z \in Downloads, Pack(z)
         PROVE  QueueInv'
    <2>1. burst # <<>> /\ burst' = Tail(burst) /\ UNCHANGED <<setup, frames, stage, doc, reply, chan>>
      BY <1>15 DEF Pack
    <2>2. QueueOrder' /\ \A q : Waits(q)' => Waits(q)
      BY <1>0, <1>15, <2>1, QueueTail, TailKeepsOrder DEF QueueInv, Next, WorkerStep
    <2>3. ASSUME NEW q \in Requests PROVE Placed(q)'
      BY <2>1, <2>2, PlacedKept DEF QueueInv
    <2> QED
      BY <2>2, <2>3 DEF QueueInv
  <1> QED
    BY <1>1, <1>2, <1>3, <1>4, <1>5, <1>6, <1>7, <1>8, <1>9, <1>10, <1>11, <1>12, <1>13, <1>14, <1>15,
       QueueKept DEF Next, TaskStep, WorkerStep

-----------------------------------------------------------------------------
(* The lanes.                                                              *)

\* Only its own task makes a request wait.
LEMMA WaitsNext ==
    ASSUME PreviewTypes, QueueInv, Next, NEW r \in Requests, Waits(r)', ~Waits(r)
    PROVE  GoCold(r)
  <1>0. TypeOK
    BY DEF PreviewTypes
  <1> USE DEF givenVars, fileVars, editVars, clientVars, laneVars, givenToJobs
  <1>1. ASSUME UNCHANGED <<chan, burst>> PROVE FALSE
    BY <1>1 DEF Waits
  <1>2. ASSUME NEW q \in Requests, GoCold(q) PROVE q = r
    <2>1. chan' = Append(chan, q) /\ UNCHANGED burst
      BY <1>2 DEF GoCold
    <2> QED
      BY <1>0, <2>1, QueueAppend
  <1>3. ASSUME NEW z \in Downloads, Ask(z) PROVE FALSE
    <2>1. chan' = Append(chan, z) /\ UNCHANGED burst /\ z # r
      BY <1>3, PreviewConstantsAssumption DEF Ask
    <2> QED
      BY <1>0, <2>1, QueueAppend
  <1>4. ASSUME Drain PROVE FALSE
    BY <1>0, <1>4, QueueDrain DEF Drain
  <1>5. ASSUME Skip \/ Render \/ \E z \in Downloads : Pack(z) PROVE FALSE
    <2>1. burst # <<>> /\ burst' = Tail(burst) /\ UNCHANGED chan
      BY <1>5 DEF Skip, Render, Pack
    <2> QED
      BY <1>0, <2>1, QueueTail
  <1>6. \A k \in Tabs : Save(k) \/ SaveInline(k) \/ Clear(k) \/ Send(k) \/ Cut(k) \/
                        (\E v \in puts[k] : PutDone(k, v)) => UNCHANGED <<chan, burst>>
    BY DEF Save, SaveInline, Clear, Send, Cut, PutDone
  <1>7. \A q \in Requests : Cancel(q) \/ GoWarm(q) \/ EngineReply(q) \/ Stash(q) \/ Deliver(q) =>
            UNCHANGED <<chan, burst>>
    BY DEF Cancel, GoWarm, EngineReply, Stash, Deliver
  <1>8. Read => UNCHANGED <<chan, burst>>
    BY DEF Read
  <1> QED
    BY <1>1, <1>2, <1>3, <1>4, <1>5, <1>6, <1>7, <1>8 DEF Next, TaskStep, WorkerStep

\* The kind of server and the sessions of the tabs never change.
LEMMA GivenNext == Next => UNCHANGED <<setup, bound>>
  <1> USE DEF givenVars, fileVars, editVars, clientVars, laneVars, givenToJobs
  <1>1. \A k \in Tabs : Save(k) \/ SaveInline(k) \/ Clear(k) \/ Send(k) \/ Cut(k) \/
                        (\E v \in puts[k] : PutDone(k, v)) => UNCHANGED <<setup, bound>>
    BY DEF Save, SaveInline, Clear, Send, Cut, PutDone
  <1>2. \A r \in Requests : TaskStep(r) => UNCHANGED <<setup, bound>>
    BY DEF TaskStep, Cancel, GoWarm, GoCold, EngineReply, Stash, Deliver
  <1>3. (\E z \in Downloads : Ask(z)) \/ WorkerStep => UNCHANGED <<setup, bound>>
    BY DEF Ask, WorkerStep, Drain, Skip, Read, Render, Pack
  <1> QED
    BY <1>1, <1>2, <1>3 DEF Next

\* Only its engine and the worker answer a request.
LEMMA ReplyNext ==
    ASSUME PreviewTypes, QueueInv, Next, NEW q \in Requests, reply'[q] # reply[q]
    PROVE  \/ EngineReply(q)
           \/ burst # <<>> /\ q = Head(burst) /\ (Skip \/ Read \/ Render)
  <1> USE DEF givenVars, fileVars, editVars, clientVars, laneVars, givenToJobs
  <1>0. TypeOK
    BY DEF PreviewTypes
  <1>1. \A k \in Tabs : Save(k) \/ SaveInline(k) \/ Clear(k) \/ Send(k) \/ Cut(k) \/
                        (\E v \in puts[k] : PutDone(k, v)) => UNCHANGED reply
    BY DEF Save, SaveInline, Clear, Send, Cut, PutDone
  <1>2. \A r \in Requests : Cancel(r) \/ GoWarm(r) \/ GoCold(r) \/ Stash(r) \/ Deliver(r) => UNCHANGED reply
    BY DEF Cancel, GoWarm, GoCold, Stash, Deliver
  <1>3. (\E z \in Downloads : Ask(z) \/ Pack(z)) \/ Drain => UNCHANGED reply
    BY DEF Ask, Pack, Drain
  <1>4. ASSUME NEW r \in Requests, EngineReply(r) PROVE r = q
    <2>1. PICK o : reply' = [reply EXCEPT ![r] = o]
      BY <1>4 DEF EngineReply
    <2> QED
      BY <1>0, <2>1 DEF TypeOK
  <1>5. ASSUME Skip \/ Read \/ Render PROVE burst # <<>> /\ q = Head(burst)
    <2>1. PICK o : reply' = [reply EXCEPT ![Head(burst)] = o]
      BY <1>5 DEF Skip, Read, Render, Answered
    <2> QED
      BY <1>0, <1>5, <2>1 DEF TypeOK, Skip, Read, Render
  <1> QED
    BY <1>1, <1>2, <1>3, <1>4, <1>5 DEF Next, TaskStep, WorkerStep

\* What a request carries is set by the frame, by its task or by the worker.
LEMMA DocNext ==
    ASSUME PreviewTypes, QueueInv, Next, NEW q \in Requests, doc'[q] # doc[q]
    PROVE  \/ \E k \in Tabs : SaveInline(k) /\ q = <<k, frames[k] + 1>> /\ doc'[q] = Stamp(k)
           \/ GoWarm(q) /\ doc[q] = None /\ doc'[q] = disk[Session(q)]
           \/ Read /\ q = Head(burst) /\ doc'[q] = disk[Session(q)]
  <1> USE DEF givenVars, fileVars, editVars, clientVars, laneVars, givenToJobs
  <1>0. TypeOK
    BY DEF PreviewTypes
  <1>1. \A k \in Tabs : Save(k) \/ Clear(k) \/ Cut(k) \/ (\E v \in puts[k] : PutDone(k, v)) => UNCHANGED doc
    BY DEF Save, Clear, Cut, PutDone
  <1>2. \A r \in Requests : Cancel(r) \/ GoCold(r) \/ EngineReply(r) \/ Stash(r) \/ Deliver(r) => UNCHANGED doc
    BY DEF Cancel, GoCold, EngineReply, Stash, Deliver
  <1>3. (\E z \in Downloads : Ask(z) \/ Pack(z)) \/ Drain \/ Skip \/ Render => UNCHANGED doc
    BY DEF Ask, Pack, Drain, Skip, Render
  <1>4. ASSUME NEW k \in Tabs, SaveInline(k) PROVE q = <<k, frames[k] + 1>> /\ doc'[q] = Stamp(k)
    <2>1. SendFrame(k, Stamp(k)) /\ MayEdit(k)
      BY <1>4 DEF SaveInline
    <2>2. Stamp(k) \in Edits \union {None} /\ frames[k] + due[k] < MaxFrames
      BY <2>1, StampTypes
    <2>3. frames[k] < MaxFrames
      BY <1>0, <2>2, PreviewConstantsAssumption DEF TypeOK
    <2>4. doc' = [doc EXCEPT ![<<k, frames[k] + 1>>] = Stamp(k)]
      BY <1>0, <2>1, <2>2, <2>3, FrameTypes
    <2> QED
      BY <1>0, <2>4 DEF TypeOK
  <1>5. ASSUME NEW k \in Tabs, Send(k) PROVE FALSE
    <2>1. SendFrame(k, None) /\ due[k] > 0
      BY <1>5 DEF Send
    <2>2. MaxFrames \in Nat /\ frames[k] \in Nat /\ due[k] \in Nat
      BY <1>0, PreviewConstantsAssumption DEF TypeOK
    <2>3. frames[k] < MaxFrames
      BY <2>1, <2>2 DEF PreviewTypes, Budget
    <2> DEFINE r == <<k, frames[k] + 1>>
    <2>4. doc' = [doc EXCEPT ![r] = None] /\ r \in Requests /\ r[1] = k /\ r[2] = frames[k] + 1
      BY <1>0, <2>1, <2>3, FrameTypes
    <2>5. doc[r] = None
      BY <2>2, <2>4 DEF QueueInv, Placed
    <2> QED
      BY <1>0, <2>4, <2>5 DEF TypeOK
  <1>6. ASSUME NEW r \in Requests, GoWarm(r) PROVE GoWarm(q) /\ doc[q] = None /\ doc'[q] = disk[Session(q)]
    <2>1. doc' = [doc EXCEPT ![r] = Source(r)]
      BY <1>6 DEF GoWarm
    <2> QED
      BY <1>0, <1>6, <2>1 DEF TypeOK, Source
  <1>7. ASSUME Read PROVE q = Head(burst) /\ doc'[q] = disk[Session(q)]
    <2>1. doc' = [doc EXCEPT ![Head(burst)] = disk[Session(Head(burst))]]
      BY <1>7 DEF Read
    <2> QED
      BY <1>0, <2>1 DEF TypeOK
  <1> QED
    BY <1>1, <1>2, <1>3, <1>4, <1>5, <1>6, <1>7 DEF Next, TaskStep, WorkerStep

\* The task that goes to a lane in time is that of the tab's newest request.
LEMMA GoesNewest ==
    ASSUME PreviewTypes, QueueInv, NEW r \in Requests, GoCold(r) \/ GoWarm(r), stage'[r] # "late"
    PROVE  /\ r[2] = frames[r[1]] /\ frames[r[1]] \in Nat
           /\ \A q \in Requests : Earlier(r, q) => reply[q] = None /\ doc[q] = None
  <1>1. stage[r] \in {"start", "engine"} /\ ~Cancelled(r)
    BY DEF GoCold, GoWarm, GoesOn, PreviewTypes, TypeOK
  <1>2. r[2] = frames[r[1]] /\ frames[r[1]] \in Nat /\ r[1] \in Tabs
    BY <1>1, RequestPairs DEF PreviewTypes, TypeOK, QueueInv, Placed, Cancelled
  <1>3. ASSUME NEW q \in Requests, Earlier(r, q) PROVE reply[q] = None /\ doc[q] = None
    <2>1. stage[q] = "none"
      BY <1>2, <1>3, RequestPairs DEF Earlier, QueueInv, Placed
    <2> QED
      BY <2>1 DEF QueueInv, Placed
  <1> QED
    BY <1>2, <1>3

\* Every step keeps the worker in order.
LEMMA WorkerInOrderNext ==
    ASSUME PreviewTypes, QueueInv, WorkerInOrder, Next
    PROVE  WorkerInOrder'
  <1> SUFFICES ASSUME ~setup'.pool, NEW r \in Requests, NEW q \in Requests, Earlier(r, q),
                      "late" \notin {stage'[r], stage'[q]}, reply'[q] \in {"busy", "ok"}
               PROVE  ~Waits(r)'
    BY DEF WorkerInOrder, Earlier
  <1>0. TypeOK /\ QueueOrder /\ ~setup.pool /\ "late" \notin {stage[r], stage[q]}
    BY GivenNext, LateNext DEF PreviewTypes, QueueInv
  <1>1. CASE reply[q] \in {"busy", "ok"}
    <2>1. ~Waits(r)
      BY <1>0, <1>1 DEF WorkerInOrder
    <2>2. ~GoCold(r)
      BY <1>1, GoesNewest, PreviewNoneAssumption
    <2> QED
      BY <2>1, <2>2, WaitsNext
  <1>2. CASE reply[q] \notin {"busy", "ok"}
    <2>1. ~EngineReply(q)
      BY <1>0 DEF EngineReply, QueueInv, Placed
    <2>2. burst # <<>> /\ q = Head(burst) /\ (Skip \/ Read \/ Render)
      BY <1>2, <2>1, ReplyNext
    <2>3. ~Render
      BY <1>2, <2>2 DEF Render
    <2>4. ~Skip
      BY <1>0, <2>2 DEF Skip, Answered, TypeOK
    <2>5. UNCHANGED <<chan, burst>>
      BY <2>2, <2>3, <2>4 DEF Read
    <2>6. ~Waits(r)
      BY <1>0, <2>2, HeadIsOldest, RequestPairs DEF Earlier, Ahead
    <2> QED
      BY <2>5, <2>6 DEF Waits
  <1> QED
    BY <1>1, <1>2

\* Where the pool serves every conversion, none comes to the worker.
LEMMA PoolOnlyNext ==
    ASSUME PreviewTypes, QueueInv, PoolOnly, Next
    PROVE  PoolOnly'
  <1> SUFFICES ASSUME setup.pool, ~setup.fallBack, ~MayClear
               PROVE  (\A s \in Sessions : disk'[s] # None) /\ (\A r \in Requests : ~Waits(r)')
    BY GivenNext DEF PoolOnly, OneLane
  <1>0. (\A s \in Sessions : disk[s] # None) /\ (\A r \in Requests : ~Waits(r))
    BY DEF PoolOnly, OneLane
  <1> USE DEF givenVars, fileVars, editVars, clientVars, laneVars, givenToJobs
  <1>1. \A s \in Sessions : disk'[s] # None
    <2>1. ASSUME NEW k \in Tabs, NEW v \in puts[k], PutDone(k, v)
          PROVE  \A s \in Sessions : disk'[s] # None
      BY <1>0, <2>1, PutIsCurrent, PreviewNoneAssumption
    <2>2. \A k \in Tabs : ~Clear(k)
      BY DEF Clear
    <2>3. \A k \in Tabs : Save(k) \/ SaveInline(k) \/ Send(k) \/ Cut(k) => UNCHANGED disk
      BY DEF Save, SaveInline, Send, Cut
    <2>4. \A r \in Requests : TaskStep(r) => UNCHANGED disk
      BY DEF TaskStep, Cancel, GoWarm, GoCold, EngineReply, Stash, Deliver
    <2>5. (\E z \in Downloads : Ask(z)) \/ WorkerStep => UNCHANGED disk
      BY DEF Ask, WorkerStep, Drain, Skip, Read, Render, Pack
    <2> QED
      BY <1>0, <2>1, <2>2, <2>3, <2>4, <2>5 DEF Next
  <1>2. ASSUME NEW r \in Requests PROVE ~Waits(r)'
    <2>1. Source(r) # None
      BY <1>0, SourceTypes DEF Source, PreviewTypes
    <2>2. ~GoCold(r)
      BY <2>1 DEF GoCold
    <2> QED
      BY <1>0, <2>2, WaitsNext
  <1> QED
    BY <1>1, <1>2

\* The boot frame of a single document is the first.
LEMMA BootFirstNext ==
    ASSUME PreviewTypes, QueueInv, PoolOnly, BootFirst, Next
    PROVE  BootFirst'
  <1> SUFFICES ASSUME setup.inline, NEW k \in Tabs
               PROVE  /\ due'[k] > 0 => frames'[k] = 0
                      /\ due'[k] <= 1
                      /\ setup.pool /\ OneLane =>
                            \A i \in 2..MaxFrames : i <= frames'[k] => doc'[<<k, i>>] # None
    BY GivenNext DEF BootFirst, OneLane
  <1> USE DEF givenVars, fileVars, editVars, clientVars, laneVars, givenToJobs
  <1>0. /\ TypeOK /\ MaxFrames \in Nat
        /\ \A j \in Tabs : frames[j] \in Nat /\ due[j] \in Nat
        /\ due[k] > 0 => frames[k] = 0
        /\ due[k] <= 1
        /\ setup.pool /\ OneLane => \A i \in 2..MaxFrames : i <= frames[k] => doc[<<k, i>>] # None
    BY PreviewConstantsAssumption DEF PreviewTypes, TypeOK, BootFirst
  <1>1. \A q \in Requests : setup.pool /\ OneLane /\ doc[q] # None => doc'[q] # None
    <2> SUFFICES ASSUME NEW q \in Requests, setup.pool, OneLane, doc[q] # None, doc'[q] # doc[q]
                 PROVE  FALSE
      OBVIOUS
    <2>1. ~Read
      BY HeadIsOldest, <1>0 DEF Read, PoolOnly, QueueInv
    <2>2. PICK j \in Tabs : SaveInline(j) /\ q = <<j, frames[j] + 1>>
      BY <2>1, DocNext
    <2>3. q[1] = j /\ q[2] > frames[j]
      BY <1>0, <2>2
    <2> QED
      BY <2>3 DEF QueueInv, Placed
  <1>2. CASE frames'[k] = frames[k] /\ due'[k] = due[k]
    <2>1. ASSUME setup.pool, OneLane, NEW i \in 2..MaxFrames, i <= frames[k] PROVE doc'[<<k, i>>] # None
      <3>1. <<k, i>> \in Requests
        BY <1>0, <2>1, RequestPairs
      <3> QED
        BY <1>0, <1>1, <2>1, <3>1
    <2> QED
      BY <1>0, <1>2, <2>1
  <1>3. ASSUME NEW j \in Tabs, SaveInline(j)
        PROVE  \/ frames'[k] = frames[k] /\ due'[k] = due[k]
               \/ /\ due'[k] = 0 /\ frames'[k] = frames[k] + 1 /\ frames[k] < MaxFrames
                  /\ doc'[<<k, frames[k] + 1>>] # None
    <2>1. SendFrame(j, Stamp(j)) /\ MayEdit(j) /\ due[j] = 0 /\ UNCHANGED due
      BY <1>3 DEF SaveInline
    <2>2. Stamp(j) \in Edits \union {None} /\ Stamp(j) # None /\ frames[j] + due[j] < MaxFrames
      BY <2>1, StampTypes, PreviewNoneAssumption, PreviewConstantsAssumption DEF Edits
    <2>3. frames[j] < MaxFrames
      BY <1>0, <2>2
    <2> DEFINE r == <<j, frames[j] + 1>>
    <2>4. frames' = [frames EXCEPT ![j] = frames[j] + 1] /\ doc' = [doc EXCEPT ![r] = Stamp(j)] /\ r \in Requests
      BY <1>0, <2>1, <2>2, <2>3, FrameTypes
    <2>5. doc'[r] # None
      BY <1>0, <2>2, <2>4 DEF TypeOK
    <2> QED
      BY <1>0, <2>1, <2>3, <2>4, <2>5 DEF TypeOK
  <1>4. ASSUME due'[k] = 0, frames'[k] = frames[k] + 1, frames[k] < MaxFrames,
               doc'[<<k, frames[k] + 1>>] # None \/ frames[k] = 0
        PROVE  /\ due'[k] > 0 => frames'[k] = 0
               /\ due'[k] <= 1
               /\ setup.pool /\ OneLane =>
                     \A i \in 2..MaxFrames : i <= frames'[k] => doc'[<<k, i>>] # None
    <2>1. ASSUME setup.pool, OneLane, NEW i \in 2..MaxFrames, i <= frames'[k] PROVE doc'[<<k, i>>] # None
      <3>1. <<k, i>> \in Requests /\ (i <= frames[k] \/ i = frames[k] + 1)
        BY <1>0, <1>4, <2>1, RequestPairs
      <3>2. CASE i <= frames[k]
        BY <1>0, <1>1, <2>1, <3>1, <3>2
      <3>3. CASE i = frames[k] + 1
        BY <1>0, <1>4, <3>3
      <3> QED
        BY <3>1, <3>2, <3>3
    <2> QED
      BY <1>4, <2>1
  <1>5. ASSUME NEW j \in Tabs, Send(j)
        PROVE  \/ frames'[k] = frames[k] /\ due'[k] = due[k]
               \/ due'[k] = 0 /\ frames'[k] = frames[k] + 1 /\ frames[k] < MaxFrames /\ frames[k] = 0
    <2>1. SendFrame(j, None) /\ due[j] > 0 /\ due' = [due EXCEPT ![j] = @ - 1]
      BY <1>5 DEF Send
    <2>2. frames[j] < MaxFrames
      BY <1>0, <2>1 DEF PreviewTypes, Budget
    <2>3. frames' = [frames EXCEPT ![j] = frames[j] + 1]
      BY <1>0, <2>1, <2>2, FrameTypes
    <2>4. CASE j = k
      BY <1>0, <2>1, <2>2, <2>3, <2>4 DEF TypeOK
    <2>5. CASE j # k
      BY <1>0, <2>1, <2>3, <2>5 DEF TypeOK
    <2> QED
      BY <2>4, <2>5
  <1>6. \A j \in Tabs : Save(j) \/ Clear(j) \/ Cut(j) \/ (\E v \in puts[j] : PutDone(j, v)) =>
            frames' = frames /\ due' = due
    BY DEF Save, Clear, Cut, PutDone
  <1>7. \A r \in Requests : TaskStep(r) => frames' = frames /\ due' = due
    BY DEF TaskStep, Cancel, GoWarm, GoCold, EngineReply, Stash, Deliver
  <1>8. (\E z \in Downloads : Ask(z)) \/ WorkerStep => frames' = frames /\ due' = due
    BY DEF Ask, WorkerStep, Drain, Skip, Read, Render, Pack
  <1> QED
    BY <1>2, <1>3, <1>4, <1>5, <1>6, <1>7, <1>8 DEF Next

-----------------------------------------------------------------------------
(* What was read, and what is shown.                                       *)

\* The number of edits grows.
LEMMA EditsNext ==
    ASSUME PreviewTypes, Next
    PROVE  \A s \in Sessions : edits[s] \in Nat /\ edits'[s] \in Nat /\ edits[s] <= edits'[s]
  <1> USE DEF givenVars, fileVars, editVars, clientVars, laneVars, givenToJobs
  <1>1. \A s \in Sessions : edits[s] \in Nat
    BY StampsComparable
  <1>2. ASSUME NEW k \in Tabs, Save(k) \/ SaveInline(k) \/ Clear(k)
        PROVE  \A s \in Sessions : edits[s] \in Nat /\ edits'[s] \in Nat /\ edits[s] <= edits'[s]
    <2>1. MayEdit(k) /\ edits' = [edits EXCEPT ![bound[k]] = Stamp(k)]
      BY <1>2 DEF Save, SaveInline, Clear
    <2> QED
      BY <2>1, EditsGrow
  <1>3. \A k \in Tabs : Send(k) \/ Cut(k) \/ (\E v \in puts[k] : PutDone(k, v)) => edits' = edits
    BY DEF Send, Cut, PutDone
  <1>4. \A r \in Requests : TaskStep(r) => edits' = edits
    BY DEF TaskStep, Cancel, GoWarm, GoCold, EngineReply, Stash, Deliver
  <1>5. (\E z \in Downloads : Ask(z)) \/ WorkerStep => edits' = edits
    BY DEF Ask, WorkerStep, Drain, Skip, Read, Render, Pack
  <1>6. ASSUME edits' = edits
        PROVE  \A s \in Sessions : edits[s] \in Nat /\ edits'[s] \in Nat /\ edits[s] <= edits'[s]
    BY <1>1, <1>6
  <1> QED
    BY <1>2, <1>3, <1>4, <1>5, <1>6 DEF Next

\* The files change to the last edit, or go.
LEMMA DiskNext ==
    ASSUME PreviewTypes, Next, NEW s \in Sessions, disk'[s] # disk[s]
    PROVE  disk'[s] = None \/ disk'[s] = edits[s]
  <1> USE DEF givenVars, fileVars, editVars, clientVars, laneVars, givenToJobs
  <1>1. ASSUME NEW k \in Tabs, NEW v \in puts[k], PutDone(k, v) PROVE disk'[s] = edits[s]
    BY <1>1, PutIsCurrent
  <1>2. ASSUME NEW k \in Tabs, Clear(k) PROVE disk'[s] = None
    <2>1. disk' = [disk EXCEPT ![bound[k]] = None]
      BY <1>2 DEF Clear
    <2> QED
      BY <2>1 DEF PreviewTypes, TypeOK
  <1>3. \A k \in Tabs : Save(k) \/ SaveInline(k) \/ Send(k) \/ Cut(k) => UNCHANGED disk
    BY DEF Save, SaveInline, Send, Cut
  <1>4. \A r \in Requests : TaskStep(r) => UNCHANGED disk
    BY DEF TaskStep, Cancel, GoWarm, GoCold, EngineReply, Stash, Deliver
  <1>5. (\E z \in Downloads : Ask(z)) \/ WorkerStep => UNCHANGED disk
    BY DEF Ask, WorkerStep, Drain, Skip, Read, Render, Pack
  <1> QED
    BY <1>1, <1>2, <1>3, <1>4, <1>5 DEF Next

\* No request carries an edit that was not made.
LEMMA DocPastNext ==
    ASSUME PreviewTypes, QueueInv, DiskPast, DocPast, Next
    PROVE  DocPast'
  <1> SUFFICES ASSUME NEW q \in Requests, doc'[q] # None
               PROVE  doc'[q] <= edits'[Session(q)]
    BY GivenNext DEF DocPast, Session
  <1> DEFINE s == Session(q)
  <1>0. s \in Sessions
    BY SourceTypes DEF PreviewTypes
  <1>1. edits[s] \in Nat /\ edits'[s] \in Nat /\ edits[s] <= edits'[s]
    BY <1>0, EditsNext
  <1>2. CASE doc'[q] = doc[q]
    <2>1. doc[q] \in Nat /\ doc[q] <= edits[s]
      BY <1>2, StampsComparable DEF DocPast
    <2> QED
      BY <1>1, <1>2, <2>1
  <1>3. ASSUME NEW k \in Tabs, SaveInline(k), q = <<k, frames[k] + 1>>, doc'[q] = Stamp(k)
        PROVE  doc'[q] <= edits'[s]
    <2>1. MayEdit(k) /\ edits' = [edits EXCEPT ![bound[k]] = Stamp(k)] /\ s = bound[k]
      BY <1>3 DEF SaveInline, Session
    <2>2. Stamp(k) \in Nat
      BY <2>1, StampTypes
    <2>3. edits'[s] = Stamp(k)
      BY <1>0, <2>1 DEF PreviewTypes, TypeOK
    <2> QED
      BY <1>3, <2>2, <2>3
  <1>4. CASE doc'[q] = disk[s]
    <2>1. disk[s] \in Nat /\ disk[s] <= edits[s]
      BY <1>0, <1>4, StampsComparable DEF DiskPast
    <2> QED
      BY <1>1, <1>4, <2>1
  <1> QED
    BY <1>2, <1>3, <1>4, DocNext

\* How the source of a request becomes known.
LEMMA KnownNext ==
    ASSUME PreviewTypes, QueueInv, Next, NEW r \in Requests, Known(r)'
    PROVE  \/ Known(r) /\ doc'[r] = doc[r]
           \/ setup.pool /\ \E k \in Tabs : SaveInline(k) /\ r = <<k, frames[k] + 1>> /\ doc'[r] = Stamp(k)
           \/ GoWarm(r) /\ doc[r] = None /\ doc'[r] = disk[Session(r)]
           \/ Read /\ r = Head(burst) /\ doc'[r] = disk[Session(r)]
  <1>0. TypeOK /\ setup' = setup /\ stage[r] # "late"
    BY GivenNext, LateNext DEF PreviewTypes, Known
  <1>1. CASE setup.pool
    BY <1>0, <1>1, DocNext DEF Known
  <1>2. CASE ~setup.pool
    <2>1. reply'[r] \in {"busy", "ok"}
      BY <1>0, <1>2 DEF Known
    <2>2. ~GoWarm(r)
      BY <1>2 DEF GoWarm
    <2>3. CASE reply'[r] # reply[r]
      <3>1. ~EngineReply(r)
        BY <1>2 DEF EngineReply, QueueInv, Placed
      <3>2. burst # <<>> /\ r = Head(burst) /\ (Skip \/ Read \/ Render)
        BY <2>3, <3>1, ReplyNext
      <3>3. ~Skip
        BY <1>0, <2>1, <3>2 DEF Skip, Answered, TypeOK
      <3>4. CASE Read
        BY <1>0, <3>2, <3>4 DEF Read, TypeOK
      <3>5. CASE Render
        <4>1. reply[r] = "busy" /\ doc' = doc
          BY <3>2, <3>5 DEF Render, clientVars, laneVars
        <4> QED
          BY <1>0, <4>1 DEF Known
      <3> QED
        BY <3>2, <3>3, <3>4, <3>5
    <2>4. CASE reply'[r] = reply[r]
      <3>1. ASSUME NEW k \in Tabs, r = <<k, frames[k] + 1>> PROVE FALSE
        <4>1. frames[k] \in Nat /\ r[1] = k /\ r[2] = frames[k] + 1
          BY <1>0, <3>1 DEF TypeOK
        <4>2. reply[r] = None
          BY <4>1 DEF QueueInv, Placed
        <4> QED
          BY <2>1, <2>4, <4>2, PreviewNoneAssumption
      <3> QED
        BY <1>0, <2>1, <2>2, <2>4, <3>1, DocNext DEF Known
    <2> QED
      BY <2>3, <2>4
  <1> QED
    BY <1>1, <1>2

\* The files are as new as what was read from them.
LEMMA ReadPastNext ==
    ASSUME PreviewTypes, QueueInv, DocPast, ReadPast, Next
    PROVE  ReadPast'
  <1> SUFFICES ASSUME OneLane, ~(setup.pool /\ setup.inline), NEW r \in Requests, Known(r)',
                      disk'[Session(r)] # None
               PROVE  doc'[r] <= disk'[Session(r)]
    BY GivenNext DEF ReadPast, OneLane, Session
  <1> DEFINE s == Session(r)
  <1>0. s \in Sessions /\ doc'[r] # None
    BY SourceTypes DEF PreviewTypes, Known
  <1>1. CASE Known(r) /\ doc'[r] = doc[r]
    <2>1. doc[r] # None /\ doc[r] \in Nat
      BY <1>0, <1>1, StampsComparable
    <2>2. CASE disk'[s] = disk[s]
      BY <1>1, <2>2 DEF ReadPast
    <2>3. CASE disk'[s] # disk[s]
      <3>1. disk'[s] = edits[s]
        BY <1>0, <2>3, DiskNext
      <3> QED
        BY <1>1, <2>1, <3>1 DEF DocPast
    <2> QED
      BY <2>2, <2>3
  <1>2. ASSUME NEW k \in Tabs, SaveInline(k), setup.pool PROVE FALSE
    BY <1>2 DEF SaveInline
  <1>3. CASE (GoWarm(r) \/ Read) /\ doc'[r] = disk[s]
    <2>1. disk' = disk
      BY <1>3 DEF GoWarm, Read, fileVars
    <2>2. doc'[r] \in Nat
      BY <1>0, <1>3, StampsComparable
    <2> QED
      BY <1>3, <2>1, <2>2
  <1> QED
    BY <1>1, <1>2, <1>3, KnownNext

\* Every step keeps the results of a tab in the order of its requests.
LEMMA ResultsInOrderNext ==
    ASSUME PreviewTypes, QueueInv, LaneInv, DiskPast, DocPast, ReadPast, ResultsInOrder, Next
    PROVE  ResultsInOrder'
  <1> SUFFICES ASSUME OneLane, NEW r \in Requests, NEW q \in Requests, Earlier(r, q),
                      Known(r)', Known(q)'
               PROVE  doc'[r] <= doc'[q]
    BY GivenNext DEF ResultsInOrder, OneLane, Earlier
  <1> DEFINE s == Session(q)
  <1>0. /\ s \in Sessions /\ Session(r) = s /\ doc'[r] # None /\ doc'[q] # None
        /\ r[1] = q[1] /\ r[2] < q[2] /\ r[1] \in Tabs /\ r[2] \in Nat /\ q[2] \in Nat
        /\ r[2] >= 1 /\ q[2] <= MaxFrames
        /\ \A k \in Tabs : frames[k] \in Nat
    <2>1. r[1] = q[1] /\ r[2] < q[2] /\ doc'[r] # None /\ doc'[q] # None
      BY DEF Earlier, Known
    <2>2. r[1] \in Tabs /\ r[2] \in 1..MaxFrames /\ q[2] \in 1..MaxFrames
      BY RequestPairs
    <2>3. s \in Sessions /\ Session(r) = s
      BY <2>1, SourceTypes DEF PreviewTypes, Session
    <2>4. \A k \in Tabs : frames[k] \in Nat
      BY DEF PreviewTypes, TypeOK
    <2> QED
      BY <2>1, <2>2, <2>3, <2>4, PreviewConstantsAssumption
  <1>1. /\ doc[r] # None => doc[r] \in Nat /\ doc[r] <= edits[s]
        /\ disk[s] # None => disk[s] \in Nat /\ disk[s] <= edits[s]
        /\ edits[s] \in Nat
    BY <1>0, StampsComparable DEF DocPast, DiskPast
  <1>2. ASSUME Read PROVE ~setup.pool /\ Head(burst) \in Requests /\ Waits(Head(burst))
    BY <1>2, HeadIsOldest DEF Read, LaneInv, PoolOnly, QueueInv, PreviewTypes
  <1>3. ASSUME NEW k \in Tabs, r = <<k, frames[k] + 1>> PROVE ~Known(q)
    <2>1. q[2] > frames[q[1]]
      BY <1>0, <1>3
    <2> QED
      BY <2>1 DEF QueueInv, Placed, Known
  <1>4. CASE Known(q) /\ doc'[q] = doc[q]
    <2>1. CASE Known(r) /\ doc'[r] = doc[r]
      BY <1>4, <2>1 DEF ResultsInOrder
    <2>2. ~GoWarm(r)
      BY <1>4, GoesNewest DEF Known, Earlier
    <2>3. ~(Read /\ r = Head(burst))
      BY <1>2, <1>4, LateNext DEF LaneInv, WorkerInOrder, Known
    <2> QED
      BY <1>3, <1>4, <2>1, <2>2, <2>3, KnownNext
  <1>5. ASSUME NEW k \in Tabs, SaveInline(k), q = <<k, frames[k] + 1>>, doc'[q] = Stamp(k)
        PROVE  doc'[r] <= doc'[q]
    <2>1. doc'[q] = edits[s] + 1
      BY <1>5 DEF Stamp, Session
    <2>2. r # <<r[1], frames[r[1]] + 1>>
      BY <1>0, <1>5
    <2>3. \A j \in Tabs : r # <<j, frames[j] + 1>>
      BY <2>2
    <2>4. doc'[r] = doc[r] \/ doc'[r] = disk[s]
      BY <1>0, <2>3, KnownNext
    <2>5. doc'[r] \in Nat /\ doc'[r] <= edits[s]
      BY <1>0, <1>1, <2>4
    <2> QED
      BY <1>1, <2>1, <2>5
  <1>6. ASSUME doc'[q] = disk[s], Read \/ GoWarm(q), Known(r), doc'[r] = doc[r],
               ~(setup.pool /\ setup.inline)
        PROVE  doc'[r] <= doc'[q]
    BY <1>0, <1>6 DEF ReadPast
  <1>7. CASE doc'[r] = disk[s] /\ doc'[q] = disk[s]
    BY <1>0, <1>1, <1>7
  <1>8. CASE Read /\ q = Head(burst) /\ doc'[q] = disk[s]
    BY <1>0, <1>2, <1>6, <1>7, <1>8, KnownNext
  <1>9. CASE GoWarm(q) /\ doc[q] = None /\ doc'[q] = disk[s]
    <2>1. q[2] = frames[q[1]] /\ setup.pool
      BY <1>9, GoesNewest DEF GoWarm, Known
    <2>2. ~setup.inline
      <3>1. q[2] \in 2..MaxFrames /\ q[2] <= frames[q[1]] /\ q = <<q[1], q[2]>>
        BY <1>0, <2>1, RequestPairs, PreviewConstantsAssumption
      <3> QED
        BY <1>0, <1>9, <2>1, <3>1 DEF LaneInv, BootFirst
    <2>3. \A k \in Tabs : r # <<k, frames[k] + 1>>
      BY <1>0, <2>1
    <2> QED
      BY <1>0, <1>6, <1>7, <1>9, <2>2, <2>3, KnownNext
  <1> QED
    BY <1>4, <1>5, <1>8, <1>9, KnownNext

\* A result stays what it is.
LEMMA ResultKept ==
    ASSUME PreviewTypes, QueueInv, Next, NEW r \in Requests, reply[r] = "ok", stage[r] # "late"
    PROVE  reply'[r] = "ok" /\ doc'[r] = doc[r] /\ stage'[r] # "late"
  <1>1. ~Waits(r) /\ stage[r] \notin {"none", "start", "engine"}
    BY PreviewNoneAssumption DEF QueueInv, Placed
  <1>2. ~EngineReply(r) /\ ~GoWarm(r)
    BY <1>1 DEF EngineReply, GoWarm
  <1>3. burst # <<>> => r # Head(burst)
    BY <1>1, HeadIsOldest DEF PreviewTypes, QueueInv
  <1>4. \A k \in Tabs : r # <<k, frames[k] + 1>>
    <2> SUFFICES ASSUME NEW k \in Tabs, r = <<k, frames[k] + 1>> PROVE FALSE
      OBVIOUS
    <2>1. frames[k] \in Nat /\ r[1] = k /\ r[2] = frames[k] + 1
      BY DEF PreviewTypes, TypeOK
    <2> QED
      BY <1>1, <2>1 DEF QueueInv, Placed
  <1>5. reply'[r] = reply[r]
    BY <1>2, <1>3, ReplyNext
  <1>6. doc'[r] = doc[r]
    BY <1>2, <1>3, <1>4, DocNext DEF Read
  <1>7. stage'[r] # "late"
    BY <1>1, LateNext DEF GoWarm, GoCold
  <1> QED
    BY <1>5, <1>6, <1>7

\* The preview changes to the result of a request that is not behind the last.
LEMMA ShownNext ==
    ASSUME PreviewTypes, Next, NEW k \in Tabs
    PROVE  \/ view'[k] = view[k] /\ latestSeen[k] <= latestSeen'[k]
           \/ \E m \in 1..MaxFrames : /\ latestSeen[k] <= m /\ reply[<<k, m>>] = "ok" /\ stage[<<k, m>>] # "late"
                                      /\ latestSeen'[k] = m /\ view'[k] = doc[<<k, m>>]
  <1> USE DEF givenVars, fileVars, editVars, clientVars, laneVars, givenToJobs
  <1>0. TypeOK /\ latestSeen[k] \in Nat
    BY DEF PreviewTypes, TypeOK
  <1>1. ASSUME view' = view, latestSeen' = latestSeen
        PROVE  view'[k] = view[k] /\ latestSeen[k] <= latestSeen'[k]
    BY <1>0, <1>1
  <1>2. ASSUME NEW r \in Requests, Deliver(r), ~(view' = view /\ latestSeen' = latestSeen)
        PROVE  \/ view'[k] = view[k] /\ latestSeen[k] <= latestSeen'[k]
               \/ \E m \in 1..MaxFrames : /\ latestSeen[k] <= m /\ reply[<<k, m>>] = "ok" /\ stage[<<k, m>>] # "late"
                                          /\ latestSeen'[k] = m /\ view'[k] = doc[<<k, m>>]
    <2>1. r[1] \in Tabs /\ r[2] \in 1..MaxFrames /\ r[2] \in Nat /\ r = <<r[1], r[2]>>
      BY RequestPairs
    <2>2. ShowFatal(r[1], r[2]) \/ ShowResult(r[1], r[2])
      BY <1>2 DEF Deliver, Ignore
    <2>3. r[2] >= latestSeen[r[1]] /\ latestSeen' = [latestSeen EXCEPT ![r[1]] = r[2]]
      BY <2>2 DEF ShowFatal, ShowResult
    <2>4. CASE ShowFatal(r[1], r[2])
      <3>1. view' = view
        BY <2>4 DEF ShowFatal
      <3> QED
        BY <1>0, <2>1, <2>3, <3>1 DEF TypeOK
    <2>5. CASE ShowResult(r[1], r[2])
      <3>1. reply[r] = "ok" /\ stage[r] # "late" /\ view' = [view EXCEPT ![r[1]] = doc[r]]
        BY <1>2, <2>1, <2>5 DEF ShowResult, Deliver
      <3>2. CASE k = r[1]
        <4>1. view'[k] = doc[<<k, r[2]>>] /\ latestSeen'[k] = r[2]
              /\ reply[<<k, r[2]>>] = "ok" /\ stage[<<k, r[2]>>] # "late"
          BY <1>0, <2>1, <2>3, <3>1, <3>2 DEF TypeOK
        <4> QED
          BY <1>0, <2>1, <2>3, <3>2, <4>1
      <3>3. CASE k # r[1]
        BY <1>0, <2>3, <3>1, <3>3 DEF TypeOK
      <3> QED
        BY <3>2, <3>3
    <2> QED
      BY <2>2, <2>4, <2>5
  <1>3. \A j \in Tabs : Save(j) \/ SaveInline(j) \/ Clear(j) \/ Send(j) \/ Cut(j) \/
                        (\E v \in puts[j] : PutDone(j, v)) => view' = view /\ latestSeen' = latestSeen
    BY DEF Save, SaveInline, Clear, Send, Cut, PutDone
  <1>4. \A r \in Requests : Cancel(r) \/ GoWarm(r) \/ GoCold(r) \/ EngineReply(r) \/ Stash(r) =>
            view' = view /\ latestSeen' = latestSeen
    BY DEF Cancel, GoWarm, GoCold, EngineReply, Stash
  <1>5. (\E z \in Downloads : Ask(z)) \/ WorkerStep => view' = view /\ latestSeen' = latestSeen
    BY DEF Ask, WorkerStep, Drain, Skip, Read, Render, Pack
  <1> QED
    BY <1>1, <1>2, <1>3, <1>4, <1>5 DEF Next, TaskStep

\* Every step keeps the preview a result, not newer than the last id.
LEMMA ViewIsResultNext ==
    ASSUME PreviewTypes, QueueInv, ViewIsResult, Next
    PROVE  ViewIsResult'
  <1> SUFFICES ASSUME NEW k \in Tabs, view'[k] # None
               PROVE  \E m \in 1..MaxFrames : /\ m <= latestSeen'[k] /\ reply'[<<k, m>>] = "ok"
                                              /\ stage'[<<k, m>>] # "late" /\ doc'[<<k, m>>] = view'[k]
    BY DEF ViewIsResult
  <1>0. MaxFrames \in Nat /\ latestSeen[k] \in Nat /\ latestSeen'[k] \in Nat
    BY TypesNext, PreviewConstantsAssumption DEF PreviewTypes, TypeOK
  <1>1. \A m \in 1..MaxFrames : reply[<<k, m>>] = "ok" /\ stage[<<k, m>>] # "late" =>
            reply'[<<k, m>>] = "ok" /\ doc'[<<k, m>>] = doc[<<k, m>>] /\ stage'[<<k, m>>] # "late"
    BY RequestPairs, ResultKept
  <1>2. CASE view'[k] = view[k] /\ latestSeen[k] <= latestSeen'[k]
    <2>1. PICK m \in 1..MaxFrames : /\ m <= latestSeen[k] /\ reply[<<k, m>>] = "ok"
                                    /\ stage[<<k, m>>] # "late" /\ doc[<<k, m>>] = view[k]
      BY <1>2 DEF ViewIsResult
    <2>2. m <= latestSeen'[k]
      BY <1>0, <1>2, <2>1
    <2> QED
      BY <1>1, <1>2, <2>1, <2>2
  <1>3. CASE \E m \in 1..MaxFrames : /\ latestSeen[k] <= m /\ reply[<<k, m>>] = "ok" /\ stage[<<k, m>>] # "late"
                                     /\ latestSeen'[k] = m /\ view'[k] = doc[<<k, m>>]
    <2>1. PICK m \in 1..MaxFrames : /\ reply[<<k, m>>] = "ok" /\ stage[<<k, m>>] # "late"
                                    /\ latestSeen'[k] = m /\ view'[k] = doc[<<k, m>>]
      BY <1>3
    <2>2. m <= latestSeen'[k]
      BY <1>0, <2>1
    <2> QED
      BY <1>1, <2>1, <2>2
  <1> QED
    BY <1>2, <1>3, ShownNext

\* A step that changes nothing.
LEMMA LanesKept ==
    ASSUME LaneInv, ResultInv, UNCHANGED vars
    PROVE  LaneInv' /\ ResultInv'
  <1> USE DEF vars, givenVars, fileVars, editVars, clientVars, laneVars
  <1>1. LaneInv'
    BY DEF LaneInv, WorkerInOrder, PoolOnly, BootFirst, Waits, OneLane, Earlier
  <1>2. ResultInv'
    BY DEF ResultInv, DocPast, ReadPast, ResultsInOrder, ViewIsResult, Known, OneLane, Earlier, Session
  <1> QED
    BY <1>1, <1>2

\* The strengthened invariant, from one step to the next.
LEMMA PreviewInvNext == PreviewInv /\ [Next]_vars => PreviewInv'
  <1> SUFFICES ASSUME PreviewInv, [Next]_vars
               PROVE  PreviewInv'
    OBVIOUS
  <1>1. PreviewTypes' /\ DownloadsInv' /\ QueueInv'
    BY TypesNext, DownloadsNext, QueueNext DEF PreviewInv
  <1>2. CASE Next
    <2>1. /\ PreviewTypes /\ QueueInv /\ DiskPast /\ DocPast /\ ReadPast /\ ResultsInOrder
          /\ ViewIsResult /\ WorkerInOrder /\ PoolOnly /\ BootFirst /\ LaneInv
      BY DEF PreviewInv, DownloadsInv, LaneInv, ResultInv
    <2>2. LaneInv'
      BY <1>2, <2>1, WorkerInOrderNext, PoolOnlyNext, BootFirstNext DEF LaneInv
    <2>3. ResultInv'
      BY <1>2, <2>1, DocPastNext, ReadPastNext, ResultsInOrderNext, ViewIsResultNext DEF ResultInv
    <2> QED
      BY <1>1, <2>2, <2>3 DEF PreviewInv
  <1>3. CASE UNCHANGED vars
    BY <1>1, <1>3, LanesKept DEF PreviewInv
  <1> QED
    BY <1>2, <1>3

\* The first state.
LEMMA PreviewInvInit == Init => PreviewInv
  <1> SUFFICES ASSUME Init
               PROVE  PreviewInv
    OBVIOUS
  <1>1. PreviewTypes
    BY TypesInit
  <1>2. DownloadsInv
    BY PreviewNoneAssumption DEF Init, DownloadsInv, DiskPast, DownloadPast
  <1>3. \A r : ~Waits(r)
    BY DEF Init, Waits
  <1>4. /\ \A r \in Requests : stage[r] = "none" /\ doc[r] = None /\ reply[r] = None
        /\ \A k \in Tabs : view[k] = None /\ frames[k] = 0 /\ due[k] = 1
        /\ \A s \in Sessions : disk[s] = 0
        /\ 0 # None
    BY PreviewNoneAssumption DEF Init
  <1>5. \A r \in Requests : Placed(r)
    <2>1. \A r \in Requests : r[1] \in Tabs /\ r[2] \in 1..MaxFrames
      BY RequestPairs
    <2> QED
      BY <1>3, <1>4, <2>1, PreviewNoneAssumption DEF Placed
  <1>6. QueueInv
    BY <1>5 DEF Init, QueueInv, QueueOrder
  <1>7. LaneInv
    BY <1>3, <1>4, PreviewConstantsAssumption DEF LaneInv, WorkerInOrder, PoolOnly, BootFirst
  <1>8. ResultInv
    BY <1>4 DEF ResultInv, DocPast, ReadPast, ResultsInOrder, ViewIsResult, Known
  <1> QED
    BY <1>1, <1>2, <1>6, <1>7, <1>8 DEF PreviewInv

\* Where one lane serves every conversion, a preview never goes back to an older
\* edit (onWsMessage shows a result unless it is behind the last one shown;
\* run_socket, convert_inner and worker_main keep the results of a socket in the
\* order of the edits they were read from).
THEOREM PreviewNeverGoesBack == Spec => NeverBackwards
  <1>1. ASSUME PreviewInv, [Next]_vars
        PROVE  [OneLane => \A k \in Tabs : view[k] # None => view'[k] >= view[k]]_vars
    <2> SUFFICES ASSUME Next, OneLane, NEW k \in Tabs, view[k] # None
                 PROVE  view'[k] >= view[k]
      BY <1>1
    <2>1. view[k] \in Nat /\ latestSeen[k] \in Nat
      BY <1>1, PreviewConstantsAssumption DEF PreviewInv, PreviewTypes, TypeOK, Edits
    <2>2. CASE view'[k] = view[k]
      BY <2>1, <2>2
    <2>3. CASE \E n \in 1..MaxFrames : /\ latestSeen[k] <= n /\ reply[<<k, n>>] = "ok" /\ stage[<<k, n>>] # "late"
                                       /\ latestSeen'[k] = n /\ view'[k] = doc[<<k, n>>]
      <3>1. PICK n \in 1..MaxFrames : /\ latestSeen[k] <= n /\ reply[<<k, n>>] = "ok"
                                      /\ stage[<<k, n>>] # "late" /\ view'[k] = doc[<<k, n>>]
        BY <2>3
      <3>2. PICK m \in 1..MaxFrames : /\ m <= latestSeen[k] /\ reply[<<k, m>>] = "ok"
                                      /\ stage[<<k, m>>] # "late" /\ doc[<<k, m>>] = view[k]
        BY <1>1 DEF PreviewInv, ResultInv, ViewIsResult
      <3>3. CASE m = n
        BY <2>1, <3>1, <3>2, <3>3
      <3>4. CASE m # n
        <4>1. m < n /\ n \in Nat
          BY <2>1, <3>1, <3>2, <3>4
        <4>2. Earlier(<<k, m>>, <<k, n>>)
          BY <4>1, RequestPairs DEF Earlier
        <4>3. <<k, m>> \in Requests /\ <<k, n>> \in Requests
          BY RequestPairs
        <4>4. Known(<<k, m>>) /\ Known(<<k, n>>)
          BY <1>1, <3>1, <3>2, <4>3 DEF Known, PreviewInv, QueueInv, Placed
        <4>5. doc[<<k, m>>] <= doc[<<k, n>>]
          BY <1>1, <4>2, <4>3, <4>4 DEF PreviewInv, ResultInv, ResultsInOrder
        <4>6. doc[<<k, n>>] \in Nat
          BY <1>1, <4>3, <4>4, StampsComparable DEF Known, PreviewInv
        <4> QED
          BY <2>1, <3>1, <3>2, <4>5, <4>6
      <3> QED
        BY <3>3, <3>4
    <2> QED
      BY <1>1, <2>2, <2>3, ShownNext DEF PreviewInv
  <1> QED
    BY <1>1, PreviewInvInit, PreviewInvNext, PTL DEF Spec, NeverBackwards
=============================================================================
