------------------------- MODULE EditBuffersProofs -------------------------
(***************************************************************************)
(* Proofs about EditBuffers: its types, that nothing typed leaves the tab, *)
(* that main.ts and editor.ts agree on the file that is open, and that the *)
(* server has what a patient user sees once the page is quiet.             *)
(***************************************************************************)
EXTENDS EditBuffers, TLAPS

-----------------------------------------------------------------------------
(* The inductive invariants.                                               *)

\* A session that is gone can be followed by another one.
SessionsTyped ==
    /\ store \in [Slots -> [gen : 1..MaxGen, live : BOOLEAN, files : [Files -> MaybeTexts]]]
    /\ \A s \in Slots : store[s].live \/ store[s].gen < MaxGen

\* The types of everything but the tasks.
PageTypes ==
    /\ setup \in Setups
    /\ SessionsTyped
    /\ slot \in Slots
    /\ env \in Envs
    /\ view \in [active : MaybeFiles, doc : Texts]
    /\ buffers \in [Files -> MaybeTexts]
    /\ activePath \in MaybeFiles /\ panel \in MaybeFiles /\ timer \in MaybeFiles
    /\ asked \in BOOLEAN /\ card \in BOOLEAN
    /\ edits \in 0..MaxEdits
    /\ newest \in [Files -> 0..MaxEdits]

\* A handler has what the rest of it needs: a session, the file and the text of a
\* PUT, the file it opens, the text it has been answered with.
Good(k) ==
    /\ k \in Handlers
    /\ k.at # "idle" => k.to \in Ids
    /\ k.req \in {"put", "get", "delete"} => k.path \in Files
    /\ k.req = "put" => k.text \in Texts
    /\ k.op \in {"save", "aux"} /\ k.req = "session" => k.path \in Files /\ k.text \in Texts
    /\ k.req = "get" /\ k.at = "ok" => k.body \in Texts
    /\ k.op = "open" => k.goal \in Files

TasksGood == task \in [Tasks -> Handlers] /\ \A t \in Tasks : Good(task[t])

\* Only a user who swaps has a swap under way.
SwapsAsked == \A t \in Tasks : task[t].op = "swap" => "swap" \in setup.ops

BufTypes == PageTypes /\ TasksGood /\ SwapsAsked

\* The file that is shown has a buffer, so that it is kept when it is left.
ShownIsKept == view.active # None => buffers[view.active] # None

EditorInv == ShownIsKept /\ NothingTypedIsLost /\ OpenFileIsShown

BufInv == BufTypes /\ EditorInv

\* A patient user acts, and the debounce fires, only when no handler waits, so at
\* most one does: k, or Idle.

\* What is kept of a file in the tab, and what the tab's session has.
Kept(f) == IF f = view.active THEN view.doc ELSE buffers[f]
Saved   == store[env.slot].files

\* The text of the file that is shown is on its way.
Saving(k, f) == f = view.active /\ (timer = f \/ (k.at = "sent" /\ k.req = "put"))

\* Files have gone that the tab still lists.
Dropping(k) == k.op \in {"delete", "clear"} /\ (k.at = "ok" \/ k.req = "list")

\* Whatever the tab keeps of a file is what the server has of it, so that showing
\* a file again shows what was saved.
Synced(k) ==
    Live(env) =>
        /\ \A f \in Present(Saved) : Saving(k, f) \/ Kept(f) \in {None, Saved[f]}
        /\ Dropping(k) \/ env.files \subseteq Present(Saved)

\* Outside a swap main.ts and editor.ts agree, the debounce is for the file that
\* is shown, and the user has not been shown the card.
PageCalm(k) ==
    /\ ~card /\ (asked => Live(env)) /\ env.gen <= store[env.slot].gen
    /\ timer # None => timer = view.active /\ k.at = "idle"
    /\ activePath \in {None, view.active} \/ (k.at # "idle" /\ k.op = "swap" /\ k.req = "get")

\* The requests of a handler.
Asks == {<<"save", "put">>, <<"save", "session">>, <<"fast", "put">>, <<"aux", "put">>,
         <<"aux", "get">>, <<"open", "put">>, <<"open", "get">>, <<"nav", "get">>,
         <<"delete", "delete">>, <<"delete", "list">>, <<"clear", "clear">>,
         <<"swap", "session">>, <<"swap", "get">>}

\* Only a save meets a session that is gone; it saves what is shown, and every
\* other answer is what the server has.
TaskCalm(k) ==
    /\ k.at \in {"sent", "ok", "gone"} /\ <<k.op, k.req>> \in Asks
    /\ k.at = "gone" => k.op = "save" /\ k.req = "put" /\ ~k.again
    /\ k.op = "save" \/ k.req = "put" => k.path = view.active /\ k.text = view.doc
    /\ k.req # "session" => k.to = Id(env)
    /\ k.op = "save" /\ (k.at = "gone" \/ k.req = "session") => ~Live(env)
    /\ k.req # "session" /\ (k.op # "save" \/ k.at = "ok" \/ k.again) => Live(env)
    /\ k.op = "save" /\ k.req = "session" => k.to.slot = env.slot
    /\ k.req = "session" /\ k.at = "ok" =>
          Live(k.to) /\ k.files = Present(store[k.to.slot].files)
    /\ k.req = "get" => k.path \in Present(Saved) /\ (k.at = "ok" => k.body = Saved[k.path])
    /\ k.req = "delete" /\ k.at = "sent" => k.path \in Present(Saved)
    /\ k.req = "list" /\ k.at = "ok" => k.files = Present(Saved)
    /\ k.op = "open" => k.goal \in Present(Saved) /\ k.made = None /\ (k.req = "get" => k.path = k.goal)
    /\ k.op = "swap" /\ k.req = "get" => view.active = None /\ \A f \in Files : buffers[f] = None

\* Without expiry the slots keep their sessions,
AllLive == \A s \in Slots : store[s].live /\ store[s].gen = 1

\* ... and a user who edits and swaps only ever has the main file open.
MainOnly(k) ==
    /\ \A s \in Slots : Present(store[s].files) = Template[s]
    /\ env.files = Template[env.slot]
    /\ view.active \in {None, Main} /\ \A f \in Files \ {Main} : buffers[f] = None
    /\ k.at # "idle" => /\ k.op \in {"save", "swap"}
                        /\ k.op = "swap" /\ k.req = "get" => k.path = Main

Calm(k) ==
    /\ PageCalm(k) /\ Synced(k) /\ (k.at # "idle" => TaskCalm(k))
    /\ Careful(setup) => AllLive
    /\ Expiring(setup) => MainOnly(k)

CalmInv ==
    Patient(setup) =>
        \/ (\A t \in Tasks : Free(t)) /\ Calm(Idle)
        \/ \E t \in Tasks :
              /\ ~Free(t) /\ (\A u \in Tasks \ {t} : Free(u))
              /\ Calm(task[t])

-----------------------------------------------------------------------------
(* Handlers.                                                               *)

\* What the constants are.
LEMMA Constants ==
    /\ Main \in Files /\ First \in Slots /\ None \notin Files /\ None \notin Slots
    /\ \A s \in Slots : Template[s] \subseteq Files /\ Main \in Template[s]
    /\ \A u \in Setups : u.tex \subseteq Files
    /\ MaxEdits \in Nat /\ MaxGen \in Nat /\ 1 \in 1..MaxGen
  BY BuffersAssumption

\* A text is not None.
LEMMA TextsAreTexts == None \notin Texts
  BY BuffersAssumption

\* The fields of a handler.
LEMMA Fields ==
    ASSUME NEW k \in Handlers
    PROVE  /\ k.op \in {"none", "save", "fast", "aux", "open", "nav", "delete", "clear", "create",
                        "upload", "swap", "reopen"}
           /\ k.at \in {"idle", "sent", "ok", "gone", "fail"}
           /\ k.req \in {"none", "put", "get", "list", "delete", "clear", "session"}
           /\ k.to \in Ids \union {None} /\ k.path \in MaybeFiles /\ k.text \in MaybeTexts
           /\ k.body \in MaybeTexts /\ k.files \in SUBSET Files
           /\ k.goal \in MaybeFiles /\ k.then \in BOOLEAN /\ k.made \in MaybeFiles /\ k.again \in BOOLEAN
  BY DEF Handlers

\* A handler that does nothing is one.
LEMMA IdleGood == Good(Idle) /\ Idle.op = "none" /\ Idle \in Handlers
  BY DEF Good, Idle, Handlers, MaybeFiles, MaybeTexts

\* The parts of an envelope.
LEMMA EnvTypes ==
    ASSUME NEW e \in Envs
    PROVE  Id(e) \in Ids /\ e.files \subseteq Files /\ e.slot \in Slots /\ e.gen \in 1..MaxGen
  BY DEF Envs, Ids, Id

\* A handler that PUTs has what it needs,
LEMMA PutGood ==
    ASSUME NEW k \in Handlers, k.op = "open" => k.goal \in Files,
           NEW e \in Envs, NEW p \in Files, NEW x \in Texts
    PROVE  Good(Put(k, e, p, x)) /\ Put(k, e, p, x).op = k.op
  <1> DEFINE m == Put(k, e, p, x)
  <1>1. /\ m.op = k.op /\ m.at = "sent" /\ m.req = "put" /\ m.to = Id(e) /\ m.path = p /\ m.text = x
        /\ m.goal = k.goal
    BY DEF Put, Handlers
  <1>2. m \in Handlers
    BY EnvTypes DEF Put, Handlers, MaybeFiles, MaybeTexts
  <1> QED
    BY <1>1, <1>2, EnvTypes DEF Good

\* ... that GETs.
LEMMA GetGood ==
    ASSUME NEW k \in Handlers, k.op = "open" => k.goal \in Files, NEW e \in Envs, NEW p \in Files
    PROVE  Good(Get(k, e, p)) /\ Get(k, e, p).op = k.op
  <1> DEFINE m == Get(k, e, p)
  <1>1. m.op = k.op /\ m.at = "sent" /\ m.req = "get" /\ m.to = Id(e) /\ m.path = p /\ m.goal = k.goal
    BY DEF Get, Handlers
  <1>2. m \in Handlers
    BY EnvTypes DEF Get, Handlers, MaybeFiles, MaybeTexts
  <1> QED
    BY <1>1, <1>2, EnvTypes DEF Good

\* ... that opens a slot.
LEMMA OpenGood ==
    ASSUME NEW k \in Handlers, k.op # "open", NEW s \in Slots,
           k.op \in {"save", "aux"} => k.path \in Files /\ k.text \in Texts
    PROVE  Good(Open(k, s)) /\ Open(k, s).op = k.op
  <1> DEFINE m == Open(k, s)
  <1>1. /\ m.op = k.op /\ m.at = "sent" /\ m.req = "session" /\ m.to = [slot |-> s, gen |-> 1]
        /\ m.path = k.path /\ m.text = k.text /\ m.goal = k.goal
    BY DEF Open, Handlers
  <1>2. m.to \in Ids
    BY <1>1, Constants DEF Ids
  <1>3. m \in Handlers
    BY <1>1, <1>2 DEF Open, Handlers
  <1> QED
    BY <1>1, <1>2, <1>3 DEF Good

\* ... that lists the files.
LEMMA ListGood ==
    ASSUME PageTypes, NEW k \in Handlers, k.op = "open" => k.goal \in Files
    PROVE  Good(List(k)) /\ List(k).op = k.op
  <1> DEFINE m == List(k)
  <1>1. m.op = k.op /\ m.at = "sent" /\ m.req = "list" /\ m.to = Id(env) /\ m.goal = k.goal
    BY DEF List, Handlers
  <1>2. m.to \in Ids
    BY <1>1, EnvTypes DEF PageTypes
  <1>3. m \in Handlers
    BY <1>1, <1>2 DEF List, Handlers, MaybeTexts
  <1> QED
    BY <1>1, <1>2, <1>3 DEF Good

\* ... that opens a file from the panel.
LEMMA OpeningGood ==
    ASSUME NEW p \in Files, NEW e \in Envs, NEW a, NEW x, a \in e.files => x \in Texts
    PROVE  Good(Opening(p, e, a, x)) /\ Opening(p, e, a, x).op = "open"
  <1> DEFINE r == [Idle EXCEPT !.op = "open", !.goal = p]
  <1>1. r \in Handlers /\ r.op = "open" /\ r.goal = p
    BY DEF Idle, Handlers, MaybeFiles, MaybeTexts
  <1>2. Opening(p, e, a, x) = IF a \in e.files THEN Put(r, e, a, x) ELSE Get(r, e, p)
    BY DEF Opening
  <1> HIDE DEF r
  <1>3. CASE a \in e.files
    <2>1. a \in Files /\ x \in Texts
      BY <1>3, EnvTypes
    <2>2. Good(Put(r, e, a, x)) /\ Put(r, e, a, x).op = r.op
      BY <1>1, <2>1, PutGood
    <2> QED
      BY <1>1, <1>2, <1>3, <2>2
  <1>4. CASE a \notin e.files
    <2>1. Good(Get(r, e, p)) /\ Get(r, e, p).op = r.op
      BY <1>1, GetGood
    <2> QED
      BY <1>1, <1>2, <1>4, <2>1
  <1> QED
    BY <1>3, <1>4

\* A handler takes its next step.
LEMMA TaskSet ==
    ASSUME TasksGood, SwapsAsked, NEW t \in Tasks, NEW k, Good(k),
           k.op = task[t].op \/ k.op # "swap" \/ "swap" \in setup.ops, setup' = setup, Set(t, k)
    PROVE  TasksGood' /\ SwapsAsked'
  <1>1. k \in Handlers /\ task' = [task EXCEPT ![t] = k]
    BY DEF Good, Set
  <1>2. task' \in [Tasks -> Handlers] /\ \A u \in Tasks : task'[u] = IF u = t THEN k ELSE task[u]
    BY <1>1 DEF TasksGood
  <1>3. TasksGood'
    BY <1>2 DEF TasksGood, Good
  <1>4. SwapsAsked'
    BY <1>2 DEF SwapsAsked
  <1> QED
    BY <1>3, <1>4

\* A handler ends.
LEMMA TaskEnds ==
    ASSUME TasksGood, SwapsAsked, NEW t \in Tasks, setup' = setup, End(t)
    PROVE  TasksGood' /\ SwapsAsked'
  BY IdleGood, TaskSet DEF End

\* The tasks are left alone.
LEMMA TasksKept ==
    ASSUME TasksGood, SwapsAsked, setup' = setup, task' = task
    PROVE  TasksGood' /\ SwapsAsked'
  BY DEF TasksGood, SwapsAsked, Good

\* What the main file of a listing is, and the file shown first.
LEMMA MainOfTypes ==
    ASSUME NEW F \in SUBSET Files
    PROVE  /\ MainOf(F) \in F \union {None}
           /\ F # {} => Initial(F) \in F
           /\ F = {} => Initial(F) = None
  <1>1. MainOf(F) \in F \union {None}
    BY DEF MainOf
  <1> QED
    BY <1>1 DEF Initial

\* The active path is kept or forgotten.
LEMMA ForgetsTypes ==
    ASSUME NEW e, NEW a
    PROVE  Forgets(e, a) \in {a, None}
  BY DEF Forgets

\* A file of a slot's session.
LEMMA StoreTypes ==
    ASSUME PageTypes, NEW s \in Slots
    PROVE  /\ store[s].gen \in 1..MaxGen /\ store[s].live \in BOOLEAN
           /\ store[s].files \in [Files -> MaybeTexts]
           /\ Present(store[s].files) \subseteq Files
           /\ \A f \in Present(store[s].files) : store[s].files[f] \in Texts
           /\ store[s].live \/ store[s].gen < MaxGen
  <1>1. store[s] \in [gen : 1..MaxGen, live : BOOLEAN, files : [Files -> MaybeTexts]]
    BY DEF PageTypes, SessionsTyped
  <1> QED
    BY <1>1 DEF PageTypes, SessionsTyped, Present, MaybeTexts

\* A slot is opened: its session is well formed, and so is the envelope.
LEMMA ReseededTypes ==
    ASSUME PageTypes, NEW s \in Slots
    PROVE  /\ Reseeded(s) \in [gen : 1..MaxGen, live : BOOLEAN, files : [Files -> MaybeTexts]]
           /\ Reseeded(s).live
           /\ EnvOf(s) \in Envs /\ EnvOf(s).files = Present(Reseeded(s).files) /\ EnvOf(s).slot = s
           /\ EnvOf(s).gen = Reseeded(s).gen
           /\ \A f \in Present(Reseeded(s).files) : Reseeded(s).files[f] \in Texts
  <1>1. Seeded(s) \in [Files -> MaybeTexts]
    BY Constants DEF Seeded, Text, MaybeTexts, Texts
  <1>2. Reseeded(s) \in [gen : 1..MaxGen, live : BOOLEAN, files : [Files -> MaybeTexts]] /\ Reseeded(s).live
    <2>1. CASE store[s].live
      BY <2>1 DEF Reseeded, PageTypes, SessionsTyped
    <2>2. CASE ~store[s].live
      <3>1. store[s].gen + 1 \in 1..MaxGen
        BY <2>2, StoreTypes, Constants
      <3> QED
        BY <1>1, <2>2, <3>1 DEF Reseeded
    <2> QED
      BY <2>1, <2>2
  <1>3. Present(Reseeded(s).files) \subseteq Files
    BY DEF Present
  <1>4. /\ EnvOf(s) \in Envs /\ EnvOf(s).files = Present(Reseeded(s).files) /\ EnvOf(s).slot = s
        /\ EnvOf(s).gen = Reseeded(s).gen
    BY <1>2, <1>3 DEF EnvOf, Envs
  <1>5. \A f \in Present(Reseeded(s).files) : Reseeded(s).files[f] \in Texts
    BY <1>2 DEF Present, MaybeTexts
  <1> QED
    BY <1>2, <1>4, <1>5

\* The envelope a handler has been answered with.
LEMMA OpenedTypes ==
    ASSUME TasksGood, NEW t \in Tasks, task[t].at # "idle"
    PROVE  Opened(t) \in Envs /\ Opened(t).files = task[t].files
  <1>1. task[t] \in Handlers /\ task[t].to \in Ids
    BY DEF TasksGood, Good
  <1>2. task[t].files \in SUBSET Files
    BY <1>1, Fields
  <1>3. task[t].to.slot \in Slots /\ task[t].to.gen \in 1..MaxGen
    BY <1>1 DEF Ids
  <1> QED
    BY <1>2, <1>3 DEF Opened, Envs

-----------------------------------------------------------------------------
(* The editor.                                                             *)

\* openBuffer shows the file, and loses nothing.
LEMMA ShowBufferKeeps ==
    ASSUME PageTypes, ShownIsKept, NothingTypedIsLost, NEW p \in Files, NEW x \in Texts,
           ShowBuffer(p, x), newest' = newest
    PROVE  /\ view' \in [active : MaybeFiles, doc : Texts] /\ view'.active = p
           /\ buffers' \in [Files -> MaybeTexts]
           /\ ShownIsKept' /\ NothingTypedIsLost'
  <1>0. /\ view \in [active : MaybeFiles, doc : Texts] /\ buffers \in [Files -> MaybeTexts]
        /\ None \notin Texts /\ None \notin Files
        /\ view.active \in MaybeFiles /\ view.doc \in Texts
    BY Constants, TextsAreTexts DEF PageTypes
  <1>1. CASE view.active = p
    <2>1. view' = view /\ buffers' = buffers
      BY <1>1 DEF ShowBuffer
    <2> QED
      BY <1>0, <1>1, <2>1 DEF ShownIsKept, NothingTypedIsLost
  <1>2. CASE view.active # p
    <2>1. /\ buffers' = [f \in Files |->
                IF f = view.active THEN IF buffers[f] # None THEN view.doc ELSE None
                ELSE IF f = p /\ buffers[f] = None THEN x ELSE buffers[f]]
          /\ view' = [active |-> p, doc |-> buffers'[p]]
      BY <1>2 DEF ShowBuffer
    <2>2. buffers' \in [Files -> MaybeTexts]
      BY <1>0, <2>1 DEF MaybeTexts
    <2>3. buffers'[p] \in Texts
      BY <1>0, <1>2, <2>1 DEF MaybeTexts
    <2>4. view'.active = p /\ view'.doc = buffers'[p] /\ view' \in [active : MaybeFiles, doc : Texts]
      BY <2>1, <2>3 DEF MaybeFiles
    <2>5. ShownIsKept'
      BY <1>0, <2>3, <2>4 DEF ShownIsKept
    <2>6. NothingTypedIsLost'
      <3> SUFFICES ASSUME NEW f \in Files, newest[f] > 0
                   PROVE  IF view'.active = f THEN view'.doc.stamp = newest[f]
                          ELSE buffers'[f] # None /\ buffers'[f].stamp = newest[f]
        BY DEF NothingTypedIsLost
      <3>1. CASE f = view.active
        <4>1. buffers[f] # None /\ view.doc.stamp = newest[f]
          BY <1>0, <3>1, Constants DEF NothingTypedIsLost, ShownIsKept
        <4>2. buffers'[f] = view.doc /\ f # p
          BY <1>2, <2>1, <3>1, <4>1
        <4> QED
          BY <1>0, <2>4, <4>1, <4>2
      <3>2. CASE f # view.active
        <4>1. buffers[f] # None /\ buffers[f].stamp = newest[f]
          BY <3>2 DEF NothingTypedIsLost
        <4>2. buffers'[f] = buffers[f]
          BY <2>1, <3>2, <4>1
        <4> QED
          BY <2>4, <4>1, <4>2
      <3> QED
        BY <3>1, <3>2
    <2> QED
      BY <2>2, <2>4, <2>5, <2>6
  <1> QED
    BY <1>1, <1>2

\* No buffer survives, and nothing counts as typed any more.
LEMMA CloseAllKeeps ==
    ASSUME PageTypes, CloseAllBuffers
    PROVE  /\ view' \in [active : MaybeFiles, doc : Texts] /\ view'.active = None
           /\ buffers' \in [Files -> MaybeTexts] /\ newest' \in [Files -> 0..MaxEdits]
           /\ ShownIsKept' /\ NothingTypedIsLost'
  <1>1. /\ buffers' = [f \in Files |-> None] /\ view' = [view EXCEPT !.active = None]
        /\ newest' = [f \in Files |-> 0]
    BY DEF CloseAllBuffers
  <1>2. view' \in [active : MaybeFiles, doc : Texts] /\ view'.active = None
    BY <1>1 DEF PageTypes, MaybeFiles
  <1>3. buffers' \in [Files -> MaybeTexts] /\ newest' \in [Files -> 0..MaxEdits]
    BY <1>1, Constants DEF MaybeTexts
  <1>4. ShownIsKept'
    BY <1>2 DEF ShownIsKept
  <1>5. NothingTypedIsLost'
    BY <1>1 DEF NothingTypedIsLost
  <1> QED
    BY <1>2, <1>3, <1>4, <1>5

-----------------------------------------------------------------------------
(* The steps.                                                              *)

\* A step that leaves the editor alone; the active path may be forgotten.
LEMMA PageStep ==
    ASSUME BufInv, TasksGood', SwapsAsked', SessionsTyped', slot' \in Slots, env' \in Envs,
           activePath' \in {activePath, None}, panel' \in MaybeFiles, timer' \in MaybeFiles,
           asked' \in BOOLEAN, card' \in BOOLEAN, edits' \in 0..MaxEdits,
           UNCHANGED <<setup, view, buffers, newest>>
    PROVE  BufInv'
  <1>1. PageTypes'
    BY DEF BufInv, BufTypes, PageTypes, MaybeFiles
  <1>2. EditorInv'
    BY DEF BufInv, EditorInv, ShownIsKept, NothingTypedIsLost, OpenFileIsShown
  <1> QED
    BY <1>1, <1>2 DEF BufInv, BufTypes

\* ... and one in which only a handler moves.
LEMMA TaskStep ==
    ASSUME BufInv, NEW t \in Tasks, NEW k, Good(k),
           k.op = task[t].op \/ k.op # "swap" \/ "swap" \in setup.ops, Set(t, k),
           env' \in Envs, activePath' \in {activePath, None}, asked' \in BOOLEAN,
           UNCHANGED <<setup, store, slot, view, buffers, newest, panel, timer, card, edits>>
    PROVE  BufInv'
  <1>1. TasksGood' /\ SwapsAsked'
    BY TaskSet DEF BufInv, BufTypes
  <1>2. /\ SessionsTyped' /\ slot' \in Slots /\ panel' \in MaybeFiles /\ timer' \in MaybeFiles
        /\ card' \in BOOLEAN /\ edits' \in 0..MaxEdits
    BY DEF BufInv, BufTypes, PageTypes, SessionsTyped
  <1> QED
    BY <1>1, <1>2, PageStep

\* What a handler waiting for something is known to have.
LEMMA TaskFacts ==
    ASSUME BufInv, NEW t \in Tasks
    PROVE  /\ task[t] \in Handlers /\ Good(task[t])
           /\ PageTypes /\ env \in Envs /\ asked \in BOOLEAN /\ view.doc \in Texts
           /\ activePath \in MaybeFiles /\ panel \in MaybeFiles /\ timer \in MaybeFiles
  BY DEF BufInv, BufTypes, TasksGood, PageTypes

\* ... and one in which nothing else changes at all.
LEMMA TaskOnly ==
    ASSUME BufInv, NEW t \in Tasks, NEW k, Good(k),
           k.op = task[t].op \/ k.op # "swap" \/ "swap" \in setup.ops, Set(t, k),
           UNCHANGED <<setup, store, slot, env, shown, timer, asked, card, history>>
    PROVE  BufInv'
  <1>1. env' \in Envs /\ activePath' \in {activePath, None} /\ asked' \in BOOLEAN
    BY TaskFacts DEF shown
  <1>2. UNCHANGED <<setup, store, slot, view, buffers, newest, panel, timer, card, edits>>
    BY DEF shown, history
  <1> QED
    BY <1>1, <1>2, TaskStep

\* The server's steps keep the invariant,
LEMMA ServerNext ==
    ASSUME BufInv, NEW t \in Tasks, Server(t)
    PROVE  BufInv'
  <1> USE DEF shown, history
  <1> DEFINE k == task[t]
  <1>0. k \in Handlers /\ Good(k) /\ PageTypes /\ TasksGood /\ SwapsAsked
    BY TaskFacts DEF BufInv, BufTypes
  <1>1. CASE ServeFile(t)
    <2> DEFINE s == k.to.slot
    <2> DEFINE b == IF k.req = "get" THEN store[s].files[k.path] ELSE None
    <2> DEFINE a == IF k.req \in {"get", "delete"} /\ k.path \notin Present(store[s].files)
                    THEN "fail" ELSE "ok"
    <2> DEFINE F == IF k.req = "list" THEN Present(store[s].files) ELSE {}
    <2>1. /\ k.at = "sent" /\ k.req # "session" /\ Live(k.to)
          /\ store' = CASE k.req = "put"    -> [store EXCEPT ![s].files[k.path] = k.text]
                        [] k.req = "delete" -> [store EXCEPT ![s].files[k.path] = None]
                        [] k.req = "clear"  -> [store EXCEPT ![s].files = [f \in Files |-> None]]
                        [] OTHER            -> store
          /\ Set(t, [k EXCEPT !.at = a, !.body = b, !.files = F])
          /\ UNCHANGED <<setup, slot, env, shown, timer, asked, card, history>>
      BY <1>1 DEF ServeFile
    <2>2. k.to \in Ids /\ s \in Slots
      BY <1>0, <2>1 DEF Good, Ids
    <2>3. /\ a \in {"ok", "fail"} /\ F \in SUBSET Files /\ b \in MaybeTexts
          /\ k.req = "get" /\ a = "ok" => b \in Texts
      <3>1. k.req \in {"get", "delete"} => k.path \in Files
        BY <1>0 DEF Good
      <3> QED
        BY <1>0, <2>2, <3>1, StoreTypes DEF MaybeTexts
    <2> DEFINE m == [k EXCEPT !.at = a, !.body = b, !.files = F]
    <2>4. m \in Handlers /\ m.op = k.op /\ m.at = a /\ m.req = k.req /\ m.to = k.to /\ m.path = k.path
          /\ m.text = k.text /\ m.body = b /\ m.goal = k.goal
      <3> HIDE DEF a, b, F, k
      <3> QED
        BY <1>0, <2>3 DEF Handlers
    <2>5. Good(m)
      <3> HIDE DEF m, a, b
      <3> QED
        BY <1>0, <2>1, <2>2, <2>3, <2>4 DEF Good
    <2>6. TasksGood' /\ SwapsAsked'
      <3> HIDE DEF a, b, F
      <3> QED
        BY <1>0, <2>1, <2>4, <2>5, TaskSet
    <2>7. SessionsTyped'
      <3>1. k.req \in {"put", "delete"} => k.path \in Files
        BY <1>0 DEF Good
      <3>2. k.req = "put" => k.text \in MaybeTexts
        BY <1>0 DEF Good, MaybeTexts
      <3>3. PICK G \in [Files -> MaybeTexts] : store' = [store EXCEPT ![s].files = G]
        <4>1. store[s].files \in [Files -> MaybeTexts]
          BY <2>2, <1>0, StoreTypes
        <4>2. CASE k.req = "put"
          <5>1. store' = [store EXCEPT ![s].files = [store[s].files EXCEPT ![k.path] = k.text]]
            BY <2>1, <4>2
          <5> QED
            BY <3>1, <3>2, <4>1, <4>2, <5>1
        <4>3. CASE k.req = "delete"
          <5>1. store' = [store EXCEPT ![s].files = [store[s].files EXCEPT ![k.path] = None]]
            BY <2>1, <4>3
          <5> QED
            BY <3>1, <4>1, <4>3, <5>1 DEF MaybeTexts
        <4>4. CASE k.req = "clear"
          <5>1. store' = [store EXCEPT ![s].files = [f \in Files |-> None]]
            BY <2>1, <4>4
          <5> QED
            BY <5>1 DEF MaybeTexts
        <4>5. CASE k.req \notin {"put", "delete", "clear"}
          <5>1. store' = store
            BY <2>1, <4>5
          <5>2. store' = [store EXCEPT ![s].files = store[s].files]
            BY <1>0, <2>2, <5>1 DEF PageTypes, SessionsTyped
          <5> QED
            BY <4>1, <5>2
        <4> QED
          BY <4>2, <4>3, <4>4, <4>5
      <3>4. store' = [store EXCEPT ![s] = [store[s] EXCEPT !.files = G]]
        BY <3>3
      <3> HIDE DEF k, s
      <3>5. store \in [Slots -> [gen : 1..MaxGen, live : BOOLEAN, files : [Files -> MaybeTexts]]]
        BY <1>0 DEF PageTypes, SessionsTyped
      <3>6. store[s] \in [gen : 1..MaxGen, live : BOOLEAN, files : [Files -> MaybeTexts]]
        BY <2>2, <3>5
      <3> DEFINE new == [store[s] EXCEPT !.files = G]
      <3>7. /\ new \in [gen : 1..MaxGen, live : BOOLEAN, files : [Files -> MaybeTexts]]
            /\ new.live = store[s].live /\ new.gen = store[s].gen
        BY <3>3, <3>6
      <3> HIDE DEF new
      <3>8. \A u \in Slots : store[u].live \/ store[u].gen < MaxGen
        BY <1>0 DEF PageTypes, SessionsTyped
      <3> QED
        BY <2>2, <3>4, <3>5, <3>7, <3>8 DEF SessionsTyped, new
    <2> QED
      BY <1>0, <2>1, <2>6, <2>7, PageStep DEF PageTypes
  <1>2. CASE ServeGone(t) \/ Fail(t)
    <2>1. PICK x \in {"gone", "fail"} : Set(t, [k EXCEPT !.at = x])
      BY <1>2 DEF ServeGone, Fail
    <2> DEFINE m == [k EXCEPT !.at = x]
    <2>2. /\ k.at = "sent" /\ UNCHANGED <<setup, store, slot, env, shown, timer, asked, card, history>>
      BY <1>2 DEF ServeGone, Fail
    <2>3. m \in Handlers /\ m.op = k.op /\ m.at = x /\ m.req = k.req /\ m.to = k.to /\ m.path = k.path
          /\ m.text = k.text /\ m.goal = k.goal
      BY <1>0 DEF Handlers
    <2>4. Good(m)
      <3> HIDE DEF m
      <3> QED
        BY <1>0, <2>2, <2>3 DEF Good
    <2>5. m.op = k.op /\ Set(t, m)
      BY <2>1, <2>3
    <2> HIDE DEF m
    <2> QED
      BY <2>2, <2>4, <2>5, TaskOnly
  <1>3. CASE ServeSession(t)
    <2> DEFINE s == k.to.slot
    <2> DEFINE m == [k EXCEPT !.at = "ok", !.to.gen = Reseeded(s).gen, !.files = EnvOf(s).files]
    <2>1. /\ k.at = "sent" /\ k.req = "session" /\ store' = [store EXCEPT ![s] = Reseeded(s)]
          /\ Set(t, m)
          /\ UNCHANGED <<setup, slot, env, shown, timer, asked, card, history>>
      BY <1>3 DEF ServeSession
    <2>2. k.to \in Ids /\ s \in Slots
      BY <1>0, <2>1 DEF Good, Ids
    <2>3. /\ Reseeded(s) \in [gen : 1..MaxGen, live : BOOLEAN, files : [Files -> MaybeTexts]]
          /\ Reseeded(s).live /\ Reseeded(s).gen \in 1..MaxGen /\ EnvOf(s).files \in SUBSET Files
      BY <1>0, <2>2, ReseededTypes, EnvTypes
    <2>4. SessionsTyped'
      BY <1>0, <2>1, <2>2, <2>3 DEF PageTypes, SessionsTyped
    <2>5. [k.to EXCEPT !.gen = Reseeded(s).gen] \in Ids
      BY <2>2, <2>3 DEF Ids
    <2>6. m = [k EXCEPT !.at = "ok", !.to = [k.to EXCEPT !.gen = Reseeded(s).gen], !.files = EnvOf(s).files]
      OBVIOUS
    <2>7. /\ m \in Handlers /\ m.op = k.op /\ m.at = "ok" /\ m.req = k.req /\ m.to \in Ids
          /\ m.path = k.path /\ m.text = k.text /\ m.goal = k.goal
      BY <1>0, <2>3, <2>5, <2>6 DEF Handlers
    <2>8. Good(m)
      <3> HIDE DEF m
      <3> QED
        BY <1>0, <2>1, <2>7 DEF Good
    <2>9. TasksGood' /\ SwapsAsked'
      BY <1>0, <2>1, <2>7, <2>8, TaskSet
    <2> QED
      BY <1>0, <2>1, <2>4, <2>9, PageStep DEF PageTypes
  <1> QED
    BY <1>1, <1>2, <1>3 DEF Server

\* A new handler.
LEMMA IdleOp ==
    ASSUME NEW o \in {"save", "fast", "aux", "nav", "delete", "clear", "create", "upload", "swap", "reopen"}
    PROVE  [Idle EXCEPT !.op = o] \in Handlers /\ [Idle EXCEPT !.op = o].op = o
  BY DEF Idle, Handlers, MaybeFiles, MaybeTexts

\* What is left to do later is no concern of the step.
LEMMA LaterGood ==
    ASSUME NEW k, Good(k), NEW b \in BOOLEAN, NEW p \in MaybeFiles
    PROVE  /\ Good([k EXCEPT !.again = b]) /\ [k EXCEPT !.again = b].op = k.op
           /\ Good([k EXCEPT !.then = b, !.made = p]) /\ [k EXCEPT !.then = b, !.made = p].op = k.op
  <1>0. k \in Handlers
    BY DEF Good
  <1> DEFINE m == [k EXCEPT !.again = b]
  <1> DEFINE n == [k EXCEPT !.then = b, !.made = p]
  <1>1. /\ m \in Handlers /\ m.op = k.op /\ m.at = k.at /\ m.req = k.req /\ m.to = k.to /\ m.path = k.path
        /\ m.text = k.text /\ m.body = k.body /\ m.goal = k.goal
    BY <1>0 DEF Handlers
  <1>2. /\ n \in Handlers /\ n.op = k.op /\ n.at = k.at /\ n.req = k.req /\ n.to = k.to /\ n.path = k.path
        /\ n.text = k.text /\ n.body = k.body /\ n.goal = k.goal
    BY <1>0 DEF Handlers
  <1> HIDE DEF m, n
  <1>3. Good(m) /\ m.op = k.op
    BY <1>1 DEF Good
  <1>4. Good(n) /\ n.op = k.op
    BY <1>2 DEF Good
  <1> QED
    BY <1>3, <1>4 DEF m, n

\* ... those of the debounce and its saves,
LEMMA EditNext ==
    ASSUME BufInv, NEW t \in Tasks, EditStep(t)
    PROVE  BufInv'
  <1> DEFINE k == task[t]
  <1>0. /\ k \in Handlers /\ Good(k) /\ PageTypes /\ env \in Envs /\ asked \in BOOLEAN /\ view.doc \in Texts
        /\ timer \in MaybeFiles /\ TasksGood /\ SwapsAsked
        /\ env.slot \in Slots /\ env.files \in SUBSET Files
    BY TaskFacts, EnvTypes DEF BufInv, BufTypes
  <1>1. CASE Fire(t)
    <2> DEFINE o == IF timer \notin setup.tex THEN "aux" ELSE IF FastPath THEN "fast" ELSE "save"
    <2> DEFINE m == Put([Idle EXCEPT !.op = o], env, timer, view.doc)
    <2>1. /\ timer # None /\ timer' = None /\ Set(t, m)
          /\ UNCHANGED <<setup, store, slot, env, view, buffers, panel, card, edits, newest>>
          /\ asked' \in BOOLEAN /\ activePath' \in {activePath, None}
      BY <1>0, <1>1, ForgetsTypes DEF Fire, history
    <2>2. timer \in Files /\ o \in {"aux", "fast", "save"}
      BY <1>0, <2>1 DEF MaybeFiles
    <2>3. Good(m) /\ m.op = o
      <3> DEFINE b == [Idle EXCEPT !.op = o]
      <3> HIDE DEF o
      <3>1. b \in Handlers /\ b.op = o /\ o # "open"
        BY <2>2, IdleOp
      <3> HIDE DEF b
      <3>2. Good(Put(b, env, timer, view.doc)) /\ Put(b, env, timer, view.doc).op = b.op
        BY <1>0, <2>2, <3>1, PutGood
      <3> QED
        BY <3>1, <3>2 DEF b
    <2>4. TasksGood' /\ SwapsAsked'
      <3> HIDE DEF m
      <3> QED
        BY <1>0, <2>1, <2>3, TaskSet
    <2>5. SessionsTyped' /\ None \in MaybeFiles /\ panel \in MaybeFiles
      BY <1>0, <2>1 DEF PageTypes, SessionsTyped, MaybeFiles
    <2> QED
      BY <1>0, <2>1, <2>4, <2>5, PageStep DEF PageTypes
  <1>2. CASE FastDone(t) \/ SaveFailed(t)
    <2>1. Set(t, Idle) /\ UNCHANGED <<setup, store, slot, env, shown, timer, asked, card, history>>
      BY <1>2 DEF FastDone, SaveFailed, End
    <2> QED
      BY <2>1, IdleGood, TaskOnly
  <1>3. CASE SaveDone(t) \/ AuxConvert(t)
    <2>1. /\ Set(t, Idle) /\ asked' \in BOOLEAN /\ activePath' \in {activePath, None} /\ env' = env
          /\ UNCHANGED <<setup, store, slot, view, buffers, newest, panel, timer, card, edits>>
      BY <1>0, <1>3, ForgetsTypes DEF SaveDone, AuxConvert, End, shown, history, Converts
    <2> QED
      BY <1>0, <2>1, IdleGood, TaskStep
  <1>4. CASE AuxDone(t)
    <2>1. UNCHANGED <<setup, store, slot, env, shown, timer, asked, card, history>>
      BY <1>4 DEF AuxDone
    <2>2. CASE MainOf(env.files) = None
      BY <1>4, <2>1, <2>2, IdleGood, TaskOnly DEF AuxDone, End
    <2>3. CASE MainOf(env.files) # None
      <3>1. MainOf(env.files) \in Files /\ k.op = "aux"
        BY <1>0, <1>4, <2>3, MainOfTypes DEF AuxDone, Got
      <3>2. Good(Get(k, env, MainOf(env.files))) /\ Get(k, env, MainOf(env.files)).op = k.op
        BY <1>0, <3>1, GetGood
      <3>3. Set(t, Get(k, env, MainOf(env.files)))
        BY <1>4, <2>3 DEF AuxDone
      <3> QED
        BY <2>1, <3>2, <3>3, TaskOnly
    <2> QED
      BY <2>2, <2>3
  <1>5. CASE SaveGone(t)
    <2>1. /\ Set(t, Open(k, env.slot)) /\ k.op \in {"save", "aux"} /\ k.req = "put"
          /\ UNCHANGED <<setup, store, slot, env, shown, timer, asked, card, history>>
      BY <1>5 DEF SaveGone, Got
    <2>2. Good(Open(k, env.slot)) /\ Open(k, env.slot).op = k.op
      BY <1>0, <2>1, OpenGood DEF Good
    <2> QED
      BY <2>1, <2>2, TaskOnly
  <1>6. CASE SaveReopened(t)
    <2> DEFINE e == Opened(t)
    <2> DEFINE m == [Put(k, e, k.path, k.text) EXCEPT !.again = TRUE]
    <2>1. /\ k.op \in {"save", "aux"} /\ k.req = "session" /\ k.at = "ok"
          /\ env' = e /\ asked' = FALSE /\ Set(t, m)
          /\ UNCHANGED <<setup, store, slot, view, buffers, activePath, panel, timer, card, edits, newest>>
      BY <1>6 DEF SaveReopened, Got, shown, history
    <2>2. e \in Envs
      BY <1>0, <2>1, OpenedTypes
    <2>3. k.path \in Files /\ k.text \in Texts /\ k.op # "open"
      BY <1>0, <2>1 DEF Good
    <2>4. Good(Put(k, e, k.path, k.text)) /\ Put(k, e, k.path, k.text).op = k.op
      <3> HIDE DEF k, e
      <3> QED
        BY <1>0, <2>2, <2>3, PutGood
    <2>5. Good(m) /\ m.op = k.op
      <3> HIDE DEF k, e
      <3> QED
        BY <2>4, LaterGood DEF MaybeFiles
    <2> HIDE DEF m, e
    <2> QED
      BY <2>1, <2>2, <2>5, TaskStep
  <1> QED
    BY <1>1, <1>2, <1>3, <1>4, <1>5, <1>6 DEF EditStep

\* What follows an openFile.
LEMMA AfterOpenTypes ==
    ASSUME BufInv, NEW t \in Tasks, NEW pa, NEW ap, AfterOpen(t, pa, ap), view'.doc \in Texts,
           setup' = setup
    PROVE  TasksGood' /\ SwapsAsked' /\ activePath' \in {ap, None} /\ asked' \in BOOLEAN
  <1> DEFINE k == task[t]
  <1>0. k \in Handlers /\ env \in Envs /\ asked \in BOOLEAN /\ TasksGood /\ SwapsAsked /\ k.made \in MaybeFiles
    BY TaskFacts, Fields DEF BufInv, BufTypes
  <1>1. CASE ~k.then
    BY <1>0, <1>1, TaskEnds DEF AfterOpen
  <1>2. CASE k.then
    <2> DEFINE a == Forgets(env, ap)
    <2> DEFINE m == Opening(k.made, env, a, view'.doc)
    <2>1. /\ asked' = (asked \/ Converts(env, ap)) /\ activePath' = a
          /\ IF k.made \in {None, pa} THEN End(t) ELSE Set(t, m)
      BY <1>2 DEF AfterOpen
    <2>2. asked' \in BOOLEAN /\ activePath' \in {ap, None}
      BY <1>0, <2>1, ForgetsTypes DEF Converts
    <2>3. CASE k.made \in {None, pa}
      BY <1>0, <2>1, <2>2, <2>3, TaskEnds
    <2>4. CASE k.made \notin {None, pa}
      <3>1. k.made \in Files
        BY <1>0, <2>4 DEF MaybeFiles
      <3>2. Good(m) /\ m.op = "open" /\ Set(t, m)
        <4> HIDE DEF a
        <4> QED
          BY <1>0, <2>1, <2>4, <3>1, OpeningGood
      <3> HIDE DEF m
      <3> QED
        BY <1>0, <2>2, <3>2, TaskSet
    <2> QED
      BY <2>3, <2>4
  <1> QED
    BY <1>1, <1>2

\* ... those that open files,
LEMMA OpenNext ==
    ASSUME BufInv, NEW t \in Tasks, OpenStep(t)
    PROVE  BufInv'
  <1> DEFINE k == task[t]
  <1>0. /\ k \in Handlers /\ Good(k) /\ PageTypes /\ env \in Envs /\ asked \in BOOLEAN /\ view.doc \in Texts
        /\ panel \in MaybeFiles /\ TasksGood /\ SwapsAsked /\ env.slot \in Slots
        /\ ShownIsKept /\ NothingTypedIsLost
    BY TaskFacts, EnvTypes DEF BufInv, BufTypes, EditorInv
  <1>1. CASE OpenSaved(t)
    <2>1. /\ k.op = "open" /\ Set(t, Get(k, env, k.goal))
          /\ UNCHANGED <<setup, store, slot, env, shown, timer, asked, card, history>>
      BY <1>1 DEF OpenSaved, Got
    <2>2. k.goal \in Files
      BY <1>0, <2>1 DEF Good
    <2>3. Good(Get(k, env, k.goal)) /\ Get(k, env, k.goal).op = k.op
      BY <1>0, <2>2, GetGood
    <2> QED
      BY <2>1, <2>3, TaskOnly
  <1>2. CASE OpenShown(t)
    <2>1. /\ k.op = "open" /\ k.req = "get" /\ k.at = "ok"
          /\ ShowBuffer(k.goal, k.body) /\ panel' = k.goal /\ AfterOpen(t, k.goal, k.goal)
          /\ UNCHANGED <<setup, store, slot, env, timer, card, edits, newest>>
      BY <1>2 DEF OpenShown, Got, history
    <2>2. k.goal \in Files /\ k.body \in Texts
      BY <1>0, <2>1 DEF Good
    <2>3. /\ view' \in [active : MaybeFiles, doc : Texts] /\ view'.active = k.goal
          /\ buffers' \in [Files -> MaybeTexts]
          /\ ShownIsKept' /\ NothingTypedIsLost'
      BY <1>0, <2>1, <2>2, ShowBufferKeeps
    <2>4. TasksGood' /\ SwapsAsked' /\ activePath' \in {k.goal, None} /\ asked' \in BOOLEAN
      BY <2>1, <2>3, AfterOpenTypes
    <2>5. PageTypes'
      BY <1>0, <2>1, <2>2, <2>3, <2>4 DEF PageTypes, SessionsTyped, MaybeFiles
    <2>6. OpenFileIsShown'
      BY <2>3, <2>4 DEF OpenFileIsShown
    <2> QED
      BY <2>3, <2>4, <2>5, <2>6 DEF BufInv, BufTypes, EditorInv
  <1>3. CASE OpenRefused(t)
    <2>1. /\ card' = (card \/ k.at = "gone") /\ AfterOpen(t, panel, activePath)
          /\ UNCHANGED <<setup, store, slot, env, view, buffers, panel, timer, edits, newest>>
      BY <1>3 DEF OpenRefused, history
    <2>2. TasksGood' /\ SwapsAsked' /\ activePath' \in {activePath, None} /\ asked' \in BOOLEAN
      BY <1>0, <2>1, AfterOpenTypes
    <2>3. SessionsTyped' /\ card' \in BOOLEAN
      BY <1>0, <2>1 DEF PageTypes, SessionsTyped
    <2> QED
      BY <1>0, <2>1, <2>2, <2>3, PageStep DEF PageTypes
  <1>4. CASE NavShown(t)
    <2>1. /\ k.op = "nav" /\ k.req = "get" /\ k.at = "ok"
          /\ ShowBuffer(k.path, k.body) /\ activePath' = k.path /\ panel' = k.path /\ End(t)
          /\ UNCHANGED <<setup, store, slot, env, timer, asked, card, edits, newest>>
      BY <1>4 DEF NavShown, SetActiveFile, Got, history
    <2>2. k.path \in Files /\ k.body \in Texts
      BY <1>0, <2>1 DEF Good
    <2>3. /\ view' \in [active : MaybeFiles, doc : Texts] /\ view'.active = k.path
          /\ buffers' \in [Files -> MaybeTexts]
          /\ ShownIsKept' /\ NothingTypedIsLost'
      BY <1>0, <2>1, <2>2, ShowBufferKeeps
    <2>4. TasksGood' /\ SwapsAsked'
      BY <1>0, <2>1, TaskEnds
    <2>5. PageTypes'
      BY <1>0, <2>1, <2>2, <2>3 DEF PageTypes, SessionsTyped, MaybeFiles
    <2>6. OpenFileIsShown'
      BY <2>1, <2>3 DEF OpenFileIsShown
    <2> QED
      BY <2>3, <2>4, <2>5, <2>6 DEF BufInv, BufTypes, EditorInv
  <1>5. CASE NavRefused(t)
    <2>1. /\ k.op = "nav"
          /\ IF k.at = "gone" THEN Set(t, Open(k, env.slot)) ELSE Set(t, Idle)
          /\ UNCHANGED <<setup, store, slot, env, shown, timer, asked, card, history>>
      BY <1>5 DEF NavRefused, Got, End
    <2>2. Good(Open(k, env.slot)) /\ Open(k, env.slot).op = k.op
      BY <1>0, <2>1, OpenGood
    <2> QED
      BY <2>1, <2>2, IdleGood, TaskOnly
  <1>6. CASE NavReopened(t)
    <2>1. /\ k.at = "ok" /\ env' = Opened(t) /\ asked' = FALSE /\ Set(t, Idle)
          /\ UNCHANGED <<setup, store, slot, view, buffers, activePath, panel, timer, card, edits, newest>>
      BY <1>6 DEF NavReopened, Got, End, shown, history
    <2>2. env' \in Envs
      BY <1>0, <2>1, OpenedTypes
    <2> QED
      BY <2>1, <2>2, IdleGood, TaskStep
  <1> QED
    BY <1>1, <1>2, <1>3, <1>4, <1>5, <1>6 DEF OpenStep

\* ... those of the panel's requests,
LEMMA PanelNext ==
    ASSUME BufInv, NEW t \in Tasks, PanelStep(t)
    PROVE  BufInv'
  <1> DEFINE k == task[t]
  <1>0. /\ k \in Handlers /\ Good(k) /\ PageTypes /\ env \in Envs /\ asked \in BOOLEAN /\ view.doc \in Texts
        /\ panel \in MaybeFiles /\ timer \in MaybeFiles /\ card \in BOOLEAN /\ TasksGood /\ SwapsAsked
        /\ activePath \in MaybeFiles
    BY TaskFacts DEF BufInv, BufTypes, PageTypes
  <1>1. CASE ChangeDone(t)
    <2>1. /\ k.op # "open" /\ Set(t, List(k)) /\ panel' \in {None, panel}
          /\ UNCHANGED <<setup, store, slot, env, view, buffers, activePath, timer, asked, card, edits, newest>>
      BY <1>1 DEF ChangeDone, Got, history
    <2>2. Good(List(k)) /\ List(k).op = k.op
      BY <1>0, <2>1, ListGood
    <2>3. TasksGood' /\ SwapsAsked'
      BY <1>0, <2>1, <2>2, TaskSet
    <2>4. SessionsTyped' /\ panel' \in MaybeFiles
      BY <1>0, <2>1 DEF PageTypes, SessionsTyped, MaybeFiles
    <2> QED
      BY <1>0, <2>1, <2>3, <2>4, PageStep DEF PageTypes
  <1>2. CASE ChangeRefused(t)
    <2>1. /\ End(t) /\ card' = (card \/ k.at = "gone")
          /\ UNCHANGED <<setup, store, slot, env, view, buffers, activePath, panel, timer, asked, edits, newest>>
      BY <1>2 DEF ChangeRefused, shown, history
    <2>2. TasksGood' /\ SwapsAsked'
      BY <1>0, <2>1, TaskEnds
    <2>3. SessionsTyped' /\ card' \in BOOLEAN
      BY <1>0, <2>1 DEF PageTypes, SessionsTyped
    <2> QED
      BY <1>0, <2>1, <2>2, <2>3, PageStep DEF PageTypes
  <1>3. CASE Listed(t)
    <2> DEFINE c == IF k.at = "ok" /\ panel = None THEN MainOf(k.files) ELSE None
    <2> DEFINE new == IF k.op = "create" THEN k.path ELSE None
    <2> DEFINE e == IF k.at = "ok" THEN [env EXCEPT !.files = k.files] ELSE env
    <2> DEFINE a == Forgets(e, activePath)
    <2>1. /\ env' = e /\ card' = (card \/ k.at = "gone")
          /\ IF c # None
             THEN /\ Set(t, [Opening(c, e, activePath, view.doc) EXCEPT !.then = TRUE, !.made = new])
                  /\ UNCHANGED <<asked, activePath>>
             ELSE /\ asked' = (asked \/ Converts(e, activePath))
                  /\ activePath' = a
                  /\ IF new \in {None, panel} THEN End(t)
                     ELSE Set(t, Opening(new, e, a, view.doc))
          /\ UNCHANGED <<setup, store, slot, view, buffers, panel, timer, edits, newest>>
      BY <1>3 DEF Listed, history
    <2>2. k.files \in SUBSET Files /\ k.path \in MaybeFiles
      BY <1>0, Fields
    <2>3. e \in Envs /\ c \in MaybeFiles /\ new \in MaybeFiles /\ a \in {activePath, None}
      <3>1. e \in Envs
        BY <1>0, <2>2 DEF Envs
      <3>2. c \in MaybeFiles
        BY <2>2, MainOfTypes DEF MaybeFiles
      <3> QED
        BY <2>2, <3>1, <3>2, ForgetsTypes DEF MaybeFiles
    <2>4. card' \in BOOLEAN /\ SessionsTyped'
      BY <1>0, <2>1 DEF PageTypes, SessionsTyped
    <2> HIDE DEF c, new, e, a
    <2>5. TasksGood' /\ SwapsAsked' /\ asked' \in BOOLEAN /\ activePath' \in {activePath, None}
      <3>1. CASE c # None
        <4>1. Good(Opening(c, e, activePath, view.doc)) /\ Opening(c, e, activePath, view.doc).op = "open"
          BY <1>0, <2>3, <3>1, OpeningGood DEF MaybeFiles
        <4> DEFINE n == Opening(c, e, activePath, view.doc)
        <4> HIDE DEF n
        <4>2. Good([n EXCEPT !.then = TRUE, !.made = new]) /\ [n EXCEPT !.then = TRUE, !.made = new].op = n.op
          BY <2>3, <4>1, LaterGood DEF n
        <4> DEFINE m == [n EXCEPT !.then = TRUE, !.made = new]
        <4>3. Set(t, m) /\ Good(m) /\ m.op = "open"
          BY <2>1, <3>1, <4>1, <4>2 DEF n
        <4> HIDE DEF m
        <4> QED
          BY <1>0, <2>1, <3>1, <4>3, TaskSet
      <3>2. CASE c = None
        <4>1. asked' \in BOOLEAN /\ activePath' \in {activePath, None}
          BY <1>0, <2>1, <2>3, <3>2 DEF Converts
        <4>2. CASE new \in {None, panel}
          BY <1>0, <2>1, <3>2, <4>1, <4>2, TaskEnds
        <4>3. CASE new \notin {None, panel}
          <5>1. Good(Opening(new, e, a, view.doc)) /\ Opening(new, e, a, view.doc).op = "open"
            BY <1>0, <2>3, <4>3, OpeningGood DEF MaybeFiles
          <5>2. Set(t, Opening(new, e, a, view.doc))
            BY <2>1, <3>2, <4>3
          <5> QED
            BY <1>0, <2>1, <4>1, <5>1, <5>2, TaskSet
        <4> QED
          BY <4>2, <4>3
      <3> QED
        BY <3>1, <3>2
    <2> QED
      BY <1>0, <2>1, <2>3, <2>4, <2>5, PageStep DEF PageTypes
  <1>4. CASE Cleared(t)
    <2>1. /\ env' = [env EXCEPT !.files = {}] /\ CloseAllBuffers /\ activePath' = None /\ panel' = None
          /\ asked' = FALSE /\ End(t) /\ UNCHANGED <<setup, store, slot, timer, card, edits>>
      BY <1>4 DEF Cleared
    <2>2. /\ view' \in [active : MaybeFiles, doc : Texts] /\ view'.active = None
          /\ buffers' \in [Files -> MaybeTexts] /\ newest' \in [Files -> 0..MaxEdits]
          /\ ShownIsKept' /\ NothingTypedIsLost'
      BY <1>0, <2>1, CloseAllKeeps
    <2>3. TasksGood' /\ SwapsAsked'
      BY <1>0, <2>1, TaskEnds
    <2>4. env' \in Envs
      BY <1>0, <2>1 DEF Envs
    <2>5. PageTypes'
      BY <1>0, <2>1, <2>2, <2>4 DEF PageTypes, SessionsTyped, MaybeFiles
    <2>6. OpenFileIsShown'
      BY <2>1 DEF OpenFileIsShown
    <2> QED
      BY <2>2, <2>3, <2>5, <2>6 DEF BufInv, BufTypes, EditorInv
  <1> QED
    BY <1>1, <1>2, <1>3, <1>4 DEF PanelStep

\* ... of the swaps and the reopenings,
LEMMA SessionNext ==
    ASSUME BufInv, NEW t \in Tasks, SessionStep(t)
    PROVE  BufInv'
  <1> DEFINE k == task[t]
  <1>0. /\ k \in Handlers /\ Good(k) /\ PageTypes /\ env \in Envs /\ asked \in BOOLEAN /\ view.doc \in Texts
        /\ panel \in MaybeFiles /\ timer \in MaybeFiles /\ TasksGood /\ SwapsAsked /\ env.slot \in Slots
        /\ activePath \in MaybeFiles /\ ShownIsKept /\ NothingTypedIsLost
        /\ view \in [active : MaybeFiles, doc : Texts] /\ buffers \in [Files -> MaybeTexts]
    BY TaskFacts, EnvTypes DEF BufInv, BufTypes, EditorInv, PageTypes
  <1>1. CASE Swapped(t)
    <2> DEFINE e == Opened(t)
    <2> DEFINE p == Initial(e.files)
    <2> DEFINE j == [k EXCEPT !.goal = MainOf(e.files)]
    <2>1. /\ k.op = "swap" /\ k.at = "ok" /\ env' = e /\ CloseAllBuffers /\ activePath' = p
          /\ IF p # None THEN Set(t, Get(j, e, p)) /\ UNCHANGED <<asked, panel>>
             ELSE End(t) /\ asked' = FALSE /\ panel' = None
          /\ UNCHANGED <<setup, store, slot, timer, card, edits>>
      BY <1>1 DEF Swapped, Got
    <2>2. e \in Envs /\ e.files \in SUBSET Files
      BY <1>0, <2>1, OpenedTypes, EnvTypes
    <2>3. p \in MaybeFiles /\ MainOf(e.files) \in MaybeFiles
      BY <2>2, MainOfTypes DEF MaybeFiles
    <2>4. /\ view' \in [active : MaybeFiles, doc : Texts] /\ view'.active = None
          /\ buffers' \in [Files -> MaybeTexts] /\ newest' \in [Files -> 0..MaxEdits]
          /\ ShownIsKept' /\ NothingTypedIsLost'
      BY <1>0, <2>1, CloseAllKeeps
    <2>5. j \in Handlers /\ j.op = "swap"
      <3> HIDE DEF e
      <3> QED
        BY <1>0, <2>1, <2>3 DEF Handlers
    <2> HIDE DEF j, p, e
    <2>6. TasksGood' /\ SwapsAsked'
      <3>1. CASE p = None
        BY <1>0, <2>1, <3>1, TaskEnds
      <3>2. CASE p # None
        <4>1. p \in Files
          BY <2>3, <3>2 DEF MaybeFiles
        <4>2. Good(Get(j, e, p)) /\ Get(j, e, p).op = "swap"
          BY <2>2, <2>5, <4>1, GetGood
        <4> QED
          BY <1>0, <2>1, <3>2, <4>2, TaskSet
      <3> QED
        BY <3>1, <3>2
    <2>7. asked' \in BOOLEAN /\ panel' \in MaybeFiles
      BY <1>0, <2>1 DEF MaybeFiles
    <2>8. PageTypes'
      BY <1>0, <2>1, <2>2, <2>3, <2>4, <2>7 DEF PageTypes, SessionsTyped
    <2>9. OpenFileIsShown'
      BY <1>0, <2>1 DEF OpenFileIsShown, SwapsAsked
    <2> QED
      BY <2>4, <2>6, <2>8, <2>9 DEF BufInv, BufTypes, EditorInv
  <1>2. CASE SwapShown(t)
    <2> DEFINE a == IF k.at = "ok" THEN k.path ELSE activePath
    <2>1. /\ k.op = "swap" /\ k.req = "get"
          /\ IF k.at = "ok" THEN ShowBuffer(k.path, k.body) ELSE UNCHANGED <<view, buffers>>
          /\ activePath' = Forgets(env, a) /\ asked' = Converts(env, a)
          /\ panel' = k.goal /\ End(t)
          /\ UNCHANGED <<setup, store, slot, env, timer, card, edits, newest>>
      BY <1>2 DEF SwapShown, Got, history
    <2>2. k.path \in Files /\ (k.at = "ok" => k.body \in Texts) /\ k.goal \in MaybeFiles
      BY <1>0, <2>1, Fields DEF Good
    <2>3. /\ view' \in [active : MaybeFiles, doc : Texts] /\ buffers' \in [Files -> MaybeTexts]
          /\ ShownIsKept' /\ NothingTypedIsLost'
      <3>1. CASE k.at = "ok"
        BY <1>0, <2>1, <2>2, <3>1, ShowBufferKeeps
      <3>2. CASE k.at # "ok"
        BY <1>0, <2>1, <3>2 DEF ShownIsKept, NothingTypedIsLost
      <3> QED
        BY <3>1, <3>2
    <2>4. TasksGood' /\ SwapsAsked'
      BY <1>0, <2>1, TaskEnds
    <2>5. activePath' \in MaybeFiles /\ asked' \in BOOLEAN
      BY <1>0, <2>1, <2>2, ForgetsTypes DEF MaybeFiles, Converts
    <2>6. PageTypes'
      BY <1>0, <2>1, <2>2, <2>3, <2>5 DEF PageTypes, SessionsTyped
    <2>7. OpenFileIsShown'
      BY <1>0, <2>1 DEF OpenFileIsShown, SwapsAsked
    <2> QED
      BY <2>3, <2>4, <2>6, <2>7 DEF BufInv, BufTypes, EditorInv
  <1>3. CASE SwapFailed(t)
    BY <1>3, IdleGood, TaskOnly DEF SwapFailed, End
  <1>4. CASE WsExpired(t)
    <2> DEFINE j == [Idle EXCEPT !.op = "reopen"]
    <2>1. /\ asked' = FALSE /\ Set(t, Open(j, env.slot))
          /\ UNCHANGED <<setup, store, slot, env, view, buffers, activePath, panel, timer, card, edits, newest>>
      BY <1>4 DEF WsExpired, shown, history
    <2>2. j \in Handlers /\ j.op = "reopen"
      BY IdleOp
    <2> HIDE DEF j
    <2>3. Good(Open(j, env.slot)) /\ Open(j, env.slot).op = "reopen"
      BY <1>0, <2>2, OpenGood
    <2> QED
      BY <1>0, <2>1, <2>3, TaskStep
  <1>5. CASE Reopened(t)
    <2>1. /\ k.at # "idle" /\ Set(t, Idle)
          /\ \/ UNCHANGED <<env, asked, activePath>>
             \/ env' = Opened(t) /\ asked' = Converts(env', activePath)
                /\ activePath' = Forgets(env', activePath)
          /\ UNCHANGED <<setup, store, slot, view, buffers, panel, timer, card, edits, newest>>
      BY <1>5 DEF Reopened, Got, End, history
    <2>2. env' \in Envs
      BY <1>0, <2>1, OpenedTypes
    <2>3. asked' \in BOOLEAN
      <3>1. asked \in BOOLEAN /\ (asked' = asked \/ asked' = Converts(env', activePath))
        BY <1>0, <2>1
      <3>2. CASE asked' = asked
        BY <3>1, <3>2
      <3>3. CASE asked' = Converts(env', activePath)
        BY <3>3 DEF Converts
      <3> QED
        BY <3>1, <3>2, <3>3
    <2>4. activePath' \in {activePath, None}
      BY <2>1, ForgetsTypes
    <2>5. Good(Idle) /\ Idle.op # "swap" /\ Set(t, Idle)
      BY <2>1, IdleGood
    <2>6. UNCHANGED <<setup, store, slot, view, buffers, newest, panel, timer, card, edits>>
      BY <2>1
    <2> QED
      BY <2>2, <2>3, <2>4, <2>5, <2>6, TaskStep
  <1> QED
    BY <1>1, <1>2, <1>3, <1>4, <1>5 DEF SessionStep

\* ... and what the user does.
LEMMA UserNext ==
    ASSUME BufInv, NEW t \in Tasks, User(t)
    PROVE  BufInv'
  <1>0. /\ PageTypes /\ env \in Envs /\ view.doc \in Texts /\ env.files \in SUBSET Files
        /\ env.slot \in Slots /\ Id(env) \in Ids /\ TasksGood /\ SwapsAsked /\ edits \in 0..MaxEdits
    BY TaskFacts, EnvTypes DEF BufInv, BufTypes, PageTypes
  \* A request of the panel.
  <1>1. ASSUME NEW o \in {"delete", "clear", "create", "upload"}, NEW q \in {"delete", "clear", "put"},
               NEW p \in MaybeFiles, NEW x \in MaybeTexts, Ask(t, o, q, p, x),
               q \in {"put", "delete"} => p \in Files, q = "put" => x \in Texts,
               edits' \in 0..MaxEdits, newest' = newest
        PROVE  BufInv'
    <2> DEFINE m == [Idle EXCEPT !.op = o, !.at = "sent", !.req = q, !.to = Id(env), !.path = p, !.text = x]
    <2>1. Set(t, m) /\ UNCHANGED <<setup, store, slot, env, view, buffers, activePath, panel, timer, asked, card>>
      BY <1>1 DEF Ask, shown
    <2>2. /\ m \in Handlers /\ m.op = o /\ m.at = "sent" /\ m.req = q /\ m.to = Id(env) /\ m.path = p
          /\ m.text = x
      <3>1. /\ Idle \in Handlers /\ o \in {"delete", "clear", "create", "upload"}
            /\ q \in {"put", "delete", "clear"} /\ Id(env) \in Ids \union {None}
        BY <1>0, IdleGood
      <3>2. /\ m.op = o /\ m.at = "sent" /\ m.req = q /\ m.to = Id(env) /\ m.path = p /\ m.text = x
        BY <3>1 DEF Handlers
      <3>3. m \in Handlers
        BY <3>1 DEF Handlers
      <3> QED
        BY <3>2, <3>3
    <2> HIDE DEF m
    <2>3. Good(m) /\ m.op # "swap"
      BY <1>0, <1>1, <2>2 DEF Good
    <2>4. TasksGood' /\ SwapsAsked'
      BY <1>0, <2>1, <2>3, TaskSet
    <2>5. SessionsTyped'
      BY <1>0, <2>1 DEF PageTypes, SessionsTyped
    <2> QED
      BY <1>0, <1>1, <2>1, <2>4, <2>5, PageStep DEF PageTypes
  <1>2. ASSUME NEW p \in Files, ClickFile(t, p)
        PROVE  BufInv'
    <2> DEFINE m == Opening(p, env, activePath, view.doc)
    <2>1. Set(t, m) /\ UNCHANGED <<setup, store, slot, env, shown, timer, asked, card, history>>
      BY <1>2 DEF ClickFile
    <2>2. Good(m) /\ m.op = "open"
      BY <1>0, OpeningGood
    <2> HIDE DEF m
    <2> QED
      BY <2>1, <2>2, TaskOnly
  <1>3. ASSUME NEW p \in Files, ClickPreview(t, p)
        PROVE  BufInv'
    <2> DEFINE j == [Idle EXCEPT !.op = "nav"]
    <2>1. Set(t, Get(j, env, p)) /\ UNCHANGED <<setup, store, slot, env, shown, timer, asked, card, history>>
      BY <1>3 DEF ClickPreview
    <2>2. j \in Handlers /\ j.op = "nav"
      BY IdleOp
    <2> HIDE DEF j
    <2>3. Good(Get(j, env, p)) /\ Get(j, env, p).op = "nav"
      BY <1>0, <2>2, GetGood
    <2> QED
      BY <2>1, <2>3, TaskOnly
  <1>4. ASSUME NEW p \in Files, ClickDelete(t, p)
        PROVE  BufInv'
    <2>1. Ask(t, "delete", "delete", p, None) /\ edits' = edits /\ newest' = newest
      BY <1>4 DEF ClickDelete, history
    <2> QED
      BY <1>0, <1>1, <2>1 DEF MaybeFiles, MaybeTexts
  <1>5. ASSUME ClickClear(t)
        PROVE  BufInv'
    <2>1. Ask(t, "clear", "clear", None, None) /\ edits' = edits /\ newest' = newest
      BY <1>5 DEF ClickClear, history
    <2> QED
      BY <1>0, <1>1, <2>1 DEF MaybeFiles, MaybeTexts
  <1>6. ASSUME NEW p \in Files, NewFile(t, p)
        PROVE  BufInv'
    <2>1. Ask(t, "create", "put", p, Text(env.slot, p, 0)) /\ edits' = edits /\ newest' = newest
      BY <1>6 DEF NewFile, history
    <2>2. Text(env.slot, p, 0) \in Texts
      BY <1>0, Constants DEF Text, Texts
    <2> QED
      BY <1>0, <1>1, <2>1, <2>2 DEF MaybeFiles, MaybeTexts
  <1>7. ASSUME NEW p \in Files, Upload(t, p)
        PROVE  BufInv'
    <2>1. /\ edits < MaxEdits /\ Ask(t, "upload", "put", p, Text(env.slot, p, edits + 1))
          /\ edits' = edits + 1 /\ newest' = newest
      BY <1>7 DEF Upload
    <2>2. edits + 1 \in 0..MaxEdits
      BY <1>0, <2>1, Constants
    <2>3. Text(env.slot, p, edits + 1) \in Texts
      BY <1>0, <2>2 DEF Text, Texts
    <2> QED
      BY <1>1, <2>1, <2>2, <2>3 DEF MaybeFiles, MaybeTexts
  <1>8. ASSUME NEW s \in Slots, ChooseExample(t, s)
        PROVE  BufInv'
    <2> DEFINE j == [Idle EXCEPT !.op = "swap"]
    <2>1. /\ "swap" \in setup.ops /\ slot' = s /\ Set(t, Open(j, s))
          /\ UNCHANGED <<setup, store, env, view, buffers, activePath, panel, timer, asked, card, edits, newest>>
      BY <1>8 DEF ChooseExample, Acts, shown, history
    <2>2. j \in Handlers /\ j.op = "swap"
      BY IdleOp
    <2> HIDE DEF j
    <2>3. Good(Open(j, s))
      BY <2>2, OpenGood
    <2>4. TasksGood' /\ SwapsAsked'
      BY <1>0, <2>1, <2>3, TaskSet
    <2>5. SessionsTyped'
      BY <1>0, <2>1 DEF PageTypes, SessionsTyped
    <2> QED
      BY <1>0, <2>1, <2>4, <2>5, PageStep DEF PageTypes
  <1> QED
    BY <1>2, <1>3, <1>4, <1>5, <1>6, <1>7, <1>8 DEF User

\* The user types into the editor.
LEMMA TypeNext ==
    ASSUME BufInv, Type
    PROVE  BufInv'
  <1>0. /\ PageTypes /\ TasksGood /\ SwapsAsked /\ edits \in 0..MaxEdits /\ newest \in [Files -> 0..MaxEdits]
        /\ view \in [active : MaybeFiles, doc : Texts] /\ buffers \in [Files -> MaybeTexts]
        /\ timer \in MaybeFiles
    BY DEF BufInv, BufTypes, PageTypes
  <1>1. /\ edits < MaxEdits /\ edits' = edits + 1
        /\ view' = [view EXCEPT !.doc.stamp = edits + 1]
        /\ timer' = IF view.active = None THEN timer ELSE view.active
        /\ newest' = [f \in Files |-> IF f = view.active THEN edits + 1 ELSE newest[f]]
        /\ UNCHANGED <<setup, store, slot, env, buffers, activePath, panel, asked, card, task>>
    BY DEF Type
  <1>2. edits' \in 0..MaxEdits /\ edits + 1 \in 0..MaxEdits
    BY <1>0, <1>1, Constants
  <1>3. newest' \in [Files -> 0..MaxEdits]
    BY <1>0, <1>1, <1>2
  <1>4. /\ view' = [view EXCEPT !.doc = [view.doc EXCEPT !.stamp = edits + 1]]
        /\ view.doc \in Texts /\ view.active \in MaybeFiles
    BY <1>0, <1>1
  <1>5. [view.doc EXCEPT !.stamp = edits + 1] \in Texts /\ [view.doc EXCEPT !.stamp = edits + 1].stamp = edits + 1
    BY <1>2, <1>4 DEF Texts
  <1>6. /\ view' \in [active : MaybeFiles, doc : Texts] /\ view'.active = view.active
        /\ view'.doc.stamp = edits + 1
    BY <1>0, <1>4, <1>5
  <1>7. timer' \in MaybeFiles
    BY <1>0, <1>1, <1>4
  <1>8. TasksGood' /\ SwapsAsked'
    BY <1>0, <1>1, TasksKept
  <1>9. PageTypes'
    BY <1>0, <1>1, <1>2, <1>3, <1>6, <1>7 DEF PageTypes, SessionsTyped
  <1>10. ShownIsKept' /\ OpenFileIsShown'
    BY <1>1, <1>6 DEF BufInv, EditorInv, ShownIsKept, OpenFileIsShown
  <1>11. NothingTypedIsLost'
    BY <1>1, <1>6 DEF BufInv, EditorInv, NothingTypedIsLost
  <1> QED
    BY <1>8, <1>9, <1>10, <1>11 DEF BufInv, BufTypes, EditorInv

\* The page boots again: what was typed is gone with the old page, and the first
\* file is in the editor.
LEMMA ReloadNext ==
    ASSUME BufInv, Reload
    PROVE  BufInv'
  <1> DEFINE s == slot
  <1> DEFINE e == EnvOf(slot)
  <1> DEFINE p == Initial(e.files)
  <1>0. PageTypes /\ slot \in Slots
    BY DEF BufInv, BufTypes, PageTypes
  <1>1. /\ store' = [store EXCEPT ![s] = Reseeded(s)]
        /\ env' = e /\ activePath' = p /\ panel' = MainOf(e.files)
        /\ view' = [active |-> p, doc |-> IF p = None THEN Text(s, Main, 0) ELSE store'[s].files[p]]
        /\ buffers' = [f \in Files |-> IF f = p THEN view'.doc ELSE None]
        /\ asked' = Converts(e, p) /\ timer' = None /\ card' = FALSE
        /\ task' = [t \in Tasks |-> Idle] /\ newest' = [f \in Files |-> 0]
        /\ UNCHANGED <<setup, slot, edits>>
    BY DEF Reload
  <1>2. /\ Reseeded(s) \in [gen : 1..MaxGen, live : BOOLEAN, files : [Files -> MaybeTexts]]
        /\ Reseeded(s).live /\ e \in Envs /\ e.files = Present(Reseeded(s).files)
        /\ \A f \in Present(Reseeded(s).files) : Reseeded(s).files[f] \in Texts
    BY <1>0, ReseededTypes
  <1>3. e.files \in SUBSET Files
    BY <1>2, EnvTypes
  <1>4. p \in e.files \union {None} /\ MainOf(e.files) \in MaybeFiles
    BY <1>3, MainOfTypes DEF MaybeFiles
  <1> HIDE DEF p, e
  <1>5. SessionsTyped' /\ store'[s] = Reseeded(s)
    BY <1>0, <1>1, <1>2 DEF PageTypes, SessionsTyped
  <1>6. view'.doc \in Texts /\ view'.active = p
    <2>1. CASE p = None
      <3>1. Text(s, Main, 0) \in Texts
        BY <1>0, Constants DEF Text, Texts
      <3> QED
        BY <1>1, <2>1, <3>1
    <2>2. CASE p # None
      BY <1>1, <1>2, <1>4, <1>5, <2>2
    <2> QED
      BY <2>1, <2>2
  <1>7. p \in MaybeFiles
    BY <1>3, <1>4 DEF MaybeFiles
  <1>8. view' \in [active : MaybeFiles, doc : Texts]
    BY <1>1, <1>6, <1>7
  <1>9. buffers' \in [Files -> MaybeTexts] /\ (p # None => buffers'[p] # None)
    BY <1>1, <1>6, <1>7, TextsAreTexts DEF MaybeTexts, MaybeFiles
  <1>10. TasksGood' /\ SwapsAsked'
    BY <1>1, IdleGood DEF TasksGood, SwapsAsked, Good
  <1>11. newest' \in [Files -> 0..MaxEdits] /\ asked' \in BOOLEAN /\ None \in MaybeFiles
    BY <1>1, Constants DEF Converts, MaybeFiles
  <1>12. PageTypes'
    BY <1>0, <1>1, <1>2, <1>4, <1>5, <1>7, <1>8, <1>9, <1>11 DEF PageTypes
  <1>13. ShownIsKept'
    BY <1>6, <1>9 DEF ShownIsKept
  <1>14. NothingTypedIsLost'
    BY <1>1 DEF NothingTypedIsLost
  <1>15. OpenFileIsShown'
    BY <1>1, <1>6 DEF OpenFileIsShown
  <1> QED
    BY <1>10, <1>12, <1>13, <1>14, <1>15 DEF BufInv, BufTypes, EditorInv

\* A session goes; one more can follow it.
LEMMA ExpireNext ==
    ASSUME BufInv, NEW s \in Slots, Expire(s)
    PROVE  BufInv'
  <1>0. PageTypes /\ TasksGood /\ SwapsAsked
    BY DEF BufInv, BufTypes
  <1>1. /\ store[s].gen < MaxGen /\ store' = [store EXCEPT ![s].live = FALSE]
        /\ UNCHANGED <<setup, slot, env, view, buffers, activePath, panel, timer, asked, card, task, edits, newest>>
    BY DEF Expire, shown, history
  <1> DEFINE new == [store[s] EXCEPT !.live = FALSE]
  <1>2. store' = [store EXCEPT ![s] = new]
    BY <1>1
  <1>3. new \in [gen : 1..MaxGen, live : BOOLEAN, files : [Files -> MaybeTexts]] /\ new.gen = store[s].gen
    BY <1>0 DEF PageTypes, SessionsTyped
  <1> HIDE DEF new
  <1>4. SessionsTyped'
    <2>1. /\ store \in [Slots -> [gen : 1..MaxGen, live : BOOLEAN, files : [Files -> MaybeTexts]]]
          /\ \A u \in Slots : store[u].live \/ store[u].gen < MaxGen
      BY <1>0 DEF PageTypes, SessionsTyped
    <2>2. \A u \in Slots : store'[u] = IF u = s THEN new ELSE store[u]
      BY <1>2, <2>1
    <2>3. store' \in [Slots -> [gen : 1..MaxGen, live : BOOLEAN, files : [Files -> MaybeTexts]]]
      BY <1>2, <1>3, <2>1
    <2>4. \A u \in Slots : store'[u].live \/ store'[u].gen < MaxGen
      <3> TAKE u \in Slots
      <3>1. CASE u = s
        BY <1>1, <1>3, <2>2, <3>1
      <3>2. CASE u # s
        BY <2>1, <2>2, <3>2
      <3> QED
        BY <3>1, <3>2
    <2> QED
      BY <2>3, <2>4 DEF SessionsTyped
  <1>5. TasksGood' /\ SwapsAsked'
    BY <1>0, <1>1, TasksKept
  <1> QED
    BY <1>0, <1>1, <1>4, <1>5, PageStep DEF PageTypes

-----------------------------------------------------------------------------
(* The inductive invariant.                                                *)

\* It holds when the tab has booted.
LEMMA BufInvInit == Init => BufInv
  <1> SUFFICES ASSUME Init PROVE BufInv
    OBVIOUS
  <1>1. /\ setup \in Setups
        /\ store = [s \in Slots |-> [gen |-> 1, live |-> TRUE, files |-> Seeded(s)]]
        /\ slot = First /\ env = [slot |-> First, gen |-> 1, files |-> Template[First]]
        /\ view = [active |-> Main, doc |-> Text(First, Main, 0)]
        /\ buffers = [f \in Files |-> IF f = Main THEN Text(First, Main, 0) ELSE None]
        /\ activePath = Main /\ panel = Main /\ timer = None /\ asked = TRUE /\ card = FALSE
        /\ task = [t \in Tasks |-> Idle] /\ edits = 0 /\ newest = [f \in Files |-> 0]
    BY DEF Init
  <1>2. Text(First, Main, 0) \in Texts
    BY Constants DEF Text, Texts
  <1>3. \A s \in Slots : Seeded(s) \in [Files -> MaybeTexts]
    BY Constants DEF Seeded, Text, MaybeTexts, Texts
  <1>4. SessionsTyped
    BY <1>1, <1>3, Constants DEF SessionsTyped
  <1>5. env \in Envs
    BY <1>1, Constants DEF Envs
  <1>6. view \in [active : MaybeFiles, doc : Texts] /\ buffers \in [Files -> MaybeTexts]
    BY <1>1, <1>2, Constants DEF MaybeFiles, MaybeTexts
  <1>7. PageTypes
    <2>1. /\ activePath \in MaybeFiles /\ panel \in MaybeFiles /\ timer \in MaybeFiles
          /\ asked \in BOOLEAN /\ card \in BOOLEAN
      BY <1>1, Constants DEF MaybeFiles
    <2>2. edits \in 0..MaxEdits /\ newest \in [Files -> 0..MaxEdits]
      BY <1>1, Constants
    <2>3. setup \in Setups /\ slot \in Slots
      BY <1>1, Constants
    <2> QED
      BY <1>4, <1>5, <1>6, <2>1, <2>2, <2>3 DEF PageTypes
  <1>8. TasksGood /\ SwapsAsked
    BY <1>1, IdleGood DEF TasksGood, SwapsAsked
  <1>9. EditorInv
    BY <1>1, <1>2, Constants, TextsAreTexts DEF EditorInv, ShownIsKept, NothingTypedIsLost, OpenFileIsShown
  <1> QED
    BY <1>7, <1>8, <1>9 DEF BufInv, BufTypes

\* Every step keeps it.
LEMMA BufInvNext == BufInv /\ [Next]_vars => BufInv'
  <1> SUFFICES ASSUME BufInv, [Next]_vars PROVE BufInv'
    OBVIOUS
  <1>1. ASSUME NEW t \in Tasks,
               Server(t) \/ EditStep(t) \/ OpenStep(t) \/ PanelStep(t) \/ SessionStep(t) \/ User(t)
        PROVE  BufInv'
    BY <1>1, ServerNext, EditNext, OpenNext, PanelNext, SessionNext, UserNext
  <1>2. CASE Type
    BY <1>2, TypeNext
  <1>3. CASE Reload
    BY <1>3, ReloadNext
  <1>4. CASE WsAnswered \/ UNCHANGED vars
    <2>1. /\ asked' \in {FALSE, asked}
          /\ UNCHANGED <<setup, store, slot, env, view, buffers, activePath, panel, timer, card, task, edits, newest>>
      BY <1>4 DEF WsAnswered, vars, shown, history
    <2>2. PageTypes /\ TasksGood /\ SwapsAsked
      BY DEF BufInv, BufTypes
    <2>3. TasksGood' /\ SwapsAsked'
      BY <2>1, <2>2, TasksKept
    <2>4. SessionsTyped'
      BY <2>1, <2>2 DEF PageTypes, SessionsTyped
    <2> QED
      BY <2>1, <2>2, <2>3, <2>4, PageStep DEF PageTypes
  <1>5. ASSUME NEW s \in Slots, Expire(s)
        PROVE  BufInv'
    BY <1>5, ExpireNext
  <1> QED
    BY <1>1, <1>2, <1>3, <1>4, <1>5 DEF Next

\* The typing lemma gives the invariant the runs check.
LEMMA BufTypesSuffice == BufTypes => TypeOK
  BY DEF BufTypes, PageTypes, TasksGood, SessionsTyped, TypeOK

-----------------------------------------------------------------------------
(* A patient user: what is shown is saved.                                 *)

\* The handler that waits, or that none does.
LEMMA CalmHandler ==
    ASSUME CalmInv, Patient(setup), NEW t \in Tasks, ~Free(t)
    PROVE  Calm(task[t]) /\ \A u \in Tasks \ {t} : Free(u)
  <1>1. PICK v \in Tasks : ~Free(v) /\ (\A u \in Tasks \ {v} : Free(u)) /\ Calm(task[v])
    BY DEF CalmInv
  <1>2. v = t
    BY <1>1
  <1> QED
    BY <1>1, <1>2

LEMMA CalmAlone ==
    ASSUME CalmInv, Patient(setup), (\A t \in Tasks : Free(t)) \/ timer # None
    PROVE  Calm(Idle) /\ \A t \in Tasks : Free(t)
  <1>1. ASSUME NEW t \in Tasks, ~Free(t), timer # None
        PROVE  FALSE
    BY <1>1, CalmHandler DEF Calm, PageCalm, Free
  <1> QED
    BY <1>1 DEF CalmInv

\* A handler takes a step, or ends.
LEMMA CalmStep ==
    ASSUME BufInv, NEW t \in Tasks, \A u \in Tasks \ {t} : Free(u), NEW m, Set(t, m),
           m.at # "idle", Calm(m)'
    PROVE  CalmInv'
  <1>1. task' = [task EXCEPT ![t] = m] /\ task \in [Tasks -> Handlers]
    BY DEF Set, BufInv, BufTypes, TasksGood
  <1>2. task'[t] = m /\ \A u \in Tasks \ {t} : task'[u] = task[u]
    BY <1>1
  <1>3. Calm(task[t])'
    BY <1>2
  <1>4. Free(t)' = FALSE /\ \A u \in Tasks \ {t} : Free(u)'
    BY <1>2 DEF Free
  <1> QED
    BY <1>3, <1>4 DEF CalmInv

LEMMA CalmEnd ==
    ASSUME BufInv, NEW t \in Tasks, \A u \in Tasks \ {t} : Free(u), End(t), Calm(Idle)'
    PROVE  CalmInv'
  <1>1. task' = [task EXCEPT ![t] = Idle] /\ task \in [Tasks -> Handlers]
    BY DEF End, Set, BufInv, BufTypes, TasksGood
  <1>2. \A u \in Tasks : Free(u)'
    BY <1>1 DEF Free, Idle
  <1> QED
    BY <1>2 DEF CalmInv

\* Steps that leave the server, the envelope and the editor alone.
LEMMA CalmFrame ==
    ASSUME NEW k, NEW m, Calm(k),
           UNCHANGED <<setup, store, env, view, buffers, card>>,
           asked' => asked \/ Live(env), activePath' \in {activePath, None},
           timer' = timer \/ (timer' = None /\ m.at = "sent" /\ m.req = "put"),
           m.at # "idle" => timer' = None /\ TaskCalm(m),
           k.at = "sent" /\ k.req = "put" => m.at = "sent" /\ m.req = "put",
           Dropping(k) => Dropping(m),
           k.at # "idle" /\ k.op = "swap" /\ k.req = "get" =>
               m.at # "idle" /\ m.op = "swap" /\ m.req = "get",
           Expiring(setup) /\ m.at # "idle" =>
               m.op \in {"save", "swap"} /\ (m.op = "swap" /\ m.req = "get" => m.path = Main)
    PROVE  Calm(m)'
  <1>1. PageCalm(m)'
    BY DEF Calm, PageCalm, Live
  <1>2. Synced(m)'
    <2>1. ASSUME NEW f, Saving(k, f) PROVE Saving(m, f)'
      BY <2>1 DEF Saving
    <2>2. /\ Saved' = Saved /\ Live(env)' = Live(env) /\ env' = env
          /\ \A f : Kept(f)' = Kept(f)
      BY DEF Saved, Live, Kept
    <2> QED
      BY <2>1, <2>2 DEF Calm, Synced, Dropping
  <1>3. m.at # "idle" => TaskCalm(m)'
    <2>1. TaskCalm(m) => TaskCalm(m)'
      BY DEF TaskCalm, Saved, Live
    <2> QED
      BY <2>1
  <1>4. (Careful(setup) => AllLive)'
    BY DEF Calm, AllLive
  <1>5. (Expiring(setup) => MainOnly(m))'
    BY DEF Calm, MainOnly
  <1> QED
    BY <1>1, <1>2, <1>3, <1>4, <1>5 DEF Calm

\* The requests a handler sends.
LEMMA PutIs ==
    ASSUME NEW k \in Handlers, NEW e, NEW p, NEW x
    PROVE  /\ Put(k, e, p, x).at = "sent" /\ Put(k, e, p, x).req = "put" /\ Put(k, e, p, x).to = Id(e)
           /\ Put(k, e, p, x).path = p /\ Put(k, e, p, x).text = x /\ Put(k, e, p, x).op = k.op
           /\ Put(k, e, p, x).goal = k.goal /\ Put(k, e, p, x).made = k.made
           /\ Put(k, e, p, x).again = k.again
  BY DEF Put, Handlers

LEMMA GetIs ==
    ASSUME NEW k \in Handlers, NEW e, NEW p
    PROVE  /\ Get(k, e, p).at = "sent" /\ Get(k, e, p).req = "get" /\ Get(k, e, p).to = Id(e)
           /\ Get(k, e, p).path = p /\ Get(k, e, p).op = k.op
           /\ Get(k, e, p).goal = k.goal /\ Get(k, e, p).made = k.made
           /\ Get(k, e, p).again = k.again
  BY DEF Get, Handlers

LEMMA OpenIs ==
    ASSUME NEW k \in Handlers, NEW s
    PROVE  /\ Open(k, s).at = "sent" /\ Open(k, s).req = "session" /\ Open(k, s).to.slot = s
           /\ Open(k, s).path = k.path /\ Open(k, s).text = k.text /\ Open(k, s).op = k.op
           /\ Open(k, s).goal = k.goal /\ Open(k, s).made = k.made
           /\ Open(k, s).again = k.again
  BY DEF Open, Handlers

LEMMA ListIs ==
    ASSUME NEW k \in Handlers
    PROVE  /\ List(k).at = "sent" /\ List(k).req = "list" /\ List(k).to = Id(env)
           /\ List(k).op = k.op /\ List(k).goal = k.goal /\ List(k).made = k.made
  BY DEF List, Handlers

\* Opening a file from the panel: the one that was open is saved first.
OpensFile(m, p, e, a, x) ==
    /\ m.at = "sent" /\ m.op = "open" /\ m.goal = p /\ m.made = None /\ ~m.again /\ m.to = Id(e)
    /\ a \in e.files => m.req = "put" /\ m.path = a /\ m.text = x
    /\ a \notin e.files => m.req = "get" /\ m.path = p

LEMMA OpeningIs ==
    ASSUME NEW p \in Files, NEW e \in Envs, NEW a, NEW x, a \in e.files => x \in Texts
    PROVE  /\ OpensFile(Opening(p, e, a, x), p, e, a, x)
           /\ OpensFile([Opening(p, e, a, x) EXCEPT !.then = TRUE, !.made = None], p, e, a, x)
  <1> DEFINE r == [Idle EXCEPT !.op = "open", !.goal = p]
  <1>1. r \in Handlers /\ r.op = "open" /\ r.goal = p /\ r.made = None /\ r.again = FALSE
    BY DEF Idle, Handlers, MaybeFiles, MaybeTexts
  <1>2. Opening(p, e, a, x) = IF a \in e.files THEN Put(r, e, a, x) ELSE Get(r, e, p)
    BY DEF Opening
  <1> HIDE DEF r
  <1>3. OpensFile(Opening(p, e, a, x), p, e, a, x)
    BY <1>1, <1>2, PutIs, GetIs DEF OpensFile
  <1> DEFINE o == Opening(p, e, a, x)
  <1>4. o \in Handlers
    BY OpeningGood DEF Good
  <1> HIDE DEF o
  <1> DEFINE q == [o EXCEPT !.then = TRUE, !.made = None]
  <1>5. /\ q.at = o.at /\ q.op = o.op /\ q.goal = o.goal /\ q.made = None /\ q.again = o.again
        /\ q.to = o.to /\ q.req = o.req /\ q.path = o.path /\ q.text = o.text
    BY <1>4 DEF Handlers
  <1> HIDE DEF q
  <1>6. OpensFile(o, p, e, a, x) => OpensFile(q, p, e, a, x)
    BY <1>5 DEF OpensFile
  <1> QED
    BY <1>3, <1>6 DEF o, q

\* Such a step of a handler that waits, or of none.
LEMMA CalmFrameStep ==
    ASSUME BufInv, NEW t \in Tasks, \A u \in Tasks \ {t} : Free(u), NEW k, Calm(k), NEW m, Set(t, m),
           UNCHANGED <<setup, store, env, view, buffers, card>>,
           asked' => asked \/ Live(env), activePath' \in {activePath, None},
           timer' = timer \/ (timer' = None /\ m.at = "sent" /\ m.req = "put"),
           timer' = None, m.at # "idle", TaskCalm(m),
           k.at = "sent" /\ k.req = "put" => m.req = "put" /\ m.at = "sent",
           Dropping(k) => Dropping(m),
           k.at # "idle" /\ k.op = "swap" /\ k.req = "get" => m.op = "swap" /\ m.req = "get",
           Expiring(setup) => m.op \in {"save", "swap"} /\ (m.op = "swap" /\ m.req = "get" => m.path = Main)
    PROVE  CalmInv'
  <1>1. Calm(m)'
    BY CalmFrame
  <1> QED
    BY <1>1, CalmStep

LEMMA CalmFrameEnd ==
    ASSUME BufInv, NEW t \in Tasks, \A u \in Tasks \ {t} : Free(u), NEW k, Calm(k), End(t),
           UNCHANGED <<setup, store, env, view, buffers, card, timer>>,
           asked' => asked \/ Live(env), activePath' \in {activePath, None},
           ~(k.at = "sent" /\ k.req = "put"), ~Dropping(k),
           ~(k.at # "idle" /\ k.op = "swap" /\ k.req = "get")
    PROVE  CalmInv'
  <1>1. Idle.at = "idle"
    BY DEF Idle
  <1>2. Calm(Idle)'
    BY <1>1, CalmFrame
  <1> QED
    BY <1>2, CalmEnd

\* What is known of a handler that waits.
LEMMA CalmFacts ==
    ASSUME BufInv, CalmInv, Patient(setup), NEW t \in Tasks, NEW k, k = task[t], k.at # "idle"
    PROVE  /\ \A u \in Tasks \ {t} : Free(u)
           /\ Calm(k) /\ TaskCalm(k) /\ timer = None
           /\ k \in Handlers /\ Good(k) /\ env \in Envs /\ env.files \subseteq Files
           /\ view.active \in MaybeFiles /\ view.doc \in Texts /\ None \notin Files
           /\ Careful(setup) => k.at # "gone" /\ ~(k.op = "save" /\ k.req = "session") /\ Live(env)
           /\ Expiring(setup) => k.op \in {"save", "swap"}
  <1>1. /\ \A u \in Tasks \ {t} : Free(u)
        /\ Calm(k)
    BY CalmHandler DEF Free
  <1>2. TaskCalm(k) /\ timer = None
    BY <1>1 DEF Calm, PageCalm
  <1>3. k \in Handlers /\ Good(k) /\ env \in Envs /\ view.doc \in Texts /\ view.active \in MaybeFiles
    BY TaskFacts DEF PageTypes
  <1>4. env.files \subseteq Files /\ None \notin Files
    BY <1>3, EnvTypes, Constants
  <1>5. Expiring(setup) => k.op \in {"save", "swap"}
    BY <1>1 DEF Calm, MainOnly
  <1>6. Careful(setup) => k.at # "gone" /\ ~(k.op = "save" /\ k.req = "session") /\ Live(env)
    <2> SUFFICES ASSUME Careful(setup)
                 PROVE  k.at # "gone" /\ ~(k.op = "save" /\ k.req = "session") /\ Live(env)
      OBVIOUS
    <2>1. Live(env)
      <3>1. env.slot \in Slots /\ env.gen \in 1..MaxGen /\ env.gen <= store[env.slot].gen
        BY <1>1, <1>3, EnvTypes DEF Calm, PageCalm
      <3>2. store[env.slot].live /\ store[env.slot].gen = 1
        BY <1>1, <3>1 DEF Calm, AllLive
      <3> QED
        BY <3>1, <3>2, Constants DEF Live
    <2> QED
      BY <1>2, <2>1 DEF TaskCalm
  <1> QED
    BY <1>1, <1>2, <1>3, <1>4, <1>5, <1>6

\* The main file of a listing that has it.
LEMMA MainFirst ==
    ASSUME NEW F, Main \in F
    PROVE  MainOf(F) = Main /\ Initial(F) = Main
  BY Constants DEF MainOf, Initial

\* The steps of a save.
LEMMA CalmEdit ==
    ASSUME BufInv, CalmInv, Patient(setup), NEW t \in Tasks, EditStep(t)
    PROVE  CalmInv'
  <1> PICK k : k = task[t]
    OBVIOUS
  <1>a. ASSUME k.at # "idle"
        PROVE  /\ \A u \in Tasks \ {t} : Free(u)
               /\ Calm(k) /\ TaskCalm(k) /\ timer = None
               /\ k \in Handlers /\ Good(k) /\ env \in Envs /\ env.files \subseteq Files
               /\ view.active \in MaybeFiles /\ view.doc \in Texts /\ None \notin Files
               /\ Careful(setup) => k.at # "gone" /\ ~(k.op = "save" /\ k.req = "session") /\ Live(env)
               /\ Expiring(setup) => k.op \in {"save", "swap"}
    BY <1>a, CalmFacts
  <1>1. CASE Fire(t)
    <2>1. (\A u \in Tasks : Free(u)) /\ Calm(Idle)
      BY <1>1, CalmAlone DEF Fire
    <2> PICK o : o = IF timer \notin setup.tex THEN "aux" ELSE IF FastPath THEN "fast" ELSE "save"
      OBVIOUS
    <2>2. /\ timer # None /\ timer' = None
          /\ UNCHANGED <<setup, store, slot, env, view, buffers, panel, card, history>>
          /\ asked' \in {asked, asked \/ Converts(env, activePath)}
          /\ activePath' \in {activePath, Forgets(env, activePath)}
      BY <1>1 DEF Fire
    <2>3. Set(t, Put([Idle EXCEPT !.op = o], env, timer, view.doc))
      BY <1>1 DEF Fire
    <2> PICK j : j = [Idle EXCEPT !.op = o]
      OBVIOUS
    <2>4. j \in Handlers /\ j.op = o /\ j.again = FALSE /\ o \in {"aux", "fast", "save"}
      BY IdleGood DEF Handlers, Idle
    <2> PICK m : m = Put(j, env, timer, view.doc)
      OBVIOUS
    <2>5. /\ m.at = "sent" /\ m.req = "put" /\ m.to = Id(env) /\ m.path = timer /\ m.text = view.doc
          /\ m.op = o /\ m.again = FALSE
      <3>1. /\ m.at = "sent" /\ m.req = "put" /\ m.to = Id(env) /\ m.path = timer /\ m.text = view.doc
            /\ m.op = j.op /\ m.again = j.again
        BY ONLY m = Put(j, env, timer, view.doc), <2>4, PutIs
      <3> QED
        BY <2>4, <3>1
    <2>6. PageCalm(Idle) /\ timer = view.active
      BY <2>1, <2>2 DEF Calm, PageCalm
    <2>7. Careful(setup) => Live(env)
      <3> SUFFICES ASSUME Careful(setup) PROVE Live(env)
        OBVIOUS
      <3>1. env.slot \in Slots /\ env.gen \in 1..MaxGen /\ env.gen <= store[env.slot].gen
        BY <2>6, EnvTypes, TaskFacts DEF PageCalm
      <3>2. store[env.slot].live /\ store[env.slot].gen = 1
        BY <2>1, <3>1 DEF Calm, AllLive
      <3> QED
        BY <3>1, <3>2, Constants DEF Live
    <2>8. Expiring(setup) => o = "save"
      <3> SUFFICES ASSUME Expiring(setup) PROVE o = "save"
        OBVIOUS
      <3>1. timer = Main /\ env.files = Template[env.slot] /\ env.slot \in Slots
        BY <2>1, <2>2, <2>6, EnvTypes, TaskFacts DEF Calm, MainOnly
      <3>2. Cardinality(env.files \intersect setup.tex) # 1
        BY <3>1 DEF Expiring
      <3>3. Main \in setup.tex
        BY BuffersAssumption DEF BufInv, BufTypes, PageTypes
      <3> QED
        BY <3>1, <3>2, <3>3 DEF FastPath
    <2>9. Careful(setup) \/ o = "save"
      BY <2>8 DEF Patient
    <2>10. TaskCalm(m)
      BY <2>4, <2>5, <2>6, <2>7, <2>9 DEF TaskCalm, Asks
    <2>11. activePath' \in {activePath, None} /\ (asked' => asked \/ Live(env))
      <3>1. o \in {"save", "aux"} => asked' = asked
        BY <1>1 DEF Fire
      <3> QED
        BY <2>2, <2>4, <2>7, <2>9, <3>1, ForgetsTypes
    <2>12. Idle.at = "idle" /\ ~Dropping(Idle)
      BY DEF Idle, Dropping
    <2>13. Expiring(setup) => m.op \in {"save", "swap"} /\ (m.op = "swap" /\ m.req = "get" => m.path = Main)
      BY <2>5, <2>8
    <2> QED
      BY <2>1, <2>2, <2>3, <2>5, <2>10, <2>11, <2>12, <2>13, CalmFrameStep
  <1>2. CASE FastDone(t)
    <2>1. k.at # "idle" /\ k.at # "sent" /\ k.op = "fast" /\ End(t)
          /\ UNCHANGED <<setup, store, slot, env, shown, timer, asked, card, history>>
      BY <1>2 DEF FastDone, Got
    <2> QED
      BY <1>a, <2>1, CalmFrameEnd DEF shown, Dropping
  <1>3. CASE SaveDone(t)
    <2>1. /\ k.at = "ok" /\ k.op = "save" /\ k.req = "put" /\ End(t)
          /\ UNCHANGED <<setup, store, slot, env, view, buffers, panel, timer, card, history>>
          /\ asked' = (asked \/ Converts(env, activePath)) /\ activePath' = Forgets(env, activePath)
      BY <1>3 DEF SaveDone, Got
    <2>2. Live(env)
      BY <1>a, <2>1 DEF TaskCalm
    <2> QED
      BY <1>a, <2>1, <2>2, ForgetsTypes, CalmFrameEnd DEF Dropping
  <1>4. CASE AuxDone(t)
    <2>1. /\ k.at = "ok" /\ k.op = "aux" /\ k.req = "put"
          /\ UNCHANGED <<setup, store, slot, env, shown, timer, asked, card, history>>
      BY <1>4 DEF AuxDone, Got
    <2>2. CASE MainOf(env.files) = None
      <3>1. End(t)
        BY <1>4, <2>2 DEF AuxDone
      <3> QED
        BY <1>a, <2>1, <3>1, CalmFrameEnd DEF shown, Dropping
    <2>3. CASE MainOf(env.files) # None
      <3> PICK m : m = Get(k, env, MainOf(env.files))
        OBVIOUS
      <3>1. Set(t, m)
        BY <1>4, <2>3 DEF AuxDone
      <3>2. /\ m.at = "sent" /\ m.req = "get" /\ m.to = Id(env) /\ m.path = MainOf(env.files) /\ m.op = "aux"
        BY <1>a, <2>1, GetIs
      <3>3. Careful(setup) /\ ~Expiring(setup) /\ Live(env)
        BY <1>a, <2>1 DEF Patient
      <3>4. MainOf(env.files) \in env.files
        BY <1>a, <2>1, <2>3, MainOfTypes
      <3>5. m.path \in Present(Saved)
        BY <1>a, <2>1, <3>2, <3>3, <3>4 DEF Calm, Synced, Dropping
      <3>6. TaskCalm(m)
        BY <3>2, <3>3, <3>5 DEF TaskCalm, Asks
      <3> QED
        BY <1>a, <2>1, <3>1, <3>2, <3>3, <3>6, CalmFrameStep DEF shown, Dropping
    <2> QED
      BY <2>2, <2>3
  <1>5. CASE AuxConvert(t)
    <2>1. /\ k.at # "idle" /\ k.at # "sent" /\ k.op = "aux" /\ k.req = "get" /\ End(t)
          /\ UNCHANGED <<setup, store, slot, env, shown, timer, card, history>>
      BY <1>5 DEF AuxConvert, Got
    <2>2. Live(env)
      BY <1>a, <2>1 DEF TaskCalm
    <2> QED
      BY <1>a, <2>1, <2>2, CalmFrameEnd DEF shown, Dropping
  <1>6. CASE SaveGone(t)
    <2>1. /\ k.at = "gone" /\ k.op \in {"save", "aux"} /\ k.req = "put" /\ ~k.again
          /\ Set(t, Open(k, env.slot))
          /\ UNCHANGED <<setup, store, slot, env, shown, timer, asked, card, history>>
      BY <1>6 DEF SaveGone, Got
    <2>2. k.op = "save" /\ ~Live(env) /\ k.path = view.active /\ k.text = view.doc
      BY <1>a, <2>1 DEF TaskCalm
    <2> PICK m : m = Open(k, env.slot)
      OBVIOUS
    <2>3. /\ m.at = "sent" /\ m.req = "session" /\ m.to.slot = env.slot /\ m.path = k.path
          /\ m.text = k.text /\ m.op = "save" /\ m.again = k.again
      BY <1>a, <2>1, <2>2, OpenIs
    <2>4. TaskCalm(m)
      BY <1>a, <2>2, <2>3 DEF TaskCalm, Asks
    <2> QED
      BY <1>a, <2>1, <2>3, <2>4, CalmFrameStep DEF shown, Dropping
  <1>7. CASE SaveReopened(t)
    <2>1. /\ k.at = "ok" /\ k.op \in {"save", "aux"} /\ k.req = "session"
          /\ env' = Opened(t) /\ asked' = FALSE
          /\ Set(t, [Put(k, Opened(t), k.path, k.text) EXCEPT !.again = TRUE])
          /\ UNCHANGED <<setup, store, slot, shown, timer, card, history>>
      BY <1>7 DEF SaveReopened, Got
    <2>2. /\ k.op = "save" /\ ~Live(env) /\ k.path = view.active /\ k.text = view.doc /\ k.to.slot = env.slot
          /\ Live(k.to) /\ k.files = Present(store[k.to.slot].files)
      BY <1>a, <2>1 DEF TaskCalm, Asks
    <2>3. Opened(t) = [slot |-> k.to.slot, gen |-> k.to.gen, files |-> k.files]
      BY DEF Opened
    <2> PICK e : e = Opened(t)
      OBVIOUS
    <2>4. /\ e.slot = env.slot /\ Id(e) = [slot |-> e.slot, gen |-> e.gen] /\ e.gen = k.to.gen
          /\ e.files = Present(Saved) /\ e.gen = store[env.slot].gen /\ store[env.slot].live
      BY <2>2, <2>3 DEF Id, Saved, Live
    <2> PICK j : j = Put(k, e, k.path, k.text)
      OBVIOUS
    <2> PICK m : m = [j EXCEPT !.again = TRUE]
      OBVIOUS
    <2>5. /\ m.at = "sent" /\ m.req = "put" /\ m.to = Id(e) /\ m.path = k.path /\ m.text = k.text
          /\ m.op = "save" /\ m.again = TRUE
      <3>1. /\ j.at = "sent" /\ j.req = "put" /\ j.to = Id(e) /\ j.path = k.path /\ j.text = k.text
            /\ j.op = "save"
        BY <1>a, <2>1, <2>2, PutIs
      <3>2. j \in Handlers
        <4>1. e \in Envs
          BY <1>a, <2>1, OpenedTypes DEF BufInv, BufTypes
        <4>2. k.path \in Files /\ k.text \in Texts
          BY <1>a, <2>1, <2>2 DEF Good
        <4> QED
          BY <1>a, <2>1, <2>2, <4>1, <4>2, PutGood DEF Good
      <3> QED
        BY <3>1, <3>2 DEF Handlers
    <2>6. Expiring(setup) /\ view.active = Main /\ ~Careful(setup)
      <3>1. Expiring(setup) /\ ~Careful(setup)
        BY <1>a, <2>1, <2>2 DEF Patient
      <3>2. view.active \in Files
        BY <1>a, <2>1, <2>2 DEF Good
      <3> QED
        BY <1>a, <2>1, <3>1, <3>2, Constants DEF Calm, MainOnly
    <2>7. MainOnly(k) /\ env' = e /\ Saved' = Saved /\ Live(env)'
      BY <1>a, <2>1, <2>4, <2>6 DEF Calm, Saved, Live
    <2>8. PageCalm(m)'
      <3>1. e.gen <= store[e.slot].gen
        <4>1. store[env.slot].gen \in 1..MaxGen
          BY <1>a, EnvTypes, StoreTypes, TaskFacts
        <4> QED
          BY <2>4, <4>1, Constants
      <3> QED
        BY <1>a, <2>1, <2>2, <2>7, <3>1 DEF Calm, PageCalm, shown
    <2>9. Synced(m)'
      <3>1. \A f \in Present(Saved) : f = view.active \/ Kept(f) = None
        BY <2>6, <2>7 DEF MainOnly, Kept, Present
      <3>2. \A f : f = view.active => Saving(m, f)'
        BY <2>1, <2>5 DEF Saving, shown
      <3>3. \A f : Kept(f)' = Kept(f)
        BY <2>1 DEF Kept, shown
      <3> QED
        BY <2>4, <2>7, <3>1, <3>2, <3>3 DEF Synced
    <2>10. TaskCalm(m)'
      BY <2>1, <2>2, <2>5, <2>7 DEF TaskCalm, Asks, shown
    <2>11. MainOnly(m)'
      <3>1. e.files = Template[e.slot]
        BY <1>a, <2>1, <2>4, <2>7, EnvTypes DEF MainOnly, Saved
      <3> QED
        BY <2>1, <2>5, <2>7, <3>1 DEF MainOnly, shown
    <2>12. Calm(m)'
      BY <2>1, <2>5, <2>6, <2>8, <2>9, <2>10, <2>11 DEF Calm
    <2> QED
      BY <1>a, <2>1, <2>5, <2>12, CalmStep
  <1>8. CASE SaveFailed(t)
    <2>1. k.at = "fail" \/ (k.at = "gone" /\ k.again)
      BY <1>8 DEF SaveFailed, Got
    <2> QED
      BY <1>a, <2>1 DEF TaskCalm
  <1> QED
    BY <1>1, <1>2, <1>3, <1>4, <1>5, <1>6, <1>7, <1>8 DEF EditStep

\* A session's files change, and nothing else of it.
LEMMA StoreWith ==
    ASSUME BufInv, NEW s \in Slots, NEW G, store' = [store EXCEPT ![s].files = G]
    PROVE  /\ \A u \in Slots : /\ store'[u].live = store[u].live /\ store'[u].gen = store[u].gen
                               /\ store'[u].files = IF u = s THEN G ELSE store[u].files
           /\ \A i : i.slot \in Slots => Live(i)' = Live(i)
  <1>1. store \in [Slots -> [gen : 1..MaxGen, live : BOOLEAN, files : [Files -> MaybeTexts]]]
    BY DEF BufInv, BufTypes, PageTypes, SessionsTyped
  <1>2. \A u \in Slots : /\ store'[u].live = store[u].live /\ store'[u].gen = store[u].gen
                         /\ store'[u].files = IF u = s THEN G ELSE store[u].files
    <2> DEFINE n == [store[s] EXCEPT !.files = G]
    <2>1. store' = [store EXCEPT ![s] = n]
      BY <1>1
    <2>2. n.live = store[s].live /\ n.gen = store[s].gen /\ n.files = G
      BY <1>1
    <2> HIDE DEF n
    <2>3. \A u \in Slots : store'[u] = IF u = s THEN n ELSE store[u]
      BY <1>1, <2>1
    <2> QED
      BY <2>2, <2>3
  <1>3. \A i : i.slot \in Slots => Live(i)' = Live(i)
    BY <1>2 DEF Live
  <1> QED
    BY <1>2, <1>3

\* A route's answer.
LEMMA AnswerIs ==
    ASSUME NEW k \in Handlers, NEW a, NEW b, NEW F
    PROVE  LET m == [k EXCEPT !.at = a, !.body = b, !.files = F]
           IN  /\ m.at = a /\ m.body = b /\ m.files = F /\ m.op = k.op /\ m.req = k.req /\ m.to = k.to
               /\ m.path = k.path /\ m.text = k.text /\ m.goal = k.goal /\ m.then = k.then
               /\ m.made = k.made /\ m.again = k.again
  BY DEF Handlers

\* The server answers: the text that is shown is saved, and a file that is gone
\* is not listed for long.
LEMMA CalmServed ==
    ASSUME BufInv, CalmInv, Patient(setup), NEW t \in Tasks, ServeFile(t)
    PROVE  CalmInv'
  <1> PICK k : k = task[t]
    OBVIOUS
  <1>1. /\ k.at = "sent" /\ k.req # "session" /\ Live(k.to)
        /\ UNCHANGED <<setup, slot, env, view, buffers, activePath, panel, timer, asked, card, history>>
    BY DEF ServeFile, shown
  <1>2. /\ \A u \in Tasks \ {t} : Free(u)
        /\ Calm(k) /\ TaskCalm(k) /\ timer = None
        /\ k \in Handlers /\ Good(k) /\ env \in Envs /\ env.files \subseteq Files
        /\ view.active \in MaybeFiles /\ view.doc \in Texts /\ None \notin Files
        /\ Careful(setup) => k.at # "gone" /\ ~(k.op = "save" /\ k.req = "session") /\ Live(env)
        /\ Expiring(setup) => k.op \in {"save", "swap"}
    BY <1>1, CalmFacts
  <1>3. k.to = Id(env) /\ k.to.slot = env.slot /\ env.slot \in Slots /\ Live(env)
    <2>1. k.to = Id(env)
      BY <1>1, <1>2 DEF TaskCalm
    <2> QED
      BY <1>1, <1>2, <2>1, EnvTypes DEF Id, Live
  <1>4. /\ store \in [Slots -> [gen : 1..MaxGen, live : BOOLEAN, files : [Files -> MaybeTexts]]]
        /\ Saved \in [Files -> MaybeTexts] /\ None \notin Texts
    BY <1>3, StoreTypes, TextsAreTexts DEF BufInv, BufTypes, PageTypes, SessionsTyped, Saved
  <1>5. k.req \in {"get", "delete"} => k.path \in Present(Saved)
    BY <1>1, <1>2 DEF TaskCalm
  <1> PICK b : b = IF k.req = "get" THEN Saved[k.path] ELSE None
    OBVIOUS
  <1> PICK F : F = IF k.req = "list" THEN Present(Saved) ELSE {}
    OBVIOUS
  <1>6. PICK m : /\ Set(t, m)
                 /\ m.at = "ok" /\ m.body = b /\ m.files = F /\ m.op = k.op /\ m.req = k.req /\ m.to = k.to
                 /\ m.path = k.path /\ m.text = k.text /\ m.goal = k.goal
                 /\ m.made = k.made /\ m.again = k.again
    <2> DEFINE n == [k EXCEPT !.at = "ok", !.body = b, !.files = F]
    <2>1. Set(t, n)
      BY <1>3, <1>5 DEF ServeFile, Saved
    <2>2. /\ n.at = "ok" /\ n.body = b /\ n.files = F /\ n.op = k.op /\ n.req = k.req /\ n.to = k.to
          /\ n.path = k.path /\ n.text = k.text /\ n.goal = k.goal
          /\ n.made = k.made /\ n.again = k.again
      BY <1>2, AnswerIs
    <2> HIDE DEF n
    <2> QED
      BY <2>1, <2>2
  <1>8. /\ <<k.op, k.req>> \in Asks
        /\ k.req \in {"put", "get", "delete", "clear", "list"}
        /\ k.req \in {"delete", "list"} => k.op = "delete"
        /\ k.req = "clear" => k.op = "clear"
        /\ k.req = "put" => k.op \in {"save", "fast", "aux", "open"}
    BY <1>1, <1>2 DEF TaskCalm, Asks
  <1>9. k.op \notin {"save", "swap"} => Careful(setup) /\ ~Expiring(setup)
    BY <1>2 DEF Patient
  <1>10. CASE k.req \in {"get", "list"}
    <2>1. store' = store
      BY <1>1, <1>10 DEF ServeFile
    <2>2. TaskCalm(m)
      BY <1>1, <1>2, <1>3, <1>6, <1>10 DEF TaskCalm
    <2>3. Expiring(setup) => m.op \in {"save", "swap"} /\ (m.op = "swap" /\ m.req = "get" => m.path = Main)
      BY <1>1, <1>2, <1>6 DEF Calm, MainOnly
    <2>4. Dropping(k) => Dropping(m)
      BY <1>6 DEF Dropping
    <2> QED
      BY <1>1, <1>2, <1>6, <1>10, <2>1, <2>2, <2>3, <2>4, CalmFrameStep
  <1>11. ASSUME NEW G \in [Files -> MaybeTexts], store' = [store EXCEPT ![env.slot].files = G],
                k.req \in {"put", "delete", "clear"},
                \A f \in Present(G) : f # view.active \/ k.req # "put" =>
                    f \in Present(Saved) /\ G[f] = Saved[f],
                k.req = "put" => /\ G[view.active] = view.doc
                                 /\ \A f \in Present(Saved) : f \in Present(G)
         PROVE  CalmInv'
    <2>1. /\ \A u \in Slots : /\ store'[u].live = store[u].live /\ store'[u].gen = store[u].gen
                              /\ store'[u].files = IF u = env.slot THEN G ELSE store[u].files
          /\ \A i : i.slot \in Slots => Live(i)' = Live(i)
      BY <1>3, <1>11, StoreWith
    <2>2. Saved' = G /\ Live(env)' /\ store'[env.slot].gen = store[env.slot].gen
      BY <1>1, <1>3, <2>1 DEF Saved, Live
    <2>3. PageCalm(m)'
      BY <1>1, <1>2, <1>6, <1>8, <1>11, <2>1, <2>2 DEF Calm, PageCalm
    <2>4. Synced(m)'
      <3>1. ASSUME NEW f \in Present(G)
            PROVE  Kept(f)' \in {None, G[f]}
        <4>1. Kept(f)' = Kept(f)
          BY <1>1 DEF Kept
        <4>2. CASE f = view.active /\ k.req = "put"
          BY <1>11, <4>1, <4>2 DEF Kept
        <4>3. CASE f # view.active \/ k.req # "put"
          <5>1. f \in Present(Saved) /\ G[f] = Saved[f]
            BY <1>11, <3>1, <4>3
          <5>2. ~Saving(k, f)
            <6>1. f # None
              BY <1>2, <5>1 DEF Present
            <6> QED
              BY <1>2, <4>3, <6>1 DEF Saving
          <5> QED
            BY <1>2, <1>3, <4>1, <5>1, <5>2 DEF Calm, Synced
        <4> QED
          BY <4>2, <4>3
      <3>2. Dropping(m) \/ env.files \subseteq Present(G)
        <4>1. CASE k.req = "put"
          <5>1. env.files \subseteq Present(Saved)
            BY <1>1, <1>2, <1>3, <1>8, <4>1 DEF Calm, Synced, Dropping
          <5> QED
            BY <1>11, <4>1, <5>1
        <4>2. CASE k.req \in {"delete", "clear"}
          BY <1>6, <1>8, <4>2 DEF Dropping
        <4> QED
          BY <1>11, <4>1, <4>2
      <3> QED
        BY <1>1, <2>2, <3>1, <3>2 DEF Synced, Dropping
    <2>5. TaskCalm(m)'
      <3>1. k.op = "open" => k.goal \in Present(G)
        BY <1>2, <1>8, <1>11 DEF TaskCalm
      <3> QED
        BY <1>1, <1>2, <1>3, <1>6, <1>8, <1>11, <2>2, <3>1 DEF TaskCalm
    <2>6. (Careful(setup) => AllLive)'
      BY <1>1, <1>2, <2>1 DEF Calm, AllLive
    <2>7. (Expiring(setup) => MainOnly(m))'
      <3> SUFFICES ASSUME Expiring(setup) PROVE MainOnly(m)'
        BY <1>1
      <3>1. MainOnly(k) /\ k.op = "save" /\ k.req = "put"
        BY <1>2, <1>8, <1>11 DEF Calm
      <3>2. view.active = Main
        <4>1. k.path \in Files /\ k.path = view.active
          BY <1>2, <3>1 DEF Good, TaskCalm
        <4> QED
          BY <1>2, <3>1, <4>1 DEF MainOnly
      <3>3. Present(G) = Template[env.slot]
        <4>1. Present(Saved) = Template[env.slot] /\ Main \in Template[env.slot]
          BY <1>3, <3>1, Constants DEF MainOnly, Saved
        <4>2. Present(Saved) \subseteq Present(G)
          BY <1>11, <3>1
        <4>3. Present(G) \subseteq Present(Saved)
          BY <1>11, <3>1, <3>2, <4>1
        <4> QED
          BY <4>1, <4>2, <4>3
      <3>4. \A u \in Slots : Present(store'[u].files) = Template[u]
        BY <2>1, <3>1, <3>3 DEF MainOnly
      <3> QED
        BY <1>1, <1>6, <3>1, <3>4 DEF MainOnly
    <2>8. Calm(m)'
      BY <2>3, <2>4, <2>5, <2>6, <2>7 DEF Calm
    <2> QED
      BY <1>2, <1>6, <2>8, CalmStep
  <1>12. CASE k.req = "put"
    <2>1. k.path = view.active /\ k.text = view.doc /\ k.path \in Files
      BY <1>2, <1>12 DEF TaskCalm, Good
    <2> PICK G : G = [Saved EXCEPT ![view.active] = view.doc]
      OBVIOUS
    <2>2. store' = [store EXCEPT ![env.slot].files[view.active] = view.doc]
      BY <1>3, <1>12, <2>1 DEF ServeFile
    <2>3. store' = [store EXCEPT ![env.slot].files = G]
      BY <1>3, <1>4, <2>2 DEF Saved
    <2>4. G \in [Files -> MaybeTexts] /\ G[view.active] = view.doc
          /\ \A f \in Files : f # view.active => G[f] = Saved[f]
      BY <1>2, <1>4, <2>1 DEF MaybeTexts
    <2>5. \A f \in Present(G) : f # view.active => f \in Present(Saved) /\ G[f] = Saved[f]
      BY <2>4 DEF Present
    <2>6. \A f \in Present(Saved) : f \in Present(G)
      BY <1>2, <1>4, <2>4 DEF Present
    <2> QED
      BY <1>11, <1>12, <2>3, <2>4, <2>5, <2>6
  <1>13. CASE k.req = "delete"
    <2> PICK G : G = [Saved EXCEPT ![k.path] = None]
      OBVIOUS
    <2>1. store' = [store EXCEPT ![env.slot].files[k.path] = None]
      BY <1>3, <1>13 DEF ServeFile
    <2>2. store' = [store EXCEPT ![env.slot].files = G]
      BY <1>3, <1>4, <2>1 DEF Saved
    <2>3. k.path \in Files
      BY <1>2, <1>13 DEF Good
    <2>4. G \in [Files -> MaybeTexts]
      BY <1>4, <2>3 DEF MaybeTexts
    <2>5. \A f \in Present(G) : f \in Present(Saved) /\ G[f] = Saved[f]
      BY <1>4, <2>3 DEF Present
    <2> QED
      BY <1>11, <1>13, <2>2, <2>4, <2>5
  <1>14. CASE k.req = "clear"
    <2> PICK G : G = [f \in Files |-> None]
      OBVIOUS
    <2>1. store' = [store EXCEPT ![env.slot].files = G]
      BY <1>3, <1>14 DEF ServeFile
    <2>2. G \in [Files -> MaybeTexts] /\ \A f \in Files : G[f] = None
      BY DEF MaybeTexts
    <2>3. \A f \in Present(G) : f \in Present(Saved) /\ G[f] = Saved[f]
      BY <2>2 DEF Present
    <2> QED
      BY <1>11, <1>14, <2>1, <2>2, <2>3
  <1> QED
    BY <1>8, <1>10, <1>12, <1>13, <1>14

\* The server's other steps: a session is opened, or is gone.
LEMMA CalmServer ==
    ASSUME BufInv, CalmInv, Patient(setup), NEW t \in Tasks, Server(t)
    PROVE  CalmInv'
  <1> PICK k : k = task[t]
    OBVIOUS
  <1>a. ASSUME k.at # "idle"
        PROVE  /\ \A u \in Tasks \ {t} : Free(u)
               /\ Calm(k) /\ TaskCalm(k) /\ timer = None
               /\ k \in Handlers /\ Good(k) /\ env \in Envs /\ env.files \subseteq Files
               /\ view.active \in MaybeFiles /\ view.doc \in Texts /\ None \notin Files
               /\ Careful(setup) => k.at # "gone" /\ ~(k.op = "save" /\ k.req = "session") /\ Live(env)
               /\ Expiring(setup) => k.op \in {"save", "swap"}
    BY <1>a, CalmFacts
  <1>1. CASE ServeFile(t)
    BY <1>1, CalmServed
  <1>2. CASE Fail(t)
    BY <1>2 DEF Fail, Patient, Careful, Expiring
  <1>3. CASE ServeGone(t)
    <2>1. /\ k.at = "sent" /\ k.req # "session" /\ ~Live(k.to)
          /\ Set(t, [k EXCEPT !.at = "gone"])
          /\ UNCHANGED <<setup, store, slot, env, shown, timer, asked, card, history>>
      BY <1>3 DEF ServeGone
    <2>2. PICK m : /\ Set(t, m)
                   /\ m.at = "gone" /\ m.op = k.op /\ m.req = k.req /\ m.to = k.to
                   /\ m.path = k.path /\ m.text = k.text /\ m.again = k.again
      <3> DEFINE n == [k EXCEPT !.at = "gone"]
      <3>1. /\ n.at = "gone" /\ n.op = k.op /\ n.req = k.req /\ n.to = k.to
            /\ n.path = k.path /\ n.text = k.text /\ n.again = k.again
        BY <1>a, <2>1 DEF Handlers
      <3>2. Set(t, n)
        BY <2>1
      <3> HIDE DEF n
      <3> QED
        BY <3>1, <3>2
    <2>3. k.to = Id(env) /\ ~Live(env)
      <3>1. k.to = Id(env)
        BY <1>a, <2>1 DEF TaskCalm
      <3> QED
        BY <2>1, <3>1 DEF Id, Live
    <2>4. k.op = "save" /\ k.req = "put" /\ ~k.again /\ k.path = view.active /\ k.text = view.doc
      BY <1>a, <2>1, <2>3 DEF TaskCalm, Asks
    <2>5. Expiring(setup) /\ ~Careful(setup)
      BY <1>a, <2>1, <2>3 DEF Patient
    <2>6. TaskCalm(m)
      BY <2>2, <2>3, <2>4 DEF TaskCalm, Asks
    <2>7. UNCHANGED <<setup, store, env, view, buffers, activePath, timer, asked, card>>
      BY <2>1 DEF shown
    <2>8. PageCalm(m)' /\ (m.at # "idle" => TaskCalm(m)')
      <3>1. TaskCalm(m) => TaskCalm(m)'
        BY <2>7 DEF TaskCalm, Saved, Live
      <3> QED
        BY <1>a, <2>1, <2>2, <2>4, <2>6, <2>7, <3>1 DEF Calm, PageCalm, Live
    <2>9. Synced(m)'
      BY <2>3, <2>7 DEF Synced, Live
    <2>10. (Careful(setup) => AllLive)' /\ (Expiring(setup) => MainOnly(m))'
      BY <1>a, <2>1, <2>2, <2>4, <2>5, <2>7 DEF Calm, MainOnly
    <2>11. Calm(m)'
      BY <2>8, <2>9, <2>10 DEF Calm
    <2> QED
      BY <1>a, <2>1, <2>2, <2>11, CalmStep
  <1>4. CASE ServeSession(t)
    <2> PICK s : s = k.to.slot
      OBVIOUS
    <2>1. /\ k.at = "sent" /\ k.req = "session"
          /\ store' = [store EXCEPT ![s] = Reseeded(s)]
          /\ Set(t, [k EXCEPT !.at = "ok", !.to.gen = Reseeded(s).gen, !.files = EnvOf(s).files])
          /\ UNCHANGED <<setup, slot, env, view, buffers, activePath, panel, timer, asked, card, history>>
      BY <1>4 DEF ServeSession, shown
    <2>2. s \in Slots /\ k.to \in Ids
      BY <1>a, <2>1 DEF Good, Ids
    <2> PICK r : r = Reseeded(s)
      OBVIOUS
    <2>3. /\ r.live /\ EnvOf(s).files = Present(r.files) /\ r.gen \in 1..MaxGen
      BY <1>a, <2>1, <2>2, TaskFacts, ReseededTypes
    <2>4. PICK m : /\ Set(t, m)
                   /\ m.at = "ok" /\ m.op = k.op /\ m.req = "session" /\ m.to = [slot |-> s, gen |-> r.gen]
                   /\ m.path = k.path /\ m.text = k.text /\ m.again = k.again
                   /\ m.files = Present(r.files)
      <3> DEFINE o == [k.to EXCEPT !.gen = r.gen]
      <3> DEFINE n == [k EXCEPT !.at = "ok", !.to = o, !.files = Present(r.files)]
      <3>1. o = [slot |-> s, gen |-> r.gen]
        BY <2>2 DEF Ids
      <3>2. Set(t, n)
        BY <2>1, <2>3
      <3> HIDE DEF o
      <3>3. /\ n.at = "ok" /\ n.op = k.op /\ n.req = k.req /\ n.to = o
            /\ n.path = k.path /\ n.text = k.text /\ n.again = k.again /\ n.files = Present(r.files)
        BY <1>a, <2>1 DEF Handlers
      <3> HIDE DEF n
      <3> QED
        BY <2>1, <3>1, <3>2, <3>3
    <2>5. k.op \in {"save", "swap"} /\ <<m.op, m.req>> \in Asks
      BY <1>a, <2>1, <2>4 DEF TaskCalm, Asks
    <2>6. store \in [Slots -> [gen : 1..MaxGen, live : BOOLEAN, files : [Files -> MaybeTexts]]]
      BY DEF BufInv, BufTypes, PageTypes, SessionsTyped
    <2>7. k.op = "save" => /\ ~Live(env) /\ k.path = view.active /\ k.text = view.doc /\ s = env.slot
      BY <1>a, <2>1 DEF TaskCalm
    <2>8. CASE store[s].live
      <3>1. r = store[s] /\ store' = store
        BY <2>1, <2>2, <2>6, <2>8 DEF Reseeded
      <3>2. Live(m.to) /\ m.files = Present(store[m.to.slot].files)
        BY <2>4, <2>8, <3>1 DEF Live
      <3>3. TaskCalm(m)
        BY <2>4, <2>5, <2>7, <3>2 DEF TaskCalm
      <3> QED
        BY <1>a, <2>1, <2>4, <2>5, <3>1, <3>3, CalmFrameStep DEF Dropping
    <2>9. CASE ~store[s].live
      <3>1. Expiring(setup) /\ ~Careful(setup) /\ MainOnly(k)
        BY <1>a, <2>1, <2>2, <2>9 DEF Calm, AllLive, Patient
      <3>2. r.gen = store[s].gen + 1 /\ r.files = Seeded(s)
        BY <2>9 DEF Reseeded
      <3>3. \A u \in Slots : store'[u] = IF u = s THEN r ELSE store[u]
        BY <2>1, <2>6
      <3>4. env.slot \in Slots /\ env.gen \in 1..MaxGen /\ store[s].gen \in 1..MaxGen
            /\ env.gen <= store[env.slot].gen
        BY <1>a, <2>1, <2>2, <2>6, EnvTypes DEF Calm, PageCalm
      <3>5. /\ Live(env)' = Live(env) /\ (Live(env) => env.slot # s)
            /\ env.gen <= store'[env.slot].gen
        <4>1. CASE env.slot = s
          BY <2>1, <2>9, <3>2, <3>3, <3>4, <4>1, Constants DEF Live
        <4>2. CASE env.slot # s
          BY <2>1, <3>3, <3>4, <4>2 DEF Live
        <4> QED
          BY <4>1, <4>2
      <3>6. Live(env) => Saved' = Saved
        BY <2>1, <3>3, <3>4, <3>5 DEF Saved
      <3>7. PageCalm(m)'
        BY <1>a, <2>1, <2>4, <3>5 DEF Calm, PageCalm
      <3>8. Synced(m)'
        <4>1. \A f \in Files : ~Saving(k, f)
          BY <1>a, <2>1 DEF Saving
        <4>2. ~Dropping(k)
          BY <2>5 DEF Dropping
        <4>3. \A f : Kept(f)' = Kept(f)
          BY <2>1 DEF Kept
        <4> QED
          BY <1>a, <2>1, <3>5, <3>6, <4>1, <4>2, <4>3 DEF Calm, Synced, Present
      <3>9. TaskCalm(m)'
        <4>1. store'[s] = r
          BY <2>2, <3>3
        <4>2. Live(m.to)' /\ m.files = Present(store'[m.to.slot].files)
          BY <2>3, <2>4, <4>1 DEF Live
        <4> QED
          BY <2>1, <2>4, <2>5, <2>7, <3>5, <4>2 DEF TaskCalm
      <3>10. MainOnly(m)'
        <4>1. Present(Seeded(s)) = Template[s]
          BY <2>2, BuffersAssumption, Constants, TextsAreTexts DEF Seeded, Present, Text, Texts
        <4>2. \A u \in Slots : Present(store'[u].files) = Template[u]
          BY <3>1, <3>2, <3>3, <4>1 DEF MainOnly
        <4> QED
          BY <2>1, <2>4, <2>5, <3>1, <4>2 DEF MainOnly
      <3>11. Calm(m)'
        BY <2>1, <3>1, <3>7, <3>8, <3>9, <3>10 DEF Calm
      <3> QED
        BY <1>a, <2>1, <2>4, <3>11, CalmStep
    <2> QED
      BY <2>8, <2>9
  <1> QED
    BY <1>1, <1>2, <1>3, <1>4 DEF Server

\* A file is shown with the text the server has, or with what is kept of it.
LEMMA CalmShown ==
    ASSUME BufInv, NEW k, Calm(k), TaskCalm(k), timer = None, k.at = "ok", k.req = "get",
           k.path \in Files, ShowBuffer(k.path, k.body),
           UNCHANGED <<setup, store, env, card, timer>>,
           activePath' \in {k.path, None}, Patient(setup)
    PROVE  Calm(Idle)'
  <1> PICK p : p = k.path
    OBVIOUS
  <1>1. /\ Live(env) /\ p \in Present(Saved) /\ k.body = Saved[p]
        /\ <<k.op, k.req>> \in Asks /\ k.op \in {"aux", "open", "nav", "swap"}
    BY DEF TaskCalm, Asks
  <1>2. /\ view.active \in MaybeFiles /\ view.doc \in Texts /\ None \notin Files /\ None \notin Texts
        /\ view \in [active : MaybeFiles, doc : Texts] /\ buffers \in [Files -> MaybeTexts]
        /\ p \in Files
    BY Constants, TextsAreTexts DEF BufInv, BufTypes, PageTypes
  <1>3. /\ \A f \in Present(Saved) : Kept(f) \in {None, Saved[f]}
        /\ env.files \subseteq Present(Saved)
    <2>1. \A f \in Files : ~Saving(k, f)
      BY <1>2 DEF Saving
    <2>2. ~Dropping(k)
      BY <1>1 DEF Dropping
    <2> QED
      BY <1>1, <2>1, <2>2 DEF Calm, Synced, Present
  <1>4. /\ view'.active = p
        /\ \A f \in Present(Saved) : Kept(f)' \in {None, Saved[f]}
        /\ \A f \in Files : f # p /\ buffers[f] = None => buffers'[f] = None
    <2>1. CASE view.active = p
      <3>1. view' = view /\ buffers' = buffers
        BY <2>1 DEF ShowBuffer
      <3> QED
        BY <1>3, <2>1, <3>1 DEF Kept
    <2>2. CASE view.active # p
      <3>1. /\ buffers' = [f \in Files |->
                  IF f = view.active THEN IF buffers[f] # None THEN view.doc ELSE None
                  ELSE IF f = p /\ buffers[f] = None THEN k.body ELSE buffers[f]]
            /\ view' = [active |-> p, doc |-> buffers'[p]]
        BY <2>2 DEF ShowBuffer
      <3>2. view'.active = p /\ view'.doc = buffers'[p]
        BY <3>1
      <3>3. ASSUME NEW f \in Present(Saved)
            PROVE  Kept(f)' \in {None, Saved[f]}
        <4>1. f \in Files /\ Kept(f) \in {None, Saved[f]} /\ Kept(f)' = buffers'[f]
          BY <1>3, <3>2, <3>3 DEF Present, Kept
        <4>2. CASE f = view.active
          BY <3>1, <4>1, <4>2 DEF Kept
        <4>3. CASE f # view.active
          BY <1>1, <3>1, <4>1, <4>3 DEF Kept
        <4> QED
          BY <4>2, <4>3
      <3>4. \A f \in Files : f # p /\ buffers[f] = None => buffers'[f] = None
        BY <3>1
      <3> QED
        BY <3>2, <3>3, <3>4
    <2> QED
      BY <2>1, <2>2
  <1>5. Live(env)' = Live(env) /\ Saved' = Saved
    BY DEF Live, Saved
  <1>6. PageCalm(Idle)'
    BY <1>1, <1>4, <1>5 DEF Calm, PageCalm
  <1>7. Synced(Idle)'
    BY <1>3, <1>4, <1>5 DEF Synced
  <1>8. (Careful(setup) => AllLive)'
    BY DEF Calm, AllLive
  <1>9. (Expiring(setup) => MainOnly(Idle))'
    <2> SUFFICES ASSUME Expiring(setup) PROVE MainOnly(Idle)'
      OBVIOUS
    <2>1. MainOnly(k) /\ p = Main
      BY <1>1 DEF Calm, MainOnly
    <2> QED
      BY <1>4, <2>1 DEF MainOnly, Idle
  <1> QED
    BY <1>6, <1>7, <1>8, <1>9 DEF Calm, Idle

\* What follows when a file is opened: the handler ends, or takes no new file.
LEMMA AfterOpenEnds ==
    ASSUME NEW t \in Tasks, task[t].made = None, NEW pa, NEW ap, AfterOpen(t, pa, ap)
    PROVE  End(t) /\ activePath' \in {ap, None}
  BY ForgetsTypes DEF AfterOpen

\* The steps of opening a file.
LEMMA CalmOpen ==
    ASSUME BufInv, CalmInv, Patient(setup), NEW t \in Tasks, OpenStep(t)
    PROVE  CalmInv'
  <1> PICK k : k = task[t]
    OBVIOUS
  <1>a. ASSUME k.at # "idle"
        PROVE  /\ \A u \in Tasks \ {t} : Free(u)
               /\ Calm(k) /\ TaskCalm(k) /\ timer = None
               /\ k \in Handlers /\ Good(k) /\ env \in Envs /\ env.files \subseteq Files
               /\ view.active \in MaybeFiles /\ view.doc \in Texts /\ None \notin Files
               /\ Careful(setup) => k.at # "gone" /\ ~(k.op = "save" /\ k.req = "session") /\ Live(env)
               /\ Expiring(setup) => k.op \in {"save", "swap"}
    BY <1>a, CalmFacts
  <1>1. CASE OpenSaved(t)
    <2>1. /\ k.at = "ok" /\ k.op = "open" /\ k.req = "put" /\ Set(t, Get(k, env, k.goal))
          /\ UNCHANGED <<setup, store, slot, env, shown, timer, asked, card, history>>
      <3>1. k.at \in {"ok", "fail"} /\ k.op = "open" /\ k.req = "put" /\ Set(t, Get(k, env, k.goal))
            /\ UNCHANGED <<setup, store, slot, env, shown, timer, asked, card, history>>
        BY <1>1 DEF OpenSaved, Got
      <3> QED
        BY <1>a, <3>1 DEF TaskCalm
    <2> PICK m : m = Get(k, env, k.goal)
      OBVIOUS
    <2>2. /\ m.at = "sent" /\ m.req = "get" /\ m.to = Id(env) /\ m.path = k.goal /\ m.op = "open"
          /\ m.goal = k.goal /\ m.made = k.made
      BY <1>a, <2>1, GetIs
    <2>3. Live(env) /\ ~Expiring(setup)
      BY <1>a, <2>1 DEF TaskCalm
    <2>4. TaskCalm(m)
      BY <1>a, <2>1, <2>2, <2>3 DEF TaskCalm, Asks
    <2> QED
      BY <1>a, <2>1, <2>2, <2>3, <2>4, CalmFrameStep DEF shown, Dropping
  <1>2. CASE OpenShown(t)
    <2>1. /\ k.at = "ok" /\ k.op = "open" /\ k.req = "get" /\ ShowBuffer(k.goal, k.body)
          /\ AfterOpen(t, k.goal, k.goal)
          /\ UNCHANGED <<setup, store, slot, env, timer, card, history>>
      BY <1>2 DEF OpenShown, Got
    <2>2. k.path = k.goal /\ k.made = None /\ k.path \in Files
      BY <1>a, <2>1 DEF TaskCalm, Good
    <2>3. End(t) /\ activePath' \in {k.path, None}
      BY <2>1, <2>2, AfterOpenEnds
    <2>4. Calm(Idle)'
      BY <1>a, <2>1, <2>2, <2>3, CalmShown
    <2> QED
      BY <1>a, <2>1, <2>3, <2>4, CalmEnd
  <1>3. CASE OpenRefused(t) \/ NavRefused(t) \/ NavReopened(t)
    <2>1. \/ k.at \in {"gone", "fail"} /\ k.op \in {"open", "nav"}
          \/ k.at \in {"ok", "fail"} /\ k.op = "nav" /\ k.req = "session"
      BY <1>3 DEF OpenRefused, NavRefused, NavReopened, Got
    <2> QED
      BY <1>a, <2>1 DEF TaskCalm, Asks
  <1>4. CASE NavShown(t)
    <2>1. /\ k.at = "ok" /\ k.op = "nav" /\ k.req = "get" /\ ShowBuffer(k.path, k.body)
          /\ activePath' = k.path /\ End(t)
          /\ UNCHANGED <<setup, store, slot, env, timer, asked, card, history>>
      BY <1>4 DEF NavShown, SetActiveFile, Got
    <2>2. k.path \in Files
      BY <1>a, <2>1 DEF Good
    <2>3. Calm(Idle)'
      BY <1>a, <2>1, <2>2, CalmShown
    <2> QED
      BY <1>a, <2>1, <2>3, CalmEnd
  <1> QED
    BY <1>1, <1>2, <1>3, <1>4 DEF OpenStep

\* The steps of a deletion and of a clear: what the tab lists is what there is
\* again once the list has come.
LEMMA CalmPanel ==
    ASSUME BufInv, CalmInv, Patient(setup), NEW t \in Tasks, PanelStep(t)
    PROVE  CalmInv'
  <1> PICK k : k = task[t]
    OBVIOUS
  <1>a. ASSUME k.at # "idle"
        PROVE  /\ \A u \in Tasks \ {t} : Free(u)
               /\ Calm(k) /\ TaskCalm(k) /\ timer = None
               /\ k \in Handlers /\ Good(k) /\ env \in Envs /\ env.files \subseteq Files
               /\ view.active \in MaybeFiles /\ view.doc \in Texts /\ None \notin Files
               /\ Careful(setup) => k.at # "gone" /\ ~(k.op = "save" /\ k.req = "session") /\ Live(env)
               /\ Expiring(setup) => k.op \in {"save", "swap"}
    BY <1>a, CalmFacts
  <1>1. CASE ChangeDone(t)
    <2>1. /\ k.at = "ok"
          /\ (k.op = "delete" /\ k.req = "delete") \/ (k.op \in {"create", "upload"} /\ k.req = "put")
          /\ Set(t, List(k))
          /\ UNCHANGED <<setup, store, slot, env, view, buffers, activePath, timer, asked, card, history>>
      BY <1>1 DEF ChangeDone, Got
    <2>2. k.op = "delete" /\ k.req = "delete" /\ Live(env) /\ ~Expiring(setup)
      BY <1>a, <2>1 DEF TaskCalm, Asks
    <2> PICK m : m = List(k)
      OBVIOUS
    <2>3. m.at = "sent" /\ m.req = "list" /\ m.to = Id(env) /\ m.op = "delete"
      BY <1>a, <2>1, <2>2, ListIs
    <2>4. TaskCalm(m)
      BY <2>2, <2>3 DEF TaskCalm, Asks
    <2>5. Dropping(m)
      BY <2>3 DEF Dropping
    <2> QED
      BY <1>a, <2>1, <2>2, <2>3, <2>4, <2>5, CalmFrameStep
  <1>2. CASE ChangeRefused(t)
    <2>1. k.at \in {"gone", "fail"} /\ k.op \in {"delete", "create", "upload", "clear"}
      BY <1>2 DEF ChangeRefused, Got
    <2> QED
      BY <1>a, <2>1 DEF TaskCalm
  <1>3. CASE Listed(t)
    <2>0. k.at \in {"ok", "gone", "fail"} /\ k.op \in {"delete", "create", "upload"} /\ k.req = "list"
      BY <1>3 DEF Listed, Got
    <2>1. /\ k.at = "ok" /\ k.op = "delete" /\ k.files = Present(Saved) /\ Live(env)
          /\ Careful(setup) /\ ~Expiring(setup)
      BY <1>a, <2>0 DEF TaskCalm, Asks, Patient
    <2> PICK e : e = [env EXCEPT !.files = k.files]
      OBVIOUS
    <2> PICK c : c = IF panel = None THEN MainOf(k.files) ELSE None
      OBVIOUS
    <2>2. /\ env' = e /\ ~card'
          /\ UNCHANGED <<setup, store, slot, view, buffers, panel, timer, history>>
      <3>1. ~card
        BY <1>a, <2>1 DEF Calm, PageCalm
      <3>2. card' = (card \/ k.at = "gone")
        BY <1>3 DEF Listed
      <3>3. env' = e /\ UNCHANGED <<setup, store, slot, view, buffers, panel, timer, history>>
        BY <1>3, <2>1 DEF Listed
      <3> QED
        BY <2>1, <3>1, <3>2, <3>3
    <2>3. e \in Envs /\ e.slot = env.slot /\ e.gen = env.gen /\ e.files = Present(Saved)
      <3>1. Present(Saved) \in SUBSET Files
        BY DEF Present
      <3> QED
        BY ONLY e = [env EXCEPT !.files = k.files], <1>a, <2>1, <3>1 DEF Envs
    <2>4. activePath \in {None, view.active}
      BY <1>a, <2>1 DEF Calm, PageCalm
    <2>5. Id(env)' = Id(e) /\ Id(e) = Id(env) /\ Live(env)' /\ Saved' = Saved
      BY <2>1, <2>2, <2>3 DEF Id, Live, Saved
    <2>6. \A f \in Present(Saved) : Kept(f)' \in {None, Saved[f]}
      <3>1. \A f \in Files : ~Saving(k, f)
        BY <1>a, <2>0, <2>1 DEF Saving
      <3>2. \A f : Kept(f)' = Kept(f)
        BY <2>2 DEF Kept
      <3> QED
        BY <1>a, <2>1, <3>1, <3>2 DEF Calm, Synced, Present
    <2>7. ASSUME NEW m, activePath' \in {activePath, None}, m.at # "idle" => TaskCalm(m)'
          PROVE  Calm(m)'
      <3>1. PageCalm(m)'
        BY <1>a, <2>1, <2>2, <2>3, <2>4, <2>5, <2>7 DEF Calm, PageCalm
      <3>2. Synced(m)'
        BY <2>2, <2>3, <2>5, <2>6 DEF Synced
      <3>3. (Careful(setup) => AllLive)' /\ (Expiring(setup) => MainOnly(m))'
        BY <1>a, <2>1, <2>2 DEF Calm, AllLive
      <3> QED
        BY <2>7, <3>1, <3>2, <3>3 DEF Calm
    <2>8. CASE c = None
      <3>1. activePath' = Forgets(e, activePath) /\ End(t)
        BY <1>3, <2>1, <2>8 DEF Listed
      <3>2. Calm(Idle)'
        BY <2>7, <3>1, ForgetsTypes DEF Idle
      <3> QED
        BY <1>a, <2>0, <3>1, <3>2, CalmEnd
    <2>9. CASE c # None
      <3>1. c \in Present(Saved) /\ c \in Files
        BY <2>1, <2>9, MainOfTypes DEF Present
      <3>2. /\ Set(t, [Opening(c, e, activePath, view.doc) EXCEPT !.then = TRUE, !.made = None])
            /\ activePath' = activePath
        BY <1>3, <2>1, <2>9 DEF Listed
      <3> PICK m : m = [Opening(c, e, activePath, view.doc) EXCEPT !.then = TRUE, !.made = None]
        OBVIOUS
      <3>3. Set(t, m) /\ OpensFile(m, c, e, activePath, view.doc)
        BY <1>a, <2>0, <2>3, <3>1, <3>2, OpeningIs
      <3>4. activePath \in e.files => activePath = view.active
        BY <1>a, <2>0, <2>3, <2>4 DEF Present
      <3>5. TaskCalm(m)'
        BY <2>2, <2>5, <3>1, <3>3, <3>4 DEF OpensFile, TaskCalm, Asks
      <3>6. Calm(m)' /\ m.at # "idle"
        BY <2>7, <3>2, <3>3, <3>5 DEF OpensFile
      <3> QED
        BY <1>a, <2>0, <3>3, <3>6, CalmStep
    <2> QED
      BY <2>8, <2>9
  <1>4. CASE Cleared(t)
    <2>1. /\ k.at = "ok" /\ k.op = "clear" /\ k.req = "clear"
          /\ env' = [env EXCEPT !.files = {}] /\ buffers' = [f \in Files |-> None]
          /\ view' = [view EXCEPT !.active = None] /\ activePath' = None /\ asked' = FALSE /\ End(t)
          /\ UNCHANGED <<setup, store, slot, timer, card>>
      BY <1>4 DEF Cleared, Got, CloseAllBuffers
    <2>2. env'.slot = env.slot /\ env'.gen = env.gen /\ env'.files = {} /\ view'.active = None
      BY <1>a, <2>1 DEF Envs, BufInv, BufTypes, PageTypes
    <2>3. ~Expiring(setup)
      BY <1>a, <2>1
    <2>4. PageCalm(Idle)'
      BY <1>a, <2>1, <2>2 DEF Calm, PageCalm
    <2>5. Synced(Idle)'
      <3>1. \A f \in Files : Kept(f)' = None
        BY <1>a, <2>1, <2>2 DEF Kept
      <3> QED
        BY <2>1, <2>2, <3>1 DEF Synced, Present
    <2>6. (Careful(setup) => AllLive)' /\ (Expiring(setup) => MainOnly(Idle))'
      BY <1>a, <2>1, <2>3 DEF Calm, AllLive
    <2>7. Calm(Idle)'
      BY <2>4, <2>5, <2>6 DEF Calm, Idle
    <2> QED
      BY <1>a, <2>1, <2>7, CalmEnd
  <1> QED
    BY <1>1, <1>2, <1>3, <1>4 DEF PanelStep

\* The steps of a swap, and of a conversion that finds its session gone.
LEMMA CalmSession ==
    ASSUME BufInv, CalmInv, Patient(setup), NEW t \in Tasks, SessionStep(t)
    PROVE  CalmInv'
  <1> PICK k : k = task[t]
    OBVIOUS
  <1>a. ASSUME k.at # "idle"
        PROVE  /\ \A u \in Tasks \ {t} : Free(u)
               /\ Calm(k) /\ TaskCalm(k) /\ timer = None
               /\ k \in Handlers /\ Good(k) /\ env \in Envs /\ env.files \subseteq Files
               /\ view.active \in MaybeFiles /\ view.doc \in Texts /\ None \notin Files
               /\ Careful(setup) => k.at # "gone" /\ ~(k.op = "save" /\ k.req = "session") /\ Live(env)
               /\ Expiring(setup) => k.op \in {"save", "swap"}
    BY <1>a, CalmFacts
  <1>1. CASE Swapped(t)
    <2> PICK e : e = Opened(t)
      OBVIOUS
    <2> PICK p : p = Initial(e.files)
      OBVIOUS
    <2>1. /\ k.at = "ok" /\ k.op = "swap" /\ k.req = "session" /\ env' = e
          /\ buffers' = [f \in Files |-> None] /\ view' = [view EXCEPT !.active = None]
          /\ activePath' = p /\ UNCHANGED <<setup, store, slot, timer, card, edits>>
      BY <1>1 DEF Swapped, Got, CloseAllBuffers
    <2>2. /\ e \in Envs /\ e.slot = k.to.slot /\ e.gen = k.to.gen /\ e.files = k.files
          /\ Id(e) = [slot |-> e.slot, gen |-> e.gen] /\ e.slot \in Slots /\ e.files \subseteq Files
      <3>1. e \in Envs
        BY <1>a, <2>1, OpenedTypes DEF BufInv, BufTypes
      <3>2. e.slot = k.to.slot /\ e.gen = k.to.gen /\ e.files = k.files
        BY DEF Opened
      <3> QED
        BY <3>1, <3>2, EnvTypes DEF Id
    <2>3. /\ store[e.slot].live /\ store[e.slot].gen = e.gen /\ e.files = Present(store[e.slot].files)
      BY <1>a, <2>1, <2>2 DEF TaskCalm, Live
    <2>4. /\ Live(env)' /\ Saved' = store[e.slot].files /\ view'.active = None
          /\ \A f \in Files : buffers'[f] = None
      BY <1>a, <2>1, <2>3 DEF Live, Saved, BufInv, BufTypes, PageTypes
    <2>5. ASSUME NEW m, p = None \/ (m.at # "idle" /\ m.op = "swap" /\ m.req = "get"),
                 m.at # "idle" => TaskCalm(m)' /\ m.op = "swap" /\ (Expiring(setup) => m.path = Main)
          PROVE  Calm(m)'
      <3>1. PageCalm(m)'
        <4>1. store[e.slot].gen \in 1..MaxGen
          BY <1>a, <2>2, StoreTypes, TaskFacts
        <4>2. e.gen <= store[e.slot].gen
          BY <2>3, <4>1, Constants
        <4> QED
          BY <1>a, <2>1, <2>4, <2>5, <4>2 DEF Calm, PageCalm
      <3>2. Synced(m)'
        <4>1. \A f \in Files : Kept(f)' = None
          BY <1>a, <2>1, <2>4 DEF Kept
        <4> QED
          BY <2>1, <2>3, <2>4, <4>1 DEF Synced, Present
      <3>3. (Careful(setup) => AllLive)'
        BY <1>a, <2>1 DEF Calm, AllLive
      <3>4. (Expiring(setup) => MainOnly(m))'
        BY <1>a, <2>1, <2>2, <2>3, <2>4, <2>5 DEF Calm, MainOnly
      <3> QED
        BY <2>5, <3>1, <3>2, <3>3, <3>4 DEF Calm
    <2>6. CASE p = None
      <3>1. End(t)
        BY <1>1, <2>6 DEF Swapped
      <3>2. Calm(Idle)'
        BY <2>5, <2>6 DEF Idle
      <3> QED
        BY <1>a, <2>1, <3>1, <3>2, CalmEnd
    <2>7. CASE p # None
      <3> PICK g : g = MainOf(e.files)
        OBVIOUS
      <3>1. Set(t, Get([k EXCEPT !.goal = g], e, p))
        BY <1>1, <2>7 DEF Swapped
      <3>2. g \in MaybeFiles /\ p \in e.files
        BY <2>2, <2>7, MainOfTypes DEF MaybeFiles
      <3>3. PICK m : /\ Set(t, m) /\ m.at = "sent" /\ m.req = "get" /\ m.to = Id(e)
                     /\ m.path = p /\ m.op = "swap"
        <4> DEFINE n == [k EXCEPT !.goal = g]
        <4>1. n \in Handlers /\ n.op = "swap"
          BY <1>a, <2>1, <3>2 DEF Handlers
        <4>2. Set(t, Get(n, e, p))
          BY <3>1
        <4> HIDE DEF n
        <4> QED
          BY <4>1, <4>2, GetIs
      <3>4. TaskCalm(m)'
        BY <2>1, <2>2, <2>3, <2>4, <3>2, <3>3 DEF TaskCalm, Asks, Id
      <3>5. Expiring(setup) => p = Main
        <4> SUFFICES ASSUME Expiring(setup) PROVE p = Main
          OBVIOUS
        <4>1. Main \in e.files
          BY <1>a, <2>1, <2>2, <2>3, Constants DEF Calm, MainOnly
        <4> QED
          BY <4>1, MainFirst
      <3>6. Calm(m)'
        BY <2>5, <3>3, <3>4, <3>5
      <3> QED
        BY <1>a, <2>1, <3>3, <3>6, CalmStep
    <2> QED
      BY <2>6, <2>7
  <1>2. CASE SwapShown(t)
    <2>1. k.at = "ok" /\ k.op = "swap" /\ k.req = "get"
      <3>1. k.at \in {"ok", "gone", "fail"} /\ k.op = "swap" /\ k.req = "get"
        BY <1>2 DEF SwapShown, Got
      <3> QED
        BY <1>a, <3>1 DEF TaskCalm
    <2>2. /\ ShowBuffer(k.path, k.body) /\ activePath' = Forgets(env, k.path) /\ End(t)
          /\ UNCHANGED <<setup, store, slot, env, timer, card, history>>
      BY <1>2, <2>1 DEF SwapShown
    <2>3. k.path \in Files
      BY <1>a, <2>1 DEF Good
    <2>4. Calm(Idle)'
      BY <1>a, <2>1, <2>2, <2>3, ForgetsTypes, CalmShown
    <2> QED
      BY <1>a, <2>1, <2>2, <2>4, CalmEnd
  <1>3. CASE SwapFailed(t) \/ Reopened(t)
    <2>1. (k.at = "fail" /\ k.op = "swap") \/ (k.at \in {"ok", "fail"} /\ k.op = "reopen")
      BY <1>3 DEF SwapFailed, Reopened, Got
    <2> QED
      BY <1>a, <2>1 DEF TaskCalm, Asks
  <1>4. CASE WsExpired(t)
    <2>1. asked /\ ~Live(env)
      BY <1>4 DEF WsExpired
    <2>2. \E j : Calm(j)
      BY DEF CalmInv
    <2> QED
      BY <2>1, <2>2 DEF Calm, PageCalm
  <1> QED
    BY <1>1, <1>2, <1>3, <1>4 DEF SessionStep

\* A patient user acts when no handler waits.
LEMMA CalmActs ==
    ASSUME BufInv, CalmInv, Patient(setup), NEW kind, Acts(kind)
    PROVE  /\ kind \in {"edit", "open", "nav", "swap", "delete", "clear", "expire"}
           /\ timer = None /\ Calm(Idle) /\ \A t \in Tasks : Free(t)
           /\ activePath \in {None, view.active}
           /\ kind \in {"open", "nav", "delete", "clear"} =>
                 /\ Careful(setup) /\ ~Expiring(setup) /\ Live(env)
                 /\ env.files \subseteq Present(Saved)
  <1>1. kind \in setup.ops /\ setup.calm /\ Settled
    BY DEF Acts, Quiet, Patient, Careful, Expiring
  <1>2. timer = None /\ \A t \in Tasks : Free(t)
    BY <1>1 DEF Settled, Free
  <1>3. Calm(Idle) /\ activePath \in {None, view.active}
    BY <1>2, CalmAlone DEF Calm, PageCalm, Idle
  <1>4. kind \in {"edit", "open", "nav", "swap", "delete", "clear", "expire"}
    BY <1>1 DEF Patient, Careful, Expiring
  <1>5. ASSUME kind \in {"open", "nav", "delete", "clear"}
        PROVE  /\ Careful(setup) /\ ~Expiring(setup) /\ Live(env)
               /\ env.files \subseteq Present(Saved)
    <2>1. Careful(setup) /\ ~Expiring(setup)
      BY <1>1, <1>5 DEF Patient, Expiring
    <2>2. env.slot \in Slots /\ env.gen \in 1..MaxGen /\ env.gen <= store[env.slot].gen
      BY <1>3, EnvTypes DEF Calm, PageCalm, BufInv, BufTypes, PageTypes
    <2>3. store[env.slot].live /\ store[env.slot].gen = 1
      BY <1>3, <2>1, <2>2 DEF Calm, AllLive
    <2>4. Live(env)
      BY <2>2, <2>3, Constants DEF Live
    <2> QED
      BY <1>3, <2>1, <2>4 DEF Calm, Synced, Dropping, Idle
  <1> QED
    BY <1>2, <1>3, <1>4, <1>5

\* What the user asks for.
LEMMA CalmUser ==
    ASSUME BufInv, CalmInv, Patient(setup), NEW t \in Tasks, User(t)
    PROVE  CalmInv'
  <1>0. env \in Envs /\ view.doc \in Texts /\ env.files \subseteq Files /\ None \notin Files
        /\ Idle.at = "idle" /\ ~Dropping(Idle)
    BY TaskFacts, EnvTypes, Constants DEF Idle, Dropping
  <1>1. ASSUME NEW m, Set(t, m), m.at = "sent", timer = None, Calm(Idle), \A u \in Tasks : Free(u),
               UNCHANGED <<setup, store, env, view, buffers, activePath, timer, asked, card>>,
               TaskCalm(m), m.op # "swap" => ~Expiring(setup), m.op = "swap" => m.req = "session"
        PROVE  CalmInv'
    BY <1>0, <1>1, CalmFrameStep
  <1>2. ASSUME NEW p \in Files, ClickFile(t, p)
        PROVE  CalmInv'
    <2>1. /\ Acts("open") /\ p \in env.files /\ Set(t, Opening(p, env, activePath, view.doc))
          /\ UNCHANGED <<setup, store, env, view, buffers, activePath, timer, asked, card>>
      BY <1>2 DEF ClickFile, shown
    <2>2. /\ timer = None /\ Calm(Idle) /\ (\A u \in Tasks : Free(u)) /\ activePath \in {None, view.active}
          /\ ~Expiring(setup) /\ Live(env) /\ env.files \subseteq Present(Saved)
      BY <2>1, CalmActs
    <2> PICK m : m = Opening(p, env, activePath, view.doc)
      OBVIOUS
    <2>3. OpensFile(m, p, env, activePath, view.doc)
      BY <1>0, OpeningIs
    <2>4. activePath \in env.files => activePath = view.active
      BY <1>0, <2>2
    <2>5. TaskCalm(m) /\ m.at = "sent" /\ m.op = "open"
      BY <2>1, <2>2, <2>3, <2>4 DEF OpensFile, TaskCalm, Asks
    <2> QED
      BY <1>1, <2>1, <2>2, <2>5
  <1>3. ASSUME NEW p \in Files, ClickPreview(t, p)
        PROVE  CalmInv'
    <2> DEFINE j == [Idle EXCEPT !.op = "nav"]
    <2>1. /\ Acts("nav") /\ p \in env.files /\ Set(t, Get(j, env, p))
          /\ UNCHANGED <<setup, store, env, view, buffers, activePath, timer, asked, card>>
      BY <1>3 DEF ClickPreview, shown
    <2>2. /\ timer = None /\ Calm(Idle) /\ (\A u \in Tasks : Free(u))
          /\ ~Expiring(setup) /\ Live(env) /\ env.files \subseteq Present(Saved)
      BY <2>1, CalmActs
    <2>3. j \in Handlers /\ j.op = "nav"
      BY IdleGood DEF Handlers
    <2> HIDE DEF j
    <2> PICK m : m = Get(j, env, p)
      OBVIOUS
    <2>4. m.at = "sent" /\ m.req = "get" /\ m.to = Id(env) /\ m.path = p /\ m.op = "nav"
      BY <2>3, GetIs
    <2>5. TaskCalm(m)
      BY <2>1, <2>2, <2>4 DEF TaskCalm, Asks
    <2> QED
      BY <1>1, <2>1, <2>2, <2>4, <2>5
  <1>4. ASSUME NEW kind \in {"delete", "clear"}, NEW p, p \in Files \/ p = None, Ask(t, kind, kind, p, None),
               kind = "delete" => p \in env.files
        PROVE  CalmInv'
    <2>1. /\ Acts(kind)
          /\ UNCHANGED <<setup, store, env, view, buffers, activePath, timer, asked, card>>
      BY <1>4 DEF Ask, shown
    <2>2. /\ timer = None /\ Calm(Idle) /\ (\A u \in Tasks : Free(u))
          /\ ~Expiring(setup) /\ Live(env) /\ env.files \subseteq Present(Saved)
      BY <2>1, CalmActs
    <2>3. PICK m : /\ Set(t, m) /\ m.at = "sent" /\ m.op = kind /\ m.req = kind /\ m.to = Id(env)
                   /\ m.path = p
      <3> DEFINE n == [Idle EXCEPT !.op = kind, !.at = "sent", !.req = kind, !.to = Id(env),
                                   !.path = p, !.text = None]
      <3>1. Set(t, n)
        BY <1>4 DEF Ask
      <3>2. n.at = "sent" /\ n.op = kind /\ n.req = kind /\ n.to = Id(env) /\ n.path = p
        BY IdleGood DEF Handlers
      <3> HIDE DEF n
      <3> QED
        BY <3>1, <3>2
    <2>4. TaskCalm(m)
      BY <1>4, <2>2, <2>3 DEF TaskCalm, Asks
    <2> QED
      BY <1>1, <1>4, <2>1, <2>2, <2>3, <2>4
  <1>5. ASSUME NEW p \in Files, ClickDelete(t, p)
        PROVE  CalmInv'
    BY <1>4, <1>5 DEF ClickDelete
  <1>6. ASSUME ClickClear(t)
        PROVE  CalmInv'
    BY <1>4, <1>6 DEF ClickClear
  <1>7. ASSUME NEW p \in Files, NewFile(t, p) \/ Upload(t, p)
        PROVE  CalmInv'
    <2>1. Acts("create") \/ Acts("upload")
      BY <1>7 DEF NewFile, Upload, Ask
    <2> QED
      BY <2>1, CalmActs
  <1>8. ASSUME NEW s \in Slots, ChooseExample(t, s)
        PROVE  CalmInv'
    <2> DEFINE j == [Idle EXCEPT !.op = "swap"]
    <2>1. /\ Acts("swap") /\ Set(t, Open(j, s))
          /\ UNCHANGED <<setup, store, env, view, buffers, activePath, timer, asked, card>>
      BY <1>8 DEF ChooseExample, shown
    <2>2. timer = None /\ Calm(Idle) /\ \A u \in Tasks : Free(u)
      BY <2>1, CalmActs
    <2>3. j \in Handlers /\ j.op = "swap"
      BY IdleGood DEF Handlers
    <2> HIDE DEF j
    <2> PICK m : m = Open(j, s)
      OBVIOUS
    <2>4. m.at = "sent" /\ m.req = "session" /\ m.op = "swap"
      BY <2>3, OpenIs
    <2>5. TaskCalm(m)
      BY <2>4 DEF TaskCalm, Asks
    <2> QED
      BY <1>1, <2>1, <2>2, <2>4, <2>5
  <1> QED
    BY <1>2, <1>3, <1>5, <1>6, <1>7, <1>8 DEF User

\* What no handler does: typing, an answer on the socket, a reload, and expiry.
LEMMA CalmOther ==
    ASSUME BufInv, CalmInv, Patient(setup),
           Type \/ WsAnswered \/ Reload \/ (\E s \in Slots : Expire(s)) \/ UNCHANGED vars
    PROVE  CalmInv'
  <1>0. /\ env \in Envs /\ env.slot \in Slots /\ None \notin Files /\ view.active \in MaybeFiles
        /\ view \in [active : MaybeFiles, doc : Texts] /\ Idle.at = "idle" /\ ~Dropping(Idle)
        /\ store \in [Slots -> [gen : 1..MaxGen, live : BOOLEAN, files : [Files -> MaybeTexts]]]
    BY EnvTypes, Constants DEF Idle, Dropping, BufInv, BufTypes, PageTypes, SessionsTyped
  <1>1. CASE Type
    <2>1. /\ Acts("edit") /\ view' = [view EXCEPT !.doc.stamp = edits + 1]
          /\ timer' = IF view.active = None THEN timer ELSE view.active
          /\ UNCHANGED <<setup, store, env, buffers, activePath, asked, card, task>>
      BY <1>1 DEF Type
    <2>2. timer = None /\ Calm(Idle) /\ (\A t \in Tasks : Free(t)) /\ activePath \in {None, view.active}
      BY <2>1, CalmActs
    <2>3. view'.active = view.active
      BY <1>0, <2>1
    <2>4. Live(env)' = Live(env) /\ Saved' = Saved
      BY <2>1 DEF Live, Saved
    <2>5. PageCalm(Idle)'
      BY <1>0, <2>1, <2>2, <2>3, <2>4 DEF Calm, PageCalm
    <2>6. Synced(Idle)'
      <3>1. \A f \in Files : f = view.active \/ (Kept(f)' = Kept(f) /\ ~Saving(Idle, f))
        BY <1>0, <2>1, <2>2, <2>3 DEF Kept, Saving
      <3>2. \A f \in Files : f = view.active => Saving(Idle, f)'
        BY <1>0, <2>1, <2>3 DEF Saving
      <3> QED
        BY <1>0, <2>1, <2>2, <2>4, <3>1, <3>2 DEF Calm, Synced, Present
    <2>7. (Careful(setup) => AllLive)' /\ (Expiring(setup) => MainOnly(Idle))'
      BY <2>1, <2>2, <2>3 DEF Calm, AllLive, MainOnly
    <2>8. Calm(Idle)'
      BY <1>0, <2>5, <2>6, <2>7 DEF Calm
    <2> QED
      BY <2>1, <2>2, <2>8 DEF CalmInv, Free
  <1>2. CASE WsAnswered \/ UNCHANGED vars
    <2>1. /\ asked' \in {asked, FALSE}
          /\ UNCHANGED <<setup, store, env, view, buffers, activePath, timer, card, task>>
      BY <1>2 DEF WsAnswered, vars, shown
    <2>2. ASSUME NEW k, Calm(k)
          PROVE  Calm(k)'
      <3>1. /\ (asked' => asked) /\ (Live(env) => Live(env)') /\ (Live(env)' => Live(env))
            /\ Saved' = Saved
            /\ \A f \in Files : Kept(f)' = Kept(f) /\ (Saving(k, f) => Saving(k, f)')
        <4>1. asked' => asked
          BY <1>2, ZenonT(30) DEF WsAnswered, vars, shown
        <4>2. (Live(env) => Live(env)') /\ (Live(env)' => Live(env))
          BY <2>1 DEF Live
        <4>3. /\ Saved' = Saved
              /\ \A f \in Files : Kept(f)' = Kept(f) /\ (Saving(k, f) => Saving(k, f)')
          BY <2>1 DEF Saved, Kept, Saving
        <4> QED
          BY <4>1, <4>2, <4>3
      <3>2. PageCalm(k)'
        <4>1. PageCalm(k)
          BY <2>2 DEF Calm
        <4> QED
          BY <2>1, <3>1, <4>1 DEF PageCalm
      <3>5. Synced(k)'
        <4>1. Synced(k)
          BY <2>2 DEF Calm
        <4> QED
          BY <2>1, <3>1, <4>1 DEF Synced, Dropping, Present
      <3>3. TaskCalm(k) => TaskCalm(k)'
        BY <2>1 DEF TaskCalm, Live, Saved, Present, Id
      <3>4. (Careful(setup) => AllLive)' /\ (Expiring(setup) => MainOnly(k))'
        BY <2>1, <2>2 DEF Calm, AllLive, MainOnly
      <3> QED
        BY <2>2, <3>2, <3>3, <3>4, <3>5 DEF Calm
    <2>3. CASE \A t \in Tasks : Free(t)
      <3>1. Calm(Idle)'
        BY <2>2, <2>3, CalmAlone
      <3> QED
        BY <2>1, <2>3, <3>1 DEF CalmInv, Free
    <2>4. ASSUME NEW t \in Tasks, ~Free(t)
          PROVE  CalmInv'
      <3>1. Calm(task[t]) /\ \A u \in Tasks \ {t} : Free(u)
        BY <2>4, CalmHandler
      <3> PICK k : k = task[t]
        OBVIOUS
      <3>2. Calm(k)' /\ task'[t] = k
        BY <2>1, <2>2, <3>1
      <3>3. Calm(task[t])'
        BY <3>2
      <3> QED
        BY <2>1, <2>4, <3>1, <3>3 DEF CalmInv, Free
    <2> QED
      BY <2>3, <2>4
  <1>3. CASE Reload
    <2>1. card /\ \E k : Calm(k)
      BY <1>3 DEF Reload, CalmInv
    <2> QED
      BY <2>1 DEF Calm, PageCalm
  <1>4. ASSUME NEW s \in Slots, Expire(s)
        PROVE  CalmInv'
    <2>1. /\ "expire" \in setup.ops /\ Settled /\ ~asked /\ store' = [store EXCEPT ![s].live = FALSE]
          /\ UNCHANGED <<setup, env, view, buffers, activePath, timer, asked, card, task>>
      BY <1>4 DEF Expire, shown, Patient, Careful, Expiring
    <2>2. Expiring(setup) /\ ~Careful(setup)
      BY <2>1 DEF Patient, Careful
    <2>3. (\A t \in Tasks : Free(t)) /\ Calm(Idle)
      <3>1. \A t \in Tasks : Free(t)
        BY <2>1 DEF Settled, Free
      <3> QED
        BY <3>1, CalmAlone
    <2>4. \A u \in Slots : /\ store'[u].gen = store[u].gen
                            /\ store'[u].files = store[u].files
                            /\ (store'[u].live => store[u].live)
      <3> DEFINE n == [store[s] EXCEPT !.live = FALSE]
      <3>1. store' = [store EXCEPT ![s] = n] /\ n.gen = store[s].gen /\ n.files = store[s].files /\ ~n.live
        BY <1>0, <2>1
      <3> HIDE DEF n
      <3>2. \A u \in Slots : store'[u] = IF u = s THEN n ELSE store[u]
        BY <1>0, <3>1
      <3> QED
        BY <3>1, <3>2
    <2>5. PageCalm(Idle)' /\ Synced(Idle)'
      <3>1. Live(env)' => Live(env)
        BY <1>0, <2>1, <2>4 DEF Live
      <3>2. /\ Saved' = Saved
            /\ \A f \in Files : Kept(f)' = Kept(f) /\ (Saving(Idle, f) => Saving(Idle, f)')
        BY <1>0, <2>1, <2>4 DEF Saved, Kept, Saving
      <3>3. PageCalm(Idle)'
        BY <1>0, <2>1, <2>3, <2>4, <3>1, <3>2 DEF Calm, PageCalm
      <3> QED
        BY <1>0, <2>1, <2>3, <3>1, <3>2, <3>3 DEF Calm, Synced, Dropping, Present
    <2>6. MainOnly(Idle)'
      <3>1. \A u \in Slots : Present(store'[u].files) = Template[u]
        BY <2>2, <2>3, <2>4 DEF Calm, MainOnly
      <3> QED
        BY <2>1, <2>2, <2>3, <3>1 DEF Calm, MainOnly
    <2>7. Calm(Idle)'
      BY <1>0, <2>1, <2>2, <2>5, <2>6 DEF Calm
    <2> QED
      BY <2>1, <2>3, <2>7 DEF CalmInv, Free
  <1> QED
    BY <1>1, <1>2, <1>3, <1>4

\* It holds when the tab has booted, and every step keeps it.
LEMMA CalmInit == Init => CalmInv
  <1> SUFFICES ASSUME Init PROVE CalmInv
    OBVIOUS
  <1>1. /\ store = [s \in Slots |-> [gen |-> 1, live |-> TRUE, files |-> Seeded(s)]]
        /\ env = [slot |-> First, gen |-> 1, files |-> Template[First]]
        /\ view = [active |-> Main, doc |-> Text(First, Main, 0)]
        /\ buffers = [f \in Files |-> IF f = Main THEN Text(First, Main, 0) ELSE None]
        /\ activePath = Main /\ timer = None /\ card = FALSE
        /\ task = [t \in Tasks |-> Idle]
    BY DEF Init
  <1>2. \A s \in Slots : store[s].live /\ store[s].gen = 1 /\ store[s].files = Seeded(s)
    BY <1>1
  <1>3. ASSUME NEW s \in Slots
        PROVE  /\ Present(Seeded(s)) = Template[s]
               /\ \A f \in Template[s] : Seeded(s)[f] = Text(s, f, 0)
    BY BuffersAssumption, Constants, TextsAreTexts DEF Seeded, Present, Text, Texts
  <1>4. Live(env) /\ Saved = Seeded(First) /\ env.gen = 1 /\ env.slot = First /\ env.files = Template[First]
    BY <1>1, <1>2, Constants DEF Live, Saved
  <1>5. Synced(Idle)
    <2>1. \A f \in Files : Kept(f) = IF f = Main THEN Text(First, Main, 0) ELSE None
      BY <1>1, Constants DEF Kept
    <2>2. /\ Present(Saved) = Template[First] /\ Present(Saved) \subseteq Files
          /\ \A f \in Present(Saved) : Saved[f] = Text(First, f, 0)
      BY <1>3, <1>4, Constants
    <2> QED
      BY <1>4, <2>1, <2>2 DEF Synced
  <1>6. PageCalm(Idle)
    BY <1>1, <1>2, <1>4, Constants DEF PageCalm
  <1>7. AllLive /\ MainOnly(Idle)
    BY <1>1, <1>2, <1>3, <1>4, Constants DEF AllLive, MainOnly, Idle
  <1>8. Calm(Idle) /\ \A t \in Tasks : Free(t)
    BY <1>1, <1>5, <1>6, <1>7 DEF Calm, Idle, Free
  <1> QED
    BY <1>8 DEF CalmInv

LEMMA CalmNext == BufInv /\ CalmInv /\ [Next]_vars => CalmInv'
  <1> SUFFICES ASSUME BufInv, CalmInv, [Next]_vars PROVE CalmInv'
    OBVIOUS
  <1>1. setup' = setup
    <2>1. ASSUME NEW t \in Tasks,
                 Server(t) \/ EditStep(t) \/ OpenStep(t) \/ PanelStep(t) \/ SessionStep(t) \/ User(t)
          PROVE  setup' = setup
      <3>1. CASE Server(t) \/ EditStep(t)
        BY <3>1 DEF Server, ServeFile, ServeGone, ServeSession, Fail, EditStep, Fire, FastDone, SaveDone,
                    AuxDone, AuxConvert, SaveGone, SaveReopened, SaveFailed
      <3>2. CASE OpenStep(t) \/ PanelStep(t) \/ SessionStep(t)
        BY <3>2 DEF OpenStep, OpenSaved, OpenShown, OpenRefused, NavShown, NavRefused, NavReopened,
                    PanelStep, ChangeDone, ChangeRefused, Listed, Cleared,
                    SessionStep, Swapped, SwapShown, SwapFailed, WsExpired, Reopened
      <3>3. CASE User(t)
        BY <3>3 DEF User, ClickFile, ClickPreview, ClickDelete, ClickClear, NewFile, Upload, Ask,
                    ChooseExample
      <3> QED
        BY <2>1, <3>1, <3>2, <3>3
    <2>2. CASE Type \/ WsAnswered \/ Reload \/ (\E s \in Slots : Expire(s)) \/ UNCHANGED vars
      BY <2>2 DEF Type, WsAnswered, Reload, Expire, vars
    <2> QED
      BY <2>1, <2>2 DEF Next
  <1>2. CASE ~Patient(setup)
    <2>1. ~Patient(setup)'
      BY <1>1, <1>2 DEF Patient, Careful, Expiring
    <2> QED
      BY <2>1 DEF CalmInv
  <1>3. CASE Patient(setup)
    <2>1. ASSUME NEW t \in Tasks,
                 Server(t) \/ EditStep(t) \/ OpenStep(t) \/ PanelStep(t) \/ SessionStep(t) \/ User(t)
          PROVE  CalmInv'
      BY <1>3, <2>1, CalmServer, CalmEdit, CalmOpen, CalmPanel, CalmSession, CalmUser
    <2> QED
      BY <1>3, <2>1, CalmOther DEF Next
  <1> QED
    BY <1>2, <1>3

\* What it says of a page at rest.
LEMMA CalmSaved == BufInv /\ CalmInv => SettledIsSaved
  <1> SUFFICES ASSUME BufInv, CalmInv, Patient(setup), Quiet, activePath \in env.files, Live(env)
               PROVE  store[env.slot].files[activePath] = view.doc
    BY DEF SettledIsSaved
  <1>1. timer = None /\ \A t \in Tasks : Free(t)
    BY DEF Quiet, Settled, Free
  <1>2. Calm(Idle)
    BY <1>1, CalmAlone
  <1>3. /\ env.files \subseteq Files /\ None \notin Files /\ view.doc \in Texts /\ None \notin Texts
    BY EnvTypes, Constants, TextsAreTexts DEF BufInv, BufTypes, PageTypes
  <1>4. activePath = view.active
    BY <1>2, <1>3 DEF Calm, PageCalm, Idle
  <1>5. activePath \in Present(Saved) /\ ~Saving(Idle, activePath)
    BY <1>1, <1>2, <1>3 DEF Calm, Synced, Dropping, Saving, Idle
  <1>6. Kept(activePath) = view.doc
    BY <1>4 DEF Kept
  <1> QED
    BY <1>2, <1>3, <1>5, <1>6 DEF Calm, Synced, Saved

-----------------------------------------------------------------------------
(* The theorems.                                                           *)

\* BufInv holds in every state: a handler that resumes with an answer has the
\* session, the path and the text that the rest of it uses, whatever the page has
\* done meanwhile, and the file that is shown has a buffer to be kept in.
THEOREM BuffersInvariant == Spec => []BufInv
  BY BufInvInit, BufInvNext, PTL DEF Spec

\* Every variable always holds a value of its kind: the editor never shows the
\* text of a buffer that is not there, and no handler PUTs one.
THEOREM BuffersTypeCorrect == Spec => []TypeOK
  <1>1. BufInv => TypeOK
    BY BufTypesSuffice DEF BufInv
  <1> QED
    BY <1>1, BuffersInvariant, PTL

\* Typing survives every switch of files: openBuffer keeps the text of the file
\* that was shown, whatever requests were under way and in whatever order they
\* were answered, for any number of files, slots, handlers and edits.
THEOREM TypedTextStays == Spec => []NothingTypedIsLost
  <1>1. BufInv => NothingTypedIsLost
    BY DEF BufInv, EditorInv
  <1> QED
    BY <1>1, BuffersInvariant, PTL

\* As long as no example is chosen, main.ts's activePath and the editor's active
\* buffer name the same file, or main.ts has forgotten it: the text the save on a
\* switch PUTs under the one name is the text of the other.
THEOREM ActivePathIsShown == Spec => []OpenFileIsShown
  <1>1. BufInv => OpenFileIsShown
    BY DEF BufInv, EditorInv
  <1> QED
    BY <1>1, BuffersInvariant, PTL

\* For a patient user, whatever is shown of the active file is on the server
\* whenever the page is quiet: over any number of files, slots and sessions, after
\* switches, swaps, deletions and clears, and after sessions that expired under an
\* edit, which are met by exactly one reopening and one more PUT. The invariant
\* behind it is stronger than the property: every text kept in the tab, shown or
\* not, is the server's, or is the one on its way; and at most one handler waits.
THEOREM QuietPageIsSaved == Spec => []SettledIsSaved
  <1>1. Spec => []CalmInv
    BY CalmInit, CalmNext, BuffersInvariant, PTL DEF Spec
  <1> QED
    BY <1>1, CalmSaved, BuffersInvariant, PTL
=============================================================================
