----------------------------- MODULE EditBuffers -----------------------------
(***************************************************************************)
(* One browser tab: the editor's buffers, the debounce, the file panel and *)
(* the session client (main.ts, editor.ts, files.ts, session.ts), against  *)
(* the files of the sessions the server keeps for its user.                *)
(*                                                                         *)
(* JavaScript runs a handler up to its next await without interruption, so *)
(* an action is one such stretch. A task is a handler that waits for the   *)
(* answer to a request; the server serves the requests of several tasks in *)
(* any order, and their answers arrive in any order.                       *)
(*                                                                         *)
(* A text remembers the file it was opened from and its last edit. Binary  *)
(* files, which the editor hides, and what a conversion does are left out: *)
(* of a conversion only whether its answer is outstanding matters here.    *)
(***************************************************************************)
EXTENDS Naturals, FiniteSets

CONSTANTS
    Files,       \* paths of text files
    Main,        \* main.tex
    None,
    Slots,       \* slots of the user
    First,       \* the slot the tab starts with
    Template,    \* Slots -> the files its session is seeded with
    Tasks,       \* handlers that wait at the same time
    Setups,      \* what happens in a behaviour: see Kinds; the .tex files; and
                 \* whether the user waits for the page to settle before acting
    MaxEdits,    \* bound: edits and uploads
    MaxGen       \* bound: sessions opened per slot

Kinds == {"edit", "open", "nav", "delete", "clear", "create", "upload", "swap",
          "expire", "fail"}

\* A text: where it was opened from, and its last edit.
Texts == [slot : Slots, file : Files, stamp : 0..MaxEdits]

ASSUME BuffersAssumption ==
    /\ Main \in Files /\ First \in Slots /\ None \notin Files \union Slots \union Texts
    /\ Template \in [Slots -> {F \in SUBSET Files : Main \in F}]
    /\ Setups \subseteq [ops : SUBSET Kinds, tex : {F \in SUBSET Files : Main \in F}, calm : BOOLEAN]
    /\ MaxEdits \in Nat /\ MaxGen \in Nat \ {0}

VARIABLES
    setup,       \* never changes
    store,       \* the server: Slots -> the slot's last session and its files
    slot,        \* sessionStorage: the slot a reload opens
    env,         \* session.envelope: the session the tab uses and the files it lists
    view,        \* the editor: the active buffer's path and the text it shows
    buffers,     \* BufferStore: Files -> the text of an opened file, or None
    activePath,  \* main.ts
    panel,       \* FilePanel.active
    timer,       \* the debounce: the path its callback has captured, or None
    asked,       \* a conversion's answer is outstanding on the tab's socket
    card,        \* the fatal card is up, and the page about to reload
    task,        \* Tasks -> the handler that waits
    \* history
    edits,       \* edits and uploads so far: they stamp the texts
    newest       \* Files -> the last edit of the file since the page or slot was opened

shown   == <<view, buffers, activePath, panel>>
history == <<edits, newest>>
vars == <<setup, store, slot, env, shown, timer, asked, card, task, history>>

Text(s, f, n) == [slot |-> s, file |-> f, stamp |-> n]
Ids   == [slot : Slots, gen : 1..MaxGen]
Envs  == [slot : Slots, gen : 1..MaxGen, files : SUBSET Files]
Id(e) == [slot |-> e.slot, gen |-> e.gen]

Seeded(s) == [f \in Files |-> IF f \in Template[s] THEN Text(s, f, 0) ELSE None]
Present(d) == {f \in Files : d[f] # None}

\* A handler: the request it waits for (at "sent") or has had the answer to,
\* the session the request names, its file and text, the text or the files it
\* is answered with, and what is left to do:
\* the file to show (goal), a preview (then), a new file to open (made).
Idle == [op |-> "none", at |-> "idle", req |-> "none", to |-> None, path |-> None,
         text |-> None, body |-> None, files |-> {}, goal |-> None, then |-> FALSE, made |-> None,
         again |-> FALSE]

\* find_main_tex, pickPostUploadEntry and findMainTexPath; pickInitialActivePath.
MainOf(F)  == IF Main \in F THEN Main
              ELSE IF F \intersect setup.tex = {} THEN None
              ELSE CHOOSE f \in F \intersect setup.tex : TRUE
Initial(F) == IF F = {} THEN None ELSE IF MainOf(F) # None THEN MainOf(F)
              ELSE CHOOSE f \in F : TRUE

\* The tab has booted: the session is open and its main file in the editor.
Init ==
    /\ setup \in Setups
    /\ store = [s \in Slots |-> [gen |-> 1, live |-> TRUE, files |-> Seeded(s)]]
    /\ slot = First
    /\ env = [slot |-> First, gen |-> 1, files |-> Template[First]]
    /\ view = [active |-> Main, doc |-> Text(First, Main, 0)]
    /\ buffers = [f \in Files |-> IF f = Main THEN Text(First, Main, 0) ELSE None]
    /\ activePath = Main
    /\ panel = Main
    /\ timer = None
    /\ asked = TRUE
    /\ card = FALSE
    /\ task = [t \in Tasks |-> Idle]
    /\ edits = 0
    /\ newest = [f \in Files |-> 0]

-----------------------------------------------------------------------------
(* Helpers.                                                                *)

Live(i) == store[i.slot].live /\ store[i.slot].gen = i.gen

Settled == timer = None /\ \A t \in Tasks : task[t].at = "idle"
Quiet   == Settled /\ ~card /\ (asked => Live(env))

\* The user does something of a kind.
Acts(kind) == kind \in setup.ops /\ (setup.calm => Quiet)
Free(t)    == task[t].at = "idle"
Got(t, op, req, at) == task[t].op \in op /\ task[t].req = req /\ task[t].at \in at

Set(t, rec) == task' = [task EXCEPT ![t] = rec]
End(t)      == Set(t, Idle)

\* The handler sends a request and waits.
Put(rec, e, p, x) == [rec EXCEPT !.at = "sent", !.req = "put", !.to = Id(e), !.path = p, !.text = x]
Get(rec, e, p)    == [rec EXCEPT !.at = "sent", !.req = "get", !.to = Id(e), !.path = p, !.text = None]
List(rec)         == [rec EXCEPT !.at = "sent", !.req = "list", !.to = Id(env), !.text = None]
Open(rec, s)      == [rec EXCEPT !.at = "sent", !.req = "session",
                                 !.to = [slot |-> s, gen |-> 1]]

\* scheduleConvert(), with e the envelope and a the active path.
Converts(e, a) == a \in e.files \intersect setup.tex
Forgets(e, a)  == IF a \in setup.tex \ e.files THEN None ELSE a

\* Mutant of ShowBuffer: the buffer that was active is not persisted.
ShowBuffer_NoPersist(p, x) ==
    IF view.active = p THEN UNCHANGED <<view, buffers>>
    ELSE /\ buffers' = [buffers EXCEPT ![p] = IF @ = None THEN x ELSE @]
         /\ view' = [active |-> p, doc |-> buffers'[p]]

\* editor.openBuffer: the text fetched is used for a file not opened before.
ShowBuffer(p, x) ==
    IF view.active = p THEN UNCHANGED <<view, buffers>>
    ELSE /\ buffers' = [f \in Files |->
                IF f = view.active THEN IF buffers[f] # None THEN view.doc ELSE None
                ELSE IF f = p /\ buffers[f] = None THEN x ELSE buffers[f]]
         /\ view' = [active |-> p, doc |-> buffers'[p]]

\* setActiveFile, once the text is there.
SetActiveFile(p, x) == ShowBuffer(p, x) /\ activePath' = p

\* handleSessionSwap, until its GET: no buffer survives.
CloseAllBuffers ==
    /\ buffers' = [f \in Files |-> None]
    /\ view' = [view EXCEPT !.active = None]
    /\ newest' = [f \in Files |-> 0]

\* FilePanel.openFile(p) and onOpenFile, with e the envelope, a the active path
\* and x the editor's text: the file that is open is saved first.
Opening(p, e, a, x) ==
    LET r == [Idle EXCEPT !.op = "open", !.goal = p]
    IN  IF a \in e.files THEN Put(r, e, a, x) ELSE Get(r, e, p)

-----------------------------------------------------------------------------
(* The server.                                                             *)

\* A route answers; a request that names a session that is gone gets a 410.
ServeFile(t) ==
    LET k == task[t]  s == task[t].to.slot
    IN  /\ k.at = "sent" /\ k.req # "session" /\ Live(k.to)
        /\ store' = CASE k.req = "put"    -> [store EXCEPT ![s].files[k.path] = k.text]
                      [] k.req = "delete" -> [store EXCEPT ![s].files[k.path] = None]
                      [] k.req = "clear"  -> [store EXCEPT ![s].files = [f \in Files |-> None]]
                      [] OTHER            -> store
        /\ Set(t, [k EXCEPT !.at = IF k.req \in {"get", "delete"}
                                      /\ k.path \notin Present(store[s].files)
                                   THEN "fail" ELSE "ok",
                            !.body = IF k.req = "get" THEN store[s].files[k.path] ELSE None,
                            !.files = IF k.req = "list" THEN Present(store[s].files) ELSE {}])
        /\ UNCHANGED <<setup, slot, env, shown, timer, asked, card, history>>

ServeGone(t) ==
    /\ task[t].at = "sent" /\ task[t].req # "session" /\ ~Live(task[t].to)
    /\ Set(t, [task[t] EXCEPT !.at = "gone"])
    /\ UNCHANGED <<setup, store, slot, env, shown, timer, asked, card, history>>

\* Mutant of Reseeded: every call mints a session.
Reseeded_Always(s) == [gen |-> store[s].gen + 1, live |-> TRUE, files |-> Seeded(s)]

\* POST /api/session: the slot's session, or a new one from its template.
Reseeded(s) == IF store[s].live THEN store[s]
               ELSE [gen |-> store[s].gen + 1, live |-> TRUE, files |-> Seeded(s)]
EnvOf(s)    == [slot |-> s, gen |-> Reseeded(s).gen, files |-> Present(Reseeded(s).files)]

\* The envelope a handler has been answered with.
Opened(t) == [slot |-> task[t].to.slot, gen |-> task[t].to.gen, files |-> task[t].files]

ServeSession(t) ==
    LET s == task[t].to.slot
    IN  /\ task[t].at = "sent" /\ task[t].req = "session"
        /\ store' = [store EXCEPT ![s] = Reseeded(s)]
        /\ Set(t, [task[t] EXCEPT !.at = "ok", !.to.gen = Reseeded(s).gen,
                                  !.files = EnvOf(s).files])
        /\ UNCHANGED <<setup, slot, env, shown, timer, asked, card, history>>

\* The request fails for a reason of its own: the network, a quota, a 500.
Fail(t) ==
    /\ "fail" \in setup.ops /\ task[t].at = "sent"
    /\ Set(t, [task[t] EXCEPT !.at = "fail"])
    /\ UNCHANGED <<setup, store, slot, env, shown, timer, asked, card, history>>

\* A session is evicted, at any time, or collected: that takes ten minutes
\* without a request, so a user who waits has nothing in flight by then.
Expire(s) ==
    /\ "expire" \in setup.ops /\ store[s].live /\ store[s].gen < MaxGen
    /\ setup.calm => Settled /\ ~asked
    /\ store' = [store EXCEPT ![s].live = FALSE]
    /\ UNCHANGED <<setup, slot, env, shown, timer, asked, card, task, history>>

-----------------------------------------------------------------------------
(* Edits: editor.onChange and runConvertForEdit.                           *)

\* The user types: the debounce is armed for the active buffer.
Type ==
    /\ Acts("edit") /\ edits < MaxEdits
    /\ edits' = edits + 1
    /\ view' = [view EXCEPT !.doc.stamp = edits + 1]
    /\ timer' = IF view.active = None THEN timer ELSE view.active
    /\ newest' = [f \in Files |-> IF f = view.active THEN edits + 1 ELSE newest[f]]
    /\ UNCHANGED <<setup, store, slot, env, buffers, activePath, panel, asked, card, task>>

\* One .tex file, and the text is a document: its bytes ride the frame.
FastPath == Cardinality(env.files \intersect setup.tex) = 1 /\ view.doc.file = Main

\* The debounce fires: the path is the captured one, the text the view's.
Fire(t) ==
    /\ timer # None /\ Free(t)
    /\ timer' = None
    /\ LET aux == timer \notin setup.tex
       IN  /\ Set(t, Put([Idle EXCEPT !.op = IF aux THEN "aux" ELSE IF FastPath THEN "fast"
                                             ELSE "save"], env, timer, view.doc))
           /\ IF ~aux /\ FastPath
              THEN /\ asked' = (asked \/ Converts(env, activePath))
                   /\ activePath' = Forgets(env, activePath)
              ELSE UNCHANGED <<asked, activePath>>
    /\ UNCHANGED <<setup, store, slot, env, view, buffers, panel, card, history>>

\* The PUT of the fast path is answered: nothing follows from it.
FastDone(t) ==
    /\ Got(t, {"fast"}, "put", {"ok", "gone", "fail"})
    /\ End(t)
    /\ UNCHANGED <<setup, store, slot, env, shown, timer, asked, card, history>>

\* The PUT is acknowledged: convert.
SaveDone(t) ==
    /\ Got(t, {"save"}, "put", {"ok"})
    /\ End(t)
    /\ asked' = (asked \/ Converts(env, activePath))
    /\ activePath' = Forgets(env, activePath)
    /\ UNCHANGED <<setup, store, slot, env, view, buffers, panel, timer, card, history>>

\* ... for an auxiliary file, read the main one first.
AuxDone(t) ==
    /\ Got(t, {"aux"}, "put", {"ok"})
    /\ IF MainOf(env.files) = None THEN End(t)
       ELSE Set(t, Get(task[t], env, MainOf(env.files)))
    /\ UNCHANGED <<setup, store, slot, env, shown, timer, asked, card, history>>

AuxConvert(t) ==
    /\ Got(t, {"aux"}, "get", {"ok", "gone", "fail"})
    /\ End(t)
    /\ asked' = (asked \/ (task[t].at = "ok" /\ Converts(env, task[t].path)))
    /\ UNCHANGED <<setup, store, slot, env, shown, timer, card, history>>

\* 410: reopen the slot and PUT once more; a second failure is reported.
SaveGone(t) ==
    /\ Got(t, {"save", "aux"}, "put", {"gone"}) /\ ~task[t].again
    /\ Set(t, Open(task[t], env.slot))
    /\ UNCHANGED <<setup, store, slot, env, shown, timer, asked, card, history>>

\* Mutant of SaveReopened: the text is not PUT again.
SaveReopened_NoRetry(t) ==
    /\ Got(t, {"save", "aux"}, "session", {"ok"})
    /\ env' = Opened(t)
    /\ asked' = Converts(env', activePath)
    /\ activePath' = Forgets(env', activePath)
    /\ End(t)
    /\ UNCHANGED <<setup, store, slot, view, buffers, panel, timer, card, history>>

SaveReopened(t) ==
    /\ Got(t, {"save", "aux"}, "session", {"ok"})
    /\ env' = Opened(t)
    /\ asked' = FALSE                          \* rebuildWsClient
    /\ Set(t, [Put(task[t], env', task[t].path, task[t].text) EXCEPT !.again = TRUE])
    /\ UNCHANGED <<setup, store, slot, shown, timer, card, history>>

SaveFailed(t) ==
    /\ \/ Got(t, {"save", "aux"}, "put", {"fail"}) \/ Got(t, {"save", "aux"}, "session", {"fail"})
       \/ Got(t, {"save", "aux"}, "put", {"gone"}) /\ task[t].again
    /\ End(t)
    /\ UNCHANGED <<setup, store, slot, env, shown, timer, asked, card, history>>

-----------------------------------------------------------------------------
(* Opening files: a click in the panel, a double click in the preview.     *)

ClickFile(t, p) ==
    /\ Acts("open") /\ Free(t) /\ p \in env.files /\ p # panel
    /\ Set(t, Opening(p, env, activePath, view.doc))
    /\ UNCHANGED <<setup, store, slot, env, shown, timer, asked, card, history>>

\* Mutant of OpenSaved: the active path is set before the text is there.
OpenSaved_Early(t) ==
    /\ Got(t, {"open"}, "put", {"ok", "fail"})
    /\ Set(t, Get(task[t], env, task[t].goal))
    /\ activePath' = task[t].goal
    /\ UNCHANGED <<setup, store, slot, env, view, buffers, panel, timer, asked, card, history>>

\* The file that was open is saved, or not: go on.
OpenSaved(t) ==
    /\ Got(t, {"open"}, "put", {"ok", "fail"})
    /\ Set(t, Get(task[t], env, task[t].goal))
    /\ UNCHANGED <<setup, store, slot, env, shown, timer, asked, card, history>>

\* What follows openFile where refresh() has called it: requestPreview(), and
\* for a new file openFile once more. pa is the panel's file by then.
AfterOpen(t, pa, ap) ==
    IF ~task[t].then THEN End(t) /\ activePath' = ap /\ UNCHANGED asked
    ELSE LET a == Forgets(env, ap)  new == task[t].made
         IN  /\ asked' = (asked \/ Converts(env, ap))
             /\ activePath' = a
             /\ IF new \in {None, pa} THEN End(t)
                ELSE Set(t, Opening(new, env, a, view'.doc))

OpenShown(t) ==
    /\ Got(t, {"open"}, "get", {"ok"})
    /\ ShowBuffer(task[t].goal, task[t].body)
    /\ panel' = task[t].goal
    /\ AfterOpen(t, task[t].goal, task[t].goal)
    /\ UNCHANGED <<setup, store, slot, env, timer, card, history>>

OpenRefused(t) ==
    /\ Got(t, {"open"}, "get", {"gone", "fail"}) \/ Got(t, {"open"}, "put", {"gone"})
    /\ card' = (card \/ task[t].at = "gone")
    /\ UNCHANGED <<view, buffers, panel>>
    /\ AfterOpen(t, panel, activePath)
    /\ UNCHANGED <<setup, store, slot, env, timer, history>>

\* bindPreviewSourceNav: nothing is saved first, and a 410 reopens the slot.
ClickPreview(t, p) ==
    /\ Acts("nav") /\ Free(t) /\ p \in env.files /\ p # activePath
    /\ Set(t, Get([Idle EXCEPT !.op = "nav"], env, p))
    /\ UNCHANGED <<setup, store, slot, env, shown, timer, asked, card, history>>

NavShown(t) ==
    /\ Got(t, {"nav"}, "get", {"ok"})
    /\ SetActiveFile(task[t].path, task[t].body)
    /\ panel' = task[t].path
    /\ End(t)
    /\ UNCHANGED <<setup, store, slot, env, timer, asked, card, history>>

NavRefused(t) ==
    /\ Got(t, {"nav"}, "get", {"gone", "fail"}) \/ Got(t, {"nav"}, "session", {"fail"})
    /\ IF task[t].at = "gone" THEN Set(t, Open(task[t], env.slot)) ELSE End(t)
    /\ UNCHANGED <<setup, store, slot, env, shown, timer, asked, card, history>>

NavReopened(t) ==
    /\ Got(t, {"nav"}, "session", {"ok"})
    /\ env' = Opened(t)
    /\ asked' = FALSE
    /\ End(t)
    /\ UNCHANGED <<setup, store, slot, shown, timer, card, history>>

-----------------------------------------------------------------------------
(* The panel's actions on the file set.                                    *)

Ask(t, kind, req, p, x) ==
    /\ Acts(kind) /\ Free(t)
    /\ Set(t, [Idle EXCEPT !.op = kind, !.at = "sent", !.req = req, !.to = Id(env),
                           !.path = p, !.text = x])
    /\ UNCHANGED <<setup, store, slot, env, shown, timer, asked, card>>

ClickDelete(t, p) == p \in env.files /\ Ask(t, "delete", "delete", p, None) /\ UNCHANGED history
ClickClear(t)     == env.files # {} /\ Ask(t, "clear", "clear", None, None) /\ UNCHANGED history
NewFile(t, p)     == Ask(t, "create", "put", p, Text(env.slot, p, 0)) /\ UNCHANGED history
Upload(t, p) ==
    /\ edits < MaxEdits
    /\ Ask(t, "upload", "put", p, Text(env.slot, p, edits + 1))
    /\ edits' = edits + 1
    /\ UNCHANGED newest

\* The change is made: refresh() asks for the list of files.
ChangeDone(t) ==
    /\ Got(t, {"delete"}, "delete", {"ok"}) \/ Got(t, {"create", "upload"}, "put", {"ok"})
    /\ panel' = IF task[t].op = "delete" /\ panel = task[t].path THEN None ELSE panel
    /\ Set(t, List(task[t]))
    /\ UNCHANGED <<setup, store, slot, env, view, buffers, activePath, timer, asked, card, history>>

ChangeRefused(t) ==
    /\ \E r \in {"put", "delete", "clear"} :
          Got(t, {"delete", "create", "upload", "clear"}, r, {"gone", "fail"})
    /\ card' = (card \/ task[t].at = "gone")
    /\ End(t)
    /\ UNCHANGED <<setup, store, slot, env, shown, timer, asked, history>>

\* The list has come: with nothing active in the panel a file is opened, and
\* requestPreview() follows.
Listed(t) ==
    /\ Got(t, {"delete", "create", "upload"}, "list", {"ok", "gone", "fail"})
    /\ LET k == task[t]
           c == IF k.at = "ok" /\ panel = None THEN MainOf(k.files) ELSE None
           new == IF k.op = "create" THEN k.path ELSE None
           e == IF k.at = "ok" THEN [env EXCEPT !.files = k.files] ELSE env
           a == Forgets(e, activePath)
       IN  /\ env' = e
           /\ card' = (card \/ k.at = "gone")
           /\ IF c # None
              THEN /\ Set(t, [Opening(c, e, activePath, view.doc) EXCEPT !.then = TRUE, !.made = new])
                   /\ UNCHANGED <<asked, activePath>>
              ELSE /\ asked' = (asked \/ Converts(e, activePath))
                   /\ activePath' = a
                   /\ IF new \in {None, panel} THEN End(t)
                      ELSE Set(t, Opening(new, e, a, view.doc))
    /\ UNCHANGED <<setup, store, slot, view, buffers, panel, timer, history>>

\* actionClear: the session stays, and the swap finds nothing to open.
Cleared(t) ==
    /\ Got(t, {"clear"}, "clear", {"ok"})
    /\ env' = [env EXCEPT !.files = {}]
    /\ CloseAllBuffers
    /\ activePath' = None
    /\ panel' = None
    /\ asked' = FALSE
    /\ End(t)
    /\ UNCHANGED <<setup, store, slot, timer, card, edits>>

-----------------------------------------------------------------------------
(* Sessions: the examples menu, and a conversion answered session_expired. *)

\* swapChain runs one swap at a time.
ChooseExample(t, s) ==
    /\ Acts("swap") /\ Free(t) /\ s # env.slot
    /\ \A u \in Tasks : task[u].op # "swap"
    /\ slot' = s
    /\ Set(t, Open([Idle EXCEPT !.op = "swap"], s))
    /\ UNCHANGED <<setup, store, env, shown, timer, asked, card, history>>

\* switchSlot, then handleSessionSwap up to its GET.
Swapped(t) ==
    /\ Got(t, {"swap"}, "session", {"ok"})
    /\ LET e == Opened(t)
           p == Initial(e.files)
       IN  /\ env' = e
           /\ CloseAllBuffers
           /\ activePath' = p
           /\ IF p # None
              THEN /\ Set(t, Get([task[t] EXCEPT !.goal = MainOf(e.files)], e, p))
                   /\ UNCHANGED <<asked, panel>>
              ELSE /\ End(t)
                   /\ asked' = FALSE
                   /\ panel' = None
    /\ UNCHANGED <<setup, store, slot, timer, card, edits>>

\* The file is shown, or could not be loaded; rebuildWsClient, scheduleConvert.
SwapShown(t) ==
    /\ Got(t, {"swap"}, "get", {"ok", "gone", "fail"})
    /\ LET a == IF task[t].at = "ok" THEN task[t].path ELSE activePath
       IN  /\ IF task[t].at = "ok" THEN ShowBuffer(task[t].path, task[t].body)
              ELSE UNCHANGED <<view, buffers>>
           /\ activePath' = Forgets(env, a)
           /\ asked' = Converts(env, a)
    /\ panel' = task[t].goal
    /\ End(t)
    /\ UNCHANGED <<setup, store, slot, env, timer, card, history>>

SwapFailed(t) ==
    /\ Got(t, {"swap"}, "session", {"fail"})
    /\ End(t)
    /\ UNCHANGED <<setup, store, slot, env, shown, timer, asked, card, history>>

\* onWsMessage: a conversion was answered.
WsAnswered ==
    /\ asked /\ Live(env)
    /\ asked' = FALSE
    /\ UNCHANGED <<setup, store, slot, env, shown, timer, card, task, history>>

WsExpired(t) ==
    /\ asked /\ ~Live(env) /\ Free(t)
    /\ asked' = FALSE
    /\ Set(t, Open([Idle EXCEPT !.op = "reopen"], env.slot))
    /\ UNCHANGED <<setup, store, slot, env, shown, timer, card, history>>

Reopened(t) ==
    /\ Got(t, {"reopen"}, "session", {"ok", "fail"})
    /\ End(t)
    /\ IF task[t].at = "fail" THEN UNCHANGED <<env, asked, activePath>>
       ELSE /\ env' = Opened(t)
            /\ asked' = Converts(env', activePath)
            /\ activePath' = Forgets(env', activePath)
    /\ UNCHANGED <<setup, store, slot, view, buffers, panel, timer, card, history>>

\* The fatal card's countdown ends: the page boots again on the tab's slot,
\* and the requests of the old page that were not served are abandoned.
Reload ==
    /\ card
    /\ LET s == slot  e == EnvOf(slot)  p == Initial(EnvOf(slot).files)
       IN  /\ store' = [store EXCEPT ![s] = Reseeded(s)]
           /\ env' = e
           /\ activePath' = p
           /\ panel' = MainOf(e.files)
           /\ view' = [active |-> p, doc |-> IF p = None THEN Text(s, Main, 0)
                                             ELSE store'[s].files[p]]
           /\ buffers' = [f \in Files |-> IF f = p THEN view'.doc ELSE None]
           /\ asked' = Converts(e, p)
    /\ timer' = None
    /\ card' = FALSE
    /\ task' = [t \in Tasks |-> Idle]
    /\ newest' = [f \in Files |-> 0]
    /\ UNCHANGED <<setup, slot, edits>>

-----------------------------------------------------------------------------
Server(t) == ServeFile(t) \/ ServeGone(t) \/ ServeSession(t) \/ Fail(t)
EditStep(t) ==
    \/ Fire(t) \/ FastDone(t) \/ SaveDone(t) \/ AuxDone(t) \/ AuxConvert(t)
    \/ SaveGone(t) \/ SaveReopened(t) \/ SaveFailed(t)
OpenStep(t) ==
    \/ OpenSaved(t) \/ OpenShown(t) \/ OpenRefused(t)
    \/ NavShown(t) \/ NavRefused(t) \/ NavReopened(t)
PanelStep(t) == ChangeDone(t) \/ ChangeRefused(t) \/ Listed(t) \/ Cleared(t)
SessionStep(t) ==
    \/ Swapped(t) \/ SwapShown(t) \/ SwapFailed(t) \/ WsExpired(t) \/ Reopened(t)
User(t) ==
    \/ \E p \in Files : \/ ClickFile(t, p) \/ ClickPreview(t, p) \/ ClickDelete(t, p)
                        \/ NewFile(t, p) \/ Upload(t, p)
    \/ ClickClear(t)
    \/ \E s \in Slots : ChooseExample(t, s)

Next ==
    \/ \E t \in Tasks : \/ Server(t) \/ EditStep(t) \/ OpenStep(t) \/ PanelStep(t)
                        \/ SessionStep(t) \/ User(t)
    \/ Type \/ WsAnswered \/ Reload
    \/ \E s \in Slots : Expire(s)

Spec == Init /\ [][Next]_vars

-----------------------------------------------------------------------------
(* Properties.                                                             *)

MaybeFiles == Files \union {None}
MaybeTexts == Texts \union {None}
Handlers ==
    [op : {"none", "save", "fast", "aux", "open", "nav", "delete", "clear", "create",
           "upload", "swap", "reopen"},
     at : {"idle", "sent", "ok", "gone", "fail"},
     req : {"none", "put", "get", "list", "delete", "clear", "session"},
     to : Ids \union {None}, path : MaybeFiles, text : MaybeTexts,
     body : MaybeTexts, files : SUBSET Files,
     goal : MaybeFiles, then : BOOLEAN, made : MaybeFiles, again : BOOLEAN]

\* Every variable holds a value of its kind.
TypeOK ==
    /\ setup \in Setups
    /\ store \in [Slots -> [gen : 1..MaxGen, live : BOOLEAN, files : [Files -> MaybeTexts]]]
    /\ slot \in Slots
    /\ env \in Envs
    /\ view \in [active : MaybeFiles, doc : Texts]
    /\ buffers \in [Files -> MaybeTexts]
    /\ {activePath, panel, timer} \subseteq MaybeFiles
    /\ {asked, card} \subseteq BOOLEAN
    /\ task \in [Tasks -> Handlers]
    /\ edits \in 0..MaxEdits
    /\ newest \in [Files -> 0..MaxEdits]

\* What was typed since the page or slot was opened is still in the tab: in the
\* editor if the file is shown, in its buffer otherwise. Switching files, by
\* whatever path and however the answers are ordered, loses no edit (main.ts,
\* "BufferStore preserves the previous buffer's state on switch").
NothingTypedIsLost ==
    \A f \in Files : newest[f] > 0 =>
        IF view.active = f THEN view.doc.stamp = newest[f]
        ELSE buffers[f] # None /\ buffers[f].stamp = newest[f]

\* The path main.ts holds to be open is the one whose text the editor shows,
\* although two modules keep them and several switches, deletions and reopenings
\* may be under way: the save on a switch PUTs the text of the one under the
\* name of the other. Swaps are another matter: handleSessionSwap sets the path
\* long before the text is there.
OpenFileIsShown == "swap" \notin setup.ops => activePath \in {None, view.active}

\* A user who waits for the page to settle before doing anything else, and who
\* puts no text of another origin under a file that is open: sessions that expire
\* are met by one who edits and swaps only, in slots that are not one document
\* alone, as the PUT of the fast path is not repeated.
Careful(s) == s.calm /\ s.ops \subseteq {"edit", "open", "nav", "swap", "delete", "clear"}
Expiring(s) ==
    /\ s.calm /\ s.ops \subseteq {"edit", "swap", "expire"}
    /\ \A sl \in Slots : Cardinality(Template[sl] \intersect s.tex) # 1
Patient(s) == Careful(s) \/ Expiring(s)

\* For a patient user, what the editor shows of the active file, if it is listed,
\* is what the server has whenever the page is quiet, over switches, swaps,
\* deletions and sessions that expire under an edit (runConvertForEdit reopens and
\* saves once more).
SettledIsSaved ==
    Patient(setup) /\ Quiet /\ activePath \in env.files /\ Live(env) =>
        store[env.slot].files[activePath] = view.doc

\* A file only ever holds text that was opened from that file of that slot.
\* docs/FileUI.md: the debounced PUT "saves the active buffer".
TextUnderItsName ==
    \A s \in Slots : \A f \in Present(store[s].files) :
        store[s].files[f].slot = s /\ store[s].files[f].file = f
=============================================================================
