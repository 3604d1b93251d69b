------------------------------ MODULE LspPool ------------------------------
(***************************************************************************)
(* The warm engine pool of the ar5iv-editor server (lsp_pool.rs): one      *)
(* `latexml_oxide --server` process per session directory, kept in a map   *)
(* under an async mutex, and the tasks (Callers) that convert through it.  *)
(* The engine itself is external: it answers, crashes, stops reading its   *)
(* input, or stays silent.                                                 *)
(*                                                                         *)
(* A caller in Impatient runs inside the `select!` of the WebSocket        *)
(* handler, which drops its future at any await once a newer frame         *)
(* arrives. `prewarm` runs in a task of its own and is never dropped.      *)
(***************************************************************************)
EXTENDS Naturals, FiniteSets, FiniteSetsExt

CONSTANTS
    Dirs,        \* session directories
    Engines,     \* PooledChild objects; one nobody refers to any more stands for a new one
    Callers,     \* tasks that call convert or prewarm
    Impatient,   \* the callers whose future may be dropped
    None,
    Capacity,    \* cfg.capacity
    IdleReap,    \* cfg.idle_reap_secs, in clock units
    MaxId,       \* bound: request ids alive at once on an engine (next_id)
    MaxClock,    \* bound: the clock stops here
    MayClog      \* the engine may stop reading while its stdin pipe is full

ASSUME PoolNoneAssumption == None \notin Dirs /\ None \notin Engines /\ None \notin Callers
ASSUME PoolConstantsAssumption ==
    /\ IsFiniteSet(Dirs) /\ IsFiniteSet(Callers)
    /\ Impatient \subseteq Callers
    /\ {Capacity, IdleReap, MaxClock} \subseteq Nat
    /\ MaxId \in Nat \ {0}                                        \* initialize has id 1
    /\ MayClog \in BOOLEAN

VARIABLES
    \* LspPool
    children,   \* Dirs -> the pooled engine or None
    lock,       \* the caller that holds the children mutex, or None
    \* PooledChild, per engine
    alive,
    pending,    \* request ids with a registered reply sender
    lastUsed,   \* last_used_ms
    stdin,      \* the caller that holds the stdin mutex, or None
    \* the process behind it
    proc,       \* "none" (not started, or its EOF was read), "running", "killed", "exited"
    asked,      \* ids of the complete frames it has to answer
    torn,       \* a frame was cut short on its stdin
    clogged,    \* it reads no more and the pipe is full
    \* the callers
    pc,
    dir,        \* the session directory asked for, or None
    kid,        \* the engine child_for returned, or None
    rid,        \* the request id, 0 for none
    got,        \* the reply has been sent to the caller
    clock

poolVars   == <<children, lock>>
engineVars == <<alive, pending, lastUsed, stdin>>
procVars   == <<proc, asked, torn, clogged>>
callVars   == <<pc, dir, kid, rid, got>>
vars == <<poolVars, engineVars, procVars, callVars, clock>>

Init ==
    /\ children = [d \in Dirs |-> None]
    /\ lock = None
    /\ alive = [e \in Engines |-> FALSE]
    /\ pending = [e \in Engines |-> {}]
    /\ lastUsed = [e \in Engines |-> 0]
    /\ stdin = [e \in Engines |-> None]
    /\ proc = [e \in Engines |-> "none"]
    /\ asked = [e \in Engines |-> {}]
    /\ torn = [e \in Engines |-> FALSE]
    /\ clogged = [e \in Engines |-> FALSE]
    /\ pc = [r \in Callers |-> "idle"]
    /\ dir = [r \in Callers |-> None]
    /\ kid = [r \in Callers |-> None]
    /\ rid = [r \in Callers |-> 0]
    /\ got = [r \in Callers |-> FALSE]
    /\ clock = 0

-----------------------------------------------------------------------------
Pooled  == {children[d] : d \in Dirs} \ {None}
Busy(e) == pending[e] # {}                                         \* is_busy
Stale_DeadOnly(e) == ~alive[e]     \* mutant of Stale: idle engines are kept
Stale(e) == ~alive[e] \/ (lastUsed[e] + IdleReap <= clock /\ ~Busy(e))
Swept == {e \in Pooled : Stale(e)}
Without(E) == [d \in Dirs |-> IF children[d] \in E THEN None ELSE children[d]]

\* Mutant of Evictable: make room only beyond the capacity.
Evictable_OffByOne(E) ==
    LET rest == Pooled \ Swept
        idle == {e \in rest : ~Busy(e)}
        room == IF Capacity = 0 THEN 1 ELSE Capacity
        over == IF Cardinality(rest) <= room THEN 0 ELSE Cardinality(rest) - room
    IN
    /\ E \subseteq idle
    /\ Cardinality(E) = Min({over, Cardinality(idle)})
    /\ \A e \in E, x \in idle \ E : lastUsed[e] <= lastUsed[x]

\* The sets the eviction loop may remove: least recently used first, among
\* those that are not busy, until there is room or only busy ones are left.
Evictable(E) ==
    LET rest == Pooled \ Swept
        idle == {e \in rest : ~Busy(e)}
        room == IF Capacity = 0 THEN 1 ELSE Capacity
        over == IF Cardinality(rest) < room THEN 0 ELSE Cardinality(rest) - room + 1
    IN
    /\ E \subseteq idle
    /\ Cardinality(E) = Min({over, Cardinality(idle)})
    /\ \A e \in E, x \in idle \ E : lastUsed[e] <= lastUsed[x]

\* PooledChild::shutdown, for every engine of E: whoever awaits it gets an
\* error, and SIGKILL ends what the process was doing.
Shutdown(E) ==
    /\ alive' = [e \in Engines |-> alive[e] /\ e \notin E]
    /\ pending' = [e \in Engines |-> IF e \in E THEN {} ELSE pending[e]]
    /\ proc' = [e \in Engines |-> IF e \in E /\ proc[e] = "running" THEN "killed" ELSE proc[e]]
    /\ asked' = [e \in Engines |-> IF e \in E THEN {} ELSE asked[e]]
    /\ torn' = [e \in Engines |-> torn[e] /\ e \notin E]
    /\ UNCHANGED clogged

\* A caller returns to its own caller.
Return(r) ==
    /\ pc' = [pc EXCEPT ![r] = "idle"]
    /\ dir' = [dir EXCEPT ![r] = None]
    /\ kid' = [kid EXCEPT ![r] = None]
    /\ rid' = [rid EXCEPT ![r] = 0]
    /\ got' = [got EXCEPT ![r] = FALSE]

-----------------------------------------------------------------------------
(* child_for and spawn_child.                                              *)

Call(r, d) ==
    /\ pc[r] = "idle"
    /\ pc' = [pc EXCEPT ![r] = "enter"]
    /\ dir' = [dir EXCEPT ![r] = d]
    /\ UNCHANGED <<poolVars, engineVars, procVars, kid, rid, got, clock>>

\* Lock the map, sweep it, and find the session's engine alive.
Reuse(r) ==
    LET e == children[dir[r]] IN
    /\ pc[r] = "enter" /\ lock = None
    /\ e # None /\ e \notin Swept
    /\ Shutdown(Swept)
    /\ children' = Without(Swept)
    /\ lastUsed' = [lastUsed EXCEPT ![e] = clock]
    /\ \/ /\ pc' = [pc EXCEPT ![r] = "have"]
          /\ kid' = [kid EXCEPT ![r] = e]
          /\ UNCHANGED <<dir, rid, got>>
       \/ r \notin Impatient /\ Return(r)                          \* prewarm
    /\ UNCHANGED <<lock, stdin, clock>>

\* Lock the map, sweep it, evict for room, and keep it locked for the spawn.
Evict(r) ==
    /\ pc[r] = "enter" /\ lock = None
    /\ children[dir[r]] \in Swept \union {None}
    /\ \E E \in SUBSET Pooled :
        /\ Evictable(E)
        /\ Shutdown(Swept \union E)
        /\ children' = Without(Swept \union E)
    /\ lock' = r
    /\ pc' = [pc EXCEPT ![r] = "spawn"]
    /\ UNCHANGED <<lastUsed, stdin, dir, kid, rid, got, clock>>

\* Start the process and send it the initialize request, id 1.
Spawn(r) ==
    /\ pc[r] = "spawn"
    /\ \E e \in Engines :
        /\ proc[e] = "none" /\ e \notin Pooled /\ \A q \in Callers : kid[q] # e
        /\ proc' = [proc EXCEPT ![e] = "running"]
        /\ alive' = [alive EXCEPT ![e] = TRUE]
        /\ pending' = [pending EXCEPT ![e] = {1}]
        /\ asked' = [asked EXCEPT ![e] = {1}]
        /\ lastUsed' = [lastUsed EXCEPT ![e] = clock]
        /\ kid' = [kid EXCEPT ![r] = e]
    /\ rid' = [rid EXCEPT ![r] = 1]
    /\ pc' = [pc EXCEPT ![r] = "handshake"]
    /\ UNCHANGED <<poolVars, stdin, torn, clogged, dir, got, clock>>

\* The engine cannot be started: the error goes to the caller.
SpawnFail(r) ==
    /\ pc[r] = "spawn"
    /\ lock' = None
    /\ Return(r)
    /\ UNCHANGED <<children, engineVars, procVars, clock>>

\* initialize was answered: the engine joins the map and the lock is dropped.
HandshakeOk(r) ==
    /\ pc[r] = "handshake"
    /\ got[r]
    /\ children' = [children EXCEPT ![dir[r]] = kid[r]]
    /\ lock' = None
    /\ \/ /\ pc' = [pc EXCEPT ![r] = "have"]
          /\ rid' = [rid EXCEPT ![r] = 0]
          /\ got' = [got EXCEPT ![r] = FALSE]
          /\ UNCHANGED <<dir, kid>>
       \/ r \notin Impatient /\ Return(r)                          \* prewarm
    /\ UNCHANGED <<engineVars, procVars, clock>>

\* No answer in 20 s, or the engine died: kill it and report ChildDied.
HandshakeFail(r) ==
    /\ pc[r] = "handshake"
    /\ ~got[r]
    /\ Shutdown({kid[r]})
    /\ lock' = None
    /\ Return(r)
    /\ UNCHANGED <<children, lastUsed, stdin, clock>>

-----------------------------------------------------------------------------
(* convert, from the engine on.                                            *)

\* next_id never repeats: an id is fresh if nothing refers to it any more.
UsedIds(e) == pending[e] \union asked[e] \union {rid[r] : r \in {q \in Callers : kid[q] = e}}

\* Register the reply channel. The map's lock is long dropped.
Post(r) ==
    LET e == kid[r] IN
    /\ pc[r] = "have"
    /\ \E id \in (2..MaxId) \ UsedIds(e) :
        /\ \A i \in 2..(id - 1) : i \in UsedIds(e)
        /\ pending' = [pending EXCEPT ![e] = @ \union {id}]
        /\ rid' = [rid EXCEPT ![r] = id]
    /\ pc' = [pc EXCEPT ![r] = "post"]
    /\ UNCHANGED <<poolVars, alive, lastUsed, stdin, procVars, dir, kid, got, clock>>

LockStdin(r) ==
    /\ pc[r] = "post"
    /\ stdin[kid[r]] = None
    /\ stdin' = [stdin EXCEPT ![kid[r]] = r]
    /\ pc' = [pc EXCEPT ![r] = "write"]
    /\ UNCHANGED <<poolVars, alive, pending, lastUsed, procVars, dir, kid, rid, got, clock>>

\* The frame went through; behind a torn frame the engine may not see it.
WriteOk(r) ==
    LET e == kid[r] IN
    /\ pc[r] = "write"
    /\ proc[e] \in {"running", "killed"} /\ ~clogged[e]
    /\ \/ proc[e] = "running" /\ asked' = [asked EXCEPT ![e] = @ \union {rid[r]}]
       \/ (proc[e] = "killed" \/ torn[e]) /\ UNCHANGED asked
    /\ stdin' = [stdin EXCEPT ![e] = None]
    /\ pc' = [pc EXCEPT ![r] = "wait"]
    /\ UNCHANGED <<poolVars, alive, pending, lastUsed, proc, torn, clogged, dir, kid, rid,
                   got, clock>>

\* Mutant of WriteFail: the stdin guard is kept while the map is locked.
WriteFail_KeepGuard(r) ==
    /\ pc[r] = "write"
    /\ proc[kid[r]] \in {"exited", "none"}
    /\ Shutdown({kid[r]})
    /\ pc' = [pc EXCEPT ![r] = "reap"]
    /\ UNCHANGED <<poolVars, lastUsed, stdin, dir, kid, rid, got, clock>>

\* The pipe is broken: shut the engine down, and go to take it off the map.
WriteFail(r) ==
    LET e == kid[r] IN
    /\ pc[r] = "write"
    /\ proc[e] \in {"exited", "none"}
    /\ Shutdown({e})
    /\ stdin' = [stdin EXCEPT ![e] = None]
    /\ pc' = [pc EXCEPT ![r] = "reap"]
    /\ UNCHANGED <<poolVars, lastUsed, dir, kid, rid, got, clock>>

Receive(r) ==
    /\ pc[r] = "wait"
    /\ got[r]
    /\ lastUsed' = [lastUsed EXCEPT ![kid[r]] = clock]
    /\ Return(r)
    /\ UNCHANGED <<poolVars, alive, pending, stdin, procVars, clock>>

\* Mutant of GiveUp: the reply is awaited without a deadline.
GiveUp_NoDeadline(r) ==
    /\ pc[r] = "wait"
    /\ ~got[r] /\ rid[r] \notin pending[kid[r]]
    /\ Shutdown({kid[r]})
    /\ pc' = [pc EXCEPT ![r] = "reap"]
    /\ UNCHANGED <<poolVars, lastUsed, stdin, dir, kid, rid, got, clock>>

\* The reply sender was dropped, or the deadline passed: the same reap.
GiveUp(r) ==
    /\ pc[r] = "wait"
    /\ ~got[r]
    /\ Shutdown({kid[r]})
    /\ pc' = [pc EXCEPT ![r] = "reap"]
    /\ UNCHANGED <<poolVars, lastUsed, stdin, dir, kid, rid, got,
                   clock>>

\* Mutant of Reap: no Arc::ptr_eq, whatever the map holds is removed.
Reap_Anyone(r) ==
    /\ pc[r] = "reap" /\ lock = None
    /\ children' = [children EXCEPT ![dir[r]] = None]
    /\ Return(r)
    /\ UNCHANGED <<lock, engineVars, procVars, clock>>

\* reap, second half: remove our engine from the map, and only ours.
Reap(r) ==
    /\ pc[r] = "reap" /\ lock = None
    /\ children' = IF children[dir[r]] = kid[r] THEN [children EXCEPT ![dir[r]] = None] ELSE children
    /\ Return(r)
    /\ UNCHANGED <<lock, engineVars, procVars, clock>>

\* The WebSocket handler drops the future: the guards it holds are released,
\* a frame may be left half written, and nothing else is undone. The ids it
\* may leave behind are bounded, so that the other callers find a free one.
Drop(r) ==
    /\ r \in Impatient
    /\ pc[r] \in {"enter", "handshake", "post", "write", "wait", "reap"}
    /\ kid[r] # None => Cardinality(UsedIds(kid[r]) \ {0, 1}) + Cardinality(Callers) < MaxId
    /\ lock' = IF lock = r THEN None ELSE lock
    /\ stdin' = [e \in Engines |-> IF stdin[e] = r THEN None ELSE stdin[e]]
    /\ \/ UNCHANGED torn
       \/ /\ pc[r] = "write" /\ proc[kid[r]] = "running"
          /\ torn' = [torn EXCEPT ![kid[r]] = TRUE]
    /\ Return(r)
    /\ UNCHANGED <<children, alive, pending, lastUsed, proc, asked, clogged, clock>>

-----------------------------------------------------------------------------
(* The engine process and the task that reads its output.                  *)

\* The engine answers a request, in any order (a newer request preempts an
\* older one), and the read task hands the reply to whoever still waits.
Answer(e, id) ==
    /\ proc[e] = "running"
    /\ id \in asked[e]
    /\ asked' = [asked EXCEPT ![e] = @ \ {id}]
    /\ pending' = [pending EXCEPT ![e] = @ \ {id}]
    /\ got' = [r \in Callers |-> got[r] \/ (id \in pending[e] /\ kid[r] = e /\ rid[r] = id)]
    /\ UNCHANGED <<poolVars, alive, lastUsed, stdin, proc, torn, clogged, pc, dir, kid, rid,
                   clock>>

\* The process is gone, and what it was asked with it.
Exits(e) ==
    /\ proc' = [proc EXCEPT ![e] = "exited"]
    /\ asked' = [asked EXCEPT ![e] = {}]
    /\ torn' = [torn EXCEPT ![e] = FALSE]
    /\ clogged' = [clogged EXCEPT ![e] = FALSE]
    /\ UNCHANGED <<poolVars, engineVars, callVars, clock>>

Crash(e) == proc[e] = "running" /\ Exits(e)
Die(e)   == proc[e] = "killed" /\ Exits(e)

\* The pipe runs full under a writer, and the engine does not read.
Clog(e) ==
    /\ MayClog
    /\ proc[e] = "running" /\ stdin[e] # None
    /\ clogged' = [clogged EXCEPT ![e] = TRUE]
    /\ UNCHANGED <<poolVars, engineVars, proc, asked, torn, callVars, clock>>

\* The read task sees EOF: mark the engine dead and fail what is pending.
ReaderEof(e) ==
    /\ proc[e] = "exited"
    /\ proc' = [proc EXCEPT ![e] = "none"]
    /\ alive' = [alive EXCEPT ![e] = FALSE]
    /\ pending' = [pending EXCEPT ![e] = {}]
    /\ UNCHANGED <<poolVars, lastUsed, stdin, asked, torn, clogged, callVars, clock>>

Tick ==
    /\ clock < MaxClock
    /\ clock' = clock + 1
    /\ UNCHANGED <<poolVars, engineVars, procVars, callVars>>

-----------------------------------------------------------------------------
\* What a caller does by itself once it has been called.
Proceed(r) ==
    \/ Spawn(r) \/ SpawnFail(r)
    \/ HandshakeOk(r) \/ HandshakeFail(r)
    \/ Post(r)
    \/ WriteOk(r) \/ WriteFail(r)
    \/ Receive(r) \/ GiveUp(r)

\* The steps that wait for a mutex.
Lock(r)  == Reuse(r) \/ Evict(r) \/ Reap(r)

Exit(e) == Die(e) \/ ReaderEof(e)

EngineStep(e) ==
    \/ \E id \in asked[e] : Answer(e, id)
    \/ Crash(e)
    \/ Clog(e)
    \/ Exit(e)

Next ==
    \/ \E r \in Callers :
          \/ \E d \in Dirs : Call(r, d)
          \/ Proceed(r)
          \/ Lock(r)
          \/ LockStdin(r)
          \/ Drop(r)
    \/ \E e \in Engines : EngineStep(e)
    \/ Tick

Spec == Init /\ [][Next]_vars

\* tokio polls woken tasks, its Mutex is a fair queue, a killed process dies,
\* and the timers fire. The engine owes nobody an answer.
Fairness ==
    /\ \A r \in Callers : WF_vars(Proceed(r)) /\ SF_vars(Lock(r)) /\ SF_vars(LockStdin(r))
    /\ \A e \in Engines : WF_vars(Exit(e))

FairSpec == Spec /\ Fairness

-----------------------------------------------------------------------------
(* Properties.                                                             *)

\* The type invariant, with who holds what: each mutex is held exactly while its
\* holder is where the code holds it.
TypeOK ==
    /\ children \in [Dirs -> Engines \union {None}]
    /\ lock \in Callers \union {None}
    /\ alive \in [Engines -> BOOLEAN]
    /\ pending \in [Engines -> SUBSET (1..MaxId)]
    /\ lastUsed \in [Engines -> Nat]
    /\ stdin \in [Engines -> Callers \union {None}]
    /\ proc \in [Engines -> {"none", "running", "killed", "exited"}]
    /\ asked \in [Engines -> SUBSET (1..MaxId)]
    /\ torn \in [Engines -> BOOLEAN]
    /\ clogged \in [Engines -> BOOLEAN]
    /\ pc \in [Callers -> {"idle", "enter", "spawn", "handshake", "have", "post", "write", "wait",
                           "reap"}]
    /\ dir \in [Callers -> Dirs \union {None}]
    /\ kid \in [Callers -> Engines \union {None}]
    /\ rid \in [Callers -> 0..MaxId]
    /\ got \in [Callers -> BOOLEAN]
    /\ clock \in Nat
    /\ \A r \in Callers :
          /\ lock = r <=> pc[r] \in {"spawn", "handshake"}
          /\ \A e \in Engines : stdin[e] = r <=> (pc[r] = "write" /\ kid[r] = e)
          /\ dir[r] = None <=> pc[r] = "idle"
          /\ kid[r] = None <=> pc[r] \in {"idle", "enter", "spawn"}
          /\ rid[r] = 0 <=> pc[r] \in {"idle", "enter", "spawn", "have"}
          /\ got[r] => rid[r] # 0

\* The callers between child_for and the engine's reply.
Converting(r) == pc[r] \in {"have", "post", "write", "wait"}

\* No engine process runs outside the pool: what is not in the map is being
\* spawned, or has been killed. A process nobody can find is never reaped.
EnginesAccounted ==
    \A e \in Engines : proc[e] = "running" =>
        e \in Pooled \/ \E r \in Callers : pc[r] = "handshake" /\ kid[r] = e

\* The pool exceeds its capacity only by what is in use: never more engines
\* than the capacity or the tasks that convert, whichever is larger.
PoolBounded == Cardinality(Pooled) <= Max({1, Capacity, Cardinality(Callers)})

\* Engines idle longer than idle_reap_secs are reaped whenever the map is
\* swept: an engine nobody converts on, and that owes no answer, goes.
InUse(e) == asked[e] # {} \/ \E r \in Callers : kid[r] = e /\ Converting(r)
IdleReaped ==
    [][\A r \in Callers : pc[r] = "enter" /\ pc'[r] \in {"have", "spawn"} =>
          \A e \in Pooled : lastUsed[e] + IdleReap <= clock /\ ~InUse(e) =>
              \A d \in Dirs : children'[d] # e]_vars

\* A caller of an engine that stopped reading: the deadline starts after the
\* write, so only the end of the engine or of the caller gets it out of there.
AtBlockedPipe(r) == pc[r] \in {"post", "write"} /\ clogged[kid[r]]

\* Self-healing, never silent: whatever the engines do, a conversion ends with an
\* answer or an error and with its locks free. An engine that stops reading
\* holds up its callers, in turn for its pipe, for as long as it lives.
ConvertSettles ==
    \A r \in Callers :
        pc[r] # "idle" /\ ~AtBlockedPipe(r) ~> pc[r] = "idle" \/ AtBlockedPipe(r)
=============================================================================
