-------------------------- MODULE SessionRegistry --------------------------
(***************************************************************************)
(* The registry of live sessions of the ar5iv-editor server (session.rs):  *)
(* three indices under one RwLock, one directory per session under the     *)
(* sessions root, and the four activities that race over them:             *)
(*                                                                         *)
(*   - requests that run `lookup_or_create` (the processes Creators);      *)
(*   - the background task of `spawn_gc`, which runs `gc_once` at every    *)
(*     tick and `sweep_orphans` at every OrphanEvery-th (the process Gc);  *)
(*   - requests that hold an `Arc<Session>` and touch its directory        *)
(*     (the processes Handlers, the file routes of files.rs);              *)
(*   - a crash of the server, which loses the registry and no directory.   *)
(*                                                                         *)
(* A token stands for the pair (session id, disk token), minted together   *)
(* and never reused; the same value names the session and its directory.   *)
(* A step is what one task does between two awaits (or while it holds the  *)
(* registry's write lock): nobody sees the state in the middle of it.      *)
(***************************************************************************)
EXTENDS Naturals, Sequences, SequencesExt

CONSTANTS
    Users,        \* user ids
    Slots,        \* "blank", "example:<slug>", "upload:<sha256>"
    Tokens,       \* what SessionId::new and Token::new can mint
    None,         \* Rust's Option::None
    Creators,     \* request tasks that open a session
    Handlers,     \* request tasks that work on an open session
    Gc,           \* the task of spawn_gc
    Cap,          \* quota_sessions_per_user
    IdleTimeout,  \* idle_timeout, in clock units
    OrphanEvery,  \* a sweep every OrphanEvery GC ticks
    MaxClock,     \* bound: the clock stops here
    MaxRestarts   \* bound: the server crashes at most this often

Keys  == Users \X Slots
Procs == Creators \union {Gc}

ASSUME NoneAssumption == None \notin Tokens /\ None \notin Keys
ASSUME GcAssumption == Gc \notin Creators
ASSUME NatAssumption ==
    /\ Cap \in Nat
    /\ IdleTimeout \in Nat
    /\ OrphanEvery \in Nat \ {0}
    /\ MaxClock \in Nat
    /\ MaxRestarts \in Nat

VARIABLES
    \* RegistryInner, and the Session objects that outlive their entry
    byId,          \* the ids by_id maps to a session
    bySlot,        \* by_slot: Keys -> id or None
    byUser,        \* by_user: Users -> queue of ids, most recent last
    owner,         \* Session.{user_id, slot}; None until the token is minted
    lastActivity,  \* Session.last_activity
    \* the file system under sessions_dir
    dirs,          \* tokens whose directory exists
    mtime,         \* modification time of that directory
    \* the tasks
    pc,            \* Procs -> where the task is
    want,          \* Creators -> the (user, slot) asked for
    tok,           \* Creators -> the token minted for it
    live,          \* Procs -> sweep_orphans' snapshot of the live tokens
    asOf,          \* Procs -> the time sweep_orphans computed its cutoff
    todo,          \* Procs -> directories collected for remove_dir_all
    stale,         \* gc_once's list of ids still to unregister
    gcTicks,       \* GC ticks since the last sweep (tick_count)
    hpc,           \* Handlers -> where the handler is
    hsess,         \* Handlers -> the session it holds
    \* the environment
    up,            \* the server accepts requests
    clock,
    restarts

registryVars == <<byId, bySlot, byUser>>
diskVars     == <<dirs, mtime>>
taskVars     == <<pc, want, tok, live, asOf, todo, stale, gcTicks>>
handlerVars  == <<hpc, hsess>>
envVars      == <<up, clock, restarts>>
vars == <<registryVars, owner, lastActivity, diskVars, taskVars, handlerVars, envVars>>

Init ==
    /\ byId = {}
    /\ bySlot = [k \in Keys |-> None]
    /\ byUser = [u \in Users |-> <<>>]
    /\ owner = [t \in Tokens |-> None]
    /\ lastActivity = [t \in Tokens |-> 0]
    /\ dirs = {}
    /\ mtime = [t \in Tokens |-> 0]
    /\ pc = [p \in Procs |-> IF p = Gc THEN "sweep" ELSE "idle"]
    /\ want = [c \in Creators |-> None]
    /\ tok = [c \in Creators |-> None]
    /\ live = [p \in Procs |-> {}]
    /\ asOf = [p \in Procs |-> 0]
    /\ todo = [p \in Procs |-> {}]
    /\ stale = {}
    /\ gcTicks = 0
    /\ hpc = [h \in Handlers |-> "idle"]
    /\ hsess = [h \in Handlers |-> None]
    /\ up = FALSE
    /\ clock = 0
    /\ restarts = 0

-----------------------------------------------------------------------------
(* Shared vocabulary.                                                      *)

Locked == pc[Gc] = "retire"     \* gc_once holds the write lock across its loop
Expired(t) == lastActivity[t] + IdleTimeout < clock
Dead(t) == t \in dirs /\ t \notin byId

\* tokio::fs::remove_dir_all; a directory that is already gone stays gone.
RemoveDirAll(t) ==
    /\ dirs' = dirs \ {t}
    /\ mtime' = [mtime EXCEPT ![t] = 0]

\* VecDeque::retain(|x| x != id): an id occurs at most once (QueueExact).
Without(q, id) ==
    IF \E i \in 1..Len(q) : q[i] = id
    THEN RemoveAt(q, CHOOSE i \in 1..Len(q) : q[i] = id)
    ELSE q

\* Mutant of Surplus: evict only when the queue is beyond the cap.
Surplus_OffByOne(q) == IF Len(q) <= Cap THEN 0 ELSE Len(q) - Cap

\* enforce_per_user_cap: pop_front while len >= cap, and stop at an empty queue.
Surplus(q) ==
    IF Len(q) < Cap THEN 0
    ELSE IF Cap = 0 THEN Len(q) ELSE Len(q) - Cap + 1
Evicted(q) == {q[i] : i \in 1..Surplus(q)}
Kept(q)    == SubSeq(q, Surplus(q) + 1, Len(q))

\* Mutant of ForgetSlots: by_slot is cleared by slot name, whoever the user is.
ForgetSlots_AnyUser(S) ==
    [k \in Keys |-> IF \E t \in S : owner[t][2] = k[2] THEN None ELSE bySlot[k]]

\* HashMap::remove on by_slot for every session of the set S.
ForgetSlots(S) ==
    [k \in Keys |-> IF \E t \in S : owner[t] = k THEN None ELSE bySlot[k]]

-----------------------------------------------------------------------------
(* lookup_or_create.                                                       *)

Found(k) == bySlot[k] # None /\ bySlot[k] \in byId

\* Fast path: the slot is live; bump it to the back of the queue and touch it.
OpenExisting(c, k) ==
    /\ up /\ ~Locked
    /\ pc[c] = "idle"
    /\ Found(k)
    /\ byUser' = [byUser EXCEPT ![k[1]] = Append(Without(@, bySlot[k]), bySlot[k])]
    /\ lastActivity' = [lastActivity EXCEPT ![bySlot[k]] = clock]
    /\ UNCHANGED <<byId, bySlot, owner, diskVars, taskVars, handlerVars, envVars>>

\* The slot is not live: leave the lock and go to the slow path.
OpenMissing(c, k) ==
    /\ up /\ ~Locked
    /\ pc[c] = "idle"
    /\ ~Found(k)
    /\ pc' = [pc EXCEPT ![c] = "sweep"]
    /\ want' = [want EXCEPT ![c] = k]
    /\ UNCHANGED <<registryVars, owner, lastActivity, diskVars, tok, live, asOf, todo,
                   stale, gcTicks, handlerVars, envVars>>

\* Mint the id and the disk token and create the directory.
CreateDir(c) ==
    /\ pc[c] = "mint"
    /\ \E t \in Tokens :
        /\ owner[t] = None
        /\ owner' = [owner EXCEPT ![t] = want[c]]
        /\ tok' = [tok EXCEPT ![c] = t]
        /\ dirs' = dirs \union {t}
        /\ mtime' = [mtime EXCEPT ![t] = clock]
    /\ pc' = [pc EXCEPT ![c] = "seed"]
    /\ UNCHANGED <<registryVars, lastActivity, want, live, asOf, todo, stale, gcTicks,
                   handlerVars, envVars>>

\* The seed wrote its files into the directory; the Session object is built.
SeedOk(c) ==
    /\ pc[c] = "seed"
    /\ tok[c] \in dirs
    /\ mtime' = [mtime EXCEPT ![tok[c]] = clock]
    /\ lastActivity' = [lastActivity EXCEPT ![tok[c]] = clock]
    /\ pc' = [pc EXCEPT ![c] = "insert"]
    /\ UNCHANGED <<registryVars, owner, dirs, want, tok, live, asOf, todo, stale, gcTicks,
                   handlerVars, envVars>>

\* The seed failed: remove the half-built directory and report the error.
SeedFail(c) ==
    /\ pc[c] = "seed"
    /\ RemoveDirAll(tok[c])
    /\ pc' = [pc EXCEPT ![c] = "idle"]
    /\ tok' = [tok EXCEPT ![c] = None]
    /\ want' = [want EXCEPT ![c] = None]
    /\ UNCHANGED <<registryVars, owner, lastActivity, live, asOf, todo, stale, gcTicks,
                   handlerVars, envVars>>

\* Re-locked: another caller registered the same slot meanwhile; return theirs.
LoseRace(c) ==
    /\ ~Locked
    /\ pc[c] = "insert"
    /\ Found(want[c])
    /\ pc' = [pc EXCEPT ![c] = "yield"]
    /\ UNCHANGED <<registryVars, owner, lastActivity, diskVars, want, tok, live, asOf, todo,
                   stale, gcTicks, handlerVars, envVars>>

\* ... having removed our own directory, after the lock was dropped.
DropOwnDir(c) ==
    /\ pc[c] = "yield"
    /\ RemoveDirAll(tok[c])
    /\ pc' = [pc EXCEPT ![c] = "idle"]
    /\ tok' = [tok EXCEPT ![c] = None]
    /\ want' = [want EXCEPT ![c] = None]
    /\ UNCHANGED <<registryVars, owner, lastActivity, live, asOf, todo, stale, gcTicks,
                   handlerVars, envVars>>

\* Mutant of Register: the slot is not looked up again under the second lock.
Register_NoRecheck(c) ==
    LET t   == tok[c]
        u   == want[c][1]
        out == Evicted(byUser[u])
    IN
    /\ ~Locked
    /\ pc[c] = "insert"
    /\ byId' = (byId \ out) \union {t}
    /\ bySlot' = [ForgetSlots(out \intersect byId) EXCEPT ![want[c]] = t]
    /\ byUser' = [byUser EXCEPT ![u] = Append(Kept(@), t)]
    /\ todo' = [todo EXCEPT ![c] = out \intersect byId]
    /\ pc' = [pc EXCEPT ![c] = "remove"]
    /\ tok' = [tok EXCEPT ![c] = None]
    /\ want' = [want EXCEPT ![c] = None]
    /\ UNCHANGED <<owner, lastActivity, diskVars, live, asOf, stale, gcTicks, handlerVars,
                   envVars>>

\* Re-locked: evict the surplus of the user's queue and insert in the three maps.
Register(c) ==
    LET t   == tok[c]
        u   == want[c][1]
        out == Evicted(byUser[u])
    IN
    /\ ~Locked
    /\ pc[c] = "insert"
    /\ ~Found(want[c])
    /\ byId' = (byId \ out) \union {t}
    /\ bySlot' = [ForgetSlots(out \intersect byId) EXCEPT ![want[c]] = t]
    /\ byUser' = [byUser EXCEPT ![u] = Append(Kept(@), t)]
    /\ todo' = [todo EXCEPT ![c] = out \intersect byId]
    /\ pc' = [pc EXCEPT ![c] = "remove"]
    /\ tok' = [tok EXCEPT ![c] = None]
    /\ want' = [want EXCEPT ![c] = None]
    /\ UNCHANGED <<owner, lastActivity, diskVars, live, asOf, stale, gcTicks, handlerVars,
                   envVars>>

\* The client disconnects and axum drops the handler's future at an await.
AbandonOpen(c) ==
    /\ pc[c] # "idle"
    /\ pc' = [pc EXCEPT ![c] = "idle"]
    /\ tok' = [tok EXCEPT ![c] = None]
    /\ want' = [want EXCEPT ![c] = None]
    /\ todo' = [todo EXCEPT ![c] = {}]
    /\ live' = [live EXCEPT ![c] = {}]
    /\ asOf' = [asOf EXCEPT ![c] = 0]
    /\ UNCHANGED <<registryVars, owner, lastActivity, diskVars, stale, gcTicks, handlerVars,
                   envVars>>

-----------------------------------------------------------------------------
(* sweep_orphans, run by creators, by the GC task and at startup.          *)

\* Snapshot the live disk tokens under the read lock, and fix the cutoff.
SweepSnapshot(p) ==
    /\ ~Locked
    /\ pc[p] = "sweep"
    /\ live' = [live EXCEPT ![p] = byId]
    /\ asOf' = [asOf EXCEPT ![p] = clock]
    /\ pc' = [pc EXCEPT ![p] = "scan"]
    /\ UNCHANGED <<registryVars, owner, lastActivity, diskVars, want, tok, todo, stale, gcTicks,
                   handlerVars, envVars>>

\* Mutants of SweepScan: what the snapshot covers is collected too, or what is
\* not covered is collected at any age.
SweepScan_IgnoreLive(p) ==
    /\ pc[p] = "scan"
    /\ todo' = [todo EXCEPT ![p] = {t \in dirs : mtime[t] + IdleTimeout < asOf[p]}]
    /\ live' = [live EXCEPT ![p] = {}]
    /\ asOf' = [asOf EXCEPT ![p] = 0]
    /\ pc' = [pc EXCEPT ![p] = "purge"]
    /\ UNCHANGED <<registryVars, owner, lastActivity, diskVars, want, tok, stale, gcTicks,
                   handlerVars, envVars>>
SweepScan_AnyAge(p) ==
    /\ pc[p] = "scan"
    /\ todo' = [todo EXCEPT ![p] = dirs \ live[p]]
    /\ live' = [live EXCEPT ![p] = {}]
    /\ asOf' = [asOf EXCEPT ![p] = 0]
    /\ pc' = [pc EXCEPT ![p] = "purge"]
    /\ UNCHANGED <<registryVars, owner, lastActivity, diskVars, want, tok, stale, gcTicks,
                   handlerVars, envVars>>

\* Walk the root: collect what the snapshot does not cover and is older.
SweepScan(p) ==
    /\ pc[p] = "scan"
    /\ todo' = [todo EXCEPT ![p] =
                    {t \in dirs \ live[p] : mtime[t] + IdleTimeout < asOf[p]}]
    /\ live' = [live EXCEPT ![p] = {}]
    /\ asOf' = [asOf EXCEPT ![p] = 0]
    /\ pc' = [pc EXCEPT ![p] = "purge"]
    /\ UNCHANGED <<registryVars, owner, lastActivity, diskVars, want, tok, stale, gcTicks,
                   handlerVars, envVars>>

\* One remove_dir_all of a collected list. It fails, and is only logged, when
\* a handler is writing into the directory.
RemoveDir(p, t) ==
    /\ pc[p] \in {"purge", "remove"}
    /\ t \in todo[p]
    /\ todo' = [todo EXCEPT ![p] = @ \ {t}]
    /\ \/ RemoveDirAll(t)
       \/ /\ \E h \in Handlers : hpc[h] = "writing" /\ hsess[h] = t
          /\ UNCHANGED diskVars
    /\ UNCHANGED <<registryVars, owner, lastActivity, pc, want, tok, live, asOf, stale,
                   gcTicks, handlerVars, envVars>>

\* Mutants of RemoveDone: the sweep of the GC task goes on like a creator's, or
\* the GC task never sweeps after startup.
RemoveDone_Mint(p) ==
    /\ pc[p] \in {"purge", "remove"}
    /\ todo[p] = {}
    /\ pc' = [pc EXCEPT ![p] = IF @ = "purge" THEN "mint" ELSE "idle"]
    /\ up' = (up \/ p = Gc)
    /\ UNCHANGED <<registryVars, owner, lastActivity, diskVars, want, tok, live, asOf, todo,
                   stale, gcTicks, handlerVars, clock, restarts>>
RemoveDone_NoSweep(p) ==
    /\ pc[p] \in {"purge", "remove"}
    /\ todo[p] = {}
    /\ pc' = [pc EXCEPT ![p] = IF p # Gc /\ @ = "purge" THEN "mint" ELSE "idle"]
    /\ up' = (up \/ p = Gc)
    /\ UNCHANGED <<registryVars, owner, lastActivity, diskVars, want, tok, live, asOf, todo,
                   stale, gcTicks, handlerVars, clock, restarts>>

\* The list is empty: a creator goes on or returns; the startup sweep opens
\* the server; the GC task waits for a tick, or sweeps if this tick is due one.
RemoveDone(p) ==
    /\ pc[p] \in {"purge", "remove"}
    /\ todo[p] = {}
    /\ pc' = [pc EXCEPT ![p] =
                IF p # Gc THEN (IF @ = "purge" THEN "mint" ELSE "idle")
                ELSE IF @ = "remove" /\ gcTicks = 0 THEN "sweep" ELSE "idle"]
    /\ up' = (up \/ p = Gc)
    /\ UNCHANGED <<registryVars, owner, lastActivity, diskVars, want, tok, live, asOf, todo,
                   stale, gcTicks, handlerVars, clock, restarts>>

-----------------------------------------------------------------------------
(* gc_once and spawn_gc.                                                   *)

\* Mutant of GcTick: the comparison with the idle timeout is the wrong way round.
GcTick_Fresh ==
    /\ pc[Gc] = "idle"
    /\ stale' = {t \in byId : clock < lastActivity[t] + IdleTimeout}
    /\ gcTicks' = (gcTicks + 1) % OrphanEvery
    /\ pc' = [pc EXCEPT ![Gc] = "retire"]
    /\ UNCHANGED <<registryVars, owner, lastActivity, diskVars, want, tok, live, asOf, todo,
                   handlerVars, envVars>>

\* A tick: take the write lock and collect the ids idle for too long.
GcTick ==
    /\ pc[Gc] = "idle"
    /\ stale' = {t \in byId : Expired(t)}
    /\ gcTicks' = (gcTicks + 1) % OrphanEvery
    /\ pc' = [pc EXCEPT ![Gc] = "retire"]
    /\ UNCHANGED <<registryVars, owner, lastActivity, diskVars, want, tok, live, asOf, todo,
                   handlerVars, envVars>>

\* One round of the loop under the lock: drop an id from the three indices.
GcRetire(t) ==
    /\ pc[Gc] = "retire"
    /\ t \in stale
    /\ stale' = stale \ {t}
    /\ byId' = byId \ {t}
    /\ bySlot' = ForgetSlots({t})
    /\ byUser' = [byUser EXCEPT ![owner[t][1]] = Without(@, t)]
    /\ todo' = [todo EXCEPT ![Gc] = @ \union {t}]
    /\ UNCHANGED <<owner, lastActivity, diskVars, pc, want, tok, live, asOf, gcTicks,
                   handlerVars, envVars>>

\* Drop the lock; the directories go afterwards.
GcUnlock ==
    /\ pc[Gc] = "retire"
    /\ stale = {}
    /\ pc' = [pc EXCEPT ![Gc] = "remove"]
    /\ UNCHANGED <<registryVars, owner, lastActivity, diskVars, want, tok, live, asOf, todo,
                   stale, gcTicks, handlerVars, envVars>>

-----------------------------------------------------------------------------
(* Requests on an open session (require_session, then the file routes).    *)

\* SessionRegistry::get: from here on the handler owns an Arc<Session>.
HandlerGet(h, t) ==
    /\ up /\ ~Locked
    /\ hpc[h] \in {"idle", "ok", "gone"}
    /\ t \in byId
    /\ hpc' = [hpc EXCEPT ![h] = "held"]
    /\ hsess' = [hsess EXCEPT ![h] = t]
    /\ UNCHANGED <<registryVars, owner, lastActivity, diskVars, taskVars, envVars>>

\* A reading route (get_file, list_files): touch, read; ENOENT maps to 410.
HandlerRead(h) ==
    /\ hpc[h] = "held"
    /\ lastActivity' = [lastActivity EXCEPT ![hsess[h]] = clock]
    /\ hpc' = [hpc EXCEPT ![h] = IF hsess[h] \in dirs THEN "ok" ELSE "gone"]
    /\ UNCHANGED <<registryVars, owner, diskVars, taskVars, hsess, envVars>>

\* A writing route (put_file, upload_files, mkdir, rename): create_dir_all of
\* the parent, which makes the session directory too when it is missing.
HandlerMakeParent(h) ==
    /\ hpc[h] = "held"
    /\ hpc' = [hpc EXCEPT ![h] = "writing"]
    /\ dirs' = dirs \union {hsess[h]}
    /\ mtime' = IF hsess[h] \in dirs THEN mtime ELSE [mtime EXCEPT ![hsess[h]] = clock]
    /\ UNCHANGED <<registryVars, owner, lastActivity, taskVars, hsess, envVars>>

\* ... then the write itself, which moves the directory's mtime only when it
\* adds an entry, and on success the touch.
HandlerWrite(h) ==
    /\ hpc[h] = "writing"
    /\ IF hsess[h] \in dirs
       THEN /\ hpc' = [hpc EXCEPT ![h] = "ok"]
            /\ \/ mtime' = [mtime EXCEPT ![hsess[h]] = clock]
               \/ UNCHANGED mtime
            /\ lastActivity' = [lastActivity EXCEPT ![hsess[h]] = clock]
       ELSE /\ hpc' = [hpc EXCEPT ![h] = "gone"]
            /\ UNCHANGED <<mtime, lastActivity>>
    /\ UNCHANGED <<registryVars, owner, dirs, taskVars, hsess, envVars>>

-----------------------------------------------------------------------------
(* The environment.                                                        *)

\* A seed (a template, or an archive under the unpack caps) and its insert
\* finish well within the idle timeout: the clock waits for them.
Seeding(c) == pc[c] \in {"seed", "insert"}
Tick ==
    /\ clock < MaxClock
    /\ \A c \in Creators : Seeding(c) => clock < mtime[tok[c]] + IdleTimeout
    /\ clock' = clock + 1
    /\ UNCHANGED <<registryVars, owner, lastActivity, diskVars, taskVars, handlerVars, up,
                   restarts>>

\* The process dies and starts again: the directories are all that is left,
\* and main sweeps them before it listens.
Restart ==
    /\ restarts < MaxRestarts
    /\ restarts' = restarts + 1
    /\ byId' = {}
    /\ bySlot' = [k \in Keys |-> None]
    /\ byUser' = [u \in Users |-> <<>>]
    /\ pc' = [p \in Procs |-> IF p = Gc THEN "sweep" ELSE "idle"]
    /\ want' = [c \in Creators |-> None]
    /\ tok' = [c \in Creators |-> None]
    /\ todo' = [p \in Procs |-> {}]
    /\ stale' = {}
    /\ gcTicks' = 0
    /\ hpc' = [h \in Handlers |-> "idle"]
    /\ hsess' = [h \in Handlers |-> None]
    /\ up' = FALSE
    /\ live' = [p \in Procs |-> {}]
    /\ asOf' = [p \in Procs |-> 0]
    /\ UNCHANGED <<owner, lastActivity, diskVars, clock>>

-----------------------------------------------------------------------------
SweepStep(p) ==
    \/ SweepSnapshot(p)
    \/ SweepScan(p)
    \/ \E t \in todo[p] : RemoveDir(p, t)
    \/ RemoveDone(p)

GcStep ==
    \/ GcTick
    \/ \E t \in stale : GcRetire(t)
    \/ GcUnlock
    \/ SweepStep(Gc)

CreatorStep(c) ==
    \/ \E k \in Keys : OpenExisting(c, k) \/ OpenMissing(c, k)
    \/ CreateDir(c)
    \/ SeedOk(c)
    \/ SeedFail(c)
    \/ LoseRace(c)
    \/ DropOwnDir(c)
    \/ Register(c)
    \/ AbandonOpen(c)
    \/ SweepStep(c)

HandlerStep(h) ==
    \/ \E t \in byId : HandlerGet(h, t)
    \/ HandlerRead(h)
    \/ HandlerMakeParent(h)
    \/ HandlerWrite(h)

Next ==
    \/ GcStep
    \/ \E c \in Creators : CreatorStep(c)
    \/ \E h \in Handlers : HandlerStep(h)
    \/ Tick
    \/ Restart

Spec == Init /\ [][Next]_vars

\* tokio polls every woken task and the interval of spawn_gc always fires
\* again; nothing obliges a client to send a request.
Fairness ==
    /\ WF_vars(GcStep)
    /\ \A h \in Handlers : WF_vars(HandlerMakeParent(h) \/ HandlerRead(h) \/ HandlerWrite(h))

FairSpec == Spec /\ Fairness

-----------------------------------------------------------------------------
(* Properties.                                                             *)

CreatorPlaces == {"idle", "sweep", "scan", "purge", "mint", "seed", "insert", "yield", "remove"}
GcPlaces      == {"idle", "sweep", "scan", "purge", "retire", "remove"}
HandlerPlaces == {"idle", "held", "writing", "ok", "gone"}

\* The type invariant.
TypeOK ==
    /\ byId \subseteq Tokens
    /\ bySlot \in [Keys -> Tokens \union {None}]
    /\ byUser \in [Users -> Seq(Tokens)]
    /\ owner \in [Tokens -> Keys \union {None}]
    /\ lastActivity \in [Tokens -> Nat]
    /\ dirs \subseteq Tokens
    /\ mtime \in [Tokens -> Nat]
    /\ pc \in [Procs -> CreatorPlaces \union GcPlaces]
    /\ \A c \in Creators : pc[c] \in CreatorPlaces
    /\ pc[Gc] \in GcPlaces
    /\ want \in [Creators -> Keys \union {None}]
    /\ tok \in [Creators -> Tokens \union {None}]
    /\ live \in [Procs -> SUBSET Tokens]
    /\ asOf \in [Procs -> Nat]
    /\ todo \in [Procs -> SUBSET Tokens]
    /\ stale \subseteq Tokens
    /\ gcTicks \in Nat
    /\ hpc \in [Handlers -> HandlerPlaces]
    /\ hsess \in [Handlers -> Tokens \union {None}]
    /\ \A h \in Handlers : hpc[h] # "idle" => hsess[h] \in Tokens
    /\ up \in BOOLEAN
    /\ clock \in Nat
    /\ restarts \in Nat

\* by_slot and by_id are inverse to one another: every live session is the
\* one its (user, slot) resolves to, and no slot names a session that is gone.
SlotExact ==
    /\ \A t \in byId : owner[t] \in Keys /\ bySlot[owner[t]] = t
    /\ \A k \in Keys : bySlot[k] # None => bySlot[k] \in byId /\ owner[bySlot[k]] = k

\* The queue q lists exactly the elements of S, each of them once.
Lists(q, S) ==
    /\ \A i \in 1..Len(q) : q[i] \in S
    /\ \A t \in S : \E i \in 1..Len(q) : q[i] = t
    /\ \A i, j \in 1..Len(q) : q[i] = q[j] => i = j

\* The live sessions of user u.
SessionsOf(u) == {t \in byId : owner[t][1] = u}

\* by_user[u] lists exactly u's live sessions, each of them once.
QueueExact == \A u \in Users : Lists(byUser[u], SessionsOf(u))

\* The three maps of RegistryInner agree, however creates, collections,
\* evictions and cancelled requests interleave.
IndicesAgree == SlotExact /\ QueueExact

\* No user ever has more live sessions than quota_sessions_per_user. With the
\* quota set to 0 the code still admits one (the queue is empty before it inserts).
PerUserCap == \A u \in Users : Len(byUser[u]) <= (IF Cap = 0 THEN 1 ELSE Cap)

\* Nobody removes the directory of a session the registry still serves: not a
\* sweep whose snapshot predates the registration, not a collection, not an
\* eviction list worked off after the lock was dropped.
LiveDirsExist == byId \subseteq dirs

\* A route answers 410 session_expired only for a session that is really gone.
GoneMeansExpired == \A h \in Handlers : hpc[h] = "gone" => hsess[h] \notin byId

-----------------------------------------------------------------------------
(* The inductive strengthening of the invariants above.                    *)

Opening(c) == pc[c] \in {"sweep", "scan", "purge", "mint", "seed", "insert", "yield"}
Pending(c) == pc[c] \in {"seed", "insert", "yield"}

\* A create in progress owns its token alone, and nobody can find it yet.
PendingOwned ==
    /\ \A c \in Creators : Opening(c) => want[c] \in Keys
    /\ \A c \in Creators : Pending(c) =>
          tok[c] \in Tokens /\ tok[c] \notin byId /\ owner[tok[c]] = want[c]
    /\ \A c, d \in Creators : Pending(c) /\ Pending(d) /\ tok[c] = tok[d] => c = d

\* What gc_once still has to unregister is registered, and the lock keeps it so.
StaleLive == stale \subseteq byId /\ (~Locked => stale = {})

IndexInv == TypeOK /\ IndicesAgree /\ PerUserCap /\ PendingOwned /\ StaleLive

\* Whatever has a directory, a holder or a place on a list has been minted, and
\* nobody holds a session that is still in the making.
Minted ==
    /\ \A t \in dirs : owner[t] # None
    /\ \A p \in Procs : \A t \in todo[p] : owner[t] # None
    /\ \A h \in Handlers : hpc[h] # "idle" => owner[hsess[h]] # None
    /\ \A h \in Handlers, c \in Creators : hpc[h] # "idle" /\ Pending(c) => hsess[h] # tok[c]

\* A list for remove_dir_all names nothing that is live or being seeded.
TodoDead ==
    \A p \in Procs : \A t \in todo[p] :
        t \notin byId /\ \A c \in Creators : Seeding(c) => tok[c] # t

\* A directory being seeded is there and younger than the idle timeout, and so
\* was every session registered behind the back of a running sweep.
YoungDirs ==
    /\ \A c \in Creators : Seeding(c) => tok[c] \in dirs /\ clock <= mtime[tok[c]] + IdleTimeout
    /\ \A p \in Procs : pc[p] = "scan" =>
          asOf[p] <= clock /\ \A t \in byId \ live[p] : asOf[p] <= mtime[t] + IdleTimeout

DiskInv == LiveDirsExist /\ GoneMeansExpired /\ Minted /\ TodoDead /\ YoungDirs

-----------------------------------------------------------------------------
(* Liveness.                                                               *)

\* An expired directory that no registry entry covers (a crash survivor, a
\* failed or abandoned create, a directory a late write brought back) is
\* eventually removed, unless a request that was still in flight refreshes it.
OrphansRemoved ==
    \A t \in Tokens :
        (Dead(t) /\ mtime[t] + IdleTimeout < clock)
            ~> (t \notin dirs \/ mtime[t] + IdleTimeout >= clock)

\* A session nobody touches is eventually collected, unless it is touched.
IdleCollected == \A t \in Tokens : (t \in byId /\ Expired(t)) ~> (t \notin byId \/ ~Expired(t))

-----------------------------------------------------------------------------
(* The abstract specification.                                             *)

\* A token is fresh for the callers until it is registered or its create ended.
Fresh == {t \in Tokens : owner[t] = None \/ \E c \in Creators : tok[c] = t /\ Seeding(c)}

Directory == INSTANCE SlotDirectory WITH slotOf <- bySlot, fresh <- Fresh

\* The registry's callers see exactly what SlotDirectory promises: lookups,
\* races of two creates for a slot, evictions, collections and crashes are
\* steps of the abstract directory, or invisible.
ImplementsSlotDirectory == Directory!Spec
=============================================================================
