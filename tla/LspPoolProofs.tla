--------------------------- MODULE LspPoolProofs ---------------------------
(***************************************************************************)
(* What LspPool guarantees for all sets of callers, directories and        *)
(* engines, whatever the engines do.                                       *)
(***************************************************************************)
EXTENDS LspPool, FiniteSetTheorems, TLAPS

LEMMA TypeInit == Init => TypeOK
BY PoolNoneAssumption, PoolConstantsAssumption DEF Init, TypeOK

\* What Shutdown leaves typed.
LEMMA ShutdownType ==
    ASSUME TypeOK, NEW E, Shutdown(E)
    PROVE  /\ alive' \in [Engines -> BOOLEAN]
           /\ pending' \in [Engines -> SUBSET (1..MaxId)]
           /\ proc' \in [Engines -> {"none", "running", "killed", "exited"}]
           /\ asked' \in [Engines -> SUBSET (1..MaxId)]
           /\ torn' \in [Engines -> BOOLEAN]
           /\ clogged' = clogged
BY DEF TypeOK, Shutdown

LEMMA TypeNext == TypeOK /\ [Next]_vars => TypeOK'
<1> SUFFICES ASSUME TypeOK, [Next]_vars PROVE TypeOK'
  OBVIOUS
<1> USE PoolNoneAssumption, PoolConstantsAssumption
<1>1. ASSUME NEW r \in Callers, NEW d \in Dirs, Call(r, d) PROVE TypeOK'
  BY <1>1 DEF TypeOK, Call, poolVars, engineVars, procVars
<1>2. ASSUME NEW r \in Callers, Spawn(r) PROVE TypeOK'
  BY <1>2 DEF TypeOK, Spawn, poolVars
<1>3. ASSUME NEW r \in Callers, SpawnFail(r) PROVE TypeOK'
  BY <1>3 DEF TypeOK, SpawnFail, Return, engineVars, procVars
<1>4. ASSUME NEW r \in Callers, HandshakeOk(r) PROVE TypeOK'
  <2>1. kid[r] \in Engines /\ dir[r] \in Dirs /\ lock = r
    BY <1>4 DEF TypeOK, HandshakeOk
  <2>2. \A q \in Callers \ {r} : pc[q] \notin {"spawn", "handshake"}
    BY <2>1 DEF TypeOK
  <2>3. CASE /\ pc' = [pc EXCEPT ![r] = "have"] /\ rid' = [rid EXCEPT ![r] = 0]
             /\ got' = [got EXCEPT ![r] = FALSE] /\ UNCHANGED <<dir, kid>>
    BY <1>4, <2>1, <2>2, <2>3 DEF TypeOK, HandshakeOk, Return, engineVars, procVars
  <2>4. CASE Return(r)
    BY <1>4, <2>1, <2>2, <2>4 DEF TypeOK, HandshakeOk, Return, engineVars, procVars
  <2> QED BY <1>4, <2>3, <2>4 DEF HandshakeOk
<1>5. ASSUME NEW r \in Callers, HandshakeFail(r) PROVE TypeOK'
  BY <1>5, ShutdownType DEF TypeOK, HandshakeFail, Return
<1>6. ASSUME NEW r \in Callers, Post(r) PROVE TypeOK'
  BY <1>6 DEF TypeOK, Post, poolVars, procVars
<1>7. ASSUME NEW r \in Callers, WriteOk(r) PROVE TypeOK'
  <2>1. kid[r] \in Engines /\ rid[r] \in 1..MaxId /\ stdin[kid[r]] = r
    BY <1>7 DEF TypeOK, WriteOk
  <2>2. \A q \in Callers \ {r} : pc[q] = "write" => kid[q] # kid[r]
    BY <2>1 DEF TypeOK
  <2>3. asked' \in [Engines -> SUBSET (1..MaxId)]
    BY <1>7, <2>1 DEF TypeOK, WriteOk
  <2>4. stdin' = [stdin EXCEPT ![kid[r]] = None] /\ pc' = [pc EXCEPT ![r] = "wait"]
        /\ UNCHANGED <<poolVars, alive, pending, lastUsed, proc, torn, clogged, dir, kid, rid, got, clock>>
    BY <1>7 DEF WriteOk
  <2>5. \A q \in Callers, e \in Engines : stdin'[e] = q <=> (pc'[q] = "write" /\ kid'[q] = e)
    BY <2>1, <2>2, <2>4 DEF TypeOK
  <2>6. /\ stdin' \in [Engines -> Callers \union {None}]
        /\ pc' \in [Callers -> {"idle", "enter", "spawn", "handshake", "have", "post", "write",
                              "wait", "reap"}]
    BY <2>4 DEF TypeOK
  <2>7. \A q \in Callers :
           /\ lock' = q <=> pc'[q] \in {"spawn", "handshake"}
           /\ dir'[q] = None <=> pc'[q] = "idle"
           /\ kid'[q] = None <=> pc'[q] \in {"idle", "enter", "spawn"}
           /\ rid'[q] = 0 <=> pc'[q] \in {"idle", "enter", "spawn", "have"}
           /\ got'[q] => rid'[q] # 0
    BY <1>7, <2>4 DEF TypeOK, WriteOk, poolVars
  <2> QED BY <2>3, <2>4, <2>5, <2>6, <2>7 DEF TypeOK, poolVars
<1>8. ASSUME NEW r \in Callers, WriteFail(r) PROVE TypeOK'
  <2>1. kid[r] \in Engines /\ stdin[kid[r]] = r
    BY <1>8 DEF TypeOK, WriteFail
  <2>2. Shutdown({kid[r]}) /\ stdin' = [stdin EXCEPT ![kid[r]] = None]
        /\ pc' = [pc EXCEPT ![r] = "reap"] /\ pc[r] = "write"
        /\ UNCHANGED <<children, lock, lastUsed, dir, kid, rid, got, clock>>
    BY <1>8 DEF WriteFail, poolVars
  <2>3. /\ alive' \in [Engines -> BOOLEAN]
        /\ pending' \in [Engines -> SUBSET (1..MaxId)]
        /\ proc' \in [Engines -> {"none", "running", "killed", "exited"}]
        /\ asked' \in [Engines -> SUBSET (1..MaxId)]
        /\ torn' \in [Engines -> BOOLEAN]
        /\ clogged' = clogged
    BY <2>2, ShutdownType
  <2>4. \A q \in Callers \ {r} : pc[q] = "write" => kid[q] # kid[r]
    BY <2>1 DEF TypeOK
  <2>5. \A q \in Callers, e \in Engines : stdin'[e] = q <=> (pc'[q] = "write" /\ kid'[q] = e)
    BY <2>1, <2>2, <2>4 DEF TypeOK
  <2>6. /\ stdin' \in [Engines -> Callers \union {None}]
        /\ pc' \in [Callers -> {"idle", "enter", "spawn", "handshake", "have", "post", "write",
                              "wait", "reap"}]
    BY <2>2 DEF TypeOK
  <2>7. \A q \in Callers :
           /\ lock' = q <=> pc'[q] \in {"spawn", "handshake"}
           /\ dir'[q] = None <=> pc'[q] = "idle"
           /\ kid'[q] = None <=> pc'[q] \in {"idle", "enter", "spawn"}
           /\ rid'[q] = 0 <=> pc'[q] \in {"idle", "enter", "spawn", "have"}
           /\ got'[q] => rid'[q] # 0
    BY <2>2 DEF TypeOK
  <2> QED BY <2>2, <2>3, <2>5, <2>6, <2>7 DEF TypeOK
<1>9. ASSUME NEW r \in Callers, Receive(r) PROVE TypeOK'
  BY <1>9 DEF TypeOK, Receive, Return, poolVars, procVars
<1>10. ASSUME NEW r \in Callers, GiveUp(r) PROVE TypeOK'
  BY <1>10, ShutdownType DEF TypeOK, GiveUp, poolVars
<1>11. ASSUME NEW r \in Callers, Reuse(r) PROVE TypeOK'
  <2>1. dir[r] \in Dirs /\ children[dir[r]] \in Engines /\ kid[r] = None /\ Shutdown(Swept)
    BY <1>11 DEF TypeOK, Reuse
  <2>2. /\ alive' \in [Engines -> BOOLEAN]
        /\ pending' \in [Engines -> SUBSET (1..MaxId)]
        /\ proc' \in [Engines -> {"none", "running", "killed", "exited"}]
        /\ asked' \in [Engines -> SUBSET (1..MaxId)]
        /\ torn' \in [Engines -> BOOLEAN]
        /\ clogged' = clogged
    BY <2>1, ShutdownType
  <2>3. children' \in [Dirs -> Engines \union {None}] /\ lastUsed' \in [Engines -> Nat]
    BY <1>11, <2>1 DEF TypeOK, Reuse, Without
  <2>4. CASE Return(r)
    BY <1>11, <2>1, <2>2, <2>3, <2>4 DEF TypeOK, Reuse, Return
  <2>5. CASE pc' = [pc EXCEPT ![r] = "have"] /\ kid' = [kid EXCEPT ![r] = children[dir[r]]]
             /\ UNCHANGED <<dir, rid, got>>
    BY <1>11, <2>1, <2>2, <2>3, <2>5 DEF TypeOK, Reuse
  <2> QED BY <1>11, <2>4, <2>5 DEF Reuse
<1>12. ASSUME NEW r \in Callers, Evict(r) PROVE TypeOK'
  BY <1>12, ShutdownType DEF TypeOK, Evict, Without
<1>13. ASSUME NEW r \in Callers, Reap(r) PROVE TypeOK'
  BY <1>13 DEF TypeOK, Reap, Return, engineVars, procVars
<1>14. ASSUME NEW r \in Callers, LockStdin(r) PROVE TypeOK'
  BY <1>14 DEF TypeOK, LockStdin, poolVars, procVars
<1>15. ASSUME NEW r \in Callers, Drop(r) PROVE TypeOK'
  <2>1. torn' \in [Engines -> BOOLEAN]
    <3>1. torn \in [Engines -> BOOLEAN]
      BY DEF TypeOK
    <3>2. torn' = torn \/ torn' = [torn EXCEPT ![kid[r]] = TRUE]
      BY <1>15 DEF Drop
    <3> QED BY <3>1, <3>2
  <2>2. /\ lock' = IF lock = r THEN None ELSE lock
        /\ stdin' = [e \in Engines |-> IF stdin[e] = r THEN None ELSE stdin[e]]
        /\ Return(r)
        /\ UNCHANGED <<children, alive, pending, lastUsed, proc, asked, clogged, clock>>
    BY <1>15 DEF Drop
  <2> QED BY <2>1, <2>2 DEF TypeOK, Return
<1>16. ASSUME NEW e \in Engines, NEW id \in asked[e], Answer(e, id) PROVE TypeOK'
  BY <1>16 DEF TypeOK, Answer, poolVars
<1>17. ASSUME NEW e \in Engines, Exits(e) PROVE TypeOK'
  BY <1>17 DEF TypeOK, Exits, poolVars, engineVars, callVars
<1>18. ASSUME NEW e \in Engines, Clog(e) PROVE TypeOK'
  BY <1>18 DEF TypeOK, Clog, poolVars, engineVars, callVars
<1>19. ASSUME NEW e \in Engines, ReaderEof(e) PROVE TypeOK'
  BY <1>19 DEF TypeOK, ReaderEof, poolVars, callVars
<1>20. CASE Tick
  BY <1>20 DEF TypeOK, Tick, poolVars, engineVars, procVars, callVars
<1>21. CASE UNCHANGED vars
  BY <1>21 DEF TypeOK, vars, poolVars, engineVars, procVars, callVars
<1> QED BY <1>1, <1>2, <1>3, <1>4, <1>5, <1>6, <1>7, <1>8, <1>9, <1>10, <1>11, <1>12, <1>13,
           <1>14, <1>15, <1>16, <1>17, <1>18, <1>19, <1>20, <1>21
        DEF Next, Proceed, Lock, EngineStep, Crash, Exit, Die

\* Every reachable state of the pool is well typed, and each mutex is held by
\* exactly the caller whose place in the code holds it.
THEOREM PoolTypeCorrect == Spec => []TypeOK
BY TypeInit, TypeNext, PTL DEF Spec

-----------------------------------------------------------------------------
(* No engine is lost, as long as no future is dropped. A new engine must not   *)
(* displace another one, and what a task takes off the map must be dead.       *)

Kept ==
    /\ EnginesAccounted
    /\ \A r \in Callers : pc[r] \in {"spawn", "handshake"} => children[dir[r]] = None
    /\ \A r \in Callers : pc[r] = "reap" => proc[kid[r]] # "running"

LEMMA KeptInit == Init => Kept
BY DEF Init, Kept, EnginesAccounted

\* A sweep takes only what it has shut down.
LEMMA SweepKeeps ==
    ASSUME TypeOK, Kept, NEW E \in SUBSET Engines, Shutdown(E), children' = Without(E),
           NEW r \in Callers, pc[r] = "enter",
           \A q \in Callers \ {r} : pc'[q] = pc[q] /\ kid'[q] = kid[q] /\ dir'[q] = dir[q],
           pc'[r] # "reap", pc'[r] \in {"spawn", "handshake"} => children'[dir'[r]] = None
    PROVE  Kept'
<1> USE PoolNoneAssumption
<1>1. \A e \in Engines : proc'[e] = "running" => proc[e] = "running" /\ e \notin E
  BY DEF Shutdown, TypeOK
<1>2. \A e \in Engines \ E : e \in Pooled => e \in Pooled'
  BY DEF Pooled, Without, TypeOK
<1>3. EnginesAccounted'
  BY <1>1, <1>2 DEF EnginesAccounted, Kept
<1>4. \A q \in Callers \ {r} : pc'[q] \in {"spawn", "handshake"} => children'[dir'[q]] = None
  BY DEF Kept, Without, TypeOK
<1>5. \A q \in Callers : pc'[q] = "reap" => proc'[kid'[q]] # "running"
  BY DEF Kept, Shutdown, TypeOK
<1> QED BY <1>3, <1>4, <1>5 DEF Kept

\* What keeps the map and who spawns, and starts no process, keeps the rest.
LEMMA OthersKeep ==
    ASSUME TypeOK, Kept, children' = children,
           \A e \in Engines : proc'[e] = "running" => proc[e] = "running",
           \A q \in Callers : pc'[q] \in {"spawn", "handshake"} =>
               pc[q] \in {"spawn", "handshake"} /\ dir'[q] = dir[q],
           \A q \in Callers : pc[q] = "handshake" =>
               (pc'[q] = "handshake" /\ kid'[q] = kid[q]) \/ proc'[kid[q]] # "running",
           \A q \in Callers : pc'[q] = "reap" =>
               (pc[q] = "reap" /\ kid'[q] = kid[q]) \/ proc'[kid'[q]] # "running"
    PROVE  Kept'
<1>1. EnginesAccounted'
  BY DEF EnginesAccounted, Kept, Pooled, TypeOK
<1>2. \A q \in Callers : pc'[q] = "reap" => proc'[kid'[q]] # "running"
  <2>1. ASSUME NEW q \in Callers, pc'[q] = "reap", pc[q] = "reap" PROVE kid[q] \in Engines
    BY <2>1 DEF TypeOK
  <2> QED BY <2>1 DEF Kept
<1>3. \A q \in Callers : pc'[q] \in {"spawn", "handshake"} => children'[dir'[q]] = None
  BY DEF Kept
<1> QED BY <1>1, <1>2, <1>3 DEF Kept

LEMMA KeptNext == Impatient = {} /\ TypeOK /\ TypeOK' /\ Kept /\ [Next]_vars => Kept'
<1> SUFFICES ASSUME Impatient = {}, TypeOK, TypeOK', Kept, [Next]_vars PROVE Kept'
  OBVIOUS
<1> USE PoolNoneAssumption, PoolConstantsAssumption
<1>1. ASSUME NEW r \in Callers, NEW d \in Dirs, Call(r, d) PROVE Kept'
  BY <1>1, OthersKeep DEF TypeOK, Call, poolVars, engineVars, procVars
<1>2. ASSUME NEW r \in Callers, Spawn(r) PROVE Kept'
  <2>1. PICK e \in Engines : /\ proc[e] = "none" /\ proc' = [proc EXCEPT ![e] = "running"]
                             /\ \A q \in Callers : kid[q] # e
                             /\ kid' = [kid EXCEPT ![r] = e]
    BY <1>2 DEF Spawn
  <2>2. children' = children /\ dir' = dir /\ pc' = [pc EXCEPT ![r] = "handshake"] /\ pc[r] = "spawn"
    BY <1>2 DEF Spawn, poolVars
  <2>3. EnginesAccounted'
    BY <2>1, <2>2 DEF EnginesAccounted, Kept, Pooled, TypeOK
  <2> QED BY <2>1, <2>2, <2>3 DEF Kept, TypeOK
<1>3. ASSUME NEW r \in Callers, SpawnFail(r) PROVE Kept'
  BY <1>3, OthersKeep DEF TypeOK, SpawnFail, Return, engineVars, procVars
<1>4. ASSUME NEW r \in Callers, HandshakeOk(r) PROVE Kept'
  <2>1. kid[r] \in Engines /\ dir[r] \in Dirs /\ lock = r /\ pc[r] = "handshake"
    BY <1>4 DEF TypeOK, HandshakeOk
  <2>2. \A q \in Callers \ {r} : pc[q] \notin {"spawn", "handshake"}
    BY <2>1 DEF TypeOK
  <2>3. children[dir[r]] = None
    BY <2>1 DEF Kept
  <2>4. /\ children' = [children EXCEPT ![dir[r]] = kid[r]]
        /\ proc' = proc /\ pc'[r] \in {"have", "idle"}
        /\ \A q \in Callers \ {r} : pc'[q] = pc[q] /\ kid'[q] = kid[q]
    BY <1>4 DEF HandshakeOk, Return, procVars, TypeOK
  <2>5. Pooled \subseteq Pooled' /\ kid[r] \in Pooled'
    BY <2>1, <2>3, <2>4 DEF Pooled, TypeOK
  <2>6. EnginesAccounted'
    BY <2>1, <2>2, <2>4, <2>5 DEF EnginesAccounted, Kept
  <2> QED BY <2>2, <2>4, <2>6 DEF Kept
<1>5. ASSUME NEW r \in Callers, HandshakeFail(r) PROVE Kept'
  BY <1>5, OthersKeep DEF TypeOK, HandshakeFail, Return, Shutdown
<1>6. ASSUME NEW r \in Callers, Post(r) PROVE Kept'
  BY <1>6, OthersKeep DEF TypeOK, Post, poolVars, procVars
<1>7. ASSUME NEW r \in Callers, WriteOk(r) PROVE Kept'
  BY <1>7, OthersKeep DEF TypeOK, WriteOk, poolVars
<1>8. ASSUME NEW r \in Callers, WriteFail(r) PROVE Kept'
  BY <1>8, OthersKeep DEF TypeOK, WriteFail, poolVars, Shutdown
<1>9. ASSUME NEW r \in Callers, Receive(r) PROVE Kept'
  BY <1>9, OthersKeep DEF TypeOK, Receive, Return, poolVars, procVars
<1>10. ASSUME NEW r \in Callers, GiveUp(r) PROVE Kept'
  BY <1>10, OthersKeep DEF TypeOK, GiveUp, poolVars, Shutdown
<1>11. ASSUME NEW r \in Callers, Reuse(r) PROVE Kept'
  <2>1. Swept \in SUBSET Engines /\ pc'[r] \in {"have", "idle"}
    BY <1>11 DEF Swept, Pooled, TypeOK, Reuse, Return
  <2>2. /\ pc[r] = "enter" /\ Shutdown(Swept) /\ children' = Without(Swept)
        /\ \A q \in Callers \ {r} : pc'[q] = pc[q] /\ kid'[q] = kid[q] /\ dir'[q] = dir[q]
    BY <1>11 DEF TypeOK, Reuse, Return
  <2> QED BY <2>1, <2>2, SweepKeeps
<1>12. ASSUME NEW r \in Callers, Evict(r) PROVE Kept'
  <2>1. PICK E \in SUBSET Pooled :
            Shutdown(Swept \union E) /\ children' = Without(Swept \union E)
    BY <1>12 DEF Evict
  <2>2. Swept \union E \in SUBSET Engines
    BY DEF Swept, Pooled, TypeOK
  <2>3. dir'[r] \in Dirs /\ children'[dir'[r]] = None
    BY <1>12, <2>1 DEF Evict, Without, TypeOK
  <2>4. /\ pc[r] = "enter" /\ pc'[r] = "spawn"
        /\ \A q \in Callers \ {r} : pc'[q] = pc[q] /\ kid'[q] = kid[q] /\ dir'[q] = dir[q]
    BY <1>12 DEF TypeOK, Evict
  <2> QED BY <2>1, <2>2, <2>3, <2>4, SweepKeeps
<1>13. ASSUME NEW r \in Callers, Reap(r) PROVE Kept'
  <2>1. kid[r] \in Engines /\ dir[r] \in Dirs /\ proc[kid[r]] # "running" /\ proc' = proc
    BY <1>13 DEF Reap, TypeOK, Kept, procVars
  <2>2. \A e \in Engines : e # kid[r] /\ e \in Pooled => e \in Pooled'
    BY <1>13, <2>1 DEF Reap, Pooled, TypeOK
  <2>3. /\ pc'[r] = "idle" /\ pc[r] = "reap"
        /\ \A q \in Callers \ {r} : pc'[q] = pc[q] /\ kid'[q] = kid[q] /\ dir'[q] = dir[q]
    BY <1>13 DEF Reap, Return, TypeOK
  <2>4. EnginesAccounted'
    BY <2>1, <2>2, <2>3 DEF EnginesAccounted, Kept
  <2>5. \A d \in Dirs : children[d] = None => children'[d] = None
    BY <1>13 DEF Reap, TypeOK
  <2>6. \A q \in Callers : pc'[q] \in {"spawn", "handshake"} => children'[dir'[q]] = None
    BY <2>3, <2>5 DEF Kept, TypeOK
  <2> QED BY <2>1, <2>3, <2>4, <2>6 DEF Kept
<1>14. ASSUME NEW r \in Callers, LockStdin(r) PROVE Kept'
  BY <1>14, OthersKeep DEF TypeOK, LockStdin, poolVars, procVars
<1>15. ASSUME NEW r \in Callers, Drop(r) PROVE Kept'
  BY <1>15 DEF Drop
<1>16. ASSUME NEW e \in Engines, NEW id \in asked[e], Answer(e, id) PROVE Kept'
  BY <1>16, OthersKeep DEF TypeOK, Answer, poolVars
<1>17. ASSUME NEW e \in Engines, Exits(e) PROVE Kept'
  BY <1>17, OthersKeep DEF TypeOK, Exits, poolVars, engineVars, callVars
<1>18. ASSUME NEW e \in Engines, Clog(e) PROVE Kept'
  BY <1>18, OthersKeep DEF TypeOK, Clog, poolVars, engineVars, callVars
<1>19. ASSUME NEW e \in Engines, ReaderEof(e) PROVE Kept'
  BY <1>19, OthersKeep DEF TypeOK, ReaderEof, poolVars, callVars
<1>20. CASE Tick
  BY <1>20, OthersKeep DEF TypeOK, Tick, poolVars, engineVars, procVars, callVars
<1>21. CASE UNCHANGED vars
  BY <1>21, OthersKeep DEF TypeOK, vars, poolVars, engineVars, procVars, callVars
<1> QED BY <1>1, <1>2, <1>3, <1>4, <1>5, <1>6, <1>7, <1>8, <1>9, <1>10, <1>11, <1>12, <1>13,
           <1>14, <1>15, <1>16, <1>17, <1>18, <1>19, <1>20, <1>21
        DEF Next, Proceed, Lock, EngineStep, Crash, Exit, Die

\* While no future is dropped, every engine process that runs is in the pool or
\* is being started: none is lost, whoever else crashes, evicts or reaps.
THEOREM NoEngineIsLost == ASSUME Impatient = {} PROVE Spec => []EnginesAccounted
<1>1. TypeOK /\ Kept /\ [Next]_vars => (TypeOK /\ Kept)'
  BY TypeNext, KeptNext
<1>2. Kept => EnginesAccounted
  BY DEF Kept
<1> QED BY <1>1, <1>2, TypeInit, KeptInit, PTL DEF Spec

-----------------------------------------------------------------------------
(* The pool is bounded, as long as no future is dropped: what an eviction may  *)
(* not take is busy, and each busy engine has a caller of its own.             *)

Bound == Max({1, Capacity, Cardinality(Callers)})

LEMMA BoundIsMax ==
    /\ Bound \in Nat /\ Cardinality(Callers) \in Nat
    /\ 1 <= Bound /\ Capacity <= Bound /\ Cardinality(Callers) <= Bound
<1> DEFINE n == Cardinality(Callers)
<1>1. n \in Nat /\ Capacity \in Nat
  BY PoolConstantsAssumption, FS_CardinalityType
<1> HIDE DEF n
<1>2. \E x \in {1, Capacity, n} : \A y \in {1, Capacity, n} : x >= y
  BY <1>1
<1>3. /\ Max({1, Capacity, n}) \in {1, Capacity, n}
      /\ \A y \in {1, Capacity, n} : Max({1, Capacity, n}) >= y
  BY <1>2 DEF Max
<1>4. Bound = Max({1, Capacity, n})
  BY DEF Bound, n
<1> QED BY <1>1, <1>3, <1>4 DEF n

LEMMA PooledFinite == TypeOK => IsFiniteSet(Pooled)
<1> SUFFICES ASSUME TypeOK PROVE IsFiniteSet(Pooled)
  OBVIOUS
<1>1. IsFiniteSet({children[d] : d \in Dirs})
  <2>1. children \in Surjection(Dirs, {children[d] : d \in Dirs})
    BY DEF Surjection, TypeOK
  <2> QED BY <2>1, FS_Surjection, PoolConstantsAssumption
<1> QED BY <1>1, FS_Difference DEF Pooled

\* Every request an engine owes has a caller that is still without its reply.
Waits(r, e, id) ==
    /\ kid[r] = e /\ rid[r] = id /\ ~got[r]
    /\ pc[r] \in {"handshake", "post", "write", "wait"}

Owed == \A e \in Engines : \A id \in pending[e] : \E r \in Callers : Waits(r, e, id)

\* After an eviction there is room for one engine more.
LEMMA EvictionMakesRoom ==
    ASSUME TypeOK, Owed, NEW r \in Callers, pc[r] = "enter",
           NEW E \in SUBSET Pooled, Evictable(E)
    PROVE  Cardinality(Pooled \ (Swept \union E)) < Bound
<1> DEFINE rest == Pooled \ Swept
           idle == {e \in rest : ~Busy(e)}
           room == IF Capacity = 0 THEN 1 ELSE Capacity
           over == IF Cardinality(rest) < room THEN 0 ELSE Cardinality(rest) - room + 1
           left == Pooled \ (Swept \union E)
<1>1. /\ E \subseteq idle
      /\ Cardinality(E) = Min({over, Cardinality(idle)})
  BY DEF Evictable
<1>2. /\ IsFiniteSet(rest) /\ IsFiniteSet(idle) /\ IsFiniteSet(E) /\ IsFiniteSet(left)
      /\ left = rest \ E /\ E \subseteq rest
  BY <1>1, PooledFinite, FS_Difference, FS_Subset
<1>3. Cardinality(rest) \in Nat /\ Cardinality(idle) \in Nat /\ Cardinality(E) \in Nat
  BY <1>2, FS_CardinalityType
<1>4. room \in Nat /\ 1 <= room /\ room <= Bound /\ over \in Nat
  BY <1>3, BoundIsMax, PoolConstantsAssumption
<1>5. Cardinality(left) = Cardinality(rest) - Cardinality(E)
  <2>1. rest \cap E = E
    BY <1>2
  <2> QED BY <1>2, <2>1, FS_Difference
<1>6. CASE Cardinality(E) = over
  BY <1>3, <1>4, <1>5, <1>6, BoundIsMax
<1>7. CASE Cardinality(E) # over
  <2>1. Cardinality(E) = Cardinality(idle)
    <3> HIDE DEF over, idle
    <3>1. \E x \in {over, Cardinality(idle)} : \A y \in {over, Cardinality(idle)} : x =< y
      BY <1>3, <1>4
    <3>2. Min({over, Cardinality(idle)}) \in {over, Cardinality(idle)}
      BY <3>1 DEF Min
    <3> QED BY <1>1, <1>7, <3>2
  <2>2. E = idle
    BY <1>1, <1>2, <2>1, FS_Subset
  <2>3. \A e \in left : e \in Engines /\ \E q \in Callers \ {r} : kid[q] = e
    BY <1>2, <2>2 DEF Busy, Owed, Waits, Pooled, TypeOK
  <2> DEFINE f == [e \in left |-> CHOOSE q \in Callers \ {r} : kid[q] = e]
  <2>4. f \in Injection(left, Callers \ {r})
    <3>1. \A e \in left : f[e] \in Callers \ {r} /\ kid[f[e]] = e
      BY <2>3
    <3> QED BY <3>1 DEF Injection, IsInjective
  <2>5. /\ IsFiniteSet(Callers \ {r})
        /\ Cardinality(Callers \ {r}) = Cardinality(Callers) - 1
    BY FS_RemoveElement, PoolConstantsAssumption
  <2>6. Cardinality(left) <= Cardinality(Callers) - 1
    BY <2>4, <2>5, FS_Injection
  <2>7. Cardinality(left) \in Nat
    BY <1>2, FS_CardinalityType
  <2> QED BY <2>6, <2>7, BoundIsMax
<1> QED BY <1>6, <1>7

LEMMA OwedKeeps ==
    ASSUME Owed,
           \A e \in Engines : pending'[e] \subseteq pending[e],
           \A r \in Callers, e \in Engines : \A id \in pending'[e] :
               Waits(r, e, id) => Waits(r, e, id)'
    PROVE  Owed'
BY DEF Owed

LEMMA OwedNext == Impatient = {} /\ TypeOK /\ Owed /\ [Next]_vars => Owed'
<1> SUFFICES ASSUME Impatient = {}, TypeOK, Owed, [Next]_vars PROVE Owed'
  OBVIOUS
<1> USE PoolNoneAssumption, PoolConstantsAssumption
<1>1. ASSUME NEW r \in Callers, NEW d \in Dirs, Call(r, d) PROVE Owed'
  BY <1>1, OwedKeeps DEF TypeOK, Call, engineVars, Waits
<1>2. ASSUME NEW r \in Callers, Spawn(r) PROVE Owed'
  <2>1. PICK e \in Engines : /\ \A q \in Callers : kid[q] # e
                             /\ pending' = [pending EXCEPT ![e] = {1}]
                             /\ kid' = [kid EXCEPT ![r] = e]
    BY <1>2 DEF Spawn
  <2>2. /\ pc[r] = "spawn" /\ kid[r] = None /\ rid' = [rid EXCEPT ![r] = 1]
        /\ pc' = [pc EXCEPT ![r] = "handshake"] /\ got' = got
    BY <1>2 DEF Spawn, TypeOK
  <2>3. ~got[r] => Waits(r, e, 1)'
    BY <2>1, <2>2 DEF Waits, TypeOK
  <2>4. \A q \in Callers \ {r}, x \in Engines : \A id \in pending[x] : Waits(q, x, id) => Waits(q, x, id)'
    BY <2>1, <2>2 DEF Waits, TypeOK
  <2>5. \A x \in Engines : \A id \in pending[x] : ~Waits(r, x, id)
    BY <2>2 DEF Waits
  <2>6. ~got[r]
    BY <2>2 DEF TypeOK
  <2>7. \A x \in Engines \ {e} : pending'[x] = pending[x]
    BY <2>1 DEF TypeOK
  <2>8. pending'[e] = {1}
    BY <2>1 DEF TypeOK
  <2> QED BY <2>3, <2>4, <2>5, <2>6, <2>7, <2>8 DEF Owed
<1>3. ASSUME NEW r \in Callers, SpawnFail(r) PROVE Owed'
  BY <1>3, OwedKeeps DEF TypeOK, SpawnFail, Return, engineVars, Waits
<1>4. ASSUME NEW r \in Callers, HandshakeOk(r) PROVE Owed'
  BY <1>4, OwedKeeps DEF TypeOK, HandshakeOk, Return, engineVars, Waits
<1>5. ASSUME NEW r \in Callers, HandshakeFail(r) PROVE Owed'
  BY <1>5, OwedKeeps DEF TypeOK, HandshakeFail, Return, Shutdown, Waits
<1>6. ASSUME NEW r \in Callers, Post(r) PROVE Owed'
  <2>1. PICK id \in 2..MaxId : /\ pending' = [pending EXCEPT ![kid[r]] = @ \union {id}]
                              /\ rid' = [rid EXCEPT ![r] = id]
    BY <1>6 DEF Post
  <2>2. pc[r] = "have" /\ kid[r] \in Engines /\ pc' = [pc EXCEPT ![r] = "post"] /\ UNCHANGED <<kid, got>>
    BY <1>6 DEF Post, TypeOK
  <2>3. \A q \in Callers, x \in Engines : \A n \in pending[x] : Waits(q, x, n) => Waits(q, x, n)'
    BY <2>1, <2>2 DEF Waits, TypeOK
  <2>4. Waits(r, kid[r], id)'
    <3>1. ~got[r]
      BY <2>2 DEF TypeOK
    <3> QED BY <2>1, <2>2, <3>1 DEF Waits, TypeOK
  <2>5. \A x \in Engines : \A n \in pending'[x] : n \in pending[x] \/ (x = kid[r] /\ n = id)
    BY <2>1, <2>2 DEF TypeOK
  <2> QED BY <2>2, <2>3, <2>4, <2>5 DEF Owed
<1>7. ASSUME NEW r \in Callers, WriteOk(r) PROVE Owed'
  BY <1>7, OwedKeeps DEF TypeOK, WriteOk, Waits
<1>8. ASSUME NEW r \in Callers, WriteFail(r) PROVE Owed'
  BY <1>8, OwedKeeps DEF TypeOK, WriteFail, Shutdown, Waits
<1>9. ASSUME NEW r \in Callers, Receive(r) PROVE Owed'
  BY <1>9, OwedKeeps DEF TypeOK, Receive, Return, Waits
<1>10. ASSUME NEW r \in Callers, GiveUp(r) PROVE Owed'
  BY <1>10, OwedKeeps DEF TypeOK, GiveUp, Shutdown, Waits
<1>11. ASSUME NEW r \in Callers, Reuse(r) PROVE Owed'
  BY <1>11, OwedKeeps DEF TypeOK, Reuse, Return, Shutdown, Waits
<1>12. ASSUME NEW r \in Callers, Evict(r) PROVE Owed'
  BY <1>12, OwedKeeps DEF TypeOK, Evict, Shutdown, Waits
<1>13. ASSUME NEW r \in Callers, Reap(r) PROVE Owed'
  BY <1>13, OwedKeeps DEF TypeOK, Reap, Return, engineVars, Waits
<1>14. ASSUME NEW r \in Callers, LockStdin(r) PROVE Owed'
  BY <1>14, OwedKeeps DEF TypeOK, LockStdin, Waits
<1>15. ASSUME NEW r \in Callers, Drop(r) PROVE Owed'
  BY <1>15 DEF Drop
<1>16. ASSUME NEW e \in Engines, NEW id \in asked[e], Answer(e, id) PROVE Owed'
  <2>1. /\ pending' = [pending EXCEPT ![e] = @ \ {id}]
        /\ got' = [r \in Callers |-> got[r] \/ (id \in pending[e] /\ kid[r] = e /\ rid[r] = id)]
        /\ UNCHANGED <<kid, rid, pc>>
    BY <1>16 DEF Answer
  <2>2. ASSUME NEW r \in Callers, NEW x \in Engines, NEW n \in pending'[x], Waits(r, x, n)
        PROVE  Waits(r, x, n)'
    <3>1. ~(kid[r] = e /\ rid[r] = id)
      BY <2>1, <2>2 DEF Waits, TypeOK
    <3> QED BY <2>1, <2>2, <3>1 DEF Waits
  <2>3. \A x \in Engines : pending'[x] \subseteq pending[x]
    BY <2>1 DEF TypeOK
  <2> QED BY <2>2, <2>3, OwedKeeps
<1>17. ASSUME NEW e \in Engines, Exits(e) PROVE Owed'
  BY <1>17, OwedKeeps DEF TypeOK, Exits, engineVars, callVars, Waits
<1>18. ASSUME NEW e \in Engines, Clog(e) PROVE Owed'
  BY <1>18, OwedKeeps DEF TypeOK, Clog, engineVars, callVars, Waits
<1>19. ASSUME NEW e \in Engines, ReaderEof(e) PROVE Owed'
  BY <1>19, OwedKeeps DEF TypeOK, ReaderEof, callVars, Waits
<1>20. CASE Tick
  BY <1>20, OwedKeeps DEF TypeOK, Tick, engineVars, callVars, Waits
<1>21. CASE UNCHANGED vars
  BY <1>21, OwedKeeps DEF TypeOK, vars, engineVars, callVars, Waits
<1> QED BY <1>1, <1>2, <1>3, <1>4, <1>5, <1>6, <1>7, <1>8, <1>9, <1>10, <1>11, <1>12, <1>13,
           <1>14, <1>15, <1>16, <1>17, <1>18, <1>19, <1>20, <1>21
        DEF Next, Proceed, Lock, EngineStep, Crash, Exit, Die

\* Whoever holds the map's lock for a spawn has room for the new engine.
InRoom ==
    /\ Cardinality(Pooled) <= Bound
    /\ lock # None => Cardinality(Pooled) < Bound

LEMMA PoolInit == Init => Owed /\ InRoom
<1> SUFFICES ASSUME Init PROVE Owed /\ InRoom
  OBVIOUS
<1>1. Pooled = {}
  BY DEF Init, Pooled
<1> QED BY <1>1, FS_EmptySet, BoundIsMax DEF Init, Owed, InRoom

LEMMA RoomKeeps ==
    ASSUME TypeOK, TypeOK', InRoom, Pooled' \subseteq Pooled, lock' \in {None, lock}
    PROVE  InRoom'
<1>1. /\ IsFiniteSet(Pooled) /\ IsFiniteSet(Pooled')
      /\ Cardinality(Pooled') <= Cardinality(Pooled)
  BY PooledFinite, FS_Subset
<1>2. Cardinality(Pooled) \in Nat /\ Cardinality(Pooled') \in Nat
  BY <1>1, FS_CardinalityType
<1>3. Bound' = Bound
  BY DEF Bound
<1> QED BY <1>1, <1>2, <1>3, BoundIsMax DEF InRoom

LEMMA RoomNext == TypeOK /\ TypeOK' /\ Owed /\ InRoom /\ [Next]_vars => InRoom'
<1> SUFFICES ASSUME TypeOK, TypeOK', Owed, InRoom, [Next]_vars PROVE InRoom'
  OBVIOUS
<1> USE PoolNoneAssumption, PoolConstantsAssumption
<1>1. ASSUME NEW r \in Callers, HandshakeOk(r) PROVE InRoom'
  <2>1. lock = r /\ lock' = None /\ Pooled' \subseteq Pooled \union {kid[r]}
    BY <1>1 DEF HandshakeOk, Pooled, TypeOK
  <2>2. /\ IsFiniteSet(Pooled) /\ IsFiniteSet(Pooled \union {kid[r]})
        /\ Cardinality(Pooled \union {kid[r]}) <= Cardinality(Pooled) + 1
    <3>1. IsFiniteSet(Pooled) /\ Cardinality(Pooled) \in Nat
      BY PooledFinite, FS_CardinalityType
    <3>2. /\ IsFiniteSet(Pooled \union {kid[r]})
          /\ Cardinality(Pooled \union {kid[r]}) \in {Cardinality(Pooled), Cardinality(Pooled) + 1}
      BY <3>1, FS_AddElement
    <3> QED BY <3>1, <3>2
  <2>3. IsFiniteSet(Pooled') /\ Cardinality(Pooled') <= Cardinality(Pooled \union {kid[r]})
    BY <2>1, <2>2, FS_Subset
  <2>4. /\ Cardinality(Pooled) \in Nat /\ Cardinality(Pooled') \in Nat
        /\ Cardinality(Pooled \union {kid[r]}) \in Nat
    BY <2>2, <2>3, FS_CardinalityType
  <2>5. Bound' = Bound
    BY DEF Bound
  <2> QED BY <2>1, <2>2, <2>3, <2>4, <2>5, BoundIsMax DEF InRoom
<1>2. ASSUME NEW r \in Callers, Evict(r) PROVE InRoom'
  <2>1. PICK E \in SUBSET Pooled : Evictable(E) /\ children' = Without(Swept \union E)
    BY <1>2 DEF Evict
  <2>2. Pooled' = Pooled \ (Swept \union E)
    BY <2>1 DEF Pooled, Without, Swept, TypeOK
  <2>3. Cardinality(Pooled') < Bound
    BY <1>2, <2>1, <2>2, EvictionMakesRoom DEF Evict
  <2>4. Cardinality(Pooled') \in Nat /\ Bound' = Bound
    <3>1. IsFiniteSet(Pooled')
      BY <2>2, PooledFinite, FS_Difference
    <3> QED BY <3>1, FS_CardinalityType DEF Bound
  <2> QED BY <2>3, <2>4, BoundIsMax DEF InRoom
<1>3. ASSUME NEW r \in Callers, Reuse(r) PROVE InRoom'
  BY <1>3, RoomKeeps DEF Reuse, Pooled, Without, TypeOK
<1>4. ASSUME NEW r \in Callers, Reap(r) PROVE InRoom'
  BY <1>4, RoomKeeps DEF Reap, Pooled, TypeOK
<1>5. ASSUME children' = children, lock' \in {None, lock} PROVE InRoom'
  BY <1>5, RoomKeeps DEF Pooled
<1>6. ASSUME NEW r \in Callers, Proceed(r), ~HandshakeOk(r) PROVE InRoom'
  BY <1>5, <1>6 DEF Proceed, Spawn, SpawnFail, HandshakeFail, Post, WriteOk, WriteFail, Receive,
                    GiveUp, poolVars
<1>7. ASSUME NEW r \in Callers, NEW d \in Dirs, Call(r, d) PROVE InRoom'
  BY <1>5, <1>7 DEF Call, poolVars
<1>8. ASSUME NEW r \in Callers, LockStdin(r) \/ Drop(r) PROVE InRoom'
  BY <1>5, <1>8 DEF LockStdin, Drop, poolVars
<1>9. ASSUME NEW e \in Engines, EngineStep(e) PROVE InRoom'
  BY <1>5, <1>9 DEF EngineStep, Answer, Crash, Clog, Exit, Die, Exits, ReaderEof, poolVars
<1>10. CASE Tick \/ UNCHANGED vars
  BY <1>5, <1>10 DEF Tick, vars, poolVars
<1> QED BY <1>1, <1>2, <1>3, <1>4, <1>6, <1>7, <1>8, <1>9, <1>10 DEF Next, Lock

\* While no future is dropped, the pool exceeds its capacity only by what is in
\* use: an engine that could not be evicted has a caller of its own.
THEOREM PoolStaysBounded == ASSUME Impatient = {} PROVE Spec => []PoolBounded
<1>1. (TypeOK /\ Owed /\ InRoom) /\ [Next]_vars => (TypeOK /\ Owed /\ InRoom)'
  BY TypeNext, OwedNext, RoomNext
<1>2. InRoom => PoolBounded
  BY DEF InRoom, PoolBounded, Bound
<1> QED BY <1>1, <1>2, TypeInit, PoolInit, PTL DEF Spec

-----------------------------------------------------------------------------
(* Every sweep of the map reaps the engines that have been idle for long.      *)

\* Only its own lookup of the map takes a caller on.
LEMMA EntersAlone ==
    ASSUME TypeOK, [Next]_vars, NEW r \in Callers, pc[r] = "enter", pc'[r] \in {"have", "spawn"}
    PROVE  Reuse(r) \/ Evict(r)
<1>1. pc'[r] # pc[r]
  OBVIOUS
<1>2. ASSUME NEW q \in Callers, NEW d \in Dirs, Call(q, d) PROVE FALSE
  BY <1>1, <1>2 DEF Call, TypeOK
<1>3. ASSUME NEW q \in Callers, Proceed(q) PROVE FALSE
  <2>1. q # r => pc'[r] = pc[r]
    BY <1>3 DEF Proceed, Spawn, SpawnFail, HandshakeOk, HandshakeFail, Post, WriteOk, WriteFail,
                Receive, GiveUp, Return, TypeOK
  <2>2. pc[q] # "enter"
    BY <1>3 DEF Proceed, Spawn, SpawnFail, HandshakeOk, HandshakeFail, Post, WriteOk, WriteFail,
                Receive, GiveUp
  <2> QED BY <1>1, <2>1, <2>2
<1>4. ASSUME NEW q \in Callers, Lock(q) PROVE Reuse(r) \/ Evict(r)
  <2>1. q # r => pc'[r] = pc[r]
    BY <1>4 DEF Lock, Reuse, Evict, Reap, Return, TypeOK
  <2>2. ~Reap(r)
    BY DEF Reap
  <2> QED BY <1>1, <1>4, <2>1, <2>2 DEF Lock
<1>5. ASSUME NEW q \in Callers, LockStdin(q) \/ Drop(q) PROVE FALSE
  <2>1. q # r
    BY <1>1, <1>5 DEF LockStdin, Drop, Return, TypeOK
  <2> QED BY <1>1, <1>5, <2>1 DEF LockStdin, Drop, Return, TypeOK
<1>6. ASSUME NEW e \in Engines, EngineStep(e) PROVE FALSE
  BY <1>1, <1>6 DEF EngineStep, Answer, Crash, Clog, Exit, Die, Exits, ReaderEof, callVars
<1>7. CASE Tick \/ UNCHANGED vars
  BY <1>1, <1>7 DEF Tick, vars, callVars
<1> QED BY <1>2, <1>3, <1>4, <1>5, <1>6, <1>7 DEF Next

\* An engine that looks busy without a caller is still in its handshake, and so
\* the map is locked.
LEMMA IdleIsStale ==
    ASSUME TypeOK, Owed, lock = None, NEW e \in Pooled, lastUsed[e] + IdleReap <= clock, ~InUse(e)
    PROVE  e \in Swept
<1>1. e \in Engines
  BY DEF Pooled, TypeOK
<1>2. ASSUME NEW id \in pending[e] PROVE FALSE
  <2>1. PICK q \in Callers : Waits(q, e, id)
    BY <1>1 DEF Owed
  <2>2. pc[q] # "handshake"
    BY PoolNoneAssumption DEF TypeOK
  <2> QED BY <2>1, <2>2 DEF Waits, InUse, Converting
<1> QED BY <1>2 DEF Swept, Stale, Busy

\* No engine that sat idle for idle_reap_secs survives a lookup, whichever
\* session it is for, as long as no future is dropped: replies that nobody waits
\* for never make an engine look busy.
THEOREM IdleEnginesGo == ASSUME Impatient = {} PROVE Spec => IdleReaped
<1> DEFINE Reaps == \A r \in Callers : pc[r] = "enter" /\ pc'[r] \in {"have", "spawn"} =>
                       \A e \in Pooled : lastUsed[e] + IdleReap <= clock /\ ~InUse(e) =>
                           \A d \in Dirs : children'[d] # e
<1>1. TypeOK /\ Owed /\ [Next]_vars => Reaps
  <2> SUFFICES ASSUME TypeOK, Owed, [Next]_vars, NEW r \in Callers,
                      pc[r] = "enter", pc'[r] \in {"have", "spawn"},
                      NEW e \in Pooled, lastUsed[e] + IdleReap <= clock, ~InUse(e), NEW d \in Dirs
               PROVE  children'[d] # e
    OBVIOUS
  <2>1. Reuse(r) \/ Evict(r)
    BY EntersAlone
  <2>2. e \in Swept
    BY <2>1, IdleIsStale DEF Reuse, Evict
  <2>3. \E E \in SUBSET Engines : Swept \subseteq E /\ children' = Without(E)
    <3>1. Swept \in SUBSET Engines /\ Pooled \in SUBSET Engines
      BY DEF Swept, Pooled, TypeOK
    <3>2. CASE Reuse(r)
      BY <3>1, <3>2 DEF Reuse
    <3>3. CASE Evict(r)
      <4>1. PICK E \in SUBSET Pooled : children' = Without(Swept \union E)
        BY <3>3 DEF Evict
      <4> QED BY <3>1, <4>1
    <3> QED BY <2>1, <3>2, <3>3
  <2>4. e # None
    BY DEF Pooled
  <2> QED BY <2>2, <2>3, <2>4 DEF Without
<1>2. TypeOK /\ Owed /\ [Next]_vars => (TypeOK /\ Owed)'
  BY TypeNext, OwedNext
<1>3. Init => TypeOK /\ Owed
  BY TypeInit, PoolInit
<1>4. TypeOK /\ Owed /\ [Next]_vars => [Reaps]_vars
  BY <1>1
<1> QED BY <1>2, <1>3, <1>4, PTL DEF Spec, IdleReaped
=============================================================================
