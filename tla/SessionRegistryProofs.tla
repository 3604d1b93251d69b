----------------------- MODULE SessionRegistryProofs -----------------------
(***************************************************************************)
(* What SessionRegistry guarantees for all users, slots, caps, timeouts    *)
(* and numbers of tasks.                                                   *)
(***************************************************************************)
EXTENDS SessionRegistry, SequenceTheorems, TLAPS

-----------------------------------------------------------------------------
(* Lemmas about the per-user queues.                                       *)

\* VecDeque::retain in bump_to_mru_back and gc_once: dropping position k of a
\* queue keeps the others, in order.
LEMMA RemoveAtFacts ==
    ASSUME NEW q \in Seq(Tokens), NEW k \in 1..Len(q)
    PROVE  /\ RemoveAt(q, k) \in Seq(Tokens)
           /\ Len(RemoveAt(q, k)) = Len(q) - 1
           /\ \A i \in 1..Len(q) - 1 :
                 RemoveAt(q, k)[i] = (IF i < k THEN q[i] ELSE q[i + 1])
<1> DEFINE a == SubSeq(q, 1, k - 1)
           b == SubSeq(q, k + 1, Len(q))
<1>1. a \in Seq(Tokens) /\ Len(a) = k - 1 /\ \A i \in 1..k-1 : a[i] = q[i]
  OBVIOUS
<1>2. b \in Seq(Tokens) /\ Len(b) = Len(q) - k /\ \A i \in 1..Len(q)-k : b[i] = q[k + i]
  OBVIOUS
<1>3. RemoveAt(q, k) = a \o b
  BY DEF RemoveAt
<1> HIDE DEF a, b
<1>4. Len(a \o b) = Len(q) - 1 /\ a \o b \in Seq(Tokens)
  <2>1. Len(a \o b) = Len(a) + Len(b) /\ a \o b \in Seq(Tokens)
    BY <1>1, <1>2, ConcatProperties
  <2> QED BY <2>1, <1>1, <1>2
<1>5. \A i \in 1..Len(q) - 1 : (a \o b)[i] = (IF i < k THEN q[i] ELSE q[i + 1])
  BY <1>1, <1>2
<1> QED BY <1>3, <1>4, <1>5

\* Without(q, id) lists what q listed, but id.
LEMMA WithoutFacts ==
    ASSUME NEW q \in Seq(Tokens), NEW S, Lists(q, S), NEW id
    PROVE  /\ Without(q, id) \in Seq(Tokens)
           /\ Lists(Without(q, id), S \ {id})
           /\ Len(Without(q, id)) <= Len(q)
           /\ id \in S => Len(Without(q, id)) = Len(q) - 1
<1>1. CASE \E i \in 1..Len(q) : q[i] = id
  <2>1. PICK k \in 1..Len(q) : q[k] = id /\ Without(q, id) = RemoveAt(q, k)
    BY <1>1 DEF Without
  <2> DEFINE w == RemoveAt(q, k)
  <2>2. /\ w \in Seq(Tokens) /\ Len(w) = Len(q) - 1
        /\ \A i \in 1..Len(q) - 1 : w[i] = (IF i < k THEN q[i] ELSE q[i + 1])
    BY RemoveAtFacts
  <2> HIDE DEF w
  <2>3. \A i \in 1..Len(w) : w[i] \in S \ {id}
    BY <2>1, <2>2 DEF Lists
  <2>4. \A i, j \in 1..Len(w) : w[i] = w[j] => i = j
    BY <2>1, <2>2 DEF Lists
  <2>5. ASSUME NEW t \in S \ {id} PROVE \E i \in 1..Len(w) : w[i] = t
    <3>1. PICK j \in 1..Len(q) : q[j] = t
      BY DEF Lists
    <3>2. CASE j < k
      BY <3>1, <3>2, <2>2
    <3>3. CASE j > k
      <4>1. j - 1 \in 1..Len(w) /\ w[j - 1] = q[j]
        BY <3>3, <2>2
      <4> QED BY <4>1, <3>1
    <3>4. j # k
      BY <2>1, <3>1
    <3> QED BY <3>2, <3>3, <3>4
  <2>6. Lists(w, S \ {id})
    BY <2>3, <2>4, <2>5 DEF Lists
  <2> QED BY <2>1, <2>2, <2>6 DEF w
<1>2. CASE ~ \E i \in 1..Len(q) : q[i] = id
  <2>1. Without(q, id) = q /\ id \notin S
    BY <1>2 DEF Without, Lists
  <2> QED BY <2>1 DEF Lists
<1> QED BY <1>1, <1>2

\* push_back of an id that is not in the queue.
LEMMA AppendFacts ==
    ASSUME NEW q \in Seq(Tokens), NEW S, Lists(q, S), NEW t \in Tokens, t \notin S
    PROVE  /\ Append(q, t) \in Seq(Tokens)
           /\ Lists(Append(q, t), S \union {t})
           /\ Len(Append(q, t)) = Len(q) + 1
<1> DEFINE a == Append(q, t)
<1>1. /\ a \in Seq(Tokens) /\ Len(a) = Len(q) + 1
      /\ a[Len(q) + 1] = t /\ \A i \in 1..Len(q) : a[i] = q[i]
  OBVIOUS
<1> HIDE DEF a
<1>2. \A i \in 1..Len(a) : a[i] \in S \union {t}
  BY <1>1 DEF Lists
<1>3. \A i, j \in 1..Len(a) : a[i] = a[j] => i = j
  BY <1>1 DEF Lists
<1>4. ASSUME NEW x \in S \union {t} PROVE \E i \in 1..Len(a) : a[i] = x
  <2>1. CASE x = t
    BY <2>1, <1>1
  <2>2. CASE x \in S
    <3>1. PICK i \in 1..Len(q) : q[i] = x
      BY <2>2 DEF Lists
    <3> QED BY <3>1, <1>1
  <2> QED BY <2>1, <2>2
<1>5. Lists(a, S \union {t})
  BY <1>2, <1>3, <1>4 DEF Lists
<1> QED BY <1>1, <1>5 DEF a

\* enforce_per_user_cap leaves room for one more, and pops each id once.
LEMMA KeptFacts ==
    ASSUME NEW q \in Seq(Tokens), NEW S, Lists(q, S)
    PROVE  /\ Kept(q) \in Seq(Tokens)
           /\ Lists(Kept(q), S \ Evicted(q))
           /\ Evicted(q) \subseteq S
           /\ Len(Kept(q)) + 1 <= (IF Cap = 0 THEN 1 ELSE Cap)
<1> USE NatAssumption
<1> DEFINE n == Surplus(q)
           r == Kept(q)
<1>1. n \in 0..Len(q)
  BY DEF Surplus
<1>2. /\ r \in Seq(Tokens) /\ Len(r) = Len(q) - n
      /\ \A i \in 1..Len(q) - n : r[i] = q[n + i]
  BY <1>1 DEF Kept
<1>3. Len(q) - n + 1 <= (IF Cap = 0 THEN 1 ELSE Cap)
  <2>1. Len(q) \in Nat /\ Cap \in Nat
    OBVIOUS
  <2>2. CASE Len(q) < Cap
    <3>1. n = 0
      BY <2>2 DEF Surplus
    <3> QED BY <3>1, <2>1, <2>2
  <2>3. CASE ~(Len(q) < Cap)
    <3>1. n = (IF Cap = 0 THEN Len(q) ELSE Len(q) - Cap + 1)
      BY <2>3 DEF Surplus
    <3> HIDE DEF n
    <3> QED BY <3>1, <2>1, <2>3
  <2> QED BY <2>2, <2>3
<1>4. Evicted(q) = {q[i] : i \in 1..n}
  BY DEF Evicted
<1> HIDE DEF n, r
<1>5. \A i \in 1..Len(r) : r[i] \in S \ Evicted(q)
  <2> TAKE i \in 1..Len(r)
  <2>1. n + i \in 1..Len(q) /\ r[i] = q[n + i]
    BY <1>1, <1>2
  <2>2. \A j \in 1..n : q[j] # q[n + i]
    BY <2>1, <1>1 DEF Lists
  <2> QED BY <2>1, <2>2, <1>4 DEF Lists
<1>6. \A i, j \in 1..Len(r) : r[i] = r[j] => i = j
  BY <1>1, <1>2 DEF Lists
<1>7. ASSUME NEW t \in S \ Evicted(q) PROVE \E i \in 1..Len(r) : r[i] = t
  <2>1. PICK j \in 1..Len(q) : q[j] = t
    BY DEF Lists
  <2>2. j \notin 1..n
    BY <2>1, <1>4
  <2>3. j - n \in 1..Len(r) /\ r[j - n] = q[j]
    BY <2>2, <1>1, <1>2
  <2> QED BY <2>1, <2>3
<1>8. Lists(r, S \ Evicted(q))
  BY <1>5, <1>6, <1>7 DEF Lists
<1>9. Evicted(q) \subseteq S
  BY <1>1, <1>4 DEF Lists
<1> QED BY <1>2, <1>3, <1>8, <1>9 DEF r

-----------------------------------------------------------------------------
(* The index invariant: type correctness, agreement of the three maps, the *)
(* cap, and what makes them inductive.                                     *)

\* The steps that leave the registry alone preserve the agreement of its maps.
LEMMA IndicesStutter ==
    ASSUME IndexInv, UNCHANGED <<registryVars, owner>>
    PROVE  IndicesAgree' /\ PerUserCap'
<1>1. \A u \in Users : SessionsOf(u)' = SessionsOf(u)
  BY DEF SessionsOf, registryVars
<1>2. SlotExact'
  BY DEF IndexInv, IndicesAgree, SlotExact, registryVars
<1>3. QueueExact'
  BY <1>1 DEF IndexInv, IndicesAgree, QueueExact, registryVars
<1>4. PerUserCap'
  BY DEF IndexInv, PerUserCap, registryVars
<1> QED BY <1>2, <1>3, <1>4 DEF IndicesAgree

LEMMA IndexInit == Init => IndexInv
<1> SUFFICES ASSUME Init PROVE IndexInv
  OBVIOUS
<1> USE NoneAssumption, GcAssumption, NatAssumption
<1>1. TypeOK
  <2>1. byUser \in [Users -> Seq(Tokens)]
    BY DEF Init
  <2>2. /\ pc \in [Procs -> CreatorPlaces \union GcPlaces]
        /\ \A c \in Creators : pc[c] \in CreatorPlaces
        /\ pc[Gc] \in GcPlaces
    BY DEF Init, CreatorPlaces, GcPlaces, Procs
  <2> QED BY <2>1, <2>2 DEF Init, TypeOK, HandlerPlaces
<1>2. SlotExact
  BY DEF Init, SlotExact
<1>3. QueueExact
  BY DEF Init, QueueExact, Lists, SessionsOf
<1>4. PerUserCap
  BY DEF Init, PerUserCap
<1>5. PendingOwned
  BY DEF Init, PendingOwned, Opening, Pending, Procs
<1>6. StaleLive
  BY DEF Init, StaleLive
<1> QED BY <1>1, <1>2, <1>3, <1>4, <1>5, <1>6 DEF IndexInv, IndicesAgree

\* The fast path of lookup_or_create.
LEMMA IndexOpenExisting ==
    ASSUME IndexInv, NEW c \in Creators, NEW k \in Keys, OpenExisting(c, k)
    PROVE  IndexInv'
<1> USE DEF IndexInv
<1> DEFINE u == k[1]
           t == bySlot[k]
           w == Without(byUser[u], t)
<1>1. u \in Users /\ t \in Tokens /\ t \in byId /\ owner[t] = k
  BY NoneAssumption DEF OpenExisting, Found, IndicesAgree, SlotExact, Keys, TypeOK
<1>2. byUser' = [byUser EXCEPT ![u] = Append(w, t)]
  BY DEF OpenExisting
<1>3. byUser[u] \in Seq(Tokens) /\ Lists(byUser[u], SessionsOf(u)) /\ t \in SessionsOf(u)
  BY <1>1 DEF TypeOK, IndicesAgree, QueueExact, SessionsOf
<1> HIDE DEF u, t, w
<1>4. /\ w \in Seq(Tokens) /\ Lists(w, SessionsOf(u) \ {t})
      /\ Len(w) = Len(byUser[u]) - 1
  BY <1>3, WithoutFacts DEF w
<1>5. /\ Append(w, t) \in Seq(Tokens)
      /\ Lists(Append(w, t), (SessionsOf(u) \ {t}) \union {t})
      /\ Len(Append(w, t)) = Len(w) + 1
  BY <1>1, <1>4, AppendFacts
<1>6. (SessionsOf(u) \ {t}) \union {t} = SessionsOf(u) /\ Len(Append(w, t)) = Len(byUser[u])
  BY <1>3, <1>4, <1>5
<1>7. TypeOK'
  <2>1. byUser' \in [Users -> Seq(Tokens)]
    BY <1>2, <1>5 DEF TypeOK
  <2>2. lastActivity' \in [Tokens -> Nat]
    BY DEF OpenExisting, TypeOK
  <2> QED BY <2>1, <2>2
       DEF OpenExisting, TypeOK, diskVars, taskVars, handlerVars, envVars
<1>8. SlotExact'
  BY DEF OpenExisting, IndicesAgree, SlotExact
<1>9. QueueExact'
  <2>1. \A v \in Users : SessionsOf(v)' = SessionsOf(v)
    BY DEF OpenExisting, SessionsOf
  <2>2. \A v \in Users : Lists(byUser'[v], SessionsOf(v))
    BY <1>1, <1>2, <1>5, <1>6 DEF IndicesAgree, QueueExact, TypeOK
  <2> QED BY <2>1, <2>2 DEF QueueExact
<1>10. PerUserCap'
  BY <1>1, <1>2, <1>6 DEF PerUserCap, TypeOK
<1>11. PendingOwned' /\ StaleLive'
  BY DEF OpenExisting, PendingOwned, StaleLive, Opening, Pending, Locked, taskVars
<1> QED BY <1>7, <1>8, <1>9, <1>10, <1>11 DEF IndicesAgree

\* Minting: the token is nobody's yet, so no map can mention it.
LEMMA IndexCreateDir ==
    ASSUME IndexInv, NEW c \in Creators, CreateDir(c)
    PROVE  IndexInv'
<1> USE DEF IndexInv
<1>1. PICK t \in Tokens :
        /\ owner[t] = None
        /\ owner' = [owner EXCEPT ![t] = want[c]]
        /\ tok' = [tok EXCEPT ![c] = t]
        /\ dirs' = dirs \union {t}
        /\ mtime' = [mtime EXCEPT ![t] = clock]
  BY DEF CreateDir
<1>2. want[c] \in Keys
  BY DEF CreateDir, PendingOwned, Opening
<1>3. t \notin byId
  BY <1>1, NoneAssumption DEF IndicesAgree, SlotExact
<1>4. c \in Procs /\ c # Gc
  BY GcAssumption DEF Procs
<1>5. TypeOK'
  <2>1. owner' \in [Tokens -> Keys \union {None}] /\ tok' \in [Creators -> Tokens \union {None}]
    BY <1>1, <1>2 DEF TypeOK
  <2>2. dirs' \subseteq Tokens /\ mtime' \in [Tokens -> Nat]
    BY <1>1 DEF TypeOK
  <2>3. /\ pc' \in [Procs -> CreatorPlaces \union GcPlaces]
        /\ \A d \in Creators : pc'[d] \in CreatorPlaces
        /\ pc'[Gc] \in GcPlaces
    BY <1>4 DEF TypeOK, CreateDir, CreatorPlaces, Procs
  <2> QED BY <2>1, <2>2, <2>3 DEF TypeOK, CreateDir, registryVars, handlerVars, envVars
<1>6. \A x \in byId : owner'[x] = owner[x]
  BY <1>1, <1>3 DEF TypeOK
<1>7. SlotExact'
  BY <1>6, NoneAssumption DEF IndicesAgree, SlotExact, CreateDir, registryVars
<1>8. QueueExact'
  <2>1. \A v \in Users : SessionsOf(v)' = SessionsOf(v)
    BY <1>6 DEF SessionsOf, CreateDir, registryVars
  <2> QED BY <2>1 DEF IndicesAgree, QueueExact, CreateDir, registryVars
<1>9. PerUserCap'
  BY DEF PerUserCap, CreateDir, registryVars
<1>10. PendingOwned'
  <2>1. \A d \in Creators : Opening(d)' => want'[d] \in Keys
    BY <1>2, <1>4 DEF PendingOwned, CreateDir, Opening, TypeOK
  <2>2. \A d \in Creators : d # c /\ Pending(d)' =>
           Pending(d) /\ tok'[d] = tok[d] /\ tok[d] # t /\ owner'[tok[d]] = owner[tok[d]]
    BY <1>1, <1>4, NoneAssumption
       DEF PendingOwned, CreateDir, Pending, Opening, TypeOK
  <2>3. tok'[c] = t /\ owner'[t] = want[c] /\ byId' = byId /\ want' = want
    BY <1>1 DEF CreateDir, TypeOK, registryVars
  <2> QED BY <2>1, <2>2, <2>3, <1>3 DEF PendingOwned
<1>11. StaleLive'
  BY <1>4 DEF StaleLive, CreateDir, Locked, registryVars, TypeOK
<1> QED BY <1>5, <1>7, <1>8, <1>9, <1>10, <1>11 DEF IndicesAgree

\* The other steps of lookup_or_create that leave the registry alone.
LEMMA IndexOpenSteps ==
    ASSUME IndexInv, NEW c \in Creators,
           \/ \E k \in Keys : OpenMissing(c, k)
           \/ SeedOk(c) \/ SeedFail(c) \/ LoseRace(c) \/ DropOwnDir(c) \/ AbandonOpen(c)
    PROVE  IndexInv'
<1> USE DEF IndexInv
<1> USE GcAssumption
<1>1. c \in Procs /\ c # Gc
  BY DEF Procs
<1>2. IndicesAgree' /\ PerUserCap'
  BY IndicesStutter
     DEF OpenMissing, SeedOk, SeedFail, LoseRace, DropOwnDir, AbandonOpen, registryVars
<1>3. CASE \E k \in Keys : OpenMissing(c, k)
  <2>1. TypeOK'
    BY <1>1, <1>3 DEF TypeOK, OpenMissing, CreatorPlaces, Procs,
                      registryVars, diskVars, handlerVars, envVars
  <2>2. PendingOwned'
    BY <1>1, <1>3 DEF TypeOK, OpenMissing, PendingOwned, Opening, Pending, registryVars
  <2>3. StaleLive'
    BY <1>1, <1>3 DEF TypeOK, OpenMissing, StaleLive, Locked, registryVars
  <2> QED BY <1>2, <2>1, <2>2, <2>3
<1>4. CASE SeedOk(c)
  <2>1. TypeOK'
    BY <1>1, <1>4 DEF TypeOK, SeedOk, CreatorPlaces, Procs, registryVars, handlerVars, envVars
  <2>2. PendingOwned'
    BY <1>1, <1>4 DEF TypeOK, SeedOk, PendingOwned, Opening, Pending, registryVars
  <2>3. StaleLive'
    BY <1>1, <1>4 DEF TypeOK, SeedOk, StaleLive, Locked, registryVars
  <2> QED BY <1>2, <2>1, <2>2, <2>3
<1>5. CASE SeedFail(c) \/ DropOwnDir(c)
  <2> DEFINE t == tok[c]
  <2>1. /\ dirs' = dirs \ {t} /\ mtime' = [mtime EXCEPT ![t] = 0]
        /\ pc' = [pc EXCEPT ![c] = "idle"]
        /\ tok' = [tok EXCEPT ![c] = None]
        /\ want' = [want EXCEPT ![c] = None]
        /\ UNCHANGED <<registryVars, owner, lastActivity, live, asOf, todo, stale, gcTicks,
                       handlerVars, envVars>>
    BY <1>5 DEF SeedFail, DropOwnDir, RemoveDirAll
  <2> HIDE DEF t
  <2>2. TypeOK'
    <3>1. dirs' \subseteq Tokens /\ mtime' \in [Tokens -> Nat]
      BY <2>1 DEF TypeOK
    <3>2. /\ pc' \in [Procs -> CreatorPlaces \union GcPlaces]
          /\ \A d \in Creators : pc'[d] \in CreatorPlaces
          /\ pc'[Gc] \in GcPlaces
      BY <1>1, <2>1 DEF TypeOK, CreatorPlaces, Procs
    <3> QED BY <2>1, <3>1, <3>2 DEF TypeOK, registryVars, handlerVars, envVars
  <2>3. PendingOwned'
    <3>1. \A d \in Creators : pc'[d] = IF d = c THEN "idle" ELSE pc[d]
      BY <1>1, <2>1 DEF TypeOK, Procs
    <3>2. \A d \in Creators : d # c => tok'[d] = tok[d] /\ want'[d] = want[d]
      BY <2>1 DEF TypeOK
    <3> QED BY <2>1, <3>1, <3>2 DEF PendingOwned, Opening, Pending, registryVars
  <2>4. StaleLive'
    BY <1>1, <2>1 DEF TypeOK, StaleLive, Locked, registryVars
  <2> QED BY <1>2, <2>2, <2>3, <2>4
<1>6. CASE LoseRace(c)
  <2>1. TypeOK'
    BY <1>1, <1>6 DEF TypeOK, LoseRace, CreatorPlaces, Procs,
                      registryVars, diskVars, handlerVars, envVars
  <2>2. PendingOwned'
    BY <1>1, <1>6 DEF TypeOK, LoseRace, PendingOwned, Opening, Pending, registryVars
  <2>3. StaleLive'
    BY <1>1, <1>6 DEF TypeOK, LoseRace, StaleLive, Locked, registryVars
  <2> QED BY <1>2, <2>1, <2>2, <2>3
<1>7. CASE AbandonOpen(c)
  <2>1. TypeOK'
    BY <1>1, <1>7 DEF TypeOK, AbandonOpen, CreatorPlaces, Procs,
                      registryVars, diskVars, handlerVars, envVars
  <2>2. PendingOwned'
    BY <1>1, <1>7 DEF TypeOK, AbandonOpen, PendingOwned, Opening, Pending, registryVars
  <2>3. StaleLive'
    BY <1>1, <1>7 DEF TypeOK, AbandonOpen, StaleLive, Locked, registryVars
  <2> QED BY <1>2, <2>1, <2>2, <2>3
<1> QED BY <1>3, <1>4, <1>5, <1>6, <1>7

\* sweep_orphans, whoever runs it.
LEMMA IndexSweep ==
    ASSUME IndexInv, NEW p \in Procs, SweepStep(p)
    PROVE  IndexInv'
<1> USE DEF IndexInv
<1> USE GcAssumption
<1>1. IndicesAgree' /\ PerUserCap'
  BY IndicesStutter
     DEF SweepStep, SweepSnapshot, SweepScan, RemoveDir, RemoveDone, registryVars
<1>2. CASE SweepSnapshot(p)
  <2>1. TypeOK'
    BY <1>2 DEF TypeOK, SweepSnapshot, CreatorPlaces, GcPlaces, Procs,
                registryVars, diskVars, handlerVars, envVars
  <2>2. PendingOwned'
    BY <1>2 DEF TypeOK, SweepSnapshot, PendingOwned, Opening, Pending, registryVars
  <2>3. StaleLive'
    BY <1>2 DEF TypeOK, SweepSnapshot, StaleLive, Locked, registryVars
  <2> QED BY <1>1, <2>1, <2>2, <2>3
<1>3. CASE SweepScan(p)
  <2>1. TypeOK'
    BY <1>3 DEF TypeOK, SweepScan, CreatorPlaces, GcPlaces, Procs,
                registryVars, diskVars, handlerVars, envVars
  <2>2. PendingOwned'
    BY <1>3 DEF TypeOK, SweepScan, PendingOwned, Opening, Pending, registryVars
  <2>3. StaleLive'
    BY <1>3 DEF TypeOK, SweepScan, StaleLive, Locked, registryVars
  <2> QED BY <1>1, <2>1, <2>2, <2>3
<1>4. CASE \E t \in todo[p] : RemoveDir(p, t)
  <2>1. TypeOK'
    <3>1. PICK t \in todo[p] : RemoveDir(p, t)
      BY <1>4
    <3>2. dirs' \subseteq Tokens /\ mtime' \in [Tokens -> Nat]
      BY <3>1 DEF TypeOK, RemoveDir, RemoveDirAll, diskVars
    <3>3. todo' \in [Procs -> SUBSET Tokens]
      BY <3>1 DEF TypeOK, RemoveDir
    <3> QED BY <3>1, <3>2, <3>3 DEF TypeOK, RemoveDir, registryVars, handlerVars, envVars
  <2>2. PendingOwned' /\ StaleLive'
    BY <1>4 DEF RemoveDir, PendingOwned, Opening, Pending, StaleLive, Locked, registryVars
  <2> QED BY <1>1, <2>1, <2>2
<1>5. CASE RemoveDone(p)
  <2>1. TypeOK'
    BY <1>5 DEF TypeOK, RemoveDone, CreatorPlaces, GcPlaces, Procs,
                registryVars, diskVars, handlerVars
  <2>2. PendingOwned'
    BY <1>5 DEF TypeOK, RemoveDone, PendingOwned, Opening, Pending, registryVars, Procs
  <2>3. StaleLive'
    BY <1>5 DEF TypeOK, RemoveDone, StaleLive, Locked, registryVars, Procs
  <2> QED BY <1>1, <2>1, <2>2, <2>3
<1> QED BY <1>2, <1>3, <1>4, <1>5 DEF SweepStep

\* Register: the queue is cut below the cap, the evicted leave all three maps,
\* and the new session, whose slot names nothing, enters them.
LEMMA IndexRegister ==
    ASSUME IndexInv, NEW c \in Creators, Register(c)
    PROVE  IndexInv'
<1> USE DEF IndexInv
<1> USE GcAssumption
<1> DEFINE t   == tok[c]
           k   == want[c]
           u   == want[c][1]
           q   == byUser[u]
           out == Evicted(q)
<1>1. /\ c \in Procs /\ c # Gc /\ pc[c] = "insert"
      /\ k \in Keys /\ u \in Users /\ t \in Tokens /\ t \notin byId /\ owner[t] = k
  BY DEF Procs, Register, PendingOwned, Opening, Pending, Keys
<1>2. q \in Seq(Tokens) /\ Lists(q, SessionsOf(u))
  BY <1>1 DEF TypeOK, IndicesAgree, QueueExact
<1>3. /\ Kept(q) \in Seq(Tokens) /\ Lists(Kept(q), SessionsOf(u) \ out)
      /\ out \subseteq SessionsOf(u)
      /\ Len(Kept(q)) + 1 <= (IF Cap = 0 THEN 1 ELSE Cap)
  BY <1>2, KeptFacts
<1>4. out \subseteq byId /\ out \intersect byId = out
  BY <1>3 DEF SessionsOf
<1>5. /\ byId' = (byId \ out) \union {t}
      /\ bySlot' = [ForgetSlots(out) EXCEPT ![k] = t]
      /\ byUser' = [byUser EXCEPT ![u] = Append(Kept(q), t)]
      /\ todo' = [todo EXCEPT ![c] = out]
      /\ pc' = [pc EXCEPT ![c] = "remove"]
      /\ tok' = [tok EXCEPT ![c] = None]
      /\ want' = [want EXCEPT ![c] = None]
      /\ UNCHANGED <<owner, lastActivity, diskVars, live, asOf, stale, gcTicks, handlerVars,
                     envVars>>
      /\ bySlot[k] = None \/ bySlot[k] \notin byId
      /\ ~Locked
  BY <1>4 DEF Register, Found
<1> HIDE DEF t, k, u, q, out
<1>6. bySlot[k] = None
  BY <1>1, <1>5 DEF IndicesAgree, SlotExact
<1>7. /\ Append(Kept(q), t) \in Seq(Tokens)
      /\ Lists(Append(Kept(q), t), (SessionsOf(u) \ out) \union {t})
      /\ Len(Append(Kept(q), t)) = Len(Kept(q)) + 1
  <2>1. t \notin SessionsOf(u) \ out
    BY <1>1 DEF SessionsOf
  <2> QED BY <1>1, <1>3, <2>1, AppendFacts
<1>8. u = k[1]
  BY DEF u, k
<1>9. TypeOK'
  <2>1. byId' \subseteq Tokens /\ todo' \in [Procs -> SUBSET Tokens]
    BY <1>1, <1>4, <1>5 DEF TypeOK
  <2>2. bySlot' \in [Keys -> Tokens \union {None}]
    BY <1>1, <1>5 DEF TypeOK, ForgetSlots
  <2>3. byUser' \in [Users -> Seq(Tokens)]
    BY <1>5, <1>7 DEF TypeOK
  <2>4. /\ pc' \in [Procs -> CreatorPlaces \union GcPlaces]
        /\ \A d \in Creators : pc'[d] \in CreatorPlaces
        /\ pc'[Gc] \in GcPlaces
    BY <1>1, <1>5 DEF TypeOK, CreatorPlaces, Procs
  <2> QED BY <1>5, <2>1, <2>2, <2>3, <2>4 DEF TypeOK, diskVars, handlerVars, envVars
<1>10. SlotExact'
  <2>1. \A e \in Keys :
           bySlot'[e] = IF e = k THEN t
                        ELSE IF \E x \in out : owner[x] = e THEN None ELSE bySlot[e]
    BY <1>1, <1>5 DEF ForgetSlots
  <2>2. ASSUME NEW x \in byId' PROVE owner'[x] \in Keys /\ bySlot'[owner'[x]] = x
    <3>1. CASE x = t
      BY <1>1, <1>5, <2>1, <3>1
    <3>2. CASE x # t
      <4>1. x \in byId /\ x \notin out /\ owner'[x] = owner[x]
        BY <1>5, <3>2
      <4>2. owner[x] \in Keys /\ bySlot[owner[x]] = x
        BY <4>1 DEF IndicesAgree, SlotExact
      <4>3. owner[x] # k
        BY <4>2, <4>1, <1>6, NoneAssumption DEF TypeOK
      <4>4. \A y \in out : owner[y] # owner[x]
        BY <4>1, <4>2, <1>4 DEF IndicesAgree, SlotExact
      <4> QED BY <2>1, <4>1, <4>2, <4>3, <4>4
    <3> QED BY <3>1, <3>2
  <2>3. ASSUME NEW e \in Keys, bySlot'[e] # None
        PROVE  bySlot'[e] \in byId' /\ owner'[bySlot'[e]] = e
    <3>1. CASE e = k
      BY <1>1, <1>5, <2>1, <3>1
    <3>2. CASE e # k
      <4>1. bySlot'[e] = bySlot[e] /\ ~\E x \in out : owner[x] = e
        BY <2>1, <2>3, <3>2
      <4>2. bySlot[e] \in byId /\ owner[bySlot[e]] = e
        BY <4>1, <2>3 DEF IndicesAgree, SlotExact
      <4> QED BY <1>5, <4>1, <4>2
    <3> QED BY <3>1, <3>2
  <2> QED BY <2>2, <2>3 DEF SlotExact
<1>11. \A v \in Users : Lists(byUser'[v], SessionsOf(v)')
  <2> TAKE v \in Users
  <2>1. CASE v = u
    <3>1. SessionsOf(v)' = (SessionsOf(u) \ out) \union {t}
      BY <1>1, <1>5, <1>8, <2>1 DEF SessionsOf
    <3>2. byUser'[v] = Append(Kept(q), t)
      BY <1>1, <1>5, <2>1 DEF TypeOK
    <3> QED BY <1>7, <3>1, <3>2
  <2>2. CASE v # u
    <3>1. \A x \in out : owner[x][1] = u
      BY <1>3 DEF SessionsOf
    <3>2. SessionsOf(v)' = SessionsOf(v)
      BY <1>1, <1>5, <1>8, <2>2, <3>1 DEF SessionsOf
    <3>3. byUser'[v] = byUser[v]
      BY <1>5, <2>2 DEF TypeOK
    <3> QED BY <3>2, <3>3 DEF IndicesAgree, QueueExact
  <2> QED BY <2>1, <2>2
<1>12. PerUserCap'
  BY <1>3, <1>5, <1>7 DEF PerUserCap, TypeOK
<1>13. PendingOwned'
  <2>1. \A d \in Creators : pc'[d] = IF d = c THEN "remove" ELSE pc[d]
    BY <1>1, <1>5 DEF TypeOK, Procs
  <2>2. \A d \in Creators : d # c => tok'[d] = tok[d] /\ want'[d] = want[d]
    BY <1>5 DEF TypeOK
  <2>3. \A d \in Creators : d # c /\ Pending(d) => tok[d] # t /\ tok[d] \notin byId'
    BY <1>1, <1>5 DEF PendingOwned, Pending, t
  <2> QED BY <1>5, <2>1, <2>2, <2>3 DEF PendingOwned, Opening, Pending
<1>14. StaleLive'
  BY <1>1, <1>5 DEF TypeOK, StaleLive, Locked
<1> QED BY <1>9, <1>10, <1>11, <1>12, <1>13, <1>14 DEF IndicesAgree, QueueExact

\* gc_once: the tick, the rounds of its loop, and the end of the lock.
LEMMA IndexGcTick ==
    ASSUME IndexInv, GcTick \/ GcUnlock
    PROVE  IndexInv'
<1> USE DEF IndexInv
<1> USE GcAssumption
<1>1. IndicesAgree' /\ PerUserCap'
  BY IndicesStutter DEF GcTick, GcUnlock, registryVars
<1>2. /\ stale' \subseteq byId
      /\ \E x \in {"retire", "remove"} :
            pc' = [pc EXCEPT ![Gc] = x] /\ (x = "remove" => stale' = {})
      /\ gcTicks' \in Nat
      /\ UNCHANGED <<registryVars, owner, lastActivity, diskVars, want, tok, live, asOf, todo,
                     handlerVars, envVars>>
  BY NatAssumption DEF GcTick, GcUnlock, TypeOK, StaleLive
<1>3. /\ pc' \in [Procs -> CreatorPlaces \union GcPlaces]
      /\ \A d \in Creators : pc'[d] = pc[d]
      /\ pc'[Gc] \in {"retire", "remove"} /\ (pc'[Gc] # "retire" => stale' = {})
  BY <1>2 DEF TypeOK, GcPlaces, Procs
<1>4. TypeOK'
  BY <1>2, <1>3 DEF TypeOK, GcPlaces, registryVars, diskVars, handlerVars, envVars
<1>5. PendingOwned'
  BY <1>2, <1>3 DEF PendingOwned, Opening, Pending, registryVars
<1>6. StaleLive'
  BY <1>2, <1>3 DEF StaleLive, Locked, registryVars
<1> QED BY <1>1, <1>4, <1>5, <1>6

LEMMA IndexGcRetire ==
    ASSUME IndexInv, NEW t \in stale, GcRetire(t)
    PROVE  IndexInv'
<1> USE DEF IndexInv
<1> DEFINE k == owner[t]
           u == owner[t][1]
           w == Without(byUser[u], t)
<1>1. /\ t \in byId /\ t \in Tokens /\ k \in Keys /\ u \in Users /\ bySlot[k] = t
      /\ t \in SessionsOf(u)
  BY DEF StaleLive, TypeOK, IndicesAgree, SlotExact, Keys, SessionsOf
<1>2. /\ byId' = byId \ {t}
      /\ bySlot' = ForgetSlots({t})
      /\ byUser' = [byUser EXCEPT ![u] = w]
      /\ stale' = stale \ {t}
      /\ todo' = [todo EXCEPT ![Gc] = @ \union {t}]
      /\ UNCHANGED <<owner, lastActivity, diskVars, pc, want, tok, live, asOf, gcTicks,
                     handlerVars, envVars>>
  BY DEF GcRetire
<1>3. /\ w \in Seq(Tokens) /\ Lists(w, SessionsOf(u) \ {t})
      /\ Len(w) = Len(byUser[u]) - 1 /\ Len(byUser[u]) \in Nat
  <2>1. byUser[u] \in Seq(Tokens) /\ Lists(byUser[u], SessionsOf(u))
    BY <1>1 DEF TypeOK, IndicesAgree, QueueExact
  <2>2. Len(byUser[u]) \in Nat
    BY <2>1
  <2> QED BY <1>1, <2>1, <2>2, WithoutFacts
<1> HIDE DEF k, u, w
<1>4. TypeOK'
  <2>1. bySlot' \in [Keys -> Tokens \union {None}]
    BY <1>2 DEF ForgetSlots, TypeOK
  <2>2. byUser' \in [Users -> Seq(Tokens)]
    BY <1>2, <1>3 DEF TypeOK
  <2>3. todo' \in [Procs -> SUBSET Tokens] /\ byId' \subseteq Tokens /\ stale' \subseteq Tokens
    BY <1>1, <1>2 DEF TypeOK, Procs
  <2> QED BY <1>2, <2>1, <2>2, <2>3 DEF TypeOK, diskVars, handlerVars, envVars
<1>5. SlotExact'
  <2>1. \A e \in Keys : bySlot'[e] = IF e = k THEN None ELSE bySlot[e]
    BY <1>2 DEF ForgetSlots, k
  <2>2. ASSUME NEW x \in byId' PROVE owner'[x] \in Keys /\ bySlot'[owner'[x]] = x
    <3>1. x \in byId /\ x # t /\ owner'[x] = owner[x]
      BY <1>2
    <3>2. owner[x] \in Keys /\ bySlot[owner[x]] = x
      BY <3>1 DEF IndicesAgree, SlotExact
    <3>3. owner[x] # k
      BY <1>1, <3>1, <3>2
    <3> QED BY <2>1, <3>1, <3>2, <3>3
  <2>3. ASSUME NEW e \in Keys, bySlot'[e] # None
        PROVE  bySlot'[e] \in byId' /\ owner'[bySlot'[e]] = e
    <3>1. e # k /\ bySlot'[e] = bySlot[e]
      BY <2>1, <2>3
    <3>2. bySlot[e] \in byId /\ owner[bySlot[e]] = e
      BY <2>3, <3>1 DEF IndicesAgree, SlotExact
    <3> QED BY <1>2, <3>1, <3>2 DEF k
  <2> QED BY <2>2, <2>3 DEF SlotExact
<1>6. \A v \in Users : Lists(byUser'[v], SessionsOf(v)')
  <2> TAKE v \in Users
  <2>1. CASE v = u
    BY <1>1, <1>2, <1>3, <2>1 DEF SessionsOf, TypeOK
  <2>2. CASE v # u
    <3>1. SessionsOf(v)' = SessionsOf(v)
      BY <1>2, <2>2 DEF SessionsOf, u
    <3> QED BY <1>2, <2>2, <3>1 DEF IndicesAgree, QueueExact, TypeOK
  <2> QED BY <2>1, <2>2
<1>7. PerUserCap'
  <2> SUFFICES ASSUME NEW v \in Users
               PROVE  Len(byUser'[v]) <= (IF Cap = 0 THEN 1 ELSE Cap)
    BY DEF PerUserCap
  <2>1. CASE v = u
    <3>1. Len(byUser'[v]) = Len(byUser[u]) - 1
      BY <1>1, <1>2, <1>3, <2>1 DEF TypeOK
    <3> QED BY <1>1, <1>3, <3>1, NatAssumption DEF PerUserCap
  <2>2. CASE v # u
    BY <1>2, <2>2 DEF PerUserCap, TypeOK
  <2> QED BY <2>1, <2>2
<1>8. PendingOwned'
  BY <1>2 DEF PendingOwned, Opening, Pending
<1>9. StaleLive'
  BY <1>2 DEF StaleLive, Locked
<1> QED BY <1>4, <1>5, <1>6, <1>7, <1>8, <1>9 DEF IndicesAgree, QueueExact

\* Requests on open sessions, and the clock, do not touch the registry.
LEMMA IndexHandlers ==
    ASSUME IndexInv, NEW h \in Handlers, HandlerStep(h)
    PROVE  IndexInv'
<1> USE DEF IndexInv
<1>1. IndicesAgree' /\ PerUserCap'
  BY IndicesStutter
     DEF HandlerStep, HandlerGet, HandlerRead, HandlerMakeParent, HandlerWrite, registryVars
<1>2. PendingOwned' /\ StaleLive'
  BY DEF HandlerStep, HandlerGet, HandlerRead, HandlerMakeParent, HandlerWrite, registryVars,
         taskVars, PendingOwned, Opening, Pending, StaleLive, Locked
<1>3. TypeOK'
  <2>1. CASE \E t \in byId : HandlerGet(h, t)
    BY <2>1 DEF TypeOK, HandlerGet, HandlerPlaces, registryVars, diskVars, taskVars, envVars
  <2>2. CASE HandlerRead(h)
    BY <2>2 DEF TypeOK, HandlerRead, HandlerPlaces, registryVars, diskVars, taskVars, envVars
  <2>3. CASE HandlerMakeParent(h)
    <3>1. dirs' \subseteq Tokens /\ mtime' \in [Tokens -> Nat]
      BY <2>3 DEF TypeOK, HandlerMakeParent
    <3> QED BY <2>3, <3>1 DEF TypeOK, HandlerMakeParent, HandlerPlaces, registryVars, taskVars,
                              envVars
  <2>4. CASE HandlerWrite(h)
    <3>1. mtime' \in [Tokens -> Nat] /\ lastActivity' \in [Tokens -> Nat]
      BY <2>4 DEF TypeOK, HandlerWrite
    <3>2. /\ hpc' \in [Handlers -> HandlerPlaces]
          /\ \A g \in Handlers : hpc'[g] # "idle" => hsess[g] \in Tokens
      BY <2>4 DEF TypeOK, HandlerWrite, HandlerPlaces
    <3> QED BY <2>4, <3>1, <3>2 DEF TypeOK, HandlerWrite, registryVars, taskVars, envVars
  <2> QED BY <2>1, <2>2, <2>3, <2>4 DEF HandlerStep
<1> QED BY <1>1, <1>2, <1>3

\* A restart empties the three maps together, and forgets every task.
LEMMA IndexRestart ==
    ASSUME IndexInv, Restart
    PROVE  IndexInv'
<1> USE DEF IndexInv
<1> USE GcAssumption, NatAssumption
<1>1. TypeOK'
  <2>1. byUser' \in [Users -> Seq(Tokens)]
    BY DEF Restart
  <2>2. /\ pc' \in [Procs -> CreatorPlaces \union GcPlaces]
        /\ \A c \in Creators : pc'[c] \in CreatorPlaces
        /\ pc'[Gc] \in GcPlaces
    BY DEF Restart, CreatorPlaces, GcPlaces, Procs
  <2>3. /\ bySlot' \in [Keys -> Tokens \union {None}] /\ byId' \subseteq Tokens
        /\ want' \in [Creators -> Keys \union {None}]
        /\ tok' \in [Creators -> Tokens \union {None}]
        /\ live' \in [Procs -> SUBSET Tokens] /\ todo' \in [Procs -> SUBSET Tokens]
        /\ asOf' \in [Procs -> Nat] /\ stale' \subseteq Tokens /\ gcTicks' \in Nat
    BY DEF Restart
  <2>4. /\ hpc' \in [Handlers -> HandlerPlaces] /\ hsess' \in [Handlers -> Tokens \union {None}]
        /\ \A h \in Handlers : hpc'[h] # "idle" => hsess'[h] \in Tokens
    BY DEF Restart, HandlerPlaces
  <2>6. up' \in BOOLEAN
    BY DEF Restart
  <2>7. restarts' \in Nat
    BY DEF Restart, TypeOK
  <2>5. UNCHANGED <<owner, lastActivity, dirs, mtime, clock>>
    BY DEF Restart, diskVars
  <2> QED BY <2>1, <2>2, <2>3, <2>4, <2>5, <2>6, <2>7 DEF TypeOK
<1>2. SlotExact'
  BY DEF Restart, SlotExact
<1>3. QueueExact'
  BY DEF Restart, QueueExact, Lists, SessionsOf
<1>4. PerUserCap'
  BY DEF Restart, PerUserCap
<1>5. PendingOwned'
  BY DEF Restart, PendingOwned, Opening, Pending, Procs
<1>6. StaleLive'
  BY DEF Restart, StaleLive
<1> QED BY <1>1, <1>2, <1>3, <1>4, <1>5, <1>6 DEF IndicesAgree

LEMMA IndexTick ==
    ASSUME IndexInv, Tick \/ UNCHANGED vars
    PROVE  IndexInv'
<1> USE DEF IndexInv
<1>1. UNCHANGED <<registryVars, owner, lastActivity, diskVars, taskVars, handlerVars>>
  BY DEF Tick, vars
<1>2. up' \in BOOLEAN /\ clock' \in Nat /\ restarts' \in Nat
  BY DEF Tick, vars, envVars, TypeOK
<1>3. IndicesAgree' /\ PerUserCap'
  BY <1>1, IndicesStutter
<1>4. TypeOK'
  BY <1>1, <1>2 DEF TypeOK, registryVars, diskVars, taskVars, handlerVars
<1>5. PendingOwned' /\ StaleLive'
  BY <1>1 DEF registryVars, taskVars, PendingOwned, Opening, Pending, StaleLive, Locked
<1> QED BY <1>3, <1>4, <1>5

LEMMA IndexNext ==
    ASSUME IndexInv, [Next]_vars
    PROVE  IndexInv'
<1>1. CASE GcStep
  <2>1. Gc \in Procs
    BY DEF Procs
  <2> QED BY <1>1, <2>1, IndexGcTick, IndexGcRetire, IndexSweep DEF GcStep
<1>2. ASSUME NEW c \in Creators, CreatorStep(c) PROVE IndexInv'
  <2>1. c \in Procs
    BY DEF Procs
  <2> QED BY <1>2, <2>1, IndexOpenExisting, IndexOpenSteps, IndexCreateDir, IndexRegister,
             IndexSweep DEF CreatorStep
<1>3. ASSUME NEW h \in Handlers, HandlerStep(h) PROVE IndexInv'
  BY <1>3, IndexHandlers
<1> QED BY <1>1, <1>2, <1>3, IndexTick, IndexRestart DEF Next

\* The index invariant holds in every reachable state.
THEOREM IndexInvariant == Spec => []IndexInv
<1>1. IndexInv /\ [Next]_vars => IndexInv'
  BY IndexNext
<1> QED BY IndexInit, <1>1, PTL DEF Spec

\* Every variable of the registry keeps its type.
THEOREM TypeCorrect == Spec => []TypeOK
<1>1. IndexInv => TypeOK
  BY DEF IndexInv
<1> QED BY IndexInvariant, <1>1, PTL

\* by_id, by_slot and by_user never disagree, for any number of users, slots
\* and concurrent creates.
THEOREM MapsAgree == Spec => []IndicesAgree
<1>1. IndexInv => IndicesAgree
  BY DEF IndexInv
<1> QED BY IndexInvariant, <1>1, PTL

\* The cap on the sessions of one user holds, whatever the cap.
THEOREM CapHolds == Spec => []PerUserCap
<1>1. IndexInv => PerUserCap
  BY DEF IndexInv
<1> QED BY IndexInvariant, <1>1, PTL

-----------------------------------------------------------------------------
(* The disk invariant: no removal ever hits a session the registry serves. *)

LEMMA DiskInit == Init => DiskInv
<1> SUFFICES ASSUME Init PROVE DiskInv
  OBVIOUS
<1>1. LiveDirsExist /\ GoneMeansExpired
  BY DEF Init, LiveDirsExist, GoneMeansExpired
<1>2. Minted
  BY DEF Init, Minted, Procs
<1>3. TodoDead
  BY DEF Init, TodoDead
<1>4. YoungDirs
  BY DEF Init, YoungDirs, Seeding, Procs, GcAssumption
<1> QED BY <1>1, <1>2, <1>3, <1>4 DEF DiskInv

\* Steps of a create that neither register nor mint: they move only its place,
\* and take away its own directory or none.
LEMMA DiskOpenSteps ==
    ASSUME IndexInv, DiskInv, NEW c \in Creators,
           \/ \E k \in Keys : OpenExisting(c, k) \/ OpenMissing(c, k)
           \/ SeedFail(c) \/ LoseRace(c) \/ DropOwnDir(c) \/ AbandonOpen(c)
    PROVE  DiskInv'
<1> USE GcAssumption, NatAssumption
<1>1. c \in Procs /\ c # Gc
  BY DEF Procs
<1>2. CASE \E k \in Keys : OpenExisting(c, k)
  BY <1>2 DEF OpenExisting, DiskInv, LiveDirsExist, GoneMeansExpired, Minted, TodoDead, YoungDirs,
              Seeding, Pending, diskVars, taskVars, handlerVars, envVars
<1>3. CASE \/ \E k \in Keys : OpenMissing(c, k)
           \/ SeedFail(c) \/ LoseRace(c) \/ DropOwnDir(c) \/ AbandonOpen(c)
  <2>1. /\ byId' = byId /\ owner' = owner /\ hpc' = hpc /\ hsess' = hsess /\ clock' = clock
        /\ \A d \in Procs : d # c =>
              pc'[d] = pc[d] /\ todo'[d] = todo[d] /\ live'[d] = live[d] /\ asOf'[d] = asOf[d]
        /\ pc'[c] \in {"idle", "sweep", "yield"}
        /\ pc'[c] = "yield" => pc[c] = "insert"
        /\ todo'[c] \subseteq todo[c]
    BY <1>1, <1>3 DEF OpenMissing, SeedFail, LoseRace, DropOwnDir, AbandonOpen, IndexInv, TypeOK,
                      registryVars, diskVars, handlerVars, envVars
  <2>2. \A d \in Creators : (d # c \/ pc'[c] = "yield") => tok'[d] = tok[d]
    BY <1>1, <1>3 DEF OpenMissing, SeedFail, LoseRace, DropOwnDir, AbandonOpen, IndexInv, TypeOK
  <2>3. \/ dirs' = dirs /\ mtime' = mtime
        \/ /\ Pending(c) /\ dirs' = dirs \ {tok[c]}
           /\ mtime' = [mtime EXCEPT ![tok[c]] = 0]
    BY <1>3 DEF OpenMissing, SeedFail, LoseRace, DropOwnDir, AbandonOpen, RemoveDirAll, Pending,
                diskVars
  <2>4. /\ dirs' \subseteq dirs
        /\ \A x \in Tokens : ~(Pending(c) /\ x = tok[c]) =>
              (x \in dirs => x \in dirs') /\ mtime'[x] = mtime[x]
    <3>1. CASE dirs' = dirs /\ mtime' = mtime
      BY <3>1
    <3>2. CASE Pending(c) /\ dirs' = dirs \ {tok[c]} /\ mtime' = [mtime EXCEPT ![tok[c]] = 0]
      BY <3>2 DEF IndexInv, TypeOK
    <3> QED BY <2>3, <3>1, <3>2
  <2>5. LiveDirsExist'
    BY <2>1, <2>4 DEF DiskInv, LiveDirsExist, IndexInv, TypeOK, PendingOwned
  <2>6. GoneMeansExpired'
    BY <2>1 DEF DiskInv, GoneMeansExpired
  <2>7. Minted'
    BY <1>1, <2>1, <2>2, <2>4 DEF DiskInv, Minted, Pending, Procs
  <2>8. TodoDead'
    BY <1>1, <2>1, <2>2 DEF DiskInv, TodoDead, Seeding, Procs
  <2>9. \A d \in Creators : Seeding(d)' => d # c /\ Seeding(d) /\ tok'[d] = tok[d]
    BY <1>1, <2>1, <2>2 DEF Seeding, Procs
  <2>10. \A d \in Creators : Seeding(d) /\ d # c /\ Pending(c) => tok[d] # tok[c]
    BY DEF IndexInv, PendingOwned, Seeding, Pending
  <2>11. YoungDirs'
    <3>1. \A d \in Creators : Seeding(d)' =>
             tok'[d] \in dirs' /\ clock' <= mtime'[tok'[d]] + IdleTimeout
      BY <2>1, <2>4, <2>9, <2>10 DEF DiskInv, YoungDirs, IndexInv, PendingOwned, Seeding, Pending
    <3>2. \A p \in Procs : pc'[p] = "scan" => p # c /\ pc[p] = "scan"
      BY <2>1
    <3>3. \A x \in byId : mtime'[x] = mtime[x]
      BY <2>4 DEF IndexInv, TypeOK, PendingOwned
    <3> QED BY <2>1, <3>1, <3>2, <3>3 DEF DiskInv, YoungDirs
  <2> QED BY <2>5, <2>6, <2>7, <2>8, <2>11 DEF DiskInv
<1> QED BY <1>2, <1>3

\* A fresh token and its fresh directory are on nobody's list.
LEMMA DiskCreateDir ==
    ASSUME IndexInv, DiskInv, NEW c \in Creators, CreateDir(c)
    PROVE  DiskInv'
<1> USE GcAssumption, NatAssumption
<1>1. c \in Procs /\ c # Gc
  BY DEF Procs
<1>2. PICK t \in Tokens :
        /\ owner[t] = None
        /\ owner' = [owner EXCEPT ![t] = want[c]]
        /\ tok' = [tok EXCEPT ![c] = t]
        /\ dirs' = dirs \union {t}
        /\ mtime' = [mtime EXCEPT ![t] = clock]
  BY DEF CreateDir
<1>3. want[c] # None
  BY NoneAssumption DEF CreateDir, IndexInv, PendingOwned, Opening
<1>4. /\ byId' = byId /\ hpc' = hpc /\ hsess' = hsess /\ clock' = clock
      /\ todo' = todo /\ live' = live /\ asOf' = asOf
      /\ \A d \in Procs : pc'[d] = IF d = c THEN "seed" ELSE pc[d]
  BY DEF CreateDir, registryVars, handlerVars, envVars, IndexInv, TypeOK
<1>5. /\ owner'[t] = want[c] /\ tok'[c] = t /\ mtime'[t] = clock
      /\ \A x \in Tokens : x # t => owner'[x] = owner[x] /\ mtime'[x] = mtime[x]
      /\ \A d \in Creators : d # c => tok'[d] = tok[d]
  BY <1>2 DEF IndexInv, TypeOK
<1>6. t \notin byId
  BY <1>2, NoneAssumption DEF IndexInv, IndicesAgree, SlotExact
<1>7. \A d \in Creators : Pending(d) => tok[d] # t
  BY <1>2, NoneAssumption DEF IndexInv, PendingOwned, Pending, Opening
<1>8. LiveDirsExist' /\ GoneMeansExpired'
  BY <1>2, <1>4 DEF DiskInv, LiveDirsExist, GoneMeansExpired
<1>9. Minted'
  <2>1. \A x \in dirs' : owner'[x] # None
    BY <1>2, <1>3, <1>5 DEF DiskInv, Minted, IndexInv, TypeOK
  <2>2. \A p \in Procs : \A x \in todo'[p] : owner'[x] # None
    BY <1>3, <1>4, <1>5 DEF DiskInv, Minted, IndexInv, TypeOK
  <2>3. \A h \in Handlers : hpc'[h] # "idle" => owner'[hsess'[h]] # None
    BY <1>3, <1>4, <1>5 DEF DiskInv, Minted, IndexInv, TypeOK
  <2>4. \A h \in Handlers, d \in Creators : hpc'[h] # "idle" /\ Pending(d)' => hsess'[h] # tok'[d]
    BY <1>1, <1>2, <1>4, <1>5 DEF DiskInv, Minted, Pending, Procs
  <2> QED BY <2>1, <2>2, <2>3, <2>4 DEF Minted
<1>10. TodoDead'
  <2>1. \A p \in Procs : t \notin todo[p]
    BY <1>2 DEF DiskInv, Minted
  <2> QED BY <1>1, <1>4, <1>5, <2>1 DEF DiskInv, TodoDead, Seeding, Procs
<1>11. YoungDirs'
  <2>1. \A d \in Creators : Seeding(d)' =>
           tok'[d] \in dirs' /\ clock' <= mtime'[tok'[d]] + IdleTimeout
    <3> TAKE d \in Creators
    <3>1. CASE d = c
      BY <1>2, <1>4, <1>5, <3>1 DEF IndexInv, TypeOK
    <3>2. CASE d # c
      BY <1>1, <1>2, <1>4, <1>5, <1>7, <3>2
         DEF DiskInv, YoungDirs, Seeding, Pending, Procs, IndexInv, PendingOwned
    <3> QED BY <3>1, <3>2
  <2>2. \A x \in byId : mtime'[x] = mtime[x]
    BY <1>5, <1>6 DEF IndexInv, TypeOK
  <2> QED BY <1>1, <1>4, <2>1, <2>2 DEF DiskInv, YoungDirs
<1> QED BY <1>8, <1>9, <1>10, <1>11 DEF DiskInv

\* The seed finished: the directory is as young as can be.
LEMMA DiskSeedOk ==
    ASSUME IndexInv, DiskInv, NEW c \in Creators, SeedOk(c)
    PROVE  DiskInv'
<1> USE GcAssumption, NatAssumption
<1>1. c \in Procs /\ c # Gc
  BY DEF Procs
<1>2. /\ byId' = byId /\ owner' = owner /\ dirs' = dirs /\ hpc' = hpc /\ hsess' = hsess
      /\ clock' = clock /\ tok' = tok /\ todo' = todo /\ live' = live /\ asOf' = asOf
      /\ pc[c] = "seed" /\ tok[c] \in dirs
      /\ \A d \in Procs : pc'[d] = IF d = c THEN "insert" ELSE pc[d]
      /\ mtime' = [mtime EXCEPT ![tok[c]] = clock]
  BY DEF SeedOk, registryVars, handlerVars, envVars, IndexInv, TypeOK
<1>3. \A x \in Tokens : mtime'[x] = IF x = tok[c] THEN clock ELSE mtime[x]
  BY <1>2 DEF IndexInv, TypeOK
<1>4. \A d \in Creators : (Seeding(d)' <=> Seeding(d)) /\ (Pending(d)' <=> Pending(d))
  BY <1>2 DEF Seeding, Pending, Procs
<1>5. LiveDirsExist' /\ GoneMeansExpired' /\ Minted' /\ TodoDead'
  BY <1>2, <1>4 DEF DiskInv, LiveDirsExist, GoneMeansExpired, Minted, TodoDead
<1>6. tok[c] \notin byId
  BY <1>2 DEF IndexInv, PendingOwned, Pending
<1>7. YoungDirs'
  <2>1. \A d \in Creators : Seeding(d)' =>
           tok'[d] \in dirs' /\ clock' <= mtime'[tok'[d]] + IdleTimeout
    BY <1>2, <1>3, <1>4 DEF DiskInv, YoungDirs, IndexInv, TypeOK
  <2>2. \A x \in byId : mtime'[x] = mtime[x]
    BY <1>3, <1>6 DEF IndexInv, TypeOK
  <2>3. \A p \in Procs : pc'[p] = "scan" => pc[p] = "scan"
    BY <1>2
  <2> QED BY <1>2, <2>1, <2>2, <2>3 DEF DiskInv, YoungDirs
<1> QED BY <1>5, <1>7 DEF DiskInv

\* The new session's directory is too young for any running sweep, and the
\* evicted ones leave the registry before they join a list.
LEMMA DiskRegister ==
    ASSUME IndexInv, DiskInv, NEW c \in Creators, Register(c)
    PROVE  DiskInv'
<1> USE GcAssumption, NatAssumption
<1>1. c \in Procs /\ c # Gc
  BY DEF Procs
<1> DEFINE t   == tok[c]
           out == Evicted(byUser[want[c][1]])
<1>2. /\ byId' = (byId \ out) \union {t}
      /\ owner' = owner /\ dirs' = dirs /\ mtime' = mtime /\ hpc' = hpc /\ hsess' = hsess
      /\ clock' = clock /\ live' = live /\ asOf' = asOf
      /\ pc[c] = "insert"
      /\ \A d \in Procs : pc'[d] = IF d = c THEN "remove" ELSE pc[d]
      /\ \A d \in Procs : todo'[d] = IF d = c THEN out \intersect byId ELSE todo[d]
      /\ \A d \in Creators : d # c => tok'[d] = tok[d]
  BY DEF Register, diskVars, handlerVars, envVars, IndexInv, TypeOK
<1>3. /\ t \in Tokens /\ t \notin byId /\ t \in dirs /\ clock <= mtime[t] + IdleTimeout
      /\ \A p \in Procs : t \notin todo[p]
      /\ \A h \in Handlers : hpc[h] # "idle" => hsess[h] # t
      /\ owner[t] # None
  BY <1>2, NoneAssumption DEF IndexInv, PendingOwned, Pending, Opening, DiskInv, YoungDirs,
     TodoDead, Minted, Seeding
<1>4. \A d \in Creators : Pending(d)' =>
         d # c /\ Pending(d) /\ tok'[d] = tok[d] /\ tok[d] # t /\ tok[d] \notin byId
  BY <1>1, <1>2 DEF Pending, Procs, IndexInv, PendingOwned
<1>5. \A d \in Creators : Seeding(d)' => Seeding(d) /\ Pending(d)'
  BY <1>1, <1>2 DEF Seeding, Pending, Procs
<1> HIDE DEF t, out
<1>6. LiveDirsExist'
  BY <1>2, <1>3 DEF DiskInv, LiveDirsExist
<1>7. GoneMeansExpired'
  BY <1>2, <1>3 DEF DiskInv, GoneMeansExpired
<1>8. Minted'
  <2>1. \A p \in Procs : \A x \in todo'[p] : owner'[x] # None
    BY <1>2, <1>6 DEF DiskInv, Minted, LiveDirsExist
  <2> QED BY <1>2, <1>4, <2>1 DEF DiskInv, Minted
<1>9. TodoDead'
  <2> SUFFICES ASSUME NEW p \in Procs, NEW x \in todo'[p]
               PROVE  x \notin byId' /\ \A d \in Creators : Seeding(d)' => tok'[d] # x
    BY DEF TodoDead
  <2>1. CASE p = c
    BY <1>2, <1>3, <1>4, <1>5, <2>1
  <2>2. CASE p # c
    BY <1>2, <1>3, <1>4, <1>5, <2>2 DEF DiskInv, TodoDead
  <2> QED BY <2>1, <2>2
<1>10. YoungDirs'
  <2>1. \A d \in Creators : Seeding(d)' =>
           tok'[d] \in dirs' /\ clock' <= mtime'[tok'[d]] + IdleTimeout
    BY <1>2, <1>4, <1>5 DEF DiskInv, YoungDirs
  <2>2. ASSUME NEW p \in Procs, pc'[p] = "scan"
        PROVE  asOf'[p] <= clock' /\ \A x \in byId' \ live'[p] : asOf'[p] <= mtime'[x] + IdleTimeout
    <3>1. pc[p] = "scan" /\ asOf[p] <= clock
      BY <1>2, <2>2 DEF DiskInv, YoungDirs
    <3>2. asOf[p] <= mtime[t] + IdleTimeout
      BY <1>3, <3>1 DEF IndexInv, TypeOK
    <3> QED BY <1>2, <3>1, <3>2 DEF DiskInv, YoungDirs
  <2> QED BY <2>1, <2>2 DEF YoungDirs
<1> QED BY <1>6, <1>7, <1>8, <1>9, <1>10 DEF DiskInv

\* A sweep collects only what its snapshot and its cutoff allow, and removes
\* only what it collected.
LEMMA DiskSweep ==
    ASSUME IndexInv, DiskInv, NEW p \in Procs, SweepStep(p)
    PROVE  DiskInv'
<1> USE GcAssumption, NatAssumption
<1>1. /\ byId' = byId /\ owner' = owner /\ tok' = tok /\ hpc' = hpc /\ hsess' = hsess
      /\ clock' = clock
      /\ \A q \in Procs : q # p =>
            pc'[q] = pc[q] /\ live'[q] = live[q] /\ asOf'[q] = asOf[q] /\ todo'[q] = todo[q]
      /\ pc[p] \in {"sweep", "scan", "purge", "remove"}
      /\ pc'[p] \in {"scan", "purge", "mint", "idle", "sweep", "remove"}
  BY DEF SweepStep, SweepSnapshot, SweepScan, RemoveDir, RemoveDone, registryVars, handlerVars,
         envVars, IndexInv, TypeOK
<1>2. \A d \in Creators : (Seeding(d)' <=> Seeding(d)) /\ (Pending(d)' <=> Pending(d))
  BY <1>1 DEF Seeding, Pending, Procs
<1>3. GoneMeansExpired'
  BY <1>1 DEF DiskInv, GoneMeansExpired
<1>4. CASE SweepSnapshot(p)
  <2>1. /\ dirs' = dirs /\ mtime' = mtime /\ todo' = todo
        /\ pc'[p] = "scan" /\ live'[p] = byId /\ asOf'[p] = clock
    BY <1>4 DEF SweepSnapshot, diskVars, IndexInv, TypeOK
  <2>2. LiveDirsExist' /\ Minted' /\ TodoDead'
    BY <1>1, <1>2, <2>1 DEF DiskInv, LiveDirsExist, Minted, TodoDead
  <2>3. ASSUME NEW q \in Procs, pc'[q] = "scan"
        PROVE  asOf'[q] <= clock' /\ \A t \in byId' \ live'[q] : asOf'[q] <= mtime'[t] + IdleTimeout
    <3>1. CASE q = p
      BY <1>1, <2>1, <3>1 DEF IndexInv, TypeOK
    <3>2. CASE q # p
      BY <1>1, <2>1, <2>3, <3>2 DEF DiskInv, YoungDirs
    <3> QED BY <3>1, <3>2
  <2>4. YoungDirs'
    BY <1>1, <1>2, <2>1, <2>3 DEF DiskInv, YoungDirs
  <2> QED BY <1>3, <2>2, <2>4 DEF DiskInv
<1>5. CASE SweepScan(p)
  <2>1. /\ dirs' = dirs /\ mtime' = mtime /\ pc[p] = "scan" /\ pc'[p] = "purge"
        /\ todo'[p] = {t \in dirs \ live[p] : mtime[t] + IdleTimeout < asOf[p]}
    BY <1>5 DEF SweepScan, diskVars, IndexInv, TypeOK
  <2>2. ASSUME NEW t \in todo'[p]
        PROVE  /\ t \notin byId
               /\ \A d \in Creators : Seeding(d) => tok[d] # t
    <3>1. /\ t \in dirs /\ t \notin live[p] /\ mtime[t] + IdleTimeout < asOf[p] /\ asOf[p] <= clock
          /\ mtime[t] \in Nat /\ asOf[p] \in Nat /\ clock \in Nat
      BY <2>1, <2>2 DEF DiskInv, YoungDirs, IndexInv, TypeOK
    <3>2. t \notin byId
      <4>1. t \in byId => asOf[p] <= mtime[t] + IdleTimeout
        BY <2>1, <3>1 DEF DiskInv, YoungDirs
      <4> QED BY <3>1, <4>1
    <3>3. ASSUME NEW d \in Creators, Seeding(d), tok[d] = t PROVE FALSE
      <4>1. clock <= mtime[t] + IdleTimeout
        BY <3>3 DEF DiskInv, YoungDirs
      <4> QED BY <3>1, <4>1
    <3> QED BY <3>2, <3>3
  <2>3. TodoDead'
    BY <1>1, <1>2, <2>2 DEF DiskInv, TodoDead
  <2>4. LiveDirsExist' /\ Minted'
    BY <1>1, <1>2, <2>1 DEF DiskInv, LiveDirsExist, Minted
  <2>5. YoungDirs'
    BY <1>1, <1>2, <2>1 DEF DiskInv, YoungDirs
  <2> QED BY <1>3, <2>3, <2>4, <2>5 DEF DiskInv
<1>6. ASSUME NEW t \in todo[p], RemoveDir(p, t) PROVE DiskInv'
  <2>1. /\ pc' = pc /\ live' = live /\ asOf' = asOf
        /\ \A q \in Procs : todo'[q] \subseteq todo[q]
        /\ dirs' = dirs \/ dirs' = dirs \ {t}
        /\ mtime' = mtime \/ mtime' = [mtime EXCEPT ![t] = 0]
    BY <1>6 DEF RemoveDir, RemoveDirAll, diskVars, IndexInv, TypeOK
  <2>2. t \notin byId /\ \A d \in Creators : Seeding(d) => tok[d] # t
    BY DEF DiskInv, TodoDead
  <2>3. /\ dirs' \subseteq dirs
        /\ \A x \in Tokens : x # t => (x \in dirs => x \in dirs') /\ mtime'[x] = mtime[x]
    BY <2>1 DEF IndexInv, TypeOK
  <2>4. LiveDirsExist'
    BY <1>1, <2>2, <2>3 DEF DiskInv, LiveDirsExist, IndexInv, TypeOK
  <2>5. Minted' /\ TodoDead'
    BY <1>1, <1>2, <2>1, <2>3 DEF DiskInv, Minted, TodoDead
  <2>6. YoungDirs'
    <3>1. \A d \in Creators : Seeding(d)' =>
             tok'[d] \in dirs' /\ clock' <= mtime'[tok'[d]] + IdleTimeout
      BY <1>1, <1>2, <2>2, <2>3 DEF DiskInv, YoungDirs, IndexInv, TypeOK
    <3>2. \A x \in byId : mtime'[x] = mtime[x]
      BY <2>2, <2>3 DEF IndexInv, TypeOK
    <3> QED BY <1>1, <2>1, <3>1, <3>2 DEF DiskInv, YoungDirs
  <2> QED BY <1>3, <2>4, <2>5, <2>6 DEF DiskInv
<1>7. CASE RemoveDone(p)
  <2>1. /\ dirs' = dirs /\ mtime' = mtime /\ todo' = todo /\ live' = live /\ asOf' = asOf
        /\ pc'[p] # "scan"
    BY <1>7 DEF RemoveDone, diskVars, IndexInv, TypeOK
  <2> QED BY <1>1, <1>2, <1>3, <2>1 DEF DiskInv, LiveDirsExist, Minted, TodoDead, YoungDirs
<1> QED BY <1>4, <1>5, <1>6, <1>7 DEF SweepStep

\* A collected id leaves the registry before its directory joins the list.
LEMMA DiskGc ==
    ASSUME IndexInv, DiskInv, GcTick \/ GcUnlock \/ \E t \in stale : GcRetire(t)
    PROVE  DiskInv'
<1> USE GcAssumption, NatAssumption
<1>1. Gc \in Procs
  BY DEF Procs
<1>2. /\ owner' = owner /\ tok' = tok /\ hpc' = hpc /\ hsess' = hsess /\ clock' = clock
      /\ dirs' = dirs /\ mtime' = mtime /\ live' = live /\ asOf' = asOf
      /\ \A q \in Procs : q # Gc => pc'[q] = pc[q] /\ todo'[q] = todo[q]
      /\ pc'[Gc] \in {"retire", "remove"}
      /\ byId' \subseteq byId
      /\ todo'[Gc] = todo[Gc] \/ (todo'[Gc] \ todo[Gc]) \subseteq byId \ byId'
  <2>1. CASE GcTick
    BY <1>1, <2>1 DEF GcTick, registryVars, diskVars, handlerVars, envVars, IndexInv, TypeOK
  <2>2. CASE GcUnlock
    BY <1>1, <2>2 DEF GcUnlock, registryVars, diskVars, handlerVars, envVars, IndexInv, TypeOK
  <2>3. ASSUME NEW t \in stale, GcRetire(t)
        PROVE  /\ tok' = tok /\ pc' = pc /\ live' = live /\ asOf' = asOf /\ pc[Gc] = "retire"
               /\ owner' = owner /\ hpc' = hpc /\ hsess' = hsess /\ clock' = clock
               /\ dirs' = dirs /\ mtime' = mtime
               /\ \A q \in Procs : q # Gc => todo'[q] = todo[q]
               /\ byId' = byId \ {t} /\ t \in byId
               /\ todo'[Gc] = todo[Gc] \union {t}
    BY <1>1, <2>3 DEF GcRetire, diskVars, handlerVars, envVars, IndexInv, TypeOK, StaleLive
  <2> QED BY <2>1, <2>2, <2>3
<1>3. \A d \in Creators : (Seeding(d)' <=> Seeding(d)) /\ (Pending(d)' <=> Pending(d))
  BY <1>2 DEF Seeding, Pending, Procs
<1>4. ASSUME NEW x \in todo'[Gc] PROVE x \in todo[Gc] \/ (x \in byId /\ x \notin byId')
  BY <1>2, <1>4
<1>5. LiveDirsExist' /\ GoneMeansExpired'
  BY <1>2 DEF DiskInv, LiveDirsExist, GoneMeansExpired
<1>6. Minted'
  <2>1. \A p \in Procs : \A x \in todo'[p] : owner'[x] # None
    BY <1>1, <1>2, <1>4 DEF DiskInv, Minted, LiveDirsExist
  <2> QED BY <1>2, <1>3, <2>1 DEF DiskInv, Minted
<1>7. TodoDead'
  <2>1. \A d \in Creators : Seeding(d) => tok[d] \notin byId
    BY DEF Seeding, Pending, IndexInv, PendingOwned
  <2> QED BY <1>1, <1>2, <1>3, <1>4, <2>1 DEF DiskInv, TodoDead
<1>8. YoungDirs'
  BY <1>2, <1>3 DEF DiskInv, YoungDirs
<1> QED BY <1>5, <1>6, <1>7, <1>8 DEF DiskInv

\* A handler only ever adds a directory or freshens one.
LEMMA DiskHandlers ==
    ASSUME IndexInv, DiskInv, NEW h \in Handlers, HandlerStep(h)
    PROVE  DiskInv'
<1> USE GcAssumption, NatAssumption
<1>1. /\ byId' = byId /\ owner' = owner /\ tok' = tok /\ pc' = pc /\ todo' = todo /\ live' = live
      /\ asOf' = asOf /\ clock' = clock
      /\ \A g \in Handlers : g # h => hpc'[g] = hpc[g] /\ hsess'[g] = hsess[g]
      /\ hpc'[h] # "idle"
      /\ hsess'[h] \in byId \/ (hpc[h] # "idle" /\ hsess'[h] = hsess[h])
      /\ hpc'[h] = "gone" => hsess'[h] \notin dirs
  BY DEF HandlerStep, HandlerGet, HandlerRead, HandlerMakeParent, HandlerWrite, registryVars,
         diskVars, taskVars, envVars, IndexInv, TypeOK
<1>2. /\ dirs' = dirs \/ (hpc[h] # "idle" /\ dirs' = dirs \union {hsess[h]})
      /\ \/ mtime' = mtime
         \/ hpc[h] # "idle" /\ mtime' = [mtime EXCEPT ![hsess[h]] = clock]
  BY DEF HandlerStep, HandlerGet, HandlerRead, HandlerMakeParent, HandlerWrite, diskVars
<1>3. /\ dirs \subseteq dirs'
      /\ \A x \in Tokens : mtime'[x] = mtime[x] \/ mtime'[x] = clock
  BY <1>2 DEF IndexInv, TypeOK
<1>4. \A d \in Creators : (Seeding(d)' <=> Seeding(d)) /\ (Pending(d)' <=> Pending(d))
  BY <1>1 DEF Seeding, Pending
<1>5. LiveDirsExist'
  BY <1>1, <1>3 DEF DiskInv, LiveDirsExist
<1>6. GoneMeansExpired'
  <2> SUFFICES ASSUME NEW g \in Handlers, hpc'[g] = "gone" PROVE hsess'[g] \notin byId'
    BY DEF GoneMeansExpired
  <2> QED BY <1>1 DEF DiskInv, GoneMeansExpired, LiveDirsExist
<1>7. Minted'
  <2>1. \A x \in dirs' : owner'[x] # None
    BY <1>1, <1>2 DEF DiskInv, Minted
  <2>2. \A g \in Handlers : hpc'[g] # "idle" => owner'[hsess'[g]] # None
    BY <1>1 DEF DiskInv, Minted, LiveDirsExist
  <2>3. \A d \in Creators : Pending(d) => tok[d] \notin byId
    BY DEF IndexInv, PendingOwned
  <2>4. \A g \in Handlers, d \in Creators : hpc'[g] # "idle" /\ Pending(d)' => hsess'[g] # tok'[d]
    BY <1>1, <1>4, <2>3 DEF DiskInv, Minted
  <2> QED BY <1>1, <2>1, <2>2, <2>4 DEF DiskInv, Minted
<1>8. TodoDead'
  BY <1>1, <1>4 DEF DiskInv, TodoDead
<1>9. YoungDirs'
  <2>1. \A d \in Creators : Seeding(d)' =>
           tok'[d] \in dirs' /\ clock' <= mtime'[tok'[d]] + IdleTimeout
    <3> SUFFICES ASSUME NEW d \in Creators, Seeding(d)
                 PROVE  tok[d] \in dirs' /\ clock <= mtime'[tok[d]] + IdleTimeout
      BY <1>1, <1>4
    <3>1. tok[d] \in dirs /\ clock <= mtime[tok[d]] + IdleTimeout /\ tok[d] \in Tokens
      BY DEF DiskInv, YoungDirs, IndexInv, TypeOK
    <3>2. clock \in Nat
      BY DEF IndexInv, TypeOK
    <3> QED BY <1>3, <3>1, <3>2
  <2>2. ASSUME NEW p \in Procs, pc'[p] = "scan"
        PROVE  asOf'[p] <= clock' /\ \A x \in byId' \ live'[p] : asOf'[p] <= mtime'[x] + IdleTimeout
    <3>1. asOf[p] <= clock /\ asOf[p] \in Nat /\ clock \in Nat
      BY <1>1, <2>2 DEF DiskInv, YoungDirs, IndexInv, TypeOK
    <3>2. ASSUME NEW x \in byId \ live[p] PROVE asOf[p] <= mtime'[x] + IdleTimeout
      <4>1. x \in Tokens /\ asOf[p] <= mtime[x] + IdleTimeout
        BY <1>1, <2>2 DEF DiskInv, YoungDirs, IndexInv, TypeOK
      <4> QED BY <1>3, <3>1, <4>1
    <3> QED BY <1>1, <3>1, <3>2
  <2> QED BY <2>1, <2>2 DEF YoungDirs
<1> QED BY <1>5, <1>6, <1>7, <1>8, <1>9 DEF DiskInv

LEMMA DiskTick ==
    ASSUME IndexInv, DiskInv, Tick \/ UNCHANGED vars
    PROVE  DiskInv'
<1> USE NatAssumption
<1>1. UNCHANGED <<registryVars, owner, lastActivity, diskVars, taskVars, handlerVars>>
  BY DEF Tick, vars
<1>2. LiveDirsExist' /\ GoneMeansExpired' /\ Minted' /\ TodoDead'
  BY <1>1 DEF registryVars, diskVars, taskVars, handlerVars, DiskInv, LiveDirsExist,
              GoneMeansExpired, Minted, TodoDead, Seeding, Pending
<1>3. clock <= clock' /\ clock' \in Nat
  BY DEF Tick, vars, envVars, IndexInv, TypeOK
<1>4. \A d \in Creators : Seeding(d) => clock' <= mtime[tok[d]] + IdleTimeout
  <2>1. CASE Tick
    BY <2>1 DEF Tick, IndexInv, TypeOK, PendingOwned, Seeding, Pending
  <2>2. CASE UNCHANGED vars
    BY <2>2 DEF vars, envVars, DiskInv, YoungDirs
  <2> QED BY <2>1, <2>2
<1>5. YoungDirs'
  BY <1>1, <1>3, <1>4 DEF registryVars, diskVars, taskVars, DiskInv, YoungDirs, Seeding, IndexInv,
                          TypeOK
<1> QED BY <1>2, <1>5 DEF DiskInv

LEMMA DiskRestart ==
    ASSUME IndexInv, DiskInv, Restart
    PROVE  DiskInv'
<1>1. /\ byId' = {} /\ dirs' = dirs /\ owner' = owner
      /\ \A p \in Procs : todo'[p] = {} /\ pc'[p] \in {"idle", "sweep"}
      /\ \A h \in Handlers : hpc'[h] = "idle"
  BY DEF Restart, diskVars
<1>2. \A c \in Creators : ~Seeding(c)'
  BY <1>1 DEF Seeding, Procs
<1> QED BY <1>1, <1>2 DEF DiskInv, LiveDirsExist, GoneMeansExpired, Minted, TodoDead, YoungDirs

LEMMA DiskNext ==
    ASSUME IndexInv, DiskInv, [Next]_vars
    PROVE  DiskInv'
<1>1. CASE GcStep
  <2>1. Gc \in Procs
    BY DEF Procs
  <2> QED BY <1>1, <2>1, DiskGc, DiskSweep DEF GcStep
<1>2. ASSUME NEW c \in Creators, CreatorStep(c) PROVE DiskInv'
  <2>1. c \in Procs
    BY DEF Procs
  <2> QED BY <1>2, <2>1, DiskOpenSteps, DiskCreateDir, DiskSeedOk, DiskRegister, DiskSweep
          DEF CreatorStep
<1>3. ASSUME NEW h \in Handlers, HandlerStep(h) PROVE DiskInv'
  BY <1>3, DiskHandlers
<1> QED BY <1>1, <1>2, <1>3, DiskTick, DiskRestart DEF Next

\* The disk invariant holds in every reachable state.
THEOREM DiskInvariant == Spec => []DiskInv
<1>1. IndexInv /\ DiskInv /\ [Next]_vars => DiskInv'
  BY DiskNext
<1> QED BY DiskInit, IndexInvariant, <1>1, PTL DEF Spec

\* No sweep, collection or eviction ever removes the directory of a session
\* the registry serves, however many of them run at once.
THEOREM LiveDirsSafe == Spec => []LiveDirsExist
<1>1. DiskInv => LiveDirsExist
  BY DEF DiskInv
<1> QED BY DiskInvariant, <1>1, PTL

\* 410 session_expired is never answered for a session that is still live.
THEOREM GoneSafe == Spec => []GoneMeansExpired
<1>1. DiskInv => GoneMeansExpired
  BY DEF DiskInv
<1> QED BY DiskInvariant, <1>1, PTL
=============================================================================
