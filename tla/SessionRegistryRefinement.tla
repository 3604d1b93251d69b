--------------------- MODULE SessionRegistryRefinement ---------------------
(***************************************************************************)
(* The registry implements SlotDirectory, for all users, slots, caps and   *)
(* numbers of tasks: every step of it is a step of the directory or shows  *)
(* nothing.                                                                *)
(***************************************************************************)
EXTENDS SessionRegistryProofs

\* What IndexInv says of a create in progress: its token is nobody else's and
\* stays fresh until it is registered.
LEMMA SeedingFacts ==
    ASSUME IndexInv, NEW c \in Creators, Seeding(c)
    PROVE  /\ tok[c] \in Tokens /\ want[c] \in Keys /\ owner[tok[c]] = want[c]
           /\ owner[tok[c]] # None /\ tok[c] \in Fresh
           /\ \A d \in Creators : d # c /\ Seeding(d) => tok[d] # tok[c]
  <1>1. Pending(c) /\ Opening(c) /\ \A d \in Creators : Seeding(d) => Pending(d)
    BY DEF Seeding, Pending, Opening
  <1>2. tok[c] \in Tokens /\ want[c] \in Keys /\ owner[tok[c]] = want[c]
    BY <1>1 DEF IndexInv, PendingOwned
  <1>3. \A d \in Creators : d # c /\ Seeding(d) => tok[d] # tok[c]
    BY <1>1 DEF IndexInv, PendingOwned
  <1> QED
    BY <1>2, <1>3, NoneAssumption DEF Fresh

\* A step that shows nothing: no slot and no fresh token changes.
LEMMA Unseen ==
    ASSUME bySlot' = bySlot, owner' = owner,
           \A c \in Creators : /\ Seeding(c)' <=> Seeding(c)
                               /\ Seeding(c) => tok'[c] = tok[c]
    PROVE  UNCHANGED Directory!vars
  <1>1. Fresh' = Fresh
    <2>1. \A t \in Tokens : t \in Fresh' <=> t \in Fresh
      BY DEF Fresh
    <2> QED
      BY <2>1 DEF Fresh
  <1> QED
    BY <1>1 DEF Directory!vars

\* A create ends, one way or another: its token is no longer fresh.
LEMMA Spent ==
    ASSUME IndexInv, NEW c \in Creators, Seeding(c), ~Seeding(c)', owner' = owner,
           \A d \in Creators : d # c => pc'[d] = pc[d] /\ tok'[d] = tok[d]
    PROVE  Fresh' = Fresh \ {tok[c]}
  <1>1. /\ tok[c] \in Tokens /\ owner[tok[c]] # None
        /\ \A d \in Creators : d # c /\ Seeding(d) => tok[d] # tok[c]
    BY SeedingFacts
  <1>2. \A d \in Creators : d # c => (Seeding(d)' <=> Seeding(d))
    BY DEF Seeding
  <1>3. \A t \in Tokens : t \in Fresh' <=> t \in Fresh /\ t # tok[c]
    <2> TAKE t \in Tokens
    <2>1. CASE t = tok[c]
      BY <1>1, <1>2, <2>1 DEF Fresh
    <2>2. CASE t # tok[c]
      BY <1>2, <2>2 DEF Fresh
    <2> QED
      BY <2>1, <2>2
  <1> QED
    BY <1>3 DEF Fresh

\* An attempt to open a slot that comes to nothing.
LEMMA Wasted ==
    ASSUME IndexInv, NEW c \in Creators, Seeding(c), ~Seeding(c)', owner' = owner, bySlot' = bySlot,
           \A d \in Creators : d # c => pc'[d] = pc[d] /\ tok'[d] = tok[d]
    PROVE  Directory!Next
  <1>1. tok[c] \in Tokens /\ tok[c] \in Fresh
    BY SeedingFacts
  <1>2. Fresh' = Fresh \ {tok[c]}
    BY Spent
  <1>3. Directory!Waste(tok[c])
    BY <1>1, <1>2 DEF Directory!Waste
  <1> QED
    BY <1>1, <1>3 DEF Directory!Next

-----------------------------------------------------------------------------
(* One step after the other.                                               *)

\* lookup_or_create, but for the registration itself.
LEMMA OpenRefines ==
    ASSUME IndexInv, NEW c \in Creators,
           \/ \E k \in Keys : OpenExisting(c, k) \/ OpenMissing(c, k)
           \/ SeedOk(c) \/ SeedFail(c) \/ LoseRace(c) \/ DropOwnDir(c) \/ AbandonOpen(c)
    PROVE  [Directory!Next]_Directory!vars
  <1>0. c \in Procs /\ c # Gc /\ pc \in [Procs -> CreatorPlaces \union GcPlaces]
        /\ tok \in [Creators -> Tokens \union {None}] /\ \A d \in Creators : d \in Procs
    BY GcAssumption DEF Procs, IndexInv, TypeOK
  <1>1. ASSUME NEW k \in Keys, OpenExisting(c, k)
        PROVE  UNCHANGED Directory!vars
    BY <1>1, Unseen DEF OpenExisting, taskVars, Seeding
  <1>2. ASSUME NEW k \in Keys, OpenMissing(c, k)
        PROVE  UNCHANGED Directory!vars
    <2>1. /\ pc[c] = "idle" /\ pc' = [pc EXCEPT ![c] = "sweep"] /\ tok' = tok
          /\ bySlot' = bySlot /\ owner' = owner
      BY <1>2 DEF OpenMissing, registryVars
    <2>2. \A d \in Creators : Seeding(d)' <=> Seeding(d)
      BY <1>0, <2>1 DEF Seeding
    <2> QED
      BY <2>1, <2>2, Unseen
  <1>3. CASE SeedOk(c)
    <2>1. /\ pc[c] = "seed" /\ pc' = [pc EXCEPT ![c] = "insert"] /\ tok' = tok
          /\ bySlot' = bySlot /\ owner' = owner
      BY <1>3 DEF SeedOk, registryVars
    <2>2. \A d \in Creators : Seeding(d)' <=> Seeding(d)
      BY <1>0, <2>1 DEF Seeding
    <2> QED
      BY <2>1, <2>2, Unseen
  <1>4. CASE SeedFail(c) \/ LoseRace(c)
    <2>1. /\ pc[c] \in {"seed", "insert"}
          /\ \/ pc' = [pc EXCEPT ![c] = "idle"] /\ tok' = [tok EXCEPT ![c] = None]
             \/ pc' = [pc EXCEPT ![c] = "yield"] /\ tok' = tok
          /\ bySlot' = bySlot /\ owner' = owner
      BY <1>4 DEF SeedFail, LoseRace, registryVars
    <2>2. Seeding(c) /\ ~Seeding(c)'
      BY <1>0, <2>1 DEF Seeding
    <2>3. \A d \in Creators : d # c => pc'[d] = pc[d] /\ tok'[d] = tok[d]
      BY <1>0, <2>1
    <2> QED
      BY <2>1, <2>2, <2>3, Wasted
  <1>5. CASE DropOwnDir(c) \/ AbandonOpen(c)
    <2>1. /\ pc' = [pc EXCEPT ![c] = "idle"] /\ tok' = [tok EXCEPT ![c] = None]
          /\ bySlot' = bySlot /\ owner' = owner
      BY <1>5 DEF DropOwnDir, AbandonOpen, registryVars
    <2>2. /\ ~Seeding(c)'
          /\ \A d \in Creators : d # c => pc'[d] = pc[d] /\ tok'[d] = tok[d]
      BY <1>0, <2>1 DEF Seeding
    <2>3. CASE Seeding(c)
      BY <2>1, <2>2, <2>3, Wasted
    <2>4. CASE ~Seeding(c)
      <3>1. \A d \in Creators : (Seeding(d)' <=> Seeding(d)) /\ (Seeding(d) => tok'[d] = tok[d])
        BY <2>2, <2>4 DEF Seeding
      <3> QED
        BY <2>1, <3>1, Unseen
    <2> QED
      BY <2>3, <2>4
  <1> QED
    BY <1>1, <1>2, <1>3, <1>4, <1>5

\* Minting a token: it was fresh, and it still is.
LEMMA CreateDirRefines ==
    ASSUME IndexInv, NEW c \in Creators, CreateDir(c)
    PROVE  UNCHANGED Directory!vars
  <1>0. /\ c \in Procs /\ c # Gc /\ pc \in [Procs -> CreatorPlaces \union GcPlaces]
        /\ tok \in [Creators -> Tokens \union {None}] /\ \A d \in Creators : d \in Procs
        /\ owner \in [Tokens -> Keys \union {None}]
    BY GcAssumption DEF Procs, IndexInv, TypeOK
  <1>1. PICK x \in Tokens : /\ owner[x] = None
                            /\ owner' = [owner EXCEPT ![x] = want[c]]
                            /\ tok' = [tok EXCEPT ![c] = x]
    BY DEF CreateDir
  <1>2. pc[c] = "mint" /\ pc' = [pc EXCEPT ![c] = "seed"] /\ bySlot' = bySlot
    BY DEF CreateDir, registryVars
  <1>3. /\ ~Seeding(c) /\ Seeding(c)' /\ tok'[c] = x
        /\ \A d \in Creators : d # c => (Seeding(d)' <=> Seeding(d)) /\ tok'[d] = tok[d]
    BY <1>0, <1>1, <1>2 DEF Seeding
  <1>4. \A t \in Tokens : t \in Fresh' <=> t \in Fresh
    <2> TAKE t \in Tokens
    <2>1. CASE t = x
      BY <1>1, <1>3, <2>1 DEF Fresh
    <2>2. CASE t # x
      <3>1. owner'[t] = owner[t]
        BY <1>0, <1>1, <2>2
      <3> QED
        BY <1>3, <2>2, <3>1 DEF Fresh
    <2> QED
      BY <2>1, <2>2
  <1>5. Fresh' = Fresh
    BY <1>4 DEF Fresh
  <1> QED
    BY <1>2, <1>5 DEF Directory!vars

\* The registration binds the slot, at the cost of the same user's oldest ones.
LEMMA RegisterRefines ==
    ASSUME IndexInv, NEW c \in Creators, Register(c)
    PROVE  Directory!Next
  <1> DEFINE t   == tok[c]
             w   == want[c]
             out == Evicted(byUser[w[1]])
             E   == {e \in Keys : \E x \in out \intersect byId : owner[x] = e}
  <1>0. /\ c \in Procs /\ c # Gc /\ pc \in [Procs -> CreatorPlaces \union GcPlaces]
        /\ tok \in [Creators -> Tokens \union {None}] /\ \A d \in Creators : d \in Procs
        /\ bySlot \in [Keys -> Tokens \union {None}] /\ byUser \in [Users -> Seq(Tokens)]
    BY GcAssumption DEF Procs, IndexInv, TypeOK
  <1>1. /\ pc[c] = "insert" /\ ~Found(w)
        /\ bySlot' = [ForgetSlots(out \intersect byId) EXCEPT ![w] = t]
        /\ pc' = [pc EXCEPT ![c] = "remove"] /\ tok' = [tok EXCEPT ![c] = None] /\ owner' = owner
    BY DEF Register
  <1>2. Seeding(c) /\ ~Seeding(c)'
    BY <1>0, <1>1 DEF Seeding
  <1>3. \A d \in Creators : d # c => pc'[d] = pc[d] /\ tok'[d] = tok[d]
    BY <1>0, <1>1
  <1>4. t \in Tokens /\ w \in Keys /\ t \in Fresh
    BY <1>2, SeedingFacts
  <1>5. Fresh' = Fresh \ {t}
    BY <1>1, <1>2, <1>3, Spent
  <1>6. bySlot[w] = None
    BY <1>1, <1>4 DEF Found, IndexInv, IndicesAgree, SlotExact
  <1>7. \A e \in E : e[1] = w[1]
    <2>1. w[1] \in Users
      BY <1>4 DEF Keys
    <2>2. byUser[w[1]] \in Seq(Tokens) /\ Lists(byUser[w[1]], SessionsOf(w[1]))
      BY <1>0, <2>1 DEF IndexInv, IndicesAgree, QueueExact
    <2>3. out \subseteq SessionsOf(w[1])
      BY <2>2, KeptFacts
    <2> QED
      BY <2>3 DEF SessionsOf
  <1>8. bySlot' = [e \in Keys |-> IF e = w THEN t ELSE IF e \in E THEN None ELSE bySlot[e]]
    BY <1>1, <1>4 DEF ForgetSlots
  <1>9. E \in SUBSET Keys
    OBVIOUS
  <1> HIDE DEF t, w, out, E
  <1>10. Directory!Bind(w, t, E)
    BY <1>4, <1>5, <1>6, <1>7, <1>8 DEF Directory!Bind, Directory!Keys, Keys
  <1> QED
    BY <1>4, <1>9, <1>10 DEF Directory!Next, Directory!Keys, Keys

\* Sweeps touch directories and lists, which nobody sees.
LEMMA SweepRefines ==
    ASSUME IndexInv, NEW p \in Procs, SweepStep(p)
    PROVE  UNCHANGED Directory!vars
  <1>1. /\ bySlot' = bySlot /\ owner' = owner /\ tok' = tok
        /\ \A q \in Procs : q # p => pc'[q] = pc[q]
        /\ pc[p] \in {"sweep", "scan", "purge", "remove"}
        /\ pc'[p] \in {"scan", "purge", "mint", "idle", "sweep", "remove"}
    BY DEF SweepStep, SweepSnapshot, SweepScan, RemoveDir, RemoveDone, registryVars, IndexInv, TypeOK
  <1>2. \A d \in Creators : Seeding(d)' <=> Seeding(d)
    BY <1>1 DEF Seeding, Procs
  <1> QED
    BY <1>1, <1>2, Unseen

\* The garbage collection expires one session after the other.
LEMMA GcRefines ==
    ASSUME IndexInv, GcTick \/ GcUnlock \/ \E t \in stale : GcRetire(t)
    PROVE  [Directory!Next]_Directory!vars
  <1>0. /\ Gc \in Procs /\ pc \in [Procs -> CreatorPlaces \union GcPlaces]
        /\ \A d \in Creators : d \in Procs /\ d # Gc
        /\ bySlot \in [Keys -> Tokens \union {None}]
    BY GcAssumption DEF Procs, IndexInv, TypeOK
  <1>1. CASE GcTick \/ GcUnlock
    <2>1. /\ bySlot' = bySlot /\ owner' = owner /\ tok' = tok
          /\ \A d \in Creators : pc'[d] = pc[d]
      BY <1>0, <1>1 DEF GcTick, GcUnlock, registryVars
    <2> QED
      BY <2>1, Unseen DEF Seeding
  <1>2. ASSUME NEW t \in stale, GcRetire(t)
        PROVE  Directory!Next
    <2> DEFINE k == owner[t]
    <2>1. bySlot' = ForgetSlots({t}) /\ owner' = owner /\ tok' = tok /\ pc' = pc
      BY <1>2 DEF GcRetire
    <2>2. t \in byId /\ k \in Keys /\ bySlot[k] = t /\ t # None
      BY NoneAssumption DEF IndexInv, TypeOK, StaleLive, IndicesAgree, SlotExact
    <2>3. bySlot' = [bySlot EXCEPT ![k] = None]
      BY <1>0, <2>1, <2>2 DEF ForgetSlots
    <2>4. Fresh' = Fresh
      BY <2>1 DEF Fresh, Seeding
    <2> HIDE DEF k
    <2>5. Directory!Expire(k)
      BY <2>2, <2>3, <2>4 DEF Directory!Expire
    <2> QED
      BY <2>2, <2>5 DEF Directory!Next, Directory!Keys, Keys
  <1> QED
    BY <1>1, <1>2

\* A crash forgets every slot and every create.
LEMMA RestartRefines ==
    ASSUME IndexInv, Restart
    PROVE  Directory!Next
  <1>1. bySlot' = [k \in Keys |-> None] /\ owner' = owner
    BY DEF Restart
  <1>2. \A c \in Creators : ~Seeding(c)'
    BY DEF Restart, Seeding, Procs
  <1>3. Fresh' \subseteq Fresh
    BY <1>1, <1>2 DEF Fresh
  <1>4. Directory!Crash
    BY <1>1, <1>3 DEF Directory!Crash, Directory!Keys, Keys
  <1> QED
    BY <1>4 DEF Directory!Next

-----------------------------------------------------------------------------
(* The refinement.                                                         *)

LEMMA RefinesInit ==
    ASSUME Init
    PROVE  Directory!Init
  <1>1. bySlot = [k \in Keys |-> None] /\ \A t \in Tokens : owner[t] = None
    BY DEF Init
  <1>2. Fresh = Tokens
    BY <1>1 DEF Fresh
  <1> QED
    BY <1>1, <1>2 DEF Directory!Init, Directory!Keys, Keys

LEMMA RefinesNext ==
    ASSUME IndexInv, [Next]_vars
    PROVE  [Directory!Next]_Directory!vars
  <1>1. CASE GcStep
    <2>1. Gc \in Procs
      BY DEF Procs
    <2> QED
      BY <1>1, <2>1, GcRefines, SweepRefines DEF GcStep
  <1>2. ASSUME NEW c \in Creators, CreatorStep(c)
        PROVE  [Directory!Next]_Directory!vars
    <2>1. c \in Procs
      BY DEF Procs
    <2> QED
      BY <1>2, <2>1, OpenRefines, CreateDirRefines, RegisterRefines, SweepRefines DEF CreatorStep
  <1>3. CASE Restart
    BY <1>3, RestartRefines
  <1>4. CASE (\E h \in Handlers : HandlerStep(h)) \/ Tick \/ UNCHANGED vars
    <2>1. bySlot' = bySlot /\ owner' = owner /\ tok' = tok /\ pc' = pc
      BY <1>4 DEF HandlerStep, HandlerGet, HandlerRead, HandlerMakeParent, HandlerWrite, Tick, vars,
                  registryVars, taskVars
    <2> QED
      BY <2>1, Unseen DEF Seeding
  <1> QED
    BY <1>1, <1>2, <1>3, <1>4 DEF Next

\* What requests see of the registry is an abstract directory: a slot is bound
\* once to a fresh session, a name that was lost never comes back, and a user's
\* open costs nobody but that user a session, whatever races, sweeps, dropped
\* requests and crashes go on underneath.
THEOREM RegistryRefinesDirectory == Spec => ImplementsSlotDirectory
  <1>1. Init => Directory!Init
    BY RefinesInit
  <1>2. IndexInv /\ [Next]_vars => [Directory!Next]_Directory!vars
    BY RefinesNext
  <1> QED
    BY <1>1, <1>2, IndexInvariant, PTL DEF Spec, ImplementsSlotDirectory, Directory!Spec
=============================================================================
