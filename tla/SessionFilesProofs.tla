------------------------- MODULE SessionFilesProofs -------------------------
(***************************************************************************)
(* Proofs about SessionFiles: its types, with the shape of the directory   *)
(* tree; the bound on what a session holds when requests overlap; that the *)
(* file count never wraps around; that every byte on disk is counted; and  *)
(* that the main entry is a file.                                          *)
(***************************************************************************)
EXTENDS SessionFiles, Sums

-----------------------------------------------------------------------------
(* The inductive invariants.                                               *)

\* A name exists only inside a directory.
Tree(nd) == \A p \in Paths : nd[p] # None /\ Parent[p] # None => nd[Parent[p]] = Dir

\* A request has the locals that the rest of it uses, and is of a kind its task
\* may serve.
Good(r, k) ==
    /\ k \in Requests
    /\ k.at \in {"stat", "grow", "count", "remove", "body", "add"} => k.path \in Paths
    /\ k.at \in {"grow", "count"} => k.prior \in Nat \union {None}
    /\ k.at = "remove" => k.prior \in Nat \union {Dir}
    /\ k.at = "uncount" => k.prior \in Nat
    /\ k.at = "unwrap" => k.todo \subseteq k.done /\ \A p \in k.done : Parent[p] # None
    /\ k.at \in {"stat", "grow", "count"} => "put" \in setup.kinds[r]
    /\ k.at \in {"next", "body", "add"} => k.upload
    /\ k.upload => "upload" \in setup.kinds[r]
    /\ k.at = "promote" => "archive" \in setup.kinds[r]
    /\ k.at = "add" => 1 <= UploadMax

FilesTyped ==
    /\ setup \in Setups
    /\ node \in Nodes /\ Tree(node)
    /\ bytesUsed \in Nat
    /\ fileCount \in 0..(CountMod - 1)
    /\ mainEntry \in Paths \union {None}
    /\ staging \subseteq Tasks
    /\ stray \in Nat
    /\ req \in [Tasks -> Requests]
    /\ \A r \in Tasks : Good(r, req[r])

\* The bytes a request k has written and not counted.
Owed(k) ==
    IF k.at = "count" THEN Max({0, k.size - (IF k.prior = None THEN 0 ELSE k.prior)})
    ELSE IF k.at = "add" THEN 1 ELSE 0

\* Those of all requests, one pair for each byte: sets can be counted where a sum
\* would need an induction.
Reserved == {x \in Tasks \X (1..UploadMax) : x[2] <= Owed(req[x[1]])}

NoArchive == \A r \in Tasks : "archive" \notin setup.kinds[r]
Extra     == Max({0, Cardinality(Writers) - 1})

\* What is counted and what is about to be are within the bound together.
BytesBounded == NoArchive => bytesUsed + Cardinality(Reserved) <= QuotaBytes + Extra * UploadMax

FilesInv == FilesTyped /\ BytesBounded

\* The files a request k has yet to add to the count.
FilesOwed(k) ==
    IF k.at = "count" /\ k.prior = None THEN 1
    ELSE IF k.at \in {"body", "add"} THEN 1
    ELSE IF k.at = "promote" /\ ~k.dropped THEN k.off + Cardinality(k.todo) ELSE 0

MaxFiles   == Max({QuotaFiles, MaxCount})
FilesDue   == [t \in Tasks |-> FilesOwed(req[t])]
OneDeleter ==
    \A r, o \in Tasks : r # o /\ "delete" \in setup.kinds[r] =>
        setup.kinds[o] \intersect {"delete", "clear"} = {}

\* A request that takes files off the count is of a kind that may.
CountGood(r, k) ==
    /\ k.at \in {"remove", "uncount", "less"} => "delete" \in setup.kinds[r]
    /\ k.at = "clear" => "clear" \in setup.kinds[r]
    /\ k.at = "promote" => IsFiniteSet(k.todo)
    /\ FilesOwed(k) \in 0..MaxFiles

\* What is counted and what will be fits file_count, and a delete that has read
\* the count finds no less when it subtracts.
CountFits ==
    /\ Tasks # {} => fileCount + Weight(FilesDue, Tasks) <= MaxFiles * Cardinality(Tasks)
    /\ \A r \in Tasks : req[r].at = "less" => req[r].take <= fileCount

CountInv == (\A r \in Tasks : CountGood(r, req[r])) /\ (OneDeleter => CountFits)

\* The first n bytes of a file, and those of a file that a request k has seen.
Bytes(p, n) == {p} \X (0..(n - 1))
Seen(k) ==
    IF k.at \in {"grow", "count", "uncount"} THEN (IF k.prior = None THEN 0 ELSE k.prior)
    ELSE IF k.at = "body" THEN k.off
    ELSE IF k.at = "add" THEN k.off + 1 ELSE 0

\* What is on disk or was, when a request looked.
Known == Units(node, Files(node)) \union UNION {Bytes(req[t].path, Seen(req[t])) : t \in Tasks}

\* The bytes a request k has yet to add to bytes_used, or to leave behind.
Due(k)   == IF k.at = "promote" THEN k.off ELSE Owed(k)
BytesDue == [t \in Tasks |-> Due(req[t])]
Counted  == IsFiniteSet(Known) /\ Cardinality(Known) <= bytesUsed + stray + Weight(BytesDue, Tasks)

\* No request takes files off the count, so the session is never empty again and no
\* upload is unwrapped.
NothingTaken == \A r \in Tasks : setup.kinds[r] \intersect {"delete", "clear"} = {}

\* A request k that is all alone: what it has looked at is as it was.
Undisturbed(nd, k) ==
    /\ k.at = "remove" => nd[k.path] = k.prior
    /\ k.at = "uncount" => k.path \in Paths /\ nd[k.path] = None
    /\ k.at = "clear" => k.todo = {p \in Top : nd[p] # None}

\* Every request is of a kind its task may serve, and does not unwrap needlessly.
Busy(r, k) ==
    /\ k.at # "idle" => setup.kinds[r] # {}
    /\ k.at = "unwrap" => "upload" \in setup.kinds[r]
    /\ NothingTaken => ~k.fresh /\ k.at # "unwrap"

\* A request that will store a main entry, or none.
Mending(k) == k.at \in {"uncount", "less", "clear", "pick", "store"}
IsEntry(nd, p) == p \in Files(nd) \union {None}
EntryKept ==
    /\ \A t \in Tasks : req[t].at = "store" => IsEntry(node, req[t].pick)
    /\ IsEntry(node, mainEntry) \/ (~Growing(setup) /\ \E t \in Tasks : Mending(req[t]))

DiskInv ==
    /\ IsFiniteSet(Files(node))
    /\ \A t \in Tasks : Busy(t, req[t])
    /\ NothingTaken => fileCount >= 1
    /\ Alone(setup) => \A t \in Tasks : Undisturbed(node, req[t])
    /\ Growing(setup) \/ Alone(setup) => Counted
    /\ Steady(setup) => EntryKept

-----------------------------------------------------------------------------
(* Constants and numbers.                                                  *)

\* What the constants are.
LEMMA Names ==
    /\ None \notin Paths /\ Dir \notin Paths /\ None \notin Int /\ Dir \notin Int /\ None # Dir
    /\ \A p \in Paths : Parent[p] \in Paths \union {None} /\ Base[p] \in Paths /\ Rank[p] \in Nat
    /\ \A p \in Paths : Parent[p] # None => Parent[Parent[p]] = None /\ Parent[Base[p]] = None
    /\ \A p \in Paths : Parent[p] # p
  <1>1. /\ {None, Dir} \intersect (Paths \union Int) = {} /\ None # Dir
        /\ Parent \in [Paths -> Paths \union {None}] /\ Base \in [Paths -> Paths] /\ Rank \in [Paths -> Nat]
        /\ \A p, q \in Paths : Parent[p] = q => Parent[q] = None
        /\ \A p \in Paths : Parent[p] # None => Parent[Base[p]] = None
    BY FilesNamesAssumption
  <1>2. None \notin Paths /\ Dir \notin Paths /\ None \notin Int /\ Dir \notin Int
    BY <1>1
  <1> QED
    BY <1>1, <1>2

LEMMA Numbers ==
    /\ QuotaBytes \in Nat /\ QuotaFiles \in Nat /\ UploadMax \in Nat /\ CountMod \in Nat \ {0}
    /\ QuotaFiles < CountMod /\ MaxFields \in Nat
    /\ IsFiniteSet(Tasks)
  BY FilesConstantsAssumption

\* The larger and the smaller of two numbers.
LEMMA MaxOfTwo ==
    ASSUME NEW a \in Int, NEW b \in Int
    PROVE  Max({a, b}) = IF a >= b THEN a ELSE b
  <1> DEFINE v == IF a >= b THEN a ELSE b
  <1>1. v \in {a, b} /\ \A y \in {a, b} : v >= y
    OBVIOUS
  <1>2. \A x \in {a, b} : (\A y \in {a, b} : x >= y) => x = v
    OBVIOUS
  <1> QED
    BY <1>1, <1>2 DEF Max

LEMMA MinOfTwo ==
    ASSUME NEW a \in Int, NEW b \in Int
    PROVE  Min({a, b}) = IF a <= b THEN a ELSE b
  <1> DEFINE v == IF a <= b THEN a ELSE b
  <1>1. v \in {a, b} /\ \A y \in {a, b} : v <= y
    OBVIOUS
  <1>2. \A x \in {a, b} : (\A y \in {a, b} : x <= y) => x = v
    OBVIOUS
  <1> QED
    BY <1>1, <1>2 DEF Min

\* What find_main_tex picks is one of the files, if there is any.
LEMMA PreferredTypes ==
    ASSUME NEW P \in SUBSET Paths
    PROVE  Preferred(P) \in P \union {None}
  <1>1. CASE P = {}
    BY <1>1 DEF Preferred
  <1>2. CASE P # {}
    <2> DEFINE R == {Rank[p] : p \in P}
    <2>1. R \subseteq Nat /\ R # {}
      BY <1>2, Names
    <2>2. \E x \in R : \A y \in R : ~ (<<y, x>> \in OpToRel(<, Nat))
      <3> HIDE DEF R
      <3> QED
        BY <2>1, NatLessThanWellFounded, WFMin
    <2>3. PICK x \in R : \A y \in R : ~ (<<y, x>> \in OpToRel(<, Nat))
      BY <2>2
    <2>4. \A y \in R : x <= y
      <3> HIDE DEF R
      <3> TAKE y \in R
      <3>1. x \in Nat /\ y \in Nat
        BY <2>1
      <3>2. ~(y < x)
        BY <2>3, <3>1 DEF OpToRel
      <3> QED
        BY <3>1, <3>2
    <2>5. \E p \in P : \A q \in P : Rank[p] <= Rank[q]
      BY <2>3, <2>4
    <2> QED
      BY <1>2, <2>5 DEF Preferred
  <1> QED
    BY <1>1, <1>2

-----------------------------------------------------------------------------
(* The directory tree.                                                     *)

\* A file takes a name inside a directory, or a name that is no directory goes.
LEMMA PlacedTree ==
    ASSUME NEW nd \in Nodes, Tree(nd), NEW p \in Paths, NEW v \in Nat \union {None, Dir},
           nd[p] # Dir, v # None /\ Parent[p] # None => nd[Parent[p]] = Dir
    PROVE  /\ [nd EXCEPT ![p] = v] \in Nodes /\ Tree([nd EXCEPT ![p] = v])
           /\ [nd EXCEPT ![p] = v][p] = v
           /\ \A q \in Paths : q # p => [nd EXCEPT ![p] = v][q] = nd[q]
  <1> DEFINE new == [nd EXCEPT ![p] = v]
  <1>1. /\ new \in Nodes /\ \A q \in Paths : new[q] = IF q = p THEN v ELSE nd[q]
    BY DEF Nodes
  <1> HIDE DEF new
  <1>2. Tree(new)
    <2> SUFFICES ASSUME NEW q \in Paths, new[q] # None, Parent[q] # None
                 PROVE  new[Parent[q]] = Dir
      BY DEF Tree
    <2>1. Parent[q] \in Paths /\ Parent[q] # q
      BY Names
    <2>2. CASE q = p
      BY <1>1, <2>1, <2>2
    <2>3. CASE q # p
      <3>1. nd[Parent[q]] = Dir
        BY <1>1, <2>3 DEF Tree
      <3> QED
        BY <1>1, <2>1, <3>1
    <2> QED
      BY <2>2, <2>3
  <1> QED
    BY <1>1, <1>2 DEF new

\* create_dir_all of a parent keeps a tree a tree, and files files.
LEMMA WithParentTree ==
    ASSUME node \in Nodes, Tree(node), NEW p \in Paths, CanHold(p)
    PROVE  /\ WithParent(p) \in Nodes /\ Tree(WithParent(p)) /\ WithParent(p)[p] = node[p]
           /\ Parent[p] # None => WithParent(p)[Parent[p]] = Dir
           /\ \A q \in Paths : node[q] \notin {None, Dir} => WithParent(p)[q] = node[q]
  <1> DEFINE new == WithParent(p)
  <1>1. /\ new \in Nodes /\ \A q \in Paths : new[q] = IF q = Parent[p] THEN Dir ELSE node[q]
    BY DEF WithParent, Nodes
  <1>2. Parent[p] # p /\ (Parent[p] # None => Parent[p] \in Paths /\ Parent[Parent[p]] = None)
    BY Names
  <1>3. Parent[p] # None => node[Parent[p]] \in {None, Dir}
    BY DEF CanHold
  <1> HIDE DEF new
  <1>4. Tree(new)
    <2> SUFFICES ASSUME NEW q \in Paths, new[q] # None, Parent[q] # None
                 PROVE  new[Parent[q]] = Dir
      BY DEF Tree
    <2>1. Parent[q] \in Paths
      BY Names
    <2>2. q # Parent[p]
      BY <1>2, Names
    <2>3. node[Parent[q]] = Dir
      BY <1>1, <2>2 DEF Tree
    <2> QED
      BY <1>1, <2>1, <2>3
  <1>5. \A q \in Paths : node[q] \notin {None, Dir} => new[q] = node[q]
    <2> TAKE q \in Paths
    <2> HAVE node[q] \notin {None, Dir}
    <2>1. q # Parent[p]
      BY <1>2, <1>3, Names
    <2> QED
      BY <1>1, <2>1
  <1>6. new[p] = node[p] /\ (Parent[p] # None => new[Parent[p]] = Dir)
    BY <1>1, <1>2
  <1> QED
    BY <1>1, <1>4, <1>5, <1>6 DEF new

\* remove_dir_all keeps a tree a tree.
LEMMA RemovedTree ==
    ASSUME node \in Nodes, Tree(node), NEW P \in SUBSET Paths
    PROVE  Removed(P) \in Nodes /\ Tree(Removed(P))
  <1> DEFINE new == Removed(P)
  <1>1. /\ new \in Nodes
        /\ \A q \in Paths : new[q] = IF q \in P \/ Parent[q] \in P THEN None ELSE node[q]
    BY DEF Removed, Nodes
  <1> HIDE DEF new
  <1>2. Tree(new)
    <2> SUFFICES ASSUME NEW q \in Paths, new[q] # None, Parent[q] # None
                 PROVE  new[Parent[q]] = Dir
      BY DEF Tree
    <2>1. Parent[q] \in Paths /\ Parent[Parent[q]] = None /\ None \notin P
      BY Names
    <2>2. q \notin P /\ Parent[q] \notin P /\ node[q] # None
      BY <1>1
    <2>3. node[Parent[q]] = Dir
      BY <2>2 DEF Tree
    <2> QED
      BY <1>1, <2>1, <2>2, <2>3
  <1> QED
    BY <1>1, <1>2 DEF new

\* The size of a file.
LEMMA FileSize ==
    ASSUME node \in Nodes, NEW p \in Paths
    PROVE  /\ node[p] \in Nat \union {None, Dir}
           /\ p \in Files(node) <=> node[p] \in Nat
           /\ node[p] \notin {None, Dir} <=> node[p] \in Nat
  <1>1. node[p] \in Nat \union {None, Dir}
    BY DEF Nodes
  <1>2. None \notin Nat /\ Dir \notin Nat
    BY Names
  <1> QED
    BY <1>1, <1>2 DEF Files

-----------------------------------------------------------------------------
(* What requests owe.                                                      *)

LEMMA IdleGood ==
    ASSUME NEW r
    PROVE  Good(r, Idle) /\ Owed(Idle) = 0 /\ Idle \in Requests
  <1>1. Idle \in Requests
    BY Numbers DEF Idle, Requests, Places, Sizes
  <1>2. Idle.at = "idle" /\ Idle.upload = FALSE
    BY DEF Idle
  <1> QED
    BY <1>1, <1>2 DEF Good, Owed

\* A request that refreshes the main entry has nothing else left to do.
LEMMA PickGood ==
    ASSUME NEW r
    PROVE  Good(r, [Idle EXCEPT !.at = "pick"]) /\ Owed([Idle EXCEPT !.at = "pick"]) = 0
  <1> DEFINE m == [Idle EXCEPT !.at = "pick"]
  <1>1. Idle \in Requests /\ Idle.upload = FALSE /\ "pick" \in Places
    BY IdleGood DEF Idle, Places
  <1>2. m \in Requests /\ m.at = "pick" /\ m.upload = FALSE
    BY <1>1 DEF Requests
  <1> HIDE DEF m
  <1>3. Good(r, m) /\ Owed(m) = 0
    BY <1>2 DEF Good, Owed
  <1> QED
    BY <1>3 DEF m

\* The fields of a request.
LEMMA Fields ==
    ASSUME NEW k \in Requests
    PROVE  /\ k.at \in Places /\ k.path \in Paths \union {None} /\ k.size \in 0..UploadMax
           /\ k.prior \in Nat \union {None, Dir} /\ k.off \in Nat /\ k.take \in 0..1
           /\ k.fresh \in BOOLEAN /\ k.upload \in BOOLEAN /\ k.dropped \in BOOLEAN
           /\ k.todo \in SUBSET Paths /\ k.done \in SUBSET Paths /\ k.pick \in Paths \union {None}
           /\ k.twice \in SUBSET Paths
  BY DEF Requests, Sizes

\* Noting a name changes the names only.
LEMMA WrittenFields ==
    ASSUME NEW k \in Requests, NEW p \in Paths
    PROVE  /\ Written(k, p) \in Requests /\ Written(k, p).done = k.done \union {p}
           /\ \A f \in {"at", "path", "size", "prior", "off", "take", "fresh", "upload", "dropped",
                      "todo", "pick"} : Written(k, p)[f] = k[f]
  <1>1. k.done \union {p} \in SUBSET Paths /\ k.twice \union ({p} \intersect k.done) \in SUBSET Paths
    BY Fields
  <1> QED
    BY <1>1 DEF Written, Requests

\* A request owes at most a file, and only writers owe.
LEMMA OwedBounds ==
    ASSUME NEW r \in Tasks, NEW k, Good(r, k)
    PROVE  /\ Owed(k) \in 0..UploadMax
           /\ Owed(k) # 0 => r \in Writers
  <1>0. k \in Requests /\ k.size \in 0..UploadMax /\ UploadMax \in Nat
    BY Fields, Numbers DEF Good
  <1>1. CASE k.at = "count"
    <2> DEFINE old == IF k.prior = None THEN 0 ELSE k.prior
    <2>1. k.prior \in Nat \union {None} /\ "put" \in setup.kinds[r]
      BY <1>1 DEF Good
    <2>2. old \in Nat
      BY <2>1
    <2>3. Owed(k) = Max({0, k.size - old})
      BY <1>1 DEF Owed
    <2> HIDE DEF old
    <2>4. k.size \in Nat /\ k.size <= UploadMax
      BY <1>0
    <2>5. k.size - old \in Int /\ 0 \in Int
      BY <2>2, <2>4
    <2>6. Owed(k) = IF 0 >= k.size - old THEN 0 ELSE k.size - old
      BY <2>3, <2>5, MaxOfTwo
    <2>7. Owed(k) \in 0..UploadMax
      BY <1>0, <2>2, <2>4, <2>6
    <2> QED
      BY <2>1, <2>7 DEF Writers
  <1>2. CASE k.at = "add"
    <2>1. "upload" \in setup.kinds[r] /\ 1 <= UploadMax
      BY <1>2 DEF Good
    <2>2. Owed(k) = 1
      BY <1>2 DEF Owed
    <2> QED
      BY <1>0, <2>1, <2>2 DEF Writers
  <1>3. CASE k.at \notin {"count", "add"}
    BY <1>0, <1>3 DEF Owed
  <1> QED
    BY <1>1, <1>2, <1>3

-----------------------------------------------------------------------------
(* Counting what is owed.                                                  *)

\* A set of tasks that owe n bytes each.
LEMMA Pairs ==
    ASSUME NEW S \in SUBSET Tasks, NEW n \in Nat
    PROVE  /\ IsFiniteSet(S) /\ Cardinality(S) \in Nat
           /\ IsFiniteSet(S \X (1..n)) /\ Cardinality(S \X (1..n)) = Cardinality(S) * n
  <1>1. IsFiniteSet(S) /\ Cardinality(S) \in Nat
    BY Numbers, FS_Subset, FS_CardinalityType
  <1>2. IsFiniteSet(1..n) /\ Cardinality(1..n) = n
    <2>1. IsFiniteSet(1..n) /\ Cardinality(1..n) = IF 1 > n THEN 0 ELSE n - 1 + 1
      BY FS_Interval
    <2> QED
      BY <2>1
  <1>3. /\ IsFiniteSet(S \X (1..n))
        /\ Cardinality(S \X (1..n)) = Cardinality(S) * Cardinality(1..n)
    BY <1>1, <1>2, FS_Product
  <1> QED
    BY <1>1, <1>2, <1>3

\* What the bound adds to the quota is a number.
LEMMA BoundNumbers == Extra \in Nat /\ Extra * UploadMax \in Nat
  <1>1. Writers \in SUBSET Tasks
    BY DEF Writers
  <1>2. Cardinality(Writers) \in Nat
    BY <1>1, Pairs, Numbers
  <1>3. Extra \in Nat
    <2> DEFINE w == Cardinality(Writers) - 1
    <2>1. w \in Int /\ 0 \in Int
      BY <1>2
    <2>2. Extra = IF 0 >= w THEN 0 ELSE w
      BY <2>1, MaxOfTwo DEF Extra
    <2> QED
      BY <2>1, <2>2
  <1> QED
    BY <1>3, Numbers

\* What the writers but one owe together.
LEMMA OthersOwe ==
    ASSUME NEW r \in Writers, NEW R \in SUBSET ((Writers \ {r}) \X (1..UploadMax))
    PROVE  Cardinality(R) <= Extra * UploadMax
  <1> DEFINE W == Writers \ {r}
  <1>1. Writers \in SUBSET Tasks /\ W \in SUBSET Tasks /\ UploadMax \in Nat
    BY Numbers DEF Writers
  <1>2. IsFiniteSet(Writers) /\ Cardinality(Writers) \in Nat /\ Cardinality(W) \in Nat
    BY <1>1, Pairs
  <1>3. Cardinality(W) = Cardinality(Writers) - 1
    BY <1>2, FS_RemoveElement
  <1>4. Extra = Cardinality(W)
    <2> DEFINE w == Cardinality(Writers) - 1
    <2>1. w \in Nat /\ 0 \in Int /\ w \in Int
      BY <1>2, <1>3
    <2>2. Extra = IF 0 >= w THEN 0 ELSE w
      BY <2>1, MaxOfTwo DEF Extra
    <2>3. Cardinality(W) = w
      BY <1>3
    <2> HIDE DEF w, W
    <2> QED
      BY <2>1, <2>2, <2>3
  <1>5. /\ IsFiniteSet(W \X (1..UploadMax))
        /\ Cardinality(W \X (1..UploadMax)) = Cardinality(W) * UploadMax
    BY <1>1, Pairs
  <1>6. Cardinality(R) <= Cardinality(W \X (1..UploadMax))
    BY <1>5, FS_Subset
  <1> QED
    BY <1>4, <1>5, <1>6

\* One request moves: the others owe what they owed.
LEMMA Moved ==
    ASSUME FilesTyped, NEW r \in Tasks, NEW k, Good(r, k), Go(r, k)
    PROVE  \E c \in Nat : /\ Cardinality(Reserved) = c + Owed(req[r])
                          /\ Cardinality(Reserved') = c + Owed(k)
                          /\ r \in Writers => c <= Extra * UploadMax
  <1> DEFINE Rest == {x \in Tasks \X (1..UploadMax) : x[1] # r /\ x[2] <= Owed(req[x[1]])}
  <1> DEFINE Mine(n) == {r} \X (1..n)
  <1>1. /\ UploadMax \in Nat /\ \A t \in Tasks : Good(t, req[t])
        /\ k \in Requests /\ req' \in [Tasks -> Requests]
        /\ \A t \in Tasks : req'[t] = IF t = r THEN k ELSE req[t]
    BY Numbers DEF FilesTyped, Good, Go
  <1>2. /\ Owed(k) \in 0..UploadMax
        /\ \A t \in Tasks : Owed(req[t]) \in 0..UploadMax /\ (Owed(req[t]) # 0 => t \in Writers)
    BY <1>1, OwedBounds
  <1>3. /\ IsFiniteSet(Tasks \X (1..UploadMax))
    BY <1>1, Pairs
  <1>4. IsFiniteSet(Rest) /\ Cardinality(Rest) \in Nat
    BY <1>3, FS_Subset, FS_CardinalityType
  <1>5. \A n \in 0..UploadMax :
           /\ IsFiniteSet(Mine(n)) /\ Cardinality(Mine(n)) = n
           /\ Cardinality(Rest \union Mine(n)) = Cardinality(Rest) + n
    <2> TAKE n \in 0..UploadMax
    <2>0. {r} \in SUBSET Tasks /\ n \in Nat
      BY <1>1
    <2>1. IsFiniteSet(Mine(n)) /\ Cardinality(Mine(n)) = Cardinality({r}) * n
      BY <2>0, Pairs
    <2>2. Cardinality({r}) = 1
      BY FS_Singleton
    <2>3. Cardinality(Mine(n)) = n
      BY <2>1, <2>2
    <2>4. Rest \intersect Mine(n) = {}
      OBVIOUS
    <2>5. Cardinality(Rest \intersect Mine(n)) = 0
      BY <2>4, FS_EmptySet
    <2> HIDE DEF Rest, Mine
    <2>6. Cardinality(Rest \union Mine(n)) = Cardinality(Rest) + Cardinality(Mine(n)) - Cardinality(Rest \intersect Mine(n))
      BY <1>4, <2>1, FS_Union
    <2> QED
      BY <1>4, <2>1, <2>3, <2>5, <2>6
  <1>6. Reserved = Rest \union Mine(Owed(req[r]))
    BY <1>1, <1>2 DEF Reserved
  <1>7. Reserved' = Rest \union Mine(Owed(k))
    <2>1. Reserved' = {x \in Tasks \X (1..UploadMax) : x[2] <= Owed(req'[x[1]])}
      BY DEF Reserved, Owed
    <2> QED
      BY <1>1, <1>2, <2>1
  <1>8. r \in Writers => Cardinality(Rest) <= Extra * UploadMax
    <2> SUFFICES ASSUME r \in Writers PROVE Cardinality(Rest) <= Extra * UploadMax
      OBVIOUS
    <2>1. Rest \subseteq (Writers \ {r}) \X (1..UploadMax)
      BY <1>1, <1>2
    <2> HIDE DEF Rest
    <2> QED
      BY <2>1, OthersOwe
  <1> HIDE DEF Rest, Mine
  <1> QED
    BY <1>1, <1>2, <1>4, <1>5, <1>6, <1>7, <1>8

\* A step of one request: what it has written is checked before and counted once.
LEMMA Step ==
    ASSUME FilesInv, NEW r \in Tasks, NEW k, Good(r, k), Go(r, k), setup' = setup,
           node' \in Nodes, Tree(node'), bytesUsed' \in Nat, fileCount' \in 0..(CountMod - 1),
           mainEntry' \in Paths \union {None}, staging' \subseteq Tasks, stray' \in Nat,
           \/ Owed(k) = 0 /\ bytesUsed' <= bytesUsed
           \/ ~NoArchive
           \/ Owed(req[r]) = 0 /\ bytesUsed' = bytesUsed /\ bytesUsed + Owed(k) <= QuotaBytes /\ r \in Writers
           \/ Owed(k) = 0 /\ bytesUsed' = bytesUsed + Owed(req[r])
    PROVE  FilesInv'
  <1>0. FilesTyped
    BY DEF FilesInv
  <1>1. FilesTyped'
    <2>1. /\ k \in Requests /\ req' \in [Tasks -> Requests]
          /\ \A t \in Tasks : req'[t] = IF t = r THEN k ELSE req[t]
      BY <1>0 DEF FilesTyped, Good, Go
    <2>2. \A t \in Tasks : Good(t, req'[t])
      BY <1>0, <2>1 DEF FilesTyped
    <2>3. \A t \in Tasks : Good(t, req[t])'
      BY <2>2 DEF Good
    <2>4. setup' \in Setups /\ Tree(node)'
      BY <1>0 DEF FilesTyped, Tree
    <2> QED
      BY <2>1, <2>3, <2>4 DEF FilesTyped
  <1>2. BytesBounded'
    <2> SUFFICES ASSUME NoArchive'
                 PROVE  bytesUsed' + Cardinality(Reserved') <= QuotaBytes + Extra' * UploadMax
      BY DEF BytesBounded
    <2>1. NoArchive /\ Extra' = Extra
      BY DEF NoArchive, Extra, Writers
    <2> DEFINE E == Extra * UploadMax
    <2>2. PICK c \in Nat : /\ Cardinality(Reserved) = c + Owed(req[r])
                           /\ Cardinality(Reserved') = c + Owed(k)
                           /\ r \in Writers => c <= E
      BY <1>0, Moved
    <2>3. bytesUsed + Cardinality(Reserved) <= QuotaBytes + E
      BY <2>1 DEF FilesInv, BytesBounded
    <2>4. E \in Nat /\ QuotaBytes \in Nat
      BY BoundNumbers, Numbers
    <2>5. Owed(k) \in Nat /\ Owed(req[r]) \in Nat /\ bytesUsed \in Nat
      <3>1. Good(r, req[r]) /\ bytesUsed \in Nat
        BY <1>0 DEF FilesTyped
      <3>2. Owed(k) \in 0..UploadMax /\ Owed(req[r]) \in 0..UploadMax
        BY <3>1, OwedBounds
      <3> QED
        BY <3>1, <3>2, Numbers
    <2> HIDE DEF E
    <2>6. bytesUsed' + Cardinality(Reserved') <= QuotaBytes + E
      BY <2>1, <2>2, <2>3, <2>4, <2>5
    <2> QED
      BY <2>1, <2>6 DEF E
  <1> QED
    BY <1>1, <1>2 DEF FilesInv

-----------------------------------------------------------------------------
(* The steps.                                                              *)

\* A counter of the kind of file_count.
LEMMA Wraps ==
    ASSUME NEW n \in Int
    PROVE  n % CountMod \in 0..(CountMod - 1)
  <1>1. CountMod \in Nat \ {0}
    BY Numbers
  <1> QED
    BY <1>1

\* What is known before a step.
LEMMA Facts ==
    ASSUME FilesInv, NEW r \in Tasks
    PROVE  /\ req[r] \in Requests /\ Good(r, req[r])
           /\ node \in Nodes /\ Tree(node) /\ bytesUsed \in Nat /\ fileCount \in 0..(CountMod - 1)
           /\ mainEntry \in Paths \union {None} /\ staging \subseteq Tasks /\ stray \in Nat
           /\ setup \in Setups
  BY DEF FilesInv, FilesTyped

\* A step that changes no more than a request and the directory, and writes
\* nothing to be counted later.
LEMMA Turn ==
    ASSUME FilesInv, NEW r \in Tasks, NEW k, Good(r, k), Go(r, k), Owed(k) = 0,
           node' \in Nodes, Tree(node'), UNCHANGED <<setup, counters, mainEntry, staging, stray>>
    PROVE  FilesInv'
  <1>1. /\ bytesUsed' = bytesUsed /\ fileCount' = fileCount /\ mainEntry' = mainEntry
        /\ staging' = staging /\ stray' = stray /\ setup' = setup
    BY DEF counters
  <1>2. bytesUsed' <= bytesUsed
    BY <1>1, Facts
  <1> QED
    BY <1>1, <1>2, Facts, Step

\* put_file.
LEMMA PutNext ==
    ASSUME FilesInv, NEW r \in Tasks, Put(r)
    PROVE  FilesInv'
  <1> DEFINE k == req[r]
  <1>0. /\ k \in Requests /\ Good(r, k) /\ node \in Nodes /\ Tree(node) /\ bytesUsed \in Nat
        /\ fileCount \in 0..(CountMod - 1) /\ stray \in Nat /\ staging \subseteq Tasks
        /\ mainEntry \in Paths \union {None}
    BY Facts
  <1>1. ASSUME NEW p \in Paths, NEW n \in Sizes, PutBegin(r, p, n)
        PROVE  FilesInv'
    <2> DEFINE m == [Idle EXCEPT !.at = "stat", !.path = p, !.size = n]
    <2>1. /\ "put" \in setup.kinds[r] /\ CanHold(p) /\ node' = WithParent(p) /\ Go(r, m)
          /\ UNCHANGED <<setup, counters, mainEntry, staging, stray>>
      BY <1>1 DEF PutBegin, May
    <2>2. Idle \in Requests /\ Idle.upload = FALSE /\ "stat" \in Places
      BY IdleGood DEF Idle, Places
    <2>3. m \in Requests /\ m.at = "stat" /\ m.path = p /\ m.upload = FALSE
      BY <2>2 DEF Requests
    <2> HIDE DEF m
    <2>4. Good(r, m) /\ Owed(m) = 0
      BY <2>1, <2>3 DEF Good, Owed
    <2>5. node' \in Nodes /\ Tree(node')
      BY <1>0, <2>1, WithParentTree
    <2> QED
      BY <2>1, <2>4, <2>5, Turn
  <1>2. CASE PutStat(r)
    <2>0. k.at = "stat" /\ node' = node /\ UNCHANGED <<setup, counters, mainEntry, staging, stray>>
      BY <1>2 DEF PutStat, At
    <2>1. CASE Go(r, Idle)
      BY <1>0, <2>0, <2>1, IdleGood, Turn
    <2> DEFINE m == [k EXCEPT !.at = "grow", !.prior = node[k.path]]
    <2>2. CASE node[k.path] # Dir /\ Go(r, m)
      <3>1. k.path \in Paths /\ "put" \in setup.kinds[r] /\ "grow" \in Places
        BY <1>0, <2>0 DEF Good, Places
      <3>2. node[k.path] \in Nat \union {None}
        BY <1>0, <2>2, <3>1, FileSize
      <3>3. /\ m \in Requests /\ m.at = "grow" /\ m.path = k.path /\ m.prior = node[k.path]
            /\ m.upload = k.upload
        BY <1>0, <3>1, <3>2 DEF Requests
      <3> HIDE DEF m
      <3>4. Good(r, m) /\ Owed(m) = 0
        BY <1>0, <3>1, <3>2, <3>3 DEF Good, Owed
      <3> QED
        BY <1>0, <2>0, <2>2, <3>4, Turn
    <2> QED
      BY <1>2, <2>1, <2>2 DEF PutStat
  <1>3. CASE PutWrite(r)
    <2>0. k.at = "grow" /\ UNCHANGED <<setup, counters, mainEntry, staging, stray>>
      BY <1>3 DEF PutWrite, At
    <2>1. CASE Go(r, Idle) /\ node' = node
      BY <1>0, <2>0, <2>1, IdleGood, Turn
    <2> DEFINE m == [k EXCEPT !.at = "count"]
    <2>2. CASE /\ Growth(NewBytes(r), NewFiles(r)) /\ Reachable(k.path) /\ node[k.path] # Dir
               /\ node' = [node EXCEPT ![k.path] = k.size] /\ Go(r, m)
      <3>1. k.path \in Paths /\ k.prior \in Nat \union {None} /\ "put" \in setup.kinds[r] /\ "count" \in Places
        BY <1>0, <2>0 DEF Good, Places
      <3>2. /\ m \in Requests /\ m.at = "count" /\ m.path = k.path /\ m.prior = k.prior
            /\ m.upload = k.upload /\ m.size = k.size
        BY <1>0, <3>1 DEF Requests
      <3>3. Owed(m) = NewBytes(r) /\ Owed(k) = 0
        BY <2>0, <3>2 DEF Owed, NewBytes, PriorSize
      <3> HIDE DEF m
      <3>4. Good(r, m)
        BY <1>0, <3>1, <3>2 DEF Good
      <3>5. bytesUsed + Owed(m) <= QuotaBytes
        BY <2>2, <3>3 DEF Growth
      <3>6. node' \in Nodes /\ Tree(node')
        <4>1. k.size \in Nat
          BY <1>0, Fields
        <4>2. k.size # None /\ Parent[k.path] # None => node[Parent[k.path]] = Dir
          BY <2>2 DEF Reachable
        <4> QED
          BY <1>0, <2>2, <3>1, <4>1, <4>2, PlacedTree
      <3>7. /\ bytesUsed' = bytesUsed /\ fileCount' = fileCount /\ mainEntry' = mainEntry
            /\ staging' = staging /\ stray' = stray /\ setup' = setup
        BY <2>0 DEF counters
      <3>8. r \in Writers
        BY <3>1 DEF Writers
      <3> QED
        BY <1>0, <2>2, <3>3, <3>4, <3>5, <3>6, <3>7, <3>8, Step
    <2> QED
      BY <1>3, <2>1, <2>2 DEF PutWrite
  <1>4. CASE PutCount(r)
    <2>1. /\ k.at = "count" /\ bytesUsed' = bytesUsed + NewBytes(r)
          /\ fileCount' = (fileCount + NewFiles(r)) % CountMod
          /\ UNCHANGED <<setup, node, mainEntry, staging, stray>>
      BY <1>4 DEF PutCount, At
    <2>2. PICK m \in {Idle, [Idle EXCEPT !.at = "pick"]} : Go(r, m)
      BY <1>4 DEF PutCount, Refresh, End
    <2>3. Good(r, m) /\ Owed(m) = 0
      BY IdleGood, PickGood
    <2>4. Owed(k) = NewBytes(r)
      BY <2>1 DEF Owed, NewBytes, PriorSize
    <2>5. Owed(k) \in Nat
      <3>1. Owed(k) \in 0..UploadMax
        BY <1>0, OwedBounds
      <3> QED
        BY <3>1, Numbers
    <2>6. fileCount' \in 0..(CountMod - 1)
      <3>1. fileCount \in Int /\ NewFiles(r) \in Int
        BY <1>0, Numbers DEF NewFiles
      <3> QED
        BY <2>1, <3>1, Wraps
    <2>7. bytesUsed' \in Nat /\ bytesUsed' = bytesUsed + Owed(k)
      BY <1>0, <2>1, <2>4, <2>5
    <2> QED
      BY <1>0, <2>1, <2>2, <2>3, <2>6, <2>7, Step
  <1> QED
    BY <1>1, <1>2, <1>3, <1>4 DEF Put

\* delete_file.
LEMMA DeleteNext ==
    ASSUME FilesInv, NEW r \in Tasks, Delete(r)
    PROVE  FilesInv'
  <1> DEFINE k == req[r]
  <1>0. /\ k \in Requests /\ Good(r, k) /\ node \in Nodes /\ Tree(node) /\ bytesUsed \in Nat
        /\ fileCount \in 0..(CountMod - 1) /\ stray \in Nat /\ staging \subseteq Tasks
        /\ mainEntry \in Paths \union {None}
    BY Facts
  <1>1. ASSUME NEW p \in Paths, DeleteBegin(r, p)
        PROVE  FilesInv'
    <2> DEFINE m == [Idle EXCEPT !.at = "remove", !.path = p, !.prior = node[p]]
    <2>1. /\ node[p] # None /\ Go(r, m) /\ node' = node
          /\ UNCHANGED <<setup, counters, mainEntry, staging, stray>>
      BY <1>1 DEF DeleteBegin
    <2>2. Idle \in Requests /\ Idle.upload = FALSE /\ "remove" \in Places
      BY IdleGood DEF Idle, Places
    <2>3. node[p] \in Nat \union {Dir}
      BY <1>0, <2>1, FileSize
    <2>4. m \in Requests /\ m.at = "remove" /\ m.path = p /\ m.prior = node[p] /\ m.upload = FALSE
      BY <2>2, <2>3 DEF Requests
    <2> HIDE DEF m
    <2>5. Good(r, m) /\ Owed(m) = 0
      BY <2>1, <2>3, <2>4 DEF Good, Owed
    <2> QED
      BY <1>0, <2>1, <2>5, Turn
  <1>2. CASE DeleteRemove(r)
    <2>0. k.at = "remove" /\ UNCHANGED <<setup, counters, mainEntry, staging, stray>>
      BY <1>2 DEF DeleteRemove, At
    <2>1. k.path \in Paths /\ k.prior \in Nat \union {Dir}
      BY <1>0, <2>0 DEF Good
    <2>2. CASE Go(r, Idle) /\ node' = node
      BY <1>0, <2>0, <2>2, IdleGood, Turn
    <2> DEFINE m == [k EXCEPT !.at = "uncount"]
    <2>3. CASE /\ node' = Removed({k.path})
               /\ IF k.prior = Dir THEN Refresh(r) ELSE Go(r, m)
      <3>1. node' \in Nodes /\ Tree(node')
        <4>1. {k.path} \in SUBSET Paths
          BY <2>1
        <4> QED
          BY <1>0, <2>3, <4>1, RemovedTree
      <3>2. CASE k.prior = Dir
        BY <2>0, <2>3, <3>1, <3>2, PickGood, Turn DEF Refresh
      <3>3. CASE k.prior # Dir
        <4>1. "uncount" \in Places /\ k.prior \in Nat
          BY <2>1, <3>3 DEF Places
        <4>2. m \in Requests /\ m.at = "uncount" /\ m.prior = k.prior /\ m.upload = k.upload
          BY <1>0, <4>1 DEF Requests
        <4> HIDE DEF m
        <4>3. Good(r, m) /\ Owed(m) = 0
          BY <1>0, <4>1, <4>2 DEF Good, Owed
        <4> QED
          BY <2>0, <2>3, <3>1, <3>3, <4>3, Turn
      <3> QED
        BY <3>2, <3>3
    <2> QED
      BY <1>2, <2>2, <2>3 DEF DeleteRemove, End
  <1>3. CASE DeleteUncount(r)
    <2> DEFINE n == Min({1, fileCount})
    <2> DEFINE m == [k EXCEPT !.at = "less", !.take = n]
    <2>1. /\ k.at = "uncount" /\ bytesUsed' = Max({0, bytesUsed - k.prior}) /\ Go(r, m)
          /\ UNCHANGED <<setup, node, fileCount, mainEntry, staging, stray>>
      BY <1>3 DEF DeleteUncount, At
    <2>2. k.prior \in Nat
      BY <1>0, <2>1 DEF Good
    <2>3. bytesUsed' \in Nat /\ bytesUsed' <= bytesUsed
      <3> DEFINE b == bytesUsed - k.prior
      <3>1. b \in Int /\ 0 \in Int /\ b <= bytesUsed
        BY <1>0, <2>2
      <3>2. bytesUsed' = IF 0 >= b THEN 0 ELSE b
        BY <2>1, <3>1, MaxOfTwo
      <3> HIDE DEF b
      <3> QED
        BY <1>0, <3>1, <3>2
    <2>4. n \in 0..1
      <3>1. fileCount \in Nat /\ fileCount \in Int /\ 1 \in Int
        BY <1>0, Numbers
      <3>2. n = IF 1 <= fileCount THEN 1 ELSE fileCount
        BY <3>1, MinOfTwo
      <3> QED
        BY <3>1, <3>2
    <2>5. m \in Requests /\ m.at = "less" /\ m.upload = k.upload
      <3>1. "less" \in Places
        BY DEF Places
      <3> HIDE DEF n
      <3> QED
        BY <1>0, <2>4, <3>1 DEF Requests
    <2> HIDE DEF m
    <2>6. Good(r, m) /\ Owed(m) = 0
      BY <1>0, <2>5 DEF Good, Owed
    <2> QED
      BY <1>0, <2>1, <2>3, <2>6, Step
  <1>4. CASE DeleteLess(r)
    <2>1. /\ fileCount' = (fileCount + CountMod - k.take) % CountMod /\ Refresh(r)
          /\ UNCHANGED <<setup, node, bytesUsed, mainEntry, staging, stray>>
      BY <1>4 DEF DeleteLess
    <2>2. fileCount' \in 0..(CountMod - 1)
      <3>1. k.take \in 0..1 /\ fileCount \in Int /\ CountMod \in Int
        BY <1>0, Fields, Numbers
      <3>2. fileCount + CountMod - k.take \in Int
        BY <3>1
      <3> QED
        BY <2>1, <3>2, Wraps
    <2>3. bytesUsed' <= bytesUsed
      BY <1>0, <2>1
    <2> QED
      BY <1>0, <2>1, <2>2, <2>3, PickGood, Step DEF Refresh
  <1> QED
    BY <1>1, <1>2, <1>3, <1>4 DEF Delete

\* upload_files.
LEMMA UploadNext ==
    ASSUME FilesInv, NEW r \in Tasks, Upload(r)
    PROVE  FilesInv'
  <1> DEFINE k == req[r]
  <1>0. /\ k \in Requests /\ Good(r, k) /\ node \in Nodes /\ Tree(node) /\ bytesUsed \in Nat
        /\ fileCount \in 0..(CountMod - 1) /\ stray \in Nat /\ staging \subseteq Tasks
        /\ mainEntry \in Paths \union {None}
    BY Facts
  <1>a. /\ k.off \in Nat /\ k.todo \in SUBSET Paths /\ k.done \in SUBSET Paths
        /\ k.path \in Paths \union {None} /\ k.upload \in BOOLEAN
    BY <1>0, Fields
  <1>1. CASE UploadBegin(r)
    <2> DEFINE f == (fileCount = 0)
    <2> DEFINE m == [Idle EXCEPT !.at = "next", !.upload = TRUE, !.fresh = f]
    <2>1. /\ "upload" \in setup.kinds[r] /\ Go(r, m) /\ node' = node
          /\ UNCHANGED <<setup, counters, mainEntry, staging, stray>>
      BY <1>1 DEF UploadBegin, May
    <2>2. Idle \in Requests /\ "next" \in Places /\ f \in BOOLEAN
      BY IdleGood DEF Places
    <2>3. m \in Requests /\ m.at = "next" /\ m.upload = TRUE
      <3> HIDE DEF f
      <3> QED
        BY <2>2 DEF Requests
    <2> HIDE DEF m
    <2>4. Good(r, m) /\ Owed(m) = 0
      BY <2>1, <2>3 DEF Good, Owed
    <2> QED
      BY <1>0, <2>1, <2>4, Turn
  <1>2. ASSUME NEW p \in Paths, UploadField(r, p)
        PROVE  FilesInv'
    <2>0. k.at = "next" /\ k.upload /\ UNCHANGED <<setup, counters, mainEntry, staging, stray>>
      BY <1>2 DEF UploadField, At
    <2>1. CASE Go(r, Idle) /\ node' = node
      BY <1>0, <2>0, <2>1, IdleGood, Turn
    <2> DEFINE m == [k EXCEPT !.at = "body", !.path = p, !.off = 0]
    <2>2. CASE /\ CanHold(p) /\ node[p] # Dir
               /\ node' = [WithParent(p) EXCEPT ![p] = 0] /\ Go(r, m)
      <3>1. "body" \in Places /\ 0 \in Nat
        BY DEF Places
      <3>2. m \in Requests /\ m.at = "body" /\ m.path = p /\ m.upload = k.upload
        BY <1>0, <3>1 DEF Requests
      <3> HIDE DEF m
      <3>3. Good(r, m) /\ Owed(m) = 0
        BY <1>0, <2>0, <3>2 DEF Good, Owed
      <3>4. node' \in Nodes /\ Tree(node')
        <4> DEFINE w == WithParent(p)
        <4>1. w \in Nodes /\ Tree(w) /\ w[p] # Dir /\ (Parent[p] # None => w[Parent[p]] = Dir)
          BY <1>0, <2>2, WithParentTree
        <4>2. node' = [w EXCEPT ![p] = 0]
          BY <2>2
        <4> HIDE DEF w
        <4> QED
          BY <3>1, <4>1, <4>2, PlacedTree
      <3> QED
        BY <2>0, <2>2, <3>3, <3>4, Turn
    <2> QED
      BY <1>2, <2>1, <2>2 DEF UploadField, End
  <1>3. CASE UploadChunk(r)
    <2> DEFINE p == k.path
    <2> DEFINE m == [k EXCEPT !.at = "add"]
    <2> DEFINE v == Max({node[p], k.off + 1})
    <2>1. /\ k.at = "body" /\ Fits(r) /\ Go(r, m)
          /\ node' = IF p \in Files(node) THEN [node EXCEPT ![p] = v] ELSE node
          /\ UNCHANGED <<setup, counters, mainEntry, staging, stray>>
      BY <1>3 DEF UploadChunk, At
    <2>2. p \in Paths /\ k.upload /\ "upload" \in setup.kinds[r] /\ "add" \in Places
      BY <1>0, <2>1 DEF Good, Places
    <2>3. 1 <= UploadMax /\ bytesUsed + 1 <= QuotaBytes
      BY <1>a, <2>1, Numbers DEF Fits, Growth
    <2>4. m \in Requests /\ m.at = "add" /\ m.upload = k.upload /\ m.path = k.path
      BY <1>0, <2>2 DEF Requests
    <2> HIDE DEF m
    <2>5. Good(r, m) /\ Owed(m) = 1 /\ Owed(k) = 0
      BY <1>0, <2>1, <2>2, <2>3, <2>4 DEF Good, Owed
    <2>6. node' \in Nodes /\ Tree(node')
      <3>1. CASE p \in Files(node)
        <4>1. node[p] \in Nat /\ node[p] # None /\ node[p] # Dir
          BY <1>0, <2>2, <3>1, FileSize DEF Files
        <4>2. v \in Nat
          <5>1. node[p] \in Int /\ k.off + 1 \in Int
            BY <1>a, <4>1
          <5>2. v = IF node[p] >= k.off + 1 THEN node[p] ELSE k.off + 1
            BY <5>1, MaxOfTwo
          <5> QED
            BY <1>a, <4>1, <5>2
        <4>3. Parent[p] # None => node[Parent[p]] = Dir
          BY <1>0, <2>2, <4>1 DEF Tree
        <4>4. node' = [node EXCEPT ![p] = v]
          BY <2>1, <3>1
        <4> HIDE DEF v, p
        <4> QED
          BY <1>0, <2>2, <4>1, <4>2, <4>3, <4>4, PlacedTree
      <3>2. CASE p \notin Files(node)
        BY <1>0, <2>1, <3>2
      <3> QED
        BY <3>1, <3>2
    <2>7. /\ bytesUsed' = bytesUsed /\ fileCount' = fileCount /\ mainEntry' = mainEntry
          /\ staging' = staging /\ stray' = stray /\ setup' = setup
      BY <2>1 DEF counters
    <2>8. r \in Writers
      BY <2>2 DEF Writers
    <2>9. bytesUsed + Owed(m) <= QuotaBytes
      BY <2>3, <2>5
    <2> HIDE DEF p, v
    <2> QED
      BY <1>0, <2>1, <2>5, <2>6, <2>7, <2>8, <2>9, Step
  <1>4. CASE UploadReject(r)
    BY <1>0, <1>4, IdleGood, Turn DEF UploadReject, End
  <1>5. CASE UploadAdd(r)
    <2> DEFINE m == [k EXCEPT !.at = "body", !.off = @ + 1]
    <2>1. /\ k.at = "add" /\ bytesUsed' = bytesUsed + 1 /\ Go(r, m)
          /\ UNCHANGED <<setup, node, fileCount, mainEntry, staging, stray>>
      BY <1>5 DEF UploadAdd, At
    <2>2. "body" \in Places /\ k.off + 1 \in Nat /\ k.path \in Paths /\ k.upload
      BY <1>0, <1>a, <2>1 DEF Places, Good
    <2>3. m \in Requests /\ m.at = "body" /\ m.path = k.path /\ m.upload = k.upload
      BY <1>0, <2>2 DEF Requests
    <2> HIDE DEF m
    <2>4. Good(r, m) /\ Owed(m) = 0 /\ Owed(k) = 1
      BY <1>0, <2>1, <2>2, <2>3 DEF Good, Owed
    <2>5. bytesUsed' \in Nat /\ bytesUsed' = bytesUsed + Owed(k)
      BY <1>0, <2>1, <2>4
    <2> QED
      BY <1>0, <2>1, <2>4, <2>5, Step
  <1>6. CASE UploadEnd(r)
    <2> DEFINE n == [k EXCEPT !.at = "next", !.path = None, !.off = 0]
    <2> DEFINE m == Written(n, k.path)
    <2>1. /\ k.at = "body" /\ fileCount' = (fileCount + 1) % CountMod /\ Go(r, m)
          /\ UNCHANGED <<setup, node, bytesUsed, mainEntry, staging, stray>>
      BY <1>6 DEF UploadEnd, At
    <2>2. "next" \in Places /\ k.path \in Paths /\ k.upload /\ 0 \in Nat
      BY <1>0, <2>1 DEF Places, Good
    <2>3. m \in Requests /\ m.at = "next" /\ m.upload = k.upload
      <3>1. n \in Requests /\ n.at = "next" /\ n.upload = k.upload
        BY <1>0, <1>a, <2>2 DEF Requests
      <3> HIDE DEF n
      <3> QED
        BY <2>2, <3>1, WrittenFields
    <2> HIDE DEF m
    <2>4. Good(r, m) /\ Owed(m) = 0
      BY <1>0, <2>1, <2>2, <2>3 DEF Good, Owed
    <2>5. fileCount' \in 0..(CountMod - 1)
      <3>1. fileCount + 1 \in Int
        BY <1>0, Numbers
      <3> QED
        BY <2>1, <3>1, Wraps
    <2>6. bytesUsed' <= bytesUsed
      BY <1>0, <2>1
    <2> QED
      BY <1>0, <2>1, <2>4, <2>5, <2>6, Step
  <1>7. CASE UploadDone(r)
    <2> DEFINE m == [k EXCEPT !.at = "unwrap", !.todo = k.done]
    <2>0. /\ k.at = "next" /\ k.upload /\ node' = node
          /\ UNCHANGED <<setup, counters, mainEntry, staging, stray>>
      BY <1>7 DEF UploadDone, At
    <2>1. CASE Refresh(r)
      BY <1>0, <2>0, <2>1, PickGood, Turn DEF Refresh
    <2>2. CASE Unwraps(r) /\ Go(r, m)
      <3>1. \A p \in k.done : Parent[p] # None
        <4>1. PICK q \in Paths : Wrapper(k.done) = {q}
          BY <2>2 DEF Unwraps
        <4> QED
          BY <4>1, Names DEF Wrapper
      <3>2. "unwrap" \in Places
        BY DEF Places
      <3>3. /\ m \in Requests /\ m.at = "unwrap" /\ m.upload = k.upload /\ m.todo = k.done
            /\ m.done = k.done
        BY <1>0, <1>a, <3>2 DEF Requests
      <3> HIDE DEF m
      <3>4. Good(r, m) /\ Owed(m) = 0
        BY <1>0, <3>1, <3>3 DEF Good, Owed
      <3> QED
        BY <1>0, <2>0, <2>2, <3>4, Turn
    <2> QED
      BY <1>7, <2>1, <2>2 DEF UploadDone
  <1>8. ASSUME NEW p \in k.todo, Unwrap(r, p)
        PROVE  FilesInv'
    <2>0. k.at = "unwrap" /\ UNCHANGED <<setup, counters, mainEntry, staging, stray>>
      BY <1>8 DEF Unwrap, At
    <2>1. /\ p \in Paths /\ Parent[p] # None /\ k.todo \subseteq k.done
          /\ \A q \in k.done : Parent[q] # None
      BY <1>0, <1>a, <2>0 DEF Good
    <2>2. CASE Go(r, Idle) /\ node' = node
      BY <1>0, <2>0, <2>2, IdleGood, Turn
    <2> DEFINE b == Base[p]
    <2> DEFINE m == [k EXCEPT !.todo = @ \ {p}]
    <2>3. CASE /\ p \in Files(node) /\ node[b] # Dir /\ Go(r, m)
               /\ node' = [node EXCEPT ![b] = node[p], ![p] = None]
      <3>1. b \in Paths /\ Parent[b] = None /\ b # p
        BY <2>1, Names
      <3>2. node[p] \in Nat /\ node[p] # Dir
        BY <1>0, <2>1, <2>3, FileSize, Names
      <3>3. node' \in Nodes /\ Tree(node')
        <4> DEFINE s == node[p]
        <4> DEFINE w == [node EXCEPT ![b] = s]
        <4>0. s \in Nat \union {None, Dir}
          BY <3>2
        <4>1. w \in Nodes /\ Tree(w) /\ w[p] = node[p]
          <5>1. node[b] # Dir /\ (s # None /\ Parent[b] # None => node[Parent[b]] = Dir)
            BY <2>3, <3>1
          <5> HIDE DEF s, b
          <5>2. w \in Nodes /\ Tree(w) /\ \A q \in Paths : q # b => w[q] = node[q]
            BY <1>0, <3>1, <4>0, <5>1, PlacedTree
          <5> HIDE DEF w
          <5> QED
            BY <2>1, <3>1, <5>2
        <4>2. node' = [w EXCEPT ![p] = None]
          BY <2>3
        <4> HIDE DEF w
        <4> QED
          BY <2>1, <3>2, <4>1, <4>2, PlacedTree
      <3>4. /\ m \in Requests /\ m.at = "unwrap" /\ m.upload = k.upload /\ m.todo = k.todo \ {p}
            /\ m.done = k.done
        BY <1>0, <1>a, <2>0 DEF Requests
      <3> HIDE DEF m
      <3>5. Good(r, m) /\ Owed(m) = 0
        BY <1>0, <2>1, <3>4 DEF Good, Owed
      <3> QED
        BY <2>0, <2>3, <3>3, <3>5, Turn
    <2> QED
      BY <1>8, <2>2, <2>3 DEF Unwrap, End
  <1>9. CASE UnwrapDone(r)
    <2>1. /\ k.at = "unwrap" /\ node' = Removed(Wrapper(k.done)) /\ Refresh(r)
          /\ UNCHANGED <<setup, counters, mainEntry, staging, stray>>
      BY <1>9 DEF UnwrapDone, At
    <2>2. Wrapper(k.done) \in SUBSET Paths
      <3>1. \A p \in k.done : Parent[p] # None
        BY <1>0, <2>1 DEF Good
      <3> QED
        BY <1>a, <3>1, Names DEF Wrapper
    <2>3. node' \in Nodes /\ Tree(node')
      BY <1>0, <2>1, <2>2, RemovedTree
    <2> QED
      BY <2>1, <2>3, PickGood, Turn DEF Refresh
  <1>10. CASE UnwrapAgain(r)
    BY <1>0, <1>10, IdleGood, Turn DEF UnwrapAgain, End
  <1> QED
    BY <1>1, <1>2, <1>3, <1>4, <1>5, <1>6, <1>7, <1>8, <1>9, <1>10 DEF Upload

\* The archive overlay; the bound says nothing of a session with one.
LEMMA ArchiveNext ==
    ASSUME FilesInv, NEW r \in Tasks, Archive(r)
    PROVE  FilesInv'
  <1> DEFINE k == req[r]
  <1>0. /\ k \in Requests /\ Good(r, k) /\ node \in Nodes /\ Tree(node) /\ bytesUsed \in Nat
        /\ fileCount \in 0..(CountMod - 1) /\ stray \in Nat /\ staging \subseteq Tasks
        /\ mainEntry \in Paths \union {None}
    BY Facts
  <1>a. /\ k.off \in Nat /\ k.todo \in SUBSET Paths /\ k.done \in SUBSET Paths
        /\ k.upload \in BOOLEAN /\ k.dropped \in BOOLEAN
    BY <1>0, Fields
  <1>b. k.at = "promote" => "archive" \in setup.kinds[r] /\ ~NoArchive
    BY <1>0 DEF Good, NoArchive
  <1>1. ASSUME NEW E \in SUBSET Paths, ArchiveBegin(r, E)
        PROVE  FilesInv'
    <2> DEFINE T == {p \in E : node[p] = None}
    <2> DEFINE m == [k EXCEPT !.at = "promote", !.todo = T, !.off = 0]
    <2>1. /\ "archive" \in setup.kinds[r] /\ staging' = staging \union {r} /\ Go(r, m)
          /\ UNCHANGED <<setup, node, counters, mainEntry, stray>>
      BY <1>1 DEF ArchiveBegin, May
    <2>2. "promote" \in Places /\ T \in SUBSET Paths /\ 0 \in Nat
      BY DEF Places
    <2>3. m \in Requests /\ m.at = "promote" /\ m.upload = k.upload
      <3> HIDE DEF T
      <3> QED
        BY <1>0, <2>2 DEF Requests
    <2> HIDE DEF m
    <2>4. Good(r, m)
      BY <1>0, <2>1, <2>3 DEF Good
    <2>5. ~NoArchive
      BY <2>1 DEF NoArchive
    <2>6. /\ bytesUsed' = bytesUsed /\ fileCount' = fileCount /\ mainEntry' = mainEntry
          /\ stray' = stray /\ setup' = setup /\ node' = node /\ staging' \subseteq Tasks
      BY <1>0, <2>1 DEF counters
    <2> QED
      BY <1>0, <2>1, <2>4, <2>5, <2>6, Step
  <1>2. ASSUME NEW p \in k.todo, ArchivePromote(r, p)
        PROVE  FilesInv'
    <2> DEFINE n == [k EXCEPT !.todo = @ \ {p}, !.off = @ + 1]
    <2> DEFINE m == Written(n, p)
    <2>1. /\ k.at = "promote" /\ CanHold(p) /\ node[p] # Dir
          /\ node' = [WithParent(p) EXCEPT ![p] = 1] /\ Go(r, m)
          /\ UNCHANGED <<setup, counters, mainEntry, staging, stray>>
      BY <1>2 DEF ArchivePromote, At, Promotable
    <2>2. p \in Paths /\ k.off + 1 \in Nat
      BY <1>a
    <2>3. m \in Requests /\ m.at = "promote" /\ m.upload = k.upload
      <3>1. n \in Requests /\ n.at = "promote" /\ n.upload = k.upload
        BY <1>0, <1>a, <2>1, <2>2 DEF Requests
      <3> HIDE DEF n
      <3> QED
        BY <2>2, <3>1, WrittenFields
    <2> HIDE DEF m
    <2>4. Good(r, m) /\ Owed(m) = 0
      BY <1>0, <1>b, <2>1, <2>3 DEF Good, Owed
    <2>5. node' \in Nodes /\ Tree(node')
      <3> DEFINE w == WithParent(p)
      <3>1. w \in Nodes /\ Tree(w) /\ w[p] # Dir /\ (Parent[p] # None => w[Parent[p]] = Dir)
        BY <1>0, <2>1, <2>2, WithParentTree
      <3>2. node' = [w EXCEPT ![p] = 1] /\ 1 \in Nat
        BY <2>1
      <3> HIDE DEF w
      <3> QED
        BY <2>2, <3>1, <3>2, PlacedTree
    <2> QED
      BY <2>1, <2>4, <2>5, Turn
  <1>3. ASSUME NEW p \in k.todo, ArchiveFail(r, p)
        PROVE  FilesInv'
    <2>1. /\ k.at = "promote" /\ staging' = staging \ {r} /\ stray' = stray + k.off /\ Go(r, Idle)
          /\ UNCHANGED <<setup, node, counters, mainEntry>>
      BY <1>3 DEF ArchiveFail, At, End
    <2>2. /\ bytesUsed' = bytesUsed /\ fileCount' = fileCount /\ mainEntry' = mainEntry
          /\ stray' \in Nat /\ setup' = setup /\ node' = node /\ staging' \subseteq Tasks
      BY <1>0, <1>a, <2>1 DEF counters
    <2> QED
      BY <1>0, <1>b, <2>1, <2>2, IdleGood, Step
  <1>4. CASE ArchiveCount(r)
    <2> DEFINE m == [k EXCEPT !.at = "next", !.off = 0]
    <2>1. k.at = "promote" /\ staging' = staging \ {r} /\ UNCHANGED <<setup, node, mainEntry>>
      BY <1>4 DEF ArchiveCount, At
    <2>2. stray' \in Nat /\ bytesUsed' \in Nat /\ fileCount' \in 0..(CountMod - 1)
      <3>1. CASE k.dropped
        <4>1. stray' = stray + k.off /\ bytesUsed' = bytesUsed /\ fileCount' = fileCount
          BY <1>4, <3>1 DEF ArchiveCount, counters
        <4> QED
          BY <1>0, <1>a, <4>1
      <3>2. CASE ~k.dropped
        <4>1. /\ stray' = stray /\ bytesUsed' = bytesUsed + k.off
              /\ fileCount' = (fileCount + k.off) % CountMod
          BY <1>4, <3>2 DEF ArchiveCount
        <4>2. fileCount + k.off \in Int
          BY <1>0, <1>a, Numbers
        <4>3. fileCount' \in 0..(CountMod - 1)
          BY <4>1, <4>2, Wraps
        <4>4. bytesUsed' \in Nat
          BY <1>0, <1>a, <4>1
        <4> QED
          BY <1>0, <4>1, <4>3, <4>4
      <3> QED
        BY <3>1, <3>2
    <2>3. \/ Go(r, Idle)
          \/ Go(r, [Idle EXCEPT !.at = "pick"])
          \/ k.upload /\ Go(r, m)
      BY <1>4 DEF ArchiveCount, End, Refresh
    <2>4. ~NoArchive /\ staging' \subseteq Tasks
      BY <1>0, <1>b, <2>1
    <2>5. CASE Go(r, Idle)
      BY <1>0, <2>1, <2>2, <2>4, <2>5, IdleGood, Step
    <2>6. CASE Go(r, [Idle EXCEPT !.at = "pick"])
      BY <1>0, <2>1, <2>2, <2>4, <2>6, PickGood, Step
    <2>7. CASE k.upload /\ Go(r, m)
      <3>1. "next" \in Places /\ 0 \in Nat
        BY DEF Places
      <3>2. m \in Requests /\ m.at = "next" /\ m.upload = k.upload
        BY <1>0, <3>1 DEF Requests
      <3> HIDE DEF m
      <3>3. Good(r, m)
        BY <1>0, <2>7, <3>2 DEF Good
      <3> QED
        BY <1>0, <2>1, <2>2, <2>4, <2>7, <3>3, Step
    <2> QED
      BY <2>3, <2>5, <2>6, <2>7
  <1> QED
    BY <1>1, <1>2, <1>3, <1>4 DEF Archive

\* clear_files.
LEMMA ClearNext ==
    ASSUME FilesInv, NEW r \in Tasks, Clear(r)
    PROVE  FilesInv'
  <1> DEFINE k == req[r]
  <1>0. /\ k \in Requests /\ Good(r, k) /\ node \in Nodes /\ Tree(node) /\ bytesUsed \in Nat
        /\ fileCount \in 0..(CountMod - 1) /\ stray \in Nat /\ staging \subseteq Tasks
        /\ mainEntry \in Paths \union {None}
    BY Facts
  <1>a. k.todo \in SUBSET Paths
    BY <1>0, Fields
  <1>1. CASE ClearBegin(r)
    <2> DEFINE T == {p \in Top : node[p] # None}
    <2> DEFINE m == [Idle EXCEPT !.at = "clear", !.todo = T]
    <2>1. Go(r, m) /\ node' = node /\ UNCHANGED <<setup, counters, mainEntry, staging, stray>>
      BY <1>1 DEF ClearBegin
    <2>2. Idle \in Requests /\ Idle.upload = FALSE /\ "clear" \in Places /\ T \in SUBSET Paths
      BY IdleGood DEF Idle, Places, Top
    <2>3. m \in Requests /\ m.at = "clear" /\ m.upload = FALSE
      <3> HIDE DEF T
      <3> QED
        BY <2>2 DEF Requests
    <2> HIDE DEF m
    <2>4. Good(r, m) /\ Owed(m) = 0
      BY <2>3 DEF Good, Owed
    <2> QED
      BY <1>0, <2>1, <2>4, Turn
  <1>2. ASSUME NEW p \in k.todo, ClearRemove(r, p)
        PROVE  FilesInv'
    <2>0. k.at = "clear" /\ UNCHANGED <<setup, counters, mainEntry, staging, stray>>
      BY <1>2 DEF ClearRemove, At
    <2>1. CASE Go(r, Idle) /\ node' = node
      BY <1>0, <2>0, <2>1, IdleGood, Turn
    <2> DEFINE m == [k EXCEPT !.todo = @ \ {p}]
    <2>2. CASE node' = Removed({p}) /\ Go(r, m)
      <3>1. m \in Requests /\ m.at = "clear" /\ m.upload = k.upload
        BY <1>0, <1>a, <2>0 DEF Requests
      <3> HIDE DEF m
      <3>2. Good(r, m) /\ Owed(m) = 0
        BY <1>0, <3>1 DEF Good, Owed
      <3>3. {p} \in SUBSET Paths
        BY <1>a
      <3>4. node' \in Nodes /\ Tree(node')
        BY <1>0, <2>2, <3>3, RemovedTree
      <3> QED
        BY <2>0, <2>2, <3>2, <3>4, Turn
    <2> QED
      BY <1>2, <2>1, <2>2 DEF ClearRemove, End
  <1>3. ASSUME NEW q \in staging, ClearStaging(r, q)
        PROVE  FilesInv'
    <2>1. /\ k.at = "clear" /\ staging' = staging \ {q}
          /\ UNCHANGED <<setup, node, counters, mainEntry, req, stray>>
      BY <1>3 DEF ClearStaging, At
    <2>2. Go(r, k) /\ Owed(k) = 0
      <3>1. req \in [Tasks -> Requests]
        BY DEF FilesInv, FilesTyped
      <3> QED
        BY <2>1, <3>1 DEF Go, Owed
    <2>3. /\ bytesUsed' = bytesUsed /\ fileCount' = fileCount /\ mainEntry' = mainEntry
          /\ stray' = stray /\ setup' = setup /\ node' = node /\ staging' \subseteq Tasks
      BY <1>0, <2>1 DEF counters
    <2>4. bytesUsed' <= bytesUsed
      BY <1>0, <2>3
    <2> HIDE DEF k
    <2> QED
      BY <1>0, <2>2, <2>3, <2>4, Step
  <1>4. CASE ClearDone(r)
    <2>1. /\ bytesUsed' = 0 /\ fileCount' = 0 /\ mainEntry' = None /\ Go(r, Idle)
          /\ UNCHANGED <<setup, node, staging, stray>>
      BY <1>4 DEF ClearDone, End
    <2>2. bytesUsed' \in Nat /\ fileCount' \in 0..(CountMod - 1) /\ bytesUsed' <= bytesUsed
      BY <1>0, <2>1, Numbers
    <2> QED
      BY <1>0, <2>1, <2>2, IdleGood, Step
  <1> QED
    BY <1>1, <1>2, <1>3, <1>4 DEF Clear

\* mkdir, rename, the refresh of the main entry, and clients that go away.
LEMMA OtherNext ==
    ASSUME FilesInv, NEW r \in Tasks,
           \/ \E p \in Paths : Mkdir(r, p)
           \/ \E p, q \in Paths : Rename(r, p, q)
           \/ RefreshPick(r)
           \/ RefreshStore(r)
           \/ Abandon(r)
    PROVE  FilesInv'
  <1> DEFINE k == req[r]
  <1>0. /\ k \in Requests /\ Good(r, k) /\ node \in Nodes /\ Tree(node) /\ bytesUsed \in Nat
        /\ fileCount \in 0..(CountMod - 1) /\ stray \in Nat /\ staging \subseteq Tasks
        /\ mainEntry \in Paths \union {None}
    BY Facts
  <1>1. ASSUME NEW p \in Paths, Mkdir(r, p)
        PROVE  FilesInv'
    <2>1. /\ CanHold(p) /\ node[p] \in {None, Dir} /\ node' = [WithParent(p) EXCEPT ![p] = Dir]
          /\ Refresh(r) /\ UNCHANGED <<setup, counters, mainEntry, staging, stray>>
      BY <1>1 DEF Mkdir
    <2>2. node' \in Nodes /\ Tree(node')
      <3> DEFINE w == WithParent(p)
      <3>1. /\ w \in Nodes /\ Tree(w) /\ w[p] \in {None, Dir}
            /\ (Parent[p] # None => w[Parent[p]] = Dir)
        BY <1>0, <2>1, WithParentTree
      <3>2. node' = [w EXCEPT ![p] = Dir]
        BY <2>1
      <3> HIDE DEF w
      <3>3. CASE w[p] # Dir
        BY <3>1, <3>2, <3>3, PlacedTree
      <3>4. CASE w[p] = Dir
        BY <3>1, <3>2, <3>4 DEF Nodes
      <3> QED
        BY <3>3, <3>4
    <2> QED
      BY <2>1, <2>2, PickGood, Turn DEF Refresh
  <1>2. ASSUME NEW p \in Paths, NEW q \in Paths, Rename(r, p, q)
        PROVE  FilesInv'
    <2>0. /\ k.at = "idle" /\ node[p] # Dir /\ CanHold(q)
          /\ UNCHANGED <<setup, counters, mainEntry, staging, stray>>
      BY <1>2 DEF Rename, May
    <2> DEFINE w == WithParent(q)
    <2>1. /\ w \in Nodes /\ Tree(w) /\ w[q] = node[q]
          /\ (Parent[q] # None => w[Parent[q]] = Dir)
          /\ \A x \in Paths : node[x] \notin {None, Dir} => w[x] = node[x]
      BY <1>0, <2>0, WithParentTree
    <2>2. CASE /\ p \in Files(node) /\ node[q] # Dir /\ Refresh(r)
               /\ node' = [[w EXCEPT ![p] = None] EXCEPT ![q] = node[p]]
      <3> DEFINE s == node[p]
      <3> DEFINE u == [w EXCEPT ![p] = None]
      <3>0. node' = [u EXCEPT ![q] = s]
        BY <2>2
      <3>1. s \in Nat /\ s \notin {None, Dir}
        BY <1>0, <2>2, FileSize, Names
      <3>2. w[p] = s
        BY <2>1, <3>1
      <3> HIDE DEF w, s
      <3>3. /\ u \in Nodes /\ Tree(u) /\ u[p] = None
            /\ \A x \in Paths : x # p => u[x] = w[x]
        <4>1. w \in Nodes /\ Tree(w) /\ w[p] # Dir /\ None \in Nat \union {None, Dir}
          BY <2>1, <3>1, <3>2
        <4> QED
          BY ONLY <4>1, PlacedTree, p \in Paths
      <3> HIDE DEF u
      <3>4. u[q] # Dir
        BY <2>1, <2>2, <3>3, Names
      <3>5. Parent[q] # None => u[Parent[q]] = Dir
        <4>1. Parent[q] # None => Parent[q] \in Paths
          BY Names
        <4>2. Parent[q] # None => Parent[q] # p
          BY <2>1, <3>1, <3>2
        <4> QED
          BY <2>1, <3>3, <4>1, <4>2
      <3>6. node' \in Nodes /\ Tree(node')
        BY <3>0, <3>1, <3>3, <3>4, <3>5, PlacedTree
      <3> QED
        BY <2>0, <2>2, <3>6, PickGood, Turn DEF Refresh
    <2>3. CASE node' = w /\ req' = req
      <3>1. Go(r, k) /\ Owed(k) = 0
        <4>1. req \in [Tasks -> Requests]
          BY DEF FilesInv, FilesTyped
        <4> QED
          BY <2>0, <2>3, <4>1 DEF Go, Owed
      <3> HIDE DEF k, w
      <3> QED
        BY <1>0, <2>0, <2>1, <2>3, <3>1, Turn
    <2> QED
      BY <1>2, <2>2, <2>3 DEF Rename
  <1>3. CASE RefreshPick(r)
    <2> DEFINE e == Preferred(Files(node))
    <2> DEFINE m == [k EXCEPT !.at = "store", !.pick = e]
    <2>1. /\ k.at = "pick" /\ Go(r, m) /\ node' = node
          /\ UNCHANGED <<setup, counters, mainEntry, staging, stray>>
      BY <1>3 DEF RefreshPick, At
    <2>2. "store" \in Places /\ e \in Paths \union {None}
      <3>1. Files(node) \in SUBSET Paths
        BY DEF Files
      <3> QED
        BY <3>1, PreferredTypes DEF Places
    <2>3. m \in Requests /\ m.at = "store" /\ m.upload = k.upload
      <3> HIDE DEF e
      <3> QED
        BY <1>0, <2>2 DEF Requests
    <2> HIDE DEF m
    <2>4. Good(r, m) /\ Owed(m) = 0
      BY <1>0, <2>3 DEF Good, Owed
    <2> QED
      BY <1>0, <2>1, <2>4, Turn
  <1>4. CASE RefreshStore(r)
    <2>1. /\ mainEntry' = k.pick /\ Go(r, Idle)
          /\ UNCHANGED <<setup, node, counters, staging, stray>>
      BY <1>4 DEF RefreshStore
    <2>2. /\ bytesUsed' = bytesUsed /\ fileCount' = fileCount /\ staging' = staging
          /\ stray' = stray /\ setup' = setup /\ node' = node
          /\ mainEntry' \in Paths \union {None}
      BY <1>0, <2>1, Fields DEF counters
    <2>3. bytesUsed' <= bytesUsed
      BY <1>0, <2>2
    <2> QED
      BY <1>0, <2>1, <2>2, <2>3, IdleGood, Step
  <1>5. CASE Abandon(r)
    <2>0. UNCHANGED <<setup, node, counters, mainEntry, staging>>
      BY <1>5 DEF Abandon
    <2>1. CASE k.at = "promote"
      <3> DEFINE m == [k EXCEPT !.dropped = TRUE]
      <3>1. Go(r, m) /\ stray' = stray
        BY <1>5, <2>1 DEF Abandon, At
      <3>2. m \in Requests /\ m.at = "promote" /\ m.upload = k.upload
        BY <1>0, <2>1 DEF Requests
      <3> HIDE DEF m
      <3>3. Good(r, m) /\ Owed(m) = 0
        BY <1>0, <2>1, <3>2 DEF Good, Owed
      <3> QED
        BY <1>0, <2>0, <3>1, <3>3, Turn
    <2>2. CASE k.at # "promote"
      <3>1. stray' = stray + Uncounted(r) /\ Go(r, Idle)
        BY <1>5, <2>2 DEF Abandon, At, End
      <3>2. Uncounted(r) = Owed(k)
        BY DEF Uncounted, Owed, At, NewBytes, PriorSize
      <3>3. Owed(k) \in Nat
        <4>1. Owed(k) \in 0..UploadMax
          BY <1>0, OwedBounds
        <4> QED
          BY <4>1, Numbers
      <3>4. /\ bytesUsed' = bytesUsed /\ fileCount' = fileCount /\ staging' = staging
            /\ setup' = setup /\ node' = node /\ mainEntry' = mainEntry /\ stray' \in Nat
        BY <1>0, <2>0, <3>1, <3>2, <3>3 DEF counters
      <3>5. bytesUsed' <= bytesUsed
        BY <1>0, <3>4
      <3> QED
        BY <1>0, <3>1, <3>4, <3>5, IdleGood, Step
    <2> QED
      BY <2>1, <2>2
  <1> QED
    BY <1>1, <1>2, <1>3, <1>4, <1>5

-----------------------------------------------------------------------------
(* The file count.                                                         *)

\* A number below the modulus is its own remainder, and so is one round more.
LEMMA NoWrap ==
    ASSUME NEW m \in Nat \ {0}, NEW n \in 0..(m - 1)
    PROVE  n % m = n
  OBVIOUS

LEMMA OneRound ==
    ASSUME NEW m \in Nat \ {0}, NEW n \in 0..(m - 1)
    PROVE  (n + m) % m = n
  OBVIOUS

LEMMA CountNumbers ==
    /\ MaxFiles \in Nat /\ QuotaFiles <= MaxFiles /\ MaxCount <= MaxFiles
    /\ Cardinality(Tasks) \in Nat
    /\ MaxFiles * Cardinality(Tasks) \in Nat
    /\ MaxFiles * Cardinality(Tasks) < CountMod - Cardinality(Tasks)
  <1>1. QuotaFiles \in Nat /\ MaxCount \in Nat /\ CountMod \in Nat
    BY FilesConstantsAssumption
  <1>2. MaxFiles = IF QuotaFiles >= MaxCount THEN QuotaFiles ELSE MaxCount
    BY <1>1, MaxOfTwo DEF MaxFiles
  <1>3. MaxFiles \in Nat /\ QuotaFiles <= MaxFiles /\ MaxCount <= MaxFiles
    BY <1>1, <1>2
  <1>4. Cardinality(Tasks) \in Nat
    BY Numbers, FS_CardinalityType
  <1>5. (MaxFiles + 1) * Cardinality(Tasks) < CountMod
    BY FilesBoundsAssumption DEF MaxFiles
  <1> DEFINE n == Cardinality(Tasks)
  <1> HIDE DEF n
  <1>6. n \in Nat /\ (MaxFiles + 1) * n < CountMod
    BY <1>4, <1>5 DEF n
  <1>7. (MaxFiles + 1) * n = MaxFiles * n + n /\ MaxFiles * n \in Nat
    BY <1>3, <1>6
  <1>8. MaxFiles * n < CountMod - n
    BY <1>1, <1>6, <1>7
  <1> QED
    BY <1>3, <1>4, <1>7, <1>8 DEF n

\* One request moves: the others are due what they were.
LEMMA DueMoved ==
    ASSUME FilesTyped, \A t \in Tasks : CountGood(t, req[t]),
           NEW r \in Tasks, NEW k \in Requests, Go(r, k), FilesOwed(k) \in 0..MaxFiles
    PROVE  \E c \in Nat : /\ Weight(FilesDue, Tasks) = c + FilesOwed(req[r])
                          /\ Weight(FilesDue', Tasks) = c + FilesOwed(k)
                          /\ c + MaxFiles <= MaxFiles * Cardinality(Tasks)
  <1> DEFINE Rest == Tasks \ {r}
             w == FilesDue
             v == FilesDue'
             c == Weight(w, Rest)
  <1>1. /\ \A t \in Tasks : w[t] = FilesOwed(req[t]) /\ w[t] \in Nat /\ w[t] < MaxFiles + 1
        /\ v[r] = FilesOwed(k) /\ v[r] \in Nat
        /\ \A t \in Rest : v[t] = w[t]
    <2>1. \A t \in Tasks : FilesOwed(req[t]) \in 0..MaxFiles
      BY DEF CountGood
    <2>2. \A t \in Tasks : w[t] = FilesOwed(req[t]) /\ v[t] = FilesOwed(req'[t])
      BY DEF FilesDue, FilesOwed
    <2>3. \A t \in Tasks : req'[t] = IF t = r THEN k ELSE req[t]
      BY DEF FilesTyped, Go
    <2> QED
      BY <2>1, <2>2, <2>3, CountNumbers
  <1>2. /\ IsFiniteSet(Tasks) /\ IsFiniteSet(Rest) /\ Tasks = Rest \union {r}
        /\ Cardinality(Rest) = Cardinality(Tasks) - 1
    BY Numbers, FS_RemoveElement
  <1>3. IsFiniteSet(Units(w, Rest)) /\ c \in Nat
    BY <1>1, <1>2, WeightNat
  <1>4. IsFiniteSet(Units(v, Rest)) /\ Weight(v, Rest) = c
    BY <1>1, <1>3, WeightSame
  <1>5. Weight(w, Tasks) = c + w[r] /\ Weight(v, Tasks) = c + v[r]
    <2> HIDE DEF w, v, c
    <2>1. Weight(w, Rest \union {r}) = Weight(w, Rest) + w[r]
      BY <1>1, <1>3, WeightAdd
    <2>2. Weight(v, Rest \union {r}) = Weight(v, Rest) + v[r]
      BY <1>1, <1>4, WeightAdd
    <2> QED
      BY <1>2, <1>4, <2>1, <2>2 DEF c
  <1>6. c <= Cardinality(Rest) * MaxFiles
    <2> DEFINE B == Rest \X (0..(MaxFiles - 1))
    <2>1. IsFiniteSet(0..(MaxFiles - 1)) /\ Cardinality(0..(MaxFiles - 1)) = MaxFiles
      <3>1. 0 \in Int /\ MaxFiles - 1 \in Int
        BY CountNumbers
      <3>2. /\ IsFiniteSet(0..(MaxFiles - 1))
            /\ Cardinality(0..(MaxFiles - 1)) = IF 0 > MaxFiles - 1 THEN 0 ELSE (MaxFiles - 1) - 0 + 1
        BY <3>1, FS_Interval
      <3> QED
        BY <3>1, <3>2, CountNumbers
    <2>2. IsFiniteSet(B) /\ Cardinality(B) = Cardinality(Rest) * Cardinality(0..(MaxFiles - 1))
      BY <1>2, <2>1, FS_Product
    <2>3. Units(w, Rest) \subseteq B
      <3> SUFFICES ASSUME NEW z \in Units(w, Rest) PROVE z \in B
        OBVIOUS
      <3>1. z \in Rest \X Nat /\ z[2] < w[z[1]]
        BY DEF Units
      <3>2. z[2] \in Nat /\ w[z[1]] \in Nat /\ w[z[1]] < MaxFiles + 1
        BY <1>1, <3>1
      <3>3. z[2] \in 0..(MaxFiles - 1)
        BY <3>1, <3>2, CountNumbers
      <3> QED
        BY <3>1, <3>3
    <2> HIDE DEF B, w
    <2>4. Cardinality(Units(w, Rest)) <= Cardinality(B)
      BY <2>2, <2>3, FS_Subset
    <2> QED
      BY <2>1, <2>2, <2>4 DEF Weight
  <1>7. c + MaxFiles <= MaxFiles * Cardinality(Tasks)
    <2> DEFINE n == Cardinality(Tasks)
    <2> HIDE DEF n, c
    <2>1. n \in Nat /\ MaxFiles \in Nat /\ c <= (n - 1) * MaxFiles
      BY <1>2, <1>6, CountNumbers DEF n
    <2>2. (n - 1) * MaxFiles = MaxFiles * n - MaxFiles
      BY <2>1
    <2>3. MaxFiles * n \in Int
      BY <2>1
    <2>4. c + MaxFiles <= MaxFiles * n
      BY <1>3, <2>1, <2>2, <2>3
    <2> QED
      BY <2>4 DEF n
  <1> HIDE DEF c, w, v
  <1> QED
    BY <1>1, <1>3, <1>5, <1>7 DEF w, v

\* A step of one request and the count.
LEMMA CountStep ==
    ASSUME FilesInv, CountInv, NEW r \in Tasks, NEW k \in Requests, Go(r, k), setup' = setup,
           CountGood(r, k), fileCount' \in Nat, k.at = "less" => k.take <= fileCount',
           OneDeleter =>
              \/ /\ fileCount' + FilesOwed(k) <= fileCount + FilesOwed(req[r])
                 /\ fileCount' >= fileCount \/ setup.kinds[r] \intersect {"delete", "clear"} # {}
              \/ fileCount' = fileCount /\ fileCount + FilesOwed(k) <= MaxFiles
    PROVE  CountInv'
  <1>0. FilesTyped /\ fileCount \in Nat /\ \A t \in Tasks : CountGood(t, req[t])
    BY Numbers DEF FilesInv, FilesTyped, CountInv
  <1>1. \A t \in Tasks : req'[t] = IF t = r THEN k ELSE req[t]
    BY <1>0 DEF FilesTyped, Go
  <1>2. (\A t \in Tasks : CountGood(t, req[t]))'
    <2>1. \A t \in Tasks : CountGood(t, req'[t])
      BY <1>0, <1>1
    <2> QED
      BY <2>1 DEF CountGood
  <1>3. ASSUME OneDeleter'
        PROVE  CountFits'
    <2>0. OneDeleter /\ CountFits
      BY <1>3 DEF OneDeleter, CountInv
    <2>1. PICK c \in Nat : /\ Weight(FilesDue, Tasks) = c + FilesOwed(req[r])
                           /\ Weight(FilesDue', Tasks) = c + FilesOwed(k)
                           /\ c + MaxFiles <= MaxFiles * Cardinality(Tasks)
      BY <1>0, DueMoved DEF CountGood
    <2>2. /\ FilesOwed(k) \in Nat /\ FilesOwed(req[r]) \in Nat
          /\ MaxFiles \in Nat /\ MaxFiles * Cardinality(Tasks) \in Nat
      BY <1>0, CountNumbers DEF CountGood
    <2>3. fileCount' + Weight(FilesDue', Tasks) <= MaxFiles * Cardinality(Tasks)
      <3> DEFINE B == MaxFiles * Cardinality(Tasks)
      <3>1. fileCount + Weight(FilesDue, Tasks) <= B
        BY <2>0 DEF CountFits
      <3> HIDE DEF B
      <3>2. B \in Nat /\ c + MaxFiles <= B
        BY <2>1, <2>2 DEF B
      <3>3. fileCount' + Weight(FilesDue', Tasks) <= B
        BY <1>0, <2>0, <2>1, <2>2, <3>1, <3>2
      <3> QED
        BY <3>3 DEF B
    <2>4. ASSUME NEW t \in Tasks, req'[t].at = "less"
          PROVE  req'[t].take <= fileCount'
      <3>1. CASE t = r
        BY <1>1, <2>4, <3>1
      <3>2. CASE t # r
        <4>1. req'[t] = req[t] /\ req[t].take <= fileCount /\ "delete" \in setup.kinds[t]
          BY <1>0, <1>1, <2>0, <2>4, <3>2 DEF CountFits, CountGood
        <4>2. fileCount' >= fileCount
          BY <1>0, <2>0, <3>2, <4>1 DEF OneDeleter
        <4>3. req[t].take \in Int
          <5>1. req[t].take \in 0..1
            BY <1>0, Fields DEF FilesTyped
          <5> QED
            BY <5>1
        <4> QED
          BY <1>0, <4>1, <4>2, <4>3
      <3> QED
        BY <3>1, <3>2
    <2> QED
      BY <2>3, <2>4 DEF CountFits
  <1> QED
    BY <1>2, <1>3 DEF CountInv

\* A request that is due files adds them without wrapping around.
LEMMA CountAdds ==
    ASSUME FilesInv, CountInv, OneDeleter, NEW r \in Tasks, NEW n \in Nat, n <= FilesOwed(req[r])
    PROVE  (fileCount + n) % CountMod = fileCount + n
  <1>0. FilesTyped /\ fileCount \in Nat /\ (\A t \in Tasks : CountGood(t, req[t])) /\ CountFits
    BY Numbers DEF FilesInv, FilesTyped, CountInv
  <1>1. FilesOwed(req[r]) \in Nat /\ Weight(FilesDue, Tasks) >= FilesOwed(req[r])
    <2>1. IsFiniteSet(Tasks) /\ \A t \in Tasks : FilesDue[t] = FilesOwed(req[t]) /\ FilesDue[t] \in Nat
      BY <1>0, Numbers, CountNumbers DEF CountGood, FilesDue
    <2>2. IsFiniteSet(Units(FilesDue, Tasks))
      BY <2>1, WeightNat
    <2>3. {r} \in SUBSET Tasks /\ \A t \in {r} : FilesDue[t] \in Nat /\ FilesDue[t] <= FilesDue[t]
      BY <2>1
    <2>4. Weight(FilesDue, {r}) <= Weight(FilesDue, Tasks)
      BY <2>2, <2>3, WeightLess
    <2>5. Weight(FilesDue, {r}) = FilesDue[r]
      BY <2>1, UnitsOfOne DEF Weight
    <2>6. Weight(FilesDue, Tasks) \in Nat
      BY <2>1, WeightNat
    <2> QED
      BY <2>1, <2>4, <2>5, <2>6
  <1>2. Weight(FilesDue, Tasks) \in Nat
    BY <1>0, Numbers, CountNumbers, WeightNat DEF CountGood, FilesDue
  <1>3. fileCount + n \in 0..(CountMod - 1)
    <2> DEFINE B == MaxFiles * Cardinality(Tasks)
    <2>1. fileCount + Weight(FilesDue, Tasks) <= B
      BY <1>0 DEF CountFits
    <2>2. B \in Nat /\ B < CountMod - Cardinality(Tasks) /\ Cardinality(Tasks) \in Nat /\ CountMod \in Nat
      BY CountNumbers, Numbers
    <2> HIDE DEF B
    <2> QED
      BY <1>0, <1>1, <1>2, <2>1, <2>2
  <1> QED
    BY <1>3, Numbers, NoWrap

\* A step that leaves the counters alone, after which the request is due nothing.
LEMMA CountTurn ==
    ASSUME FilesInv, CountInv, NEW r \in Tasks, NEW k \in Requests, Go(r, k),
           setup' = setup, fileCount' = fileCount,
           k.at \notin {"count", "body", "add", "promote", "less"},
           k.at \in {"remove", "uncount"} => "delete" \in setup.kinds[r],
           k.at = "clear" => "clear" \in setup.kinds[r]
    PROVE  CountInv'
  <1>1. FilesOwed(k) = 0
    BY DEF FilesOwed
  <1>2. CountGood(r, k)
    BY <1>1, CountNumbers DEF CountGood
  <1>3. FilesOwed(req[r]) \in Nat /\ fileCount \in Nat
    BY CountNumbers, Numbers DEF CountInv, CountGood, FilesInv, FilesTyped
  <1> QED
    BY <1>1, <1>2, <1>3, CountStep

\* ... and one whose client has gone, or that has only the main entry left.
LEMMA CountEnds ==
    ASSUME FilesInv, CountInv, NEW r \in Tasks, End(r) \/ Refresh(r),
           setup' = setup, fileCount' = fileCount
    PROVE  CountInv'
  <1>1. ASSUME NEW k, k \in {Idle, [Idle EXCEPT !.at = "pick"]}, Go(r, k)
        PROVE  CountInv'
    <2>1. k \in Requests
      BY <1>1, IdleGood, PickGood DEF Good
    <2>2. k.at \in {"idle", "pick"}
      BY <1>1, IdleGood DEF Idle
    <2> QED
      BY <1>1, <2>1, <2>2, CountTurn
  <1> QED
    BY <1>1 DEF End, Refresh

LEMMA CountPut ==
    ASSUME FilesInv, CountInv, NEW r \in Tasks, Put(r)
    PROVE  CountInv'
  <1> DEFINE k == req[r]
  <1>0. /\ k \in Requests /\ Good(r, k) /\ CountGood(r, k) /\ node \in Nodes
        /\ fileCount \in 0..(CountMod - 1) /\ fileCount \in Nat
    BY Facts, Numbers DEF CountInv
  <1>1. ASSUME NEW p \in Paths, NEW n \in Sizes, PutBegin(r, p, n)
        PROVE  CountInv'
    <2> DEFINE m == [Idle EXCEPT !.at = "stat", !.path = p, !.size = n]
    <2>1. Go(r, m) /\ setup' = setup /\ fileCount' = fileCount
      BY <1>1 DEF PutBegin, counters
    <2>2. m \in Requests /\ m.at = "stat"
      <3>1. Idle \in Requests /\ "stat" \in Places
        BY IdleGood DEF Places
      <3> QED
        BY <3>1 DEF Requests
    <2> HIDE DEF m
    <2> QED
      BY <2>1, <2>2, CountTurn
  <1>2. CASE PutStat(r)
    <2>0. k.at = "stat" /\ setup' = setup /\ fileCount' = fileCount
      BY <1>2 DEF PutStat, At, counters
    <2>1. CASE Go(r, Idle)
      BY <2>0, <2>1, CountEnds DEF End
    <2> DEFINE m == [k EXCEPT !.at = "grow", !.prior = node[k.path]]
    <2>2. CASE Go(r, m)
      <3>1. k.path \in Paths /\ "grow" \in Places
        BY <1>0, <2>0 DEF Good, Places
      <3>2. node[k.path] \in Nat \union {None, Dir}
        BY <1>0, <3>1, FileSize
      <3>3. m \in Requests /\ m.at = "grow"
        BY <1>0, <3>1, <3>2 DEF Requests
      <3> HIDE DEF m
      <3> QED
        BY <2>0, <2>2, <3>3, CountTurn
    <2> QED
      BY <1>2, <2>1, <2>2 DEF PutStat
  <1>3. CASE PutWrite(r)
    <2>0. k.at = "grow" /\ setup' = setup /\ fileCount' = fileCount
      BY <1>3 DEF PutWrite, At, counters
    <2>1. CASE Go(r, Idle)
      BY <2>0, <2>1, CountEnds DEF End
    <2> DEFINE m == [k EXCEPT !.at = "count"]
    <2>2. CASE Growth(NewBytes(r), NewFiles(r)) /\ Go(r, m)
      <3>1. m \in Requests /\ m.at = "count" /\ m.prior = k.prior
        <4>1. "count" \in Places
          BY DEF Places
        <4> QED
          BY <1>0, <4>1 DEF Requests
      <3> HIDE DEF m
      <3>2. FilesOwed(m) = NewFiles(r)
        BY <3>1 DEF FilesOwed, NewFiles
      <3>3. FilesOwed(m) \in {0, 1} /\ fileCount + FilesOwed(m) <= MaxFiles
        <4>1. FilesOwed(m) \in {0, 1}
          BY <3>2 DEF NewFiles
        <4> QED
          BY <1>0, <2>2, <3>2, <4>1, CountNumbers, Numbers DEF Growth
      <3>4. CountGood(r, m)
        BY <1>0, <3>1, <3>3, CountNumbers DEF CountGood
      <3> QED
        BY <1>0, <2>0, <2>2, <3>1, <3>3, <3>4, CountStep
    <2> QED
      BY <1>3, <2>1, <2>2 DEF PutWrite
  <1>4. CASE PutCount(r)
    <2>1. /\ k.at = "count" /\ fileCount' = (fileCount + NewFiles(r)) % CountMod
          /\ setup' = setup
      BY <1>4 DEF PutCount, At
    <2>2. PICK m \in {Idle, [Idle EXCEPT !.at = "pick"]} : Go(r, m)
      BY <1>4 DEF PutCount, Refresh, End
    <2>3. m \in Requests /\ m.at \in {"idle", "pick"}
      <3>1. m \in Requests
        BY IdleGood, PickGood DEF Good
      <3>2. m.at \in {"idle", "pick"}
        BY <2>2, IdleGood DEF Idle
      <3> QED
        BY <3>1, <3>2
    <2>4. FilesOwed(m) = 0 /\ CountGood(r, m)
      BY <2>3, CountNumbers DEF FilesOwed, CountGood
    <2>5. FilesOwed(k) = NewFiles(r) /\ NewFiles(r) \in Nat
      BY <2>1 DEF FilesOwed, NewFiles
    <2>6. fileCount' \in Nat
      <3>1. fileCount' \in 0..(CountMod - 1)
        BY <1>0, <2>1, <2>5, Wraps
      <3> QED
        BY <3>1, Numbers
    <2>7. OneDeleter => fileCount' = fileCount + FilesOwed(k)
      BY <2>1, <2>5, CountAdds
    <2> QED
      BY <1>0, <2>1, <2>2, <2>3, <2>4, <2>5, <2>6, <2>7, CountStep
  <1> QED
    BY <1>1, <1>2, <1>3, <1>4 DEF Put

LEMMA CountDelete ==
    ASSUME FilesInv, CountInv, NEW r \in Tasks, Delete(r)
    PROVE  CountInv'
  <1> DEFINE k == req[r]
  <1>0. /\ k \in Requests /\ Good(r, k) /\ CountGood(r, k) /\ node \in Nodes
        /\ fileCount \in 0..(CountMod - 1) /\ fileCount \in Nat
    BY Facts, Numbers DEF CountInv
  <1>1. ASSUME NEW p \in Paths, DeleteBegin(r, p)
        PROVE  CountInv'
    <2> DEFINE m == [Idle EXCEPT !.at = "remove", !.path = p, !.prior = node[p]]
    <2>1. Go(r, m) /\ setup' = setup /\ fileCount' = fileCount /\ "delete" \in setup.kinds[r]
      BY <1>1 DEF DeleteBegin, counters, May
    <2>2. m \in Requests /\ m.at = "remove"
      <3>1. Idle \in Requests /\ "remove" \in Places /\ node[p] \in Nat \union {None, Dir}
        BY <1>0, IdleGood, FileSize DEF Places
      <3> QED
        BY <3>1 DEF Requests
    <2> HIDE DEF m
    <2> QED
      BY <2>1, <2>2, CountTurn
  <1>2. CASE DeleteRemove(r)
    <2>0. k.at = "remove" /\ setup' = setup /\ fileCount' = fileCount
      BY <1>2 DEF DeleteRemove, At, counters
    <2>1. CASE End(r) \/ Refresh(r)
      BY <2>0, <2>1, CountEnds
    <2> DEFINE m == [k EXCEPT !.at = "uncount"]
    <2>2. CASE Go(r, m)
      <3>1. m \in Requests /\ m.at = "uncount" /\ "delete" \in setup.kinds[r]
        <4>1. "uncount" \in Places
          BY DEF Places
        <4> QED
          BY <1>0, <2>0, <4>1 DEF Requests, CountGood
      <3> HIDE DEF m
      <3> QED
        BY <2>0, <2>2, <3>1, CountTurn
    <2> QED
      BY <1>2, <2>1, <2>2 DEF DeleteRemove
  <1>3. CASE DeleteUncount(r)
    <2> DEFINE n == Min({1, fileCount})
    <2> DEFINE m == [k EXCEPT !.at = "less", !.take = n]
    <2>1. k.at = "uncount" /\ Go(r, m) /\ setup' = setup /\ fileCount' = fileCount
      BY <1>3 DEF DeleteUncount, At
    <2>2. n \in 0..1 /\ n <= fileCount
      <3>1. fileCount \in Int /\ 1 \in Int
        BY <1>0
      <3>2. n = IF 1 <= fileCount THEN 1 ELSE fileCount
        BY <3>1, MinOfTwo
      <3> QED
        BY <1>0, <3>2
    <2> HIDE DEF n
    <2>3. m \in Requests /\ m.at = "less" /\ m.take = n
      <3>1. "less" \in Places
        BY DEF Places
      <3> QED
        BY <1>0, <2>2, <3>1 DEF Requests
    <2> HIDE DEF m
    <2>4. FilesOwed(m) = 0 /\ CountGood(r, m)
      BY <1>0, <2>1, <2>3, CountNumbers DEF FilesOwed, CountGood
    <2>5. FilesOwed(k) \in Nat
      BY <1>0, CountNumbers DEF CountGood
    <2> QED
      BY <1>0, <2>1, <2>2, <2>3, <2>4, <2>5, CountStep
  <1>4. CASE DeleteLess(r)
    <2> DEFINE m == [Idle EXCEPT !.at = "pick"]
    <2>1. /\ k.at = "less" /\ fileCount' = (fileCount + CountMod - k.take) % CountMod
          /\ Go(r, m) /\ setup' = setup
      BY <1>4 DEF DeleteLess, Refresh, At
    <2>2. m \in Requests /\ m.at = "pick"
      BY IdleGood, PickGood DEF Good, Idle
    <2> HIDE DEF m
    <2>3. FilesOwed(m) = 0 /\ CountGood(r, m) /\ FilesOwed(k) = 0 /\ "delete" \in setup.kinds[r]
      BY <1>0, <2>1, <2>2, CountNumbers DEF FilesOwed, CountGood
    <2>4. k.take \in 0..1
      BY <1>0, Fields
    <2>5. fileCount' \in Nat
      <3>1. fileCount + CountMod - k.take \in Int
        BY <1>0, <2>4, Numbers
      <3>2. fileCount' \in 0..(CountMod - 1)
        BY <2>1, <3>1, Wraps
      <3> QED
        BY <3>2, Numbers
    <2>6. ASSUME OneDeleter
          PROVE  fileCount' <= fileCount
      <3>1. k.take <= fileCount
        BY <2>1, <2>6 DEF CountInv, CountFits
      <3>2. fileCount - k.take \in 0..(CountMod - 1)
        BY <1>0, <2>4, <3>1, Numbers
      <3>3. fileCount' = fileCount - k.take
        <4>1. (fileCount - k.take + CountMod) % CountMod = fileCount - k.take
          BY <3>2, Numbers, OneRound
        <4>2. fileCount - k.take + CountMod = fileCount + CountMod - k.take
          BY <1>0, <2>4, Numbers
        <4> QED
          BY <2>1, <4>1, <4>2
      <3> QED
        BY <1>0, <2>4, <3>3
    <2> QED
      BY <1>0, <2>1, <2>2, <2>3, <2>5, <2>6, CountStep
  <1> QED
    BY <1>1, <1>2, <1>3, <1>4 DEF Delete

LEMMA CountUpload ==
    ASSUME FilesInv, CountInv, NEW r \in Tasks, Upload(r)
    PROVE  CountInv'
  <1> DEFINE k == req[r]
  <1>0. /\ k \in Requests /\ Good(r, k) /\ CountGood(r, k)
        /\ fileCount \in 0..(CountMod - 1) /\ fileCount \in Nat
        /\ k.off \in Nat /\ k.todo \in SUBSET Paths /\ k.done \in SUBSET Paths
        /\ k.path \in Paths \union {None} /\ k.upload \in BOOLEAN
    BY Facts, Fields, Numbers DEF CountInv
  <1>1. CASE UploadBegin(r)
    <2> DEFINE f == (fileCount = 0)
    <2> DEFINE m == [Idle EXCEPT !.at = "next", !.upload = TRUE, !.fresh = f]
    <2>1. Go(r, m) /\ setup' = setup /\ fileCount' = fileCount
      BY <1>1 DEF UploadBegin, counters
    <2>2. Idle \in Requests /\ "next" \in Places /\ f \in BOOLEAN
      BY IdleGood DEF Places
    <2>3. m \in Requests /\ m.at = "next"
      <3> HIDE DEF f
      <3> QED
        BY <2>2 DEF Requests
    <2> HIDE DEF m
    <2> QED
      BY <2>1, <2>3, CountTurn
  <1>2. ASSUME NEW p \in Paths, UploadField(r, p)
        PROVE  CountInv'
    <2>0. k.at = "next" /\ setup' = setup /\ fileCount' = fileCount /\ fileCount < MaxCount
      BY <1>2 DEF UploadField, At, counters
    <2>1. CASE End(r)
      BY <2>0, <2>1, CountEnds
    <2> DEFINE m == [k EXCEPT !.at = "body", !.path = p, !.off = 0]
    <2>2. CASE Go(r, m)
      <3>1. m \in Requests /\ m.at = "body"
        <4>1. "body" \in Places /\ 0 \in Nat
          BY DEF Places
        <4> QED
          BY <1>0, <4>1 DEF Requests
      <3> HIDE DEF m
      <3>2. FilesOwed(m) = 1 /\ fileCount + 1 <= MaxFiles
        <4>1. MaxCount \in Nat
          BY FilesConstantsAssumption
        <4> QED
          BY <1>0, <2>0, <3>1, <4>1, CountNumbers DEF FilesOwed
      <3>3. CountGood(r, m)
        BY <1>0, <3>1, <3>2, CountNumbers DEF CountGood
      <3> QED
        BY <1>0, <2>0, <2>2, <3>1, <3>2, <3>3, CountStep
    <2> QED
      BY <1>2, <2>1, <2>2 DEF UploadField
  <1>3. ASSUME NEW m, Go(r, m), m \in Requests, setup' = setup, fileCount' = fileCount,
               k.at \in {"body", "add"}, m.at \in {"body", "add"}
        PROVE  CountInv'
    <2>1. FilesOwed(m) = 1 /\ FilesOwed(k) = 1
      BY <1>3 DEF FilesOwed
    <2>2. CountGood(r, m)
      BY <1>0, <1>3, <2>1 DEF CountGood
    <2> QED
      BY <1>0, <1>3, <2>1, <2>2, CountStep
  <1>4. CASE UploadChunk(r)
    <2> DEFINE m == [k EXCEPT !.at = "add"]
    <2>1. Go(r, m) /\ k.at = "body" /\ setup' = setup /\ fileCount' = fileCount
      BY <1>4 DEF UploadChunk, At, counters
    <2>2. m \in Requests /\ m.at = "add"
      <3>1. "add" \in Places
        BY DEF Places
      <3> QED
        BY <1>0, <3>1 DEF Requests
    <2> HIDE DEF m
    <2> QED
      BY <1>3, <2>1, <2>2
  <1>5. CASE UploadReject(r)
    BY <1>5, CountEnds DEF UploadReject, counters
  <1>6. CASE UploadAdd(r)
    <2> DEFINE m == [k EXCEPT !.at = "body", !.off = @ + 1]
    <2>1. Go(r, m) /\ k.at = "add" /\ setup' = setup /\ fileCount' = fileCount
      BY <1>6 DEF UploadAdd, At
    <2>2. m \in Requests /\ m.at = "body"
      <3>1. "body" \in Places /\ k.off + 1 \in Nat
        BY <1>0 DEF Places
      <3> QED
        BY <1>0, <3>1 DEF Requests
    <2> HIDE DEF m
    <2> QED
      BY <1>3, <2>1, <2>2
  <1>7. CASE UploadEnd(r)
    <2> DEFINE n == [k EXCEPT !.at = "next", !.path = None, !.off = 0]
    <2> DEFINE m == Written(n, k.path)
    <2>1. Go(r, m) /\ k.at = "body" /\ setup' = setup /\ fileCount' = (fileCount + 1) % CountMod
      BY <1>7 DEF UploadEnd, At
    <2>2. m \in Requests /\ m.at = "next"
      <3>1. "next" \in Places /\ k.path \in Paths /\ 0 \in Nat
        BY <1>0, <2>1 DEF Places, Good
      <3>2. n \in Requests /\ n.at = "next"
        BY <1>0, <3>1 DEF Requests
      <3> HIDE DEF n
      <3> QED
        BY <3>1, <3>2, WrittenFields
    <2> HIDE DEF m
    <2>3. FilesOwed(m) = 0 /\ FilesOwed(k) = 1 /\ CountGood(r, m)
      BY <1>0, <2>1, <2>2, CountNumbers DEF FilesOwed, CountGood
    <2>4. fileCount' \in Nat
      <3>1. fileCount' \in 0..(CountMod - 1)
        BY <1>0, <2>1, Wraps
      <3> QED
        BY <3>1, Numbers
    <2>5. OneDeleter => fileCount' = fileCount + 1
      BY <2>1, <2>3, CountAdds
    <2> QED
      BY <1>0, <2>1, <2>2, <2>3, <2>4, <2>5, CountStep
  <1>8. CASE UploadDone(r)
    <2> DEFINE m == [k EXCEPT !.at = "unwrap", !.todo = k.done]
    <2>0. setup' = setup /\ fileCount' = fileCount
      BY <1>8 DEF UploadDone, counters
    <2>1. CASE Refresh(r)
      BY <2>0, <2>1, CountEnds
    <2>2. CASE Go(r, m)
      <3>1. m \in Requests /\ m.at = "unwrap"
        <4>1. "unwrap" \in Places
          BY DEF Places
        <4> QED
          BY <1>0, <4>1 DEF Requests
      <3> HIDE DEF m
      <3> QED
        BY <2>0, <2>2, <3>1, CountTurn
    <2> QED
      BY <1>8, <2>1, <2>2 DEF UploadDone
  <1>9. ASSUME NEW p \in k.todo, Unwrap(r, p)
        PROVE  CountInv'
    <2> DEFINE m == [k EXCEPT !.todo = @ \ {p}]
    <2>0. k.at = "unwrap" /\ setup' = setup /\ fileCount' = fileCount
      BY <1>9 DEF Unwrap, At, counters
    <2>1. CASE End(r)
      BY <2>0, <2>1, CountEnds
    <2>2. CASE Go(r, m)
      <3>1. m \in Requests /\ m.at = "unwrap"
        BY <1>0, <2>0 DEF Requests
      <3> HIDE DEF m
      <3> QED
        BY <2>0, <2>2, <3>1, CountTurn
    <2> QED
      BY <1>9, <2>1, <2>2 DEF Unwrap
  <1>10. CASE UnwrapDone(r)
    BY <1>10, CountEnds DEF UnwrapDone, counters
  <1>11. CASE UnwrapAgain(r)
    BY <1>11, CountEnds DEF UnwrapAgain, counters
  <1> QED
    BY <1>1, <1>2, <1>4, <1>5, <1>6, <1>7, <1>8, <1>9, <1>10, <1>11 DEF Upload

LEMMA CountArchive ==
    ASSUME FilesInv, CountInv, NEW r \in Tasks, Archive(r)
    PROVE  CountInv'
  <1> DEFINE k == req[r]
  <1>0. /\ k \in Requests /\ Good(r, k) /\ CountGood(r, k)
        /\ fileCount \in 0..(CountMod - 1) /\ fileCount \in Nat
        /\ k.off \in Nat /\ k.todo \in SUBSET Paths /\ k.done \in SUBSET Paths
        /\ k.upload \in BOOLEAN /\ k.dropped \in BOOLEAN
    BY Facts, Fields, Numbers DEF CountInv
  <1>1. ASSUME NEW E \in SUBSET Paths, ArchiveBegin(r, E)
        PROVE  CountInv'
    <2> DEFINE T == {p \in E : node[p] = None}
    <2> DEFINE m == [k EXCEPT !.at = "promote", !.todo = T, !.off = 0]
    <2>1. /\ IsFiniteSet(E) /\ fileCount + Cardinality(E) <= MaxCount
          /\ Go(r, m) /\ setup' = setup /\ fileCount' = fileCount
      BY <1>1 DEF ArchiveBegin, counters
    <2>2. /\ IsFiniteSet(T) /\ Cardinality(T) \in Nat
          /\ Cardinality(T) <= Cardinality(E) /\ Cardinality(E) \in Nat
      <3>1. T \subseteq E
        OBVIOUS
      <3> HIDE DEF T
      <3> QED
        BY <2>1, <3>1, FS_Subset, FS_CardinalityType
    <2>3. m \in Requests /\ m.at = "promote" /\ m.todo = T /\ m.off = 0
      <3>1. "promote" \in Places /\ T \in SUBSET Paths /\ 0 \in Nat
        BY DEF Places
      <3> HIDE DEF T
      <3> QED
        BY <1>0, <3>1 DEF Requests
    <2> HIDE DEF m, T
    <2>4. FilesOwed(m) \in 0..MaxFiles /\ fileCount + FilesOwed(m) <= MaxFiles
      <3>1. MaxCount \in Nat
        BY FilesConstantsAssumption
      <3>2. FilesOwed(m) \in {0, Cardinality(T)}
        <4>1. FilesOwed(m) \in {0, 0 + Cardinality(T)}
          BY <2>3 DEF FilesOwed
        <4> QED
          BY <2>2, <4>1
      <3> QED
        BY <1>0, <2>1, <2>2, <3>1, <3>2, CountNumbers
    <2>5. CountGood(r, m)
      BY <2>2, <2>3, <2>4 DEF CountGood
    <2> QED
      BY <1>0, <2>1, <2>3, <2>4, <2>5, CountStep
  <1>2. ASSUME NEW p \in k.todo, ArchivePromote(r, p)
        PROVE  CountInv'
    <2> DEFINE n == [k EXCEPT !.todo = @ \ {p}, !.off = @ + 1]
    <2> DEFINE m == Written(n, p)
    <2>1. k.at = "promote" /\ Go(r, m) /\ setup' = setup /\ fileCount' = fileCount
      BY <1>2 DEF ArchivePromote, At, counters
    <2>2. p \in Paths /\ k.off + 1 \in Nat
      BY <1>0
    <2>3. /\ m \in Requests /\ m.at = "promote" /\ m.todo = k.todo \ {p} /\ m.off = k.off + 1
          /\ m.dropped = k.dropped
      <3>1. /\ n \in Requests /\ n.at = "promote" /\ n.todo = k.todo \ {p} /\ n.off = k.off + 1
            /\ n.dropped = k.dropped
        BY <1>0, <2>1, <2>2 DEF Requests
      <3> HIDE DEF n
      <3> QED
        BY <2>2, <3>1, WrittenFields
    <2> HIDE DEF m
    <2>4. /\ IsFiniteSet(k.todo) /\ IsFiniteSet(m.todo) /\ Cardinality(k.todo) \in Nat
          /\ Cardinality(m.todo) = Cardinality(k.todo) - 1
      BY <1>0, <2>1, <2>3, FS_RemoveElement, FS_CardinalityType DEF CountGood
    <2>5. FilesOwed(m) = FilesOwed(k)
      <3> DEFINE a == Cardinality(k.todo)
                 b == Cardinality(m.todo)
      <3>1. a \in Nat /\ b = a - 1
        BY <2>4
      <3>2. /\ FilesOwed(m) = IF m.dropped THEN 0 ELSE m.off + b
            /\ FilesOwed(k) = IF k.dropped THEN 0 ELSE k.off + a
        BY <2>1, <2>3 DEF FilesOwed
      <3> HIDE DEF a, b
      <3> QED
        BY <1>0, <2>3, <3>1, <3>2
    <2>6. CountGood(r, m)
      BY <1>0, <2>3, <2>4, <2>5 DEF CountGood
    <2>7. FilesOwed(k) \in Nat
      BY <1>0, CountNumbers DEF CountGood
    <2> QED
      BY <1>0, <2>1, <2>3, <2>5, <2>6, <2>7, CountStep
  <1>3. ASSUME NEW p \in k.todo, ArchiveFail(r, p)
        PROVE  CountInv'
    BY <1>3, CountEnds DEF ArchiveFail, counters
  <1>4. CASE ArchiveCount(r)
    <2> DEFINE m == [k EXCEPT !.at = "next", !.off = 0]
    <2>1. k.at = "promote" /\ k.todo = {} /\ setup' = setup
      BY <1>4 DEF ArchiveCount, At
    <2>2. CASE k.dropped
      BY <1>4, <2>2, CountEnds DEF ArchiveCount, counters
    <2>3. CASE ~k.dropped
      <3>1. fileCount' = (fileCount + k.off) % CountMod
        BY <1>4, <2>3 DEF ArchiveCount
      <3>2. PICK n : Go(r, n) /\ n \in {m, [Idle EXCEPT !.at = "pick"]}
        BY <1>4, <2>3 DEF ArchiveCount, Refresh
      <3>3. n \in Requests /\ n.at \in {"next", "pick"}
        <4>1. m \in Requests /\ m.at = "next"
          <5>1. "next" \in Places /\ 0 \in Nat
            BY DEF Places
          <5> QED
            BY <1>0, <5>1 DEF Requests
        <4>2. /\ [Idle EXCEPT !.at = "pick"] \in Requests
              /\ [Idle EXCEPT !.at = "pick"].at = "pick"
          BY IdleGood, PickGood DEF Good, Idle
        <4> HIDE DEF m
        <4> QED
          BY <3>2, <4>1, <4>2
      <3>4. FilesOwed(n) = 0 /\ CountGood(r, n)
        BY <3>3, CountNumbers DEF FilesOwed, CountGood
      <3>5. FilesOwed(k) = k.off
        <4>1. FilesOwed(k) = k.off + 0
          BY <2>1, <2>3, FS_EmptySet DEF FilesOwed
        <4> QED
          BY <1>0, <4>1
      <3>6. fileCount' \in Nat
        <4>1. fileCount' \in 0..(CountMod - 1)
          BY <1>0, <3>1, Wraps
        <4> QED
          BY <4>1, Numbers
      <3>7. OneDeleter => fileCount' = fileCount + k.off
        BY <1>0, <3>1, <3>5, CountAdds
      <3> HIDE DEF m
      <3> QED
        BY <1>0, <2>1, <3>2, <3>3, <3>4, <3>5, <3>6, <3>7, CountStep
    <2> QED
      BY <2>2, <2>3
  <1> QED
    BY <1>1, <1>2, <1>3, <1>4 DEF Archive

LEMMA CountClear ==
    ASSUME FilesInv, CountInv, NEW r \in Tasks, Clear(r)
    PROVE  CountInv'
  <1> DEFINE k == req[r]
  <1>0. /\ k \in Requests /\ CountGood(r, k) /\ fileCount \in Nat /\ k.todo \in SUBSET Paths
        /\ FilesOwed(k) \in Nat
    BY Facts, Fields, Numbers, CountNumbers DEF CountInv, CountGood
  <1>1. CASE ClearBegin(r)
    <2> DEFINE T == {p \in Top : node[p] # None}
    <2> DEFINE m == [Idle EXCEPT !.at = "clear", !.todo = T]
    <2>1. Go(r, m) /\ setup' = setup /\ fileCount' = fileCount /\ "clear" \in setup.kinds[r]
      BY <1>1 DEF ClearBegin, counters, May
    <2>2. m \in Requests /\ m.at = "clear"
      <3>1. Idle \in Requests /\ "clear" \in Places /\ T \in SUBSET Paths
        BY IdleGood DEF Places, Top
      <3> HIDE DEF T
      <3> QED
        BY <3>1 DEF Requests
    <2> HIDE DEF m
    <2> QED
      BY <2>1, <2>2, CountTurn
  <1>2. ASSUME NEW p \in k.todo, ClearRemove(r, p)
        PROVE  CountInv'
    <2> DEFINE m == [k EXCEPT !.todo = @ \ {p}]
    <2>0. k.at = "clear" /\ setup' = setup /\ fileCount' = fileCount
      BY <1>2 DEF ClearRemove, At, counters
    <2>1. CASE End(r)
      BY <2>0, <2>1, CountEnds
    <2>2. CASE Go(r, m)
      <3>1. m \in Requests /\ m.at = "clear" /\ "clear" \in setup.kinds[r]
        BY <1>0, <2>0 DEF Requests, CountGood
      <3> HIDE DEF m
      <3> QED
        BY <2>0, <2>2, <3>1, CountTurn
    <2> QED
      BY <1>2, <2>1, <2>2 DEF ClearRemove
  <1>3. ASSUME NEW q \in staging, ClearStaging(r, q)
        PROVE  CountInv'
    <2>1. k.at = "clear" /\ "clear" \in setup.kinds[r]
      BY <1>0, <1>3 DEF ClearStaging, At, CountGood
    <2>2. Go(r, k) /\ setup' = setup /\ fileCount' = fileCount
      <3>1. req \in [Tasks -> Requests]
        BY DEF FilesInv, FilesTyped
      <3> QED
        BY <1>3, <3>1 DEF ClearStaging, Go, counters
    <2> HIDE DEF k
    <2> QED
      BY <1>0, <2>1, <2>2, CountTurn
  <1>4. CASE ClearDone(r)
    <2>1. k.at = "clear" /\ fileCount' = 0 /\ Go(r, Idle) /\ setup' = setup
      BY <1>4 DEF ClearDone, End, At
    <2>2. Idle \in Requests /\ Idle.at = "idle" /\ "clear" \in setup.kinds[r]
      BY <1>0, <2>1, IdleGood DEF Idle, CountGood
    <2>3. FilesOwed(Idle) = 0 /\ CountGood(r, Idle)
      BY <2>2, CountNumbers DEF FilesOwed, CountGood
    <2> QED
      BY <1>0, <2>1, <2>2, <2>3, CountStep
  <1> QED
    BY <1>1, <1>2, <1>3, <1>4 DEF Clear

LEMMA CountOther ==
    ASSUME FilesInv, CountInv, NEW r \in Tasks,
           \/ \E p \in Paths : Mkdir(r, p)
           \/ \E p, q \in Paths : Rename(r, p, q)
           \/ RefreshPick(r)
           \/ RefreshStore(r)
           \/ Abandon(r)
    PROVE  CountInv'
  <1> DEFINE k == req[r]
  <1>0. /\ k \in Requests /\ Good(r, k) /\ CountGood(r, k) /\ fileCount \in Nat
        /\ FilesOwed(k) \in Nat
    BY Facts, Numbers, CountNumbers DEF CountInv, CountGood
  <1>1. ASSUME NEW p \in Paths, Mkdir(r, p)
        PROVE  CountInv'
    BY <1>1, CountEnds DEF Mkdir, counters
  <1>2. ASSUME NEW p \in Paths, NEW q \in Paths, Rename(r, p, q)
        PROVE  CountInv'
    <2>1. k.at = "idle" /\ setup' = setup /\ fileCount' = fileCount
      BY <1>2 DEF Rename, May, counters
    <2>2. CASE Refresh(r)
      BY <2>1, <2>2, CountEnds
    <2>3. CASE req' = req
      <3>1. Go(r, k)
        <4>1. req \in [Tasks -> Requests]
          BY DEF FilesInv, FilesTyped
        <4> QED
          BY <2>3, <4>1 DEF Go
      <3> HIDE DEF k
      <3> QED
        BY <1>0, <2>1, <3>1, CountTurn
    <2> QED
      BY <1>2, <2>2, <2>3 DEF Rename
  <1>3. CASE RefreshPick(r)
    <2> DEFINE e == Preferred(Files(node))
    <2> DEFINE m == [k EXCEPT !.at = "store", !.pick = e]
    <2>1. Go(r, m) /\ setup' = setup /\ fileCount' = fileCount
      BY <1>3 DEF RefreshPick, counters
    <2>2. m \in Requests /\ m.at = "store"
      <3>1. "store" \in Places /\ e \in Paths \union {None}
        <4>1. Files(node) \in SUBSET Paths
          BY DEF Files
        <4> QED
          BY <4>1, PreferredTypes DEF Places
      <3> HIDE DEF e
      <3> QED
        BY <1>0, <3>1 DEF Requests
    <2> HIDE DEF m
    <2> QED
      BY <2>1, <2>2, CountTurn
  <1>4. CASE RefreshStore(r)
    BY <1>4, CountEnds DEF RefreshStore, End, counters
  <1>5. CASE Abandon(r)
    <2>0. setup' = setup /\ fileCount' = fileCount
      BY <1>5 DEF Abandon, counters
    <2>1. CASE k.at = "promote"
      <3> DEFINE m == [k EXCEPT !.dropped = TRUE]
      <3>1. Go(r, m)
        BY <1>5, <2>1 DEF Abandon, At
      <3>2. m \in Requests /\ m.at = "promote" /\ m.dropped = TRUE /\ m.todo = k.todo
        BY <1>0, <2>1 DEF Requests
      <3> HIDE DEF m
      <3>3. FilesOwed(m) = 0 /\ CountGood(r, m)
        BY <1>0, <2>1, <3>2, CountNumbers DEF FilesOwed, CountGood
      <3> QED
        BY <1>0, <2>0, <3>1, <3>2, <3>3, CountStep
    <2>2. CASE End(r)
      BY <2>0, <2>2, CountEnds
    <2> QED
      BY <1>5, <2>1, <2>2 DEF Abandon, At
  <1> QED
    BY <1>1, <1>2, <1>3, <1>4, <1>5

\* At first nothing is due.
LEMMA CountInit ==
    ASSUME Init
    PROVE  CountInv
  <1>1. \A r \in Tasks : req[r] = Idle
    BY DEF Init
  <1>2. \A r \in Tasks : CountGood(r, req[r]) /\ FilesOwed(req[r]) = 0 /\ req[r].at = "idle"
    <2>1. Idle.at = "idle"
      BY DEF Idle
    <2>2. FilesOwed(Idle) = 0
      BY <2>1 DEF FilesOwed
    <2> QED
      BY <1>1, <2>1, <2>2, CountNumbers DEF CountGood
  <1>3. fileCount \in Nat /\ fileCount <= MaxFiles
    <2>1. PICK F \in SUBSET Paths :
             /\ IsFiniteSet(F) /\ Cardinality(F) <= Min({QuotaBytes, QuotaFiles})
             /\ fileCount = Cardinality(F)
      BY DEF Init
    <2>2. Min({QuotaBytes, QuotaFiles}) = IF QuotaBytes <= QuotaFiles THEN QuotaBytes ELSE QuotaFiles
      BY Numbers, MinOfTwo
    <2> QED
      BY <2>1, <2>2, FS_CardinalityType, Numbers, CountNumbers
  <1>4. Tasks # {} => fileCount + Weight(FilesDue, Tasks) <= MaxFiles * Cardinality(Tasks)
    <2> SUFFICES ASSUME NEW r \in Tasks
                 PROVE  fileCount + Weight(FilesDue, Tasks) <= MaxFiles * Cardinality(Tasks)
      OBVIOUS
    <2>1. Units(FilesDue, Tasks) = {}
      BY <1>2 DEF Units, FilesDue
    <2>2. Weight(FilesDue, Tasks) = 0
      BY <2>1, FS_EmptySet DEF Weight
    <2> DEFINE n == Cardinality(Tasks)
    <2>3. n \in Nat /\ n # 0
      BY Numbers, FS_CardinalityType, FS_EmptySet
    <2> HIDE DEF n
    <2>4. MaxFiles <= MaxFiles * n
      BY <2>3, CountNumbers
    <2>5. MaxFiles * n \in Nat /\ MaxFiles \in Nat
      BY <2>3, CountNumbers
    <2>6. fileCount + 0 <= MaxFiles * n
      BY <1>3, <2>4, <2>5
    <2> QED
      BY <2>2, <2>6 DEF n
  <1> QED
    BY <1>2, <1>4 DEF CountInv, CountFits

LEMMA CountNext ==
    ASSUME FilesInv, CountInv, [Next]_vars
    PROVE  CountInv'
  <1>1. CASE Next
    <2>1. PICK r \in Tasks :
             \/ Put(r)
             \/ Delete(r)
             \/ Upload(r)
             \/ Archive(r)
             \/ Clear(r)
             \/ \E p \in Paths : Mkdir(r, p)
             \/ \E p, q \in Paths : Rename(r, p, q)
             \/ RefreshPick(r)
             \/ RefreshStore(r)
             \/ Abandon(r)
      BY <1>1 DEF Next
    <2> QED
      BY <2>1, CountPut, CountDelete, CountUpload, CountArchive, CountClear, CountOther
  <1>2. CASE UNCHANGED vars
    <2>1. setup' = setup /\ fileCount' = fileCount /\ req' = req
      BY <1>2 DEF vars, counters
    <2> QED
      BY <2>1 DEF CountInv, CountGood, CountFits, FilesDue, OneDeleter
  <1> QED
    BY <1>1, <1>2

-----------------------------------------------------------------------------
(* Bytes on disk.                                                          *)

\* Bytes n on, up to m, of a file.
LEMMA Slice ==
    ASSUME NEW p, NEW n \in Nat, NEW m \in Nat
    PROVE  /\ IsFiniteSet({p} \X (n..(m - 1)))
           /\ Cardinality({p} \X (n..(m - 1))) = IF n <= m THEN m - n ELSE 0
           /\ Bytes(p, m) \subseteq Bytes(p, n) \union ({p} \X (n..(m - 1)))
  <1> DEFINE I == n..(m - 1)
  <1>1. IsFiniteSet(I) /\ Cardinality(I) = IF n <= m THEN m - n ELSE 0
    <2>1. n \in Int /\ m - 1 \in Int
      OBVIOUS
    <2>2. IsFiniteSet(I) /\ Cardinality(I) = IF n > m - 1 THEN 0 ELSE (m - 1) - n + 1
      BY <2>1, FS_Interval
    <2> QED
      BY <2>2
  <1>2. IsFiniteSet({p}) /\ Cardinality({p}) = 1
    BY FS_Singleton
  <1>3. Bytes(p, m) \subseteq Bytes(p, n) \union ({p} \X I)
    BY DEF Bytes
  <1> HIDE DEF I
  <1>4. IsFiniteSet({p} \X I) /\ Cardinality({p} \X I) = Cardinality({p}) * Cardinality(I)
    BY <1>1, <1>2, FS_Product
  <1>5. Cardinality(I) \in Nat
    BY <1>1, FS_CardinalityType
  <1>6. Cardinality({p} \X I) = Cardinality(I)
    BY <1>2, <1>4, <1>5
  <1> QED
    BY <1>1, <1>3, <1>4, <1>6 DEF I

LEMMA BytesSize ==
    ASSUME NEW p, NEW n \in Nat
    PROVE  IsFiniteSet(Bytes(p, n)) /\ Cardinality(Bytes(p, n)) = n /\ Bytes(p, 0) = {}
  <1>1. /\ IsFiniteSet({p} \X (0..(n - 1)))
        /\ Cardinality({p} \X (0..(n - 1))) = IF 0 <= n THEN n - 0 ELSE 0
    BY Slice
  <1>2. Bytes(p, 0) = {}
    BY DEF Bytes
  <1> QED
    BY <1>1, <1>2 DEF Bytes

\* Bytes of a file join a set that has the first n of them.
LEMMA BytesAdded ==
    ASSUME NEW K, IsFiniteSet(K), NEW p, NEW n \in Nat, NEW m \in Nat, Bytes(p, n) \subseteq K
    PROVE  /\ IsFiniteSet(K \union Bytes(p, m)) /\ Cardinality(K \union Bytes(p, m)) \in Nat
           /\ Cardinality(K \union Bytes(p, m)) <= Cardinality(K) + (IF n <= m THEN m - n ELSE 0)
  <1> DEFINE N == {p} \X (n..(m - 1))
             V == K \union N
             W == K \union Bytes(p, m)
  <1>1. /\ IsFiniteSet(N) /\ Cardinality(N) = IF n <= m THEN m - n ELSE 0
        /\ Bytes(p, m) \subseteq Bytes(p, n) \union N
    BY Slice, ZenonT(30)
  <1> HIDE DEF N
  <1>2. /\ IsFiniteSet(V) /\ IsFiniteSet(K \intersect N)
        /\ Cardinality(V) = Cardinality(K) + Cardinality(N) - Cardinality(K \intersect N)
    BY <1>1, FS_Union, FS_Intersection
  <1>3. Cardinality(K \intersect N) \in Nat /\ Cardinality(N) \in Nat /\ Cardinality(K) \in Nat
    BY <1>1, <1>2, FS_CardinalityType
  <1>4. W \subseteq V
    BY <1>1
  <1> HIDE DEF V, W
  <1>5. IsFiniteSet(W) /\ Cardinality(W) <= Cardinality(V) /\ Cardinality(W) \in Nat /\ Cardinality(V) \in Nat
    BY <1>2, <1>4, FS_Subset, FS_CardinalityType
  <1>6. Cardinality(W) <= Cardinality(K) + Cardinality(N)
    BY <1>2, <1>3, <1>5
  <1> QED
    BY <1>1, <1>5, <1>6 DEF W

\* A file's bytes are among those on disk.
LEMMA FileBytes ==
    ASSUME NEW nd \in Nodes, NEW p \in Paths, nd[p] \in Nat
    PROVE  p \in Files(nd) /\ Bytes(p, nd[p]) \subseteq Units(nd, Files(nd))
  <1>1. nd[p] \notin {None, Dir}
    BY Names
  <1> QED
    BY <1>1 DEF Files, Bytes, Units

LEMMA SeenKnown ==
    ASSUME NEW r \in Tasks
    PROVE  Bytes(req[r].path, Seen(req[r])) \subseteq Known
  BY DEF Known

\* What a request has seen and owes are numbers.
LEMMA SeenNumbers ==
    ASSUME NEW r \in Tasks, NEW k, Good(r, k)
    PROVE  Seen(k) \in Nat /\ Due(k) \in Nat /\ Owed(k) \in Nat
  <1>1. k \in Requests /\ k.off \in Nat
    BY Fields DEF Good
  <1>2. k.at \in {"grow", "count", "uncount"} => k.prior \in Nat \union {None}
    BY DEF Good
  <1>3. Owed(k) \in Nat
    <2>1. Owed(k) \in 0..UploadMax
      BY OwedBounds
    <2> QED
      BY <2>1, Numbers
  <1>4. Seen(k) \in Nat
    <2>1. CASE k.at \in {"grow", "count", "uncount"}
      BY <1>2, <2>1 DEF Seen
    <2>2. CASE k.at \notin {"grow", "count", "uncount"}
      BY <1>1, <2>2 DEF Seen
    <2> QED
      BY <2>1, <2>2
  <1> QED
    BY <1>1, <1>3, <1>4 DEF Due

\* One request moves: every byte that is known now is in V, which is paid for.
LEMMA AccountStep ==
    ASSUME FilesInv, Counted, NEW r \in Tasks, NEW k, Good(r, k), Go(r, k), setup' = setup,
           node' \in Nodes, bytesUsed' \in Nat, stray' \in Nat,
           NEW V, IsFiniteSet(V), Units(node', Files(node')) \subseteq V,
           Bytes(k.path, Seen(k)) \subseteq V,
           Known \subseteq V \/ \A t \in Tasks \ {r} : req[t].at = "idle",
           \/ V = {}
           \/ Cardinality(V) + bytesUsed + stray + Due(req[r])
                <= Cardinality(Known) + bytesUsed' + stray' + Due(k)
    PROVE  Counted'
  <1>0. /\ FilesTyped /\ k \in Requests /\ bytesUsed \in Nat /\ stray \in Nat /\ IsFiniteSet(Tasks)
        /\ \A t \in Tasks : Good(t, req[t])
    BY Numbers DEF FilesInv, FilesTyped, Good
  <1>1. \A t \in Tasks : req'[t] = IF t = r THEN k ELSE req[t]
    BY <1>0 DEF FilesTyped, Go
  <1>2. Known' \subseteq V
    <2>1. Known' = Units(node', Files(node')) \union UNION {Bytes(req'[t].path, Seen(req'[t])) : t \in Tasks}
      BY DEF Known, Units, Files, Bytes, Seen
    <2>2. \A t \in Tasks : Bytes(req'[t].path, Seen(req'[t])) \subseteq V
      <3> TAKE t \in Tasks
      <3>1. CASE t = r
        BY <1>1, <3>1
      <3>2. CASE t # r /\ Known \subseteq V
        BY <1>1, <3>2 DEF Known
      <3>3. CASE t # r /\ req[t].at = "idle"
        <4>1. Seen(req'[t]) = 0
          BY <1>1, <3>3 DEF Seen
        <4> QED
          BY <4>1, BytesSize
      <3> QED
        BY <3>1, <3>2, <3>3
    <2> QED
      BY <2>1, <2>2
  <1>3. IsFiniteSet(Known') /\ Cardinality(Known') <= Cardinality(V) /\ Cardinality(Known') \in Nat
    BY <1>2, FS_Subset, FS_CardinalityType
  <1>4. PICK c \in Nat : /\ Weight(BytesDue, Tasks) = c + Due(req[r])
                         /\ Weight(BytesDue', Tasks) = c + Due(k)
    <2> DEFINE w == BytesDue
               v == BytesDue'
    <2>1. \A t \in Tasks : w[t] = Due(req[t]) /\ v[t] = Due(req'[t])
      BY DEF BytesDue, Due, Owed
    <2>2. \A t \in Tasks : Due(req[t]) \in Nat
      BY <1>0, SeenNumbers
    <2>3. Due(k) \in Nat
      BY SeenNumbers
    <2> HIDE DEF w, v
    <2>4. /\ \A t \in Tasks : w[t] \in Nat /\ v[t] \in Nat
          /\ \A t \in Tasks \ {r} : v[t] = w[t]
          /\ w[r] = Due(req[r]) /\ v[r] = Due(k)
      BY <1>1, <2>1, <2>2, <2>3
    <2>5. \E c \in Nat : Weight(w, Tasks) = c + w[r] /\ Weight(v, Tasks) = c + v[r]
      BY <1>0, <2>4, WeightMoves
    <2> QED
      BY <2>4, <2>5 DEF w, v
  <1>5. Cardinality(Known) <= bytesUsed + stray + Weight(BytesDue, Tasks)
    BY DEF Counted
  <1>6. /\ Due(req[r]) \in Nat /\ Due(k) \in Nat /\ Cardinality(V) \in Nat /\ Cardinality(Known) \in Nat
    BY <1>0, SeenNumbers, FS_CardinalityType DEF Counted
  <1>7. Cardinality(Known') <= bytesUsed' + stray' + Weight(BytesDue', Tasks)
    <2> DEFINE K == Known
               L == Known'
    <2> HIDE DEF K, L
    <2>1. /\ Cardinality(L) <= Cardinality(V) /\ Cardinality(L) \in Nat /\ Cardinality(K) \in Nat
          /\ Cardinality(K) <= bytesUsed + stray + (c + Due(req[r]))
      BY <1>3, <1>4, <1>5, <1>6 DEF K, L
    <2>2. Cardinality(L) <= bytesUsed' + stray' + (c + Due(k))
      <3>1. CASE V = {}
        <4>1. Cardinality(V) = 0
          BY <3>1, FS_EmptySet
        <4> QED
          BY <1>6, <2>1, <4>1
      <3>2. CASE Cardinality(V) + bytesUsed + stray + Due(req[r]) <= Cardinality(K) + bytesUsed' + stray' + Due(k)
        BY <1>0, <1>6, <2>1, <3>2
      <3> QED
        BY <3>1, <3>2 DEF K
    <2> QED
      BY <1>4, <2>2 DEF L
  <1> QED
    BY <1>3, <1>7 DEF Counted

\* The file system, seen as the files in it.
LEMMA ParentFiles ==
    ASSUME node \in Nodes, Tree(node), NEW p \in Paths, CanHold(p)
    PROVE  /\ WithParent(p) \in Nodes /\ Files(WithParent(p)) = Files(node)
           /\ \A q \in Files(node) : WithParent(p)[q] = node[q]
  <1> DEFINE new == WithParent(p)
  <1>1. /\ new \in Nodes
        /\ \A q \in Paths : node[q] \notin {None, Dir} => new[q] = node[q]
    BY WithParentTree
  <1>2. \A q \in Paths : new[q] = Dir \/ new[q] = node[q]
    BY DEF WithParent
  <1> HIDE DEF new
  <1> QED
    BY <1>1, <1>2 DEF new, Files

LEMMA PlacedFiles ==
    ASSUME NEW nd \in Nodes, NEW new \in Nodes, NEW p \in Paths, new[p] \in Nat,
           \A q \in Paths : q # p => new[q] = nd[q]
    PROVE  Files(new) = Files(nd) \union {p}
  <1>1. new[p] \notin {None, Dir}
    BY Names
  <1> QED
    BY <1>1 DEF Files

LEMMA RemovedFiles ==
    ASSUME node \in Nodes, NEW P \in SUBSET Paths
    PROVE  /\ Files(Removed(P)) \subseteq Files(node)
           /\ \A q \in Files(Removed(P)) : Removed(P)[q] = node[q]
           /\ \A q \in Paths : Removed(P)[q] = IF q \in P \/ Parent[q] \in P THEN None ELSE node[q]
  BY DEF Removed, Files

\* One file changes: what is on disk grows by its bytes at most.
LEMMA UnitsGrow ==
    ASSUME NEW nd \in Nodes, NEW new \in Nodes, NEW p \in Paths,
           Files(new) \subseteq Files(nd) \union {p}, \A q \in Files(new) : q # p => new[q] = nd[q],
           NEW B, Units(nd, Files(nd)) \subseteq B, p \in Files(new) => Bytes(p, new[p]) \subseteq B
    PROVE  Units(new, Files(new)) \subseteq B
  <1> SUFFICES ASSUME NEW z \in Units(new, Files(new))
               PROVE  z \in B
    OBVIOUS
  <1>1. z \in Files(new) \X Nat /\ z[2] < new[z[1]]
    BY DEF Units
  <1>2. CASE z[1] = p
    <2>1. new[p] \in Nat
      <3>1. p \in Paths /\ new[p] \in Nat \union {None, Dir}
        BY DEF Nodes
      <3> QED
        BY <1>1, <1>2, <3>1 DEF Files
    <2>2. z[2] \in 0..(new[p] - 1)
      BY <1>1, <1>2, <2>1
    <2>3. z \in Bytes(p, new[p])
      BY <1>1, <1>2, <2>2 DEF Bytes
    <2> QED
      BY <1>1, <1>2, <2>3
  <1>3. CASE z[1] # p
    <2>1. z \in Units(nd, Files(nd))
      BY <1>1, <1>3 DEF Units
    <2> QED
      BY <2>1
  <1> QED
    BY <1>2, <1>3

\* Less on disk.
LEMMA UnitsShrink ==
    ASSUME NEW nd \in Nodes, NEW new \in Nodes, Files(new) \subseteq Files(nd),
           \A q \in Files(new) : new[q] = nd[q]
    PROVE  Units(new, Files(new)) \subseteq Units(nd, Files(nd))
  BY DEF Units

\* A request that is alone acts alone.
LEMMA OthersIdle ==
    ASSUME DiskInv, Alone(setup), NEW r \in Tasks, setup.kinds[r] # {}
    PROVE  \A t \in Tasks \ {r} : req[t].at = "idle"
  BY DEF DiskInv, Alone, Busy

\* A step of one request and the files.
LEMMA DiskStep ==
    ASSUME FilesInv, DiskInv, NEW r \in Tasks, NEW k, Good(r, k), Go(r, k), setup' = setup,
           Busy(r, k), setup.kinds[r] # {}, IsFiniteSet(Files(node')), fileCount' \in Nat,
           NothingTaken => fileCount' >= fileCount,
           Alone(setup) => Undisturbed(node', k),
           Growing(setup) \/ Alone(setup) => Counted',
           Steady(setup) =>
              /\ k.at = "store" => IsEntry(node', k.pick)
              /\ Files(node) \subseteq Files(node') \/ Alone(setup)
              /\ IsEntry(node', mainEntry') \/ (~Growing(setup) /\ Mending(k))
    PROVE  DiskInv'
  <1>0. FilesTyped /\ fileCount \in Nat
    BY Numbers DEF FilesInv, FilesTyped
  <1>1. \A t \in Tasks : req'[t] = IF t = r THEN k ELSE req[t]
    BY <1>0 DEF FilesTyped, Go
  <1>2. IsFiniteSet(Files(node))'
    BY DEF Files
  <1>3. (\A t \in Tasks : Busy(t, req[t]))'
    <2>1. \A t \in Tasks : Busy(t, req'[t])
      BY <1>1 DEF DiskInv
    <2> QED
      BY <2>1 DEF Busy, NothingTaken
  <1>4. (NothingTaken => fileCount >= 1)'
    BY <1>0 DEF DiskInv, NothingTaken
  <1>5. (Alone(setup) => \A t \in Tasks : Undisturbed(node, req[t]))'
    <2>1. ASSUME Alone(setup), NEW t \in Tasks
          PROVE  Undisturbed(node', req'[t])
      <3>1. CASE t = r
        BY <1>1, <2>1, <3>1
      <3>2. CASE t # r
        <4>1. req'[t].at = "idle"
          BY <1>1, <2>1, <3>2, OthersIdle
        <4> QED
          BY <4>1 DEF Undisturbed
      <3> QED
        BY <3>1, <3>2
    <2> QED
      BY <2>1 DEF Alone, Undisturbed
  <1>6. (Growing(setup) \/ Alone(setup) => Counted)'
    BY DEF Growing, Alone
  <1>7. (Steady(setup) => EntryKept)'
    <2> SUFFICES ASSUME Steady(setup)
                 PROVE  EntryKept'
      BY DEF Steady, Growing, Alone
    <2>1. ASSUME NEW t \in Tasks, req'[t].at = "store"
          PROVE  IsEntry(node', req'[t].pick)
      <3>1. CASE t = r
        BY <1>1, <2>1, <3>1
      <3>2. CASE t # r /\ Alone(setup)
        BY <1>1, <2>1, <3>2, OthersIdle
      <3>3. CASE t # r /\ Files(node) \subseteq Files(node')
        <4>1. IsEntry(node, req[t].pick)
          BY <1>1, <2>1, <3>3 DEF DiskInv, EntryKept
        <4> QED
          BY <1>1, <3>3, <4>1 DEF IsEntry
      <3> QED
        BY <3>1, <3>2, <3>3
    <2>2. IsEntry(node', mainEntry') \/ (~Growing(setup) /\ \E t \in Tasks : Mending(req'[t]))
      BY <1>1
    <2>3. Growing(setup)' => Growing(setup)
      BY DEF Growing
    <2> QED
      BY <2>1, <2>2, <2>3 DEF EntryKept, IsEntry, Files, Mending
  <1> QED
    BY <1>2, <1>3, <1>4, <1>5, <1>6, <1>7 DEF DiskInv

\* A step that leaves the files as they are.
LEMMA DiskSame ==
    ASSUME FilesInv, DiskInv, NEW r \in Tasks, NEW k, Good(r, k), Go(r, k), setup' = setup,
           Busy(r, k), setup.kinds[r] # {}, node' \in Nodes, Files(node') = Files(node),
           \A q \in Files(node) : node'[q] = node[q],
           bytesUsed' \in Nat, stray' \in Nat, fileCount' \in Nat, mainEntry' = mainEntry,
           NothingTaken => fileCount' >= fileCount,
           bytesUsed + stray + Due(req[r]) <= bytesUsed' + stray' + Due(k),
           Growing(setup) \/ Alone(setup) => Bytes(k.path, Seen(k)) \subseteq Known,
           Alone(setup) => Undisturbed(node', k),
           Steady(setup) /\ ~Growing(setup) /\ Mending(req[r]) => Mending(k),
           k.at = "store" => IsEntry(node, k.pick)
    PROVE  DiskInv'
  <1>1. Growing(setup) \/ Alone(setup) => Counted'
    <2> SUFFICES ASSUME Growing(setup) \/ Alone(setup) PROVE Counted'
      OBVIOUS
    <2>1. Counted /\ IsFiniteSet(Known) /\ Bytes(k.path, Seen(k)) \subseteq Known
      BY DEF DiskInv, Counted
    <2>2. Units(node', Files(node')) \subseteq Known
      <3>1. node \in Nodes
        BY Facts
      <3>2. Units(node', Files(node')) \subseteq Units(node, Files(node))
        BY <3>1, UnitsShrink
      <3> QED
        BY <3>2 DEF Known
    <2>3. /\ Cardinality(Known) \in Nat /\ bytesUsed \in Nat /\ stray \in Nat
          /\ Due(k) \in Nat /\ Due(req[r]) \in Nat
      BY <2>1, Facts, SeenNumbers, FS_CardinalityType
    <2>4. Cardinality(Known) + bytesUsed + stray + Due(req[r])
             <= Cardinality(Known) + bytesUsed' + stray' + Due(k)
      BY <2>3
    <2> QED
      BY <2>1, <2>2, <2>4, AccountStep
  <1>2. IsFiniteSet(Files(node'))
    BY DEF DiskInv
  <1>3. ASSUME Steady(setup)
        PROVE  IsEntry(node', mainEntry') \/ (~Growing(setup) /\ Mending(k))
    <2>1. EntryKept
      BY <1>3 DEF DiskInv
    <2>2. CASE IsEntry(node, mainEntry)
      BY <2>2 DEF IsEntry
    <2>3. CASE ~Growing(setup) /\ \E t \in Tasks : Mending(req[t])
      <3>1. PICK t \in Tasks : Mending(req[t])
        BY <2>3
      <3>2. Alone(setup)
        BY <1>3, <2>3 DEF Steady
      <3>3. t = r
        <4>1. t # r => req[t].at = "idle"
          BY <3>2, OthersIdle
        <4> QED
          BY <3>1, <4>1 DEF Mending
      <3> QED
        BY <1>3, <2>3, <3>1, <3>3
    <2> QED
      BY <2>1, <2>2, <2>3 DEF EntryKept
  <1>4. k.at = "store" => IsEntry(node', k.pick)
    BY DEF IsEntry
  <1> QED
    BY <1>1, <1>2, <1>3, <1>4, DiskStep

\* ... after which the request depends on no file.
LEMMA DiskTurn ==
    ASSUME FilesInv, DiskInv, NEW r \in Tasks, NEW k, Good(r, k), Go(r, k), setup' = setup,
           Busy(r, k), setup.kinds[r] # {}, node' \in Nodes, Files(node') = Files(node),
           \A q \in Files(node) : node'[q] = node[q],
           bytesUsed' \in Nat, stray' \in Nat, fileCount' \in Nat, mainEntry' = mainEntry,
           NothingTaken => fileCount' >= fileCount,
           bytesUsed + stray + Due(req[r]) <= bytesUsed' + stray' + Due(k),
           k.at \in {"idle", "stat", "next", "unwrap", "promote", "pick", "less"},
           Steady(setup) /\ ~Growing(setup) /\ Mending(req[r]) => Mending(k)
    PROVE  DiskInv'
  <1>1. Seen(k) = 0 /\ Undisturbed(node', k) /\ k.at # "store"
    BY DEF Seen, Undisturbed
  <1>2. Bytes(k.path, Seen(k)) \subseteq Known
    BY <1>1, BytesSize
  <1> QED
    BY <1>1, <1>2, DiskSame

\* A request ends, or has only the main entry left to look for.
LEMMA EndsGood ==
    ASSUME NEW r \in Tasks, NEW k \in {Idle, [Idle EXCEPT !.at = "pick"]}, setup.kinds[r] # {}
    PROVE  /\ Good(r, k) /\ Due(k) = 0 /\ k.at \in {"idle", "pick"} /\ Busy(r, k)
           /\ k = Idle => k.at = "idle"
           /\ k # Idle => k.at = "pick" /\ Mending(k)
  <1>1. Good(r, k) /\ Owed(k) = 0
    BY IdleGood, PickGood
  <1>2. k.at \in {"idle", "pick"} /\ k.fresh = FALSE /\ (k = Idle => k.at = "idle") /\ (k # Idle => k.at = "pick")
    BY IdleGood DEF Idle
  <1>3. Due(k) = 0
    BY <1>1, <1>2 DEF Due
  <1>4. Busy(r, k)
    BY <1>2 DEF Busy
  <1> QED
    BY <1>1, <1>2, <1>3, <1>4 DEF Mending

LEMMA DiskEnds ==
    ASSUME FilesInv, DiskInv, NEW r \in Tasks, End(r) \/ Refresh(r), setup' = setup,
           setup.kinds[r] # {}, node' \in Nodes, Files(node') = Files(node),
           \A q \in Files(node) : node'[q] = node[q],
           bytesUsed' \in Nat, stray' \in Nat, fileCount' \in Nat, mainEntry' = mainEntry,
           NothingTaken => fileCount' >= fileCount,
           bytesUsed + stray + Due(req[r]) <= bytesUsed' + stray',
           End(r) /\ Steady(setup) /\ ~Growing(setup) => ~Mending(req[r])
    PROVE  DiskInv'
  <1>1. ASSUME NEW k \in {Idle, [Idle EXCEPT !.at = "pick"]}, Go(r, k)
        PROVE  DiskInv'
    <2>1. /\ Good(r, k) /\ Due(k) = 0 /\ k.at \in {"idle", "pick"} /\ Busy(r, k)
          /\ k # Idle => Mending(k)
      BY EndsGood
    <2>2. bytesUsed + stray + Due(req[r]) <= bytesUsed' + stray' + Due(k)
      BY <2>1
    <2>3. Steady(setup) /\ ~Growing(setup) /\ Mending(req[r]) => Mending(k)
      BY <1>1, <2>1 DEF End
    <2> QED
      BY <1>1, <2>1, <2>2, <2>3, DiskTurn
  <1> QED
    BY <1>1 DEF End, Refresh

\* ... when nothing else changes.
LEMMA DiskQuits ==
    ASSUME FilesInv, DiskInv, NEW r \in Tasks, End(r) \/ Refresh(r),
           UNCHANGED <<setup, node, counters, mainEntry, stray>>, req[r].at # "idle", Due(req[r]) = 0,
           End(r) /\ Steady(setup) /\ ~Growing(setup) => ~Mending(req[r])
    PROVE  DiskInv'
  <1>1. /\ setup' = setup /\ node' = node /\ bytesUsed' = bytesUsed /\ fileCount' = fileCount
        /\ mainEntry' = mainEntry /\ stray' = stray
    BY DEF counters
  <1>2. /\ node \in Nodes /\ bytesUsed \in Nat /\ fileCount \in Nat /\ stray \in Nat
    BY Facts, Numbers
  <1>3. setup.kinds[r] # {}
    BY DEF DiskInv, Busy
  <1>4. bytesUsed + stray + Due(req[r]) <= bytesUsed' + stray'
    BY <1>1, <1>2
  <1>5. Files(node') = Files(node)
    BY <1>1
  <1> QED
    BY <1>1, <1>2, <1>3, <1>4, <1>5, DiskEnds

\* A step that writes a file, up to byte m, of which n are known.
LEMMA DiskGrown ==
    ASSUME FilesInv, DiskInv, NEW r \in Tasks, NEW k, Good(r, k), Go(r, k),
           UNCHANGED <<setup, counters, mainEntry, stray>>,
           Busy(r, k), setup.kinds[r] # {}, ~Mending(req[r]), k.at \in {"count", "body", "add", "promote"},
           node' \in Nodes, NEW p \in Paths,
           Files(node') \subseteq Files(node) \union {p}, Files(node) \subseteq Files(node'),
           \A q \in Files(node') : q # p => node'[q] = node[q],
           NEW n \in Nat, NEW m \in Nat, Bytes(p, n) \subseteq Known \/ n = 0,
           p \in Files(node') => Bytes(p, node'[p]) \subseteq Known \union Bytes(p, m),
           Bytes(k.path, Seen(k)) \subseteq Known \union Bytes(p, m),
           Due(req[r]) + (IF n <= m THEN m - n ELSE 0) <= Due(k)
    PROVE  DiskInv'
  <1>0. /\ bytesUsed' = bytesUsed /\ fileCount' = fileCount /\ mainEntry' = mainEntry
        /\ stray' = stray /\ setup' = setup
    BY DEF counters
  <1>a. bytesUsed \in Nat /\ fileCount \in Nat /\ stray \in Nat /\ node \in Nodes
    BY Facts, Numbers
  <1>1. ASSUME Growing(setup) \/ Alone(setup)
        PROVE  Counted'
    <2>1. Counted /\ IsFiniteSet(Known) /\ Cardinality(Known) \in Nat
      BY <1>1, FS_CardinalityType DEF DiskInv, Counted
    <2>2. Bytes(p, n) \subseteq Known
      BY BytesSize
    <2> DEFINE V == Known \union Bytes(p, m)
               d == IF n <= m THEN m - n ELSE 0
    <2>3. IsFiniteSet(V) /\ Cardinality(V) <= Cardinality(Known) + d /\ Cardinality(V) \in Nat
      BY <2>1, <2>2, BytesAdded
    <2>4. d \in Nat /\ Due(req[r]) + d <= Due(k) /\ Bytes(p, m) \subseteq V
      OBVIOUS
    <2> HIDE DEF V, d
    <2>5. Known \subseteq V
      BY DEF V
    <2>6. Units(node', Files(node')) \subseteq V
      <3>1. Units(node, Files(node)) \subseteq V
        BY <2>5 DEF Known
      <3>2. p \in Files(node') => Bytes(p, node'[p]) \subseteq V
        BY <2>4, <2>5
      <3> QED
        BY <1>a, <3>1, <3>2, UnitsGrow
    <2>7. Bytes(k.path, Seen(k)) \subseteq V
      BY <2>4, <2>5
    <2>8. Due(req[r]) \in Nat /\ Due(k) \in Nat
      BY Facts, SeenNumbers
    <2>9. Cardinality(V) + bytesUsed + stray + Due(req[r])
             <= Cardinality(Known) + bytesUsed' + stray' + Due(k)
      BY <1>0, <1>a, <2>1, <2>3, <2>4, <2>8
    <2> QED
      BY <1>0, <1>a, <2>1, <2>3, <2>5, <2>6, <2>7, <2>9, AccountStep
  <1>2. IsFiniteSet(Files(node'))
    <2>1. IsFiniteSet(Files(node) \union {p})
      BY FS_AddElement DEF DiskInv
    <2> QED
      BY <2>1, FS_Subset
  <1>3. Undisturbed(node', k) /\ k.at # "store"
    BY DEF Undisturbed
  <1>4. ASSUME Steady(setup)
        PROVE  IsEntry(node', mainEntry')
    <2>1. EntryKept
      BY <1>4 DEF DiskInv
    <2>2. IsEntry(node, mainEntry)
      <3> SUFFICES ASSUME ~Growing(setup), NEW t \in Tasks, Mending(req[t])
                   PROVE  FALSE
        BY <2>1 DEF EntryKept
      <3>1. Alone(setup)
        BY <1>4 DEF Steady
      <3>2. t = r \/ req[t].at = "idle"
        BY <3>1, OthersIdle
      <3> QED
        BY <3>2 DEF Mending
    <2> QED
      BY <1>0, <2>2 DEF IsEntry
  <1>5. NothingTaken => fileCount' >= fileCount
    BY <1>0, <1>a
  <1> QED
    BY <1>0, <1>a, <1>1, <1>2, <1>3, <1>4, <1>5, DiskStep

\* put_file.
LEMMA DiskPut ==
    ASSUME FilesInv, CountInv, DiskInv, NEW r \in Tasks, Put(r)
    PROVE  DiskInv'
  <1> DEFINE k == req[r]
  <1>0. /\ k \in Requests /\ Good(r, k) /\ node \in Nodes /\ Tree(node) /\ bytesUsed \in Nat
        /\ fileCount \in Nat /\ stray \in Nat /\ Busy(r, k) /\ k.fresh \in BOOLEAN
    BY Facts, Fields, Numbers DEF DiskInv
  <1>a. Due(k) \in Nat /\ Seen(k) \in Nat
    BY <1>0, SeenNumbers
  <1>b. k.at # "idle" => setup.kinds[r] # {}
    BY <1>0 DEF Busy
  <1>1. ASSUME NEW p \in Paths, NEW n \in Sizes, PutBegin(r, p, n)
        PROVE  DiskInv'
    <2> DEFINE m == [Idle EXCEPT !.at = "stat", !.path = p, !.size = n]
    <2>1. /\ k.at = "idle" /\ "put" \in setup.kinds[r] /\ CanHold(p) /\ node' = WithParent(p) /\ Go(r, m)
          /\ UNCHANGED <<setup, counters, mainEntry, stray>>
      BY <1>1 DEF PutBegin, May
    <2>2. /\ Idle \in Requests /\ Idle.upload = FALSE /\ Idle.fresh = FALSE /\ "stat" \in Places
      BY IdleGood DEF Idle, Places
    <2>3. m \in Requests /\ m.at = "stat" /\ m.path = p /\ m.upload = FALSE /\ m.fresh = FALSE
      BY <2>2 DEF Requests
    <2> HIDE DEF m
    <2>4. Good(r, m) /\ Due(m) = 0 /\ Due(k) = 0 /\ Busy(r, m) /\ ~Mending(k)
      BY <2>1, <2>3 DEF Good, Due, Owed, Busy, Mending
    <2>5. /\ node' \in Nodes /\ Files(node') = Files(node)
          /\ \A q \in Files(node) : node'[q] = node[q]
      BY <1>0, <2>1, ParentFiles
    <2>6. /\ bytesUsed' = bytesUsed /\ fileCount' = fileCount /\ stray' = stray
          /\ bytesUsed + stray + Due(k) <= bytesUsed' + stray' + Due(m)
      BY <1>0, <2>1, <2>4 DEF counters
    <2> QED
      BY <1>0, <2>1, <2>3, <2>4, <2>5, <2>6, DiskTurn
  <1>2. CASE PutStat(r)
    <2>0. k.at = "stat" /\ UNCHANGED <<setup, node, counters, mainEntry, stray>>
      BY <1>2 DEF PutStat, At
    <2>1. Due(k) = 0 /\ ~Mending(k)
      BY <2>0 DEF Due, Owed, Mending
    <2>2. CASE Go(r, Idle)
      BY <1>0, <2>0, <2>1, <2>2, DiskQuits DEF End
    <2> DEFINE m == [k EXCEPT !.at = "grow", !.prior = node[k.path]]
    <2>3. CASE node[k.path] # Dir /\ Go(r, m)
      <3>1. k.path \in Paths /\ "put" \in setup.kinds[r] /\ "grow" \in Places
        BY <1>0, <2>0 DEF Good, Places
      <3>2. node[k.path] \in Nat \union {None}
        BY <1>0, <2>3, <3>1, FileSize
      <3>3. /\ m \in Requests /\ m.at = "grow" /\ m.path = k.path /\ m.prior = node[k.path]
            /\ m.upload = k.upload /\ m.fresh = k.fresh
        BY <1>0, <3>1, <3>2 DEF Requests
      <3> HIDE DEF m
      <3>4. Good(r, m) /\ Due(m) = 0 /\ Busy(r, m)
        BY <1>0, <2>0, <3>1, <3>2, <3>3 DEF Good, Due, Owed, Busy
      <3>5. Bytes(m.path, Seen(m)) \subseteq Known
        <4>1. CASE node[k.path] = None
          BY <3>3, <4>1, BytesSize DEF Seen
        <4>2. CASE node[k.path] \in Nat
          <5>1. Seen(m) = node[k.path]
            BY <3>3, <4>2, Names DEF Seen
          <5> QED
            BY <1>0, <3>1, <3>3, <4>2, <5>1, FileBytes DEF Known
        <4> QED
          BY <3>2, <4>1, <4>2
      <3>6. /\ bytesUsed' = bytesUsed /\ fileCount' = fileCount /\ stray' = stray /\ node' = node
            /\ bytesUsed + stray + Due(k) <= bytesUsed' + stray' + Due(m)
        BY <1>0, <2>0, <2>1, <3>4 DEF counters
      <3>7. Undisturbed(node', m) /\ m.at # "store" /\ Files(node') = Files(node)
        BY <3>3, <3>6 DEF Undisturbed
      <3> QED
        BY <1>0, <1>b, <2>0, <2>1, <2>3, <3>4, <3>5, <3>6, <3>7, DiskSame
    <2> QED
      BY <1>2, <2>2, <2>3 DEF PutStat
  <1>3. CASE PutWrite(r)
    <2>0. k.at = "grow" /\ UNCHANGED <<setup, counters, mainEntry, stray>>
      BY <1>3 DEF PutWrite, At
    <2>1. Due(k) = 0 /\ ~Mending(k)
      BY <2>0 DEF Due, Owed, Mending
    <2>2. CASE Go(r, Idle) /\ node' = node
      BY <1>0, <2>0, <2>1, <2>2, DiskQuits DEF End
    <2> DEFINE m == [k EXCEPT !.at = "count"]
    <2>3. CASE node[k.path] # Dir /\ node' = [node EXCEPT ![k.path] = k.size] /\ Go(r, m)
      <3>1. /\ k.path \in Paths /\ k.prior \in Nat \union {None} /\ "put" \in setup.kinds[r]
            /\ "count" \in Places /\ k.size \in Nat
        BY <1>0, <2>0, Fields DEF Good, Places
      <3>2. /\ m \in Requests /\ m.at = "count" /\ m.path = k.path /\ m.prior = k.prior
            /\ m.upload = k.upload /\ m.size = k.size /\ m.fresh = k.fresh
        BY <1>0, <3>1 DEF Requests
      <3> HIDE DEF m
      <3>3. Good(r, m) /\ Busy(r, m) /\ m.at \in {"count", "body", "add", "promote"}
        BY <1>0, <2>0, <3>1, <3>2 DEF Good, Busy
      <3>4. Seen(m) = Seen(k)
        BY <2>0, <3>2 DEF Seen
      <3>5. Bytes(k.path, Seen(k)) \subseteq Known
        BY SeenKnown
      <3>6. /\ node' \in Nodes /\ Files(node') = Files(node) \union {k.path}
            /\ \A q \in Paths : node'[q] = IF q = k.path THEN k.size ELSE node[q]
        <4> DEFINE p == k.path
                   s == k.size
        <4>1. p \in Paths /\ s \in Nat /\ node' = [node EXCEPT ![p] = s]
          BY <2>3, <3>1
        <4> HIDE DEF p, s
        <4>2. node' \in Nodes /\ \A q \in Paths : node'[q] = IF q = p THEN s ELSE node[q]
          BY <1>0, <4>1 DEF Nodes
        <4>3. p \in Paths /\ node'[p] \in Nat /\ \A q \in Paths : q # p => node'[q] = node[q]
          BY <4>1, <4>2
        <4>4. Files(node') = Files(node) \union {p}
          BY <1>0, <4>2, <4>3, PlacedFiles
        <4> QED
          BY <4>2, <4>4 DEF p, s
      <3>7. \A q \in Files(node') : q # k.path => node'[q] = node[q]
        BY <3>6 DEF Files
      <3>8. Bytes(k.path, node'[k.path]) \subseteq Known \union Bytes(k.path, k.size)
        BY <3>1, <3>6
      <3>9. Due(k) + (IF Seen(k) <= k.size THEN k.size - Seen(k) ELSE 0) <= Due(m)
        <4>1. Seen(k) = IF k.prior = None THEN 0 ELSE k.prior
          BY <2>0 DEF Seen
        <4>2. Due(m) = Max({0, k.size - Seen(k)})
          BY <3>2, <4>1 DEF Due, Owed
        <4> DEFINE d == k.size - Seen(k)
        <4>3. d \in Int /\ 0 \in Int
          BY <1>a, <3>1
        <4>4. Due(m) = IF 0 >= d THEN 0 ELSE d
          BY <4>2, <4>3, MaxOfTwo
        <4> QED
          BY <1>a, <2>1, <3>1, <4>4
      <3>10. Bytes(m.path, Seen(m)) \subseteq Known \union Bytes(k.path, k.size)
        BY <3>2, <3>4, <3>5
      <3> QED
        BY <1>0, <1>a, <1>b, <2>0, <2>1, <2>3, <3>1, <3>3, <3>5, <3>6, <3>7, <3>8, <3>9, <3>10, DiskGrown
    <2> QED
      BY <1>3, <2>2, <2>3 DEF PutWrite
  <1>4. CASE PutCount(r)
    <2>1. /\ k.at = "count" /\ bytesUsed' = bytesUsed + NewBytes(r)
          /\ fileCount' = (fileCount + NewFiles(r)) % CountMod
          /\ UNCHANGED <<setup, node, mainEntry, stray>> /\ (End(r) \/ Refresh(r))
      BY <1>4 DEF PutCount, At
    <2>2. Due(k) = NewBytes(r) /\ ~Mending(k)
      BY <2>1 DEF Due, Owed, NewBytes, PriorSize, Mending
    <2>3. FilesOwed(k) = NewFiles(r) /\ NewFiles(r) \in Nat
      BY <2>1 DEF FilesOwed, NewFiles
    <2>4. fileCount' \in Nat
      <3>1. fileCount' \in 0..(CountMod - 1)
        BY <1>0, <2>1, <2>3, Wraps
      <3> QED
        BY <3>1, Numbers
    <2>5. NothingTaken => fileCount' >= fileCount
      <3>1. NothingTaken => OneDeleter
        BY DEF NothingTaken, OneDeleter
      <3>2. NothingTaken => fileCount' = fileCount + FilesOwed(k)
        BY <2>1, <2>3, <3>1, CountAdds
      <3> QED
        BY <1>0, <2>3, <3>2
    <2>6. bytesUsed' \in Nat /\ bytesUsed + stray + Due(k) <= bytesUsed' + stray'
      BY <1>0, <1>a, <2>1, <2>2
    <2>7. node' = node /\ Files(node') = Files(node) /\ stray' = stray /\ setup.kinds[r] # {}
      BY <1>b, <2>1
    <2> QED
      BY <1>0, <2>1, <2>2, <2>4, <2>5, <2>6, <2>7, DiskEnds
  <1> QED
    BY <1>1, <1>2, <1>3, <1>4 DEF Put

\* A file is written below directories that are made for it.
LEMMA WrittenDisk ==
    ASSUME node \in Nodes, Tree(node), NEW p \in Paths, CanHold(p), NEW v \in Nat,
           node' = [WithParent(p) EXCEPT ![p] = v]
    PROVE  /\ node' \in Nodes /\ Files(node') = Files(node) \union {p} /\ node'[p] = v
           /\ \A q \in Files(node') : q # p => node'[q] = node[q]
  <1> DEFINE w == WithParent(p)
             new == node'
  <1>1. w \in Nodes /\ Files(w) = Files(node) /\ \A q \in Files(node) : w[q] = node[q]
    BY ParentFiles
  <1> HIDE DEF w
  <1>2. new \in Nodes /\ \A q \in Paths : new[q] = IF q = p THEN v ELSE w[q]
    <2>1. node' = [w EXCEPT ![p] = v]
      BY DEF w
    <2> QED
      BY <1>1, <2>1 DEF Nodes
  <1> HIDE DEF new
  <1>3. p \in Paths /\ new[p] \in Nat /\ new[p] = v /\ \A q \in Paths : q # p => new[q] = w[q]
    BY <1>2
  <1>4. Files(new) = Files(w) \union {p}
    BY <1>1, <1>2, <1>3, PlacedFiles
  <1>5. \A q \in Files(new) : q # p => new[q] = node[q]
    BY <1>1, <1>3, <1>4 DEF Files
  <1>6. new \in Nodes /\ Files(new) = Files(node) \union {p} /\ new[p] = v
    BY <1>1, <1>2, <1>3, <1>4
  <1> QED
    BY <1>5, <1>6 DEF new

\* A file takes another name, over what was there.
LEMMA MovedWeight ==
    ASSUME NEW nd \in Nodes, NEW new \in Nodes, IsFiniteSet(Files(nd)), NEW p \in Files(nd), NEW q \in Paths,
           new[q] = nd[p], p # q => p \notin Files(new),
           \A x \in Files(new) : x # q => x \in Files(nd) /\ new[x] = nd[x]
    PROVE  /\ IsFiniteSet(Files(new)) /\ IsFiniteSet(Units(new, Files(new)))
           /\ Weight(new, Files(new)) <= Weight(nd, Files(nd))
  <1> DEFINE R == Files(new) \ {q}
  <1>1. /\ \A x \in Files(nd) : nd[x] \in Nat
        /\ \A x \in Files(new) : new[x] \in Nat
    BY DEF Nodes, Files
  <1>2. /\ R \subseteq Files(nd) /\ p \notin R /\ q \notin R /\ Files(new) = R \union {q}
        /\ R \union {p} \subseteq Files(nd) /\ \A x \in R : new[x] = nd[x]
    <2>1. q \in Files(new)
      <3>1. new[q] \notin {None, Dir}
        BY DEF Files
      <3> QED
        BY <3>1 DEF Files
    <2> QED
      BY <2>1
  <1>3. nd[p] \in Nat /\ new[q] \in Nat
    BY <1>1
  <1> HIDE DEF R
  <1>4. IsFiniteSet(R) /\ IsFiniteSet(R \union {q})
    BY <1>2, FS_Subset, FS_AddElement
  <1>5. /\ IsFiniteSet(Units(nd, R)) /\ Weight(nd, R) \in Nat
        /\ IsFiniteSet(Units(nd, Files(nd))) /\ Weight(nd, Files(nd)) \in Nat
    BY <1>1, <1>2, <1>4, WeightNat
  <1>6. IsFiniteSet(Units(new, R)) /\ Weight(new, R) = Weight(nd, R)
    BY <1>2, <1>5, WeightSame
  <1>7. /\ IsFiniteSet(Units(new, R \union {q})) /\ Weight(new, R \union {q}) = Weight(new, R) + new[q]
    BY <1>2, <1>3, <1>6, WeightAdd
  <1>8. Weight(nd, R \union {p}) = Weight(nd, R) + nd[p]
    BY <1>2, <1>3, <1>5, WeightAdd
  <1>9. Weight(nd, R \union {p}) <= Weight(nd, Files(nd))
    <2>1. \A x \in R \union {p} : nd[x] \in Nat /\ nd[x] <= nd[x]
      BY <1>1, <1>2
    <2> QED
      BY <1>2, <1>5, <2>1, WeightLess
  <1> QED
    BY <1>2, <1>4, <1>6, <1>7, <1>8, <1>9

\* Requests that take nothing off the count.
LEMMA GrowingTakes == Growing(setup) => NothingTaken
  BY DEF Growing, NothingTaken

LEMMA SteadyUnwraps ==
    ASSUME DiskInv, NEW r \in Tasks, req[r].at = "unwrap"
    PROVE  ~Growing(setup) /\ ~Steady(setup) /\ setup.kinds[r] # {}
  <1>1. "upload" \in setup.kinds[r] /\ ~NothingTaken /\ setup.kinds[r] # {}
    BY DEF DiskInv, Busy
  <1>2. ~Growing(setup)
    BY <1>1, GrowingTakes
  <1>3. ASSUME Steady(setup) PROVE FALSE
    <2>1. Alone(setup) /\ setup.kinds[r] \intersect {"delete", "clear"} = {}
      BY <1>1, <1>2, <1>3 DEF Steady
    <2>2. \A o \in Tasks : o # r => setup.kinds[o] = {}
      BY <1>1, <2>1 DEF Alone
    <2> QED
      BY <1>1, <2>1, <2>2 DEF NothingTaken
  <1> QED
    BY <1>1, <1>2, <1>3

\* A step that takes something off the disk, while other requests wait.
LEMMA DiskShrunk ==
    ASSUME FilesInv, DiskInv, NEW r \in Tasks, NEW k, Good(r, k), Go(r, k),
           UNCHANGED <<setup, counters, mainEntry, stray>>, Busy(r, k), setup.kinds[r] # {},
           ~Growing(setup), node' \in Nodes, Files(node') \subseteq Files(node),
           \A q \in Files(node') : node'[q] = node[q], Due(req[r]) = 0,
           Alone(setup) => Bytes(k.path, Seen(k)) \subseteq Known /\ Undisturbed(node', k),
           Mending(k), k.at # "store"
    PROVE  DiskInv'
  <1>0. /\ bytesUsed' = bytesUsed /\ fileCount' = fileCount /\ mainEntry' = mainEntry
        /\ stray' = stray /\ setup' = setup
    BY DEF counters
  <1>a. bytesUsed \in Nat /\ fileCount \in Nat /\ stray \in Nat /\ node \in Nodes
    BY Facts, Numbers
  <1>1. ASSUME Growing(setup) \/ Alone(setup)
        PROVE  Counted'
    <2>1. Counted /\ IsFiniteSet(Known) /\ Bytes(k.path, Seen(k)) \subseteq Known
      BY <1>1 DEF DiskInv, Counted
    <2>2. Units(node', Files(node')) \subseteq Known
      BY <1>a, UnitsShrink DEF Known
    <2>3. Cardinality(Known) \in Nat /\ Due(k) \in Nat
      BY <2>1, SeenNumbers, FS_CardinalityType
    <2>4. Cardinality(Known) + bytesUsed + stray + Due(req[r])
             <= Cardinality(Known) + bytesUsed' + stray' + Due(k)
      BY <1>0, <1>a, <2>3
    <2> QED
      BY <1>0, <1>a, <2>1, <2>2, <2>4, AccountStep
  <1>2. IsFiniteSet(Files(node'))
    BY FS_Subset DEF DiskInv
  <1>3. Steady(setup) => Alone(setup)
    BY DEF Steady
  <1>4. NothingTaken => fileCount' >= fileCount
    BY <1>0, <1>a
  <1> QED
    BY <1>0, <1>a, <1>1, <1>2, <1>3, <1>4, DiskStep

\* ... and one that moves a file.
LEMMA DiskMoved ==
    ASSUME FilesInv, DiskInv, NEW r \in Tasks, NEW k, Good(r, k), Go(r, k),
           UNCHANGED <<setup, counters, mainEntry, stray>>, Busy(r, k), setup.kinds[r] # {},
           ~Growing(setup), node' \in Nodes, NEW p \in Files(node), NEW q \in Paths,
           node'[q] = node[p], p # q => p \notin Files(node'),
           \A x \in Files(node') : x # q => x \in Files(node) /\ node'[x] = node[x],
           Due(req[r]) = 0, k.at \in {"pick", "unwrap"}, Steady(setup) => k.at = "pick"
    PROVE  DiskInv'
  <1>0. /\ bytesUsed' = bytesUsed /\ fileCount' = fileCount /\ mainEntry' = mainEntry
        /\ stray' = stray /\ setup' = setup
    BY DEF counters
  <1>a. bytesUsed \in Nat /\ fileCount \in Nat /\ stray \in Nat /\ node \in Nodes
    BY Facts, Numbers
  <1> DEFINE V == Units(node', Files(node'))
             W == Units(node, Files(node))
  <1>1. /\ IsFiniteSet(Files(node')) /\ IsFiniteSet(V) /\ Cardinality(V) <= Cardinality(W)
    BY <1>a, MovedWeight DEF DiskInv, Weight
  <1>b. V = Units(node', Files(node')) /\ W \subseteq Known
    BY DEF Known
  <1> HIDE DEF V, W
  <1>2. ASSUME Growing(setup) \/ Alone(setup)
        PROVE  Counted'
    <2>1. Counted /\ IsFiniteSet(Known)
      BY <1>2 DEF DiskInv, Counted
    <2>2. Cardinality(W) <= Cardinality(Known) /\ Cardinality(W) \in Nat /\ Cardinality(Known) \in Nat
      BY <1>b, <2>1, FS_Subset, FS_CardinalityType
    <2>3. Cardinality(V) \in Nat /\ Due(k) \in Nat
      BY <1>1, SeenNumbers, FS_CardinalityType
    <2>4. Cardinality(V) + bytesUsed + stray + Due(req[r])
             <= Cardinality(Known) + bytesUsed' + stray' + Due(k)
      BY <1>0, <1>1, <1>a, <2>2, <2>3
    <2>5. Seen(k) = 0
      BY DEF Seen
    <2>6. Bytes(k.path, Seen(k)) \subseteq V
      BY <2>5, BytesSize
    <2>7. \A t \in Tasks \ {r} : req[t].at = "idle"
      BY <1>2, OthersIdle
    <2> QED
      BY <1>0, <1>1, <1>a, <1>b, <2>1, <2>4, <2>6, <2>7, AccountStep
  <1>3. Steady(setup) => Alone(setup) /\ Mending(k)
    BY DEF Steady, Mending
  <1>4. NothingTaken => fileCount' >= fileCount
    BY <1>0, <1>a
  <1>5. Undisturbed(node', k) /\ k.at # "store"
    BY DEF Undisturbed
  <1> QED
    BY <1>0, <1>1, <1>a, <1>2, <1>3, <1>4, <1>5, DiskStep

\* upload_files.
LEMMA DiskUpload ==
    ASSUME FilesInv, CountInv, DiskInv, NEW r \in Tasks, Upload(r)
    PROVE  DiskInv'
  <1> DEFINE k == req[r]
  <1>0. /\ k \in Requests /\ Good(r, k) /\ node \in Nodes /\ Tree(node) /\ bytesUsed \in Nat
        /\ fileCount \in Nat /\ fileCount \in Int /\ stray \in Nat /\ Busy(r, k)
    BY Facts, Fields, Numbers DEF DiskInv
  <1>a. /\ Due(k) \in Nat /\ Seen(k) \in Nat /\ k.off \in Nat /\ k.todo \in SUBSET Paths /\ k.done \in SUBSET Paths
        /\ k.path \in Paths \union {None} /\ k.upload \in BOOLEAN /\ k.fresh \in BOOLEAN
    BY <1>0, Fields, SeenNumbers
  <1>b. k.at # "idle" => setup.kinds[r] # {}
    BY <1>0 DEF Busy
  <1>1. CASE UploadBegin(r)
    <2> DEFINE f == (fileCount = 0)
    <2> DEFINE m == [Idle EXCEPT !.at = "next", !.upload = TRUE, !.fresh = f]
    <2>1. /\ k.at = "idle" /\ "upload" \in setup.kinds[r] /\ Go(r, m)
          /\ UNCHANGED <<setup, node, counters, mainEntry, stray>>
      BY <1>1 DEF UploadBegin, May
    <2>2. Idle \in Requests /\ "next" \in Places /\ f \in BOOLEAN
      BY IdleGood DEF Places
    <2>3. m \in Requests /\ m.at = "next" /\ m.upload = TRUE /\ (m.fresh => fileCount = 0)
      <3>1. m \in Requests /\ m.at = "next" /\ m.upload = TRUE /\ m.fresh = f
        <4> HIDE DEF f
        <4> QED
          BY <2>2 DEF Requests
      <3> QED
        BY <3>1
    <2> HIDE DEF m
    <2>4. Good(r, m) /\ Due(m) = 0 /\ Due(k) = 0 /\ ~Mending(k)
      BY <2>1, <2>3 DEF Good, Due, Owed, Mending
    <2>5. Busy(r, m)
      <3>1. NothingTaken => fileCount >= 1
        BY DEF DiskInv
      <3>2. NothingTaken => ~m.fresh
        BY <1>0, <2>3, <3>1
      <3> QED
        BY <2>1, <2>3, <3>2 DEF Busy
    <2>6. /\ bytesUsed' = bytesUsed /\ fileCount' = fileCount /\ stray' = stray /\ node' = node
          /\ bytesUsed + stray + Due(k) <= bytesUsed' + stray' + Due(m) /\ fileCount' >= fileCount
      BY <1>0, <2>1, <2>4 DEF counters
    <2>7. Files(node') = Files(node) /\ setup.kinds[r] # {}
      BY <2>1, <2>6
    <2> QED
      BY <1>0, <2>1, <2>3, <2>4, <2>5, <2>6, <2>7, DiskTurn
  <1>2. ASSUME NEW p \in Paths, UploadField(r, p)
        PROVE  DiskInv'
    <2>0. k.at = "next" /\ k.upload /\ UNCHANGED <<setup, counters, mainEntry, stray>>
      BY <1>2 DEF UploadField, At
    <2>a. Due(k) = 0 /\ ~Mending(k)
      BY <2>0 DEF Due, Owed, Mending
    <2>1. CASE End(r) /\ node' = node
      BY <2>0, <2>1, <2>a, DiskQuits
    <2> DEFINE m == [k EXCEPT !.at = "body", !.path = p, !.off = 0]
    <2>2. CASE /\ CanHold(p) /\ node[p] # Dir
               /\ node' = [WithParent(p) EXCEPT ![p] = 0] /\ Go(r, m)
      <3>1. "body" \in Places /\ 0 \in Nat
        BY DEF Places
      <3>2. m \in Requests /\ m.at = "body" /\ m.path = p /\ m.upload = k.upload /\ m.off = 0 /\ m.fresh = k.fresh
        BY <1>0, <3>1 DEF Requests
      <3> HIDE DEF m
      <3>3. Good(r, m) /\ Due(m) = 0 /\ Seen(m) = 0 /\ Busy(r, m)
        BY <1>0, <2>0, <3>2 DEF Good, Due, Owed, Seen, Busy
      <3>4. /\ node' \in Nodes /\ Files(node') = Files(node) \union {p} /\ node'[p] = 0
            /\ \A q \in Files(node') : q # p => node'[q] = node[q]
        BY <1>0, <2>2, <3>1, WrittenDisk
      <3>5. Bytes(p, node'[p]) \subseteq Known \union Bytes(p, 0) /\ Bytes(m.path, Seen(m)) \subseteq Known \union Bytes(p, 0)
        BY <3>3, <3>4, BytesSize
      <3>6. Due(k) + (IF 0 <= 0 THEN 0 - 0 ELSE 0) <= Due(m)
        BY <2>a, <3>3
      <3>7. Files(node') \subseteq Files(node) \union {p} /\ Files(node) \subseteq Files(node')
        BY <3>4
      <3>8. setup.kinds[r] # {} /\ m.at \in {"count", "body", "add", "promote"} /\ node' \in Nodes
        BY <1>b, <2>0, <3>2, <3>4
      <3>9. \A q \in Files(node') : q # p => node'[q] = node[q]
        BY <3>4
      <3>10. Go(r, m)
        BY <2>2
      <3> QED
        BY <2>0, <2>a, <3>1, <3>3, <3>5, <3>6, <3>7, <3>8, <3>9, <3>10, DiskGrown
    <2> QED
      BY <1>2, <2>1, <2>2 DEF UploadField
  <1>3. CASE UploadChunk(r)
    <2> DEFINE p == k.path
    <2> DEFINE m == [k EXCEPT !.at = "add"]
    <2> DEFINE v == Max({node[p], k.off + 1})
    <2>0. node' = IF p \in Files(node) THEN [node EXCEPT ![p] = v] ELSE node
      BY <1>3 DEF UploadChunk
    <2>1. /\ k.at = "body" /\ Go(r, m) /\ Fits(r)
          /\ UNCHANGED <<setup, counters, mainEntry, stray>>
      BY <1>3 DEF UploadChunk, At
    <2>2. p \in Paths /\ k.upload /\ "upload" \in setup.kinds[r] /\ "add" \in Places
      BY <1>0, <2>1 DEF Good, Places
    <2>3. m \in Requests /\ m.at = "add" /\ m.upload = k.upload /\ m.path = p /\ m.off = k.off /\ m.fresh = k.fresh
      BY <1>0, <2>2 DEF Requests
    <2> HIDE DEF m
    <2>4. Good(r, m) /\ Busy(r, m) /\ m.at \in {"count", "body", "add", "promote"}
      <3>1. 1 <= UploadMax
        BY <1>a, <2>1, Numbers DEF Fits
      <3> QED
        BY <1>0, <2>1, <2>2, <2>3, <3>1 DEF Good, Busy
    <2>5. Due(m) = 1 /\ Due(k) = 0 /\ ~Mending(k) /\ Seen(m) = k.off + 1 /\ Seen(k) = k.off
      BY <2>1, <2>3 DEF Due, Owed, Seen, Mending
    <2>6. Bytes(p, k.off) \subseteq Known
      BY <2>5, SeenKnown
    <2>7. /\ node' \in Nodes /\ Files(node') = Files(node)
          /\ \A q \in Files(node') : q # p => node'[q] = node[q]
          /\ p \in Files(node') => Bytes(p, node'[p]) \subseteq Known \union Bytes(p, k.off + 1)
      <3>1. CASE p \in Files(node)
        <4>1. node[p] \in Nat
          BY <1>0, <2>2, <3>1, FileSize
        <4>2. v = (IF node[p] >= k.off + 1 THEN node[p] ELSE k.off + 1) /\ v \in Nat
          <5>1. node[p] \in Int /\ k.off + 1 \in Int
            BY <1>a, <4>1
          <5>2. v = IF node[p] >= k.off + 1 THEN node[p] ELSE k.off + 1
            BY <5>1, MaxOfTwo
          <5> QED
            BY <1>a, <4>1, <5>2
        <4> HIDE DEF v, p
        <4>3. node' \in Nodes /\ \A q \in Paths : node'[q] = IF q = p THEN v ELSE node[q]
          BY <1>0, <2>0, <2>2, <3>1, <4>2 DEF Nodes
        <4>4. p \in Paths /\ node'[p] = v /\ node'[p] \in Nat /\ \A q \in Paths : q # p => node'[q] = node[q]
          BY <2>2, <4>2, <4>3
        <4>5. Files(node') = Files(node) \union {p}
          BY <1>0, <4>3, <4>4, PlacedFiles
        <4>6. Bytes(p, node[p]) \subseteq Known
          BY <1>0, <2>2, <4>1, FileBytes DEF Known
        <4>7. Bytes(p, v) \subseteq Known \union Bytes(p, k.off + 1)
          BY <4>2, <4>6
        <4>8. Files(node') = Files(node)
          BY <3>1, <4>5
        <4>9. \A q \in Files(node') : q # p => node'[q] = node[q]
          BY <4>4 DEF Files
        <4> QED
          BY <4>3, <4>4, <4>7, <4>8, <4>9
      <3>2. CASE p \notin Files(node)
        <4>1. node' = node
          BY <2>0, <3>2
        <4> QED
          BY <1>0, <3>2, <4>1
      <3> QED
        BY <3>1, <3>2
    <2>8. Due(k) + (IF k.off <= k.off + 1 THEN (k.off + 1) - k.off ELSE 0) <= Due(m)
      BY <1>a, <2>5
    <2>9. /\ k.off \in Nat /\ k.off + 1 \in Nat /\ setup.kinds[r] # {} /\ Go(r, m)
          /\ Files(node') \subseteq Files(node) \union {p} /\ Files(node) \subseteq Files(node')
      BY <1>a, <1>b, <2>1, <2>7
    <2>10. Bytes(m.path, Seen(m)) \subseteq Known \union Bytes(p, k.off + 1)
      BY <2>3, <2>5
    <2> HIDE DEF p, v
    <2> QED
      BY <2>1, <2>2, <2>4, <2>5, <2>6, <2>7, <2>8, <2>9, <2>10, DiskGrown
  <1>4. CASE UploadReject(r)
    <2>1. k.at = "body" /\ End(r) /\ UNCHANGED <<setup, node, counters, mainEntry, stray>>
      BY <1>4 DEF UploadReject, At
    <2>2. Due(k) = 0 /\ ~Mending(k)
      BY <2>1 DEF Due, Owed, Mending
    <2> QED
      BY <2>1, <2>2, DiskQuits
  <1>5. CASE UploadAdd(r)
    <2> DEFINE m == [k EXCEPT !.at = "body", !.off = @ + 1]
    <2>1. /\ k.at = "add" /\ bytesUsed' = bytesUsed + 1 /\ Go(r, m)
          /\ UNCHANGED <<setup, node, fileCount, mainEntry, stray>>
      BY <1>5 DEF UploadAdd, At
    <2>2. "body" \in Places /\ k.off + 1 \in Nat /\ k.path \in Paths /\ k.upload
      BY <1>0, <1>a, <2>1 DEF Places, Good
    <2>3. /\ m \in Requests /\ m.at = "body" /\ m.path = k.path /\ m.upload = k.upload
          /\ m.off = k.off + 1 /\ m.fresh = k.fresh
      BY <1>0, <2>2 DEF Requests
    <2> HIDE DEF m
    <2>4. Good(r, m) /\ Busy(r, m)
      BY <1>0, <2>1, <2>2, <2>3 DEF Good, Busy
    <2>5. Due(m) = 0 /\ Due(k) = 1 /\ Seen(m) = Seen(k) /\ ~Mending(k) /\ Undisturbed(node', m)
      BY <2>1, <2>3 DEF Due, Owed, Seen, Mending, Undisturbed
    <2>6. Bytes(m.path, Seen(m)) \subseteq Known
      BY <2>3, <2>5, SeenKnown
    <2>7. /\ bytesUsed' \in Nat /\ fileCount' = fileCount /\ stray' = stray /\ node' = node
          /\ bytesUsed + stray + Due(k) <= bytesUsed' + stray' + Due(m) /\ fileCount' >= fileCount
      BY <1>0, <2>1, <2>5
    <2>8. Files(node') = Files(node) /\ setup.kinds[r] # {} /\ m.at # "store" /\ setup' = setup
      BY <1>b, <2>1, <2>3
    <2> QED
      BY <1>0, <2>1, <2>4, <2>5, <2>6, <2>7, <2>8, DiskSame
  <1>6. CASE UploadEnd(r)
    <2> DEFINE n == [k EXCEPT !.at = "next", !.path = None, !.off = 0]
    <2> DEFINE m == Written(n, k.path)
    <2>1. /\ k.at = "body" /\ fileCount' = (fileCount + 1) % CountMod /\ Go(r, m)
          /\ UNCHANGED <<setup, node, bytesUsed, mainEntry, stray>>
      BY <1>6 DEF UploadEnd, At
    <2>2. "next" \in Places /\ k.path \in Paths /\ k.upload /\ 0 \in Nat
      BY <1>0, <2>1 DEF Places, Good
    <2>3. m \in Requests /\ m.at = "next" /\ m.upload = k.upload /\ m.fresh = k.fresh
      <3>1. n \in Requests /\ n.at = "next" /\ n.upload = k.upload /\ n.fresh = k.fresh
        BY <1>0, <2>2 DEF Requests
      <3> HIDE DEF n
      <3> QED
        BY <2>2, <3>1, WrittenFields
    <2> HIDE DEF m
    <2>4. Good(r, m) /\ Due(m) = 0 /\ Due(k) = 0 /\ ~Mending(k) /\ Busy(r, m)
      BY <1>0, <2>1, <2>2, <2>3 DEF Good, Due, Owed, Mending, Busy
    <2>5. fileCount' \in Nat
      <3>1. fileCount' \in 0..(CountMod - 1)
        BY <1>0, <2>1, Wraps
      <3> QED
        BY <3>1, Numbers
    <2>6. NothingTaken => fileCount' >= fileCount
      <3>1. NothingTaken => OneDeleter
        BY DEF NothingTaken, OneDeleter
      <3>2. FilesOwed(k) = 1
        BY <2>1 DEF FilesOwed
      <3>3. NothingTaken => fileCount' = fileCount + 1
        BY <2>1, <3>1, <3>2, CountAdds
      <3> QED
        BY <1>0, <3>3
    <2>7. /\ bytesUsed' = bytesUsed /\ stray' = stray /\ node' = node /\ setup.kinds[r] # {}
          /\ bytesUsed + stray + Due(k) <= bytesUsed' + stray' + Due(m)
      BY <1>0, <1>b, <2>1, <2>4
    <2>8. Files(node') = Files(node)
      BY <2>7
    <2> QED
      BY <1>0, <2>1, <2>3, <2>4, <2>5, <2>6, <2>7, <2>8, DiskTurn
  <1>7. CASE UploadDone(r)
    <2> DEFINE m == [k EXCEPT !.at = "unwrap", !.todo = k.done]
    <2>0. /\ k.at = "next" /\ k.upload /\ UNCHANGED <<setup, node, counters, mainEntry, stray>>
      BY <1>7 DEF UploadDone, At
    <2>a. Due(k) = 0 /\ ~Mending(k) /\ "upload" \in setup.kinds[r]
      BY <1>0, <2>0 DEF Due, Owed, Mending, Good
    <2>1. CASE Refresh(r)
      BY <2>0, <2>1, <2>a, DiskQuits
    <2>2. CASE Unwraps(r) /\ Go(r, m)
      <3>1. (\A p \in k.done : Parent[p] # None) /\ k.fresh
        <4>1. PICK q \in Paths : Wrapper(k.done) = {q}
          BY <2>2 DEF Unwraps
        <4>2. k.fresh
          BY <2>2 DEF Unwraps
        <4>3. \A p \in k.done : Parent[p] # None
          BY <4>1, Names DEF Wrapper
        <4> QED
          BY <4>2, <4>3
      <3>2. "unwrap" \in Places
        BY DEF Places
      <3>3. /\ m \in Requests /\ m.at = "unwrap" /\ m.upload = k.upload /\ m.todo = k.done
            /\ m.done = k.done
        BY <1>0, <1>a, <3>2 DEF Requests
      <3> HIDE DEF m
      <3>4. Good(r, m) /\ Due(m) = 0 /\ Busy(r, m)
        BY <1>0, <2>a, <3>1, <3>3 DEF Good, Due, Owed, Busy
      <3>5. /\ bytesUsed' = bytesUsed /\ fileCount' = fileCount /\ stray' = stray /\ node' = node
            /\ bytesUsed + stray + Due(k) <= bytesUsed' + stray' + Due(m) /\ fileCount' >= fileCount
        BY <1>0, <2>0, <2>a, <3>4 DEF counters
      <3>6. Files(node') = Files(node) /\ setup.kinds[r] # {}
        BY <1>b, <2>0, <3>5
      <3> QED
        BY <1>0, <2>0, <2>a, <2>2, <3>3, <3>4, <3>5, <3>6, DiskTurn
    <2> QED
      BY <1>7, <2>1, <2>2 DEF UploadDone
  <1>8. ASSUME NEW p \in k.todo, Unwrap(r, p)
        PROVE  DiskInv'
    <2>0. k.at = "unwrap" /\ UNCHANGED <<setup, counters, mainEntry, stray>>
      BY <1>8 DEF Unwrap, At
    <2>1. /\ p \in Paths /\ Parent[p] # None /\ k.todo \subseteq k.done
          /\ \A q \in k.done : Parent[q] # None
      BY <1>0, <1>a, <2>0 DEF Good
    <2>a. Due(k) = 0 /\ ~Mending(k) /\ ~Growing(setup) /\ ~Steady(setup) /\ setup.kinds[r] # {}
      BY <2>0, SteadyUnwraps DEF Due, Owed, Mending
    <2>2. CASE End(r) /\ node' = node
      BY <2>0, <2>2, <2>a, DiskQuits
    <2> DEFINE b == Base[p]
    <2> DEFINE m == [k EXCEPT !.todo = @ \ {p}]
    <2>3. CASE /\ p \in Files(node) /\ node[b] # Dir /\ Go(r, m)
               /\ node' = [node EXCEPT ![b] = node[p], ![p] = None]
      <3>1. b \in Paths /\ Parent[b] = None /\ b # p
        BY <2>1, Names
      <3>2. node[p] \in Nat
        BY <1>0, <2>1, <2>3, FileSize
      <3>3. \A q \in Paths : node'[q] = IF q = p THEN None ELSE IF q = b THEN node[p] ELSE node[q]
        BY <1>0, <2>1, <2>3, <3>1 DEF Nodes
      <3>4. node' \in Nodes
        BY <1>0, <2>3, <3>1, <3>2 DEF Nodes
      <3>5. /\ m \in Requests /\ m.at = "unwrap" /\ m.upload = k.upload /\ m.todo = k.todo \ {p}
            /\ m.done = k.done
        BY <1>0, <1>a, <2>0 DEF Requests
      <3> HIDE DEF m
      <3>6. Good(r, m) /\ Busy(r, m) /\ m.at \in {"pick", "unwrap"}
        BY <1>0, <2>0, <2>1, <3>5 DEF Good, Busy
      <3> HIDE DEF b
      <3>7. node'[b] = node[p] /\ p \notin Files(node')
        BY <2>1, <3>1, <3>3 DEF Files
      <3>8. \A x \in Files(node') : x # b => x \in Files(node) /\ node'[x] = node[x]
        BY <3>3 DEF Files
      <3>9. p \in Files(node) /\ Go(r, m)
        BY <2>3
      <3> QED
        BY <2>0, <2>a, <3>1, <3>4, <3>6, <3>7, <3>8, <3>9, DiskMoved
    <2> QED
      BY <1>8, <2>2, <2>3 DEF Unwrap
  <1>9. CASE UnwrapDone(r)
    <2> DEFINE m == [Idle EXCEPT !.at = "pick"]
    <2>1. /\ k.at = "unwrap" /\ node' = Removed(Wrapper(k.done)) /\ Go(r, m)
          /\ UNCHANGED <<setup, counters, mainEntry, stray>>
      BY <1>9 DEF UnwrapDone, At, Refresh
    <2>2. Wrapper(k.done) \in SUBSET Paths
      <3>1. \A p \in k.done : Parent[p] # None
        BY <1>0, <2>1 DEF Good
      <3> QED
        BY <1>a, <3>1, Names DEF Wrapper
    <2>3. node' \in Nodes
      BY <1>0, <2>1, <2>2, RemovedTree
    <2>4. Files(node') \subseteq Files(node) /\ \A q \in Files(node') : node'[q] = node[q]
      BY <1>0, <2>1, <2>2, RemovedFiles
    <2>5. Due(k) = 0 /\ ~Growing(setup) /\ setup.kinds[r] # {}
      BY <2>1, SteadyUnwraps DEF Due, Owed
    <2>6. Good(r, m) /\ Busy(r, m) /\ m.at = "pick"
      <3>1. m # Idle
        BY DEF Idle
      <3> QED
        BY <2>5, <3>1, EndsGood
    <2> HIDE DEF m
    <2>7. Seen(m) = 0 /\ Undisturbed(node', m) /\ Mending(m) /\ m.at # "store"
      BY <2>6 DEF Seen, Undisturbed, Mending
    <2>8. Bytes(m.path, Seen(m)) \subseteq Known
      BY <2>7, BytesSize
    <2> QED
      BY <2>1, <2>3, <2>4, <2>5, <2>6, <2>7, <2>8, DiskShrunk
  <1>10. CASE UnwrapAgain(r)
    <2>1. k.at = "unwrap" /\ End(r) /\ UNCHANGED <<setup, node, counters, mainEntry, stray>>
      BY <1>10 DEF UnwrapAgain, At
    <2>2. Due(k) = 0 /\ ~Mending(k)
      BY <2>1 DEF Due, Owed, Mending
    <2> QED
      BY <2>1, <2>2, DiskQuits
  <1> QED
    BY <1>1, <1>2, <1>3, <1>4, <1>5, <1>6, <1>7, <1>8, <1>9, <1>10 DEF Upload


\* delete_file.
LEMMA DiskDelete ==
    ASSUME FilesInv, CountInv, DiskInv, NEW r \in Tasks, Delete(r)
    PROVE  DiskInv'
  <1> DEFINE k == req[r]
  <1>0. /\ k \in Requests /\ Good(r, k) /\ CountGood(r, k) /\ node \in Nodes /\ bytesUsed \in Nat
        /\ fileCount \in Nat /\ stray \in Nat /\ Busy(r, k) /\ k.fresh \in BOOLEAN /\ k.take \in 0..1
    BY Facts, Fields, Numbers DEF DiskInv, CountInv
  <1>a. ASSUME "delete" \in setup.kinds[r]
        PROVE  ~Growing(setup) /\ ~NothingTaken /\ setup.kinds[r] # {}
    BY <1>a DEF Growing, NothingTaken
  <1>1. ASSUME NEW p \in Paths, DeleteBegin(r, p)
        PROVE  DiskInv'
    <2> DEFINE v == node[p]
    <2> DEFINE m == [Idle EXCEPT !.at = "remove", !.path = p, !.prior = v]
    <2>1. /\ k.at = "idle" /\ "delete" \in setup.kinds[r] /\ v # None /\ Go(r, m)
          /\ UNCHANGED <<setup, node, counters, mainEntry, stray>>
      BY <1>1 DEF DeleteBegin, May
    <2>2. Idle \in Requests /\ Idle.upload = FALSE /\ "remove" \in Places /\ v \in Nat \union {None, Dir}
      BY <1>0, IdleGood, FileSize DEF Idle, Places
    <2>3. m \in Requests /\ m.at = "remove" /\ m.path = p /\ m.prior = v /\ m.upload = FALSE
      <3> HIDE DEF v
      <3> QED
        BY <2>2 DEF Requests
    <2> HIDE DEF m
    <2>4. Good(r, m) /\ Due(m) = 0 /\ Due(k) = 0 /\ Seen(m) = 0 /\ Busy(r, m) /\ ~Mending(k) /\ m.at # "store"
      BY <1>a, <2>1, <2>2, <2>3 DEF Good, Due, Owed, Seen, Busy, Mending
    <2>5. /\ bytesUsed' = bytesUsed /\ fileCount' = fileCount /\ stray' = stray /\ node' = node
          /\ bytesUsed + stray + Due(k) <= bytesUsed' + stray' + Due(m) /\ fileCount' >= fileCount
      BY <1>0, <2>1, <2>4 DEF counters
    <2>6. Undisturbed(node', m) /\ Files(node') = Files(node)
      BY <2>3, <2>5 DEF Undisturbed
    <2>7. Bytes(m.path, Seen(m)) \subseteq Known
      BY <2>4, BytesSize
    <2> QED
      BY <1>0, <1>a, <2>1, <2>4, <2>5, <2>6, <2>7, DiskSame
  <1>2. CASE DeleteRemove(r)
    <2> DEFINE p == k.path
    <2>0. k.at = "remove" /\ UNCHANGED <<setup, counters, mainEntry, stray>>
      BY <1>2 DEF DeleteRemove, At
    <2>1. p \in Paths /\ "delete" \in setup.kinds[r] /\ Due(k) = 0 /\ ~Mending(k)
      BY <1>0, <2>0 DEF Good, CountGood, Due, Owed, Mending
    <2>2. CASE End(r) /\ node' = node
      BY <2>0, <2>1, <2>2, DiskQuits
    <2>3. ASSUME node' = Removed({p})
          PROVE  /\ node' \in Nodes /\ node'[p] = None
                 /\ Files(node') \subseteq Files(node) /\ \A q \in Files(node') : node'[q] = node[q]
      <3>1. {p} \in SUBSET Paths /\ Tree(node)
        BY <2>1, Facts
      <3> HIDE DEF p
      <3>2. node' \in Nodes
        BY <1>0, <2>3, <3>1, RemovedTree
      <3> QED
        BY <1>0, <2>1, <2>3, <3>1, <3>2, RemovedFiles
    <2> DEFINE e == [Idle EXCEPT !.at = "pick"]
    <2>4. CASE node' = Removed({p}) /\ Refresh(r)
      <3>1. Go(r, e) /\ e # Idle
        BY <2>4 DEF Refresh, Idle
      <3>2. Good(r, e) /\ Busy(r, e) /\ e.at = "pick"
        BY <1>a, <2>1, <3>1, EndsGood
      <3> HIDE DEF e
      <3>3. Seen(e) = 0 /\ Undisturbed(node', e) /\ Mending(e) /\ e.at # "store"
        BY <3>2 DEF Seen, Undisturbed, Mending
      <3>4. Bytes(e.path, Seen(e)) \subseteq Known
        BY <3>3, BytesSize
      <3>5. /\ node' \in Nodes /\ Files(node') \subseteq Files(node)
            /\ \A q \in Files(node') : node'[q] = node[q]
        BY <2>3, <2>4
      <3> HIDE DEF p
      <3> QED
        BY <1>a, <2>0, <2>1, <3>1, <3>2, <3>3, <3>4, <3>5, DiskShrunk
    <2> DEFINE m == [k EXCEPT !.at = "uncount"]
    <2>5. CASE node' = Removed({p}) /\ k.prior # Dir /\ Go(r, m)
      <3>1. k.prior \in Nat /\ "uncount" \in Places
        BY <1>0, <2>0, <2>5 DEF Good, Places
      <3>2. /\ m \in Requests /\ m.at = "uncount" /\ m.path = p /\ m.prior = k.prior
            /\ m.upload = k.upload /\ m.fresh = k.fresh
        BY <1>0, <3>1 DEF Requests
      <3> HIDE DEF m
      <3>3. Good(r, m) /\ Busy(r, m) /\ Mending(m) /\ m.at # "store"
        BY <1>0, <1>a, <2>0, <2>1, <3>1, <3>2 DEF Good, Busy, Mending
      <3>4. /\ node' \in Nodes /\ Files(node') \subseteq Files(node) /\ node'[p] = None
            /\ \A q \in Files(node') : node'[q] = node[q]
        BY <2>3, <2>5
      <3>5. Undisturbed(node', m)
        BY <2>1, <3>2, <3>4 DEF Undisturbed
      <3>6. Alone(setup) => Bytes(m.path, Seen(m)) \subseteq Known
        <4> SUFFICES ASSUME Alone(setup) PROVE Bytes(m.path, Seen(m)) \subseteq Known
          OBVIOUS
        <4>1. node[p] = k.prior
          BY <2>0 DEF DiskInv, Undisturbed
        <4>2. Seen(m) = k.prior
          BY <3>1, <3>2, Names DEF Seen
        <4>3. Bytes(p, node[p]) \subseteq Units(node, Files(node))
          BY <1>0, <2>1, <3>1, <4>1, FileBytes
        <4> QED
          BY <3>2, <4>1, <4>2, <4>3 DEF Known
      <3>7. Go(r, m)
        BY <2>5
      <3> HIDE DEF p
      <3> QED
        BY <1>a, <2>0, <2>1, <3>3, <3>4, <3>5, <3>6, <3>7, DiskShrunk
    <2> QED
      BY <1>2, <2>2, <2>4, <2>5 DEF DeleteRemove
  <1>3. CASE DeleteUncount(r)
    <2> DEFINE n == Min({1, fileCount})
    <2> DEFINE m == [k EXCEPT !.at = "less", !.take = n]
    <2>1. /\ k.at = "uncount" /\ Go(r, m) /\ bytesUsed' = Max({0, bytesUsed - k.prior})
          /\ UNCHANGED <<setup, node, fileCount, mainEntry, stray>>
      BY <1>3 DEF DeleteUncount, At
    <2>2. n \in 0..1 /\ "less" \in Places /\ k.prior \in Nat /\ "delete" \in setup.kinds[r]
      <3>1. fileCount \in Int /\ 1 \in Int
        BY <1>0
      <3>2. n = IF 1 <= fileCount THEN 1 ELSE fileCount
        BY <3>1, MinOfTwo
      <3>3. n \in 0..1
        BY <1>0, <3>2
      <3> QED
        BY <1>0, <2>1, <3>3 DEF Places, Good, CountGood
    <2> HIDE DEF n
    <2>3. m \in Requests /\ m.at = "less" /\ m.upload = k.upload /\ m.fresh = k.fresh
      BY <1>0, <2>2 DEF Requests
    <2> HIDE DEF m
    <2>4. /\ Good(r, m) /\ Due(m) = 0 /\ Due(k) = 0 /\ Seen(m) = 0 /\ Seen(k) = k.prior
          /\ Busy(r, m) /\ Mending(m) /\ m.at # "store" /\ Undisturbed(node', m)
      BY <1>0, <1>a, <2>1, <2>2, <2>3, Names DEF Good, Due, Owed, Seen, Busy, Mending, Undisturbed
    <2>5. bytesUsed' \in Nat /\ bytesUsed - k.prior <= bytesUsed'
      <3> DEFINE d == bytesUsed - k.prior
      <3>1. d \in Int /\ 0 \in Int
        BY <1>0, <2>2
      <3>2. bytesUsed' = IF 0 >= d THEN 0 ELSE d
        BY <2>1, <3>1, MaxOfTwo
      <3> QED
        BY <3>1, <3>2
    <2>6. ASSUME Alone(setup)
          PROVE  Counted'
      <3> DEFINE B == Bytes(k.path, k.prior)
                 V == Known \ B
      <3>1. Counted /\ IsFiniteSet(Known) /\ B \subseteq Known
        BY <2>4, <2>6, SeenKnown DEF DiskInv, Counted
      <3>2. IsFiniteSet(B) /\ Cardinality(B) = k.prior
        BY <2>2, BytesSize
      <3>3. Units(node', Files(node')) \subseteq V
        <4>1. node[k.path] = None /\ node' = node
          BY <2>1, <2>6 DEF DiskInv, Undisturbed
        <4>2. \A z \in Units(node, Files(node)) : z[1] \in Files(node)
          BY DEF Units
        <4>3. \A z \in B : z[1] = k.path
          BY DEF Bytes
        <4>4. k.path \notin Files(node)
          BY <4>1 DEF Files
        <4> HIDE DEF B
        <4> QED
          BY <4>1, <4>2, <4>3, <4>4 DEF Known
      <3>4. /\ IsFiniteSet(V) /\ Cardinality(V) = Cardinality(Known) - k.prior
            /\ Cardinality(Known) \in Nat
        <4>1. Known \intersect B = B
          BY <3>1
        <4>2. IsFiniteSet(V) /\ Cardinality(V) = Cardinality(Known) - Cardinality(Known \intersect B)
          <5> HIDE DEF B
          <5>1. IsFiniteSet(Known)
            BY <3>1
          <5> QED
            BY <5>1, FS_Difference
        <4>3. Cardinality(Known) \in Nat
          BY <3>1, FS_CardinalityType
        <4> HIDE DEF B
        <4> QED
          BY <3>2, <4>1, <4>2, <4>3
      <3>5. Bytes(m.path, Seen(m)) \subseteq V
        BY <2>4, BytesSize
      <3>6. \A t \in Tasks \ {r} : req[t].at = "idle"
        BY <1>a, <2>2, <2>6, OthersIdle
      <3> HIDE DEF V, B
      <3>7. stray' = stray /\ setup' = setup /\ node' \in Nodes
        BY <1>0, <2>1
      <3>8. Cardinality(V) + bytesUsed + stray + Due(k) <= Cardinality(Known) + bytesUsed' + stray' + Due(m)
        BY <1>0, <2>2, <2>4, <2>5, <3>4, <3>7
      <3>9. stray' \in Nat /\ Go(r, m)
        BY <1>0, <2>1, <3>7
      <3> QED
        BY <2>4, <2>5, <3>1, <3>3, <3>4, <3>5, <3>6, <3>7, <3>8, <3>9, AccountStep
    <2>7. Growing(setup) \/ Alone(setup) => Counted'
      BY <1>a, <2>2, <2>6
    <2>8. IsFiniteSet(Files(node')) /\ fileCount' \in Nat /\ fileCount' >= fileCount /\ setup' = setup /\ Go(r, m)
      BY <1>0, <2>1 DEF DiskInv
    <2>9. Files(node) \subseteq Files(node') /\ ~Growing(setup) /\ setup.kinds[r] # {}
      BY <1>a, <2>1, <2>2
    <2> QED
      BY <2>4, <2>7, <2>8, <2>9, DiskStep
  <1>4. CASE DeleteLess(r)
    <2> DEFINE m == [Idle EXCEPT !.at = "pick"]
    <2>1. /\ k.at = "less" /\ fileCount' = (fileCount + CountMod - k.take) % CountMod /\ Go(r, m)
          /\ UNCHANGED <<setup, node, bytesUsed, mainEntry, stray>>
      BY <1>4 DEF DeleteLess, Refresh, At
    <2>2. "delete" \in setup.kinds[r] /\ Due(k) = 0
      BY <1>0, <2>1 DEF CountGood, Due, Owed
    <2>3. Good(r, m) /\ Due(m) = 0 /\ Busy(r, m) /\ m.at = "pick" /\ Mending(m)
      <3>1. m # Idle
        BY DEF Idle
      <3> QED
        BY <1>a, <2>2, <3>1, EndsGood
    <2> HIDE DEF m
    <2>4. fileCount' \in Nat
      <3>1. fileCount + CountMod - k.take \in Int
        BY <1>0, Numbers
      <3>2. fileCount' \in 0..(CountMod - 1)
        BY <2>1, <3>1, Wraps
      <3> QED
        BY <3>2, Numbers
    <2>5. /\ bytesUsed' = bytesUsed /\ stray' = stray /\ node' = node
          /\ bytesUsed + stray + Due(k) <= bytesUsed' + stray' + Due(m)
      BY <1>0, <2>1, <2>2, <2>3
    <2>6. Files(node') = Files(node)
      BY <2>5
    <2> QED
      BY <1>0, <1>a, <2>1, <2>2, <2>3, <2>4, <2>5, <2>6, DiskTurn
  <1> QED
    BY <1>1, <1>2, <1>3, <1>4 DEF Delete

\* An archive that is overlaid.
LEMMA DiskArchive ==
    ASSUME FilesInv, CountInv, DiskInv, NEW r \in Tasks, Archive(r)
    PROVE  DiskInv'
  <1> DEFINE k == req[r]
  <1>0. /\ k \in Requests /\ Good(r, k) /\ CountGood(r, k) /\ node \in Nodes /\ Tree(node)
        /\ bytesUsed \in Nat /\ fileCount \in Nat /\ stray \in Nat /\ Busy(r, k)
        /\ k.off \in Nat /\ k.todo \in SUBSET Paths /\ k.dropped \in BOOLEAN /\ Due(k) \in Nat
    BY Facts, Fields, Numbers, SeenNumbers DEF DiskInv, CountInv
  <1>a. k.at = "promote" => Due(k) = k.off /\ ~Mending(k) /\ setup.kinds[r] # {}
    BY <1>0 DEF Due, Mending, Busy
  <1>1. ASSUME NEW E \in SUBSET Paths, ArchiveBegin(r, E)
        PROVE  DiskInv'
    <2> DEFINE T == {p \in E : node[p] = None}
    <2> DEFINE m == [k EXCEPT !.at = "promote", !.todo = T, !.off = 0]
    <2>1. /\ k.at \in {"idle", "next"} /\ "archive" \in setup.kinds[r] /\ Go(r, m)
          /\ UNCHANGED <<setup, node, counters, mainEntry, stray>>
      BY <1>1 DEF ArchiveBegin, May, At
    <2>2. "promote" \in Places /\ T \in SUBSET Paths /\ 0 \in Nat
      BY DEF Places
    <2> HIDE DEF T
    <2>3. m \in Requests /\ m.at = "promote" /\ m.off = 0 /\ m.upload = k.upload /\ m.fresh = k.fresh
      BY <1>0, <2>2 DEF Requests
    <2> HIDE DEF m
    <2>4. Good(r, m) /\ Due(m) = 0 /\ Due(k) = 0 /\ ~Mending(k) /\ Busy(r, m) /\ setup.kinds[r] # {}
      BY <1>0, <2>1, <2>3 DEF Good, Due, Owed, Mending, Busy
    <2>5. /\ bytesUsed' = bytesUsed /\ fileCount' = fileCount /\ stray' = stray /\ node' = node
          /\ bytesUsed + stray + Due(k) <= bytesUsed' + stray' + Due(m) /\ fileCount' >= fileCount
      BY <1>0, <2>1, <2>4 DEF counters
    <2>6. Files(node') = Files(node)
      BY <2>5
    <2> QED
      BY <1>0, <2>1, <2>3, <2>4, <2>5, <2>6, DiskTurn
  <1>2. ASSUME NEW p \in k.todo, ArchivePromote(r, p)
        PROVE  DiskInv'
    <2> DEFINE n == [k EXCEPT !.todo = @ \ {p}, !.off = @ + 1]
    <2> DEFINE m == Written(n, p)
    <2>1. /\ k.at = "promote" /\ CanHold(p) /\ node' = [WithParent(p) EXCEPT ![p] = 1] /\ Go(r, m)
          /\ UNCHANGED <<setup, counters, mainEntry, stray>>
      BY <1>2 DEF ArchivePromote, At, Promotable
    <2>2. p \in Paths /\ k.off + 1 \in Nat
      BY <1>0
    <2>3. /\ m \in Requests /\ m.at = "promote" /\ m.off = k.off + 1
          /\ m.upload = k.upload /\ m.fresh = k.fresh
      <3>1. /\ n \in Requests /\ n.at = "promote" /\ n.off = k.off + 1
            /\ n.upload = k.upload /\ n.fresh = k.fresh
        BY <1>0, <2>1, <2>2 DEF Requests
      <3> HIDE DEF n
      <3> QED
        BY <2>2, <3>1, WrittenFields
    <2> HIDE DEF m
    <2>4. Good(r, m) /\ Due(m) = k.off + 1 /\ Seen(m) = 0 /\ Busy(r, m) /\ m.at \in {"count", "body", "add", "promote"}
      BY <1>0, <2>1, <2>3 DEF Good, Due, Seen, Busy
    <2>5. /\ node' \in Nodes /\ Files(node') = Files(node) \union {p} /\ node'[p] = 1
          /\ \A q \in Files(node') : q # p => node'[q] = node[q]
      <3>1. 1 \in Nat
        OBVIOUS
      <3> QED
        BY <1>0, <2>1, <2>2, <3>1, WrittenDisk
    <2>6. /\ Bytes(p, node'[p]) \subseteq Known \union Bytes(p, 1)
          /\ Bytes(m.path, Seen(m)) \subseteq Known \union Bytes(p, 1)
      BY <2>4, <2>5, BytesSize
    <2>7. Due(k) + (IF 0 <= 1 THEN 1 - 0 ELSE 0) <= Due(m)
      BY <1>0, <1>a, <2>1, <2>4
    <2>8. /\ Files(node') \subseteq Files(node) \union {p} /\ Files(node) \subseteq Files(node')
          /\ node' \in Nodes /\ \A q \in Files(node') : q # p => node'[q] = node[q]
      BY <2>5
    <2>9. Go(r, m) /\ 0 \in Nat /\ 1 \in Nat /\ ~Mending(k) /\ setup.kinds[r] # {}
      BY <1>a, <2>1
    <2>10. UNCHANGED <<setup, counters, mainEntry, stray>>
      BY <2>1
    <2> QED
      BY <2>2, <2>4, <2>6, <2>7, <2>8, <2>9, <2>10, DiskGrown
  <1>3. ASSUME NEW p \in k.todo, ArchiveFail(r, p)
        PROVE  DiskInv'
    <2>1. /\ k.at = "promote" /\ stray' = stray + k.off /\ End(r)
          /\ UNCHANGED <<setup, node, counters, mainEntry>>
      BY <1>3 DEF ArchiveFail, At
    <2>2. /\ bytesUsed' = bytesUsed /\ fileCount' = fileCount /\ node' = node /\ stray' \in Nat
          /\ bytesUsed + stray + Due(k) <= bytesUsed' + stray' /\ fileCount' >= fileCount
      BY <1>0, <1>a, <2>1 DEF counters
    <2>3. Files(node') = Files(node)
      BY <2>2
    <2> QED
      BY <1>0, <1>a, <2>1, <2>2, <2>3, DiskEnds
  <1>4. CASE ArchiveCount(r)
    <2> DEFINE m == [k EXCEPT !.at = "next", !.off = 0]
    <2>1. k.at = "promote" /\ k.todo = {} /\ UNCHANGED <<setup, node, mainEntry>>
      BY <1>4 DEF ArchiveCount, At
    <2>2. Files(node') = Files(node) /\ node' = node
      BY <2>1
    <2>3. CASE k.dropped
      <3>1. stray' = stray + k.off /\ UNCHANGED counters /\ End(r)
        BY <1>4, <2>3 DEF ArchiveCount
      <3>2. /\ bytesUsed' = bytesUsed /\ fileCount' = fileCount /\ stray' \in Nat
            /\ bytesUsed + stray + Due(k) <= bytesUsed' + stray' /\ fileCount' >= fileCount
        BY <1>0, <1>a, <2>1, <3>1 DEF counters
      <3> QED
        BY <1>0, <1>a, <2>1, <2>2, <3>1, <3>2, DiskEnds
    <2>4. CASE ~k.dropped
      <3>1. /\ bytesUsed' = bytesUsed + k.off /\ fileCount' = (fileCount + k.off) % CountMod
            /\ UNCHANGED stray
        BY <1>4, <2>4 DEF ArchiveCount
      <3>2. /\ bytesUsed' \in Nat /\ stray' = stray /\ stray' \in Nat
            /\ bytesUsed + stray + Due(k) <= bytesUsed' + stray'
        BY <1>0, <1>a, <2>1, <3>1
      <3>3. fileCount' \in Nat
        <4>1. fileCount' \in 0..(CountMod - 1)
          BY <1>0, <3>1, Wraps
        <4> QED
          BY <4>1, Numbers
      <3>4. NothingTaken => fileCount' >= fileCount
        <4>1. FilesOwed(k) = k.off
          <5>1. FilesOwed(k) = k.off + 0
            BY <2>1, <2>4, FS_EmptySet DEF FilesOwed
          <5> QED
            BY <1>0, <5>1
        <4>2. NothingTaken => OneDeleter
          BY DEF NothingTaken, OneDeleter
        <4>3. NothingTaken => fileCount' = fileCount + k.off
          BY <1>0, <3>1, <4>1, <4>2, CountAdds
        <4> QED
          BY <1>0, <4>3
      <3>5. CASE Refresh(r)
        BY <1>0, <1>a, <2>1, <2>2, <3>2, <3>3, <3>4, <3>5, DiskEnds
      <3>6. CASE k.upload /\ Go(r, m)
        <4>1. "next" \in Places /\ 0 \in Nat
          BY DEF Places
        <4>2. m \in Requests /\ m.at = "next" /\ m.upload = k.upload /\ m.fresh = k.fresh
          BY <1>0, <4>1 DEF Requests
        <4> HIDE DEF m
        <4>3. Good(r, m) /\ Due(m) = 0 /\ Busy(r, m)
          BY <1>0, <2>1, <3>6, <4>2 DEF Good, Due, Owed, Busy
        <4>4. bytesUsed + stray + Due(k) <= bytesUsed' + stray' + Due(m)
          BY <3>2, <4>3
        <4> QED
          BY <1>0, <1>a, <2>1, <2>2, <3>2, <3>3, <3>4, <3>6, <4>2, <4>3, <4>4, DiskTurn
      <3> QED
        BY <1>4, <2>4, <3>5, <3>6 DEF ArchiveCount
    <2> QED
      BY <2>3, <2>4
  <1> QED
    BY <1>1, <1>2, <1>3, <1>4 DEF Archive

\* clear_files.
LEMMA DiskClear ==
    ASSUME FilesInv, CountInv, DiskInv, NEW r \in Tasks, Clear(r)
    PROVE  DiskInv'
  <1> DEFINE k == req[r]
  <1>0. /\ k \in Requests /\ Good(r, k) /\ CountGood(r, k) /\ node \in Nodes /\ Tree(node)
        /\ bytesUsed \in Nat /\ fileCount \in Nat /\ stray \in Nat /\ Busy(r, k)
        /\ k.todo \in SUBSET Paths /\ k.fresh \in BOOLEAN /\ k.upload \in BOOLEAN
    BY Facts, Fields, Numbers DEF DiskInv, CountInv
  <1>a. ASSUME "clear" \in setup.kinds[r]
        PROVE  ~Growing(setup) /\ ~NothingTaken /\ setup.kinds[r] # {}
    BY <1>a DEF Growing, NothingTaken
  <1>b. ASSUME k.at = "clear"
        PROVE  /\ "clear" \in setup.kinds[r] /\ Due(k) = 0 /\ Seen(k) = 0 /\ Mending(k)
               /\ Alone(setup) => k.todo = {p \in Top : node[p] # None}
    BY <1>0, <1>b DEF CountGood, Due, Owed, Seen, Mending, DiskInv, Undisturbed
  <1>1. CASE ClearBegin(r)
    <2> DEFINE T == {p \in Top : node[p] # None}
    <2> DEFINE m == [Idle EXCEPT !.at = "clear", !.todo = T]
    <2>1. /\ k.at = "idle" /\ "clear" \in setup.kinds[r] /\ Go(r, m)
          /\ UNCHANGED <<setup, node, counters, mainEntry, stray>>
      BY <1>1 DEF ClearBegin, May
    <2>2. Idle \in Requests /\ Idle.upload = FALSE /\ "clear" \in Places /\ T \in SUBSET Paths
      BY IdleGood DEF Idle, Places, Top
    <2>3. m \in Requests /\ m.at = "clear" /\ m.todo = T /\ m.upload = FALSE
      <3> HIDE DEF T
      <3> QED
        BY <2>2 DEF Requests
    <2> HIDE DEF m
    <2>4. /\ Good(r, m) /\ Due(m) = 0 /\ Due(k) = 0 /\ Seen(m) = 0 /\ Busy(r, m) /\ ~Mending(k)
          /\ m.at # "store"
      BY <1>a, <2>1, <2>3 DEF Good, Due, Owed, Seen, Busy, Mending
    <2>5. /\ bytesUsed' = bytesUsed /\ fileCount' = fileCount /\ stray' = stray /\ node' = node
          /\ bytesUsed + stray + Due(k) <= bytesUsed' + stray' + Due(m) /\ fileCount' >= fileCount
      BY <1>0, <2>1, <2>4 DEF counters
    <2>6. Undisturbed(node', m) /\ Files(node') = Files(node)
      BY <2>3, <2>5 DEF Undisturbed
    <2>7. Bytes(m.path, Seen(m)) \subseteq Known
      BY <2>4, BytesSize
    <2> QED
      BY <1>0, <1>a, <2>1, <2>4, <2>5, <2>6, <2>7, DiskSame
  <1>2. ASSUME NEW p \in k.todo, ClearRemove(r, p)
        PROVE  DiskInv'
    <2>0. k.at = "clear" /\ UNCHANGED <<setup, counters, mainEntry, stray>>
      BY <1>2 DEF ClearRemove, At
    <2>1. p \in Paths /\ "clear" \in setup.kinds[r] /\ ~Growing(setup) /\ setup.kinds[r] # {}
      BY <1>0, <1>a, <1>b, <2>0
    <2>2. CASE node[p] = None /\ End(r) /\ node' = node
      <3>1. ~Steady(setup)
        BY <1>b, <2>0, <2>1, <2>2 DEF Steady
      <3> QED
        BY <1>b, <2>0, <2>2, <3>1, DiskQuits
    <2> DEFINE m == [k EXCEPT !.todo = @ \ {p}]
    <2>3. CASE node' = Removed({p}) /\ Go(r, m)
      <3>1. /\ m \in Requests /\ m.at = "clear" /\ m.todo = k.todo \ {p}
            /\ m.upload = k.upload /\ m.fresh = k.fresh
        BY <1>0, <2>0 DEF Requests
      <3> HIDE DEF m
      <3>2. Good(r, m) /\ Busy(r, m) /\ Mending(m) /\ m.at # "store" /\ Seen(m) = 0
        BY <1>0, <1>a, <2>0, <2>1, <3>1 DEF Good, Busy, Mending, Seen
      <3>3. {p} \in SUBSET Paths
        BY <2>1
      <3>4. node' \in Nodes
        BY <1>0, <2>3, <3>3, RemovedTree
      <3>5. /\ Files(node') \subseteq Files(node) /\ \A q \in Files(node') : node'[q] = node[q]
            /\ \A q \in Paths : node'[q] = IF q \in {p} \/ Parent[q] \in {p} THEN None ELSE node[q]
        BY <1>0, <2>3, <3>3, RemovedFiles
      <3>6. Alone(setup) => Undisturbed(node', m)
        <4> SUFFICES ASSUME Alone(setup) PROVE Undisturbed(node', m)
          OBVIOUS
        <4>1. k.todo = {q \in Top : node[q] # None}
          BY <1>b, <2>0
        <4>2. \A q \in Top : q \in Paths /\ Parent[q] \notin {p}
          BY <2>1, Names DEF Top
        <4>3. m.todo = {q \in Top : node'[q] # None}
          BY <3>1, <3>5, <4>1, <4>2
        <4> QED
          BY <3>1, <4>3 DEF Undisturbed
      <3>7. Bytes(m.path, Seen(m)) \subseteq Known /\ Go(r, m)
        BY <2>3, <3>2, BytesSize
      <3>8. /\ Files(node') \subseteq Files(node) /\ \A q \in Files(node') : node'[q] = node[q]
            /\ Due(k) = 0
        BY <1>b, <2>0, <3>5
      <3> QED
        BY <2>0, <2>1, <3>2, <3>4, <3>6, <3>7, <3>8, DiskShrunk
    <2> QED
      BY <1>2, <2>2, <2>3 DEF ClearRemove
  <1>3. ASSUME NEW q \in staging, ClearStaging(r, q)
        PROVE  DiskInv'
    <2>1. k.at = "clear" /\ UNCHANGED <<setup, node, counters, mainEntry, stray, req>>
      BY <1>3 DEF ClearStaging, At
    <2>2. Go(r, k)
      <3>1. req \in [Tasks -> Requests] /\ req' = req
        BY <2>1 DEF FilesInv, FilesTyped
      <3> QED
        BY <3>1 DEF Go
    <2>3. Undisturbed(node, k) \/ ~Alone(setup)
      BY DEF DiskInv
    <2>4. /\ bytesUsed' = bytesUsed /\ fileCount' = fileCount /\ stray' = stray /\ node' = node
          /\ bytesUsed + stray + Due(k) <= bytesUsed' + stray' + Due(k) /\ fileCount' >= fileCount
      BY <1>0, <1>b, <2>1 DEF counters
    <2>5. Bytes(k.path, Seen(k)) \subseteq Known
      BY SeenKnown
    <2>6. Files(node') = Files(node) /\ k.at # "store" /\ setup.kinds[r] # {} /\ (Alone(setup) => Undisturbed(node', k))
      BY <1>a, <1>b, <2>1, <2>3, <2>4
    <2> HIDE DEF k
    <2> QED
      BY <1>0, <2>1, <2>2, <2>4, <2>5, <2>6, DiskSame DEF k
  <1>4. CASE ClearDone(r)
    <2>1. /\ k.at = "clear" /\ k.todo = {} /\ bytesUsed' = 0 /\ fileCount' = 0 /\ mainEntry' = None
          /\ Go(r, Idle) /\ UNCHANGED <<setup, node, stray>>
      BY <1>4 DEF ClearDone, End, At
    <2>2. "clear" \in setup.kinds[r]
      BY <1>b, <2>1
    <2>3. Good(r, Idle) /\ Due(Idle) = 0 /\ Busy(r, Idle) /\ Idle.at = "idle"
      BY <1>a, <2>2, EndsGood
    <2>4. Seen(Idle) = 0 /\ Undisturbed(node', Idle)
      BY <2>3 DEF Seen, Undisturbed
    <2>5. ASSUME Alone(setup)
          PROVE  Counted'
      <3>1. Files(node) = {}
        <4> SUFFICES ASSUME NEW p \in Files(node) PROVE FALSE
          OBVIOUS
        <4>1. p \in Paths /\ node[p] # None
          BY DEF Files
        <4>2. \A q \in Top : node[q] = None
          BY <1>b, <2>1, <2>5
        <4>3. CASE Parent[p] = None
          BY <4>1, <4>2, <4>3 DEF Top
        <4>4. CASE Parent[p] # None
          <5>1. node[Parent[p]] = Dir
            BY <1>0, <4>1, <4>4 DEF Tree
          <5>2. Parent[p] \in Top
            BY <4>1, <4>4, Names DEF Top
          <5> QED
            BY <4>2, <5>1, <5>2, Names
        <4> QED
          BY <4>3, <4>4
      <3>2. Units(node', Files(node')) \subseteq {}
        BY <2>1, <3>1 DEF Units
      <3>3. Bytes(Idle.path, Seen(Idle)) \subseteq {}
        BY <2>4, BytesSize
      <3>4. \A t \in Tasks \ {r} : req[t].at = "idle"
        BY <1>a, <2>2, <2>5, OthersIdle
      <3>5. IsFiniteSet({}) /\ node' \in Nodes /\ bytesUsed' \in Nat /\ stray' \in Nat /\ setup' = setup
        BY <1>0, <2>1, FS_EmptySet
      <3>6. Counted
        BY <2>5 DEF DiskInv
      <3> QED
        BY <2>1, <2>3, <3>2, <3>3, <3>4, <3>5, <3>6, AccountStep
    <2>6. Growing(setup) \/ Alone(setup) => Counted'
      BY <1>a, <2>2, <2>5
    <2>7. IsFiniteSet(Files(node')) /\ fileCount' \in Nat /\ setup' = setup
      BY <2>1 DEF DiskInv
    <2>8. Files(node) \subseteq Files(node') /\ IsEntry(node', mainEntry') /\ Idle.at # "store"
      BY <2>1, <2>3 DEF IsEntry
    <2> QED
      BY <1>a, <2>1, <2>2, <2>3, <2>4, <2>6, <2>7, <2>8, DiskStep
  <1> QED
    BY <1>1, <1>2, <1>3, <1>4 DEF Clear

\* Directories, renames, the main entry, and clients that go away.
LEMMA DiskOther ==
    ASSUME FilesInv, CountInv, DiskInv, NEW r \in Tasks,
           \/ \E p \in Paths : Mkdir(r, p)
           \/ \E p, q \in Paths : Rename(r, p, q)
           \/ RefreshPick(r)
           \/ RefreshStore(r)
           \/ Abandon(r)
    PROVE  DiskInv'
  <1> DEFINE k == req[r]
  <1>0. /\ k \in Requests /\ Good(r, k) /\ node \in Nodes /\ Tree(node)
        /\ bytesUsed \in Nat /\ fileCount \in Nat /\ stray \in Nat /\ Busy(r, k)
        /\ Due(k) \in Nat /\ Owed(k) \in Nat
    BY Facts, Numbers, SeenNumbers DEF DiskInv
  <1>a. k.at # "idle" => setup.kinds[r] # {}
    BY <1>0 DEF Busy
  <1>1. ASSUME NEW p \in Paths, Mkdir(r, p)
        PROVE  DiskInv'
    <2> DEFINE w == WithParent(p)
    <2>1. /\ k.at = "idle" /\ "mkdir" \in setup.kinds[r] /\ CanHold(p) /\ node[p] \in {None, Dir}
          /\ node' = [w EXCEPT ![p] = Dir] /\ Refresh(r) /\ UNCHANGED <<setup, counters, mainEntry, stray>>
      BY <1>1 DEF Mkdir, May
    <2>2. w \in Nodes /\ Files(w) = Files(node) /\ \A q \in Files(node) : w[q] = node[q]
      BY <1>0, <2>1, ParentFiles
    <2> HIDE DEF w
    <2>3. node' \in Nodes /\ \A q \in Paths : node'[q] = IF q = p THEN Dir ELSE w[q]
      BY <2>1, <2>2 DEF Nodes
    <2>4. p \notin Files(node)
      BY <2>1 DEF Files
    <2>5. Files(node') = Files(node) /\ \A q \in Files(node) : node'[q] = node[q]
      <3>1. Files(node') = Files(w)
        BY <2>2, <2>3, <2>4 DEF Files
      <3>2. \A q \in Files(node) : q # p /\ q \in Paths
        BY <2>4 DEF Files
      <3> QED
        BY <2>2, <2>3, <3>1, <3>2
    <2>6. Due(k) = 0 /\ ~Mending(k)
      BY <2>1 DEF Due, Owed, Mending
    <2>7. /\ bytesUsed' = bytesUsed /\ fileCount' = fileCount /\ stray' = stray
          /\ bytesUsed + stray + Due(k) <= bytesUsed' + stray' /\ fileCount' >= fileCount
      BY <1>0, <2>1, <2>6 DEF counters
    <2>8. Refresh(r) /\ setup' = setup /\ mainEntry' = mainEntry /\ setup.kinds[r] # {} /\ node' \in Nodes
      BY <2>1, <2>3
    <2> QED
      BY <1>0, <2>5, <2>6, <2>7, <2>8, DiskEnds
  <1>2. ASSUME NEW p \in Paths, NEW q \in Paths, Rename(r, p, q)
        PROVE  DiskInv'
    <2> DEFINE w == WithParent(q)
    <2>1. /\ k.at = "idle" /\ "rename" \in setup.kinds[r] /\ CanHold(q)
          /\ UNCHANGED <<setup, counters, mainEntry, stray>>
      BY <1>2 DEF Rename, May
    <2>2. w \in Nodes /\ Files(w) = Files(node) /\ \A x \in Files(node) : w[x] = node[x]
      BY <1>0, <2>1, ParentFiles
    <2>3. Due(k) = 0 /\ ~Mending(k) /\ ~Growing(setup) /\ setup.kinds[r] # {}
      BY <2>1 DEF Due, Owed, Mending, Growing
    <2> DEFINE m == [Idle EXCEPT !.at = "pick"]
    <2>4. CASE /\ p \in Files(node) /\ Go(r, m)
               /\ node' = [[w EXCEPT ![p] = None] EXCEPT ![q] = node[p]]
      <3>1. Good(r, m) /\ Busy(r, m) /\ m.at = "pick"
        <4>1. m # Idle
          BY DEF Idle
        <4> QED
          BY <2>3, <4>1, EndsGood
      <3> HIDE DEF m, w
      <3>2. node[p] \in Nat
        BY <1>0, <2>4, FileSize
      <3>3. /\ node' \in Nodes
            /\ \A x \in Paths : node'[x] = IF x = q THEN node[p] ELSE IF x = p THEN None ELSE w[x]
        BY <2>2, <2>4, <3>2 DEF Nodes
      <3>4. node'[q] = node[p] /\ (p # q => p \notin Files(node'))
        BY <3>3 DEF Files
      <3>5. \A x \in Files(node') : x # q => x \in Files(node) /\ node'[x] = node[x]
        <4> TAKE x \in Files(node')
        <4> HAVE x # q
        <4>1. x \in Paths /\ node'[x] \notin {None, Dir}
          BY DEF Files
        <4>2. node'[x] = w[x] /\ x \in Files(w)
          BY <3>3, <4>1 DEF Files
        <4> QED
          BY <2>2, <4>2
      <3>6. p \in Files(node) /\ Go(r, m) /\ node' \in Nodes
        BY <2>4, <3>3
      <3> QED
        BY <2>1, <2>3, <3>1, <3>4, <3>5, <3>6, DiskMoved
    <2>5. CASE node' = w /\ req' = req
      <3>1. Go(r, k)
        <4>1. req \in [Tasks -> Requests]
          BY DEF FilesInv, FilesTyped
        <4> QED
          BY <2>5, <4>1 DEF Go
      <3>2. node' \in Nodes /\ Files(node') = Files(node) /\ \A x \in Files(node) : node'[x] = node[x]
        BY <2>2, <2>5
      <3>3. /\ bytesUsed' = bytesUsed /\ fileCount' = fileCount /\ stray' = stray
            /\ bytesUsed + stray + Due(k) <= bytesUsed' + stray' + Due(k) /\ fileCount' >= fileCount
        BY <1>0, <2>1, <2>3 DEF counters
      <3>4. setup' = setup /\ mainEntry' = mainEntry /\ k.at = "idle"
        BY <2>1
      <3> HIDE DEF w, k
      <3> QED
        BY <1>0, <2>3, <3>1, <3>2, <3>3, <3>4, DiskTurn DEF k
    <2> QED
      BY <1>2, <2>4, <2>5 DEF Rename, Refresh
  <1>3. CASE RefreshPick(r)
    <2> DEFINE e == Preferred(Files(node))
    <2> DEFINE m == [k EXCEPT !.at = "store", !.pick = e]
    <2>1. k.at = "pick" /\ Go(r, m) /\ UNCHANGED <<setup, node, counters, mainEntry, stray>>
      BY <1>3 DEF RefreshPick, At
    <2>2. e \in Paths \union {None} /\ IsEntry(node, e) /\ "store" \in Places
      <3>1. Files(node) \in SUBSET Paths
        BY DEF Files
      <3>2. e \in Files(node) \union {None}
        BY <3>1, PreferredTypes
      <3> QED
        BY <3>1, <3>2 DEF IsEntry, Places
    <2> HIDE DEF e
    <2>3. m \in Requests /\ m.at = "store" /\ m.pick = e /\ m.upload = k.upload /\ m.fresh = k.fresh
      BY <1>0, <2>2 DEF Requests
    <2> HIDE DEF m
    <2>4. /\ Good(r, m) /\ Due(m) = 0 /\ Due(k) = 0 /\ Seen(m) = 0 /\ Busy(r, m) /\ Mending(m)
          /\ Undisturbed(node', m) /\ IsEntry(node, m.pick)
      BY <1>0, <2>1, <2>2, <2>3 DEF Good, Due, Owed, Seen, Busy, Mending, Undisturbed
    <2>5. /\ bytesUsed' = bytesUsed /\ fileCount' = fileCount /\ stray' = stray /\ node' = node
          /\ bytesUsed + stray + Due(k) <= bytesUsed' + stray' + Due(m) /\ fileCount' >= fileCount
      BY <1>0, <2>1, <2>4 DEF counters
    <2>6. Files(node') = Files(node) /\ Bytes(m.path, Seen(m)) \subseteq Known /\ setup.kinds[r] # {}
      BY <1>a, <2>1, <2>4, <2>5, BytesSize
    <2> QED
      BY <1>0, <2>1, <2>4, <2>5, <2>6, DiskSame
  <1>4. CASE RefreshStore(r)
    <2>1. /\ k.at = "store" /\ mainEntry' = k.pick /\ Go(r, Idle)
          /\ UNCHANGED <<setup, node, counters, stray>>
      BY <1>4 DEF RefreshStore, At
    <2>2. Good(r, Idle) /\ Due(Idle) = 0 /\ Due(k) = 0 /\ Busy(r, Idle) /\ Idle.at = "idle" /\ setup.kinds[r] # {}
      BY <1>a, <2>1, EndsGood DEF Due, Owed
    <2>3. Seen(Idle) = 0 /\ Undisturbed(node', Idle)
      BY <2>2 DEF Seen, Undisturbed
    <2>4. /\ bytesUsed' = bytesUsed /\ fileCount' = fileCount /\ stray' = stray /\ node' = node /\ setup' = setup
      BY <2>1 DEF counters
    <2>5. ASSUME Growing(setup) \/ Alone(setup)
          PROVE  Counted'
      <3>1. Counted /\ IsFiniteSet(Known) /\ Units(node', Files(node')) \subseteq Known
        BY <2>4, <2>5 DEF DiskInv, Counted, Known
      <3>2. Bytes(Idle.path, Seen(Idle)) \subseteq Known
        BY <2>3, BytesSize
      <3>3. Cardinality(Known) \in Nat
        BY <3>1, FS_CardinalityType
      <3>4. Cardinality(Known) + bytesUsed + stray + Due(k)
               <= Cardinality(Known) + bytesUsed' + stray' + Due(Idle)
        BY <1>0, <2>2, <2>4, <3>3
      <3>5. node' \in Nodes /\ bytesUsed' \in Nat /\ stray' \in Nat /\ Go(r, Idle)
        BY <1>0, <2>1, <2>4
      <3> QED
        BY <2>2, <2>4, <3>1, <3>2, <3>4, <3>5, AccountStep
    <2>6. Steady(setup) => IsEntry(node', mainEntry')
      BY <2>1, <2>4 DEF DiskInv, EntryKept
    <2>7. IsFiniteSet(Files(node')) /\ fileCount' \in Nat /\ fileCount' >= fileCount
      BY <1>0, <2>4 DEF DiskInv
    <2>8. Files(node) \subseteq Files(node') /\ Idle.at # "store"
      BY <2>2, <2>4
    <2> QED
      BY <2>1, <2>2, <2>3, <2>4, <2>5, <2>6, <2>7, <2>8, DiskStep
  <1>5. CASE Abandon(r)
    <2>1. setup.abandon /\ UNCHANGED <<setup, node, counters, mainEntry>>
      BY <1>5 DEF Abandon
    <2>2. /\ bytesUsed' = bytesUsed /\ fileCount' = fileCount /\ node' = node /\ fileCount' >= fileCount
          /\ Files(node') = Files(node)
      BY <1>0, <2>1 DEF counters
    <2>3. CASE k.at = "promote"
      <3> DEFINE m == [k EXCEPT !.dropped = TRUE]
      <3>1. Go(r, m) /\ stray' = stray
        BY <1>5, <2>3 DEF Abandon, At
      <3>2. m \in Requests /\ m.at = "promote" /\ m.off = k.off /\ m.upload = k.upload /\ m.fresh = k.fresh
        BY <1>0, <2>3 DEF Requests
      <3> HIDE DEF m
      <3>3. Good(r, m) /\ Due(m) = Due(k) /\ Busy(r, m) /\ ~Mending(k)
        BY <1>0, <2>3, <3>2 DEF Good, Due, Busy, Mending
      <3>4. bytesUsed + stray + Due(k) <= bytesUsed' + stray' + Due(m)
        BY <1>0, <2>2, <3>1, <3>3
      <3> QED
        BY <1>0, <1>a, <2>1, <2>2, <2>3, <3>1, <3>2, <3>3, <3>4, DiskTurn
    <2>4. CASE k.at # "promote"
      <3>1. /\ k.at # "idle" /\ stray' = stray + Uncounted(r) /\ End(r)
        BY <1>5, <2>4 DEF Abandon, At
      <3>2. Due(k) = Uncounted(r)
        BY <2>4 DEF Due, Owed, Uncounted, At, NewBytes, PriorSize
      <3>3. stray' \in Nat /\ bytesUsed + stray + Due(k) <= bytesUsed' + stray'
        BY <1>0, <2>2, <3>1, <3>2
      <3>4. Steady(setup) => Growing(setup)
        BY <2>1 DEF Steady
      <3> QED
        BY <1>0, <1>a, <2>1, <2>2, <3>1, <3>3, <3>4, DiskEnds
    <2> QED
      BY <2>3, <2>4
  <1> QED
    BY <1>1, <1>2, <1>3, <1>4, <1>5

\* What was seeded is counted.
LEMMA DiskInit ==
    ASSUME Init
    PROVE  DiskInv
  <1>1. PICK F \in SUBSET Paths :
           /\ F # {} /\ IsFiniteSet(F)
           /\ node = [p \in Paths |-> IF p \in F THEN 1
                                     ELSE IF \E q \in F : Parent[q] = p THEN Dir ELSE None]
           /\ bytesUsed = Cardinality(F)
           /\ fileCount = Cardinality(F)
           /\ mainEntry = Preferred(F)
    BY DEF Init
  <1>2. /\ req = [r \in Tasks |-> Idle] /\ stray = 0 /\ Idle.at = "idle" /\ Idle.fresh = FALSE
        /\ \A t \in Tasks : req[t] = Idle
    BY DEF Init, Idle
  <1>3. Files(node) = F /\ \A p \in F : node[p] = 1
    <2>1. 1 \notin {None, Dir}
      BY Names
    <2>2. \A p \in Paths : node[p] = IF p \in F THEN 1
                                    ELSE IF \E q \in F : Parent[q] = p THEN Dir ELSE None
      BY <1>1
    <2>3. \A p \in Paths : p \in F <=> node[p] \notin {None, Dir}
      BY <2>1, <2>2
    <2> QED
      BY <2>2, <2>3 DEF Files
  <1>4. Cardinality(F) \in Nat /\ Cardinality(F) >= 1
    <2>1. Cardinality(F) \in Nat /\ Cardinality(F) # 0
      BY <1>1, FS_CardinalityType, FS_EmptySet
    <2> QED
      BY <2>1
  <1>5. \A t \in Tasks : Busy(t, req[t])
    BY <1>2 DEF Busy
  <1>6. \A t \in Tasks : Undisturbed(node, req[t])
    BY <1>2 DEF Undisturbed
  <1>7. Counted
    <2>1. Known \subseteq F \X {0}
      <3>1. \A t \in Tasks : Bytes(req[t].path, Seen(req[t])) = {}
        <4>1. \A t \in Tasks : Seen(req[t]) = 0
          BY <1>2 DEF Seen
        <4> QED
          BY <4>1, BytesSize
      <3>2. Units(node, Files(node)) \subseteq F \X {0}
        <4> SUFFICES ASSUME NEW z \in Units(node, F) PROVE z \in F \X {0}
          BY <1>3
        <4>1. z \in F \X Nat /\ z[2] < node[z[1]]
          BY DEF Units
        <4>2. z[1] \in F /\ z[2] \in Nat /\ z[2] < 1
          BY <1>3, <4>1
        <4>3. z[2] = 0
          BY <4>2
        <4> QED
          BY <4>1, <4>3
      <3> QED
        BY <3>1, <3>2 DEF Known
    <2>2. IsFiniteSet(F \X {0}) /\ Cardinality(F \X {0}) = Cardinality(F)
      <3>1. IsFiniteSet({0}) /\ Cardinality({0}) = 1
        BY FS_Singleton
      <3>2. IsFiniteSet(F \X {0}) /\ Cardinality(F \X {0}) = Cardinality(F) * Cardinality({0})
        BY <1>1, <3>1, FS_Product
      <3> QED
        BY <1>4, <3>1, <3>2
    <2>3. IsFiniteSet(Known) /\ Cardinality(Known) <= Cardinality(F) /\ Cardinality(Known) \in Nat
      BY <2>1, <2>2, FS_Subset, FS_CardinalityType
    <2>4. Weight(BytesDue, Tasks) = 0
      <3>1. \A t \in Tasks : BytesDue[t] = 0
        BY <1>2 DEF BytesDue, Due, Owed
      <3>2. Units(BytesDue, Tasks) = {}
        BY <3>1 DEF Units
      <3> QED
        BY <3>2, FS_EmptySet DEF Weight
    <2> QED
      BY <1>1, <1>2, <1>4, <2>3, <2>4 DEF Counted
  <1>8. EntryKept
    <2>1. IsEntry(node, mainEntry)
      BY <1>1, <1>3, PreferredTypes DEF IsEntry
    <2> QED
      BY <1>2, <2>1 DEF EntryKept
  <1> QED
    BY <1>1, <1>3, <1>4, <1>5, <1>6, <1>7, <1>8 DEF DiskInv

LEMMA DiskNext ==
    ASSUME FilesInv, CountInv, DiskInv, [Next]_vars
    PROVE  DiskInv'
  <1>1. CASE Next
    <2>1. PICK r \in Tasks :
             \/ Put(r)
             \/ Delete(r)
             \/ Upload(r)
             \/ Archive(r)
             \/ Clear(r)
             \/ \E p \in Paths : Mkdir(r, p)
             \/ \E p, q \in Paths : Rename(r, p, q)
             \/ RefreshPick(r)
             \/ RefreshStore(r)
             \/ Abandon(r)
      BY <1>1 DEF Next
    <2> QED
      BY <2>1, DiskPut, DiskDelete, DiskUpload, DiskArchive, DiskClear, DiskOther
  <1>2. CASE UNCHANGED vars
    <2>1. /\ setup' = setup /\ node' = node /\ bytesUsed' = bytesUsed /\ fileCount' = fileCount
          /\ mainEntry' = mainEntry /\ req' = req /\ stray' = stray
      BY <1>2 DEF vars, counters
    <2>2. Known' = Known /\ BytesDue' = BytesDue
      BY <2>1 DEF Known, BytesDue, Units, Files, Bytes, Seen, Due, Owed
    <2>3. Counted => Counted'
      BY <2>1, <2>2 DEF Counted
    <2>4. EntryKept => EntryKept'
      BY <2>1 DEF EntryKept, IsEntry, Files, Growing, Mending
    <2>5. (\A t \in Tasks : Busy(t, req[t])) => (\A t \in Tasks : Busy(t, req[t]))'
      BY <2>1 DEF Busy, NothingTaken
    <2>6. (\A t \in Tasks : Undisturbed(node, req[t])) => (\A t \in Tasks : Undisturbed(node, req[t]))'
      BY <2>1 DEF Undisturbed
    <2>7. /\ Alone(setup)' <=> Alone(setup)
          /\ Growing(setup)' <=> Growing(setup)
          /\ Steady(setup)' <=> Steady(setup)
          /\ NothingTaken' <=> NothingTaken
          /\ IsFiniteSet(Files(node)) => IsFiniteSet(Files(node))'
      BY <2>1 DEF Alone, Growing, Steady, NothingTaken, Files
    <2> QED
      BY <2>1, <2>3, <2>4, <2>5, <2>6, <2>7 DEF DiskInv
  <1> QED
    BY <1>1, <1>2

-----------------------------------------------------------------------------
(* The theorems.                                                           *)

\* Nobody owes anything at first.
LEMMA FilesInvInit ==
    ASSUME Init
    PROVE  FilesInv
  <1>1. PICK F \in SUBSET Paths :
           /\ F # {} /\ IsFiniteSet(F) /\ Cardinality(F) <= Min({QuotaBytes, QuotaFiles})
           /\ \A p \in F : Parent[p] \notin F
           /\ node = [p \in Paths |-> IF p \in F THEN 1
                                     ELSE IF \E q \in F : Parent[q] = p THEN Dir ELSE None]
           /\ bytesUsed = Cardinality(F)
           /\ fileCount = Cardinality(F)
           /\ mainEntry = Preferred(F)
    BY DEF Init
  <1>2. setup \in Setups /\ staging = {} /\ req = [r \in Tasks |-> Idle] /\ stray = 0
    BY DEF Init
  <1>3. Cardinality(F) \in Nat /\ Cardinality(F) <= QuotaBytes /\ Cardinality(F) <= QuotaFiles
    <2>1. Cardinality(F) \in Nat
      BY <1>1, FS_CardinalityType
    <2>2. QuotaBytes \in Int /\ QuotaFiles \in Int
      BY Numbers
    <2>3. Min({QuotaBytes, QuotaFiles}) = IF QuotaBytes <= QuotaFiles THEN QuotaBytes ELSE QuotaFiles
      BY <2>2, MinOfTwo
    <2> QED
      BY <1>1, <2>1, <2>2, <2>3
  <1>4. node \in Nodes
    BY <1>1 DEF Nodes
  <1>5. Tree(node)
    <2> SUFFICES ASSUME NEW p \in Paths, node[p] # None, Parent[p] # None
                 PROVE  node[Parent[p]] = Dir
      BY DEF Tree
    <2>1. Parent[p] \in Paths /\ Parent[Parent[p]] = None
      BY Names
    <2>2. p \in F
      <3>1. ~ \E q \in F : Parent[q] = p
        BY Names
      <3> QED
        BY <1>1, <3>1
    <2> QED
      BY <1>1, <2>1, <2>2
  <1>6. FilesTyped
    <2>1. \A r \in Tasks : Good(r, req[r])
      BY <1>2, IdleGood
    <2>2. req \in [Tasks -> Requests]
      BY <1>2, IdleGood
    <2>3. mainEntry \in Paths \union {None}
      BY <1>1, PreferredTypes
    <2>4. fileCount \in 0..(CountMod - 1) /\ bytesUsed \in Nat
      BY <1>1, <1>3, Numbers
    <2> QED
      BY <1>2, <1>4, <1>5, <2>1, <2>2, <2>3, <2>4 DEF FilesTyped
  <1>7. BytesBounded
    <2>1. Reserved = {}
      <3>1. \A r \in Tasks : Owed(req[r]) = 0
        BY <1>2, IdleGood
      <3> QED
        BY <3>1, Numbers DEF Reserved
    <2>2. Cardinality(Reserved) = 0
      BY <2>1, FS_EmptySet
    <2>3. Extra * UploadMax \in Nat
      BY BoundNumbers
    <2> QED
      BY <1>1, <1>3, <2>2, <2>3, Numbers DEF BytesBounded
  <1> QED
    BY <1>6, <1>7 DEF FilesInv

LEMMA FilesInvNext ==
    ASSUME FilesInv, [Next]_vars
    PROVE  FilesInv'
  <1>1. CASE Next
    <2>1. PICK r \in Tasks :
             \/ Put(r)
             \/ Delete(r)
             \/ Upload(r)
             \/ Archive(r)
             \/ Clear(r)
             \/ \E p \in Paths : Mkdir(r, p)
             \/ \E p, q \in Paths : Rename(r, p, q)
             \/ RefreshPick(r)
             \/ RefreshStore(r)
             \/ Abandon(r)
      BY <1>1 DEF Next
    <2> QED
      BY <2>1, PutNext, DeleteNext, UploadNext, ArchiveNext, ClearNext, OtherNext
  <1>2. CASE UNCHANGED vars
    <2>1. /\ setup' = setup /\ node' = node /\ bytesUsed' = bytesUsed /\ fileCount' = fileCount
          /\ mainEntry' = mainEntry /\ staging' = staging /\ req' = req /\ stray' = stray
      BY <1>2 DEF vars, counters
    <2>2. FilesTyped'
      BY <2>1 DEF FilesInv, FilesTyped, Tree, Good
    <2>3. BytesBounded'
      BY <2>1 DEF FilesInv, BytesBounded, NoArchive, Reserved, Owed, Extra, Writers
    <2> QED
      BY <2>2, <2>3 DEF FilesInv
  <1> QED
    BY <1>1, <1>2

\* The types, the shape of the tree, and the bound hold in every reachable state.
THEOREM FilesInvariant == Spec => []FilesInv
  <1>1. Init => FilesInv
    BY FilesInvInit
  <1>2. FilesInv /\ [Next]_vars => FilesInv'
    BY FilesInvNext
  <1> QED
    BY <1>1, <1>2, PTL DEF Spec

\* Whatever the routes and however they interleave: a name exists only inside a
\* directory, and the counters are those of their types.
THEOREM FilesTypeCorrect == Spec => []TypeOK
  <1>1. FilesInv => TypeOK
    BY DEF FilesInv, FilesTyped, TypeOK, Tree, Reachable
  <1> QED
    BY <1>1, FilesInvariant, PTL

\* Requests that check the quota together pass it by at most one file for each
\* other writer, whatever the number of requests, the quota and the file size.
THEOREM QuotaNeverExceeded == Spec => []QuotaHolds
  <1>1. FilesInv => QuotaHolds
    <2> SUFFICES ASSUME FilesInv, NoArchive
                 PROVE  bytesUsed <= QuotaBytes + Extra * UploadMax
      BY DEF QuotaHolds, NoArchive, Extra
    <2>1. Cardinality(Reserved) \in Nat
      <3>1. Tasks \in SUBSET Tasks /\ UploadMax \in Nat
        BY Numbers
      <3>2. IsFiniteSet(Tasks \X (1..UploadMax))
        BY <3>1, Pairs
      <3>3. Reserved \subseteq Tasks \X (1..UploadMax)
        BY DEF Reserved
      <3> QED
        BY <3>2, <3>3, FS_Subset, FS_CardinalityType
    <2>2. bytesUsed + Cardinality(Reserved) <= QuotaBytes + Extra * UploadMax
      BY DEF FilesInv, BytesBounded
    <2>3. bytesUsed \in Nat /\ Extra * UploadMax \in Nat /\ QuotaBytes \in Nat
      BY BoundNumbers, Numbers DEF FilesInv, FilesTyped
    <2> DEFINE E == Extra * UploadMax
    <2> HIDE DEF E
    <2>4. bytesUsed + Cardinality(Reserved) <= QuotaBytes + E /\ E \in Nat
      BY <2>2, <2>3 DEF E
    <2>5. bytesUsed <= QuotaBytes + E
      BY <2>1, <2>3, <2>4
    <2> QED
      BY <2>5 DEF E
  <1> QED
    BY <1>1, FilesInvariant, PTL

LEMMA CountInvariant == Spec => []CountInv
  BY CountInit, CountNext, FilesInvariant, PTL DEF Spec

\* file_count never wraps around, whatever is deleted that no counter knows of,
\* as long as one request at a time takes files off it: the subtraction of a
\* delete, an operation of its own, meets a count that is no less than the one it
\* read, and what all requests have yet to add fits.
THEOREM FileCountNeverWraps == Spec => []CountNeverWraps
  <1>1. FilesInv /\ CountInv => CountNeverWraps
    <2> SUFFICES ASSUME FilesInv, CountInv, OneDeleter
                 PROVE  fileCount < CountMod - Cardinality(Tasks)
      BY DEF CountNeverWraps, OneDeleter
    <2>1. fileCount \in 0..(CountMod - 1) /\ CountMod \in Nat
      BY Numbers DEF FilesInv, FilesTyped
    <2>2. CASE Tasks = {}
      BY <2>1, <2>2, FS_EmptySet
    <2>3. CASE Tasks # {}
      <3> DEFINE B == MaxFiles * Cardinality(Tasks)
      <3>1. fileCount + Weight(FilesDue, Tasks) <= B
        BY <2>3 DEF CountInv, CountFits
      <3>2. Weight(FilesDue, Tasks) \in Nat
        BY Numbers, CountNumbers, WeightNat DEF CountInv, CountGood, FilesDue
      <3>3. B \in Nat /\ B < CountMod - Cardinality(Tasks) /\ Cardinality(Tasks) \in Nat
        BY CountNumbers
      <3> HIDE DEF B
      <3> QED
        BY <2>1, <3>1, <3>2, <3>3
    <2> QED
      BY <2>2, <2>3
  <1> QED
    BY <1>1, CountInvariant, FilesInvariant, PTL

LEMMA DiskInvariant == Spec => []DiskInv
  BY DiskInit, DiskNext, CountInvariant, FilesInvariant, PTL DEF Spec

\* The quota guard sees every byte: between requests, what is on disk is counted in
\* bytes_used, or was left there by an overlay that failed or a request whose client
\* went away, as long as nothing is removed or moved, or requests come one at a
\* time. Every request owes the bytes it has written and not counted, and what it has
\* read of a file's size are bytes that were on disk.
THEOREM EveryByteCounted == Spec => []NothingUncounted
  <1>1. FilesInv /\ DiskInv => NothingUncounted
    <2> SUFFICES ASSUME FilesInv, DiskInv, Quiet, Growing(setup) \/ Alone(setup)
                 PROVE  Total(node) <= bytesUsed + stray
      BY DEF NothingUncounted
    <2>0. node \in Nodes /\ bytesUsed \in Nat /\ stray \in Nat
      BY DEF FilesInv, FilesTyped
    <2>1. Counted /\ IsFiniteSet(Files(node))
      BY DEF DiskInv
    <2>2. Weight(BytesDue, Tasks) = 0
      <3>1. \A t \in Tasks : BytesDue[t] = 0
        BY DEF BytesDue, Due, Owed, Quiet, At
      <3>2. Units(BytesDue, Tasks) = {}
        BY <3>1 DEF Units
      <3> QED
        BY <3>2, FS_EmptySet DEF Weight
    <2>3. Total(node) = Weight(node, Files(node))
      <3>1. \A x \in Files(node) : node[x] \in Nat
        BY <2>0 DEF Files, Nodes
      <3> QED
        BY <2>1, <3>1, FoldOfFunction DEF Total
    <2>4. Weight(node, Files(node)) <= Cardinality(Known)
      <3>1. Units(node, Files(node)) \subseteq Known /\ IsFiniteSet(Known)
        BY <2>1 DEF Known, Counted
      <3> QED
        BY <3>1, FS_Subset DEF Weight
    <2>5. Weight(node, Files(node)) \in Nat /\ Cardinality(Known) \in Nat
      <3>1. \A x \in Files(node) : node[x] \in Nat
        BY <2>0 DEF Files, Nodes
      <3> QED
        BY <2>1, <3>1, WeightNat, FS_CardinalityType DEF Counted
    <2>6. Cardinality(Known) <= bytesUsed + stray
      BY <2>0, <2>1, <2>2 DEF Counted
    <2> QED
      BY <2>0, <2>3, <2>4, <2>5, <2>6
  <1> QED
    BY <1>1, DiskInvariant, FilesInvariant, PTL

\* Between requests the main entry is a file of the session, if there is one, as long
\* as nothing is removed or moved; or requests come one at a time, every client stays,
\* and no upload can meet a session that was emptied. What removes a file looks for
\* the main entry afterwards.
THEOREM EntryIsAFile == Spec => []EntryExists
  <1>1. DiskInv => EntryExists
    <2> SUFFICES ASSUME DiskInv, Steady(setup), Quiet
                 PROVE  mainEntry # None => mainEntry \in Files(node)
      BY DEF EntryExists, EntryPresent
    <2>1. EntryKept
      BY DEF DiskInv
    <2>2. \A t \in Tasks : ~Mending(req[t])
      BY DEF Quiet, At, Mending
    <2>3. IsEntry(node, mainEntry)
      BY <2>1, <2>2 DEF EntryKept
    <2> QED
      BY <2>3 DEF IsEntry
  <1> QED
    BY <1>1, DiskInvariant, PTL
=============================================================================
