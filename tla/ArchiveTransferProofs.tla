----------------------- MODULE ArchiveTransferProofs -----------------------
(***************************************************************************)
(* What imports, overlays and exports do, for every archive, directory,    *)
(* policy, cap and interleaving with other requests.                       *)
(*                                                                         *)
(* The overlay's merge has an invariant of its own; everything else is one *)
(* conjunction, ArchiveInv, of what every variable holds (Typed), what an  *)
(* export has of the directory (ExportInv), what the plan has of the       *)
(* archive and the directory of the plan (ImportInv), and what an overlay  *)
(* has still to count (CountInv).                                          *)
(***************************************************************************)
EXTENDS ArchiveTransfer, SequenceTheorems, Sums

-----------------------------------------------------------------------------
(* Overlays: what is kept, and what is added.                              *)

\* Appending to a sequence, whatever it holds.
LEMMA AppendAny ==
    ASSUME NEW s, NEW S, s \in Seq(S), NEW e
    PROVE  /\ Append(s, e) \in Seq(S \union {e})
           /\ DOMAIN Append(s, e) = DOMAIN s \union {Len(s) + 1}
           /\ \A i \in DOMAIN s : Append(s, e)[i] = s[i]
           /\ Append(s, e)[Len(s) + 1] = e
  <1>1. s \in Seq(S \union {e})
    <2>1. Len(s) \in Nat /\ s \in [1..Len(s) -> S]
      OBVIOUS
    <2> QED BY <2>1
  <1>2. Len(s) \in Nat /\ DOMAIN s = 1..Len(s)
    OBVIOUS
  <1>3. Append(s, e) \in Seq(S \union {e}) /\ Len(Append(s, e)) = Len(s) + 1
    BY <1>1
  <1>4. /\ \A i \in 1..Len(s) : Append(s, e)[i] = s[i]
        /\ Append(s, e)[Len(s) + 1] = e
    BY <1>1
  <1>5. DOMAIN Append(s, e) = 1..(Len(s) + 1)
    BY <1>3
  <1> QED BY <1>2, <1>3, <1>4, <1>5

\* Storing a file changes no other name.
LEMMA StoreKeeps ==
    ASSUME NEW d, NEW p, NEW f, NEW q \in DOMAIN d, q # p
    PROVE  q \in DOMAIN Store(d, p, f) /\ Store(d, p, f)[q] = d[q]
  BY DEF Store

-----------------------------------------------------------------------------
\* The names the policy protects.
Kept == Files(before) \ touched

\* A protected name is never staged: it was there when the policy was applied,
\* and has been since, or somebody else touched it.
KeptInv ==
    mode = "skip" =>
        /\ at # "write"
        /\ \A p \in Kept : p \in DOMAIN disk /\ disk[p] = before[p]
        /\ at \in {"open", "plan", "stage", "promote"} =>
              /\ next \in Nat \ {0}
              /\ \E S : staged \in Seq(S)
              /\ \A i \in DOMAIN staged : staged[i].path \notin Kept

\* Nothing is staged at first.
LEMMA KeptInit == Init => KeptInv
  <1> SUFFICES ASSUME Init, mode = "skip" PROVE KeptInv
    BY DEF KeptInv
  <1>1. staged = <<>> /\ before = disk /\ next = 1 /\ at = "open"
    BY DEF Init
  <1>2. staged \in Seq({}) /\ DOMAIN staged = {}
    BY <1>1
  <1>3. \A p \in Kept : p \in DOMAIN disk /\ disk[p] = before[p]
    BY <1>1 DEF Kept, Files
  <1> QED BY <1>1, <1>2, <1>3 DEF KeptInv

\* No step touches a protected name.
LEMMA KeptNext == KeptInv /\ [Next]_vars => KeptInv'
  <1> SUFFICES ASSUME KeptInv, [Next]_vars, mode' = "skip" PROVE KeptInv'
    BY DEF KeptInv
  <1> USE DEF KeptInv
  <1>1. CASE Open
    BY <1>1 DEF Open, Refuse, Kept, Files, planVars, zipVars, pastVars
  <1>2. CASE Planner
    <2>1. CASE PlanDir
      BY <2>1 DEF PlanDir, Planning, PlanNext, Kept, Files, planVars, zipVars, pastVars
    <2>2. CASE PlanDrop
      BY <2>2 DEF PlanDrop, Planning, PlanNext, Kept, Files, zipVars, pastVars
    <2>3. CASE PlanTake
      BY <2>3 DEF PlanTake, Planning, PlanNext, Kept, Files, zipVars, pastVars
    <2>4. CASE PlanRefuse
      BY <2>4 DEF PlanRefuse, Planning, Refuse, Kept, Files, planVars, zipVars, pastVars
    <2>5. CASE PlanDone
      BY <2>5 DEF PlanDone, Kept, Files, planVars, zipVars, pastVars
    <2> QED BY <1>2, <2>1, <2>2, <2>3, <2>4, <2>5 DEF Planner
  <1>3. CASE Unpacker
    <2>1. at = "write"
      BY <1>3 DEF Unpacker, WriteEntry, WriteFail, WriteDone
    <2>2. mode = mode'
      BY <1>3 DEF Unpacker, WriteEntry, WriteFail, WriteDone, Refuse
    <2> QED BY <2>1, <2>2
  <1>4. CASE Overlay
    <2>1. CASE StageSkip
      BY <2>1 DEF StageSkip, Kept, Files, planVars, zipVars, pastVars
    <2>2. CASE StageEntry
      <3>1. /\ mode = "skip" /\ at = "stage" /\ at' = at
            /\ disk' = disk /\ before' = before /\ touched' = touched
            /\ next' = next + 1 /\ staged' = Append(staged, Item) /\ Item.path \notin DOMAIN disk
        BY <2>2 DEF StageEntry, Keeps, planVars, zipVars, pastVars
      <3>2. PICK S : staged \in Seq(S)
        BY <3>1
      <3>3. /\ staged' \in Seq(S \union {Item})
            /\ DOMAIN staged' = DOMAIN staged \union {Len(staged) + 1}
            /\ \A i \in DOMAIN staged : staged'[i] = staged[i]
            /\ staged'[Len(staged) + 1] = Item
        BY <3>1, <3>2, AppendAny
      <3>4. Kept' = Kept /\ Item.path \notin Kept
        BY <3>1 DEF Kept, Files
      <3> QED BY <3>1, <3>3, <3>4
    <2>3. CASE StageDone
      BY <2>3 DEF StageDone, Kept, Files, planVars, zipVars, pastVars
    <2>4. CASE Promote
      <3>1. /\ mode = "skip" /\ at = "promote" /\ at' = at /\ next \in DOMAIN staged
            /\ disk' = Store(disk, staged[next].path, File("archive", staged[next].size))
            /\ next' = next + 1 /\ staged' = staged /\ before' = before /\ touched' = touched
        BY <2>4 DEF Promote, Promoting, planVars, zipVars, pastVars
      <3>2. Kept' = Kept /\ staged[next].path \notin Kept
        BY <3>1 DEF Kept, Files
      <3>3. \A p \in Kept : p \in DOMAIN disk' /\ disk'[p] = disk[p]
        BY <3>1, <3>2, StoreKeeps
      <3> QED BY <3>1, <3>2, <3>3
    <2>5. CASE OverlayFail
      BY <2>5 DEF OverlayFail, Promoting, Refuse, Kept, Files, planVars, zipVars, pastVars
    <2>6. CASE OverlayDone
      BY <2>6 DEF OverlayDone, Kept, Files, planVars, zipVars, pastVars
    <2> QED BY <1>4, <2>1, <2>2, <2>3, <2>4, <2>5, <2>6 DEF Overlay
  <1>5. ASSUME NEW q \in Paths, OtherPut(q) PROVE KeptInv'
    <2>1. /\ mode = "skip" /\ at' = at /\ next' = next /\ staged' = staged /\ before' = before
          /\ touched' = touched \union {q} /\ disk' = Store(disk, q, File("other", 1))
      BY <1>5 DEF OtherPut, planVars, zipVars
    <2>2. Kept' = Kept \ {q}
      BY <2>1 DEF Kept, Files
    <2>3. \A p \in Kept \ {q} : p \in DOMAIN disk' /\ disk'[p] = disk[p]
      BY <2>1, StoreKeeps
    <2> QED BY <2>1, <2>2, <2>3
  <1>6. ASSUME NEW q \in Paths, OtherDelete(q) PROVE KeptInv'
    <2> DEFINE gone == {x \in DOMAIN disk : IsPrefix(q, x)}
    <2>1. /\ mode = "skip" /\ at' = at /\ next' = next /\ staged' = staged /\ before' = before
          /\ touched' = touched \union gone /\ disk' = [x \in DOMAIN disk \ gone |-> disk[x]]
      BY <1>6 DEF OtherDelete, planVars, zipVars
    <2> HIDE DEF gone
    <2>2. Kept' = Kept \ gone
      BY <2>1 DEF Kept, Files
    <2> QED BY <2>1, <2>2
  <1>7. CASE Exporter
    <2>1. CASE ExportWalk
      <3>1. at' = "zip" /\ disk' = disk /\ before' = disk
        BY <2>1 DEF ExportWalk, planVars
      <3>2. \A p \in Kept' : p \in DOMAIN disk' /\ disk'[p] = before'[p]
        BY <3>1 DEF Kept, Files
      <3> QED BY <3>1, <3>2
    <2>2. CASE ExportAdd
      BY <2>2 DEF ExportAdd, Kept, Files, planVars, pastVars
    <2>3. CASE ExportFail
      BY <2>3 DEF ExportFail, Kept, Files, planVars, zipVars, pastVars
    <2>4. CASE ExportDone
      BY <2>4 DEF ExportDone, Kept, Files, planVars, zipVars, pastVars
    <2> QED BY <1>7, <2>1, <2>2, <2>3, <2>4 DEF Exporter
  <1>8. CASE Reimport
    BY <1>8 DEF Reimport
  <1>9. CASE UNCHANGED vars
    BY <1>9 DEF vars, Kept, Files, planVars, zipVars, pastVars
  <1> QED BY <1>1, <1>2, <1>3, <1>4, <1>5, <1>6, <1>7, <1>8, <1>9 DEF Next

-----------------------------------------------------------------------------
\* What a finished overlay has done, from the extraction plan on.
ByArchive(p) == p \in DOMAIN disk /\ disk[p].by = "archive"

\* Nothing has happened to the directory before the plan is complete.
Untouched ==
    at \in {"open", "plan"} => disk = before /\ touched = {} /\ staged = <<>>

\* Where a name comes from that nobody else has touched ...
Origins ==
    /\ \A p \in DOMAIN disk \ touched :
        (p \in DOMAIN before /\ disk[p] = before[p]) \/ disk[p] = Dir \/ disk[p].by = "archive"
    /\ \A p \in Files(before) \ touched :
        p \in DOMAIN disk /\ (disk[p] = before[p] \/ (mode = "overwrite" /\ p \in Planned))

\* ... and what has become of the plan's: each is there already, or staged and
\* then promoted.
Settled(p)  == p \in touched \/ (mode = "skip" /\ p \in DOMAIN disk)
IsStaged(p) == \E j \in DOMAIN staged : staged[j].path = p
PlanStaged ==
    /\ \A j \in DOMAIN staged : staged[j].path \in Planned
    /\ at = "stage" => \A i \in DOMAIN plan : i < next => Settled(plan[i].path) \/ IsStaged(plan[i].path)
    /\ at = "promote" =>
        /\ \A i \in DOMAIN plan : Settled(plan[i].path) \/ IsStaged(plan[i].path)
        /\ \A j \in DOMAIN staged : j < next => staged[j].path \in touched \/ ByArchive(staged[j].path)
    /\ at = "done" => \A i \in DOMAIN plan : Settled(plan[i].path) \/ ByArchive(plan[i].path)

Listings == (\E S : staged \in Seq(S)) /\ (\E S : plan \in Seq(S)) /\ next \in Nat \ {0}

Running == mode # "import" /\ at \in {"open", "plan", "stage", "promote", "done"}
OverlayInv ==
    /\ mode \in {"import", "skip", "overwrite"}
    /\ mode # "import" => at # "write"
    /\ Running => Listings /\ Untouched /\ Origins /\ PlanStaged

\* The plan is empty at first, and the directory is as it was.
LEMMA OverlayInit == Init => OverlayInv
  <1> SUFFICES ASSUME Init PROVE OverlayInv
    OBVIOUS
  <1>1. /\ mode \in {"import", "skip", "overwrite"} /\ at = "open" /\ next = 1
        /\ staged = <<>> /\ plan = <<>> /\ before = disk /\ touched = {}
    BY DEF Init
  <1>2. Listings
    <2>1. <<>> \in Seq({})
      OBVIOUS
    <2> QED BY <1>1, <2>1 DEF Listings
  <1>3. Origins
    <2>1. \A p \in DOMAIN disk : p \in DOMAIN before /\ disk[p] = before[p]
      BY <1>1
    <2>2. \A p \in Files(before) : p \in DOMAIN disk /\ disk[p] = before[p]
      BY <1>1 DEF Files
    <2> QED BY <2>1, <2>2 DEF Origins
  <1>4. PlanStaged
    BY <1>1 DEF PlanStaged
  <1> QED BY <1>1, <1>2, <1>3, <1>4 DEF OverlayInv, Untouched

\* Storing a file makes directories of the parents that are missing, and nothing
\* else but the file.
LEMMA StoreAdds ==
    ASSUME NEW d, NEW p, NEW f
    PROVE  /\ p \in DOMAIN Store(d, p, f) /\ Store(d, p, f)[p] = f
           /\ \A q \in DOMAIN Store(d, p, f) \ DOMAIN d : q = p \/ Store(d, p, f)[q] = Dir
  BY DEF Store

\* The steps of build_plan.
LEMMA PlannerKeeps ==
    ASSUME OverlayInv, Planner, mode' # "import" PROVE OverlayInv'
  <1> USE DEF OverlayInv, Running
  <1>1. CASE PlanDir \/ PlanDrop
    <2>1. /\ mode' = mode /\ at' = at /\ at = "plan" /\ next' = next + 1
          /\ plan' = plan /\ staged' = staged /\ disk' = disk /\ before' = before /\ touched' = touched
      BY <1>1 DEF PlanDir, PlanDrop, Planning, PlanNext, planVars, zipVars, pastVars
    <2>2. Listings'
      BY <2>1 DEF Listings
    <2>3. Untouched' /\ Origins'
      BY <2>1 DEF Untouched, Origins, Files, Planned
    <2>4. PlanStaged'
      BY <2>1 DEF PlanStaged, Planned
    <2> QED BY <2>1, <2>2, <2>3, <2>4
  <1>2. CASE PlanTake
    <2> DEFINE e == [path |-> Normal(Entry.name), size |-> Entry.size]
    <2>1. /\ mode' = mode /\ at' = at /\ at = "plan" /\ next' = next + 1
          /\ plan' = Append(plan, e) /\ staged' = staged /\ disk' = disk /\ before' = before
          /\ touched' = touched
      BY <1>2 DEF PlanTake, Planning, PlanNext, planVars, zipVars, pastVars
    <2> HIDE DEF e
    <2>2. Listings'
      <3>1. PICK S : plan \in Seq(S)
        BY <2>1 DEF Listings
      <3>2. plan' \in Seq(S \union {e})
        BY <2>1, <3>1, AppendAny
      <3> QED BY <2>1, <3>2 DEF Listings
    <2>3. disk' = before' /\ touched' = {} /\ staged' = <<>>
      BY <2>1 DEF Untouched
    <2>4. Origins'
      <3>1. \A p \in DOMAIN disk' : p \in DOMAIN before' /\ disk'[p] = before'[p]
        BY <2>3
      <3>2. \A p \in Files(before)' : p \in DOMAIN disk' /\ disk'[p] = before'[p]
        BY <2>3 DEF Files
      <3> QED BY <3>1, <3>2 DEF Origins
    <2>5. PlanStaged'
      BY <2>1, <2>3 DEF PlanStaged
    <2> QED BY <2>1, <2>2, <2>3, <2>4, <2>5 DEF Untouched
  <1>3. CASE PlanRefuse
    <2>1. at' = "refused" /\ mode' = mode
      BY <1>3 DEF PlanRefuse, Refuse
    <2> QED BY <2>1
  <1>4. CASE PlanDone
    <2>1. /\ mode' = mode /\ at = "plan" /\ at' = "stage" /\ next' = 1
          /\ plan' = plan /\ staged' = staged /\ disk' = disk /\ before' = before /\ touched' = touched
      BY <1>4 DEF PlanDone, planVars, zipVars, pastVars
    <2>2. Listings'
      BY <2>1 DEF Listings
    <2>3. Untouched' /\ Origins'
      BY <2>1 DEF Untouched, Origins, Files, Planned
    <2>4. PlanStaged'
      <3>1. PICK S : plan \in Seq(S)
        BY <2>1 DEF Listings
      <3>2. \A i \in DOMAIN plan : ~(i < 1)
        BY <3>1
      <3> QED BY <2>1, <3>2 DEF PlanStaged, Planned
    <2> QED BY <2>1, <2>2, <2>3, <2>4
  <1> QED BY <1>1, <1>2, <1>3, <1>4 DEF Planner

\* The steps of unpack_overlay that stage.
LEMMA StagingKeeps ==
    ASSUME OverlayInv, StageSkip \/ StageEntry \/ StageDone, mode' # "import" PROVE OverlayInv'
  <1> USE DEF OverlayInv, Running
  <1>1. PICK S : plan \in Seq(S)
    BY DEF Listings, StageSkip, StageEntry, StageDone
  <1>2. DOMAIN plan = 1..Len(plan) /\ Len(plan) \in Nat
    BY <1>1
  <1>3. /\ mode' = mode /\ at = "stage" /\ next \in Nat \ {0}
        /\ plan' = plan /\ disk' = disk /\ before' = before /\ touched' = touched
    BY DEF StageSkip, StageEntry, StageDone, planVars, zipVars, pastVars, Listings
  <1>4. Origins'
    BY <1>3 DEF Origins, Files, Planned
  <1>5. CASE StageSkip
    <2>1. /\ at' = at /\ next' = next + 1 /\ staged' = staged
          /\ next \in DOMAIN plan /\ mode = "skip" /\ plan[next].path \in DOMAIN disk
      BY <1>2, <1>3, <1>5 DEF StageSkip, Keeps, Item, More
    <2>2. Listings'
      BY <1>3, <2>1 DEF Listings
    <2>3. \A i \in DOMAIN plan : i < next + 1 => i < next \/ i = next
      BY <1>2, <1>3
    <2>4. PlanStaged'
      BY <1>3, <2>1, <2>3 DEF PlanStaged, Settled, IsStaged, Planned
    <2> QED BY <1>3, <1>4, <2>1, <2>2, <2>4 DEF Untouched
  <1>6. CASE StageEntry
    <2>1. /\ at' = at /\ next' = next + 1 /\ staged' = Append(staged, plan[next])
          /\ next \in DOMAIN plan
      BY <1>2, <1>3, <1>6 DEF StageEntry, Item, More
    <2>2. PICK T : staged \in Seq(T)
      BY <1>3 DEF Listings
    <2>3. /\ staged' \in Seq(T \union {plan[next]})
          /\ DOMAIN staged' = DOMAIN staged \union {Len(staged) + 1}
          /\ \A j \in DOMAIN staged : staged'[j] = staged[j]
          /\ staged'[Len(staged) + 1] = plan[next]
      BY <2>1, <2>2, AppendAny
    <2>4. Listings'
      BY <1>1, <1>3, <2>1, <2>3 DEF Listings
    <2>5. \A i \in DOMAIN plan : i < next + 1 => i < next \/ i = next
      BY <1>2, <1>3
    <2>6. \A j \in DOMAIN staged' : staged'[j].path \in Planned'
      BY <1>3, <2>1, <2>3 DEF PlanStaged, Planned
    <2>7. \A i \in DOMAIN plan' : i < next' => Settled(plan[i].path)' \/ IsStaged(plan[i].path)'
      BY <1>3, <2>1, <2>3, <2>5 DEF PlanStaged, Settled, IsStaged
    <2>8. PlanStaged'
      BY <1>3, <2>1, <2>6, <2>7 DEF PlanStaged
    <2> QED BY <1>3, <1>4, <2>1, <2>4, <2>8 DEF Untouched
  <1>7. CASE StageDone
    <2>1. at' = "promote" /\ next' = 1 /\ staged' = staged /\ \A i \in DOMAIN plan : i < next
      BY <1>2, <1>3, <1>7 DEF StageDone, More
    <2>2. Listings'
      BY <1>3, <2>1 DEF Listings
    <2>3. \A j \in DOMAIN staged : ~(j < 1)
      <3>1. PICK T : staged \in Seq(T)
        BY <1>3 DEF Listings
      <3> QED BY <3>1
    <2>4. PlanStaged'
      BY <1>3, <2>1, <2>3 DEF PlanStaged, Settled, IsStaged, Planned
    <2> QED BY <1>3, <1>4, <2>1, <2>2, <2>4 DEF Untouched
  <1> QED BY <1>5, <1>6, <1>7

\* One file is renamed into place.
LEMMA PromoteKeeps ==
    ASSUME OverlayInv, KeptInv, Promote, mode' # "import" PROVE OverlayInv'
  <1> USE DEF OverlayInv, Running
  <1> DEFINE x == staged[next].path
             f == File("archive", staged[next].size)
  <1>1. /\ mode' = mode /\ at = "promote" /\ at' = at /\ next \in Nat \ {0} /\ next' = next + 1
        /\ next \in DOMAIN staged
        /\ plan' = plan /\ staged' = staged /\ before' = before /\ touched' = touched
        /\ disk' = Store(disk, x, f)
    <2>1. PICK T : staged \in Seq(T)
      BY DEF Promote, Promoting, Listings
    <2> QED BY <2>1 DEF Promote, Promoting, planVars, zipVars, pastVars, Listings
  <1>2. x \in Planned /\ f.by = "archive"
    BY <1>1 DEF PlanStaged, File
  <1>3. mode = "skip" => x \notin Files(before) \ touched
    BY <1>1 DEF KeptInv, Kept
  <1> HIDE DEF x, f
  <1>4. /\ x \in DOMAIN disk' /\ disk'[x] = f
        /\ \A q \in DOMAIN disk : q # x => q \in DOMAIN disk' /\ disk'[q] = disk[q]
        /\ \A q \in DOMAIN disk' \ DOMAIN disk : q = x \/ disk'[q] = Dir
    BY <1>1, StoreAdds, StoreKeeps
  <1>5. Listings'
    BY <1>1 DEF Listings
  <1>6. Origins'
    <2>1. ASSUME NEW p \in DOMAIN disk' \ touched
          PROVE  (p \in DOMAIN before /\ disk'[p] = before[p]) \/ disk'[p] = Dir \/ disk'[p].by = "archive"
      <3>1. CASE p = x
        BY <3>1, <1>2, <1>4
      <3>2. CASE p # x /\ p \in DOMAIN disk
        BY <3>2, <1>1, <1>4 DEF Origins
      <3>3. CASE p # x /\ p \notin DOMAIN disk
        BY <3>3, <1>4
      <3> QED BY <3>1, <3>2, <3>3
    <2>2. ASSUME NEW p \in Files(before) \ touched
          PROVE  p \in DOMAIN disk' /\ (disk'[p] = before[p] \/ (mode = "overwrite" /\ p \in Planned))
      <3>1. CASE p = x
        BY <3>1, <1>1, <1>2, <1>3, <1>4
      <3>2. CASE p # x
        BY <3>2, <1>1, <1>4 DEF Origins
      <3> QED BY <3>1, <3>2
    <2>3. Planned' = Planned /\ Files(before)' = Files(before)
      BY <1>1 DEF Planned, Files
    <2> QED BY <1>1, <2>1, <2>2, <2>3 DEF Origins
  <1>7. PlanStaged'
    <2>1. \A p : Settled(p) => Settled(p)'
      BY <1>1, <1>4 DEF Settled
    <2>2. \A p : IsStaged(p) => IsStaged(p)'
      BY <1>1 DEF IsStaged
    <2>3. \A p : ByArchive(p) => ByArchive(p)'
      BY <1>2, <1>4 DEF ByArchive
    <2>4. \A p : p = x => ByArchive(p)'
      BY <1>2, <1>4 DEF ByArchive
    <2>5. \A j \in DOMAIN staged : j < next + 1 => j < next \/ j = next
      <3>1. PICK T : staged \in Seq(T)
        BY <1>1 DEF Listings
      <3> QED BY <3>1, <1>1
    <2>6. \A j \in DOMAIN staged' : j < next' => staged'[j].path \in touched' \/ ByArchive(staged[j].path)'
      BY <1>1, <2>3, <2>4, <2>5 DEF PlanStaged, x
    <2>7. \A i \in DOMAIN plan' : Settled(plan[i].path)' \/ IsStaged(plan[i].path)'
      BY <1>1, <2>1, <2>2 DEF PlanStaged
    <2>8. \A j \in DOMAIN staged' : staged'[j].path \in Planned'
      BY <1>1 DEF PlanStaged, Planned
    <2> QED BY <1>1, <2>6, <2>7, <2>8 DEF PlanStaged
  <1> QED BY <1>1, <1>5, <1>6, <1>7 DEF Untouched

\* The last file is in place.
LEMMA DoneKeeps ==
    ASSUME OverlayInv, OverlayDone, mode' # "import" PROVE OverlayInv'
  <1> USE DEF OverlayInv, Running
  <1>1. /\ mode' = mode /\ at = "promote" /\ at' = "done" /\ next' = next /\ next \in Nat \ {0}
        /\ next > Len(staged)
        /\ plan' = plan /\ staged' = <<>> /\ before' = before /\ touched' = touched /\ disk' = disk
    BY DEF OverlayDone, planVars, zipVars, pastVars, Listings
  <1>2. \A j \in DOMAIN staged : j < next
    <2>1. PICK T : staged \in Seq(T)
      BY <1>1 DEF Listings
    <2> QED BY <2>1, <1>1
  <1>3. Listings'
    <2>1. <<>> \in Seq({})
      OBVIOUS
    <2> QED BY <1>1, <2>1 DEF Listings
  <1>4. Origins'
    BY <1>1 DEF Origins, Files, Planned
  <1>5. \A i \in DOMAIN plan : Settled(plan[i].path) \/ ByArchive(plan[i].path)
    BY <1>1, <1>2 DEF PlanStaged, IsStaged, Settled
  <1>6. PlanStaged'
    BY <1>1, <1>5 DEF PlanStaged, Settled, ByArchive
  <1> QED BY <1>1, <1>3, <1>4, <1>6 DEF Untouched

\* Another request writes or deletes.
LEMMA OthersKeep ==
    ASSUME OverlayInv, NEW q \in Paths, OtherPut(q) \/ OtherDelete(q), mode' # "import" PROVE OverlayInv'
  <1> USE DEF OverlayInv, Running
  <1>1. /\ mode' = mode /\ at' = at /\ next' = next
        /\ plan' = plan /\ staged' = staged /\ before' = before
    BY DEF OtherPut, OtherDelete, planVars, zipVars
  <1>2. CASE at = "zip"
    BY <1>1, <1>2
  <1>3. CASE at \in {"stage", "promote"}
    <2>1. PICK gone : /\ touched' = touched \union gone
                      /\ \A p \in DOMAIN disk : p \notin gone => p \in DOMAIN disk' /\ disk'[p] = disk[p]
                      /\ \A p \in DOMAIN disk' \ DOMAIN disk : p \in gone \/ disk'[p] = Dir
      <3>1. CASE OtherPut(q)
        <4>1. touched' = touched \union {q} /\ disk' = Store(disk, q, File("other", 1))
          BY <3>1 DEF OtherPut
        <4>2. /\ \A p \in DOMAIN disk : p # q => p \in DOMAIN disk' /\ disk'[p] = disk[p]
              /\ \A p \in DOMAIN disk' \ DOMAIN disk : p = q \/ disk'[p] = Dir
          BY <4>1, StoreKeeps, StoreAdds
        <4> QED BY <4>1, <4>2
      <3>2. CASE OtherDelete(q)
        <4> DEFINE gone == {p \in DOMAIN disk : IsPrefix(q, p)}
        <4>1. touched' = touched \union gone /\ disk' = [p \in DOMAIN disk \ gone |-> disk[p]]
          BY <3>2 DEF OtherDelete
        <4> HIDE DEF gone
        <4> QED BY <4>1
      <3> QED BY <3>1, <3>2
    <2>2. Listings'
      BY <1>1, <1>3 DEF Listings
    <2>3. Origins'
      <3>1. Planned' = Planned /\ Files(before)' = Files(before)
        BY <1>1 DEF Planned, Files
      <3>2. ASSUME NEW p \in DOMAIN disk' \ touched'
            PROVE  (p \in DOMAIN before /\ disk'[p] = before[p]) \/ disk'[p] = Dir \/ disk'[p].by = "archive"
        <4>1. CASE p \in DOMAIN disk
          BY <4>1, <1>1, <1>3, <2>1 DEF Origins
        <4>2. CASE p \notin DOMAIN disk
          BY <4>2, <2>1
        <4> QED BY <4>1, <4>2
      <3>3. ASSUME NEW p \in Files(before) \ touched'
            PROVE  p \in DOMAIN disk' /\ (disk'[p] = before[p] \/ (mode = "overwrite" /\ p \in Planned))
        BY <1>1, <1>3, <2>1 DEF Origins
      <3> QED BY <1>1, <3>1, <3>2, <3>3 DEF Origins
    <2>4. PlanStaged'
      <3>1. \A p : Settled(p) => Settled(p)'
        BY <1>1, <2>1 DEF Settled
      <3>2. \A p : IsStaged(p) => IsStaged(p)'
        BY <1>1 DEF IsStaged
      <3>3. \A p : p \in touched \/ ByArchive(p) => p \in touched' \/ ByArchive(p)'
        BY <2>1 DEF ByArchive
      <3>4. \A i \in DOMAIN plan' :
              Settled(plan[i].path) \/ IsStaged(plan[i].path) => Settled(plan[i].path)' \/ IsStaged(plan[i].path)'
        BY <1>1, <3>1, <3>2
      <3>5. \A j \in DOMAIN staged' : staged'[j].path \in Planned'
        BY <1>1, <1>3 DEF PlanStaged, Planned
      <3>6. at' = "stage" => \A i \in DOMAIN plan' : i < next' => Settled(plan[i].path)' \/ IsStaged(plan[i].path)'
        BY <1>1, <3>4 DEF PlanStaged
      <3>7. at' = "promote" =>
              /\ \A i \in DOMAIN plan' : Settled(plan[i].path)' \/ IsStaged(plan[i].path)'
              /\ \A j \in DOMAIN staged' : j < next' => staged[j].path \in touched' \/ ByArchive(staged[j].path)'
        BY <1>1, <3>3, <3>4 DEF PlanStaged
      <3> QED BY <1>1, <1>3, <3>5, <3>6, <3>7 DEF PlanStaged
    <2> QED BY <1>1, <1>3, <2>2, <2>3, <2>4 DEF Untouched
  <1> QED BY <1>2, <1>3 DEF OtherPut, OtherDelete, Shared

\* Every step keeps what an overlay has done so far in line with its plan.
LEMMA OverlayNext == KeptInv /\ OverlayInv /\ [Next]_vars => OverlayInv'
  <1> SUFFICES ASSUME KeptInv, OverlayInv, [Next]_vars PROVE OverlayInv'
    OBVIOUS
  <1> USE DEF OverlayInv, Running
  <1>0. CASE mode' = "import"
    BY <1>0
  <1>1. CASE mode' # "import"
    <2>1. CASE Open
      <3>1. /\ mode' = mode /\ at = "open"
            /\ \/ at' = "refused"
               \/ /\ at' = "plan" /\ next' = next /\ plan' = plan /\ staged' = staged /\ disk' = disk
                  /\ before' = before /\ touched' = touched
        BY <2>1 DEF Open, Refuse, planVars, zipVars, pastVars
      <3>2. CASE at' = "refused"
        BY <3>1, <3>2
      <3>3. CASE at' = "plan"
        <4>1. Listings' /\ Untouched'
          BY <1>1, <3>1, <3>3 DEF Listings, Untouched
        <4>2. Origins' /\ PlanStaged'
          BY <1>1, <3>1, <3>3 DEF Origins, PlanStaged, Files, Planned
        <4> QED BY <3>1, <3>3, <4>1, <4>2
      <3> QED BY <3>1, <3>2, <3>3
    <2>2. CASE Planner
      BY <1>1, <2>2, PlannerKeeps
    <2>3. CASE Unpacker
      BY <1>1, <2>3 DEF Unpacker, WriteEntry, WriteFail, WriteDone, Refuse
    <2>4. CASE Overlay
      <3>1. CASE OverlayFail
        BY <3>1 DEF OverlayFail, Refuse
      <3> QED BY <1>1, <2>4, <3>1, StagingKeeps, PromoteKeeps, DoneKeeps DEF Overlay
    <2>5. ASSUME NEW q \in Paths, OtherPut(q) \/ OtherDelete(q) PROVE OverlayInv'
      BY <1>1, <2>5, OthersKeep
    <2>6. CASE Exporter
      BY <2>6 DEF Exporter, ExportWalk, ExportAdd, ExportFail, ExportDone
    <2>7. CASE Reimport
      BY <1>1, <2>7 DEF Reimport
    <2>8. CASE UNCHANGED vars
      <3>1. /\ mode' = mode /\ at' = at /\ next' = next /\ plan' = plan /\ staged' = staged
            /\ disk' = disk /\ before' = before /\ touched' = touched
        BY <2>8 DEF vars, planVars, zipVars, pastVars
      <3>2. Listings' = Listings /\ Untouched' = Untouched /\ Origins' = Origins /\ PlanStaged' = PlanStaged
        BY <3>1 DEF Listings, Untouched, Origins, PlanStaged, Files, Planned, Settled, IsStaged, ByArchive
      <3> QED BY <3>1, <3>2
    <2> QED BY <2>1, <2>2, <2>3, <2>4, <2>5, <2>6, <2>7, <2>8 DEF Next
  <1> QED BY <1>0, <1>1

\* A finished plan is a merge.
LEMMA OverlayInvMerges == KeptInv /\ OverlayInv => OverlayMerges
  <1> SUFFICES ASSUME KeptInv, OverlayInv PROVE OverlayMerges
    OBVIOUS
  <1> DEFINE wins(p) == \E i \in DOMAIN plan : plan[i].path = p /\ (mode = "overwrite" \/ p \notin Files(before))
  <1>1. mode = "skip" => \A p \in Files(before) \ touched : p \in DOMAIN disk /\ disk[p] = before[p]
    BY DEF KeptInv, Kept
  <1>2. ASSUME mode # "import", at = "done", NEW p \in (Planned \union Files(before)) \ touched
        PROVE  /\ p \in DOMAIN disk
               /\ disk[p] # Dir /\ wins(p) => disk[p].by = "archive"
               /\ ~wins(p) => disk[p] = before[p]
    <2>1. mode \in {"skip", "overwrite"} /\ Origins /\ PlanStaged
      BY <1>2 DEF OverlayInv, Running
    <2>2. p \in Planned => (mode = "skip" /\ p \in DOMAIN disk) \/ ByArchive(p)
      BY <1>2, <2>1 DEF PlanStaged, Planned, Settled
    <2>3. p \in DOMAIN disk
      BY <2>1, <2>2 DEF Origins, ByArchive
    <2>4. ASSUME disk[p] # Dir, wins(p) PROVE disk[p].by = "archive"
      <3>1. p \in Planned
        BY <2>4 DEF Planned
      <3>2. CASE ByArchive(p)
        BY <3>2 DEF ByArchive
      <3>3. CASE mode = "skip" /\ p \notin Files(before)
        <4>1. ~(p \in DOMAIN before /\ disk[p] = before[p])
          BY <2>4, <3>3 DEF Files
        <4> QED BY <2>1, <2>3, <2>4, <4>1 DEF Origins
      <3> QED BY <2>1, <2>2, <2>4, <3>1, <3>2, <3>3
    <2>5. ASSUME ~wins(p) PROVE disk[p] = before[p]
      <3>1. p \in Files(before) /\ (p \in Planned => mode = "skip")
        BY <2>1, <2>5 DEF Planned
      <3> QED BY <1>1, <2>1, <3>1 DEF Origins
    <2> QED BY <2>3, <2>4, <2>5
  <1> QED BY <1>1, <1>2 DEF OverlayMerges

\* An overlay keeps existing files under Skip in every state and after every
\* failure, and a finished one has added what was not there and replaced the
\* rest under Overwrite only, however other requests interleave with it.
THEOREM OverlaySafe == Spec => []OverlayMerges
  <1>1. Init => KeptInv /\ OverlayInv
    BY KeptInit, OverlayInit
  <1>2. KeptInv /\ OverlayInv /\ [Next]_vars => KeptInv' /\ OverlayInv'
    BY KeptNext, OverlayNext
  <1> QED BY <1>1, <1>2, OverlayInvMerges, PTL DEF Spec

-----------------------------------------------------------------------------
(* Names.                                                                  *)

\* What the paths are.
LEMMA Names0 ==
    /\ \A p \in Paths : p \in Seq(STRING) /\ p # <<>> /\ Len(p) \in Nat \ {0}
    /\ \A p \in Paths : Above(p) \subseteq Paths
    /\ \A p \in Paths : Normal(p) = p /\ Proper(p)
  <1>1. \A p \in Paths : p \in Seq(STRING) /\ p # <<>> /\ Normal(p) = p /\ Proper(p) /\ Above(p) \subseteq Paths
    BY TransferPathsAssumption DEF Proper
  <1> QED
    BY <1>1

\* A name above another one is a prefix of it, and shorter; prefixes of a name
\* are what is above it.
LEMMA AboveIsPrefix ==
    ASSUME NEW p \in Paths, NEW q \in Paths
    PROVE  /\ IsPrefix(p, q) <=> p = q \/ p \in Above(q)
           /\ p \in Above(q) => Len(p) < Len(q)
  <1>1. /\ p \in Seq(STRING) /\ q \in Seq(STRING) /\ Len(p) \in Nat \ {0} /\ Len(q) \in Nat
    BY Names0
  <1>2. ASSUME p \in Above(q)
        PROVE  Len(p) < Len(q) /\ IsPrefix(p, q)
    <2>1. PICK i \in 1..(Len(q) - 1) : p = SubSeq(q, 1, i)
      BY <1>2 DEF Above
    <2>2. Len(p) = i /\ \A k \in 1..i : p[k] = q[k]
      BY <1>1, <2>1
    <2>3. SubSeq(p, 1, Len(p)) = SubSeq(q, 1, Len(p))
      BY <1>1, <2>1, <2>2
    <2> QED
      BY <1>1, <2>1, <2>2, <2>3 DEF IsPrefix
  <1>3. p = q => IsPrefix(p, q)
    BY <1>1 DEF IsPrefix
  <1>4. ASSUME IsPrefix(p, q), p # q
        PROVE  p \in Above(q)
    <2>1. Len(p) <= Len(q) /\ SubSeq(p, 1, Len(p)) = SubSeq(q, 1, Len(p))
      BY <1>4 DEF IsPrefix
    <2>2. SubSeq(p, 1, Len(p)) = p
      BY <1>1
    <2>3. Len(p) # Len(q)
      BY <1>1, <1>4, <2>1, <2>2
    <2>4. Len(p) \in 1..(Len(q) - 1)
      BY <1>1, <2>1, <2>3
    <2> QED
      BY <2>1, <2>2, <2>4 DEF Above
  <1> QED
    BY <1>2, <1>3, <1>4

\* What is above something above a name is above the name.
LEMMA AboveAbove ==
    ASSUME NEW p \in Paths, NEW q \in Above(p), NEW r \in Above(q)
    PROVE  r \in Above(p)
  <1>1. p \in Seq(STRING) /\ Len(p) \in Nat
    BY Names0
  <1>2. PICK i \in 1..(Len(p) - 1) : q = SubSeq(p, 1, i)
    BY DEF Above
  <1>3. PICK j \in 1..(Len(q) - 1) : r = SubSeq(q, 1, j)
    BY DEF Above
  <1>4. q \in Seq(STRING) /\ Len(q) = i /\ j \in 1..(Len(p) - 1)
    BY <1>1, <1>2, <1>3
  <1>5. SubSeq(q, 1, j) = SubSeq(p, 1, j)
    BY <1>1, <1>2, <1>3, <1>4
  <1> QED
    BY <1>3, <1>4, <1>5 DEF Above

\* There are finitely many names above a name.
LEMMA AboveFinite ==
    ASSUME NEW p \in Paths
    PROVE  IsFiniteSet(Above(p))
  <1> DEFINE I == 1..(Len(p) - 1)
             f == [i \in I |-> SubSeq(p, 1, i)]
  <1>1. IsFiniteSet(I)
    BY Names0, FS_Interval
  <1>2. f \in Surjection(I, Above(p))
    <2>1. Above(p) = {f[i] : i \in I}
      BY DEF Above
    <2>2. f \in [I -> Above(p)] /\ \A x \in Above(p) : \E i \in I : f[i] = x
      BY <2>1
    <2> QED
      BY <2>2 DEF Surjection
  <1> HIDE DEF I, f
  <1> QED
    BY <1>1, <1>2, FS_Surjection

-----------------------------------------------------------------------------
(* Directories.                                                            *)

\* A file takes its place in a directory.
LEMMA StoreDirectory ==
    ASSUME NEW d, IsDirectory(d), NEW p \in Paths, CanHold(d, p),
           p \in DOMAIN d => d[p] # Dir, NEW f \in Nodes
    PROVE  IsDirectory(Store(d, p, f))
  <1> DEFINE n == Store(d, p, f)
             D == DOMAIN d \union Above(p) \union {p}
  <1>1. /\ DOMAIN n = D
        /\ \A q \in D : n[q] = IF q = p THEN f ELSE IF q \in DOMAIN d THEN d[q] ELSE Dir
        /\ n \in [D -> Nodes]
    <2>1. n = [q \in D |-> IF q = p THEN f ELSE IF q \in DOMAIN d THEN d[q] ELSE Dir]
      BY DEF Store
    <2>2. Dir \in Nodes
      BY DEF Dir, Nodes
    <2>3. d \in [DOMAIN d -> Nodes]
      BY DEF Nodes, IsDirectory
    <2>4. \A q \in DOMAIN d : d[q] \in Nodes
      BY <2>3
    <2> HIDE DEF n, D
    <2> QED
      BY <2>1, <2>2, <2>4
  <1>2. D \subseteq Paths /\ Above(p) \subseteq Paths /\ DOMAIN d \subseteq Paths
    BY Names0 DEF IsDirectory
  <1>3. IsFiniteSet(D)
    <2>1. IsFiniteSet(DOMAIN d \union Above(p))
      BY AboveFinite, FS_Union DEF IsDirectory
    <2> QED
      BY <2>1, FS_AddElement
  <1>4. p \notin Above(p)
    BY Names0, AboveIsPrefix
  <1>5. ASSUME NEW q \in D, NEW r \in Above(q)
        PROVE  r \in D /\ n[r] = Dir
    <2>1. CASE q \in DOMAIN d
      <3>1. r \in DOMAIN d /\ d[r] = Dir
        BY <1>5, <2>1 DEF IsDirectory
      <3> QED
        BY <1>1, <3>1
    <2>2. CASE q = p \/ q \in Above(p)
      <3>1. r \in Above(p)
        BY <1>5, <2>2, AboveAbove
      <3>2. r \in DOMAIN d => d[r] = Dir
        BY <3>1 DEF CanHold
      <3> QED
        BY <1>1, <1>4, <3>1, <3>2
    <2> QED
      BY <1>5, <2>1, <2>2
  <1> HIDE DEF n, D
  <1>6. IsDirectory(n)
    BY <1>1, <1>2, <1>3, <1>5 DEF IsDirectory, Nodes
  <1> QED
    BY <1>6 DEF n

\* A name goes with everything below it.
LEMMA RemoveDirectory ==
    ASSUME NEW d, IsDirectory(d), NEW p \in DOMAIN d
    PROVE  IsDirectory([q \in DOMAIN d \ {q \in DOMAIN d : IsPrefix(p, q)} |-> d[q]])
  <1> DEFINE D == DOMAIN d \ {q \in DOMAIN d : IsPrefix(p, q)}
             n == [q \in D |-> d[q]]
  <1>1. D \subseteq DOMAIN d /\ DOMAIN d \subseteq Paths /\ DOMAIN n = D /\ n \in [D -> Nodes]
    BY DEF IsDirectory, Nodes
  <1>2. IsFiniteSet(D)
    BY <1>1, FS_Subset DEF IsDirectory
  <1>3. ASSUME NEW q \in D, NEW r \in Above(q)
        PROVE  r \in D /\ n[r] = Dir
    <2>1. r \in DOMAIN d /\ d[r] = Dir
      BY <1>1, <1>3 DEF IsDirectory
    <2>2. ~IsPrefix(p, r)
      <3>1. IsPrefix(p, r) => p = r \/ p \in Above(r)
        BY <1>1, <2>1, AboveIsPrefix
      <3>2. p = r \/ p \in Above(r) => p \in Above(q)
        BY <1>1, <1>3, AboveAbove
      <3>3. p \in Above(q) => IsPrefix(p, q)
        BY <1>1, AboveIsPrefix
      <3> QED
        BY <3>1, <3>2, <3>3
    <2> QED
      BY <2>1, <2>2
  <1> HIDE DEF n, D
  <1>4. IsDirectory(n)
    BY <1>1, <1>2, <1>3 DEF IsDirectory, Nodes
  <1> QED
    BY <1>4 DEF n, D

-----------------------------------------------------------------------------
(* How much is in a directory.                                             *)

Sizes(d) == [p \in DOMAIN d |-> d[p].size]

\* The sizes and the number of the files in a directory.
LEMMA TotalFacts ==
    ASSUME NEW d, IsDirectory(d)
    PROVE  /\ IsFiniteSet(Files(d)) /\ Cardinality(Files(d)) \in Nat
           /\ Files(d) \subseteq Paths /\ Files(d) \subseteq DOMAIN d
           /\ \A p \in DOMAIN d : Sizes(d)[p] \in Nat
           /\ IsFiniteSet(Units(Sizes(d), Files(d)))
           /\ Total(d) = Weight(Sizes(d), Files(d)) /\ Total(d) \in Nat
  <1>1. Files(d) \subseteq DOMAIN d /\ Files(d) \subseteq Paths /\ IsFiniteSet(DOMAIN d)
    BY DEF Files, IsDirectory
  <1>2. IsFiniteSet(Files(d))
    BY <1>1, FS_Subset
  <1>3. \A p \in DOMAIN d : d[p].size \in Nat /\ Sizes(d)[p] = d[p].size
    BY DEF IsDirectory, Nodes, Sizes
  <1>4. Total(d) = Weight([p \in Files(d) |-> d[p].size], Files(d))
    BY <1>1, <1>2, <1>3, FoldOfSet DEF Total
  <1>5. Weight([p \in Files(d) |-> d[p].size], Files(d)) = Weight(Sizes(d), Files(d))
    <2> DEFINE v == [p \in Files(d) |-> d[p].size]
    <2>1. \A p \in Files(d) : v[p] = Sizes(d)[p]
      BY <1>1, <1>3
    <2> HIDE DEF v
    <2>2. Weight(v, Files(d)) = Weight(Sizes(d), Files(d))
      BY <2>1, WeightSame
    <2> QED
      BY <2>2 DEF v
  <1>6. \A p \in Files(d) : Sizes(d)[p] \in Nat
    BY <1>1, <1>3
  <1>7. IsFiniteSet(Units(Sizes(d), Files(d))) /\ Weight(Sizes(d), Files(d)) \in Nat
    BY <1>2, <1>6, WeightNat
  <1> QED
    BY <1>1, <1>2, <1>3, <1>4, <1>5, <1>7, FS_CardinalityType

\* A file that takes its place adds its size, or less if it replaces another one.
LEMMA StoreTotal ==
    ASSUME NEW d, IsDirectory(d), NEW p \in Paths, CanHold(d, p),
           p \in DOMAIN d => d[p] # Dir, NEW f \in Nodes, f # Dir
    PROVE  LET n == Store(d, p, f) IN
           /\ Files(n) = Files(d) \union {p}
           /\ Total(n) <= Total(d) + f.size
           /\ Cardinality(Files(n)) <= Cardinality(Files(d)) + 1
           /\ p \notin Files(d) => /\ Total(n) = Total(d) + f.size
                                  /\ Cardinality(Files(n)) = Cardinality(Files(d)) + 1
  <1> DEFINE n == Store(d, p, f)
             D == DOMAIN d \union Above(p) \union {p}
             rest == Files(d) \ {p}
  <1>1. /\ DOMAIN n = D
        /\ \A q \in D : n[q] = IF q = p THEN f ELSE IF q \in DOMAIN d THEN d[q] ELSE Dir
    BY DEF Store
  <1>2. IsDirectory(n)
    BY StoreDirectory
  <1>3. Files(n) = Files(d) \union {p}
    BY <1>1 DEF Files
  <1>4. f.size \in Nat
    BY DEF Nodes
  <1>5. Sizes(n)[p] = f.size /\ \A q \in rest : Sizes(n)[q] = Sizes(d)[q]
    BY <1>1 DEF Sizes, Files
  <1>6. Files(n) = rest \union {p} /\ p \notin rest /\ rest \subseteq Files(d)
    BY <1>3
  <1> HIDE DEF n, rest
  <1>7. /\ IsFiniteSet(Units(Sizes(d), rest))
        /\ Weight(Sizes(d), rest) <= Weight(Sizes(d), Files(d))
    BY <1>6, TotalFacts, WeightLess
  <1>8. Units(Sizes(n), rest) = Units(Sizes(d), rest) /\ Weight(Sizes(n), rest) = Weight(Sizes(d), rest)
    BY <1>5, WeightSame
  <1>9. Weight(Sizes(n), Files(n)) = Weight(Sizes(n), rest) + f.size
    BY <1>4, <1>5, <1>6, <1>7, <1>8, WeightAdd
  <1>10. Total(n) = Weight(Sizes(d), rest) + f.size
    BY <1>2, <1>8, <1>9, TotalFacts
  <1>11. Cardinality(Files(n)) = IF p \in Files(d) THEN Cardinality(Files(d)) ELSE Cardinality(Files(d)) + 1
    BY <1>3, TotalFacts, FS_AddElement
  <1>12. /\ Total(d) = Weight(Sizes(d), Files(d)) /\ Total(d) \in Nat /\ Cardinality(Files(d)) \in Nat
         /\ Weight(Sizes(d), rest) \in Nat
    BY <1>7, TotalFacts, FS_CardinalityType DEF Weight
  <1>13. p \notin Files(d) => rest = Files(d)
    BY DEF rest
  <1>14. /\ Total(n) <= Total(d) + f.size
         /\ Cardinality(Files(n)) <= Cardinality(Files(d)) + 1
    BY <1>4, <1>7, <1>10, <1>11, <1>12
  <1>15. p \notin Files(d) => /\ Total(n) = Total(d) + f.size
                             /\ Cardinality(Files(n)) = Cardinality(Files(d)) + 1
    BY <1>10, <1>11, <1>12, <1>13
  <1> QED
    BY <1>3, <1>14, <1>15 DEF n

\* An empty directory.
LEMMA NothingFacts ==
    /\ IsDirectory(Nothing) /\ DOMAIN Nothing = {} /\ Files(Nothing) = {}
    /\ Total(Nothing) = 0 /\ Cardinality(Files(Nothing)) = 0
  <1>1. DOMAIN Nothing = {}
    BY DEF Nothing
  <1>2. Files(Nothing) = {}
    BY <1>1 DEF Files
  <1>3. IsDirectory(Nothing)
    <2>1. Nothing \in [DOMAIN Nothing -> Nodes]
      BY DEF Nothing
    <2> QED
      BY <1>1, <2>1, FS_EmptySet DEF IsDirectory
  <1>4. Total(Nothing) = Weight(Sizes(Nothing), {})
    BY <1>2, <1>3, TotalFacts
  <1> QED
    BY <1>1, <1>2, <1>3, <1>4, WeightEmpty, FS_EmptySet

-----------------------------------------------------------------------------
(* Sorted listings.                                                        *)

\* A sorted listing has every name once.
LEMMA InOrderBijection ==
    ASSUME NEW P \in SUBSET Paths, IsFiniteSet(P)
    PROVE  /\ Cardinality(P) \in Nat
           /\ InOrder(P) \in Bijection(1..Cardinality(P), P)
  <1> DEFINE n == Cardinality(P)
             B(p) == {q \in P : Rank[q] < Rank[p]}
             f == [p \in P |-> Cardinality(B(p)) + 1]
             I == 1..n
  <1>1. n \in Nat
    BY FS_CardinalityType
  <1>2. \A p \in P : Rank[p] \in Nat
    BY TransferPathsAssumption
  <1>3. \A p \in P : IsFiniteSet(B(p)) /\ Cardinality(B(p)) \in Nat
    <2> TAKE p \in P
    <2>1. B(p) \in SUBSET P
      OBVIOUS
    <2> HIDE DEF B
    <2> QED
      BY <2>1, FS_Subset, FS_CardinalityType
  \* Before each name come less than all of them.
  <1>4. ASSUME NEW p \in P
        PROVE  f[p] \in I
    <2>1. B(p) \in SUBSET P /\ p \notin B(p)
      BY <1>2
    <2>2. Cardinality(B(p)) <= n /\ Cardinality(B(p)) # n
      <3> HIDE DEF B
      <3> QED
        BY <1>4, <2>1, FS_Subset
    <2>3. Cardinality(B(p)) \in Nat
      BY <1>3
    <2>4. f[p] = Cardinality(B(p)) + 1
      OBVIOUS
    <2> HIDE DEF f, B, n
    <2> QED
      BY <1>1, <2>2, <2>3, <2>4
  \* A name has more before it than one that is before it.
  <1>5. ASSUME NEW p \in P, NEW q \in P, Rank[p] < Rank[q]
        PROVE  f[p] # f[q]
    <2>1. B(p) \in SUBSET B(q) /\ p \in B(q) /\ p \notin B(p)
      BY <1>2, <1>5
    <2>2. f[p] = Cardinality(B(p)) + 1 /\ f[q] = Cardinality(B(q)) + 1
      OBVIOUS
    <2> HIDE DEF B, f
    <2>3. Cardinality(B(p)) # Cardinality(B(q))
      BY <1>3, <2>1, FS_Subset
    <2> QED
      BY <1>3, <2>2, <2>3
  <1>6. f \in Injection(P, I)
    <2>1. \A p, q \in P : f[p] = f[q] => p = q
      <3> SUFFICES ASSUME NEW p \in P, NEW q \in P, f[p] = f[q], p # q PROVE FALSE
        OBVIOUS
      <3>1. Rank[p] # Rank[q]
        BY TransferPathsAssumption
      <3>2. Rank[p] < Rank[q] \/ Rank[q] < Rank[p]
        BY <1>2, <3>1
      <3> HIDE DEF f
      <3> QED
        BY <1>5, <3>2
    <2>2. f \in [P -> I]
      BY <1>4
    <2>3. DOMAIN f = P
      OBVIOUS
    <2> HIDE DEF f
    <2> QED
      BY <2>1, <2>2, <2>3 DEF Injection, IsInjective
  <1>7. IsFiniteSet(I) /\ Cardinality(I) = n
    <2> HIDE DEF n
    <2>1. IsFiniteSet(1..n) /\ Cardinality(1..n) = IF 1 > n THEN 0 ELSE n - 1 + 1
      BY <1>1, FS_Interval
    <2> QED
      BY <1>1, <2>1
  <1>8. f \in Surjection(P, I)
    <2> HIDE DEF f, I
    <2> QED
      BY <1>6, <1>7, FS_Injection
  <1>9. ASSUME NEW i \in I
        PROVE  InOrder(P)[i] \in P /\ f[InOrder(P)[i]] = i
    <2>1. InOrder(P)[i] = CHOOSE p \in P : Cardinality({q \in P : Rank[q] < Rank[p]}) = i - 1
      BY DEF InOrder
    <2>2. PICK p \in P : f[p] = i
      BY <1>8 DEF Surjection
    <2>3. Cardinality(B(p)) = i - 1
      <3>1. f[p] = Cardinality(B(p)) + 1 /\ Cardinality(B(p)) \in Nat
        BY <1>3
      <3> HIDE DEF f, B
      <3> QED
        BY <2>2, <3>1
    <2>4. InOrder(P)[i] \in P /\ Cardinality(B(InOrder(P)[i])) = i - 1
      BY <2>1, <2>3
    <2>5. i \in Int
      BY <1>1
    <2> QED
      BY <2>4, <2>5
  <1> DEFINE o == InOrder(P)
  <1>10. o \in [I -> P] /\ DOMAIN o = I
    <2> DEFINE g(i) == CHOOSE p \in P : Cardinality({q \in P : Rank[q] < Rank[p]}) = i - 1
    <2>1. o = [i \in I |-> g(i)]
      BY DEF InOrder
    <2> HIDE DEF o, f, I, g
    <2>2. DOMAIN o = I /\ o = [i \in I |-> o[i]]
      BY <2>1
    <2>3. \A i \in I : o[i] \in P
      BY <1>9 DEF o
    <2> HIDE DEF B, n
    <2> QED
      BY <2>2, <2>3
  <1>11. \A i, j \in I : o[i] = o[j] => i = j
    <2> HIDE DEF f, I
    <2> QED
      BY <1>9
  <1>12. \A p \in P : \E i \in I : o[i] = p
    <2> TAKE p \in P
    <2>1. f[p] \in I
      BY <1>4
    <2>2. o[f[p]] \in P /\ f[o[f[p]]] = f[p]
      BY <1>9, <2>1
    <2>3. o[f[p]] = p
      <3> HIDE DEF f, o
      <3> QED
        BY <1>6, <2>2 DEF Injection, IsInjective
    <2> QED
      BY <2>1, <2>3
  <1> HIDE DEF o
  <1>13. o \in Bijection(I, P)
    BY <1>10, <1>11, <1>12 DEF Bijection, Injection, Surjection, IsInjective
  <1> QED
    BY <1>1, <1>13 DEF o

\* The first of a sorted listing is in it.
LEMMA HeadInOrder ==
    ASSUME NEW P \in SUBSET Paths, IsFiniteSet(P), P # {}
    PROVE  Head(InOrder(P)) \in P
  <1>1. Cardinality(P) \in Nat /\ InOrder(P) \in [1..Cardinality(P) -> P]
    BY InOrderBijection DEF Bijection, Injection
  <1>2. Cardinality(P) # 0
    BY FS_EmptySet
  <1>3. 1 \in 1..Cardinality(P)
    BY <1>1, <1>2
  <1>4. InOrder(P) \in Seq(P) /\ InOrder(P)[1] \in P
    BY <1>1, <1>3
  <1> QED
    BY <1>4

\* A listing of names and its properties.
LEMMA ListedFacts ==
    ASSUME NEW P \in SUBSET Paths, IsFiniteSet(P), NEW m \in BOOLEAN
    PROVE  /\ Listed(P, m) \in Seq([path : Paths, made : BOOLEAN])
           /\ Listed(P, m) \in Seq([path : P, made : {m}])
           /\ \A i, j \in DOMAIN Listed(P, m) : Listed(P, m)[i].path = Listed(P, m)[j].path => i = j
           /\ \A p \in P : \E i \in DOMAIN Listed(P, m) : Listed(P, m)[i].path = p
  <1> DEFINE n == Cardinality(P)
             o == InOrder(P)
             l == [i \in 1..n |-> [path |-> o[i], made |-> m]]
  <1>1. n \in Nat /\ o \in Bijection(1..n, P)
    BY InOrderBijection
  <1>2. Listed(P, m) = l
    BY DEF Listed
  <1> HIDE DEF n, o
  <1>3. /\ \A i \in 1..n : o[i] \in P
        /\ \A i, j \in 1..n : o[i] = o[j] => i = j
        /\ \A p \in P : \E i \in 1..n : o[i] = p
    BY <1>1 DEF Bijection, Injection, Surjection, IsInjective
  <1>4. DOMAIN l = 1..n /\ \A i \in 1..n : l[i] = [path |-> o[i], made |-> m]
    OBVIOUS
  <1>5. l \in Seq([path : P, made : {m}]) /\ l \in Seq([path : Paths, made : BOOLEAN])
    BY <1>1, <1>3
  <1> HIDE DEF l
  <1> QED
    BY <1>2, <1>3, <1>4, <1>5

-----------------------------------------------------------------------------
(* Archives, and what every variable holds.                                *)

Items   == [path : Paths, size : Nat]
Members == [path : Paths, made : BOOLEAN]
Bundled == [path : Paths, file : Nodes]

\* What a sequence holds.
LEMMA SeqHolds ==
    ASSUME NEW S, NEW s \in Seq(S)
    PROVE  /\ Len(s) \in Nat /\ DOMAIN s = 1..Len(s)
           /\ \A i \in DOMAIN s : s[i] \in S
  OBVIOUS

\* The entries of an archive as the collectors hand them on.
LEMMA RawFacts ==
    ASSUME NEW a, IsArchive(a)
    PROVE  LET R == RawEntries(a) IN
           /\ Len(R) \in Nat /\ DOMAIN R = 1..Len(R) /\ DOMAIN R = DOMAIN a.entries
           /\ \A i \in DOMAIN R : R[i].size \in Nat /\ R[i].size = a.entries[i].size
           /\ \A i \in DOMAIN R : ~Faulty(R[i]) /\ Allowed(Normal(R[i].name)) => Normal(R[i].name) \in Paths
  <1> DEFINE E == a.entries
  <1>1. /\ E \in Seq([name : Seq(STRING), kind : {"file", "dir", "symlink"}, size : Nat, packed : Nat])
        /\ a.format = "gz" => Len(E) = 1
    BY DEF IsArchive
  <1>2. \A i \in DOMAIN RawEntries(a) : ~Faulty(RawEntries(a)[i]) /\ Allowed(Normal(RawEntries(a)[i].name))
                                          => Normal(RawEntries(a)[i].name) \in Paths
    BY DEF IsArchive
  <1> DEFINE Es == [name : Seq(STRING), kind : {"file", "dir", "symlink"}, size : Nat, packed : Nat]
  <1>3. /\ Len(E) \in Nat /\ DOMAIN E = 1..Len(E)
        /\ \A i \in DOMAIN E : E[i] \in Es /\ E[i].size \in Nat
    <2>1. /\ Len(E) \in Nat /\ DOMAIN E = 1..Len(E)
          /\ \A i \in DOMAIN E : E[i] \in Es
      <3> HIDE DEF Es
      <3> QED
        BY <1>1, SeqHolds DEF Es
    <2> QED
      BY <2>1
  <1>4. CASE a.format = "gz"
    <2> DEFINE e == [Head(E) EXCEPT !.name = GzipName(@)]
    <2>1. RawEntries(a) = <<e>>
      BY <1>4 DEF RawEntries
    <2>2. Head(E) = E[1] /\ E[1] \in Es
      <3>1. Head(E) = E[1]
        OBVIOUS
      <3>2. 1 \in DOMAIN E
        BY <1>1, <1>3, <1>4
      <3> HIDE DEF Es
      <3> QED
        BY <1>3, <3>1, <3>2
    <2>3. e.size = E[1].size
      BY <2>2
    <2> HIDE DEF e
    <2>4. Len(<<e>>) = 1 /\ DOMAIN <<e>> = {1} /\ <<e>>[1] = e /\ 1..1 = {1}
      OBVIOUS
    <2> HIDE DEF E
    <2> QED
      BY <1>1, <1>2, <1>3, <1>4, <2>1, <2>3, <2>4 DEF E
  <1>5. CASE a.format # "gz"
    <2>1. RawEntries(a) = E
      BY <1>5 DEF RawEntries
    <2> QED
      BY <1>2, <1>3, <2>1
  <1> QED
    BY <1>4, <1>5

\* The bytes staged are a number.
LEMMA StagedBytes ==
    ASSUME staged \in Seq(Items)
    PROVE  LET w == [k \in DOMAIN staged |-> staged[k].size] IN
           /\ \A k \in DOMAIN staged : w[k] \in Nat
           /\ IsFiniteSet(DOMAIN staged)
           /\ FoldLeft(LAMBDA n, i : n + i.size, 0, staged) = Weight(w, DOMAIN staged)
           /\ FoldLeft(LAMBDA n, i : n + i.size, 0, staged) \in Nat
  <1> DEFINE n == Len(staged)
             w == [k \in 1..n |-> staged[k].size]
  <1>1. n \in Nat /\ DOMAIN staged = 1..n /\ \A k \in 1..n : staged[k].size \in Nat
    <2>1. n \in Nat /\ DOMAIN staged = 1..n /\ \A k \in 1..n : staged[k] \in Items
      BY SeqHolds
    <2> QED
      BY <2>1 DEF Items
  <1>2. \A k \in 1..n : w[k] \in Nat
    BY <1>1
  <1>3. FoldLeft(LAMBDA m, x : m + x.size, 0, staged) = Weight(w, 1..n)
    <2> HIDE DEF n
    <2> QED
      BY <1>1, FoldOfSizes
  <1>4. IsFiniteSet(1..n)
    BY <1>1, FS_Interval
  <1>5. Weight(w, 1..n) \in Nat
    <2> HIDE DEF w, n
    <2> QED
      BY <1>2, <1>4, WeightNat
  <1> QED
    BY <1>1, <1>2, <1>3, <1>4, <1>5

Typed ==
    /\ mode \in {"import", "skip", "overwrite"}
    /\ at \in {"open", "plan", "write", "stage", "promote", "done", "refused", "zip", "failed",
               "bundled"}
    /\ IsArchive(archive)
    /\ next \in Nat \ {0} /\ total \in Nat
    /\ IsDirectory(disk) /\ IsDirectory(before) /\ touched \subseteq Paths
    /\ plan \in Seq(Items) /\ staged \in Seq(Items)
    /\ counted \in [bytes : Nat, files : Nat]
    /\ names \in Seq(Members) /\ bundle \in Seq(Bundled)

\* The invariant is stronger than the type invariant.
LEMMA TypedTypeOK == Typed => TypeOK
  <1> SUFFICES ASSUME Typed PROVE TypeOK
    OBVIOUS
  <1>1. archive.format \in Formats
    BY DEF Typed, IsArchive
  <1>2. Planned \subseteq Paths
    <2>1. \A i \in DOMAIN plan : plan[i] \in Items
      BY SeqHolds DEF Typed
    <2> QED
      BY <2>1 DEF Planned, Items
  <1> QED
    BY <1>1, <1>2 DEF Typed, TypeOK

\* It holds at first.
LEMMA TypedInit == Init => Typed
  <1> SUFFICES ASSUME Init PROVE Typed
    OBVIOUS
  <1>1. IsDirectory(disk)
    BY NothingFacts, TransferSeedsAssumption DEF Init
  <1>2. IsArchive(archive)
    BY TransferInputsAssumption DEF Init
  <1>3. counted \in [bytes : Nat, files : Nat]
    BY <1>1, TotalFacts DEF Init
  <1> QED
    BY <1>1, <1>2, <1>3 DEF Init, Typed

\* What is written in the session's directory while the archive is refused.
LEMMA RefuseTyped ==
    ASSUME Typed, Refuse, staged' \in Seq(Items)
    PROVE  Typed'
  <1>1. /\ mode' = mode /\ archive' = archive /\ at' = "refused" /\ next' = next /\ total' = total
        /\ plan' = plan /\ before' = before /\ touched' = touched /\ names' = names
        /\ bundle' = bundle
        /\ \/ disk' = disk /\ counted' = counted
           \/ disk' = Nothing /\ counted' = [bytes |-> 0, files |-> 0]
    BY DEF Refuse, planVars, zipVars, pastVars
  <1>2. IsDirectory(disk') /\ counted' \in [bytes : Nat, files : Nat]
    BY <1>1, NothingFacts DEF Typed
  <1> QED
    BY <1>1, <1>2 DEF Typed

\* The entry in hand, if it may be unpacked.
LEMMA EntryFacts ==
    ASSUME Typed, next <= Len(RawEntries(archive))
    PROVE  /\ next \in DOMAIN RawEntries(archive)
           /\ Entry = RawEntries(archive)[next] /\ Entry.size \in Nat
           /\ ~Faulty(Entry) /\ Allowed(Normal(Entry.name)) => Normal(Entry.name) \in Paths
  <1>1. next \in 1..Len(RawEntries(archive))
    BY RawFacts DEF Typed
  <1> QED
    BY <1>1, RawFacts DEF Typed, Entry

\* The items in hand.
LEMMA ItemFacts ==
    ASSUME Typed
    PROVE  /\ Len(plan) \in Nat /\ DOMAIN plan = 1..Len(plan)
           /\ Len(staged) \in Nat /\ DOMAIN staged = 1..Len(staged)
           /\ \A k \in DOMAIN plan : plan[k] \in Items /\ plan[k].path \in Paths /\ plan[k].size \in Nat
           /\ \A k \in DOMAIN staged : staged[k] \in Items /\ staged[k].path \in Paths /\ staged[k].size \in Nat
           /\ next <= Len(plan) => next \in DOMAIN plan
           /\ next <= Len(staged) => next \in DOMAIN staged
  <1>1. /\ Len(plan) \in Nat /\ DOMAIN plan = 1..Len(plan) /\ \A k \in DOMAIN plan : plan[k] \in Items
        /\ Len(staged) \in Nat /\ DOMAIN staged = 1..Len(staged) /\ \A k \in DOMAIN staged : staged[k] \in Items
    BY SeqHolds DEF Typed
  <1>2. next \in Nat \ {0}
    BY DEF Typed
  <1>3. \A i \in Items : i.path \in Paths /\ i.size \in Nat
    BY DEF Items
  <1> QED
    BY <1>1, <1>2, <1>3

\* Opening the archive.
LEMMA OpenTyped == Typed /\ Open => Typed'
  <1> SUFFICES ASSUME Typed, Open PROVE Typed'
    OBVIOUS
  <1>1. CASE Refuse
    <2>1. staged' \in Seq(Items)
      BY DEF Open, Typed
    <2> QED
      BY <1>1, <2>1, RefuseTyped
  <1>2. CASE ~Refuse
    BY <1>2 DEF Open, Typed, planVars, zipVars, pastVars
  <1> QED
    BY <1>1, <1>2

\* The steps of build_plan.
LEMMA PlannerTyped == Typed /\ Planner => Typed'
  <1> SUFFICES ASSUME Typed, Planner PROVE Typed'
    OBVIOUS
  <1>1. next + 1 \in Nat \ {0} /\ 1 \in Nat \ {0}
    BY DEF Typed
  <1>2. CASE PlanDir
    BY <1>1, <1>2 DEF PlanDir, PlanNext, Typed, planVars, zipVars, pastVars
  <1>3. CASE PlanDrop
    BY <1>1, <1>3 DEF PlanDrop, PlanNext, Typed, planVars, zipVars, pastVars
  <1>4. CASE PlanTake
    <2> DEFINE e == [path |-> Normal(Entry.name), size |-> Entry.size]
    <2>1. /\ plan' = Append(plan, e) /\ total' = total + Entry.size
          /\ next <= Len(RawEntries(archive)) /\ ~Faulty(Entry) /\ Allowed(Normal(Entry.name))
      BY <1>4 DEF PlanTake, Planning
    <2>2. e \in Items /\ total' \in Nat
      <3>1. Normal(Entry.name) \in Paths /\ Entry.size \in Nat
        BY <2>1, EntryFacts
      <3>2. total \in Nat
        BY DEF Typed
      <3> QED
        BY <2>1, <3>1, <3>2 DEF Items
    <2> HIDE DEF e
    <2>3. plan' \in Seq(Items)
      BY <2>1, <2>2 DEF Typed
    <2>4. /\ mode' = mode /\ archive' = archive /\ at' = at /\ next' = next + 1
          /\ disk' = disk /\ staged' = staged /\ counted' = counted /\ before' = before
          /\ touched' = touched /\ names' = names /\ bundle' = bundle
      BY <1>4 DEF PlanTake, PlanNext, zipVars, pastVars
    <2> QED
      BY <1>1, <2>2, <2>3, <2>4 DEF Typed
  <1>5. CASE PlanRefuse
    <2>1. staged' \in Seq(Items)
      BY <1>5 DEF PlanRefuse, Typed
    <2> QED
      BY <1>5, <2>1, RefuseTyped DEF PlanRefuse
  <1>6. CASE PlanDone
    BY <1>1, <1>6 DEF PlanDone, Typed, planVars, zipVars, pastVars
  <1> QED
    BY <1>2, <1>3, <1>4, <1>5, <1>6 DEF Planner

\* A file of an archive, or another request's, takes its place.
LEMMA FileNodes ==
    /\ \A n \in Nat : /\ File("archive", n) \in Nodes /\ File("archive", n) # Dir
                      /\ File("archive", n).size = n /\ File("archive", n).by = "archive"
    /\ File("other", 1) \in Nodes /\ File("other", 1) # Dir
    /\ File("server", 1) \in Nodes /\ File("server", 1) # Dir
    /\ Dir \in Nodes
  BY DEF File, Nodes, Dir

\* The steps of unpack_into.
LEMMA UnpackerTyped == Typed /\ Unpacker => Typed'
  <1> SUFFICES ASSUME Typed, Unpacker PROVE Typed'
    OBVIOUS
  <1>1. next + 1 \in Nat \ {0}
    BY DEF Typed
  <1>2. CASE WriteEntry
    <2>1. /\ next \in DOMAIN plan /\ Fresh(plan[next].path)
          /\ disk' = Store(disk, plan[next].path, File("archive", plan[next].size))
          /\ counted' = [bytes |-> counted.bytes + plan[next].size, files |-> counted.files + 1]
          /\ next' = next + 1
          /\ mode' = mode /\ archive' = archive /\ at' = at /\ total' = total /\ plan' = plan
          /\ staged' = staged /\ before' = before /\ touched' = touched /\ names' = names
          /\ bundle' = bundle
      BY <1>2, ItemFacts DEF WriteEntry, Item, More, planVars, zipVars, pastVars
    <2>2. plan[next].path \in Paths /\ plan[next].size \in Nat
      BY <2>1, ItemFacts
    <2>3. IsDirectory(disk')
      BY <2>1, <2>2, FileNodes, StoreDirectory DEF Fresh, Typed
    <2>4. counted' \in [bytes : Nat, files : Nat]
      BY <2>1, <2>2 DEF Typed
    <2> QED
      BY <1>1, <2>1, <2>3, <2>4 DEF Typed
  <1>3. CASE WriteFail
    <2>1. staged' \in Seq(Items)
      BY <1>3 DEF WriteFail, Typed
    <2> QED
      BY <1>3, <2>1, RefuseTyped DEF WriteFail
  <1>4. CASE WriteDone
    BY <1>4 DEF WriteDone, Typed, planVars, zipVars, pastVars
  <1> QED
    BY <1>2, <1>3, <1>4 DEF Unpacker

\* The steps of unpack_overlay.
LEMMA OverlayTyped == Typed /\ Overlay => Typed'
  <1> SUFFICES ASSUME Typed, Overlay PROVE Typed'
    OBVIOUS
  <1>1. next + 1 \in Nat \ {0} /\ 1 \in Nat \ {0} /\ <<>> \in Seq(Items)
    BY DEF Typed
  <1>2. CASE StageSkip
    BY <1>1, <1>2 DEF StageSkip, Typed, planVars, zipVars, pastVars
  <1>3. CASE StageEntry
    <2>1. /\ next \in DOMAIN plan /\ staged' = Append(staged, plan[next]) /\ next' = next + 1
          /\ mode' = mode /\ archive' = archive /\ at' = at /\ total' = total /\ plan' = plan
          /\ disk' = disk /\ counted' = counted /\ before' = before /\ touched' = touched
          /\ names' = names /\ bundle' = bundle
      BY <1>3, ItemFacts DEF StageEntry, Item, More, planVars, zipVars, pastVars
    <2>2. plan[next] \in Items
      BY <2>1, ItemFacts
    <2>3. staged' \in Seq(Items)
      BY <2>1, <2>2 DEF Typed
    <2> QED
      BY <1>1, <2>1, <2>3 DEF Typed
  <1>4. CASE StageDone
    BY <1>1, <1>4 DEF StageDone, Typed, planVars, zipVars, pastVars
  <1>5. CASE Promote
    <2>1. /\ next \in DOMAIN staged /\ Placeable(staged[next].path)
          /\ disk' = Store(disk, staged[next].path, File("archive", staged[next].size))
          /\ next' = next + 1
          /\ mode' = mode /\ archive' = archive /\ at' = at /\ total' = total /\ plan' = plan
          /\ staged' = staged /\ counted' = counted /\ before' = before /\ touched' = touched
          /\ names' = names /\ bundle' = bundle
      BY <1>5, ItemFacts DEF Promote, Promoting, planVars, zipVars, pastVars
    <2>2. staged[next].path \in Paths /\ staged[next].size \in Nat
      BY <2>1, ItemFacts
    <2>3. IsDirectory(disk')
      BY <2>1, <2>2, FileNodes, StoreDirectory DEF Placeable, Typed
    <2> QED
      BY <1>1, <2>1, <2>3 DEF Typed
  <1>6. CASE OverlayFail
    BY <1>1, <1>6, RefuseTyped DEF OverlayFail
  <1>7. CASE OverlayDone
    <2>1. /\ counted' = [bytes |-> counted.bytes + FoldLeft(LAMBDA n, i : n + i.size, 0, staged),
                         files |-> counted.files + Len(staged)]
          /\ staged' = <<>> /\ at' = "done"
          /\ mode' = mode /\ archive' = archive /\ next' = next /\ total' = total /\ plan' = plan
          /\ disk' = disk /\ before' = before /\ touched' = touched /\ names' = names /\ bundle' = bundle
      BY <1>7 DEF OverlayDone, planVars, zipVars, pastVars
    <2> DEFINE sum == FoldLeft(LAMBDA n, i : n + i.size, 0, staged)
    <2>2. sum \in Nat /\ Len(staged) \in Nat
      BY StagedBytes, ItemFacts DEF Typed
    <2>3. counted.bytes \in Nat /\ counted.files \in Nat
      BY DEF Typed
    <2>4. counted' \in [bytes : Nat, files : Nat]
      <3>1. counted' = [bytes |-> counted.bytes + sum, files |-> counted.files + Len(staged)]
        BY <2>1
      <3> HIDE DEF sum
      <3> QED
        BY <2>2, <2>3, <3>1
    <2> QED
      BY <1>1, <2>1, <2>4 DEF Typed
  <1> QED
    BY <1>2, <1>3, <1>4, <1>5, <1>6, <1>7 DEF Overlay

\* Another request writes or deletes.
LEMMA OthersTyped ==
    ASSUME Typed, NEW p \in Paths, OtherPut(p) \/ OtherDelete(p)
    PROVE  Typed'
  <1>1. /\ mode' = mode /\ archive' = archive /\ at' = at /\ next' = next /\ total' = total
        /\ plan' = plan /\ staged' = staged /\ counted' = counted /\ before' = before
        /\ names' = names /\ bundle' = bundle
    BY DEF OtherPut, OtherDelete, planVars, zipVars
  <1>2. CASE OtherPut(p)
    <2>1. disk' = Store(disk, p, File("other", 1)) /\ touched' = touched \union {p} /\ Placeable(p)
      BY <1>2 DEF OtherPut
    <2>2. IsDirectory(disk')
      BY <2>1, FileNodes, StoreDirectory DEF Placeable, Typed
    <2> QED
      BY <1>1, <2>1, <2>2 DEF Typed
  <1>3. CASE OtherDelete(p)
    <2> DEFINE gone == {q \in DOMAIN disk : IsPrefix(p, q)}
    <2>1. /\ disk' = [q \in DOMAIN disk \ gone |-> disk[q]] /\ touched' = touched \union gone
          /\ p \in DOMAIN disk
      BY <1>3 DEF OtherDelete
    <2>2. IsDirectory(disk')
      BY <2>1, RemoveDirectory DEF Typed
    <2>3. gone \subseteq Paths
      BY DEF Typed, IsDirectory
    <2> HIDE DEF gone
    <2> QED
      BY <1>1, <2>1, <2>2, <2>3 DEF Typed
  <1> QED
    BY <1>2, <1>3

-----------------------------------------------------------------------------
(* Exports.                                                                *)

Exported == {p \in Files(disk) : ~Scratch(p)}

\* The names of an export: the session's files and the generated ones, each once.
LEMMA NamesFacts ==
    ASSUME Typed, NEW X \in SUBSET Paths, IsFiniteSet(X)
    PROVE  LET N == Names(X) IN
           /\ N \in Seq(Members)
           /\ \A i, j \in DOMAIN N : N[i].path = N[j].path => i = j
           /\ \A i \in DOMAIN N : IF N[i].made THEN N[i].path \in X ELSE N[i].path \in Exported \ X
           /\ \A p \in Exported \union X : \E i \in DOMAIN N : N[i].path = p
  <1> DEFINE A == Exported \ X
             s == Listed(A, FALSE)
             t == Listed(X, TRUE)
             N == s \o t
             m == Len(s)
  <1>1. Names(X) = N
    BY DEF Names, Exported
  <1>2. A \in SUBSET Paths /\ IsFiniteSet(A)
    <2>1. A \subseteq Files(disk) /\ Files(disk) \subseteq Paths /\ IsFiniteSet(Files(disk))
      BY TotalFacts DEF Exported, Typed
    <2> HIDE DEF A
    <2> QED
      BY <2>1, FS_Subset
  <1> HIDE DEF A
  <1>3. /\ s \in Seq(Members) /\ s \in Seq([path : A, made : {FALSE}])
        /\ \A i, j \in DOMAIN s : s[i].path = s[j].path => i = j
        /\ \A p \in A : \E i \in DOMAIN s : s[i].path = p
    BY <1>2, ListedFacts DEF Members
  <1>4. /\ t \in Seq(Members) /\ t \in Seq([path : X, made : {TRUE}])
        /\ \A i, j \in DOMAIN t : t[i].path = t[j].path => i = j
        /\ \A p \in X : \E i \in DOMAIN t : t[i].path = p
    BY ListedFacts DEF Members
  <1> HIDE DEF s, t
  <1>5. \A i \in DOMAIN s : s[i].path \in A /\ s[i].made = FALSE
    <2> DEFINE S == [path : A, made : {FALSE}]
    <2>1. \A i \in DOMAIN s : s[i] \in S
      <3> HIDE DEF S
      <3> QED
        BY <1>3, SeqHolds DEF S
    <2> QED
      BY <2>1
  <1>6. \A i \in DOMAIN t : t[i].path \in X /\ t[i].made = TRUE
    <2> DEFINE S == [path : X, made : {TRUE}]
    <2>1. \A i \in DOMAIN t : t[i] \in S
      <3> HIDE DEF S
      <3> QED
        BY <1>4, SeqHolds DEF S
    <2> QED
      BY <2>1
  <1>7. /\ N \in Seq(Members) /\ m \in Nat /\ DOMAIN s = 1..m /\ Len(t) \in Nat /\ DOMAIN t = 1..Len(t)
        /\ DOMAIN N = 1..(m + Len(t))
        /\ \A i \in DOMAIN s : i \in DOMAIN N /\ N[i] = s[i]
        /\ \A i \in DOMAIN t : m + i \in DOMAIN N /\ N[m + i] = t[i]
        /\ \A i \in DOMAIN N : i \in DOMAIN s \/ i - m \in DOMAIN t
    <2> HIDE DEF Members
    <2>1. m \in Nat /\ DOMAIN s = 1..m /\ Len(t) \in Nat /\ DOMAIN t = 1..Len(t)
      BY <1>3, <1>4
    <2>2. N \in Seq(Members) /\ Len(N) = m + Len(t) /\ DOMAIN N = 1..(m + Len(t))
      BY <1>3, <1>4
    <2>3. \A i \in 1..m : N[i] = s[i]
      BY <1>3, <1>4
    <2>4. \A i \in 1..Len(t) : N[m + i] = t[i]
      BY <1>3, <1>4
    <2> HIDE DEF N, m
    <2> QED
      BY <2>1, <2>2, <2>3, <2>4
  <1> HIDE DEF N, m
  <1>8. \A i \in DOMAIN N : \/ i \in DOMAIN s /\ N[i] = s[i]
                            \/ i - m \in DOMAIN t /\ N[i] = t[i - m]
    <2> TAKE i \in DOMAIN N
    <2>1. i \in Int /\ m + (i - m) = i
      BY <1>7
    <2> QED
      BY <1>7, <2>1
  <1>9. A \intersect X = {}
    BY DEF A
  <1>10. \A i \in DOMAIN N : IF N[i].made THEN N[i].path \in X ELSE N[i].path \in A
    BY <1>5, <1>6, <1>8
  <1>11. ASSUME NEW i \in DOMAIN N, NEW j \in DOMAIN N, N[i].path = N[j].path
         PROVE  i = j
    <2>1. CASE N[i].path \in A
      <3>1. i \in DOMAIN s /\ j \in DOMAIN s /\ N[i] = s[i] /\ N[j] = s[j]
        BY <1>6, <1>8, <1>9, <1>11, <2>1
      <3> QED
        BY <1>3, <1>11, <3>1
    <2>2. CASE N[i].path \notin A
      <3>1. i - m \in DOMAIN t /\ j - m \in DOMAIN t /\ N[i] = t[i - m] /\ N[j] = t[j - m]
        BY <1>5, <1>8, <1>11, <2>2
      <3>2. i - m = j - m
        BY <1>4, <1>11, <3>1
      <3> QED
        BY <1>7, <3>2
    <2> QED
      BY <2>1, <2>2
  <1>12. ASSUME NEW p \in Exported \union X
         PROVE  \E i \in DOMAIN N : N[i].path = p
    <2>1. CASE p \in X
      <3>1. PICK i \in DOMAIN t : t[i].path = p
        BY <1>4, <2>1
      <3> QED
        BY <1>7, <3>1
    <2>2. CASE p \in A
      <3>1. PICK i \in DOMAIN s : s[i].path = p
        BY <1>3, <2>2
      <3> QED
        BY <1>7, <3>1
    <2> QED
      BY <1>12, <2>1, <2>2 DEF A
  <1> QED
    BY <1>1, <1>7, <1>10, <1>11, <1>12 DEF A

\* The generated files are names, finitely many.
LEMMA OfflineFinite ==
    ASSUME NEW X \in {{}, OfflineSet}
    PROVE  X \in SUBSET Paths /\ IsFiniteSet(X)
  <1>1. OfflineSet \subseteq Paths
    BY TransferPathsAssumption
  <1>2. IsFiniteSet(OfflineSet)
    <2> DEFINE a == <<"index.html">>
               b == <<"css", "ar5iv.css">>
               c == <<"css", "ar5iv-fonts.css">>
    <2>1. OfflineSet = (({} \union {a}) \union {b}) \union {c}
      BY DEF OfflineSet
    <2> HIDE DEF a, b, c
    <2>2. IsFiniteSet((({} \union {a}) \union {b}) \union {c})
      BY FS_EmptySet, FS_AddElement
    <2> QED
      BY <2>1, <2>2
  <1> QED
    BY <1>1, <1>2, FS_EmptySet

\* The first of a listing, and the rest.
LEMMA HeadTail ==
    ASSUME NEW S, NEW s \in Seq(S), s # <<>>
    PROVE  /\ Head(s) = s[1] /\ Head(s) \in S /\ 1 \in DOMAIN s
           /\ Tail(s) \in Seq(S)
           /\ DOMAIN Tail(s) = {i \in DOMAIN s : i + 1 \in DOMAIN s}
           /\ \A i \in DOMAIN Tail(s) : Tail(s)[i] = s[i + 1]
           /\ \A i \in DOMAIN s : i = 1 \/ i - 1 \in DOMAIN Tail(s)
  <1>1. Len(s) \in Nat /\ DOMAIN s = 1..Len(s) /\ Len(s) # 0
    OBVIOUS
  <1>2. Tail(s) \in Seq(S) /\ Len(Tail(s)) = Len(s) - 1 /\ DOMAIN Tail(s) = 1..(Len(s) - 1)
    BY <1>1
  <1>3. \A i \in 1..(Len(s) - 1) : Tail(s)[i] = s[i + 1]
    BY <1>1
  <1>4. Head(s) = s[1] /\ 1 \in DOMAIN s /\ Head(s) \in S
    BY <1>1
  <1>5. DOMAIN Tail(s) = {i \in DOMAIN s : i + 1 \in DOMAIN s}
    BY <1>1, <1>2
  <1>6. \A i \in DOMAIN s : i = 1 \/ i - 1 \in DOMAIN Tail(s)
    BY <1>1, <1>2
  <1> QED
    BY <1>2, <1>3, <1>4, <1>5, <1>6

\* One file is read into the bundle.
Read(n) == [path |-> n.path, file |-> IF n.made THEN File("server", 1) ELSE disk[n.path]]

\* The bundle has one more file.
LEMMA AddFacts ==
    ASSUME Typed, ExportAdd
    PROVE  LET n == Head(names) IN
           /\ n \in Members /\ n = names[1] /\ (n.made \/ n.path \in Files(disk))
           /\ Read(n) \in Bundled
           /\ bundle' = Append(bundle, Read(n)) /\ bundle' \in Seq(Bundled)
           /\ names' = Tail(names) /\ names' \in Seq(Members) /\ names # <<>>
           /\ mode' = mode /\ archive' = archive /\ at = "zip" /\ at' = at /\ next' = next
           /\ total' = total /\ plan' = plan /\ disk' = disk /\ staged' = staged
           /\ counted' = counted /\ before' = before /\ touched' = touched
  <1> DEFINE n == Head(names)
  <1>1. /\ names # <<>> /\ (n.made \/ n.path \in Files(disk))
        /\ bundle' = Append(bundle, Read(n)) /\ names' = Tail(names)
        /\ mode' = mode /\ archive' = archive /\ at = "zip" /\ at' = at /\ next' = next
        /\ total' = total /\ plan' = plan /\ disk' = disk /\ staged' = staged
        /\ counted' = counted /\ before' = before /\ touched' = touched
    BY DEF ExportAdd, Read, planVars, pastVars
  <1>2. names \in Seq(Members) /\ bundle \in Seq(Bundled) /\ IsDirectory(disk)
    BY DEF Typed
  <1>3. n \in Members /\ n = names[1] /\ names' \in Seq(Members)
    BY <1>1, <1>2, HeadTail
  <1> HIDE DEF n
  <1>4. Read(n) \in Bundled
    <2>1. \A p \in Files(disk) : disk[p] \in Nodes
      BY <1>2 DEF IsDirectory, Files
    <2>2. n.path \in Paths
      BY <1>3 DEF Members
    <2>3. (IF n.made THEN File("server", 1) ELSE disk[n.path]) \in Nodes
      BY <1>1, <2>1, FileNodes
    <2> QED
      BY <2>2, <2>3 DEF Read, Bundled
  <1>5. bundle' \in Seq(Bundled)
    BY <1>1, <1>2, <1>4
  <1> QED
    BY <1>1, <1>3, <1>4, <1>5 DEF n

\* The steps of an export.
LEMMA ExporterTyped == Typed /\ Exporter => Typed'
  <1> SUFFICES ASSUME Typed, Exporter PROVE Typed'
    OBVIOUS
  <1>1. CASE ExportWalk
    <2>1. PICK X \in {{}, OfflineSet} : names' = Names(X)
      BY <1>1 DEF ExportWalk
    <2>2. names' \in Seq(Members)
      BY <2>1, OfflineFinite, NamesFacts
    <2>3. /\ mode' = mode /\ archive' = archive /\ at' = "zip" /\ next' = next /\ total' = total
          /\ plan' = plan /\ disk' = disk /\ staged' = staged /\ counted' = counted
          /\ bundle' = bundle /\ before' = disk /\ touched' = {}
      BY <1>1 DEF ExportWalk, planVars
    <2> QED
      BY <2>2, <2>3 DEF Typed
  <1>2. CASE ExportAdd
    BY <1>2, AddFacts DEF Typed
  <1>3. CASE ExportFail
    BY <1>3 DEF ExportFail, Typed, planVars, zipVars, pastVars
  <1>4. CASE ExportDone
    BY <1>4 DEF ExportDone, Typed, planVars, zipVars, pastVars
  <1> QED
    BY <1>1, <1>2, <1>3, <1>4 DEF Exporter

\* An archive with the files of the bundle.
OfBundle(a) ==
    /\ a.format = "zip" /\ DOMAIN a.entries = DOMAIN bundle
    /\ \A i \in DOMAIN bundle : a.entries[i].name = bundle[i].path /\ a.entries[i].kind = "file"

\* A bundle that is uploaded again is an archive.
LEMMA ReimportFacts ==
    ASSUME Typed, Reimport
    PROVE  /\ IsArchive(archive') /\ OfBundle(archive')
           /\ mode' = "import" /\ at = "bundled" /\ at' = "open" /\ next' = 1 /\ total' = 0 /\ plan' = <<>>
           /\ disk' = Nothing /\ counted' = [bytes |-> 0, files |-> 0]
           /\ staged' = staged /\ names' = names /\ bundle' = bundle
           /\ before' = before /\ touched' = touched
  <1>1. /\ mode' = "import" /\ at = "bundled" /\ at' = "open" /\ next' = 1 /\ total' = 0 /\ plan' = <<>>
        /\ disk' = Nothing /\ counted' = [bytes |-> 0, files |-> 0]
        /\ staged' = staged /\ names' = names /\ bundle' = bundle
        /\ before' = before /\ touched' = touched
    BY DEF Reimport, zipVars, pastVars
  <1>2. PICK dense \in BOOLEAN :
          archive' = [format |-> "zip", size |-> 1,
                      entries |-> [i \in DOMAIN bundle |->
                        [name |-> bundle[i].path, kind |-> "file", size |-> bundle[i].file.size,
                         packed |-> IF dense THEN 1 ELSE bundle[i].file.size]]]
    BY DEF Reimport
  <1> DEFINE a == archive'
             Es == [name : Seq(STRING), kind : {"file", "dir", "symlink"}, size : Nat, packed : Nat]
             e(i) == [name |-> bundle[i].path, kind |-> "file", size |-> bundle[i].file.size,
                      packed |-> IF dense THEN 1 ELSE bundle[i].file.size]
  <1>3. a.format = "zip" /\ a.size = 1 /\ a.entries = [i \in DOMAIN bundle |-> e(i)]
    BY <1>2
  <1>4. /\ Len(bundle) \in Nat /\ DOMAIN bundle = 1..Len(bundle)
        /\ \A i \in DOMAIN bundle : bundle[i] \in Bundled
    BY SeqHolds DEF Typed
  <1>5. \A i \in DOMAIN bundle : bundle[i].path \in Paths /\ bundle[i].file.size \in Nat
    BY <1>4 DEF Bundled, Nodes
  <1>6. \A i \in DOMAIN bundle : e(i) \in Es /\ e(i).name = bundle[i].path /\ e(i).kind = "file"
    BY <1>5, Names0
  <1> HIDE DEF a, e, Es
  <1>7. a.entries \in Seq(Es)
    BY <1>3, <1>4, <1>6
  <1>8. OfBundle(a)
    BY <1>3, <1>6 DEF OfBundle
  <1>9. RawEntries(a) = a.entries
    BY <1>3 DEF RawEntries
  <1>10. \A i \in DOMAIN RawEntries(a) : Normal(RawEntries(a)[i].name) \in Paths
    <2>1. \A i \in DOMAIN bundle : RawEntries(a)[i].name = bundle[i].path /\ Normal(bundle[i].path) = bundle[i].path
      BY <1>5, <1>8, <1>9, Names0 DEF OfBundle
    <2> QED
      BY <1>3, <1>5, <1>9, <2>1
  <1>11. IsArchive(a)
    BY <1>3, <1>7, <1>10 DEF IsArchive, Formats, Es
  <1> QED
    BY <1>1, <1>8, <1>11 DEF a

\* Every step keeps the directory, the listings and the counters well formed.
LEMMA TypedNext == Typed /\ [Next]_vars => Typed'
  <1> SUFFICES ASSUME Typed, [Next]_vars PROVE Typed'
    OBVIOUS
  <1>1. CASE Reimport
    <2>1. IsDirectory(disk') /\ plan' \in Seq(Items)
      BY <1>1, ReimportFacts, NothingFacts
    <2> QED
      BY <1>1, <2>1, ReimportFacts DEF Typed
  <1>2. CASE UNCHANGED vars
    BY <1>2 DEF Typed, vars, planVars, zipVars, pastVars
  <1> QED
    BY <1>1, <1>2, OpenTyped, PlannerTyped, UnpackerTyped, OverlayTyped, OthersTyped, ExporterTyped DEF Next

\* A listing with a .tex file in it has a first one.
LEMMA TypedEntryOpens == Typed => EntryOpens
  <1> SUFFICES ASSUME Typed, TexFiles(disk) # {}, MainTex \notin DOMAIN disk \ Files(disk)
               PROVE  PickDefaultEntry(disk) \in Files(disk)
    BY DEF EntryOpens
  <1>1. TexFiles(disk) \subseteq Files(disk) /\ Files(disk) \subseteq DOMAIN disk
    BY DEF TexFiles, Files
  <1>2. TexFiles(disk) \in SUBSET Paths /\ IsFiniteSet(TexFiles(disk))
    BY <1>1, TotalFacts, FS_Subset DEF Typed
  <1>3. CASE MainTex \in DOMAIN disk
    BY <1>3 DEF PickDefaultEntry
  <1>4. CASE MainTex \notin DOMAIN disk
    <2>1. disk # Nothing
      BY <1>1, NothingFacts
    <2>2. Head(InOrder(TexFiles(disk))) \in TexFiles(disk)
      BY <1>2, HeadInOrder
    <2> QED
      BY <1>1, <1>4, <2>1, <2>2 DEF PickDefaultEntry
  <1> QED
    BY <1>3, <1>4

-----------------------------------------------------------------------------
(* What an export has of the directory.                                    *)

Left == {p \in Files(before) \ touched : ~Scratch(p)}
IsNamed(p)    == \E i \in DOMAIN names : names[i].path = p
InBundle(p)   == \E i \in DOMAIN bundle : bundle[i].path = p /\ bundle[i].file \in {before[p], File("server", 1)}
FromExport(p) == p \in OfflineSet \/ (p \in Files(before) /\ ~Scratch(p))

ZipInv ==
    /\ \A p \in Files(before) \ touched : p \in DOMAIN disk /\ disk[p] = before[p]
    /\ \A i, j \in DOMAIN names : names[i].path = names[j].path => i = j
    /\ \A i \in DOMAIN names, j \in DOMAIN bundle : names[i].path # bundle[j].path
    /\ \A i \in DOMAIN names : FromExport(names[i].path)
    /\ \A p \in Left : IsNamed(p) \/ InBundle(p)

BundleInv ==
    /\ \A i, j \in DOMAIN bundle : bundle[i].path = bundle[j].path => i = j
    /\ \A i \in DOMAIN bundle : FromExport(bundle[i].path)

Unpacking == at \in {"open", "plan", "write", "stage", "promote", "done", "refused"}
ExportInv ==
    /\ at = "zip" => ZipInv
    /\ BundleInv
    /\ at = "bundled" \/ (Unpacking /\ bundle # <<>>) => \A p \in Left : InBundle(p)
    /\ Unpacking /\ bundle # <<>> => mode = "import" /\ OfBundle(archive)

\* No export has begun.
LEMMA ExportInit == Init => ExportInv
  BY DEF Init, ExportInv, Unpacking, BundleInv

\* Steps of an unpacking.
LEMMA UnpackingKeeps ==
    ASSUME ExportInv, Open \/ Planner \/ Unpacker \/ Overlay
    PROVE  ExportInv'
  <1>1. /\ Unpacking /\ Unpacking'
        /\ mode' = mode /\ archive' = archive /\ bundle' = bundle /\ before' = before
        /\ touched' = touched
    <2> USE DEF Unpacking, zipVars, pastVars
    <2>1. CASE Open
      BY <2>1 DEF Open, Refuse
    <2>2. CASE Planner
      <3>1. PlanDir \/ PlanDrop \/ PlanTake \/ PlanRefuse \/ PlanDone
        BY <2>2 DEF Planner
      <3> QED
        BY <3>1 DEF PlanDir, PlanDrop, PlanTake, PlanRefuse, PlanDone, Planning, PlanNext, Refuse
    <2>3. CASE Unpacker
      BY <2>3 DEF Unpacker, WriteEntry, WriteFail, WriteDone, Refuse
    <2>4. CASE Overlay
      <3>1. StageSkip \/ StageEntry \/ StageDone \/ Promote \/ OverlayFail \/ OverlayDone
        BY <2>4 DEF Overlay
      <3> QED
        BY <3>1 DEF StageSkip, StageEntry, StageDone, Promote, Promoting, OverlayFail, OverlayDone, Refuse
    <2> QED
      BY <2>1, <2>2, <2>3, <2>4
  <1>2. at' # "zip" /\ at' # "bundled"
    BY <1>1 DEF Unpacking
  <1>3. BundleInv' = BundleInv
    BY <1>1 DEF BundleInv, FromExport, Files
  <1>4. Left' = Left /\ \A p : InBundle(p)' = InBundle(p)
    BY <1>1 DEF Left, InBundle, Files
  <1>5. OfBundle(archive)' = OfBundle(archive)
    BY <1>1 DEF OfBundle
  <1> QED
    BY <1>1, <1>2, <1>3, <1>4, <1>5 DEF ExportInv

\* Other requests.
LEMMA OthersExport ==
    ASSUME ExportInv, NEW q \in Paths, OtherPut(q) \/ OtherDelete(q)
    PROVE  ExportInv'
  <1>1. /\ mode' = mode /\ archive' = archive /\ at' = at /\ bundle' = bundle /\ before' = before
        /\ names' = names
        /\ (mode = "skip" /\ Unpacking) \/ at = "zip"
    BY DEF OtherPut, OtherDelete, Shared, Unpacking, planVars, zipVars
  <1>2. PICK gone : /\ touched' = touched \union gone
                    /\ \A p \in DOMAIN disk : p \notin gone => p \in DOMAIN disk' /\ disk'[p] = disk[p]
    <2>1. CASE OtherPut(q)
      <3>1. touched' = touched \union {q} /\ disk' = Store(disk, q, File("other", 1))
        BY <2>1 DEF OtherPut
      <3>2. \A p \in DOMAIN disk : p # q => p \in DOMAIN disk' /\ disk'[p] = disk[p]
        BY <3>1 DEF Store
      <3> QED
        BY <3>1, <3>2
    <2>2. CASE OtherDelete(q)
      <3> DEFINE gone == {p \in DOMAIN disk : IsPrefix(q, p)}
      <3>1. touched' = touched \union gone /\ disk' = [p \in DOMAIN disk \ gone |-> disk[p]]
        BY <2>2 DEF OtherDelete
      <3> HIDE DEF gone
      <3> QED
        BY <3>1
    <2> QED
      BY <2>1, <2>2
  <1>3. /\ BundleInv' = BundleInv
        /\ \A p : InBundle(p)' = InBundle(p) /\ IsNamed(p)' = IsNamed(p) /\ FromExport(p)' = FromExport(p)
        /\ Files(before)' = Files(before)
    BY <1>1 DEF BundleInv, FromExport, Files, InBundle, IsNamed
  <1>4. CASE at = "zip"
    <2>1. Left' \subseteq Left
      BY <1>2, <1>3 DEF Left
    <2>2. ZipInv
      BY <1>4 DEF ExportInv
    <2>3. \A p \in Files(before)' \ touched' : p \in DOMAIN disk' /\ disk'[p] = before'[p]
      BY <1>1, <1>2, <1>3, <2>2 DEF ZipInv
    <2>4. ZipInv'
      BY <1>1, <1>3, <2>1, <2>2, <2>3 DEF ZipInv
    <2> QED
      BY <1>1, <1>3, <1>4, <2>4 DEF ExportInv, Unpacking
  <1>5. CASE at # "zip"
    <2>1. bundle = <<>>
      BY <1>1, <1>5 DEF ExportInv
    <2>2. at' # "bundled"
      BY <1>1, <1>5 DEF Unpacking
    <2> QED
      BY <1>1, <1>3, <1>5, <2>1, <2>2 DEF ExportInv
  <1> QED
    BY <1>4, <1>5

\* The walk.
LEMMA WalkKeeps ==
    ASSUME Typed, ExportInv, ExportWalk
    PROVE  ExportInv'
  <1>1. PICK X \in {{}, OfflineSet} : names' = Names(X)
    BY DEF ExportWalk
  <1>2. /\ at' = "zip" /\ before' = disk /\ touched' = {} /\ disk' = disk /\ bundle' = bundle /\ bundle = <<>>
    BY DEF ExportWalk
  <1>3. /\ \A i, j \in DOMAIN names' : names'[i].path = names'[j].path => i = j
        /\ \A i \in DOMAIN names' : names'[i].path \in (Exported \ X) \union X
        /\ \A p \in Exported \union X : \E i \in DOMAIN names' : names'[i].path = p
    <2> DEFINE N == Names(X)
    <2>1. /\ \A i, j \in DOMAIN N : N[i].path = N[j].path => i = j
          /\ \A i \in DOMAIN N : IF N[i].made THEN N[i].path \in X ELSE N[i].path \in Exported \ X
          /\ \A p \in Exported \union X : \E i \in DOMAIN N : N[i].path = p
      BY OfflineFinite, NamesFacts
    <2> HIDE DEF N
    <2>2. \A i \in DOMAIN N : N[i].path \in (Exported \ X) \union X
      BY <2>1
    <2> QED
      BY <1>1, <2>1, <2>2 DEF N
  <1>4. Left' = Exported /\ \A p \in Files(before)' : p \in DOMAIN disk' /\ disk'[p] = before'[p]
    BY <1>2 DEF Left, Exported, Files
  <1>5. \A p : (p \in Exported \/ p \in X) => FromExport(p)'
    BY <1>2 DEF FromExport, Exported, Files
  <1>6. \A p \in Left' : IsNamed(p)'
    BY <1>3, <1>4 DEF IsNamed
  <1>7. DOMAIN bundle' = {}
    BY <1>2
  <1>8. ZipInv'
    BY <1>3, <1>4, <1>5, <1>6, <1>7 DEF ZipInv
  <1>9. BundleInv'
    BY <1>7 DEF BundleInv
  <1> QED
    BY <1>2, <1>8, <1>9 DEF ExportInv, Unpacking

\* One file.
LEMMA AddKeeps ==
    ASSUME Typed, ExportInv, ExportAdd
    PROVE  ExportInv'
  <1> DEFINE n == Head(names)
             b == Read(n)
             k == Len(bundle) + 1
  <1>1. /\ n = names[1] /\ n.path = names[1].path
        /\ bundle' = Append(bundle, b) /\ names' = Tail(names) /\ names # <<>>
        /\ at = "zip" /\ at' = at /\ disk' = disk /\ before' = before /\ touched' = touched
    BY AddFacts
  <1>2. /\ b.path = n.path /\ (b.file = File("server", 1) \/ b.file = disk[n.path])
    BY DEF Read
  <1>3. ZipInv /\ BundleInv
    BY <1>1 DEF ExportInv
  <1>4. /\ 1 \in DOMAIN names
        /\ \A i \in DOMAIN names' : i + 1 \in DOMAIN names /\ names'[i] = names[i + 1] /\ i \in Nat \ {0}
        /\ \A i \in DOMAIN names : i \in Nat \ {0} /\ (i = 1 \/ (i - 1 \in DOMAIN names' /\ names'[i - 1] = names[i]))
    <2>1. names \in Seq(Members)
      BY DEF Typed
    <2>2. /\ 1 \in DOMAIN names
          /\ DOMAIN Tail(names) = {i \in DOMAIN names : i + 1 \in DOMAIN names}
          /\ \A i \in DOMAIN Tail(names) : Tail(names)[i] = names[i + 1]
          /\ \A i \in DOMAIN names : i = 1 \/ i - 1 \in DOMAIN Tail(names)
      BY <1>1, <2>1, HeadTail
    <2>3. \A i \in DOMAIN names : i \in Nat \ {0}
      BY <2>1
    <2>4. \A i \in DOMAIN names : (i - 1) + 1 = i
      BY <2>3
    <2> QED
      BY <1>1, <2>2, <2>3, <2>4
  <1>5. /\ DOMAIN bundle' = DOMAIN bundle \union {k}
        /\ \A i \in DOMAIN bundle : bundle'[i] = bundle[i]
        /\ bundle'[k] = b
    <2>1. bundle \in Seq(Bundled) /\ b \in Bundled
      BY AddFacts DEF Typed
    <2> HIDE DEF b, n
    <2> QED
      BY <1>1, <2>1
  <1> HIDE DEF n, b, k
  <1>6. Left' = Left /\ Files(before)' = Files(before)
    BY <1>1 DEF Left, Files
  <1>7. \A p : FromExport(p)' = FromExport(p)
    BY <1>1 DEF FromExport, Files
  <1>8. \A i \in DOMAIN bundle : bundle[i].path # n.path
    BY <1>1, <1>3, <1>4 DEF ZipInv
  <1>9. FromExport(n.path)
    BY <1>1, <1>3, <1>4 DEF ZipInv
  <1>10. BundleInv'
    BY <1>2, <1>3, <1>5, <1>7, <1>8, <1>9 DEF BundleInv
  <1>11. \A i \in DOMAIN names' : names'[i].path # n.path
    <2> TAKE i \in DOMAIN names'
    <2>1. i + 1 \in DOMAIN names /\ names'[i] = names[i + 1] /\ i + 1 # 1
      BY <1>4
    <2> QED
      BY <1>1, <1>3, <1>4, <2>1 DEF ZipInv
  <1>12. \A i, j \in DOMAIN names' : names'[i].path = names'[j].path => i = j
    <2> TAKE i, j \in DOMAIN names'
    <2>1. i + 1 = j + 1 => i = j
      BY <1>4
    <2> QED
      BY <1>3, <1>4, <2>1 DEF ZipInv
  <1>13. \A i \in DOMAIN names', j \in DOMAIN bundle' : names'[i].path # bundle'[j].path
    BY <1>2, <1>3, <1>4, <1>5, <1>11 DEF ZipInv
  <1>14. \A i \in DOMAIN names' : FromExport(names[i].path)'
    BY <1>3, <1>4, <1>7 DEF ZipInv
  <1>15. ASSUME NEW p \in Left PROVE IsNamed(p)' \/ InBundle(p)'
    <2>1. CASE InBundle(p)
      <3>1. PICK i \in DOMAIN bundle : bundle[i].path = p /\ bundle[i].file \in {before[p], File("server", 1)}
        BY <2>1 DEF InBundle
      <3>2. i \in DOMAIN bundle' /\ bundle'[i] = bundle[i]
        BY <1>5
      <3> QED
        BY <1>1, <3>1, <3>2 DEF InBundle
    <2>2. CASE p = n.path
      <3>1. disk[p] = before[p]
        BY <1>3 DEF ZipInv, Left
      <3>2. k \in DOMAIN bundle' /\ bundle'[k].path = p /\ bundle'[k].file \in {before[p], File("server", 1)}
        BY <1>2, <1>5, <2>2, <3>1
      <3> QED
        BY <1>1, <3>2 DEF InBundle
    <2>3. CASE IsNamed(p) /\ p # n.path
      <3>1. PICK i \in DOMAIN names : names[i].path = p
        BY <2>3 DEF IsNamed
      <3>2. i - 1 \in DOMAIN names' /\ names'[i - 1] = names[i]
        BY <1>1, <1>4, <2>3, <3>1
      <3> QED
        BY <3>1, <3>2 DEF IsNamed
    <2> QED
      BY <1>3, <2>1, <2>2, <2>3 DEF ZipInv
  <1>16. \A p \in Files(before)' \ touched' : p \in DOMAIN disk' /\ disk'[p] = before'[p]
    BY <1>1, <1>3, <1>6 DEF ZipInv
  <1>17. ZipInv'
    BY <1>6, <1>12, <1>13, <1>14, <1>15, <1>16 DEF ZipInv
  <1> QED
    BY <1>1, <1>10, <1>17 DEF ExportInv, Unpacking

\* Every step keeps what an export has of the directory.
LEMMA ExportNext == Typed /\ ExportInv /\ [Next]_vars => ExportInv'
  <1> SUFFICES ASSUME Typed, ExportInv, [Next]_vars PROVE ExportInv'
    OBVIOUS
  <1>1. CASE ExportFail \/ ExportDone
    <2>1. /\ at = "zip" /\ bundle' = bundle /\ before' = before /\ touched' = touched
          /\ at' = "failed" \/ (at' = "bundled" /\ names = <<>>)
      BY <1>1 DEF ExportFail, ExportDone, zipVars, pastVars
    <2>2. BundleInv' = BundleInv /\ Left' = Left /\ \A p : InBundle(p)' = InBundle(p)
      BY <2>1 DEF BundleInv, FromExport, Left, InBundle, Files
    <2>3. names = <<>> => \A p \in Left : InBundle(p)
      BY <2>1 DEF ExportInv, ZipInv, IsNamed
    <2> QED
      BY <2>1, <2>2, <2>3 DEF ExportInv, Unpacking
  <1>2. CASE Reimport
    <2>1. /\ OfBundle(archive') /\ mode' = "import" /\ at = "bundled" /\ at' = "open"
          /\ bundle' = bundle /\ before' = before /\ touched' = touched
      BY <1>2, ReimportFacts
    <2>2. BundleInv' = BundleInv /\ Left' = Left /\ \A p : InBundle(p)' = InBundle(p)
      BY <2>1 DEF BundleInv, FromExport, Left, InBundle, Files
    <2>3. OfBundle(archive)'
      BY <2>1 DEF OfBundle
    <2> QED
      BY <2>1, <2>2, <2>3 DEF ExportInv
  <1>3. CASE UNCHANGED vars
    <2>1. /\ mode' = mode /\ archive' = archive /\ at' = at /\ bundle' = bundle /\ before' = before
          /\ names' = names /\ touched' = touched /\ disk' = disk
      BY <1>3 DEF vars, zipVars, pastVars
    <2> QED
      BY <2>1 DEF ExportInv, ZipInv, BundleInv, FromExport, Left, InBundle, IsNamed, Files, OfBundle, Unpacking
  <1> QED
    BY <1>1, <1>2, <1>3, UnpackingKeeps, OthersExport, WalkKeeps, AddKeeps DEF Next, Exporter

\* A finished bundle is complete.
LEMMA ExportInvComplete == ExportInv => ExportComplete
  <1> SUFFICES ASSUME ExportInv, at = "bundled" PROVE
          /\ \A i, j \in DOMAIN bundle : bundle[i].path = bundle[j].path => i = j
          /\ \A p \in Files(before) \ touched : ~Scratch(p) =>
               \E i \in DOMAIN bundle : /\ bundle[i].path = p
                                        /\ bundle[i].file \in {before[p], File("server", 1)}
    BY DEF ExportComplete
  <1> QED
    BY DEF ExportInv, BundleInv, Left, InBundle

-----------------------------------------------------------------------------
(* Imports.                                                                *)

\* The files among the first n entries, where they go and how large they are.
Took(a, n)    == {i \in Brings(a) : i <= n}
Goes(a, i)    == Normal(RawEntries(a)[i].name)
EntrySizes(a) == [i \in DOMAIN RawEntries(a) |-> RawEntries(a)[i].size]

\* The files an archive brings, and their sizes.
LEMMA BringsFacts ==
    ASSUME NEW a, IsArchive(a)
    PROVE  LET R == RawEntries(a) IN
           /\ Len(R) \in Nat /\ DOMAIN R = 1..Len(R) /\ Brings(a) \subseteq 1..Len(R)
           /\ IsFiniteSet(Brings(a))
           /\ \A i \in 1..Len(R) : EntrySizes(a)[i] = R[i].size /\ R[i].size \in Nat
           /\ IsFiniteSet(Units(EntrySizes(a), Brings(a)))
           /\ FoldLeft(LAMBDA n, i : n + R[i].size, 0, SetToSeq(Brings(a))) = Weight(EntrySizes(a), Brings(a))
           /\ \A i \in 1..Len(R) : i \in Brings(a) <=> R[i].kind = "file" /\ Proper(R[i].name) /\ Allowed(Goes(a, i))
           /\ \A i \in Brings(a) : ~Faulty(R[i]) => Goes(a, i) \in Paths
  <1> DEFINE R == RawEntries(a)
             B == Brings(a)
             v == [i \in B |-> R[i].size]
  <1>1. /\ Len(R) \in Nat /\ DOMAIN R = 1..Len(R)
        /\ \A i \in 1..Len(R) : R[i].size \in Nat /\ (~Faulty(R[i]) /\ Allowed(Goes(a, i)) => Goes(a, i) \in Paths)
    BY RawFacts DEF Goes
  <1>2. B = {i \in 1..Len(R) : R[i].kind = "file" /\ Proper(R[i].name) /\ Allowed(Goes(a, i))}
    BY <1>1 DEF Brings, Goes
  <1>3. EntrySizes(a) = [i \in 1..Len(R) |-> R[i].size]
    BY <1>1 DEF EntrySizes
  <1>4. IsFiniteSet(B)
    <2>1. IsFiniteSet(1..Len(R))
      BY <1>1, FS_Interval
    <2> HIDE DEF R, B
    <2>2. B \subseteq 1..Len(R)
      BY <1>2
    <2> QED
      BY <2>1, <2>2, FS_Subset
  <1>5. FoldLeft(LAMBDA n, i : n + R[i].size, 0, SetToSeq(B)) = Weight(v, B)
    <2>1. \A i \in B : R[i].size \in Nat
      BY <1>1, <1>2
    <2> HIDE DEF R, B
    <2> QED
      BY <1>4, <2>1, FoldOfSet
  <1>6. \A i \in B : v[i] = EntrySizes(a)[i] /\ v[i] \in Nat
    BY <1>1, <1>2, <1>3
  <1>7. /\ Weight(v, B) = Weight(EntrySizes(a), B) /\ Units(v, B) = Units(EntrySizes(a), B)
        /\ IsFiniteSet(Units(v, B))
    <2> HIDE DEF v, B
    <2> QED
      BY <1>4, <1>6, WeightSame, WeightNat
  <1> HIDE DEF R, B, v
  <1> QED
    BY <1>1, <1>2, <1>3, <1>4, <1>5, <1>7 DEF R, B

\* What build_plan has made of the first n entries.
PlanOf(a, pl, sum, n) ==
    LET R == RawEntries(a)
        T == Took(a, n)
    IN
    /\ n \in 0..Len(R)
    /\ \A i \in 1..n : R[i].kind = "dir" \/ ~Faulty(R[i])
    /\ \A i \in T : R[i].size <= QuotaUpload
    /\ \A i, j \in T : Goes(a, i) = Goes(a, j) => i = j
    /\ \A k \in DOMAIN pl : \E i \in T : pl[k].path = Goes(a, i) /\ pl[k].size = R[i].size
    /\ \A i \in T : \E k \in DOMAIN pl : pl[k].path = Goes(a, i) /\ pl[k].size = R[i].size
    /\ \A k, l \in DOMAIN pl : pl[k].path = pl[l].path => k = l
    /\ sum = Weight(EntrySizes(a), T) /\ sum <= QuotaSession

PlanUpTo(n) == PlanOf(archive, plan, total, n)

\* unpack_into has written the plan's first entries, and nothing else.
Written ==
    /\ Files(disk) = {plan[k].path : k \in {l \in DOMAIN plan : l < next}}
    /\ \A k \in DOMAIN plan : k < next => disk[plan[k].path] = File("archive", plan[k].size)
    /\ \A p \in DOMAIN disk \ Files(disk) : \E q \in Files(disk) : p \in Above(q)

Counts(d) == [bytes |-> Total(d), files |-> Cardinality(Files(d))]

ImportInv ==
    mode = "import" =>
        /\ at \notin {"stage", "promote"}
        /\ at = "open" => next = 1 /\ plan = <<>> /\ total = 0
        /\ at \in {"plan", "write", "done"} => Readable(archive)
        /\ at = "plan" => PlanUpTo(next - 1)
        /\ at \in {"write", "done"} => PlanUpTo(Len(RawEntries(archive))) /\ Written
        /\ at \in {"open", "plan", "refused"} => disk = Nothing
        /\ at \in {"open", "plan", "write", "done", "refused"} => counted = Counts(disk)
        /\ at = "done" => \A k \in DOMAIN plan : k < next
        /\ at = "refused" => ~Sound(archive)

\* Nothing is counted as nothing.
LEMMA CountsNothing == Counts(Nothing) = [bytes |-> 0, files |-> 0]
  BY NothingFacts DEF Counts

\* The plan of an archive that is not opened is empty.
LEMMA ImportInit == Init => ImportInv
  <1> SUFFICES ASSUME Init, mode = "import" PROVE ImportInv
    BY DEF ImportInv
  <1>1. at = "open" /\ next = 1 /\ plan = <<>> /\ total = 0 /\ disk = Nothing /\ counted = Counts(disk)
    BY DEF Init, Counts
  <1> QED
    BY <1>1 DEF ImportInv

\* How one more entry changes what there is to bring.
LEMMA TookNext ==
    ASSUME Typed, NEW n, PlanUpTo(n), n + 1 <= Len(RawEntries(archive))
    PROVE  LET m == n + 1
               R == RawEntries(archive) IN
           /\ n \in Nat /\ m \in Nat /\ m \in DOMAIN R /\ m \in 0..Len(R) /\ 1..m = (1..n) \union {m}
           /\ m \notin Took(archive, n)
           /\ m \notin Brings(archive) => Took(archive, m) = Took(archive, n)
           /\ m \in Brings(archive) => Took(archive, m) = Took(archive, n) \union {m}
  <1> DEFINE m == n + 1
             R == RawEntries(archive)
  <1>1. n \in 0..Len(R) /\ Len(R) \in Nat /\ DOMAIN R = 1..Len(R) /\ Brings(archive) \subseteq 1..Len(R)
    BY BringsFacts DEF Typed, PlanUpTo, PlanOf
  <1> HIDE DEF R
  <1>2. n \in Nat /\ m \in Nat /\ m \in 1..Len(R) /\ m \in 0..Len(R) /\ 1..m = (1..n) \union {m} /\ ~(m <= n)
    BY <1>1 DEF R
  <1>3. \A i \in Brings(archive) : i <= m <=> i <= n \/ i = m
    BY <1>1, <1>2
  <1> HIDE DEF m
  <1> QED
    BY <1>1, <1>2, <1>3 DEF Took, R, m

\* The entry is left out.
LEMMA PlanSkips ==
    ASSUME Typed, NEW n, PlanUpTo(n), n + 1 <= Len(RawEntries(archive)), n + 1 \notin Brings(archive),
           RawEntries(archive)[n + 1].kind = "dir" \/ ~Faulty(RawEntries(archive)[n + 1])
    PROVE  PlanUpTo(n + 1)
  <1> DEFINE m == n + 1
  <1>1. Took(archive, m) = Took(archive, n) /\ m \in 0..Len(RawEntries(archive)) /\ 1..m = (1..n) \union {m}
    BY TookNext
  <1>2. RawEntries(archive)[m].kind = "dir" \/ ~Faulty(RawEntries(archive)[m])
    OBVIOUS
  <1> HIDE DEF m
  <1>3. PlanUpTo(m)
    BY <1>1, <1>2 DEF PlanUpTo, PlanOf
  <1> QED
    BY <1>3 DEF m

\* The entry is taken.
LEMMA PlanTakes ==
    ASSUME Typed, NEW n, PlanUpTo(n), n + 1 <= Len(RawEntries(archive)), n + 1 = next, PlanTake
    PROVE  PlanUpTo(n + 1)'
  <1> DEFINE m == n + 1
             R == RawEntries(archive)
             T == Took(archive, n)
             e == R[m]
             x == [path |-> Goes(archive, m), size |-> e.size]
             K == Len(plan) + 1
  <1>1. /\ ~Faulty(e) /\ Allowed(Goes(archive, m)) /\ e.size <= QuotaUpload /\ total + e.size <= QuotaSession
        /\ Goes(archive, m) \notin Planned /\ plan' = Append(plan, x) /\ total' = total + e.size
        /\ archive' = archive
    <2>1. /\ ~Faulty(Entry) /\ Allowed(Normal(Entry.name)) /\ ~Excess(Entry)
          /\ plan' = Append(plan, [path |-> Normal(Entry.name), size |-> Entry.size])
          /\ total' = total + Entry.size /\ archive' = archive
      BY DEF PlanTake, Planning, PlanNext
    <2>2. Entry = e /\ Normal(Entry.name) = Goes(archive, m)
      BY DEF Entry, Goes
    <2>3. e.size \in Nat /\ total \in Nat /\ QuotaUpload \in Nat /\ QuotaSession \in Nat
      BY <2>2, EntryFacts, TransferCapsAssumption DEF Typed
    <2>4. ~(e.size > QuotaUpload) /\ ~(total + e.size > QuotaSession) /\ Goes(archive, m) \notin Planned
      BY <2>1, <2>2 DEF Excess
    <2> HIDE DEF e
    <2>5. e.size <= QuotaUpload /\ total + e.size <= QuotaSession
      BY <2>3, <2>4
    <2> QED
      BY <2>1, <2>2, <2>4, <2>5
  <1>2. /\ m \in 0..Len(R) /\ 1..m = (1..n) \union {m} /\ m \in DOMAIN R /\ m \notin T
        /\ m \in Brings(archive) => Took(archive, m) = T \union {m}
    BY TookNext
  <1>3. m \in Brings(archive) /\ Goes(archive, m) \in Paths /\ e.size \in Nat /\ EntrySizes(archive)[m] = e.size
    <2>1. e.kind = "file" /\ Proper(e.name)
      BY <1>1 DEF Faulty
    <2> QED
      BY <1>1, <1>2, <2>1, BringsFacts DEF Typed
  <1>4. Took(archive, m) = T \union {m}
    BY <1>2, <1>3
  <1>5. /\ DOMAIN plan' = DOMAIN plan \union {K}
        /\ \A k \in DOMAIN plan : plan'[k] = plan[k]
        /\ plan'[K] = x
    <2>1. x \in Items /\ plan \in Seq(Items)
      BY <1>3 DEF Items, Typed
    <2> HIDE DEF x
    <2> QED
      BY <1>1, <2>1
  <1>6. x.path = Goes(archive, m) /\ x.size = e.size
    OBVIOUS
  <1>7. \A i \in T : Goes(archive, i) # Goes(archive, m)
    BY <1>1 DEF PlanUpTo, PlanOf, Planned
  <1>8. \A k \in DOMAIN plan : plan[k].path # Goes(archive, m)
    BY <1>1 DEF Planned
  <1>9. total' = Weight(EntrySizes(archive), T \union {m})
    <2>1. T \subseteq Brings(archive)
      BY DEF Took
    <2>2. IsFiniteSet(Units(EntrySizes(archive), Brings(archive)))
      BY BringsFacts DEF Typed
    <2>3. Units(EntrySizes(archive), T) \subseteq Units(EntrySizes(archive), Brings(archive))
      BY <2>1 DEF Units
    <2>4. IsFiniteSet(Units(EntrySizes(archive), T))
      BY <2>2, <2>3, FS_Subset
    <2>5. total = Weight(EntrySizes(archive), T)
      BY DEF PlanUpTo, PlanOf
    <2>6. EntrySizes(archive)[m] \in Nat
      BY <1>3
    <2> DEFINE w == EntrySizes(archive)
    <2>7. IsFiniteSet(Units(w, T)) /\ m \notin T /\ w[m] \in Nat /\ total = Weight(w, T) /\ w[m] = e.size
      BY <1>2, <1>3, <2>4, <2>5, <2>6
    <2> HIDE DEF T, m, e, R, w
    <2>8. Weight(w, T \union {m}) = Weight(w, T) + w[m]
      BY <2>7, WeightAdd
    <2> QED
      BY <1>1, <2>7, <2>8 DEF w
  <1> HIDE DEF m, T, e, x, K, R
  <1>10. \A i \in 1..m : R[i].kind = "dir" \/ ~Faulty(R[i])
    BY <1>1, <1>2 DEF PlanUpTo, PlanOf, R, e
  <1>11. \A i \in T \union {m} : R[i].size <= QuotaUpload
    BY <1>1 DEF PlanUpTo, PlanOf, R, e, T
  <1>12. \A i, j \in T \union {m} : Goes(archive, i) = Goes(archive, j) => i = j
    BY <1>7 DEF PlanUpTo, PlanOf, T
  <1>13. \A k \in DOMAIN plan' : \E i \in T \union {m} : plan'[k].path = Goes(archive, i) /\ plan'[k].size = R[i].size
    BY <1>5, <1>6 DEF PlanUpTo, PlanOf, R, e, T
  <1>14. \A i \in T \union {m} : \E k \in DOMAIN plan' : plan'[k].path = Goes(archive, i) /\ plan'[k].size = R[i].size
    <2> TAKE i \in T \union {m}
    <2>1. CASE i = m
      BY <1>5, <1>6, <2>1 DEF e
    <2>2. CASE i \in T
      <3>1. PICK k \in DOMAIN plan : plan[k].path = Goes(archive, i) /\ plan[k].size = R[i].size
        BY <2>2 DEF PlanUpTo, PlanOf, R, T
      <3> QED
        BY <1>5, <3>1
    <2> QED
      BY <2>1, <2>2
  <1>15. \A k, l \in DOMAIN plan' : plan'[k].path = plan'[l].path => k = l
    BY <1>5, <1>6, <1>8 DEF PlanUpTo, PlanOf
  <1>16. total' <= QuotaSession
    BY <1>1
  <1>17. PlanOf(archive, plan', total', m)
    BY <1>2, <1>4, <1>9, <1>10, <1>11, <1>12, <1>13, <1>14, <1>15, <1>16 DEF PlanOf, R
  <1> QED
    BY <1>1, <1>17 DEF PlanUpTo, m

\* What the collectors demand of an archive, read off its entries.
LEMMA ReadableCaps ==
    ASSUME NEW a, IsArchive(a)
    PROVE  LET R == RawEntries(a) IN
           Readable(a) <=>
             /\ a.format # "unknown" /\ a.size <= QuotaArchive
             /\ a.format # "gz" => Len(R) <= MaxEntries
             /\ IF a.format = "zip" THEN \A i \in DOMAIN R : ~Bomb(R[i])
                ELSE Inflated(a) <= 2 * QuotaSession
             /\ a.format = "tar" => \A i \in DOMAIN R : R[i].kind = "file" => R[i].size <= QuotaUpload
  <1>1. a.format \in {"zip", "tar", "gz", "unknown"}
    BY DEF IsArchive, Formats
  <1>2. a.format # "gz" => RawEntries(a) = a.entries
    BY DEF RawEntries
  <1>3. CASE a.format = "zip"
    BY <1>2, <1>3 DEF Readable, ZipReads
  <1>4. CASE a.format = "tar"
    BY <1>2, <1>4 DEF Readable, TarReads, GzipReads
  <1>5. CASE a.format \in {"gz", "unknown"}
    BY <1>5 DEF Readable, GzipReads
  <1> QED
    BY <1>1, <1>3, <1>4, <1>5

\* A sound archive is read, and each file it brings is within the cap on one file.
LEMMA SoundReads ==
    ASSUME NEW a, IsArchive(a), Sound(a)
    PROVE  Readable(a) /\ \A i \in Brings(a) : RawEntries(a)[i].size <= QuotaUpload
  <1>1. \A i \in Measured(a) : RawEntries(a)[i].size <= QuotaUpload
    BY DEF Sound
  <1>2. Brings(a) \subseteq Measured(a)
    BY DEF Brings, Measured
  <1>3. a.format = "tar" => \A i \in DOMAIN RawEntries(a) :
            RawEntries(a)[i].kind = "file" => RawEntries(a)[i].size <= QuotaUpload
    BY <1>1 DEF Measured
  <1>4. Readable(a)
    BY <1>3, ReadableCaps DEF Sound
  <1> QED
    BY <1>1, <1>2, <1>4

\* What the refusals of build_plan say of the archive.
LEMMA PlanRefuses ==
    ASSUME Typed, NEW n, PlanUpTo(n), n + 1 = next, PlanRefuse
    PROVE  ~Sound(archive)
  <1> DEFINE R == RawEntries(archive)
             B == Brings(archive)
             T == Took(archive, n)
             w == EntrySizes(archive)
             e == R[n + 1]
  <1>1. /\ n + 1 <= Len(R) /\ Entry = e /\ Normal(Entry.name) = Goes(archive, n + 1)
        /\ \/ e.kind # "dir" /\ Faulty(e)
           \/ ~Faulty(e) /\ Allowed(Goes(archive, n + 1)) /\ Excess(e)
    BY DEF PlanRefuse, Planning, Entry, Goes
  <1>2. n \in Nat /\ n + 1 \in DOMAIN R /\ n + 1 \notin T /\ T \subseteq B /\ e.size \in Nat
    BY <1>1, TookNext, EntryFacts DEF Took
  <1>3. CASE e.kind # "dir" /\ Faulty(e)
    BY <1>2, <1>3 DEF Sound
  <1>4. CASE ~Faulty(e) /\ Allowed(Goes(archive, n + 1)) /\ Excess(e)
    <2>1. n + 1 \in B /\ Goes(archive, n + 1) \in Paths
      <3>1. e.kind = "file" /\ Proper(e.name)
        BY <1>4 DEF Faulty
      <3> QED
        BY <1>2, <1>4, <3>1, BringsFacts DEF Typed
    <2>2. QuotaUpload \in Nat /\ QuotaSession \in Nat /\ total \in Nat
      BY TransferCapsAssumption DEF Typed
    <2>3. CASE e.size > QuotaUpload
      <3>1. ~(e.size <= QuotaUpload)
        BY <1>2, <2>2, <2>3
      <3> QED
        BY <2>1, <3>1, SoundReads DEF Typed
    <2>4. CASE total + e.size > QuotaSession
      <3>1. /\ IsFiniteSet(Units(w, B)) /\ w[n + 1] = e.size
            /\ FoldLeft(LAMBDA m, i : m + R[i].size, 0, SetToSeq(B)) = Weight(w, B)
            /\ \A i \in B : w[i] \in Nat
        BY <1>2, <2>1, BringsFacts DEF Typed
      <3>2. total = Weight(w, T)
        BY DEF PlanUpTo, PlanOf
      <3>3. Weight(w, T \union {n + 1}) <= Weight(w, B) /\ Weight(w, T \union {n + 1}) = total + e.size
        <4>1. PICK m : m = n + 1
          OBVIOUS
        <4> HIDE DEF w, T, B, e
        <4>2. m \in B /\ m \notin T /\ T \subseteq B /\ w[m] \in Nat /\ w[m] = e.size
          BY <1>2, <2>1, <3>1, <4>1
        <4>3. Units(w, T) \subseteq Units(w, B)
          BY <4>2 DEF Units
        <4>4. IsFiniteSet(Units(w, T))
          BY <3>1, <4>3, FS_Subset
        <4>5. Weight(w, T \union {m}) = Weight(w, T) + w[m]
          BY <4>2, <4>4, WeightAdd
        <4>6. T \union {m} \in SUBSET B
          BY <4>2
        <4>7. \A i \in T \union {m} : w[i] \in Nat /\ w[i] <= w[i]
          <5>1. \A i \in B : w[i] \in Nat
            BY <3>1
          <5> QED
            BY <4>6, <5>1
        <4>8. Weight(w, T \union {m}) <= Weight(w, B)
          BY <3>1, <4>6, <4>7, WeightLess
        <4> QED
          BY <3>2, <4>1, <4>2, <4>5, <4>8
      <3>4. Weight(w, B) \in Nat
        BY <3>1, FS_CardinalityType DEF Weight
      <3> HIDE DEF w, T, B, e
      <3>5. ~(Weight(w, B) <= QuotaSession)
        BY <1>2, <2>2, <2>4, <3>3, <3>4
      <3> QED
        BY <3>1, <3>5 DEF Sound, B
    <2>5. CASE Normal(e.name) \in Planned
      <3>1. PICK k \in DOMAIN plan : plan[k].path = Goes(archive, n + 1)
        BY <2>5 DEF Planned, Goes
      <3>2. PICK i \in T : Goes(archive, i) = Goes(archive, n + 1)
        BY <3>1 DEF PlanUpTo, PlanOf
      <3>3. i \in B /\ i # n + 1
        BY <1>2, <3>2
      <3>4. IsPrefix(Goes(archive, i), Goes(archive, n + 1))
        BY <2>1, <3>2, AboveIsPrefix
      <3> QED
        BY <2>1, <3>3, <3>4 DEF Sound, Goes
    <2> QED
      BY <1>4, <2>3, <2>4, <2>5 DEF Excess
  <1> QED
    BY <1>1, <1>3, <1>4

\* In a plan that is complete each item is a file the archive brings.
LEMMA CompletePlan ==
    ASSUME Typed, PlanUpTo(Len(RawEntries(archive)))
    PROVE  LET R == RawEntries(archive) IN
           /\ Took(archive, Len(R)) = Brings(archive)
           /\ \A i \in Brings(archive) : Goes(archive, i) \in Paths /\ R[i].size \in Nat
           /\ \A k \in DOMAIN plan : \E i \in Brings(archive) :
                plan[k].path = Goes(archive, i) /\ plan[k].size = R[i].size
           /\ \A i \in Brings(archive) : \E k \in DOMAIN plan :
                plan[k].path = Goes(archive, i) /\ plan[k].size = R[i].size
  <1> DEFINE R == RawEntries(archive)
             B == Brings(archive)
  <1>1. Len(R) \in Nat /\ DOMAIN R = 1..Len(R) /\ B \subseteq 1..Len(R) /\ \A i \in B : R[i].kind = "file"
    BY BringsFacts DEF Typed
  <1>2. Took(archive, Len(R)) = B
    BY <1>1 DEF Took
  <1>3. \A i \in B : ~Faulty(R[i])
    BY <1>1 DEF PlanUpTo, PlanOf
  <1>4. \A i \in B : Goes(archive, i) \in Paths /\ R[i].size \in Nat
    BY <1>1, <1>3, BringsFacts DEF Typed
  <1> QED
    BY <1>2, <1>4 DEF PlanUpTo, PlanOf

\* Two files of the archive that cannot be in one directory.
LEMMA ClashUnsound ==
    ASSUME Typed, PlanUpTo(Len(RawEntries(archive))), NEW k \in DOMAIN plan, NEW l \in DOMAIN plan,
           plan[k].path \in Above(plan[l].path)
    PROVE  ~Sound(archive)
  <1>1. PICK i \in Brings(archive) : plan[k].path = Goes(archive, i)
    BY CompletePlan
  <1>2. PICK j \in Brings(archive) : plan[l].path = Goes(archive, j)
    BY CompletePlan
  <1>3. Goes(archive, i) \in Paths /\ Goes(archive, j) \in Paths
    BY CompletePlan
  <1>4. IsPrefix(Goes(archive, i), Goes(archive, j))
    BY <1>1, <1>2, <1>3, AboveIsPrefix
  <1>5. Goes(archive, i) # Goes(archive, j)
    <2>1. Len(Goes(archive, i)) < Len(Goes(archive, j)) /\ Len(Goes(archive, i)) \in Nat
      BY <1>1, <1>2, <1>3, AboveIsPrefix, Names0
    <2> QED
      BY <2>1
  <1> QED
    BY <1>3, <1>4, <1>5 DEF Sound, Goes

\* A file that cannot be written.
LEMMA WriteRefuses ==
    ASSUME Typed, PlanUpTo(Len(RawEntries(archive))), Written, next \in DOMAIN plan, ~Fresh(plan[next].path)
    PROVE  ~Sound(archive)
  <1> DEFINE p == plan[next].path
  <1>1. next \in Nat /\ \A k, l \in DOMAIN plan : plan[k].path = plan[l].path => k = l
    BY DEF Typed, PlanUpTo, PlanOf
  <1>2. \A q \in Files(disk) : \E k \in DOMAIN plan : k < next /\ plan[k].path = q
    BY DEF Written
  <1>3. CASE p \in DOMAIN disk
    <2>1. p \notin Files(disk)
      <3> SUFFICES ASSUME p \in Files(disk) PROVE FALSE
        OBVIOUS
      <3>1. PICK k \in DOMAIN plan : k < next /\ plan[k].path = p
        BY <1>2
      <3>2. k = next
        BY <1>1, <3>1
      <3> QED
        BY <1>1, <3>1, <3>2
    <2>2. PICK q \in Files(disk) : p \in Above(q)
      BY <1>3, <2>1 DEF Written
    <2>3. PICK k \in DOMAIN plan : plan[k].path = q
      BY <1>2
    <2> QED
      BY <2>2, <2>3, ClashUnsound
  <1>4. CASE p \notin DOMAIN disk
    <2>1. PICK q \in Above(p) : q \in DOMAIN disk /\ disk[q] # Dir
      BY <1>4 DEF Fresh, CanHold
    <2>2. q \in Files(disk)
      BY <2>1 DEF Files
    <2>3. PICK k \in DOMAIN plan : plan[k].path = q
      BY <1>2, <2>2
    <2> QED
      BY <2>1, <2>3, ClashUnsound
  <1> QED
    BY <1>3, <1>4

\* One file is written.
LEMMA WriteKeeps ==
    ASSUME Typed, Written, counted = Counts(disk), WriteEntry, PlanUpTo(Len(RawEntries(archive)))
    PROVE  Written' /\ counted' = Counts(disk')
  <1> DEFINE p == plan[next].path
             f == File("archive", plan[next].size)
  <1>1. /\ next \in DOMAIN plan /\ Fresh(p) /\ disk' = Store(disk, p, f) /\ plan' = plan /\ next' = next + 1
        /\ counted' = [bytes |-> counted.bytes + plan[next].size, files |-> counted.files + 1]
    BY ItemFacts DEF WriteEntry, Item, More, planVars
  <1>2. p \in Paths /\ plan[next].size \in Nat /\ f \in Nodes /\ f # Dir /\ f.size = plan[next].size
    BY <1>1, ItemFacts, FileNodes
  <1>3. IsDirectory(disk) /\ p \notin DOMAIN disk /\ CanHold(disk, p) /\ next \in Nat
    BY <1>1 DEF Typed, Fresh
  <1>4. p \notin Files(disk)
    BY <1>3 DEF Files
  <1>5. \A k \in DOMAIN plan : k < next + 1 <=> k < next \/ k = next
    BY <1>3, ItemFacts
  <1>6. /\ \A q \in DOMAIN disk : q \in DOMAIN disk' /\ disk'[q] = disk[q]
        /\ \A q \in DOMAIN disk' \ DOMAIN disk : q = p \/ q \in Above(p)
        /\ p \in DOMAIN disk' /\ disk'[p] = f
    BY <1>1, <1>3 DEF Store
  <1> HIDE DEF p, f
  <1>7. /\ Files(disk') = Files(disk) \union {p}
        /\ Total(disk') = Total(disk) + f.size
        /\ Cardinality(Files(disk')) = Cardinality(Files(disk)) + 1
    BY <1>1, <1>2, <1>3, <1>4, StoreTotal
  <1>8. counted' = Counts(disk')
    BY <1>1, <1>2, <1>7 DEF Counts
  <1>9. Files(disk') = {plan[k].path : k \in {l \in DOMAIN plan : l < next + 1}}
    BY <1>1, <1>5, <1>7 DEF Written, p
  <1>10. \A k \in DOMAIN plan : k < next + 1 => disk'[plan[k].path] = File("archive", plan[k].size)
    <2> TAKE k \in DOMAIN plan
    <2> HAVE k < next + 1
    <2>1. CASE k = next
      BY <1>6, <2>1 DEF p, f
    <2>2. CASE k < next
      <3>1. plan[k].path \in Files(disk) /\ disk[plan[k].path] = File("archive", plan[k].size)
        BY <2>2 DEF Written
      <3> QED
        BY <1>6, <3>1 DEF Files
    <2> QED
      BY <1>5, <2>1, <2>2
  <1>11. \A q \in DOMAIN disk' \ Files(disk') : \E r \in Files(disk') : q \in Above(r)
    <2> TAKE q \in DOMAIN disk' \ Files(disk')
    <2>1. CASE q \in DOMAIN disk
      <3>1. q \notin Files(disk)
        BY <1>7
      <3> QED
        BY <1>7, <2>1, <3>1 DEF Written
    <2>2. CASE q \notin DOMAIN disk
      BY <1>6, <1>7, <2>2
    <2> QED
      BY <2>1, <2>2
  <1> QED
    BY <1>1, <1>8, <1>9, <1>10, <1>11 DEF Written

\* The whole plan is written.
LEMMA DoneFacts ==
    ASSUME Typed, ImportInv, mode = "import", at = "done"
    PROVE  /\ Readable(archive) /\ PlanUpTo(Len(RawEntries(archive))) /\ counted = Counts(disk)
           /\ Files(disk) = {Goes(archive, i) : i \in Brings(archive)}
           /\ \A i \in Brings(archive) : disk[Goes(archive, i)] = File("archive", RawEntries(archive)[i].size)
  <1>1. /\ Readable(archive) /\ PlanUpTo(Len(RawEntries(archive))) /\ Written /\ counted = Counts(disk)
        /\ \A k \in DOMAIN plan : k < next
    BY DEF ImportInv
  <1>2. Files(disk) = {plan[k].path : k \in DOMAIN plan}
    BY <1>1 DEF Written
  <1>3. \A k \in DOMAIN plan : disk[plan[k].path] = File("archive", plan[k].size)
    BY <1>1 DEF Written
  <1>4. /\ \A k \in DOMAIN plan : \E i \in Brings(archive) : plan[k].path = Goes(archive, i)
        /\ \A i \in Brings(archive) : \E k \in DOMAIN plan :
             plan[k].path = Goes(archive, i) /\ plan[k].size = RawEntries(archive)[i].size
    BY <1>1, CompletePlan
  <1>5. Files(disk) = {Goes(archive, i) : i \in Brings(archive)}
    BY <1>2, <1>4
  <1> QED
    BY <1>1, <1>3, <1>4, <1>5

\* An archive whose plan is written is sound.
LEMMA DoneSound ==
    ASSUME Typed, ImportInv, mode = "import", at = "done"
    PROVE  Sound(archive)
  <1> DEFINE R == RawEntries(archive)
             B == Brings(archive)
  <1>1. Readable(archive) /\ PlanUpTo(Len(R)) /\ Took(archive, Len(R)) = B /\ Len(R) \in Nat /\ DOMAIN R = 1..Len(R)
    BY DoneFacts, CompletePlan, BringsFacts DEF Typed
  <1>2. \A i \in DOMAIN R : R[i].kind = "dir" \/ ~Faulty(R[i])
    BY <1>1 DEF PlanUpTo, PlanOf
  <1>3. \A i \in Measured(archive) : R[i].size <= QuotaUpload
    <2>1. \A i \in B : R[i].size <= QuotaUpload
      BY <1>1 DEF PlanUpTo, PlanOf
    <2>2. archive.format = "tar" => \A i \in DOMAIN R : R[i].kind = "file" => R[i].size <= QuotaUpload
      BY <1>1, ReadableCaps DEF Typed
    <2> QED
      BY <2>1, <2>2 DEF Measured
  <1>4. FoldLeft(LAMBDA n, i : n + R[i].size, 0, SetToSeq(B)) <= QuotaSession
    <2>1. Weight(EntrySizes(archive), B) <= QuotaSession
      BY <1>1 DEF PlanUpTo, PlanOf
    <2> QED
      BY <2>1, BringsFacts DEF Typed
  <1>5. ASSUME NEW i \in B, NEW j \in B, i # j, IsPrefix(Goes(archive, i), Goes(archive, j))
        PROVE  FALSE
    <2>1. Goes(archive, i) # Goes(archive, j)
      BY <1>1, <1>5 DEF PlanUpTo, PlanOf
    <2>2. Goes(archive, i) \in Paths /\ Goes(archive, j) \in Paths
      BY <1>1, CompletePlan
    <2>3. Goes(archive, i) \in Above(Goes(archive, j))
      BY <1>5, <2>1, <2>2, AboveIsPrefix
    <2>4. Goes(archive, i) \in Files(disk) /\ Goes(archive, j) \in Files(disk)
      BY DoneFacts
    <2>5. IsDirectory(disk) /\ Goes(archive, j) \in DOMAIN disk
      BY <2>4 DEF Typed, Files
    <2>6. disk[Goes(archive, i)] = Dir
      BY <2>3, <2>5 DEF IsDirectory
    <2> QED
      BY <2>4, <2>6 DEF Files
  <1>6. /\ archive.format # "unknown" /\ archive.size <= QuotaArchive
        /\ archive.format # "gz" => Len(R) <= MaxEntries
        /\ IF archive.format = "zip" THEN \A i \in DOMAIN R : ~Bomb(R[i])
           ELSE Inflated(archive) <= 2 * QuotaSession
    BY <1>1, ReadableCaps DEF Typed
  <1> QED
    BY <1>2, <1>3, <1>4, <1>5, <1>6 DEF Sound, Goes

\* Every step keeps plan and directory in line with the archive.
LEMMA ImportNext == Typed /\ ImportInv /\ [Next]_vars => ImportInv'
  <1> SUFFICES ASSUME Typed, ImportInv, [Next]_vars, mode' = "import" PROVE ImportInv'
    BY DEF ImportInv
  <1>1. Refuse /\ mode = "import" => at' = "refused" /\ disk' = Nothing /\ counted' = Counts(disk') /\ archive' = archive
    BY CountsNothing DEF Refuse
  <1>2. CASE Reimport
    BY <1>2, ReimportFacts, CountsNothing DEF ImportInv
  <1>3. CASE Open
    <2>1. mode = "import" /\ at = "open"
      BY <1>3 DEF Open, Refuse
    <2>2. CASE Refuse
      <3>1. ~Readable(archive)
        BY <1>3, <2>2 DEF Open, Refuse
      <3> QED
        BY <1>1, <2>1, <2>2, <3>1, SoundReads DEF ImportInv, Typed
    <2>3. CASE ~Refuse
      <3>1. /\ Readable(archive) /\ at' = "plan" /\ archive' = archive /\ next' = next /\ plan' = plan /\ total' = total
            /\ disk' = disk /\ counted' = counted
        BY <1>3, <2>3 DEF Open, planVars
      <3>2. next = 1 /\ plan = <<>> /\ total = 0
        BY <2>1 DEF ImportInv
      <3>3. PlanOf(archive, plan, total, 0)
        <4>1. Took(archive, 0) = {}
          <5>1. Brings(archive) \subseteq 1..Len(RawEntries(archive)) /\ Len(RawEntries(archive)) \in Nat
            BY BringsFacts DEF Typed
          <5> QED
            BY <5>1 DEF Took
        <4>2. 0 \in 0..Len(RawEntries(archive)) /\ 1..0 = {} /\ DOMAIN plan = {}
          <5>1. Len(RawEntries(archive)) \in Nat
            BY BringsFacts DEF Typed
          <5>2. plan = <<>>
            BY <3>2
          <5> QED
            BY <5>1, <5>2
        <4>3. Weight(EntrySizes(archive), {}) = 0 /\ 0 <= QuotaSession
          BY WeightEmpty, TransferCapsAssumption
        <4> QED
          BY <3>2, <4>1, <4>2, <4>3 DEF PlanOf
      <3>4. next' - 1 = 0
        BY <3>1, <3>2
      <3> QED
        BY <2>1, <3>1, <3>3, <3>4 DEF ImportInv, PlanUpTo
    <2> QED
      BY <2>2, <2>3
  <1>4. CASE Planner
    <2>1. mode = "import" /\ at = "plan"
      BY <1>4 DEF Planner, PlanDir, PlanDrop, PlanTake, PlanRefuse, PlanDone, Planning, PlanNext, Refuse
    <2>2. PICK n : n = next - 1
      OBVIOUS
    <2>3. PlanUpTo(n) /\ n + 1 = next /\ (next + 1) - 1 = n + 1 /\ n \in Nat
      BY <2>1, <2>2 DEF ImportInv, Typed
    <2>4. Readable(archive) /\ disk = Nothing /\ counted = Counts(disk)
      BY <2>1 DEF ImportInv
    <2>5. CASE PlanDir \/ PlanDrop
      <3>1. /\ n + 1 <= Len(RawEntries(archive)) /\ next' = next + 1 /\ plan' = plan /\ total' = total
            /\ archive' = archive /\ at' = at /\ disk' = disk /\ counted' = counted
        BY <2>3, <2>5 DEF PlanDir, PlanDrop, Planning, PlanNext, planVars
      <3>2. /\ n + 1 \notin Brings(archive)
            /\ RawEntries(archive)[n + 1].kind = "dir" \/ ~Faulty(RawEntries(archive)[n + 1])
        <4>1. Entry = RawEntries(archive)[n + 1] /\ Normal(Entry.name) = Goes(archive, n + 1)
          BY <2>3 DEF Entry, Goes
        <4>2. Entry.kind = "dir" \/ (~Faulty(Entry) /\ ~Allowed(Normal(Entry.name)))
          BY <2>5 DEF PlanDir, PlanDrop, Planning
        <4> QED
          BY <4>1, <4>2 DEF Brings, Goes
      <3>3. PlanOf(archive, plan, total, n + 1)
        BY <2>3, <3>1, <3>2, PlanSkips DEF PlanUpTo
      <3> QED
        BY <2>1, <2>3, <2>4, <3>1, <3>3 DEF ImportInv, PlanUpTo
    <2>6. CASE PlanTake
      <3>1. /\ n + 1 <= Len(RawEntries(archive)) /\ next' = next + 1
            /\ archive' = archive /\ at' = at /\ disk' = disk /\ counted' = counted
        BY <2>3, <2>6 DEF PlanTake, Planning, PlanNext
      <3>2. PlanOf(archive', plan', total', n + 1)
        BY <2>3, <2>6, <3>1, PlanTakes DEF PlanUpTo
      <3> QED
        BY <2>1, <2>3, <2>4, <3>1, <3>2 DEF ImportInv, PlanUpTo
    <2>7. CASE PlanRefuse
      <3>1. ~Sound(archive) /\ Refuse
        BY <2>3, <2>7, PlanRefuses DEF PlanRefuse
      <3> QED
        BY <1>1, <2>1, <3>1 DEF ImportInv
    <2>8. CASE PlanDone
      <3>1. /\ at' = "write" /\ next' = 1 /\ archive' = archive /\ plan' = plan /\ total' = total
            /\ disk' = disk /\ counted' = counted /\ next > Len(RawEntries(archive))
        BY <2>1, <2>8 DEF PlanDone, planVars
      <3>2. n = Len(RawEntries(archive))
        <4>1. n \in 0..Len(RawEntries(archive)) /\ Len(RawEntries(archive)) \in Nat
          BY <2>3, BringsFacts DEF PlanUpTo, PlanOf, Typed
        <4> QED
          BY <2>3, <3>1, <4>1
      <3>3. PlanOf(archive, plan, total, Len(RawEntries(archive)))
        BY <2>3, <3>2 DEF PlanUpTo
      <3>4. Files(disk') = {} /\ DOMAIN disk' = {}
        BY <2>4, <3>1, NothingFacts
      <3>5. \A k \in DOMAIN plan : ~(k < 1)
        BY ItemFacts
      <3>6. Written'
        BY <3>1, <3>4, <3>5 DEF Written
      <3> QED
        BY <2>1, <2>4, <3>1, <3>3, <3>6 DEF ImportInv, PlanUpTo
    <2> QED
      BY <1>4, <2>5, <2>6, <2>7, <2>8 DEF Planner
  <1>5. CASE Unpacker
    <2>1. mode = "import" /\ at = "write"
      BY <1>5 DEF Unpacker, WriteEntry, WriteFail, WriteDone, Refuse
    <2>2. Readable(archive) /\ PlanUpTo(Len(RawEntries(archive))) /\ Written /\ counted = Counts(disk)
      BY <2>1 DEF ImportInv
    <2>3. CASE WriteEntry
      <3>1. archive' = archive /\ plan' = plan /\ total' = total /\ at' = at
        BY <2>3 DEF WriteEntry, planVars
      <3>2. Written' /\ counted' = Counts(disk')
        BY <2>2, <2>3, WriteKeeps
      <3> QED
        BY <2>1, <2>2, <3>1, <3>2 DEF ImportInv, PlanUpTo, Counts
    <2>4. CASE WriteFail
      <3>1. next \in DOMAIN plan /\ ~Fresh(plan[next].path) /\ Refuse
        BY <2>4, ItemFacts DEF WriteFail, More, Item
      <3>2. ~Sound(archive)
        BY <2>2, <3>1, WriteRefuses
      <3> QED
        BY <1>1, <2>1, <3>1, <3>2 DEF ImportInv
    <2>5. CASE WriteDone
      <3>1. /\ archive' = archive /\ plan' = plan /\ total' = total /\ at' = "done" /\ next' = next
            /\ disk' = disk /\ counted' = counted /\ ~(next <= Len(plan))
        BY <2>5 DEF WriteDone, More, planVars
      <3>2. \A k \in DOMAIN plan : k < next
        BY <3>1, ItemFacts DEF Typed
      <3>3. Written'
        BY <2>2, <3>1 DEF Written, Files
      <3>4. PlanUpTo(Len(RawEntries(archive)))' /\ counted' = Counts(disk')
        BY <2>2, <3>1 DEF PlanUpTo, Counts
      <3> QED
        BY <2>1, <2>2, <3>1, <3>2, <3>3, <3>4 DEF ImportInv, Counts
    <2> QED
      BY <1>5, <2>3, <2>4, <2>5 DEF Unpacker
  <1>6. CASE Overlay
    <2>1. mode = "import" /\ at \in {"stage", "promote"}
      BY <1>6 DEF Overlay, StageSkip, StageEntry, StageDone, Promote, Promoting, OverlayFail, OverlayDone, Refuse
    <2> QED
      BY <2>1 DEF ImportInv
  <1>7. ASSUME NEW p \in Paths, OtherPut(p) \/ OtherDelete(p)
        PROVE  ImportInv'
    <2>1. mode = "import" /\ at' = at /\ at = "zip"
      BY <1>7 DEF OtherPut, OtherDelete, Shared
    <2> QED
      BY <2>1 DEF ImportInv
  <1>8. CASE Exporter
    <2>1. at' \in {"zip", "failed", "bundled"}
      BY <1>8 DEF Exporter, ExportWalk, ExportAdd, ExportFail, ExportDone
    <2> QED
      BY <2>1 DEF ImportInv
  <1>9. CASE UNCHANGED vars
    <2>1. /\ mode' = mode /\ archive' = archive /\ at' = at /\ next' = next /\ plan' = plan /\ total' = total
          /\ disk' = disk /\ counted' = counted
      BY <1>9 DEF vars, planVars
    <2> QED
      BY <2>1 DEF ImportInv, PlanUpTo, Written, Counts, Files
  <1> QED
    BY <1>2, <1>3, <1>4, <1>5, <1>6, <1>7, <1>8, <1>9 DEF Next

\* Refused for a reason, accepted without one.
LEMMA ImportInvIffSound == Typed /\ ImportInv => ImportedIffSound
  <1> SUFFICES ASSUME Typed, ImportInv, mode = "import"
               PROVE  /\ at = "done" => Sound(archive)
                      /\ at = "refused" => ~Sound(archive) /\ disk = Nothing /\ counted.files = 0
    BY DEF ImportedIffSound
  <1>1. at = "done" => Sound(archive)
    BY DoneSound
  <1>2. at = "refused" => ~Sound(archive) /\ disk = Nothing /\ counted.files = 0
    BY CountsNothing DEF ImportInv
  <1> QED
    BY <1>1, <1>2

\* What is written is what the archive brings.
LEMMA ImportInvExact == Typed /\ ImportInv => ImportExact
  BY DoneFacts DEF ImportExact, Goes, Counts

\* What came out of a session comes back.
LEMMA ImportInvRoundTrip == Typed /\ ImportInv /\ ExportInv => RoundTrip
  <1> SUFFICES ASSUME Typed, ImportInv, ExportInv, mode = "import", at = "done", bundle # <<>>,
                      NEW p \in Paths \ touched
               PROVE  p \in Files(disk) <=> p \in Files(before) /\ ~Scratch(p) /\ Allowed(p)
    BY DEF RoundTrip
  <1>1. OfBundle(archive) /\ BundleInv /\ \A q \in Left : InBundle(q)
    BY DEF ExportInv, Unpacking
  <1>2. \A i \in DOMAIN bundle : bundle[i].path \in Paths
    <2>1. \A i \in DOMAIN bundle : bundle[i] \in Bundled
      BY SeqHolds DEF Typed
    <2> QED
      BY <2>1 DEF Bundled
  <1>3. RawEntries(archive) = archive.entries
    BY <1>1 DEF RawEntries, OfBundle
  <1>4. \A i \in DOMAIN bundle : Goes(archive, i) = bundle[i].path /\ (i \in Brings(archive) <=> Allowed(bundle[i].path))
    BY <1>1, <1>2, <1>3, Names0 DEF OfBundle, Goes, Brings
  <1>5. Brings(archive) \subseteq DOMAIN bundle
    BY <1>1, <1>3 DEF OfBundle, Brings
  <1>6. p \in Files(disk) <=> \E i \in DOMAIN bundle : bundle[i].path = p /\ Allowed(p)
    BY <1>4, <1>5, DoneFacts
  <1>7. (\E i \in DOMAIN bundle : bundle[i].path = p) /\ Allowed(p) => p \in Files(before) /\ ~Scratch(p)
    BY <1>1, TransferPathsAssumption DEF BundleInv, FromExport
  <1>8. p \in Files(before) /\ ~Scratch(p) => \E i \in DOMAIN bundle : bundle[i].path = p
    BY <1>1 DEF Left, InBundle
  <1> QED
    BY <1>6, <1>7, <1>8

-----------------------------------------------------------------------------
(* What an overlay adds to the counters.                                   *)

StagedSizes == [k \in DOMAIN staged |-> staged[k].size]
Promoted    == {k \in DOMAIN staged : k < next}

\* The counters, with the bytes and the number of the files promoted so far, cover
\* the directory, and exactly so when nothing is overwritten.
Covers(bytes, files) ==
    /\ Total(disk) <= bytes /\ Cardinality(Files(disk)) <= files
    /\ mode = "skip" => bytes = Total(disk) /\ files = Cardinality(Files(disk))

CountInv ==
    /\ others \in Nat
    /\ mode # "import" /\ others = 0 =>
        /\ at # "write"
        /\ at \in {"open", "plan"} => staged = <<>>
        /\ at \in {"open", "plan", "stage"} => counted = Counts(disk)
        /\ at \in {"stage", "promote"} =>
              \A k, l \in DOMAIN staged : staged[k].path = staged[l].path => k = l
        /\ at = "stage" /\ mode = "skip" => \A k \in DOMAIN staged : staged[k].path \notin Files(disk)
        /\ at = "promote" =>
              /\ mode = "skip" => \A k \in DOMAIN staged \ Promoted : staged[k].path \notin Files(disk)
              /\ Covers(counted.bytes + Weight(StagedSizes, Promoted), counted.files + Cardinality(Promoted))
        /\ at = "done" => Covers(counted.bytes, counted.files)

\* Nothing is promoted at first.
LEMMA CountInit == Init => CountInv
  BY DEF Init, CountInv, Counts

\* Any set of the staged files has a size and a number.
LEMMA PromotedFacts ==
    ASSUME Typed, NEW P \in SUBSET DOMAIN staged
    PROVE  /\ IsFiniteSet(P) /\ Cardinality(P) \in Nat
           /\ IsFiniteSet(Units(StagedSizes, P)) /\ Weight(StagedSizes, P) \in Nat
           /\ \A k \in DOMAIN staged : StagedSizes[k] = staged[k].size /\ StagedSizes[k] \in Nat
  <1>1. IsFiniteSet(DOMAIN staged)
    BY ItemFacts, FS_Interval
  <1>2. \A k \in DOMAIN staged : StagedSizes[k] = staged[k].size /\ StagedSizes[k] \in Nat
    BY ItemFacts DEF StagedSizes
  <1>3. IsFiniteSet(P)
    BY <1>1, FS_Subset
  <1>4. \A k \in P : StagedSizes[k] \in Nat
    BY <1>2
  <1> QED
    BY <1>2, <1>3, <1>4, WeightNat, FS_CardinalityType

\* One more file is renamed into place.
LEMMA PromoteCounts ==
    ASSUME Typed, CountInv, Promote
    PROVE  CountInv'
  <1> DEFINE x == staged[next].path
             s == staged[next].size
             f == File("archive", s)
             w == StagedSizes
             P == Promoted
             b == counted.bytes
             c == counted.files
  <1>1. /\ at = "promote" /\ at' = at /\ mode' = mode /\ others' = others /\ staged' = staged /\ next' = next + 1
        /\ counted' = counted /\ next \in DOMAIN staged /\ Placeable(x) /\ disk' = Store(disk, x, f)
    BY ItemFacts DEF Promote, Promoting, pastVars
  <1> SUFFICES ASSUME mode # "import", others = 0 PROVE CountInv'
    BY <1>1 DEF CountInv
  <1>2. /\ \A k, l \in DOMAIN staged : staged[k].path = staged[l].path => k = l
        /\ mode = "skip" => \A k \in DOMAIN staged \ P : staged[k].path \notin Files(disk)
        /\ Covers(b + Weight(w, P), c + Cardinality(P))
    BY <1>1 DEF CountInv
  <1>3. x \in Paths /\ s \in Nat /\ f \in Nodes /\ f # Dir /\ f.size = s
    BY <1>1, ItemFacts, FileNodes
  <1>4. IsDirectory(disk) /\ CanHold(disk, x) /\ (x \in DOMAIN disk => disk[x] # Dir) /\ next \in Nat
        /\ b \in Nat /\ c \in Nat
    BY <1>1 DEF Typed, Placeable
  <1>5. next \notin P /\ Promoted' = P \union {next} /\ P \in SUBSET DOMAIN staged
    <2>1. \A k \in DOMAIN staged : k < next + 1 <=> k < next \/ k = next
      BY <1>4, ItemFacts
    <2> QED
      BY <1>1, <1>4, <2>1 DEF Promoted
  <1>6. StagedSizes' = w /\ w[next] = s
    BY <1>1 DEF StagedSizes
  <1>7. /\ IsFiniteSet(P) /\ Cardinality(P) \in Nat /\ IsFiniteSet(Units(w, P)) /\ Weight(w, P) \in Nat
    BY <1>5, PromotedFacts
  <1>8. Total(disk) \in Nat /\ Cardinality(Files(disk)) \in Nat
    BY <1>4, TotalFacts
  <1> HIDE DEF x, s, f, w, P, b, c
  <1>9. Weight(w, P \union {next}) = Weight(w, P) + s
    BY <1>3, <1>5, <1>6, <1>7, WeightAdd
  <1>10. Cardinality(P \union {next}) = Cardinality(P) + 1
    BY <1>5, <1>7, FS_AddElement
  <1> DEFINE D == disk'
  <1>11. /\ Files(D) = Files(disk) \union {x}
         /\ Total(D) <= Total(disk) + s
         /\ Cardinality(Files(D)) <= Cardinality(Files(disk)) + 1
         /\ x \notin Files(disk) => /\ Total(D) = Total(disk) + s
                                    /\ Cardinality(Files(D)) = Cardinality(Files(disk)) + 1
    BY <1>1, <1>3, <1>4, StoreTotal
  <1>12. Total(D) \in Nat /\ Cardinality(Files(D)) \in Nat
    <2>1. IsDirectory(D)
      BY <1>1, <1>3, <1>4, StoreDirectory
    <2> HIDE DEF D
    <2> QED
      BY <2>1, TotalFacts
  <1>13. mode = "skip" => x \notin Files(disk)
    BY <1>1, <1>2, <1>5 DEF x
  <1> HIDE DEF D
  <1>14. /\ Total(D) <= b + (Weight(w, P) + s) /\ Cardinality(Files(D)) <= c + (Cardinality(P) + 1)
         /\ mode = "skip" => /\ b + (Weight(w, P) + s) = Total(D)
                             /\ c + (Cardinality(P) + 1) = Cardinality(Files(D))
    <2>1. /\ Total(disk) <= b + Weight(w, P) /\ Cardinality(Files(disk)) <= c + Cardinality(P)
          /\ mode = "skip" => b + Weight(w, P) = Total(disk) /\ c + Cardinality(P) = Cardinality(Files(disk))
      BY <1>2 DEF Covers
    <2>2. Total(D) <= b + (Weight(w, P) + s) /\ Cardinality(Files(D)) <= c + (Cardinality(P) + 1)
      BY <1>3, <1>4, <1>7, <1>8, <1>11, <1>12, <2>1
    <2>3. ASSUME mode = "skip"
          PROVE  b + (Weight(w, P) + s) = Total(D) /\ c + (Cardinality(P) + 1) = Cardinality(Files(D))
      BY <1>3, <1>4, <1>7, <1>8, <1>11, <1>12, <1>13, <2>1, <2>3
    <2> QED
      BY <2>2, <2>3
  <1>15. Covers(counted.bytes + Weight(StagedSizes, Promoted), counted.files + Cardinality(Promoted))'
    BY <1>1, <1>5, <1>6, <1>9, <1>10, <1>14 DEF Covers, D, b, c
  <1>16. mode = "skip" => \A k \in DOMAIN staged \ Promoted' : staged[k].path \notin Files(disk')
    <2> SUFFICES ASSUME mode = "skip", NEW k \in DOMAIN staged, k \notin P, k # next
                 PROVE  staged[k].path \notin Files(D)
      BY <1>5 DEF D
    <2>1. staged[k].path # x
      BY <1>1, <1>2 DEF x
    <2> QED
      BY <1>2, <1>11, <2>1
  <1> QED
    BY <1>1, <1>2, <1>15, <1>16 DEF CountInv

\* The bytes staged are added to the counters at the end.
LEMMA DoneCounts ==
    ASSUME Typed, CountInv, OverlayDone
    PROVE  CountInv'
  <1> DEFINE sum == FoldLeft(LAMBDA n, i : n + i.size, 0, staged)
  <1>1. /\ at = "promote" /\ at' = "done" /\ mode' = mode /\ others' = others /\ disk' = disk
        /\ counted' = [bytes |-> counted.bytes + sum, files |-> counted.files + Len(staged)]
        /\ next > Len(staged)
    BY DEF OverlayDone, pastVars
  <1>2. Promoted = DOMAIN staged
    <2>1. next > Len(staged) /\ next \in Nat
      BY <1>1 DEF Typed
    <2>2. \A k \in DOMAIN staged : k < next
      BY <2>1, ItemFacts
    <2> QED
      BY <2>2 DEF Promoted
  <1>3. sum = Weight(StagedSizes, DOMAIN staged)
    BY StagedBytes DEF StagedSizes, Typed
  <1> HIDE DEF sum
  <1>4. Cardinality(DOMAIN staged) = Len(staged)
    <2>1. Len(staged) \in Nat /\ DOMAIN staged = 1..Len(staged)
      BY ItemFacts
    <2>2. PICK n \in Nat : n = Len(staged)
      BY <2>1
    <2>3. 1 \in Int /\ n \in Int
      OBVIOUS
    <2>4. Cardinality(1..n) = IF 1 > n THEN 0 ELSE n - 1 + 1
      BY ONLY <2>3, FS_Interval
    <2>5. Cardinality(1..n) = n
      BY <2>4
    <2> QED
      BY <2>1, <2>2, <2>5
  <1>5. mode # "import" /\ others = 0 => Covers(counted.bytes + sum, counted.files + Len(staged))
    BY <1>1, <1>2, <1>3, <1>4 DEF CountInv
  <1>6. mode # "import" /\ others = 0 => Covers(counted.bytes, counted.files)'
    BY <1>1, <1>5 DEF Covers
  <1> QED
    BY <1>1, <1>6 DEF CountInv

\* Staging changes neither directory nor counters.
LEMMA StagingCounts ==
    ASSUME Typed, CountInv, StageSkip \/ StageEntry \/ StageDone
    PROVE  CountInv'
  <1>1. /\ at = "stage" /\ mode' = mode /\ others' = others /\ disk' = disk /\ counted' = counted
    BY DEF StageSkip, StageEntry, StageDone, pastVars
  <1> SUFFICES ASSUME mode # "import", others = 0 PROVE CountInv'
    BY <1>1 DEF CountInv
  <1>2. /\ counted = Counts(disk) /\ others \in Nat
        /\ \A k, l \in DOMAIN staged : staged[k].path = staged[l].path => k = l
        /\ mode = "skip" => \A k \in DOMAIN staged : staged[k].path \notin Files(disk)
    BY <1>1 DEF CountInv
  <1>3. CASE StageSkip
    BY <1>1, <1>2, <1>3 DEF StageSkip, CountInv, Counts, Files
  <1>4. CASE StageEntry
    <2>1. /\ at' = at /\ staged' = Append(staged, plan[next]) /\ next \in DOMAIN plan
          /\ ~Keeps(plan[next].path) /\ Stageable(plan[next].path)
      BY <1>4, ItemFacts DEF StageEntry, Item, More
    <2> DEFINE x == plan[next]
               K == Len(staged) + 1
    <2>2. x \in Items /\ x.path \in Paths
      BY <2>1, ItemFacts
    <2>3. \A k \in DOMAIN staged : staged[k].path # x.path
      <3>1. IsPrefix(x.path, x.path)
        BY <2>2, AboveIsPrefix
      <3> QED
        BY <2>1, <3>1 DEF Stageable
    <2>4. mode = "skip" => x.path \notin Files(disk)
      BY <2>1 DEF Keeps, Files
    <2>5. /\ DOMAIN staged' = DOMAIN staged \union {K}
          /\ \A k \in DOMAIN staged : staged'[k] = staged[k]
          /\ staged'[K] = x
      <3>1. staged \in Seq(Items)
        BY DEF Typed
      <3> HIDE DEF x
      <3>2. staged' = Append(staged, x)
        BY <2>1 DEF x
      <3> QED
        BY <2>2, <3>1, <3>2
    <2> HIDE DEF x, K
    <2>6. \A k, l \in DOMAIN staged' : staged'[k].path = staged'[l].path => k = l
      BY <1>2, <2>3, <2>5
    <2>7. mode = "skip" => \A k \in DOMAIN staged' : staged'[k].path \notin Files(disk)
      BY <1>2, <2>4, <2>5
    <2> QED
      BY <1>1, <1>2, <2>1, <2>6, <2>7 DEF CountInv, Counts, Files
  <1>5. CASE StageDone
    <2>1. at' = "promote" /\ next' = 1 /\ staged' = staged
      BY <1>5 DEF StageDone
    <2>2. Promoted' = {}
      BY <2>1, ItemFacts DEF Promoted
    <2>3. Total(disk) \in Nat /\ Cardinality(Files(disk)) \in Nat
      BY TotalFacts DEF Typed
    <2>4. Weight(StagedSizes', {}) = 0 /\ Cardinality({}) = 0
      BY WeightEmpty, FS_EmptySet
    <2>5. Covers(counted.bytes + 0, counted.files + 0)
      BY <1>2, <2>3 DEF Covers, Counts
    <2>6. Covers(counted.bytes + Weight(StagedSizes, Promoted), counted.files + Cardinality(Promoted))'
      BY <1>1, <2>2, <2>4, <2>5 DEF Covers
    <2>7. mode = "skip" => \A k \in DOMAIN staged' \ Promoted' : staged'[k].path \notin Files(disk')
      BY <1>1, <1>2, <2>1
    <2> QED
      BY <1>1, <1>2, <2>1, <2>6, <2>7 DEF CountInv
  <1> QED
    BY <1>3, <1>4, <1>5

\* Every step keeps the counters in line with the directory.
LEMMA CountNext == Typed /\ CountInv /\ [Next]_vars => CountInv'
  <1> SUFFICES ASSUME Typed, CountInv, [Next]_vars PROVE CountInv'
    OBVIOUS
  <1>1. CASE Open
    <2>1. /\ mode' = mode /\ at = "open" /\ others' = others /\ staged' = staged
          /\ at' = "refused" \/ (at' = "plan" /\ disk' = disk /\ counted' = counted)
      BY <1>1 DEF Open, Refuse, pastVars
    <2> QED
      BY <2>1 DEF CountInv, Counts, Files
  <1>2. CASE Planner
    <2>1. /\ mode' = mode /\ at = "plan" /\ others' = others /\ staged' = staged
          /\ at' = "refused" \/ (at' = at /\ disk' = disk /\ counted' = counted)
             \/ (PlanDone /\ disk' = disk /\ counted' = counted)
      <3>1. PlanDir \/ PlanDrop \/ PlanTake \/ PlanRefuse \/ PlanDone
        BY <1>2 DEF Planner
      <3> QED
        BY <3>1 DEF PlanDir, PlanDrop, PlanTake, PlanRefuse, PlanDone, Planning, PlanNext, Refuse, pastVars
    <2>2. PlanDone => at' = "stage" \/ mode = "import"
      BY DEF PlanDone
    <2>3. mode # "import" /\ others = 0 => staged = <<>> /\ counted = Counts(disk)
      BY <2>1 DEF CountInv
    <2>4. others \in Nat /\ DOMAIN <<>> = {}
      BY DEF CountInv
    <2> QED
      BY <2>1, <2>2, <2>3, <2>4 DEF CountInv, Counts, Files
  <1>3. CASE Unpacker
    <2>1. mode' = mode /\ at = "write" /\ others' = others
      BY <1>3 DEF Unpacker, WriteEntry, WriteFail, WriteDone, Refuse, pastVars
    <2> QED
      BY <2>1 DEF CountInv
  <1>4. CASE Overlay
    <2>1. CASE OverlayFail
      <3>1. at' = "refused" /\ others' = others
        BY <2>1 DEF OverlayFail, Refuse, pastVars
      <3> QED
        BY <3>1 DEF CountInv
    <2> QED
      BY <1>4, <2>1, StagingCounts, PromoteCounts, DoneCounts DEF Overlay
  <1>5. ASSUME NEW p \in Paths, OtherPut(p) \/ OtherDelete(p)
        PROVE  CountInv'
    <2>1. others' = others + 1 /\ others \in Nat
      BY <1>5 DEF OtherPut, OtherDelete, CountInv
    <2> QED
      BY <2>1 DEF CountInv
  <1>6. CASE Exporter
    <2>1. at' \in {"zip", "failed", "bundled"} /\ others' = others
      BY <1>6 DEF Exporter, ExportWalk, ExportAdd, ExportFail, ExportDone, pastVars
    <2> QED
      BY <2>1 DEF CountInv
  <1>7. CASE Reimport
    <2>1. mode' = "import" /\ others' = others
      BY <1>7 DEF Reimport, pastVars
    <2> QED
      BY <2>1 DEF CountInv
  <1>8. CASE UNCHANGED vars
    <2>1. /\ mode' = mode /\ at' = at /\ others' = others /\ staged' = staged /\ next' = next
          /\ disk' = disk /\ counted' = counted
      BY <1>8 DEF vars, pastVars
    <2> QED
      BY <2>1 DEF CountInv, Covers, Counts, Files, Promoted, StagedSizes
  <1> QED
    BY <1>1, <1>2, <1>3, <1>4, <1>5, <1>6, <1>7, <1>8 DEF Next

\* The counters of a finished overlay cover the directory.
LEMMA CountInvCounted == Typed /\ CountInv => OverlayCounted
  <1> SUFFICES ASSUME Typed, CountInv, mode # "import", at = "done", others = 0
               PROVE  /\ counted.bytes >= Total(disk) /\ counted.files >= Cardinality(Files(disk))
                      /\ mode = "skip" => counted = [bytes |-> Total(disk), files |-> Cardinality(Files(disk))]
    BY DEF OverlayCounted
  <1>1. Covers(counted.bytes, counted.files)
    BY DEF CountInv
  <1>2. /\ counted \in [bytes : Nat, files : Nat] /\ Total(disk) \in Nat /\ Cardinality(Files(disk)) \in Nat
    BY TotalFacts DEF Typed
  <1>3. counted.bytes >= Total(disk) /\ counted.files >= Cardinality(Files(disk))
    BY <1>1, <1>2 DEF Covers
  <1>4. mode = "skip" => counted = [bytes |-> Total(disk), files |-> Cardinality(Files(disk))]
    BY <1>1, <1>2 DEF Covers
  <1> QED
    BY <1>3, <1>4

-----------------------------------------------------------------------------
(* The theorems.                                                           *)

ArchiveInv == Typed /\ ExportInv /\ ImportInv /\ CountInv

\* Every step of an import, an overlay, an export or another request keeps the
\* four invariants, and the program starts with them.
THEOREM ArchiveInvariant == Spec => []ArchiveInv
  <1>1. Init => ArchiveInv
    BY TypedInit, ExportInit, ImportInit, CountInit DEF ArchiveInv
  <1>2. ArchiveInv /\ [Next]_vars => ArchiveInv'
    BY TypedNext, ExportNext, ImportNext, CountNext DEF ArchiveInv
  <1> QED
    BY <1>1, <1>2, PTL DEF Spec

\* The type invariant: whatever an archive brings and other requests write or
\* delete, a session's directory is one, with every name below directories.
THEOREM ArchiveTypeCorrect == Spec => []TypeOK
  <1>1. ArchiveInv => TypeOK
    BY TypedTypeOK DEF ArchiveInv
  <1> QED
    BY <1>1, ArchiveInvariant, PTL

\* build_plan and unpack_into import an archive if, and only if, all of it can
\* be, and import_archive leaves no file of one that it refuses.
THEOREM ImportsAreWhole == Spec => []ImportedIffSound
  <1>1. ArchiveInv => ImportedIffSound
    BY ImportInvIffSound DEF ArchiveInv
  <1> QED
    BY <1>1, ArchiveInvariant, PTL

\* An imported session has the files the archive brings and no others, and its
\* counters say how many and how large they are.
THEOREM ImportsAreExact == Spec => []ImportExact
  <1>1. ArchiveInv => ImportExact
    BY ImportInvExact DEF ArchiveInv
  <1> QED
    BY <1>1, ArchiveInvariant, PTL

\* A finished overlay has left no byte uncounted, and has counted none twice when
\* it keeps what is there.
THEOREM OverlaysAreCounted == Spec => []OverlayCounted
  <1>1. ArchiveInv => OverlayCounted
    BY CountInvCounted DEF ArchiveInv
  <1> QED
    BY <1>1, ArchiveInvariant, PTL

\* A bundle names no file twice, and has every file that no other request touched
\* while it was made.
THEOREM ExportsAreComplete == Spec => []ExportComplete
  <1>1. ArchiveInv => ExportComplete
    BY ExportInvComplete DEF ArchiveInv
  <1> QED
    BY <1>1, ArchiveInvariant, PTL

\* A session that is exported and imported again has its files back.
THEOREM ExportsComeBack == Spec => []RoundTrip
  <1>1. ArchiveInv => RoundTrip
    BY ImportInvRoundTrip DEF ArchiveInv
  <1> QED
    BY <1>1, ArchiveInvariant, PTL

\* The file that pick_default_entry names to the page is one of the session's.
THEOREM EntryIsThere == Spec => []EntryOpens
  <1>1. ArchiveInv => EntryOpens
    BY TypedEntryOpens DEF ArchiveInv
  <1> QED
    BY <1>1, ArchiveInvariant, PTL
=============================================================================
