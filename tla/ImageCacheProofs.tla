--------------------------- MODULE ImageCacheProofs ---------------------------
(***************************************************************************)
(* Proofs about ImageCache, for any threads, tars, images and bounds.      *)
(***************************************************************************)
EXTENDS ImageCache, FiniteSetTheorems, TLAPS

-------------------------------------------------------------------------------
(* Counting *)

\* A tar holds finitely many images, so its image count is a number.
LEMMA CountType == \A k \in Tars : CountIn(k) \in Nat /\ IsFiniteSet(InTar[k])
<1> TAKE k \in Tars
<1>1. InTar[k] \subseteq Members /\ IsFiniteSet(Members)
  BY TarAssumption
<1>2. IsFiniteSet(InTar[k])
  BY <1>1, FS_Subset
<1> QED BY <1>2, FS_CardinalityType DEF CountIn

\* Rounding up a quotient of natural numbers gives a natural number.
LEMMA CeilDivType == \A n \in Nat : \A d \in Nat \ {0} : CeilDiv(n, d) \in Nat
  BY Z3 DEF CeilDiv

\* The two target formulas give numbers of images; the review target is never 0.
LEMMA TargetType ==
    /\ \A c \in Nat \cup {NoTotal} : \A f \in Nat : ReviewTarget(c, f) \in Nat \ {0}
    /\ \A c \in Nat : PrefetchTarget(c) \in Nat
<1>1. ASSUME NEW c \in Nat PROVE CeilDiv(c, ReviewParts) \in Nat /\ CeilDiv(c, PrefetchParts) \in Nat
  BY CeilDivType, CountAssumption
<1>2. \A c \in Nat \cup {NoTotal} : \A f \in Nat : ReviewTarget(c, f) \in Nat \ {0}
  BY <1>1 DEF ReviewTarget, Greatest, Or
<1>3. \A c \in Nat : PrefetchTarget(c) \in Nat
  BY <1>1, CountAssumption DEF PrefetchTarget, Least, Greatest
<1> QED BY <1>2, <1>3

\* A set is an initial segment of the naturals as soon as it is written as one.
LEMMA SegmentCount ==
    ASSUME NEW n \in Nat
    PROVE  IsFiniteSet(0 .. n - 1) /\ Cardinality(0 .. n - 1) = n
  BY FS_Interval, 0 \in Int, n - 1 \in Int

-------------------------------------------------------------------------------
(* The inductive invariant *)

\* The rows are numbered without gaps and no member occurs twice.
SampleInv ==
    /\ Segment(DOMAIN rows)
    /\ \A i, j \in DOMAIN rows : rows[i].member = rows[j].member => i = j

\* Whoever executes the body of "with _run_lock" holds the lock of its process.
LockInv == \A t \in Threads : Inside(t) => lock[Home[t]] = t

Fetching(t) == pc[t] \in {"write", "save"}

\* No manifest outlives the run's tar key: prefetch workers are the only threads that
\* keep one, and a sync is what changes the key.
ManifestsHold == "prefetch" \notin Kinds \/ "sync" \notin Environment

\* A prefetch works with the manifest of the tar it read at its start.  What is read
\* from another tar than the manifest's is read by a prefetch, after a sync.
SourceInv == \A t \in Threads :
    /\ pc[t] \in {"preRead", "preManifest", "preTotal", "chunk"} => kind[t] = "prefetch"
    /\ pc[t] \in {"preManifest", "preTotal", "chunk"} \/ (Fetching(t) /\ mode[t] = "chunk")
       => kind[t] = "prefetch" /\ ("sync" \notin Environment => key[t] = tar)
    /\ kind[t] = "prefetch" => "prefetch" \in Kinds
    /\ Fetching(t) /\ ManifestsHold => source[t] = key[t]

\* Served files show their rows' members, as long as no manifest is out of date.
ServedInv == ManifestsHold => ServedFileIsItsRow

\* What a thread has planned still fits the rows, and what it has written so far
\* shows the members it planned.
Fits(r, s, p) ==
    /\ DOMAIN s = DOMAIN r
    /\ \A i \in DOMAIN r : s[i].member = r[i].member
    /\ Segment(DOMAIN r \cup DOMAIN p)
    /\ \A i \in DOMAIN p : IF i \in DOMAIN r THEN p[i] = r[i].member
                                           ELSE p[i] \notin MembersOf(r)
    /\ \A i, j \in DOMAIN p \ DOMAIN r : p[i] = p[j] => i = j

Written(t) ==
    /\ todo[t] \subseteq DOMAIN plan[t]
    /\ pc[t] = "save" => saving[t] \in todo[t]
    /\ ManifestsHold =>
          \A i \in DOMAIN plan[t] \ todo[t] :
              i \in DOMAIN file => file[i] \in {plan[t][i], Partial}

PlanInv == \A t \in Threads : Fetching(t) => Fits(rows, snap[t], plan[t]) /\ Written(t)

IInv == TypeOK /\ SampleInv /\ LockInv /\ SourceInv /\ PlanInv /\ ServedInv

\* One server process, as the comment on the locking model assumes.
OneProcess == \A t, u \in Threads : Home[t] = Home[u]

-------------------------------------------------------------------------------
(* Types *)

\* Counting some of the rows gives a number.
LEMMA RowCount ==
    ASSUME SampleInv
    PROVE  /\ IsFiniteSet(DOMAIN rows)
           /\ DOMAIN rows = 0 .. Size(rows) - 1
           /\ Size(rows) \in Nat
           /\ \A n \in Nat : /\ Active(rows, n) \in Nat
                             /\ CachedOnDisk(rows, n) \in Nat
                             /\ CachedInDb(rows, n) \in Nat
<1>2. IsFiniteSet(DOMAIN rows) /\ DOMAIN rows = 0 .. Size(rows) - 1
  BY DEF SampleInv, Segment, Size
<1>3. \A S \in SUBSET DOMAIN rows : Cardinality(S) \in Nat
  BY <1>2, FS_Subset, FS_CardinalityType
<1>4. Size(rows) \in Nat
  BY <1>3 DEF Size
<1>5. ASSUME NEW n \in Nat
      PROVE  /\ Active(rows, n) \in Nat
             /\ CachedOnDisk(rows, n) \in Nat
             /\ CachedInDb(rows, n) \in Nat
  <2>1. /\ {i \in DOMAIN rows : i < n} \in SUBSET DOMAIN rows
        /\ {i \in DOMAIN rows : i < n /\ OnDisk(rows, i)} \in SUBSET DOMAIN rows
        /\ {i \in DOMAIN rows : i < n /\ rows[i].path} \in SUBSET DOMAIN rows
    OBVIOUS
  <2> QED BY <2>1, <1>3 DEF Active, CachedOnDisk, CachedInDb
<1> QED BY <1>2, <1>4, <1>5

\* An empty map is a map.
LEMMA EmptyMap == \A values : IsMap(Empty, values)
  BY DEF IsMap, Empty

\* A tar exists to stand for an unread key.
LEMMA AnyTarType == TypeOK => AnyTar \in Tars
  BY DEF TypeOK, AnyTar

\* The part of TypeOK about what a thread has planned.
WorkOK ==
    /\ mode \in [Threads -> {"none", "select", "recache", "chunk", "lastChunk"}]
    /\ saving \in [Threads -> Nat]
    /\ todo \in [Threads -> SUBSET Nat]
    /\ DOMAIN snap = Threads /\ DOMAIN plan = Threads
    /\ source \in [Threads -> Tars]
    /\ \A t \in Threads : IsMap(snap[t], Row) /\ IsMap(plan[t], Members)

\* Leaving the run lock keeps the types of what it changes.
LEMMA LeaveType ==
    ASSUME TypeOK, NEW t \in Threads
    PROVE  /\ ClearWork(t) => WorkOK'
           /\ Leave(t) => /\ WorkOK'
                          /\ lock' \in [Processes -> Threads \cup {NoThread}]
                          /\ pc' \in [Threads -> FreeLabels \cup LockedLabels \cup CountLabels]
<1>1. ASSUME ClearWork(t) PROVE WorkOK'
  <2>1. /\ mode' \in [Threads -> {"none", "select", "recache", "chunk", "lastChunk"}]
        /\ saving' \in [Threads -> Nat]
        /\ todo' \in [Threads -> SUBSET Nat]
        /\ DOMAIN snap' = Threads /\ DOMAIN plan' = Threads
        /\ source' \in [Threads -> Tars]
    BY <1>1, AnyTarType DEF ClearWork, TypeOK
  <2>2. ASSUME NEW u \in Threads PROVE IsMap(snap'[u], Row) /\ IsMap(plan'[u], Members)
    <3>1. CASE u = t
      <4>1. snap'[u] = Empty /\ plan'[u] = Empty
        BY <1>1, <3>1 DEF ClearWork, TypeOK
      <4> QED BY <4>1, EmptyMap
    <3>2. CASE u # t
      <4>1. snap'[u] = snap[u] /\ plan'[u] = plan[u]
        BY <1>1, <3>2 DEF ClearWork, TypeOK
      <4> QED BY <4>1 DEF TypeOK
    <3> QED BY <3>1, <3>2
  <2> QED BY <2>1, <2>2 DEF WorkOK
<1>2. ASSUME Leave(t)
      PROVE  /\ WorkOK'
             /\ lock' \in [Processes -> Threads \cup {NoThread}]
             /\ pc' \in [Threads -> FreeLabels \cup LockedLabels \cup CountLabels]
  BY <1>1, <1>2 DEF Leave, Goto, AfterRelease, TypeOK, FreeLabels, LockedLabels, CountLabels
<1> QED BY <1>1, <1>2

\* Preparing a well-formed plan keeps the types of what it changes.
LEMMA PrepareType ==
    ASSUME TypeOK, NEW t \in Threads, NEW p, NEW again, NEW m, NEW k \in Tars,
           IsMap(p, Members), again \subseteq Nat,
           m \in {"select", "recache", "chunk", "lastChunk"},
           Prepare(t, p, again, m, k)
    PROVE  WorkOK' /\ pc' = [pc EXCEPT ![t] = "write"]
<1>1. /\ mode' \in [Threads -> {"none", "select", "recache", "chunk", "lastChunk"}]
      /\ saving' \in [Threads -> Nat]
      /\ todo' \in [Threads -> SUBSET Nat]
      /\ DOMAIN snap' = Threads /\ DOMAIN plan' = Threads
      /\ source' \in [Threads -> Tars]
  BY DEF Prepare, TypeOK
<1>2. ASSUME NEW u \in Threads PROVE IsMap(snap'[u], Row) /\ IsMap(plan'[u], Members)
  <2>1. CASE u = t
    <3>1. snap'[u] = rows /\ plan'[u] = p
      BY <2>1 DEF Prepare, TypeOK
    <3> QED BY <3>1 DEF TypeOK
  <2>2. CASE u # t
    <3>1. snap'[u] = snap[u] /\ plan'[u] = plan[u]
      BY <2>2 DEF Prepare, TypeOK
    <3> QED BY <3>1 DEF TypeOK
  <2> QED BY <2>1, <2>2
<1> QED BY <1>1, <1>2 DEF WorkOK, Prepare, Goto

\* p holds distinct members of S, at the indexes from first on.
Numbered(p, first, S) ==
    \E k \in Nat : /\ p \in [first .. first + k - 1 -> S]
                   /\ IsMap(p, Members)
                   /\ \A i, j \in DOMAIN p : p[i] = p[j] => i = j

\* The picks are distinct candidates, at the indexes from first on.
LEMMA PicksFacts ==
    ASSUME NEW first \in Nat, NEW n \in Nat, NEW candidates, IsFiniteSet(candidates),
           candidates \subseteq Members, NEW p \in Picks(first, n, candidates)
    PROVE  Numbered(p, first, candidates)
<1> DEFINE k == Least(n, Cardinality(candidates))
<1>1. k \in Nat
  BY FS_CardinalityType DEF Least
<1>2. p \in [first .. first + k - 1 -> candidates]
  BY DEF Picks
<1>3. \A i, j \in first .. first + k - 1 : i < j => p[i] < p[j]
  BY DEF Picks
<1> HIDE DEF k
<1>4. \A i \in first .. first + k - 1 : i \in Nat /\ p[i] \in Nat
  <2>1. \A i \in first .. first + k - 1 : i \in Nat
    BY <1>1
  <2>2. \A i \in first .. first + k - 1 : p[i] \in Nat
    BY <1>2, TarAssumption
  <2> QED BY <2>1, <2>2
<1>5. \A i, j \in DOMAIN p : p[i] = p[j] => i = j
  BY <1>2, <1>3, <1>4
<1>6. IsMap(p, Members)
  BY <1>2, <1>4 DEF IsMap
<1> QED BY <1>1, <1>2, <1>5, <1>6 DEF Numbered

\* Existing rows to fetch again and fresh picks together make a plan.
LEMMA PlanType ==
    ASSUME TypeOK, NEW again \in SUBSET DOMAIN rows, NEW p, IsMap(p, Members)
    PROVE  /\ IsMap(Plan(rows, again, p), Members)
           /\ DOMAIN Plan(rows, again, p) = again \cup DOMAIN p
           /\ again \cup DOMAIN p \subseteq Nat
  BY DEF TypeOK, IsMap, Plan, Row

\* The number of images a bootstrap asks for is a number.
LEMMA BootCountType ==
    ASSUME TypeOK, SampleInv, NEW n \in Nat
    PROVE  BootCount(n) \in Nat
<1>1. Active(rows, target) \in Nat /\ CachedInDb(rows, target) \in Nat
  BY RowCount DEF TypeOK
<1> QED BY <1>1 DEF BootCount, Least, Greatest

\* What a thread has planned is finite and about rows that are still there, and a file
\* it is writing is one it has planned.
PlannedInv ==
    \A t \in Threads : Fetching(t) =>
        /\ DOMAIN snap[t] \subseteq DOMAIN rows
        /\ IsFiniteSet(DOMAIN snap[t] \cup DOMAIN plan[t])
        /\ todo[t] \subseteq DOMAIN plan[t]
        /\ pc[t] = "save" => saving[t] \in todo[t]

LEMMA PlansArePlanned == PlanInv => PlannedInv
  BY DEF PlanInv, PlannedInv, Fits, Written, Segment

\* Every step keeps the types.
LEMMA TypeStep ==
    ASSUME TypeOK, SampleInv, PlannedInv, [Next]_vars
    PROVE  TypeOK'
<1>1. ASSUME NEW t \in Threads, StartView(t) PROVE TypeOK'
  BY <1>1, TargetType, CountAssumption DEF TypeOK, Goto, db, work, locals, FreeLabels, LockedLabels, CountLabels, StartView, Start, Or
<1>2. ASSUME NEW t \in Threads, StartAppend(t) PROVE TypeOK'
  BY <1>2 DEF TypeOK, Goto, db, work, locals, FreeLabels, LockedLabels, CountLabels, StartAppend, Start
<1>3. ASSUME NEW t \in Threads, StartFile(t) PROVE TypeOK'
  BY <1>3 DEF TypeOK, Goto, db, work, locals, FreeLabels, LockedLabels, CountLabels, StartFile, Start, IsMap
<1>4. ASSUME NEW t \in Threads, StartBootstrap(t) PROVE TypeOK'
  BY <1>4 DEF TypeOK, Goto, db, work, locals, FreeLabels, LockedLabels, CountLabels, StartBootstrap, Start
<1>5. ASSUME NEW t \in Threads, StartWorker(t) PROVE TypeOK'
  BY <1>5 DEF TypeOK, Goto, db, work, locals, FreeLabels, LockedLabels, CountLabels, StartWorker, Start
<1>6. ASSUME NEW t \in Threads, StartRetarget(t) PROVE TypeOK'
  BY <1>6, TargetType DEF TypeOK, Goto, db, work, locals, FreeLabels, LockedLabels, CountLabels, StartRetarget, Start
<1>7. ASSUME NEW t \in Threads, StartRepair(t) PROVE TypeOK'
  BY <1>7 DEF TypeOK, Goto, db, work, locals, FreeLabels, LockedLabels, CountLabels, StartRepair, Start, IsMap
<1>8. ASSUME NEW t \in Threads, CountRead(t) PROVE TypeOK'
  BY <1>8 DEF TypeOK, Goto, db, work, locals, FreeLabels, LockedLabels, CountLabels, CountRead, AfterCount
<1>9. ASSUME NEW t \in Threads, CountFetch(t) PROVE TypeOK'
  BY <1>9, CountType DEF TypeOK, Goto, db, work, locals, FreeLabels, LockedLabels, CountLabels, CountFetch, AfterCount
<1>10. ASSUME NEW t \in Threads, CountWrite(t) PROVE TypeOK'
  BY <1>10 DEF TypeOK, Goto, db, work, locals, FreeLabels, LockedLabels, CountLabels, CountWrite, AfterCount
<1>11. ASSUME NEW t \in Threads, Acquire(t) PROVE TypeOK'
  BY <1>11 DEF TypeOK, Goto, db, work, locals, FreeLabels, LockedLabels, CountLabels, Acquire, AfterLock
<1>12. ASSUME NEW t \in Threads, Bump(t) PROVE TypeOK'
  BY <1>12, CountAssumption DEF TypeOK, Goto, db, work, locals, FreeLabels, LockedLabels, CountLabels, Bump, Or, Least
<1>13. ASSUME NEW t \in Threads, Snapshot(t) PROVE TypeOK'
  <2> DEFINE again == Missing(rows, want[t])
             fresh == InTar[tar] \ MembersOf(rows)
  <2>1. /\ UNCHANGED <<db, file, kind, want, counted>>
        /\ key' \in [Threads -> Tars]
    BY <1>13 DEF Snapshot, TypeOK
  <2>2. again \in SUBSET DOMAIN rows
    BY DEF Missing
  <2>3. CASE Leave(t) /\ UNCHANGED key
    BY <2>1, <2>3, LeaveType DEF TypeOK, WorkOK, db
  <2>4. CASE Prepare(t, Plan(rows, again, Empty), again, "recache", tar) /\ UNCHANGED lock
    <3>1. IsMap(Plan(rows, again, Empty), Members) /\ again \subseteq Nat
      BY <2>2, EmptyMap, PlanType
    <3>2. WorkOK' /\ pc' = [pc EXCEPT ![t] = "write"]
      <4>1. tar \in Tars
        BY DEF TypeOK
      <4> QED BY <2>4, <3>1, <4>1, PrepareType
    <3> QED BY <2>1, <2>4, <3>2 DEF TypeOK, WorkOK, db, LockedLabels
  <2>5. ASSUME Size(rows) < want[t], UNCHANGED lock,
               NEW p \in Picks(Size(rows), want[t] - Size(rows), fresh),
               Prepare(t, Plan(rows, again, p), again \cup DOMAIN p, "select", tar)
        PROVE  TypeOK'
    <3>1. fresh \subseteq Members /\ IsFiniteSet(fresh)
      BY CountType, TarAssumption, FS_Subset DEF TypeOK
    <3>2. want[t] - Size(rows) \in Nat /\ Size(rows) \in Nat
      <4>1. want[t] \in Nat /\ Size(rows) \in Nat
        BY RowCount DEF TypeOK
      <4> QED BY <2>5, <4>1
    <3>3. IsMap(p, Members)
      BY <2>5, <3>1, <3>2, PicksFacts DEF Numbered
    <3>4. /\ IsMap(Plan(rows, again, p), Members)
          /\ again \cup DOMAIN p \subseteq Nat
      BY <2>2, <3>3, PlanType
    <3>5. WorkOK' /\ pc' = [pc EXCEPT ![t] = "write"]
      <4>1. tar \in Tars
        BY DEF TypeOK
      <4> QED BY <2>5, <3>4, <4>1, PrepareType
    <3> QED BY <2>1, <2>5, <3>5 DEF TypeOK, WorkOK, db, LockedLabels
  <2> QED BY <1>13, <2>3, <2>4, <2>5 DEF Snapshot
<1>14. ASSUME NEW t \in Threads, FileRead(t) PROVE TypeOK'
  <2>1. /\ UNCHANGED <<db, file, locals>>
        /\ want[t] \in DOMAIN rows => {want[t]} \in SUBSET DOMAIN rows
    BY <1>14 DEF FileRead
  <2>2. CASE Leave(t)
    BY <2>1, <2>2, LeaveType DEF TypeOK, WorkOK, db, locals
  <2>3. CASE /\ want[t] \in DOMAIN rows
             /\ Prepare(t, Plan(rows, {want[t]}, Empty), {want[t]}, "recache", key[t])
             /\ UNCHANGED lock
    <3>1. IsMap(Plan(rows, {want[t]}, Empty), Members) /\ {want[t]} \subseteq Nat
      BY <2>1, <2>3, EmptyMap, PlanType
    <3>2. WorkOK' /\ pc' = [pc EXCEPT ![t] = "write"]
      <4>1. key[t] \in Tars
        BY DEF TypeOK
      <4> QED BY <2>3, <3>1, <4>1, PrepareType
    <3> QED BY <2>1, <2>3, <3>2 DEF TypeOK, WorkOK, db, locals, LockedLabels
  <2> QED BY <1>14, <2>2, <2>3 DEF FileRead
<1>15. ASSUME NEW t \in Threads, OpenFile(t) PROVE TypeOK'
  BY <1>15 DEF TypeOK, Goto, db, work, locals, FreeLabels, LockedLabels, CountLabels, OpenFile, IsMap, Put
<1>16. ASSUME NEW t \in Threads, SaveFile(t) PROVE TypeOK'
  <2>1. Shown(t, saving[t]) \subseteq Members /\ saving[t] \in Nat
    <3>1. saving[t] \in DOMAIN plan[t] /\ source[t] \in Tars
      BY <1>16 DEF SaveFile, PlannedInv, Fetching, TypeOK
    <3>2. plan[t][saving[t]] \in Members /\ saving[t] \in Nat
      BY <3>1 DEF TypeOK, IsMap
    <3>3. InTar[source[t]] \subseteq Members
      BY <3>1, TarAssumption
    <3> QED BY <3>2, <3>3 DEF Shown
  <2>2. IsMap(file', Members \cup {Partial})
    BY <1>16, <2>1 DEF SaveFile, Put, TypeOK, IsMap
  <2> QED BY <1>16, <2>2 DEF SaveFile, TypeOK, Goto, db, locals, LockedLabels
<1>17. ASSUME NEW t \in Threads, Persist(t) PROVE TypeOK'
  <2>1. IsMap(rows', Row)
    <3>1. IsMap(rows, Row) /\ IsMap(plan[t], Members) /\ rows' = Recorded(snap[t], plan[t])
      BY <1>17 DEF Persist, TypeOK
    <3>2. \A i \in DOMAIN snap[t] : i \in DOMAIN rows
      BY <1>17 DEF Persist, PlannedInv, Fetching
    <3>3. DOMAIN rows' = DOMAIN rows \cup DOMAIN plan[t]
      BY <3>1 DEF Recorded
    <3>4. ASSUME NEW i \in DOMAIN rows' PROVE rows'[i] \in Row
      BY <3>1, <3>2, <3>3 DEF Recorded, IsMap, Row
    <3> QED BY <3>1, <3>3, <3>4 DEF IsMap, Recorded
  <2>2. total' \in Nat \cup {NoTotal}
    BY <1>17, CountType DEF Persist, TypeOK
  <2>3. target' \in Nat
    <3>1. IsFiniteSet(DOMAIN snap[t] \cup DOMAIN plan[t])
      BY <1>17 DEF Persist, PlannedInv, Fetching
    <3>2. Cardinality(DOMAIN snap[t] \cup DOMAIN plan[t]) \in Nat
      BY <3>1, FS_CardinalityType
    <3> QED BY <1>17, <3>2 DEF Persist, Shrunk, TypeOK
  <2>4. UNCHANGED <<tar, file, locals>>
    BY <1>17 DEF Persist
  <2>5. CASE Goto(t, "chunk") /\ ClearWork(t) /\ UNCHANGED lock
    BY <2>1, <2>2, <2>3, <2>4, <2>5, LeaveType DEF TypeOK, WorkOK, Goto, locals, LockedLabels
  <2>6. CASE Leave(t)
    BY <2>1, <2>2, <2>3, <2>4, <2>6, LeaveType DEF TypeOK, WorkOK, locals
  <2> QED BY <1>17, <2>5, <2>6 DEF Persist
<1>18. ASSUME NEW t \in Threads, NextRead(t) PROVE TypeOK'
  BY <1>18, TargetType DEF TypeOK, Goto, db, work, locals, FreeLabels, LockedLabels, CountLabels, NextRead, Or
<1>19. ASSUME NEW t \in Threads, NextPlan(t) PROVE TypeOK'
  <2>1. /\ Active(rows, want[t]) \in Nat /\ CachedOnDisk(rows, want[t]) \in Nat
        /\ UNCHANGED <<db, file, kind, counted, key>>
    BY <1>19, RowCount DEF NextPlan, TypeOK
  <2>2. CASE Leave(t) /\ UNCHANGED want
    BY <2>1, <2>2, LeaveType DEF TypeOK, WorkOK, db
  <2>3. CASE /\ want' = [want EXCEPT ![t] =
                   Least(want[t], Greatest(Active(rows, want[t]), CachedOnDisk(rows, want[t]) + 1))]
             /\ Goto(t, "snap") /\ UNCHANGED <<lock, work>>
    <3>1. want' \in [Threads -> Nat]
      BY <2>1, <2>3 DEF Least, Greatest, TypeOK
    <3> QED BY <2>1, <2>3, <3>1 DEF TypeOK, Goto, db, work, LockedLabels
  <2> QED BY <1>19, <2>2, <2>3 DEF NextPlan
<1>20. ASSUME NEW t \in Threads, PreRead(t) PROVE TypeOK'
  BY <1>20 DEF TypeOK, Goto, db, work, locals, FreeLabels, LockedLabels, CountLabels, PreRead
<1>21. ASSUME NEW t \in Threads, PreManifest(t) PROVE TypeOK'
  <2>1. UNCHANGED <<db, file, locals>>
    BY <1>21 DEF PreManifest
  <2>2. CASE Leave(t)
    BY <2>1, <2>2, LeaveType DEF TypeOK, WorkOK, db, locals
  <2>3. CASE Goto(t, "preTotal") /\ UNCHANGED <<lock, work>>
    BY <2>1, <2>3 DEF TypeOK, Goto, db, work, locals, FreeLabels, LockedLabels, CountLabels
  <2> QED BY <1>21, <2>2, <2>3 DEF PreManifest
<1>22. ASSUME NEW t \in Threads, PreTotal(t) PROVE TypeOK'
  <2>1. total' \in Nat /\ UNCHANGED <<target, tar, rows, file, locals>>
    BY <1>22, CountType DEF PreTotal, TypeOK
  <2>2. CASE Leave(t)
    BY <2>1, <2>2, LeaveType DEF TypeOK, WorkOK, locals
  <2>3. CASE Goto(t, "chunk") /\ UNCHANGED <<lock, work>>
    BY <2>1, <2>3 DEF TypeOK, Goto, db, work, locals, FreeLabels, LockedLabels, CountLabels
  <2> QED BY <1>22, <2>2, <2>3 DEF PreTotal
<1>23. ASSUME NEW t \in Threads, Chunk(t) PROVE TypeOK'
  <2> DEFINE current == Or(target, DefaultCount)
             goal == Greatest(current, PrefetchTarget(CountIn(key[t])))
             upTo == Least(goal, Greatest(Size(rows), current) + ChunkSize)
             again == Missing(rows, upTo)
             fresh == InTar[key[t]] \ MembersOf(rows)
  <2>1. UNCHANGED <<db, file, locals>> /\ key[t] \in Tars /\ tar \in Tars
    BY <1>23 DEF Chunk, TypeOK
  <2>2. CASE Leave(t)
    BY <2>1, <2>2, LeaveType DEF TypeOK, WorkOK, db, locals
  <2>3. ASSUME UNCHANGED lock,
               NEW p \in Picks(Size(rows), Greatest(0, upTo - Size(rows)), fresh),
               NEW m \in {"chunk", "lastChunk"},
               Prepare(t, Plan(rows, again, p), again \cup DOMAIN p, m, tar)
        PROVE  TypeOK'
    <3>1. fresh \subseteq Members /\ IsFiniteSet(fresh)
      BY <2>1, CountType, TarAssumption, FS_Subset
    <3>2. Size(rows) \in Nat /\ Greatest(0, upTo - Size(rows)) \in Nat
      <4>1. current \in Nat /\ Size(rows) \in Nat /\ ChunkSize \in Nat
        BY CountAssumption, RowCount DEF TypeOK, Or
      <4>2. goal \in Nat
        BY <2>1, <4>1, CountType, TargetType DEF Greatest
      <4> HIDE DEF current, goal
      <4> QED BY <4>1, <4>2 DEF Greatest, Least
    <3>3. IsMap(p, Members)
      BY <2>3, <3>1, <3>2, PicksFacts DEF Numbered
    <3>4. IsMap(Plan(rows, again, p), Members) /\ again \cup DOMAIN p \subseteq Nat
      <4>1. again \in SUBSET DOMAIN rows
        BY DEF Missing
      <4> QED BY <3>3, <4>1, PlanType
    <3>5. WorkOK' /\ pc' = [pc EXCEPT ![t] = "write"]
      BY <2>1, <2>3, <3>4, PrepareType
    <3> QED BY <2>1, <2>3, <3>5 DEF TypeOK, WorkOK, db, locals, LockedLabels
  <2>4. "chunk" \in {"chunk", "lastChunk"} /\ "lastChunk" \in {"chunk", "lastChunk"}
    OBVIOUS
  <2> QED BY <1>23, <2>2, <2>3, <2>4 DEF Chunk
<1>24. ASSUME NEW t \in Threads, BootRead(t) PROVE TypeOK'
  <2>1. Or(target, 1) \in Nat
    BY DEF TypeOK, Or
  <2>2. ReviewTarget(counted[t], Or(target, 1)) \in Nat
    BY <2>1, TargetType DEF TypeOK
  <2>3. BootCount(Or(target, 1)) \in Nat
    BY <2>1, BootCountType
  <2> QED BY <1>24, <2>2, <2>3 DEF TypeOK, Goto, db, work, locals, FreeLabels, LockedLabels, CountLabels, BootRead
<1>25. ASSUME NEW t \in Threads, BootReread(t) PROVE TypeOK'
  <2>1. BootCount(Or(target, 1)) \in Nat
    BY BootCountType DEF TypeOK, Or
  <2> QED BY <1>25, <2>1 DEF TypeOK, Goto, db, work, locals, FreeLabels, LockedLabels, CountLabels, BootReread
<1>26. ASSUME NEW t \in Threads, BootEnd(t) PROVE TypeOK'
  <2>1. ReviewTarget(total, target) \in Nat
    BY TargetType DEF TypeOK
  <2> QED BY <1>26, <2>1 DEF TypeOK, Goto, db, work, locals, FreeLabels, LockedLabels, CountLabels, BootEnd
<1>27. ASSUME NEW t \in Threads, WriteTarget(t) PROVE TypeOK'
  BY <1>27 DEF TypeOK, Goto, db, work, locals, FreeLabels, LockedLabels, CountLabels, WriteTarget, AfterSet
<1>28. ASSUME NEW t \in Threads, ClearPaths(t) PROVE TypeOK'
  <2>1. IsMap(rows', Row)
    BY <1>28 DEF ClearPaths, TypeOK, IsMap, Row
  <2>2. WorkOK'
    BY <1>28, LeaveType DEF ClearPaths
  <2> QED BY <1>28, <2>1, <2>2 DEF ClearPaths, WorkOK, TypeOK, Goto, locals, FreeLabels
<1>29. ASSUME NEW t \in Threads, Reply(t) PROVE TypeOK'
  BY <1>29, AnyTarType DEF TypeOK, Goto, db, work, locals, FreeLabels, LockedLabels, CountLabels, Reply, Forget
<1>30. ASSUME NEW t \in Threads, Fail(t) PROVE TypeOK'
  <2>1. WorkOK'
    BY <1>30, LeaveType DEF Fail
  <2>2. IsMap(file', Members \cup {Partial})
    BY <1>30 DEF Fail, Drop, TypeOK, IsMap
  <2> QED BY <1>30, <2>1, <2>2, AnyTarType DEF Fail, WorkOK, TypeOK, Goto, Forget, db, FreeLabels
<1>31. CASE SyncTar
  BY <1>31 DEF SyncTar, TypeOK, locals, work
<1>32. CASE DeleteFile
  BY <1>32 DEF DeleteFile, Drop, TypeOK, IsMap, db, locals, work
<1>33. CASE UNCHANGED vars
  BY <1>33 DEF vars, TypeOK, db, locals, work
<1> QED
  BY <1>1, <1>2, <1>3, <1>4, <1>5, <1>6, <1>7, <1>8, <1>9, <1>10, <1>11, <1>12, <1>13, <1>14, <1>15, <1>16, <1>17, <1>18, <1>19, <1>20, <1>21, <1>22, <1>23, <1>24, <1>25, <1>26, <1>27, <1>28, <1>29, <1>30, <1>31, <1>32, <1>33 DEF Next, Begin, Step, Locked

-------------------------------------------------------------------------------
(* The run lock *)

\* Every step keeps the run lock with the thread inside its body.
LEMMA LockStep ==
    ASSUME TypeOK, LockInv, [Next]_vars
    PROVE  LockInv'
<1> USE DEF TypeOK, LockInv, Inside, Goto, LockedLabels, CountLabels, locals
<1>1. ASSUME NEW t \in Threads, StartView(t) PROVE LockInv'
  BY <1>1, ThreadAssumption DEF StartView, Start
<1>2. ASSUME NEW t \in Threads, StartAppend(t) PROVE LockInv'
  BY <1>2, ThreadAssumption DEF StartAppend, Start
<1>3. ASSUME NEW t \in Threads, StartFile(t) PROVE LockInv'
  BY <1>3, ThreadAssumption DEF StartFile, Start
<1>4. ASSUME NEW t \in Threads, StartBootstrap(t) PROVE LockInv'
  BY <1>4, ThreadAssumption DEF StartBootstrap, Start
<1>5. ASSUME NEW t \in Threads, StartWorker(t) PROVE LockInv'
  BY <1>5, ThreadAssumption DEF StartWorker, Start
<1>6. ASSUME NEW t \in Threads, StartRetarget(t) PROVE LockInv'
  BY <1>6, ThreadAssumption DEF StartRetarget, Start
<1>7. ASSUME NEW t \in Threads, StartRepair(t) PROVE LockInv'
  BY <1>7, ThreadAssumption DEF StartRepair, Start
<1>8. ASSUME NEW t \in Threads, CountRead(t) PROVE LockInv'
  BY <1>8, ThreadAssumption DEF CountRead, AfterCount
<1>9. ASSUME NEW t \in Threads, CountFetch(t) PROVE LockInv'
  BY <1>9, ThreadAssumption DEF CountFetch, AfterCount
<1>10. ASSUME NEW t \in Threads, CountWrite(t) PROVE LockInv'
  BY <1>10, ThreadAssumption DEF CountWrite, AfterCount
<1>11. ASSUME NEW t \in Threads, Acquire(t) PROVE LockInv'
  BY <1>11, ThreadAssumption DEF Acquire, AfterLock
<1>12. ASSUME NEW t \in Threads, Bump(t) PROVE LockInv'
  BY <1>12, ThreadAssumption DEF Bump
<1>13. ASSUME NEW t \in Threads, Snapshot(t) PROVE LockInv'
  BY <1>13, ThreadAssumption DEF Snapshot, Prepare, Leave, AfterRelease
<1>14. ASSUME NEW t \in Threads, FileRead(t) PROVE LockInv'
  BY <1>14, ThreadAssumption DEF FileRead, Prepare, Leave, AfterRelease
<1>15. ASSUME NEW t \in Threads, OpenFile(t) PROVE LockInv'
  BY <1>15, ThreadAssumption DEF OpenFile
<1>16. ASSUME NEW t \in Threads, SaveFile(t) PROVE LockInv'
  BY <1>16, ThreadAssumption DEF SaveFile
<1>17. ASSUME NEW t \in Threads, Persist(t) PROVE LockInv'
  BY <1>17, ThreadAssumption DEF Persist, Leave, AfterRelease
<1>18. ASSUME NEW t \in Threads, NextRead(t) PROVE LockInv'
  BY <1>18, ThreadAssumption DEF NextRead
<1>19. ASSUME NEW t \in Threads, NextPlan(t) PROVE LockInv'
  BY <1>19, ThreadAssumption DEF NextPlan, Leave, AfterRelease
<1>20. ASSUME NEW t \in Threads, PreRead(t) PROVE LockInv'
  BY <1>20, ThreadAssumption DEF PreRead
<1>21. ASSUME NEW t \in Threads, PreManifest(t) PROVE LockInv'
  BY <1>21, ThreadAssumption DEF PreManifest, Leave, AfterRelease
<1>22. ASSUME NEW t \in Threads, PreTotal(t) PROVE LockInv'
  BY <1>22, ThreadAssumption DEF PreTotal, Leave, AfterRelease
<1>23. ASSUME NEW t \in Threads, Chunk(t) PROVE LockInv'
  BY <1>23, ThreadAssumption DEF Chunk, Prepare, Leave, AfterRelease
<1>24. ASSUME NEW t \in Threads, BootRead(t) PROVE LockInv'
  BY <1>24, ThreadAssumption DEF BootRead
<1>25. ASSUME NEW t \in Threads, BootReread(t) PROVE LockInv'
  BY <1>25, ThreadAssumption DEF BootReread
<1>26. ASSUME NEW t \in Threads, BootEnd(t) PROVE LockInv'
  BY <1>26, ThreadAssumption DEF BootEnd
<1>27. ASSUME NEW t \in Threads, WriteTarget(t) PROVE LockInv'
  BY <1>27, ThreadAssumption DEF WriteTarget, AfterSet
<1>28. ASSUME NEW t \in Threads, ClearPaths(t) PROVE LockInv'
  BY <1>28, ThreadAssumption DEF ClearPaths
<1>29. ASSUME NEW t \in Threads, Reply(t) PROVE LockInv'
  BY <1>29, ThreadAssumption DEF Reply, Forget
<1>30. ASSUME NEW t \in Threads, Fail(t) PROVE LockInv'
  BY <1>30, ThreadAssumption DEF Fail, Forget
<1>31. CASE SyncTar \/ DeleteFile \/ UNCHANGED vars
  BY <1>31 DEF SyncTar, DeleteFile, vars
<1> QED
  BY <1>1, <1>2, <1>3, <1>4, <1>5, <1>6, <1>7, <1>8, <1>9, <1>10, <1>11, <1>12, <1>13, <1>14, <1>15, <1>16, <1>17, <1>18, <1>19, <1>20, <1>21, <1>22, <1>23, <1>24, <1>25, <1>26, <1>27, <1>28, <1>29, <1>30, <1>31 DEF Next, Begin, Step, Locked

-------------------------------------------------------------------------------
(* The manifest and the tar it is applied to *)

\* Every step keeps what a fetching thread reads from in agreement with its manifest.
LEMMA SourceStep ==
    ASSUME TypeOK, SourceInv, [Next]_vars
    PROVE  SourceInv'
<1> USE DEF TypeOK, SourceInv, Fetching, Goto, db, locals, work
<1>1. ASSUME NEW t \in Threads, StartView(t) \/ StartAppend(t) \/ StartFile(t) \/ StartBootstrap(t)
      PROVE  SourceInv'
  BY <1>1 DEF StartView, StartAppend, StartFile, StartBootstrap, Start
<1>2. ASSUME NEW t \in Threads, StartWorker(t) \/ StartRetarget(t) \/ StartRepair(t)
      PROVE  SourceInv'
  BY <1>2 DEF StartWorker, StartRetarget, StartRepair, Start
<1>3. ASSUME NEW t \in Threads, CountRead(t) \/ CountFetch(t) \/ CountWrite(t) PROVE SourceInv'
  BY <1>3 DEF CountRead, CountFetch, CountWrite, AfterCount
<1>4. ASSUME NEW t \in Threads, Acquire(t) PROVE SourceInv'
  BY <1>4 DEF Acquire, AfterLock
<1>5. ASSUME NEW t \in Threads, Bump(t) \/ NextRead(t) \/ PreRead(t) PROVE SourceInv'
  BY <1>5 DEF Bump, NextRead, PreRead
<1>6. ASSUME NEW t \in Threads, Leave(t), UNCHANGED <<tar, kind>>,
             \A u \in Threads \ {t} : key'[u] = key[u]
      PROVE  SourceInv'
  BY <1>6 DEF Leave, AfterRelease, ClearWork
<1>7. ASSUME NEW t \in Threads, NEW p, NEW again, NEW m, NEW k, Prepare(t, p, again, m, k),
             UNCHANGED <<tar, kind>>, \A u \in Threads \ {t} : key'[u] = key[u],
             m = "chunk" => kind[t] = "prefetch" /\ ("sync" \notin Environment => key'[t] = tar),
             ManifestsHold => k = key'[t]
      PROVE  SourceInv'
  <2>1. /\ pc' = [pc EXCEPT ![t] = "write"] /\ mode' = [mode EXCEPT ![t] = m]
        /\ source' = [source EXCEPT ![t] = k]
    BY <1>7 DEF Prepare
  <2>2. ASSUME NEW u \in Threads, u # t
        PROVE  pc'[u] = pc[u] /\ mode'[u] = mode[u] /\ source'[u] = source[u] /\ key'[u] = key[u]
    BY <1>7, <2>1, <2>2
  <2>3. pc'[t] = "write" /\ mode'[t] = m /\ source'[t] = k
    BY <2>1
  <2> QED BY <1>7, <2>2, <2>3
<1>8. ASSUME NEW t \in Threads, Snapshot(t) PROVE SourceInv'
  <2>1. /\ UNCHANGED <<tar, kind>> /\ \A u \in Threads \ {t} : key'[u] = key[u]
        /\ Leave(t) \/ key'[t] = tar
    BY <1>8 DEF Snapshot
  <2>2. \/ Leave(t)
        \/ \E p, again : \E m \in {"recache", "select"} : Prepare(t, p, again, m, tar)
    BY <1>8 DEF Snapshot
  <2> QED BY <1>6, <1>7, <2>1, <2>2
<1>9. ASSUME NEW t \in Threads, FileRead(t) PROVE SourceInv'
  <2>1. UNCHANGED <<tar, kind, key>>
    BY <1>9 DEF FileRead
  <2>2. Leave(t) \/ \E p, again : Prepare(t, p, again, "recache", key[t])
    BY <1>9 DEF FileRead
  <2> QED BY <1>6, <1>7, <2>1, <2>2
<1>10. ASSUME NEW t \in Threads, Chunk(t) PROVE SourceInv'
  <2>1. /\ UNCHANGED <<tar, kind, key>> /\ kind[t] = "prefetch" /\ "prefetch" \in Kinds
        /\ "sync" \notin Environment => key[t] = tar
    BY <1>10 DEF Chunk
  <2>2. Leave(t) \/ \E p, again, m : Prepare(t, p, again, m, tar)
    BY <1>10 DEF Chunk
  <2> QED BY <1>6, <1>7, <2>1, <2>2 DEF ManifestsHold
<1>11. ASSUME NEW t \in Threads, OpenFile(t) \/ SaveFile(t) PROVE SourceInv'
  BY <1>11 DEF OpenFile, SaveFile
<1>12. ASSUME NEW t \in Threads, Persist(t) PROVE SourceInv'
  <2>1. CASE Leave(t)
    BY <1>6, <1>12, <2>1 DEF Persist
  <2>2. CASE mode[t] = "chunk" /\ Goto(t, "chunk") /\ ClearWork(t)
    BY <1>12, <2>2 DEF Persist, ClearWork
  <2> QED BY <1>12, <2>1, <2>2 DEF Persist
<1>13. ASSUME NEW t \in Threads, NextPlan(t) \/ PreManifest(t) \/ PreTotal(t) PROVE SourceInv'
  <2>1. CASE Leave(t)
    BY <1>6, <1>13, <2>1 DEF NextPlan, PreManifest, PreTotal
  <2>2. CASE ~Leave(t)
    BY <1>13, <2>2 DEF NextPlan, PreManifest, PreTotal
  <2> QED BY <2>1, <2>2
<1>14. ASSUME NEW t \in Threads, BootRead(t) \/ BootReread(t) \/ BootEnd(t) \/ WriteTarget(t)
       PROVE  SourceInv'
  BY <1>14 DEF BootRead, BootReread, BootEnd, WriteTarget, AfterSet
<1>15. ASSUME NEW t \in Threads, ClearPaths(t) \/ Reply(t) \/ Fail(t) PROVE SourceInv'
  BY <1>15 DEF ClearPaths, ClearWork, Reply, Fail, Forget
<1>16. CASE SyncTar \/ DeleteFile \/ UNCHANGED vars
  BY <1>16 DEF SyncTar, DeleteFile, vars
<1> QED
  BY <1>1, <1>2, <1>3, <1>4, <1>5, <1>8, <1>9, <1>10, <1>11, <1>12, <1>13, <1>14, <1>15, <1>16
     DEF Next, Begin, Step, Locked

-------------------------------------------------------------------------------
(* Rows, plans and files *)

\* At most one thread of the only process fetches images.
LEMMA OneFetches ==
    ASSUME LockInv, OneProcess, NEW t \in Threads, NEW u \in Threads, Fetching(t), Inside(u)
    PROVE  t = u
<1>1. Inside(t)
  BY DEF Fetching, Inside, LockedLabels
<1> QED BY <1>1 DEF LockInv, OneProcess

\* A step that replaces no member, shows no new path, writes no file, and leaves
\* the plans of fetching threads alone.
Calm ==
    /\ DOMAIN rows' = DOMAIN rows
    /\ \A i \in DOMAIN rows : /\ rows'[i].member = rows[i].member
                              /\ rows'[i].path => rows[i].path
    /\ \A i \in DOMAIN file' : i \in DOMAIN file /\ file'[i] = file[i]
    /\ \A u \in Threads : Fetching(u)' =>
          /\ pc'[u] = pc[u] /\ snap'[u] = snap[u] /\ plan'[u] = plan[u]
          /\ todo'[u] = todo[u] /\ saving'[u] = saving[u]

\* What the steps below are shown to keep.
Core == SampleInv /\ PlanInv /\ ServedInv

\* A calm step keeps the rows' order, the plans and the served files.
LEMMA CalmStep ==
    ASSUME Core, Calm
    PROVE  Core' /\ Picked(rows)' = Picked(rows)
<1>1. SampleInv'
  BY DEF Core, Calm, SampleInv
<1>2. ServedInv'
  BY DEF Core, Calm, ServedInv, ServedFileIsItsRow
<1>3. MembersOf(rows') = MembersOf(rows)
  BY DEF Calm, MembersOf
<1>4. ASSUME NEW u \in Threads, Fetching(u)'
      PROVE  Fits(rows', snap'[u], plan'[u]) /\ Written(u)'
  <2>1. Fetching(u) /\ Fits(rows, snap[u], plan[u]) /\ Written(u)
    BY <1>4 DEF Core, Calm, PlanInv, Fetching
  <2>2. Fits(rows', snap[u], plan[u])
    BY <1>3, <2>1 DEF Calm, Fits
  <2>3. Written(u)'
    BY <1>4, <2>1 DEF Calm, Written
  <2> QED BY <1>4, <2>2, <2>3 DEF Calm
<1>5. Picked(rows)' = Picked(rows)
  BY DEF Calm, Picked
<1> QED BY <1>1, <1>2, <1>4, <1>5 DEF Core, PlanInv

\* A plan of rows to fetch again and fresh picks fits the rows it was made from.
LEMMA PlanFits ==
    ASSUME TypeOK, SampleInv, NEW again \in SUBSET DOMAIN rows,
           NEW n \in Nat, NEW fresh, IsFiniteSet(fresh), fresh \subseteq Members,
           fresh \cap MembersOf(rows) = {},
           NEW p, p = Empty \/ p \in Picks(Size(rows), n, fresh)
    PROVE  Fits(rows, rows, Plan(rows, again, p))
<1>1. /\ IsFiniteSet(DOMAIN rows) /\ DOMAIN rows = 0 .. Size(rows) - 1
      /\ Size(rows) \in Nat
  BY RowCount
<1>2. PICK k \in Nat : /\ p \in [Size(rows) .. Size(rows) + k - 1 -> fresh]
                       /\ IsMap(p, Members)
                       /\ \A i, j \in DOMAIN p : p[i] = p[j] => i = j
  <2>1. CASE p = Empty
    <3>1. Size(rows) .. Size(rows) + 0 - 1 = {}
      BY <1>1
    <3>2. p \in [Size(rows) .. Size(rows) + 0 - 1 -> fresh]
      BY <2>1, <3>1 DEF Empty
    <3> QED BY <2>1, <3>2, EmptyMap, 0 \in Nat DEF Empty
  <2>2. CASE p \in Picks(Size(rows), n, fresh)
    <3>1. Size(rows) \in Nat /\ IsFiniteSet(fresh) /\ fresh \subseteq Members
      BY <1>1
    <3>2. Numbered(p, Size(rows), fresh)
      BY <2>2, <3>1, PicksFacts
    <3> QED BY <3>2 DEF Numbered
  <2> QED BY <2>1, <2>2
<1> DEFINE q == Plan(rows, again, p)
<1>3. DOMAIN q = again \cup DOMAIN p /\ DOMAIN p = Size(rows) .. Size(rows) + k - 1
  BY <1>2 DEF Plan
<1>4. \A i \in DOMAIN p : i \notin DOMAIN rows /\ i \notin again
  BY <1>1, <1>2, <1>3
<1>5. DOMAIN rows \cup DOMAIN q = 0 .. (Size(rows) + k) - 1
  BY <1>1, <1>3
<1>6. Segment(DOMAIN rows \cup DOMAIN q)
  <2>1. Size(rows) + k \in Nat
    BY <1>1
  <2>2. /\ IsFiniteSet(0 .. (Size(rows) + k) - 1)
        /\ Cardinality(0 .. (Size(rows) + k) - 1) = Size(rows) + k
    BY <2>1, SegmentCount
  <2> QED BY <1>5, <2>2 DEF Segment
<1>7. \A i \in DOMAIN p : q[i] = p[i] /\ p[i] \in fresh
  BY <1>2, <1>3, <1>4 DEF Plan
<1>8. \A i \in again : q[i] = rows[i].member
  BY <1>3 DEF Plan
<1>9. \A i \in DOMAIN q : IF i \in DOMAIN rows THEN q[i] = rows[i].member
                                              ELSE q[i] \notin MembersOf(rows)
  BY <1>3, <1>4, <1>7, <1>8
<1>10. \A i, j \in DOMAIN q \ DOMAIN rows : q[i] = q[j] => i = j
  BY <1>2, <1>3, <1>7
<1> QED BY <1>6, <1>9, <1>10 DEF Fits

\* A thread that has just planned from the rows is ready to fetch.
LEMMA PreparedStep ==
    ASSUME TypeOK, Core, NEW t \in Threads, NEW p, NEW m, NEW k, UNCHANGED <<rows, file>>,
           Fits(rows, rows, p), Prepare(t, p, DOMAIN p, m, k)
    PROVE  Core' /\ Picked(rows)' = Picked(rows)
<1>1. SampleInv' /\ ServedInv' /\ Picked(rows)' = Picked(rows)
  BY DEF Core, SampleInv, ServedInv, ServedFileIsItsRow, Picked
<1>2. ASSUME NEW u \in Threads, Fetching(u)'
      PROVE  Fits(rows', snap'[u], plan'[u]) /\ Written(u)'
  <2>1. CASE u = t
    <3>1. /\ snap'[u] = rows /\ plan'[u] = p /\ todo'[u] = DOMAIN p /\ pc'[u] = "write"
      BY <2>1 DEF Prepare, Goto, TypeOK
    <3> QED BY <3>1 DEF Written
  <2>2. CASE u # t
    <3>1. /\ snap'[u] = snap[u] /\ plan'[u] = plan[u] /\ todo'[u] = todo[u]
          /\ saving'[u] = saving[u] /\ pc'[u] = pc[u]
      BY <2>2 DEF Prepare, Goto, TypeOK
    <3>2. Fits(rows, snap[u], plan[u]) /\ Written(u)
      BY <1>2, <3>1 DEF Core, PlanInv, Fetching
    <3> QED BY <3>1, <3>2 DEF Written
  <2> QED BY <2>1, <2>2
<1> QED BY <1>1, <1>2 DEF Core, PlanInv

\* A thread that plans, plans to fetch rows it has just read and picks among those members
\* of a tar that have no row: the run's tar, or the one a prefetch has the manifest of.
Plans(t) ==
    \E again, n, p, m, k : \E o \in Tars :
        LET fresh == InTar[o] \ MembersOf(rows) IN
        /\ again \in SUBSET DOMAIN rows /\ n \in Nat
        /\ p = Empty \/ p \in Picks(Size(rows), n, fresh)
        /\ Prepare(t, Plan(rows, again, p), again \cup DOMAIN p, m, k)
        /\ UNCHANGED <<rows, file>>
        /\ "sync" \notin Environment => o = tar

LEMMA SnapshotPlans ==
    ASSUME TypeOK, SampleInv, NEW t \in Threads, Snapshot(t), ~Leave(t) PROVE Plans(t)
<1> DEFINE again == Missing(rows, want[t])
           fresh == InTar[tar] \ MembersOf(rows)
<1>1. again \in SUBSET DOMAIN rows /\ UNCHANGED <<rows, file>>
  BY DEF Missing, Snapshot, db
<1>2. want[t] \in Nat /\ Size(rows) \in Nat /\ tar \in Tars
  BY RowCount DEF TypeOK
<1>3. CASE Prepare(t, Plan(rows, again, Empty), again, "recache", tar)
  <2>1. again \cup DOMAIN Empty = again
    BY DEF Empty
  <2>2. Prepare(t, Plan(rows, again, Empty), again \cup DOMAIN Empty, "recache", tar)
    BY <1>3, <2>1
  <2> HIDE DEF again
  <2> QED BY <1>1, <1>2, <2>2, 0 \in Nat DEF Plans
<1>4. CASE /\ Size(rows) < want[t]
           /\ \E p \in Picks(Size(rows), want[t] - Size(rows), fresh) :
                 Prepare(t, Plan(rows, again, p), again \cup DOMAIN p, "select", tar)
  <2>1. want[t] - Size(rows) \in Nat
    BY <1>2, <1>4
  <2> HIDE DEF again
  <2> QED BY <1>1, <1>2, <1>4, <2>1 DEF Plans
<1> QED BY <1>3, <1>4 DEF Snapshot

LEMMA FileReadPlans ==
    ASSUME TypeOK, NEW t \in Threads, FileRead(t), ~Leave(t) PROVE Plans(t)
<1>1. /\ want[t] \in DOMAIN rows /\ UNCHANGED <<rows, file>> /\ tar \in Tars
      /\ Prepare(t, Plan(rows, {want[t]}, Empty), {want[t]}, "recache", key[t])
  BY DEF FileRead, db, TypeOK
<1>2. {want[t]} \in SUBSET DOMAIN rows /\ {want[t]} \cup DOMAIN Empty = {want[t]}
  BY <1>1 DEF Empty
<1>3. Prepare(t, Plan(rows, {want[t]}, Empty), {want[t]} \cup DOMAIN Empty, "recache", key[t])
  BY <1>1, <1>2
<1> QED BY <1>1, <1>2, <1>3, 0 \in Nat DEF Plans

\* The manifest of a prefetch may be out of date: its picks are members of another tar.
LEMMA ChunkPlans ==
    ASSUME TypeOK, SampleInv, SourceInv, NEW t \in Threads, Chunk(t), ~Leave(t) PROVE Plans(t)
<1> DEFINE current == Or(target, DefaultCount)
           goal == Greatest(current, PrefetchTarget(CountIn(key[t])))
           upTo == Least(goal, Greatest(Size(rows), current) + ChunkSize)
           again == Missing(rows, upTo)
           n == Greatest(0, upTo - Size(rows))
           fresh == InTar[key[t]] \ MembersOf(rows)
<1>1. again \in SUBSET DOMAIN rows /\ UNCHANGED <<rows, file>>
  BY DEF Missing, Chunk, db
<1>2. PICK p \in Picks(Size(rows), n, fresh), m \in {"chunk", "lastChunk"} :
         Prepare(t, Plan(rows, again, p), again \cup DOMAIN p, m, tar)
  BY DEF Chunk
<1>3. n \in Nat
  <2>1. current \in Nat /\ Size(rows) \in Nat /\ ChunkSize \in Nat
    BY CountAssumption, RowCount DEF TypeOK, Or
  <2>2. goal \in Nat
    BY <2>1, CountType, TargetType DEF Greatest, TypeOK
  <2> HIDE DEF current, goal
  <2> QED BY <2>1, <2>2 DEF Greatest, Least
<1>4. key[t] \in Tars /\ ("sync" \notin Environment => key[t] = tar)
  BY DEF Chunk, SourceInv, TypeOK
<1> HIDE DEF again, n
<1> QED BY <1>1, <1>2, <1>3, <1>4 DEF Plans

\* Every step is calm, or plans, or writes one file, or records what was written.
LEMMA StepKinds ==
    ASSUME TypeOK, SampleInv, SourceInv, [Next]_vars
    PROVE  Calm \/ \E t \in Threads : Plans(t) \/ OpenFile(t) \/ SaveFile(t) \/ Persist(t)
<1>1. ASSUME NEW t \in Threads, Begin(t) PROVE Calm
  BY <1>1 DEF Begin, StartView, StartAppend, StartFile, StartBootstrap, StartWorker,
     StartRetarget, StartRepair, Start, Goto, Calm, Fetching, TypeOK, db, locals, work
<1>2. ASSUME NEW t \in Threads, CountRead(t) \/ CountFetch(t) \/ CountWrite(t) PROVE Calm
  BY <1>2 DEF CountRead, CountFetch, CountWrite, AfterCount, Goto, Calm, Fetching, TypeOK,
     db, locals, work
<1>3. ASSUME NEW t \in Threads, Acquire(t) \/ Bump(t) \/ NextRead(t) \/ PreRead(t)
      PROVE  Calm
  BY <1>3 DEF Acquire, AfterLock, Bump, NextRead, PreRead, Goto, Calm, Fetching, TypeOK,
     db, locals, work
<1>4. ASSUME NEW t \in Threads, Leave(t), UNCHANGED <<rows, file>> PROVE Calm
  BY <1>4 DEF Leave, ClearWork, AfterRelease, Goto, Calm, Fetching, TypeOK
<1>5. ASSUME NEW t \in Threads, NextPlan(t) \/ PreManifest(t) \/ PreTotal(t) PROVE Calm
  <2>1. CASE Leave(t)
    BY <1>4, <1>5, <2>1 DEF NextPlan, PreManifest, PreTotal, db
  <2>2. CASE ~Leave(t)
    BY <1>5, <2>2 DEF NextPlan, PreManifest, PreTotal, Goto, Calm, Fetching, TypeOK,
       db, locals, work
  <2> QED BY <2>1, <2>2
<1>6. ASSUME NEW t \in Threads, BootRead(t) \/ BootReread(t) \/ BootEnd(t) \/ WriteTarget(t)
      PROVE  Calm
  BY <1>6 DEF BootRead, BootReread, BootEnd, WriteTarget, AfterSet, Goto, Calm, Fetching,
     TypeOK, db, locals, work
<1>7. ASSUME NEW t \in Threads, ClearPaths(t) PROVE Calm
  BY <1>7 DEF ClearPaths, ClearWork, Goto, Calm, Fetching, TypeOK, IsMap, Row
<1>8. ASSUME NEW t \in Threads, Reply(t) PROVE Calm
  BY <1>8 DEF Reply, Forget, Goto, Calm, Fetching, TypeOK, db, work
<1>9. ASSUME NEW t \in Threads, Fail(t) PROVE Calm
  BY <1>9 DEF Fail, Forget, ClearWork, Drop, Goto, Calm, Fetching, TypeOK, db
<1>10. CASE SyncTar \/ DeleteFile \/ UNCHANGED vars
  BY <1>10 DEF SyncTar, DeleteFile, vars, Drop, Calm, Fetching, db, locals, work
<1>11. ASSUME NEW t \in Threads, Snapshot(t) \/ FileRead(t) \/ Chunk(t) PROVE Calm \/ Plans(t)
  <2>1. CASE Leave(t)
    BY <1>4, <1>11, <2>1 DEF Snapshot, FileRead, Chunk, db
  <2>2. CASE ~Leave(t)
    BY <1>11, <2>2, SnapshotPlans, FileReadPlans, ChunkPlans
  <2> QED BY <2>1, <2>2
<1> QED
  BY <1>1, <1>2, <1>3, <1>5, <1>6, <1>7, <1>8, <1>9, <1>10, <1>11 DEF Next, Step, Locked

\* The rows, plans and files stay consistent in every step of the only process, and
\* the sample stays what it was or grows.
LEMMA CoreStep ==
    ASSUME TypeOK, LockInv, SourceInv, Core, OneProcess, [Next]_vars
    PROVE  Core' /\ (Picked(rows)' = Picked(rows) \/ Sel!Extends(Picked(rows), Picked(rows)'))
<1> DEFINE Same == Core' /\ Picked(rows)' = Picked(rows)
<1>1. Calm => Same
  BY CalmStep
<1>2. ASSUME NEW t \in Threads, Plans(t) PROVE Same
  <2>1. PICK again, n, p, m, k : \E o \in Tars :
           /\ again \in SUBSET DOMAIN rows /\ n \in Nat
           /\ p = Empty \/ p \in Picks(Size(rows), n, InTar[o] \ MembersOf(rows))
           /\ Prepare(t, Plan(rows, again, p), again \cup DOMAIN p, m, k)
           /\ UNCHANGED <<rows, file>>
    BY <1>2 DEF Plans
  <2>2. PICK o \in Tars : p = Empty \/ p \in Picks(Size(rows), n, InTar[o] \ MembersOf(rows))
    BY <2>1
  <2> DEFINE fresh == InTar[o] \ MembersOf(rows)
  <2>3. Fits(rows, rows, Plan(rows, again, p))
    <3>1. SampleInv
      BY DEF Core
    <3>2. IsFiniteSet(fresh) /\ fresh \subseteq Members /\ fresh \cap MembersOf(rows) = {}
      BY CountType, TarAssumption, FS_Difference
    <3> QED BY ONLY TypeOK, <2>1, <2>2, <3>1, <3>2, PlanFits
  <2>4. DOMAIN Plan(rows, again, p) = again \cup DOMAIN p
    BY DEF Plan
  <2> QED BY <2>1, <2>3, <2>4, PreparedStep
<1>3. ASSUME NEW t \in Threads, OpenFile(t) PROVE Same
  <2>1. PICK i \in todo[t] :
           /\ file' = Put(file, i, Partial)
           /\ saving' = [saving EXCEPT ![t] = i]
    BY <1>3 DEF OpenFile
  <2>2. UNCHANGED <<rows, snap, plan, todo>> /\ pc[t] = "write" /\ pc' = [pc EXCEPT ![t] = "save"]
    BY <1>3 DEF OpenFile, Goto, db
  <2>3. SampleInv' /\ ServedInv' /\ Picked(rows)' = Picked(rows)
    BY <2>1, <2>2 DEF Core, SampleInv, ServedInv, ServedFileIsItsRow, Picked, Put
  <2>4. Fits(rows, snap[t], plan[t]) /\ Written(t)
    BY <2>2 DEF Core, PlanInv, Fetching
  <2>5. ASSUME NEW u \in Threads, Fetching(u)' PROVE u = t
    BY <2>2, <2>5, OneFetches DEF Fetching, Inside, LockedLabels, TypeOK
  <2>6. saving'[t] = i /\ pc'[t] = "save"
    BY <2>1, <2>2 DEF TypeOK
  <2>7. Written(t)'
    BY <2>1, <2>2, <2>4, <2>6 DEF Written, Put
  <2> QED BY <2>2, <2>3, <2>4, <2>5, <2>7 DEF Core, PlanInv
<1>4. ASSUME NEW t \in Threads, SaveFile(t) PROVE Same
  <2> DEFINE i == saving[t]
  <2>1. /\ UNCHANGED <<rows, snap, plan>> /\ pc[t] = "save" /\ pc' = [pc EXCEPT ![t] = "write"]
        /\ todo' = [todo EXCEPT ![t] = @ \ {i}]
    BY <1>4 DEF SaveFile, Goto, db
  <2>0. PICK m \in Shown(t, i) : file' = Put(file, i, m)
    BY <1>4 DEF SaveFile
  <2>9. ManifestsHold => m = plan[t][i]
    BY <2>0, <2>1 DEF Shown, SourceInv, Fetching
  <2>2. Fits(rows, snap[t], plan[t]) /\ Written(t)
    BY <2>1 DEF Core, PlanInv, Fetching
  <2>3. i \in DOMAIN plan[t]
    BY <2>1, <2>2 DEF Written
  <2>4. i \in DOMAIN rows => plan[t][i] = rows[i].member
    BY <2>2, <2>3 DEF Fits
  <2>5. SampleInv' /\ ServedInv' /\ Picked(rows)' = Picked(rows)
    BY <2>0, <2>1, <2>4, <2>9 DEF Core, SampleInv, ServedInv, ServedFileIsItsRow, Picked, Put
  <2>6. ASSUME NEW u \in Threads, Fetching(u)' PROVE u = t
    BY <2>1, <2>6, OneFetches DEF Fetching, Inside, LockedLabels, TypeOK
  <2>7. todo'[t] = todo[t] \ {i} /\ pc'[t] = "write"
    BY <2>1 DEF TypeOK
  <2>8. Written(t)'
    BY <2>0, <2>1, <2>2, <2>7, <2>9 DEF Written, Put
  <2> QED BY <2>1, <2>2, <2>5, <2>6, <2>8 DEF Core, PlanInv
<1>5. ASSUME NEW t \in Threads, Persist(t)
       PROVE  Core' /\ Sel!Extends(Picked(rows), Picked(rows)')
  <2> DEFINE all == DOMAIN rows \cup DOMAIN plan[t]
  <2>1. /\ pc[t] = "write" /\ todo[t] = {} /\ UNCHANGED file
        /\ rows' = Recorded(snap[t], plan[t])
        /\ Goto(t, "chunk") \/ Goto(t, AfterRelease(kind[t]))
    BY <1>5 DEF Persist, Leave
  <2>2. Fits(rows, snap[t], plan[t]) /\ Written(t)
    BY <2>1 DEF Core, PlanInv, Fetching
  <2>3. /\ DOMAIN rows' = all
        /\ \A i \in DOMAIN rows : rows'[i].member = rows[i].member
        /\ \A i \in DOMAIN plan[t] : rows'[i].member = plan[t][i]
        /\ \A i \in DOMAIN rows \ DOMAIN plan[t] : rows'[i] = rows[i]
    <3>1. DOMAIN rows' = all
      BY <2>1 DEF Recorded
    <3>2. \A i \in all : rows'[i] = IF i \notin DOMAIN plan[t] THEN rows[i]
                                    ELSE [member |-> IF i \in DOMAIN snap[t] THEN rows[i].member
                                                                             ELSE plan[t][i],
                                          path |-> TRUE]
      BY <2>1 DEF Recorded
    <3>3. \A i \in DOMAIN plan[t] : i \in DOMAIN rows => plan[t][i] = rows[i].member
      BY <2>2 DEF Fits
    <3>4. DOMAIN snap[t] = DOMAIN rows
      BY <2>2 DEF Fits
    <3>5. ASSUME NEW i \in DOMAIN plan[t] PROVE rows'[i].member = plan[t][i]
      <4>1. CASE i \in DOMAIN rows
        <5>1. rows'[i] = [member |-> rows[i].member, path |-> TRUE]
          BY <3>2, <3>4, <4>1
        <5> QED BY <3>3, <4>1, <5>1
      <4>2. CASE i \notin DOMAIN rows
        <5>1. rows'[i] = [member |-> plan[t][i], path |-> TRUE]
          BY <3>2, <3>4, <4>2
        <5> QED BY <5>1
      <4> QED BY <4>1, <4>2
    <3>6. \A i \in DOMAIN rows \ DOMAIN plan[t] : rows'[i] = rows[i]
      BY <3>2
    <3> QED BY <3>1, <3>3, <3>5, <3>6
  <2>4. SampleInv'
    <3>1. Segment(DOMAIN rows')
      BY <2>2, <2>3 DEF Fits
    <3>2. ASSUME NEW i \in all, NEW j \in all, rows'[i].member = rows'[j].member PROVE i = j
      <4>1. CASE i \in DOMAIN rows /\ j \in DOMAIN rows
        BY <2>3, <3>2, <4>1 DEF Core, SampleInv
      <4>2. CASE i \in DOMAIN rows /\ j \notin DOMAIN rows
        BY <2>2, <2>3, <3>2, <4>2 DEF Fits, MembersOf
      <4>3. CASE i \notin DOMAIN rows /\ j \in DOMAIN rows
        BY <2>2, <2>3, <3>2, <4>3 DEF Fits, MembersOf
      <4>4. CASE i \notin DOMAIN rows /\ j \notin DOMAIN rows
        BY <2>2, <2>3, <3>2, <4>4 DEF Fits
      <4> QED BY <4>1, <4>2, <4>3, <4>4
    <3> QED BY <2>3, <3>1, <3>2 DEF SampleInv
  <2>5. ServedInv'
    <3>1. ASSUME ManifestsHold, NEW i \in DOMAIN plan[t], i \in DOMAIN file
          PROVE  file[i] \in {plan[t][i], Partial}
      BY <2>1, <2>2, <3>1 DEF Written
    <3> QED BY <2>1, <2>3, <3>1 DEF Core, ServedInv, ServedFileIsItsRow
  <2>6. ASSUME NEW u \in Threads, Fetching(u)' PROVE FALSE
    <3>1. pc'[t] \notin {"write", "save"}
      BY <2>1 DEF Goto, AfterRelease, TypeOK
    <3>2. u # t
      BY <2>6, <3>1 DEF Fetching
    <3>3. Fetching(u)
      BY <2>1, <2>6, <3>2 DEF Goto, TypeOK, Fetching
    <3> QED BY <2>1, <3>2, <3>3, OneFetches DEF Fetching, Inside, LockedLabels
  <2>7. Sel!Extends(Picked(rows), Picked(rows)')
    BY <2>3 DEF Sel!Extends, Picked
  <2> QED BY <2>4, <2>5, <2>6, <2>7 DEF Core, PlanInv
<1>6. SampleInv
  BY DEF Core
<1> QED BY <1>1, <1>2, <1>3, <1>4, <1>5, <1>6, StepKinds

-------------------------------------------------------------------------------
(* The theorems *)

\* The invariant holds at first, when some rows may have been imported.
LEMMA InitInv == Init => IInv
<1> SUFFICES ASSUME Init PROVE IInv
  OBVIOUS
<1>0. PICK n \in 0 .. Imported : \E p \in Picks(0, n, InTar[tar]) :
         rows = [i \in DOMAIN p |-> [member |-> p[i], path |-> FALSE]]
  BY DEF Init
<1>1. PICK p \in Picks(0, n, InTar[tar]) :
         rows = [i \in DOMAIN p |-> [member |-> p[i], path |-> FALSE]]
  BY <1>0
<1>2. PICK k \in Nat : /\ p \in [0 .. 0 + k - 1 -> InTar[tar]]
                       /\ IsMap(p, Members)
                       /\ \A i, j \in DOMAIN p : p[i] = p[j] => i = j
  <2>1. tar \in Tars /\ n \in Nat /\ 0 \in Nat
    BY CountAssumption DEF Init
  <2>2. InTar[tar] \subseteq Members /\ IsFiniteSet(InTar[tar])
    BY <2>1, TarAssumption, CountType
  <2> QED BY <2>1, <2>2, PicksFacts DEF Numbered
<1>3. IsMap(rows, Row)
  BY <1>1, <1>2 DEF IsMap, Row
<1>4. TypeOK
  <2>1. AnyTar \in Tars
    BY DEF Init, AnyTar
  <2> QED BY <1>3, <2>1, EmptyMap, CountAssumption, ThreadAssumption
     DEF Init, TypeOK, FreeLabels, LockedLabels, CountLabels
<1>5. SampleInv
  <2>1. DOMAIN rows = 0 .. k - 1 /\ k \in Nat
    BY <1>1, <1>2
  <2>2. Segment(DOMAIN rows)
    BY <2>1, SegmentCount DEF Segment
  <2> QED BY <1>1, <1>2, <2>2 DEF SampleInv
<1>6. LockInv /\ PlanInv /\ SourceInv
  BY DEF Init, LockInv, PlanInv, SourceInv, Inside, Fetching, LockedLabels, CountLabels
<1>7. ServedInv
  BY <1>1 DEF ServedInv, ServedFileIsItsRow
<1> QED BY <1>4, <1>5, <1>6, <1>7 DEF IInv

\* Every step of the only process keeps the invariant.
LEMMA InvStep == OneProcess /\ IInv /\ [Next]_vars => IInv'
  BY PlansArePlanned, TypeStep, LockStep, SourceStep, CoreStep DEF IInv, Core

\* The home of a thread never changes.
LEMMA InvHolds == ASSUME OneProcess PROVE Spec => []IInv
<1>1. IInv /\ [Next]_vars => IInv'
  BY InvStep
<1> QED BY <1>1, InitInv, PTL DEF Spec

\* Under one server process every column, file and local keeps its type, in every
\* execution: no request, failure or sync takes the run's record out of its domain.
THEOREM TypeCorrect == ASSUME OneProcess PROVE Spec => []TypeOK
<1>1. IInv => TypeOK
  BY DEF IInv
<1> QED BY <1>1, InvHolds, PTL

\* A thread that fetches images finds, when it records them, the rows it planned
\* from: the claim of the comment on the locking model.
THEOREM SnapshotsAreStable == ASSUME OneProcess PROVE Spec => []SnapshotStable
<1>1. IInv => SnapshotStable
  <2> SUFFICES ASSUME IInv, NEW t \in Threads, Fetching(t)
               PROVE  /\ Picked(rows) = Picked(snap[t])
                      /\ Segment(DOMAIN rows \cup DOMAIN plan[t])
                      /\ \A i \in DOMAIN plan[t] :
                            IF i \in DOMAIN rows THEN plan[t][i] = rows[i].member
                                                 ELSE plan[t][i] \notin MembersOf(rows)
    BY DEF SnapshotStable, Fetching
  <2>1. Fits(rows, snap[t], plan[t])
    BY DEF IInv, PlanInv
  <2> QED BY <2>1 DEF Fits, Picked
<1> QED BY <1>1, InvHolds, PTL

\* A file served for a row is a picture of that row's member, as long as no prefetch works
\* with the manifest of a tar that a sync has replaced: whatever requests, workers and the
\* repair script do at once, and, without the prefetch worker, whatever a sync does.
THEOREM ServedFilesMatch ==
    ASSUME OneProcess, ManifestsHold PROVE Spec => []ServedFileIsItsRow
<1>1. IInv => ServedFileIsItsRow
  BY DEF IInv, ServedInv
<1> QED BY <1>1, InvHolds, PTL

\* The image cache implements the abstract sample: picks are never replaced.
THEOREM CacheImplementsSelection == ASSUME OneProcess PROVE Spec => ImplementsSelection
<1>1. IInv => Sel!IsSample(Picked(rows))
  <2> SUFFICES ASSUME IInv PROVE Sel!IsSample(Picked(rows))
    OBVIOUS
  <2>1. /\ DOMAIN rows = 0 .. Size(rows) - 1 /\ Size(rows) \in Nat
        /\ \A i \in DOMAIN rows : rows[i].member \in Members
    BY RowCount DEF IInv, TypeOK, IsMap, Row
  <2>2. \A i \in DOMAIN rows : i \in Nat /\ 0 .. i \subseteq DOMAIN rows
    BY <2>1
  <2> QED BY <2>1, <2>2 DEF IInv, SampleInv, Sel!IsSample, Picked
<1>2. Init => Sel!Init
  BY <1>1, InitInv DEF Sel!Init
<1>3. IInv /\ [Next]_vars /\ Sel!IsSample(Picked(rows))' => [Sel!Extend]_(Picked(rows))
  BY CoreStep DEF IInv, Core, Sel!Extend
<1> QED BY <1>1, <1>2, <1>3, InvHolds, PTL DEF Spec, ImplementsSelection, Sel!Spec

-------------------------------------------------------------------------------
(* What an ensure delivers *)

\* Nobody deletes cache files, and nobody clears paths behind a thread that fetches.
NothingLost == "delete" \notin Environment /\ "repair" \notin Kinds

\* Only a request for one file takes the short way to a plan.
KindInv == \A t \in Threads : pc[t] # "forget" /\ (pc[t] = "fileRead" => kind[t] = "file")

\* The tar has fewer images than the selection was asked for.
Short(t) == mode[t] = "select" /\ Cardinality(DOMAIN snap[t] \cup DOMAIN plan[t]) < want[t]

\* What an ensure was asked for is planned or there already.
Promised(t) ==
    \/ kind[t] = "file" \/ mode[t] \in {"chunk", "lastChunk"}
    \/ /\ \A i \in DOMAIN rows : i < want[t] => i \in DOMAIN plan[t] \/ OnDisk(rows, i)
       /\ Short(t) \/ \A i \in 0 .. want[t] - 1 : i \in DOMAIN rows \cup DOMAIN plan[t]

\* And what it has written is still there.
DeliverInv ==
    \A t \in Threads : Fetching(t) =>
        Promised(t) /\ \A i \in DOMAIN plan[t] \ todo[t] : i \in DOMAIN file

LEMMA KindStep == ASSUME TypeOK, NothingLost, KindInv, [Next]_vars PROVE KindInv'
<1> USE DEF TypeOK, NothingLost, KindInv, Goto, locals
<1>1. ASSUME NEW t \in Threads, Begin(t) PROVE KindInv'
  BY <1>1 DEF Begin, Start, StartView, StartAppend, StartFile, StartBootstrap, StartWorker,
     StartRetarget, StartRepair
<1>2. ASSUME NEW t \in Threads, Acquire(t) PROVE KindInv'
  BY <1>2 DEF Acquire, AfterLock
<1>3. ASSUME NEW t \in Threads, CountRead(t) \/ CountFetch(t) \/ CountWrite(t) PROVE KindInv'
  BY <1>3 DEF CountRead, CountFetch, CountWrite, AfterCount
<1>4. ASSUME NEW t \in Threads, Leave(t), UNCHANGED kind PROVE KindInv'
  BY <1>4 DEF Leave, AfterRelease
<1>5. ASSUME NEW t \in Threads, Bump(t) \/ OpenFile(t) \/ SaveFile(t) \/ NextRead(t) \/ PreRead(t)
      PROVE  KindInv'
  BY <1>5 DEF Bump, OpenFile, SaveFile, NextRead, PreRead
<1>6. ASSUME NEW t \in Threads,
             Snapshot(t) \/ FileRead(t) \/ Persist(t) \/ NextPlan(t) \/ PreManifest(t)
             \/ PreTotal(t) \/ Chunk(t)
      PROVE  KindInv'
  <2>1. UNCHANGED kind
    BY <1>6 DEF Snapshot, FileRead, Persist, NextPlan, PreManifest, PreTotal, Chunk
  <2>2. CASE Leave(t)
    BY <1>4, <2>1, <2>2
  <2>3. CASE ~Leave(t)
    <3>1. \E label \in {"write", "chunk", "snap", "preTotal"} : pc' = [pc EXCEPT ![t] = label]
      BY <1>6, <2>3 DEF Snapshot, FileRead, Persist, NextPlan, PreManifest, PreTotal, Chunk, Prepare
    <3> QED BY <2>1, <3>1
  <2> QED BY <2>2, <2>3
<1>7. ASSUME NEW t \in Threads, BootRead(t) \/ BootReread(t) \/ BootEnd(t) \/ WriteTarget(t)
      PROVE  KindInv'
  BY <1>7 DEF BootRead, BootReread, BootEnd, WriteTarget, AfterSet
<1>8. ASSUME NEW t \in Threads, ClearPaths(t) \/ Reply(t) \/ Fail(t) PROVE KindInv'
  BY <1>8 DEF ClearPaths, Reply, Fail, Forget
<1>9. CASE SyncTar \/ DeleteFile \/ UNCHANGED vars
  BY <1>9 DEF SyncTar, DeleteFile, vars
<1> QED
  BY <1>1, <1>2, <1>3, <1>5, <1>6, <1>7, <1>8, <1>9 DEF Next, Step, Locked

\* While a thread fetches, nobody else in its process touches rows or files.
LEMMA Bystander ==
    ASSUME TypeOK, LockInv, KindInv, OneProcess, NothingLost,
           NEW t \in Threads, NEW u \in Threads, u # t, Fetching(t) \/ Fetching(t)',
           Begin(u) \/ Step(u) \/ Fail(u)
    PROVE  /\ UNCHANGED <<rows, file>>
           /\ pc'[t] = pc[t] /\ kind'[t] = kind[t] /\ want'[t] = want[t] /\ mode'[t] = mode[t]
           /\ snap'[t] = snap[t] /\ plan'[t] = plan[t] /\ todo'[t] = todo[t]
<1> DEFINE Other == /\ pc'[t] = pc[t] /\ kind'[t] = kind[t] /\ want'[t] = want[t]
                    /\ mode'[t] = mode[t] /\ snap'[t] = snap[t] /\ plan'[t] = plan[t]
                    /\ todo'[t] = todo[t]
<1> USE DEF TypeOK, Goto, db, locals, work
<1>1. Begin(u) => Other /\ UNCHANGED <<rows, file>>
  BY DEF Begin, Start, StartView, StartAppend, StartFile, StartBootstrap, StartWorker,
     StartRetarget, StartRepair
<1>2. Leave(u) => /\ pc'[t] = pc[t] /\ mode'[t] = mode[t] /\ snap'[t] = snap[t]
                  /\ plan'[t] = plan[t] /\ todo'[t] = todo[t]
  BY DEF Leave, ClearWork
<1>3. Locked(u) => Other
  <2>1. Bump(u) \/ OpenFile(u) \/ SaveFile(u) \/ NextRead(u) \/ PreRead(u) => Other
    BY DEF Bump, OpenFile, SaveFile, NextRead, PreRead
  <2>2. Snapshot(u) => Other
    BY <1>2 DEF Snapshot, Prepare
  <2>3. FileRead(u) \/ Chunk(u) => Other
    BY <1>2 DEF FileRead, Chunk, Prepare
  <2>4. Persist(u) => Other
    BY <1>2 DEF Persist, ClearWork
  <2>5. NextPlan(u) \/ PreManifest(u) \/ PreTotal(u) => Other
    BY <1>2 DEF NextPlan, PreManifest, PreTotal
  <2> HIDE DEF Other
  <2> QED BY <2>1, <2>2, <2>3, <2>4, <2>5 DEF Locked
<1>4. Acquire(u) \/ CountRead(u) \/ CountFetch(u) \/ CountWrite(u) \/ BootRead(u) \/ BootReread(u)
      \/ BootEnd(u) \/ WriteTarget(u) \/ Reply(u)
      => Other /\ UNCHANGED <<rows, file>>
  BY DEF Acquire, CountRead, CountFetch, CountWrite, BootRead, BootReread, BootEnd, WriteTarget,
     Reply, Forget
<1>5. ~ClearPaths(u)
  BY DEF ClearPaths, KindInv
<1>6. Fail(u) => Other /\ (UNCHANGED rows) /\ (UNCHANGED file \/ pc[u] = "save")
  BY DEF Fail, Forget, ClearWork
<1> HIDE DEF Other
<1>7. Other
  BY <1>1, <1>3, <1>4, <1>5, <1>6 DEF Step
<1>8. Fetching(t)
  BY <1>7 DEF Fetching, Other
<1>9. ~Inside(u)
  BY <1>8, OneFetches
<1>10. ~Locked(u) /\ pc[u] # "save"
  BY <1>9 DEF Inside, LockedLabels, Locked, Bump, Snapshot, FileRead, OpenFile, SaveFile, Persist,
     NextRead, NextPlan, PreRead, PreManifest, PreTotal, Chunk
<1> QED BY <1>1, <1>4, <1>5, <1>6, <1>7, <1>10 DEF Step, Other

\* What a thread that is to fetch has planned.
LEMMA PlannedDelivers ==
    ASSUME TypeOK, SampleInv, KindInv, NEW t \in Threads,
           Snapshot(t) \/ FileRead(t) \/ Chunk(t), Fetching(t)'
    PROVE  /\ UNCHANGED <<rows, file>> /\ todo'[t] = DOMAIN plan'[t]
           /\ Promised(t)'
<1>1. ~Leave(t)
  BY DEF Fetching, Leave, Goto, AfterRelease, TypeOK
<1>2. UNCHANGED <<rows, file, kind, want>>
  BY DEF Snapshot, FileRead, Chunk, db, locals
<1>3. ASSUME NEW p, NEW again, NEW m, NEW k,
             Prepare(t, Plan(rows, again, p), again \cup DOMAIN p, m, k)
      PROVE  /\ snap'[t] = rows /\ plan'[t] = Plan(rows, again, p) /\ mode'[t] = m
             /\ todo'[t] = DOMAIN plan'[t] /\ DOMAIN plan'[t] = again \cup DOMAIN p
  BY <1>3 DEF Prepare, TypeOK, Plan
<1>4. CASE FileRead(t)
  <2>1. Prepare(t, Plan(rows, {want[t]}, Empty), {want[t]} \cup DOMAIN Empty, "recache", key[t])
        /\ kind[t] = "file"
    BY <1>1, <1>4 DEF FileRead, KindInv, Empty
  <2> QED BY <1>2, <1>3, <2>1 DEF Promised
<1>5. CASE Chunk(t)
  <2>1. \E p, again : \E m \in {"chunk", "lastChunk"} :
            Prepare(t, Plan(rows, again, p), again \cup DOMAIN p, m, tar)
    BY <1>1, <1>5 DEF Chunk
  <2> QED BY <1>2, <1>3, <2>1 DEF Promised
<1>6. CASE Snapshot(t)
  <2> DEFINE n == want[t]
             again == Missing(rows, n)
             fresh == InTar[tar] \ MembersOf(rows)
  <2>1. /\ DOMAIN rows = 0 .. Size(rows) - 1 /\ Size(rows) \in Nat /\ n \in Nat
        /\ \A i \in DOMAIN rows : i < n => i \in again \/ OnDisk(rows, i)
    BY RowCount DEF TypeOK, Missing
  <2>2. CASE Size(rows) >= n /\ Prepare(t, Plan(rows, again, Empty), again, "recache", tar)
    <3>1. again \cup DOMAIN Empty = again
      BY DEF Empty
    <3>2. todo'[t] = DOMAIN plan'[t] /\ DOMAIN plan'[t] = again
      BY <1>3, <2>2, <3>1
    <3>3. \A i \in 0 .. n - 1 : i \in DOMAIN rows
      BY <2>1, <2>2
    <3>4. \A i \in DOMAIN rows : i < n => i \in DOMAIN plan'[t] \/ OnDisk(rows, i)'
      <4> HIDE DEF again
      <4> QED BY <1>2, <2>1, <3>2 DEF OnDisk
    <3>5. rows' = rows /\ want'[t] = n
      BY <1>2
    <3> HIDE DEF again, n
    <3> QED BY <1>2, <3>2, <3>3, <3>4, <3>5 DEF Promised
  <2>3. ASSUME Size(rows) < n, NEW p \in Picks(Size(rows), n - Size(rows), fresh),
               Prepare(t, Plan(rows, again, p), again \cup DOMAIN p, "select", tar)
        PROVE  todo'[t] = DOMAIN plan'[t] /\ Promised(t)'
    <3> DEFINE c == Least(n - Size(rows), Cardinality(fresh))
    <3>1. /\ snap'[t] = rows /\ mode'[t] = "select" /\ todo'[t] = DOMAIN plan'[t]
          /\ DOMAIN plan'[t] = again \cup DOMAIN p
      BY <1>3, <2>3
    <3>2. IsFiniteSet(fresh)
      BY CountType, FS_Difference DEF TypeOK
    <3>3. c \in Nat /\ c <= n - Size(rows)
      BY <2>1, <2>3, <3>2, FS_CardinalityType DEF Least
    <3>4. DOMAIN p = Size(rows) .. Size(rows) + c - 1
      BY DEF Picks
    <3> HIDE DEF c
    <3>5. DOMAIN rows \cup DOMAIN plan'[t] = 0 .. (Size(rows) + c) - 1
      <4>1. again \subseteq DOMAIN rows
        BY DEF Missing
      <4>2. DOMAIN rows \cup DOMAIN p = 0 .. (Size(rows) + c) - 1
        BY <2>1, <3>3, <3>4
      <4> QED BY <3>1, <4>1, <4>2
    <3>6. Size(rows) + c \in Nat
      BY <2>1, <3>3
    <3>7. Cardinality(DOMAIN rows \cup DOMAIN plan'[t]) = Size(rows) + c
      BY <3>5, <3>6, SegmentCount
    <3>8. \A i \in DOMAIN rows : i < n => i \in DOMAIN plan'[t] \/ OnDisk(rows, i)'
      <4> HIDE DEF again
      <4> QED BY <1>2, <2>1, <3>1 DEF OnDisk
    <3>9. Size(rows) + c < n => Short(t)'
      BY <1>2, <3>1, <3>7 DEF Short
    <3>10. ~(Size(rows) + c < n) => \A i \in 0 .. n - 1 : i \in DOMAIN rows \cup DOMAIN plan'[t]
      BY <2>1, <3>5, <3>6
    <3>11. rows' = rows /\ want'[t] = n
      BY <1>2
    <3> HIDE DEF again, n, fresh
    <3> QED BY <3>1, <3>8, <3>9, <3>10, <3>11 DEF Promised
  <2>4. \/ Size(rows) >= n /\ Prepare(t, Plan(rows, again, Empty), again, "recache", tar)
        \/ /\ Size(rows) < n
           /\ \E p \in Picks(Size(rows), n - Size(rows), fresh) :
                 Prepare(t, Plan(rows, again, p), again \cup DOMAIN p, "select", tar)
    BY <1>1, <1>6 DEF Snapshot
  <2> QED BY <1>2, <2>2, <2>3, <2>4
<1> QED BY <1>4, <1>5, <1>6

\* The steps that begin, continue and end the fetching of a thread.
LEMMA FetchSteps ==
    ASSUME TypeOK, NEW t \in Threads, Begin(t) \/ Step(t) \/ Fail(t)
    PROVE  /\ Fetching(t)' => \/ Snapshot(t) \/ FileRead(t) \/ Chunk(t)
                              \/ OpenFile(t) \/ SaveFile(t)
           /\ Fetching(t) => OpenFile(t) \/ SaveFile(t) \/ Persist(t) \/ Fail(t)
<1> USE DEF TypeOK, Goto, Fetching
<1>1. Begin(t) => ~Fetching(t) /\ ~Fetching(t)'
  BY DEF Begin, Start, StartView, StartAppend, StartFile, StartBootstrap, StartWorker,
     StartRetarget, StartRepair
<1>2. Leave(t) => ~Fetching(t)'
  BY DEF Leave, AfterRelease
<1>3. Bump(t) \/ NextRead(t) \/ PreRead(t) => ~Fetching(t) /\ ~Fetching(t)'
  BY DEF Bump, NextRead, PreRead
<1>4. NextPlan(t) \/ PreManifest(t) \/ PreTotal(t) => ~Fetching(t) /\ ~Fetching(t)'
  BY <1>2 DEF NextPlan, PreManifest, PreTotal
<1>5. Persist(t) => ~Fetching(t)'
  BY <1>2 DEF Persist
<1>6. Snapshot(t) \/ FileRead(t) \/ Chunk(t) => ~Fetching(t)
  BY DEF Snapshot, FileRead, Chunk
<1>7. Acquire(t) => ~Fetching(t) /\ ~Fetching(t)'
  BY DEF Acquire, AfterLock
<1>8. CountRead(t) \/ CountFetch(t) \/ CountWrite(t) => ~Fetching(t) /\ ~Fetching(t)'
  BY DEF CountRead, CountFetch, CountWrite, AfterCount
<1>9. BootRead(t) \/ BootReread(t) \/ BootEnd(t) \/ WriteTarget(t) => ~Fetching(t) /\ ~Fetching(t)'
  BY DEF BootRead, BootReread, BootEnd, WriteTarget, AfterSet
<1>10. ClearPaths(t) \/ Reply(t) => ~Fetching(t) /\ ~Fetching(t)'
  BY DEF ClearPaths, Reply
<1>11. Fail(t) => ~Fetching(t)'
  BY DEF Fail
<1> HIDE DEF Fetching
<1> QED BY <1>1, <1>3, <1>4, <1>5, <1>6, <1>7, <1>8, <1>9, <1>10, <1>11 DEF Step, Locked

LEMMA DeliverStep ==
    ASSUME IInv, KindInv, DeliverInv, OneProcess, NothingLost, [Next]_vars PROVE DeliverInv'
<1> DEFINE D(t) ==
        Promised(t) /\ \A i \in DOMAIN plan[t] \ todo[t] : i \in DOMAIN file
<1>1. TypeOK /\ SampleInv /\ LockInv
  BY DEF IInv
<1>2. ASSUME NEW t \in Threads, Fetching(t),
             UNCHANGED <<rows, file>>, kind'[t] = kind[t], want'[t] = want[t],
             mode'[t] = mode[t], snap'[t] = snap[t], plan'[t] = plan[t], todo'[t] = todo[t]
      PROVE  D(t)'
  BY <1>2 DEF DeliverInv, Promised, Short, OnDisk
<1>3. ASSUME NEW t \in Threads, Fetching(t)', NEW u \in Threads, u # t,
             Begin(u) \/ Step(u) \/ Fail(u)
      PROVE  D(t)'
  <2>1. /\ UNCHANGED <<rows, file>>
        /\ pc'[t] = pc[t] /\ kind'[t] = kind[t] /\ want'[t] = want[t] /\ mode'[t] = mode[t]
        /\ snap'[t] = snap[t] /\ plan'[t] = plan[t] /\ todo'[t] = todo[t]
    BY <1>1, <1>3, Bystander
  <2>2. Fetching(t)
    BY <1>3, <2>1 DEF Fetching
  <2> QED BY <1>2, <2>1, <2>2
<1>4. ASSUME NEW t \in Threads, Fetching(t)', Begin(t) \/ Step(t) \/ Fail(t) PROVE D(t)'
  <2>1. CASE Snapshot(t) \/ FileRead(t) \/ Chunk(t)
    <3>1. todo'[t] = DOMAIN plan'[t] /\ Promised(t)'
      BY <1>1, <1>4, <2>1, PlannedDelivers
    <3> QED BY <3>1
  <2>2. CASE OpenFile(t) \/ SaveFile(t)
    <3>1. /\ UNCHANGED <<rows, kind, want, mode, snap, plan>> /\ Fetching(t)
          /\ DOMAIN file \subseteq DOMAIN file'
          /\ \A i \in todo[t] \ todo'[t] : i \in DOMAIN file'
      <4>1. \E i \in todo[t] \cup {saving[t]} : \E m : file' = Put(file, i, m)
        BY <2>2 DEF OpenFile, SaveFile
      <4>2. DOMAIN file \subseteq DOMAIN file'
        BY <4>1 DEF Put
      <4>3. CASE OpenFile(t)
        BY <1>1, <4>2, <4>3 DEF OpenFile, db, locals, Fetching, TypeOK
      <4>4. CASE SaveFile(t)
        <5>1. saving[t] \in DOMAIN file'
          BY <4>4 DEF SaveFile, Put
        <5>2. todo'[t] = todo[t] \ {saving[t]}
          BY <1>1, <4>4 DEF SaveFile, TypeOK
        <5> QED BY <4>2, <4>4, <5>1, <5>2 DEF SaveFile, db, locals, Fetching
      <4> QED BY <2>2, <4>3, <4>4
    <3>2. \A i \in DOMAIN plan'[t] \ todo'[t] : i \in DOMAIN file'
      BY <3>1 DEF DeliverInv
    <3>3. Short(t)' <=> Short(t)
      BY <3>1 DEF Short
    <3>4. \A i \in DOMAIN rows : OnDisk(rows, i) => OnDisk(rows, i)'
      BY <3>1 DEF OnDisk
    <3>5. Promised(t)
      BY <3>1 DEF DeliverInv
    <3>6. Promised(t)'
      BY <3>1, <3>3, <3>4, <3>5 DEF Promised
    <3> QED BY <3>2, <3>6
  <2> QED BY <1>1, <1>4, <2>1, <2>2, FetchSteps
<1>5. ASSUME NEW t \in Threads, Fetching(t)', SyncTar \/ UNCHANGED vars PROVE D(t)'
  <2>1. UNCHANGED <<rows, file, pc, kind, want, mode, snap, plan, todo>>
    BY <1>5 DEF SyncTar, vars, db, locals, work
  <2>2. Fetching(t)
    BY <1>5, <2>1 DEF Fetching
  <2> QED BY <1>2, <2>1, <2>2
<1>6. ~DeleteFile
  BY DEF DeleteFile, NothingLost
<1> HIDE DEF D
<1>7. ASSUME NEW t \in Threads, Fetching(t)' PROVE D(t)'
  BY <1>3, <1>4, <1>5, <1>6, <1>7 DEF Next
<1> QED BY <1>7 DEF DeliverInv, D

\* Who leaves the run lock with nothing to fetch has everything it wants.
LEMMA NothingToFetch ==
    ASSUME TypeOK, KindInv, NEW t \in Threads, kind[t] # "file", Snapshot(t), Leave(t)
    PROVE  /\ \A i \in DOMAIN rows' : i < want[t] => rows'[i].path /\ i \in DOMAIN file'
           /\ Size(rows') >= want[t]
<1>1. pc'[t] # "write"
  BY DEF Leave, Goto, AfterRelease, TypeOK
<1>2. UNCHANGED <<rows, file>>
  BY DEF Snapshot, db
<1>3. Size(rows) >= want[t] /\ Missing(rows, want[t]) = {}
  BY <1>1 DEF Snapshot, Prepare, Goto, TypeOK
<1> QED BY <1>2, <1>3 DEF Missing, OnDisk

\* A thread that records what it fetched delivers.
LEMMA PersistDelivers ==
    ASSUME IInv, DeliverInv, NEW t \in Threads, kind[t] # "file", Persist(t),
           mode[t] \notin {"chunk", "lastChunk"}
    PROVE  /\ \A i \in DOMAIN rows' : i < want[t] => rows'[i].path /\ i \in DOMAIN file'
           /\ Size(rows') >= want[t] \/ target' = Size(rows')
<1>1. Fetching(t) /\ TypeOK /\ SampleInv /\ PlanInv /\ todo[t] = {}
  BY DEF Persist, Fetching, IInv
<1>2. Fits(rows, snap[t], plan[t])
  BY <1>1 DEF PlanInv
<1>3. /\ rows' = Recorded(snap[t], plan[t]) /\ target' = Shrunk(t) /\ UNCHANGED file
  BY DEF Persist
<1>4. /\ DOMAIN rows' = DOMAIN rows \cup DOMAIN plan[t]
      /\ DOMAIN rows' = DOMAIN snap[t] \cup DOMAIN plan[t]
  BY <1>2, <1>3 DEF Recorded, Fits
<1>5. \A i \in DOMAIN plan[t] : i \in DOMAIN file' /\ rows'[i].path
  BY <1>1, <1>3 DEF DeliverInv, Recorded
<1>6. \A i \in DOMAIN rows \ DOMAIN plan[t] : rows'[i] = rows[i]
  BY <1>3 DEF Recorded
<1>7. /\ Size(rows') \in Nat /\ want[t] \in Nat
      /\ DOMAIN rows' = 0 .. Size(rows') - 1
  <2>1. Segment(DOMAIN rows')
    BY <1>2, <1>4 DEF Fits
  <2> QED BY <1>1, <2>1, FS_CardinalityType DEF Segment, Size, TypeOK
<1>8. CASE Short(t)
  <2>1. target' = Size(rows') /\ Size(rows') < want[t]
    BY <1>3, <1>4, <1>8 DEF Short, Shrunk, Size
  <2>2. \A i \in DOMAIN rows : i < want[t] => i \in DOMAIN plan[t] \/ OnDisk(rows, i)
    BY <1>1 DEF DeliverInv, Promised
  <2> QED BY <1>3, <1>4, <1>5, <1>6, <2>1, <2>2 DEF OnDisk
<1>9. CASE ~Short(t)
  <2>1. /\ \A i \in DOMAIN rows : i < want[t] => i \in DOMAIN plan[t] \/ OnDisk(rows, i)
        /\ \A i \in 0 .. want[t] - 1 : i \in DOMAIN rows \cup DOMAIN plan[t]
    BY <1>1, <1>9 DEF DeliverInv, Promised
  <2>2. \A i \in DOMAIN rows' : i < want[t] => rows'[i].path /\ i \in DOMAIN file'
    BY <1>3, <1>4, <1>5, <1>6, <2>1 DEF OnDisk
  <2>3. Size(rows') >= want[t]
    BY <1>4, <1>7, <2>1
  <2> QED BY <2>2, <2>3
<1> QED BY <1>8, <1>9

\* A thread goes on with its request from these two steps.
LEMMA EndSteps ==
    ASSUME TypeOK, Next, NEW t \in Threads, Ended(t)
    PROVE  (Snapshot(t) /\ Leave(t)) \/ Persist(t)
<1> USE DEF TypeOK, Goto, Ended
<1>1. ASSUME NEW u \in Threads, u # t, Begin(u) PROVE FALSE
  BY <1>1 DEF Begin, Start, StartView, StartAppend, StartFile, StartBootstrap, StartWorker,
     StartRetarget, StartRepair
<1>2. ASSUME NEW u \in Threads, u # t, Leave(u) PROVE FALSE
  BY <1>2 DEF Leave
<1>3. ASSUME NEW u \in Threads, u # t, Locked(u) PROVE FALSE
  <2>1. ~(Bump(u) \/ OpenFile(u) \/ SaveFile(u) \/ NextRead(u) \/ PreRead(u))
    BY <1>3 DEF Bump, OpenFile, SaveFile, NextRead, PreRead
  <2>2. ~(Snapshot(u) \/ FileRead(u) \/ Chunk(u))
    BY <1>2, <1>3 DEF Snapshot, FileRead, Chunk, Prepare
  <2>3. ~(Persist(u) \/ NextPlan(u) \/ PreManifest(u) \/ PreTotal(u))
    BY <1>2, <1>3 DEF Persist, NextPlan, PreManifest, PreTotal
  <2> QED BY <1>3, <2>1, <2>2, <2>3 DEF Locked
<1>4. ASSUME NEW u \in Threads, u # t, Step(u) \/ Fail(u) PROVE FALSE
  <2>1. ~(CountRead(u) \/ CountFetch(u) \/ CountWrite(u) \/ Acquire(u))
    BY <1>4 DEF CountRead, CountFetch, CountWrite, Acquire
  <2>2. ~(BootRead(u) \/ BootReread(u) \/ BootEnd(u) \/ WriteTarget(u))
    BY <1>4 DEF BootRead, BootReread, BootEnd, WriteTarget
  <2>3. ~(ClearPaths(u) \/ Reply(u) \/ Fail(u))
    BY <1>4 DEF ClearPaths, Reply, Fail
  <2> QED BY <1>3, <1>4, <2>1, <2>2, <2>3 DEF Step
<1>5. ~SyncTar /\ ~DeleteFile
  BY DEF SyncTar, DeleteFile
<1>6. Begin(t) \/ Step(t) \/ Fail(t)
  BY <1>1, <1>4, <1>5 DEF Next
<1>7. CASE pc[t] = "write"
  <2>1. ~OpenFile(t) /\ ~SaveFile(t) /\ ~Fail(t)
    BY <1>7 DEF OpenFile, SaveFile, Fail
  <2> QED BY <1>6, <1>7, <2>1, FetchSteps DEF Fetching
<1>8. CASE pc[t] = "snap"
  <2>1. ~Begin(t) /\ ~Fail(t)
    BY <1>8 DEF Begin, Start, StartView, StartAppend, StartFile, StartBootstrap, StartWorker,
       StartRetarget, StartRepair, Fail
  <2>2. Snapshot(t)
    BY <1>6, <1>8, <2>1 DEF Step, Locked, Acquire, Bump, FileRead, OpenFile, SaveFile, Persist,
       NextRead, NextPlan, PreRead, PreManifest, PreTotal, Chunk, CountRead, CountFetch, CountWrite,
       BootRead, BootReread, BootEnd, WriteTarget, ClearPaths, Reply
  <2>3. Leave(t)
    BY <2>2 DEF Snapshot, Prepare
  <2> QED BY <2>2, <2>3
<1> QED BY <1>7, <1>8

\* ensure_run_images and the background worker deliver: when one ends well, the images that
\* were asked for are recorded and on disk, or all there are, with the target lowered to them.
THEOREM EnsuresDeliver ==
    ASSUME OneProcess, NothingLost PROVE Spec => EnsureDelivers
<1>1. Init => KindInv /\ DeliverInv
  BY DEF Init, KindInv, DeliverInv, Fetching
<1>2. IInv /\ KindInv /\ DeliverInv /\ [Next]_vars => KindInv' /\ DeliverInv'
  BY KindStep, DeliverStep DEF IInv
<1>3. ASSUME IInv, KindInv, DeliverInv, Next, NEW t \in Threads, kind[t] # "file"
      PROVE  Delivered(t)
  <2> SUFFICES ASSUME Ended(t), mode[t] \notin {"chunk", "lastChunk"}
               PROVE  /\ \A i \in DOMAIN rows' : i < want[t] => rows'[i].path /\ i \in DOMAIN file'
                      /\ Size(rows') >= want[t] \/ target' = Size(rows')
    BY DEF Delivered
  <2>1. TypeOK
    BY <1>3 DEF IInv
  <2>2. (Snapshot(t) /\ Leave(t)) \/ Persist(t)
    BY <1>3, <2>1, EndSteps
  <2> QED BY <1>3, <2>1, <2>2, NothingToFetch, PersistDelivers
<1>4. IInv /\ KindInv /\ DeliverInv /\ [Next]_vars =>
        [\A t \in Threads : kind[t] # "file" => Delivered(t)]_vars
  BY <1>3
<1> QED BY <1>1, <1>2, <1>4, InvHolds, PTL DEF Spec, EnsureDelivers
===============================================================================
