------------------------- MODULE ImageCacheSampleProofs -------------------------
(***************************************************************************)
(* Proofs about ImageCache while the run keeps its tar, for any number of  *)
(* server processes: no run lock is shared between them, and what keeps    *)
(* their samples together is that a pick is a function of the tar.         *)
(***************************************************************************)
EXTENDS ImageCacheProofs

-------------------------------------------------------------------------------
(* The inductive invariant *)

\* sync_runs finds the same tar every time.
TarStays == "sync" \notin Environment

\* A member's place in the order of a tar's scores.
HasRank(k, m, i) == m \in InTar[k] /\ Cardinality({x \in InTar[k] : x < m}) = i

\* Rows, plans and files are all numbered by rank: threads that know nothing of one
\* another plan the same member for an index, and show the same member in its file.
RankInv ==
    /\ \A i \in DOMAIN rows : HasRank(tar, rows[i].member, i)
    /\ \A i \in DOMAIN file : file[i] = Partial \/ HasRank(tar, file[i], i)
    /\ \A t \in Threads : Fetching(t) =>
          /\ \A i \in DOMAIN plan[t] : HasRank(tar, plan[t][i], i)
          /\ Segment(DOMAIN snap[t] \cup DOMAIN plan[t])

SInv == TypeOK /\ SourceInv /\ SampleInv /\ PlannedInv /\ RankInv

-------------------------------------------------------------------------------
(* Ranks *)

\* A list without repetition is as long as it has members.
LEMMA ListCount ==
    ASSUME NEW k \in Nat, NEW f, DOMAIN f = 0 .. k - 1,
           \A i, j \in 0 .. k - 1 : f[i] = f[j] => i = j,
           NEW S, f \in [0 .. k - 1 -> S], \A x \in S : \E i \in 0 .. k - 1 : f[i] = x
    PROVE  IsFiniteSet(S) /\ Cardinality(S) = k
<1>1. IsFiniteSet(0 .. k - 1) /\ Cardinality(0 .. k - 1) = k
  BY SegmentCount
<1>2. f \in Surjection(0 .. k - 1, S)
  BY DEF Surjection
<1>3. f \in Injection(0 .. k - 1, S)
  BY DEF Injection, IsInjective
<1> QED BY <1>1, <1>2, <1>3, FS_Surjection

\* Two members do not share a rank.
LEMMA RankIsUnique ==
    ASSUME NEW t \in Tars, NEW m, NEW o, NEW i, HasRank(t, m, i), HasRank(t, o, i)
    PROVE  m = o
<1> DEFINE Below(x) == {y \in InTar[t] : y < x}
<1>1. /\ m \in Nat /\ o \in Nat /\ InTar[t] \subseteq Nat /\ IsFiniteSet(InTar[t])
      /\ m \in InTar[t] /\ o \in InTar[t]
  BY TarAssumption, CountType DEF HasRank
<1>2. Cardinality(Below(m)) = Cardinality(Below(o))
  BY DEF HasRank
<1>3. ASSUME NEW a \in InTar[t], NEW b \in InTar[t], a < b,
             Cardinality(Below(a)) = Cardinality(Below(b))
      PROVE  FALSE
  <2>1. Below(a) \subseteq Below(b) /\ IsFiniteSet(Below(b))
    BY <1>1, <1>3, FS_Subset
  <2>2. Below(a) = Below(b)
    BY <1>3, <2>1, FS_Subset
  <2>3. a \in Below(b) /\ a \notin Below(a)
    BY <1>1, <1>3
  <2> QED BY <2>2, <2>3
<1> QED BY <1>1, <1>2, <1>3

\* The rows hold the members of the lowest scores.
LEMMA RowsAreLowest ==
    ASSUME TypeOK, SampleInv, RankInv,
           NEW m \in InTar[tar] \ MembersOf(rows), NEW i \in DOMAIN rows
    PROVE  rows[i].member < m
<1> DEFINE r == rows[i].member
           Below == {y \in InTar[tar] : y < r}
           f == [j \in 0 .. i - 1 |-> rows[j].member]
           S == {f[j] : j \in 0 .. i - 1}
<1>1. DOMAIN rows = 0 .. Size(rows) - 1 /\ Size(rows) \in Nat /\ i \in Nat
  BY RowCount DEF TypeOK, IsMap
<1>2. InTar[tar] \subseteq Nat /\ IsFiniteSet(InTar[tar])
  BY TarAssumption, CountType DEF TypeOK
<1>3. \A j \in DOMAIN rows : rows[j].member \in InTar[tar]
                             /\ Cardinality({y \in InTar[tar] : y < rows[j].member}) = j
  BY DEF RankInv, HasRank
<1>4. 0 .. i - 1 \subseteq DOMAIN rows
  BY <1>1
<1>5. IsFiniteSet(S) /\ Cardinality(S) = i
  <2>1. \A j, k \in 0 .. i - 1 : f[j] = f[k] => j = k
    BY <1>4 DEF SampleInv
  <2>2. f \in [0 .. i - 1 -> S] /\ \A x \in S : \E j \in 0 .. i - 1 : f[j] = x
    OBVIOUS
  <2> HIDE DEF f, S
  <2>3. DOMAIN f = 0 .. i - 1
    BY <2>2
  <2> QED BY <1>1, <2>1, <2>2, <2>3, ListCount
<1>6. S \subseteq Below
  <2> SUFFICES ASSUME NEW j \in 0 .. i - 1 PROVE rows[j].member \in Below
    OBVIOUS
  <2>1. rows[j].member \in InTar[tar] /\ r \in InTar[tar] /\ j < i /\ j \in Nat
    <3>1. j \in DOMAIN rows /\ j < i /\ j \in Nat
      BY <1>1, <1>4
    <3> QED BY <1>3, <3>1
  <2>2. ASSUME r <= rows[j].member PROVE FALSE
    <3> DEFINE T == {y \in InTar[tar] : y < rows[j].member}
    <3>1. Below \subseteq T /\ IsFiniteSet(T)
      BY <1>2, <2>1, <2>2, FS_Subset
    <3>2. Cardinality(Below) <= Cardinality(T)
      BY <3>1, FS_Subset
    <3>3. Cardinality(Below) = i /\ Cardinality(T) = j
      BY <1>3, <1>4
    <3> QED BY <1>1, <2>1, <3>2, <3>3
  <2> QED BY <1>2, <2>1, <2>2
<1>7. Below = S
  <2>1. IsFiniteSet(Below) /\ Cardinality(Below) = i
    BY <1>2, <1>3, FS_Subset
  <2> HIDE DEF Below, S
  <2> QED BY <1>5, <1>6, <2>1, FS_Subset
<1>8. \A x \in S : x \in MembersOf(rows)
  BY <1>4 DEF MembersOf
<1>9. m \in Nat /\ r \in Nat /\ m # r
  BY <1>2, <1>3 DEF MembersOf
<1>10. m \notin Below
  BY <1>7, <1>8
<1> QED BY <1>2, <1>9, <1>10

\* Fresh picks go on where the rows end.
LEMMA PicksHaveRank ==
    ASSUME TypeOK, SampleInv, RankInv, NEW n \in Nat,
           NEW p \in Picks(Size(rows), n, InTar[tar] \ MembersOf(rows)), NEW i \in DOMAIN p
    PROVE  HasRank(tar, p[i], i)
<1> DEFINE s == Size(rows)
           fresh == InTar[tar] \ MembersOf(rows)
           last == s + Least(n, Cardinality(fresh)) - 1
           Below == {y \in InTar[tar] : y < p[i]}
           f == [j \in 0 .. i - 1 |-> IF j < s THEN rows[j].member ELSE p[j]]
<1>1. DOMAIN rows = 0 .. s - 1 /\ s \in Nat
  BY RowCount
<1>2. InTar[tar] \subseteq Nat /\ IsFiniteSet(InTar[tar]) /\ IsFiniteSet(fresh)
  BY TarAssumption, CountType, FS_Difference DEF TypeOK
<1>3. /\ p \in [s .. last -> fresh]
      /\ \A j, k \in s .. last : j < k => p[j] < p[k]
      /\ \A c \in fresh : (\E j \in s .. last : p[j] = c) \/ (\A j \in s .. last : p[j] < c)
  BY DEF Picks
<1>4. last \in Int
  BY <1>1, <1>2, FS_CardinalityType DEF Least
<1> HIDE DEF last
<1>5. i \in s .. last /\ i \in Nat /\ p[i] \in fresh
  BY <1>1, <1>3, <1>4
<1>6. \A j \in s .. last : p[j] \in Nat /\ p[j] \in fresh
  BY <1>2, <1>3
<1>7. \A j \in DOMAIN rows : rows[j].member \in InTar[tar] /\ rows[j].member < p[i]
  BY <1>5, RowsAreLowest DEF RankInv, HasRank
<1>8. \A j \in 0 .. i - 1 : IF j < s THEN j \in DOMAIN rows ELSE j \in s .. last
  BY <1>1, <1>4, <1>5
<1>9. f \in [0 .. i - 1 -> Below]
  <2> SUFFICES ASSUME NEW j \in 0 .. i - 1 PROVE f[j] \in Below
    OBVIOUS
  <2>1. CASE j < s
    BY <1>7, <1>8, <2>1
  <2>2. CASE ~(j < s)
    <3>1. j \in s .. last /\ j < i
      BY <1>5, <1>8, <2>2
    <3> QED BY <1>3, <1>5, <1>6, <2>2, <3>1
  <2> QED BY <2>1, <2>2
<1>10. ASSUME NEW j \in 0 .. i - 1, NEW k \in 0 .. i - 1, f[j] = f[k] PROVE j = k
  <2>1. ASSUME NEW a \in 0 .. i - 1, NEW b \in 0 .. i - 1, a < s, ~(b < s), f[a] = f[b]
        PROVE  FALSE
    <3>1. f[a] \in MembersOf(rows)
      BY <1>8, <2>1 DEF MembersOf
    <3>2. f[b] \notin MembersOf(rows)
      BY <1>6, <1>8, <2>1
    <3> QED BY <2>1, <3>1, <3>2
  <2>2. CASE j < s /\ k < s
    BY <1>8, <1>10, <2>2 DEF SampleInv
  <2>3. CASE ~(j < s) /\ ~(k < s)
    <3>1. j \in s .. last /\ k \in s .. last /\ p[j] = p[k]
      BY <1>8, <1>10, <2>3
    <3> QED BY <1>1, <1>3, <1>4, <1>6, <3>1
  <2> QED BY <1>10, <2>1, <2>2, <2>3
<1>11. ASSUME NEW x \in Below PROVE \E j \in 0 .. i - 1 : f[j] = x
  <2>1. CASE x \in MembersOf(rows)
    <3>1. PICK j \in DOMAIN rows : rows[j].member = x
      BY <2>1 DEF MembersOf
    <3>2. j \in 0 .. i - 1 /\ j < s
      BY <1>1, <1>5
    <3> QED BY <3>1, <3>2
  <2>2. CASE x \notin MembersOf(rows)
    <3>1. x \in fresh /\ x < p[i] /\ x \in Nat /\ p[i] \in Nat
      BY <1>2, <1>5, <1>6, <2>2
    <3>2. PICK j \in s .. last : p[j] = x
      BY <1>3, <1>5, <3>1
    <3>3. j < i
      <4>1. j # i /\ ~(i < j)
        BY <1>3, <1>5, <3>1, <3>2
      <4> QED BY <1>1, <1>4, <1>5, <4>1
    <3>4. j \in 0 .. i - 1 /\ ~(j < s)
      BY <1>1, <1>4, <1>5, <3>3
    <3> QED BY <3>2, <3>4
  <2> QED BY <2>1, <2>2
<1>12. DOMAIN f = 0 .. i - 1
  OBVIOUS
<1> HIDE DEF f, Below
<1>13. Cardinality(Below) = i
  BY <1>5, <1>9, <1>10, <1>11, <1>12, ListCount
<1> QED BY <1>5, <1>13 DEF HasRank, Below

\* The picks of a run without rows are the members of the lowest scores, in order.
LEMMA FirstPicksHaveRank ==
    ASSUME NEW k \in Tars, NEW n \in Nat, NEW p \in Picks(0, n, InTar[k]), NEW i \in DOMAIN p
    PROVE  HasRank(k, p[i], i)
<1> DEFINE last == 0 + Least(n, Cardinality(InTar[k])) - 1
           Below == {y \in InTar[k] : y < p[i]}
           f == [j \in 0 .. i - 1 |-> p[j]]
<1>1. InTar[k] \subseteq Nat /\ IsFiniteSet(InTar[k])
  BY TarAssumption, CountType
<1>2. /\ p \in [0 .. last -> InTar[k]]
      /\ \A a, b \in 0 .. last : a < b => p[a] < p[b]
      /\ \A c \in InTar[k] : (\E j \in 0 .. last : p[j] = c) \/ (\A j \in 0 .. last : p[j] < c)
  BY DEF Picks
<1>3. last \in Int
  BY <1>1, FS_CardinalityType DEF Least
<1> HIDE DEF last
<1>4. i \in 0 .. last /\ i \in Nat /\ 0 .. i - 1 \subseteq 0 .. last
  BY <1>2, <1>3
<1>5. \A j \in 0 .. last : p[j] \in Nat /\ p[j] \in InTar[k]
  BY <1>1, <1>2
<1>6. f \in [0 .. i - 1 -> Below]
  BY <1>2, <1>4, <1>5
<1>7. \A a, b \in 0 .. i - 1 : f[a] = f[b] => a = b
  BY <1>2, <1>4, <1>5
<1>8. ASSUME NEW x \in Below PROVE \E j \in 0 .. i - 1 : f[j] = x
  <2>1. x \in Nat /\ x \in InTar[k] /\ x < p[i] /\ p[i] \in Nat
    BY <1>1, <1>4, <1>5
  <2>2. PICK j \in 0 .. last : p[j] = x
    BY <1>2, <1>4, <2>1
  <2>3. j # i /\ ~(i < j)
    BY <1>2, <1>4, <2>1, <2>2
  <2>4. j \in 0 .. i - 1
    BY <1>3, <1>4, <2>3
  <2> QED BY <2>2, <2>4
<1>9. DOMAIN f = 0 .. i - 1
  OBVIOUS
<1> HIDE DEF f, Below
<1>10. Cardinality(Below) = i
  BY <1>4, <1>6, <1>7, <1>8, <1>9, ListCount
<1> QED BY <1>4, <1>5, <1>10 DEF HasRank, Below

-------------------------------------------------------------------------------
(* Every step keeps the invariant *)

LEMMA TarStep == ASSUME TarStays, [Next]_vars PROVE tar' = tar
<1> USE DEF db
<1>1. ASSUME NEW t \in Threads, Begin(t) PROVE tar' = tar
  BY <1>1 DEF Begin, StartView, StartAppend, StartFile, StartBootstrap, StartWorker,
     StartRetarget, StartRepair
<1>2. ASSUME NEW t \in Threads, Locked(t) PROVE tar' = tar
  BY <1>2 DEF Locked, Bump, Snapshot, FileRead, OpenFile, SaveFile, Persist, NextRead, NextPlan,
     PreRead, PreManifest, PreTotal, Chunk
<1>3. ASSUME NEW t \in Threads, Step(t) PROVE tar' = tar
  BY <1>2, <1>3 DEF Step, Acquire, CountRead, CountFetch, CountWrite, BootRead, BootReread,
     BootEnd, WriteTarget, ClearPaths, Reply
<1> QED BY <1>1, <1>3 DEF Next, Fail, SyncTar, DeleteFile, vars, TarStays

LEMMA SegmentUnion == ASSUME NEW A, NEW B, Segment(A), Segment(B) PROVE Segment(A \cup B)
<1>1. PICK a \in Nat, b \in Nat : A = 0 .. a - 1 /\ B = 0 .. b - 1
  BY FS_CardinalityType DEF Segment
<1>2. A \cup B = IF a <= b THEN 0 .. b - 1 ELSE 0 .. a - 1
  BY <1>1
<1>3. \A n \in Nat : Segment(0 .. n - 1)
  BY SegmentCount DEF Segment
<1> QED BY <1>1, <1>2, <1>3

\* What the steps below are shown to keep: the sample stays what it was or grows.
Ranked == SampleInv /\ PlannedInv /\ RankInv
Grows == Picked(rows)' = Picked(rows) \/ Sel!Extends(Picked(rows), Picked(rows)')

LEMMA CalmRanked == ASSUME Ranked, Calm, tar' = tar PROVE Ranked' /\ Grows
<1>1. SampleInv' /\ Picked(rows)' = Picked(rows)
  BY DEF Ranked, Calm, SampleInv, Picked
<1>2. ASSUME NEW u \in Threads, Fetching(u)'
      PROVE  /\ Fetching(u) /\ pc'[u] = pc[u] /\ snap'[u] = snap[u] /\ plan'[u] = plan[u]
             /\ todo'[u] = todo[u] /\ saving'[u] = saving[u]
  BY <1>2 DEF Calm, Fetching
<1>3. PlannedInv'
  BY <1>2 DEF Ranked, Calm, PlannedInv
<1>4. \A i \in DOMAIN rows' : HasRank(tar', rows'[i].member, i)
  BY DEF Ranked, Calm, RankInv
<1>5. \A i \in DOMAIN file' : file'[i] = Partial \/ HasRank(tar', file'[i], i)
  BY DEF Ranked, Calm, RankInv
<1>6. ASSUME NEW u \in Threads, Fetching(u)'
      PROVE  /\ \A i \in DOMAIN plan'[u] : HasRank(tar', plan'[u][i], i)
             /\ Segment(DOMAIN snap'[u] \cup DOMAIN plan'[u])
  BY <1>2, <1>6 DEF Ranked, RankInv
<1> QED BY <1>1, <1>3, <1>4, <1>5, <1>6 DEF Ranked, RankInv, Grows

\* A thread that fetches, or not, goes on as it was while another one works.
Undisturbed(t) ==
    \A u \in Threads \ {t} :
        /\ pc'[u] = pc[u] /\ snap'[u] = snap[u] /\ plan'[u] = plan[u]
        /\ todo'[u] = todo[u] /\ saving'[u] = saving[u]

\* It is enough to look at the thread that works, at the rows and at the files.
LEMMA RankedKeeps ==
    ASSUME Ranked, tar' = tar, NEW t \in Threads, Undisturbed(t), SampleInv',
           DOMAIN rows \subseteq DOMAIN rows',
           \A i \in DOMAIN rows' : HasRank(tar, rows'[i].member, i),
           \A i \in DOMAIN file' : file'[i] = Partial \/ HasRank(tar, file'[i], i),
           Fetching(t)' =>
              /\ DOMAIN snap'[t] \subseteq DOMAIN rows'
              /\ Segment(DOMAIN snap'[t] \cup DOMAIN plan'[t])
              /\ todo'[t] \subseteq DOMAIN plan'[t]
              /\ pc'[t] = "save" => saving'[t] \in todo'[t]
              /\ \A i \in DOMAIN plan'[t] : HasRank(tar, plan'[t][i], i)
    PROVE  Ranked'
<1>1. ASSUME NEW u \in Threads, Fetching(u)'
      PROVE  /\ DOMAIN snap'[u] \subseteq DOMAIN rows'
             /\ Segment(DOMAIN snap'[u] \cup DOMAIN plan'[u])
             /\ todo'[u] \subseteq DOMAIN plan'[u]
             /\ pc'[u] = "save" => saving'[u] \in todo'[u]
             /\ \A i \in DOMAIN plan'[u] : HasRank(tar', plan'[u][i], i)
  <2>1. CASE u = t
    BY <1>1, <2>1
  <2>2. CASE u # t
    <3>1. /\ pc'[u] = pc[u] /\ snap'[u] = snap[u] /\ plan'[u] = plan[u]
          /\ todo'[u] = todo[u] /\ saving'[u] = saving[u] /\ Fetching(u)
      BY <1>1, <2>2 DEF Undisturbed, Fetching
    <3>2. /\ DOMAIN snap[u] \subseteq DOMAIN rows
          /\ Segment(DOMAIN snap[u] \cup DOMAIN plan[u])
          /\ todo[u] \subseteq DOMAIN plan[u]
          /\ pc[u] = "save" => saving[u] \in todo[u]
          /\ \A i \in DOMAIN plan[u] : HasRank(tar, plan[u][i], i)
      BY <3>1 DEF Ranked, PlannedInv, RankInv
    <3> QED BY <3>1, <3>2
  <2> QED BY <2>1, <2>2
<1>2. PlannedInv'
  BY <1>1 DEF PlannedInv, Segment
<1>3. RankInv'
  BY <1>1 DEF RankInv
<1> QED BY <1>2, <1>3 DEF Ranked

LEMMA PlansRanked ==
    ASSUME TarStays, TypeOK, Ranked, tar' = tar, NEW t \in Threads, Plans(t)
    PROVE  Ranked' /\ Grows
<1> DEFINE fresh == InTar[tar] \ MembersOf(rows)
<1>1. PICK again, n, p, m, k :
         /\ again \in SUBSET DOMAIN rows /\ n \in Nat
         /\ p = Empty \/ p \in Picks(Size(rows), n, fresh)
         /\ Prepare(t, Plan(rows, again, p), again \cup DOMAIN p, m, k)
         /\ UNCHANGED <<rows, file>>
  BY DEF Plans, TarStays
<1> DEFINE q == Plan(rows, again, p)
<1>2. SampleInv /\ RankInv
  BY DEF Ranked
<1>3. Fits(rows, rows, q)
  <2>1. IsFiniteSet(fresh) /\ fresh \subseteq Members /\ fresh \cap MembersOf(rows) = {}
    BY CountType, TarAssumption, FS_Difference DEF TypeOK
  <2> QED BY ONLY TypeOK, <1>1, <1>2, <2>1, PlanFits
<1>4. DOMAIN q = again \cup DOMAIN p
  BY DEF Plan
<1>5. ASSUME NEW i \in DOMAIN q PROVE HasRank(tar, q[i], i)
  <2>1. CASE i \in again
    <3>1. q[i] = rows[i].member
      BY <1>4, <2>1 DEF Plan
    <3> QED BY <1>1, <1>2, <2>1, <3>1 DEF RankInv
  <2>2. CASE i \notin again
    <3>1. i \in DOMAIN p /\ q[i] = p[i]
      BY <1>4, <2>2 DEF Plan
    <3>2. p # Empty
      BY <3>1 DEF Empty
    <3> QED BY <1>1, <1>2, <3>1, <3>2, PicksHaveRank
  <2> QED BY <2>1, <2>2
<1> HIDE DEF q
<1>6. /\ snap'[t] = rows /\ plan'[t] = q /\ todo'[t] = DOMAIN q /\ pc'[t] = "write"
      /\ Undisturbed(t)
  BY <1>1, <1>4 DEF Prepare, Goto, TypeOK, Undisturbed, q
<1>7. SampleInv' /\ Picked(rows)' = Picked(rows)
  BY <1>1, <1>2 DEF SampleInv, Picked
<1>8. \A i \in DOMAIN rows' : HasRank(tar, rows'[i].member, i)
  BY <1>1, <1>2 DEF RankInv
<1>9. \A i \in DOMAIN file' : file'[i] = Partial \/ HasRank(tar, file'[i], i)
  BY <1>1, <1>2 DEF RankInv
<1>10. Segment(DOMAIN rows \cup DOMAIN q)
  BY <1>3 DEF Fits
<1>11. Ranked'
  BY <1>1, <1>5, <1>6, <1>7, <1>8, <1>9, <1>10, RankedKeeps
<1> QED BY <1>7, <1>11 DEF Grows

LEMMA OpenFileRanked ==
    ASSUME TypeOK, Ranked, tar' = tar, NEW t \in Threads, OpenFile(t) PROVE Ranked' /\ Grows
<1>1. PICK i \in todo[t] : file' = Put(file, i, Partial) /\ saving' = [saving EXCEPT ![t] = i]
  BY DEF OpenFile
<1>2. UNCHANGED <<rows, snap, plan, todo>> /\ pc[t] = "write" /\ pc' = [pc EXCEPT ![t] = "save"]
  BY DEF OpenFile, Goto, db
<1>3. Undisturbed(t) /\ saving'[t] = i
  BY <1>1, <1>2 DEF TypeOK, Undisturbed
<1>4. SampleInv' /\ Picked(rows)' = Picked(rows)
  BY <1>2 DEF Ranked, SampleInv, Picked
<1>5. \A j \in DOMAIN file' : file'[j] = Partial \/ HasRank(tar, file'[j], j)
  BY <1>1 DEF Ranked, RankInv, Put
<1>6. /\ DOMAIN snap[t] \subseteq DOMAIN rows
      /\ Segment(DOMAIN snap[t] \cup DOMAIN plan[t])
      /\ todo[t] \subseteq DOMAIN plan[t]
      /\ \A j \in DOMAIN plan[t] : HasRank(tar, plan[t][j], j)
  BY <1>2 DEF Ranked, PlannedInv, RankInv, Fetching
<1>7. \A j \in DOMAIN rows' : HasRank(tar, rows'[j].member, j)
  BY <1>2 DEF Ranked, RankInv
<1>8. Ranked'
  BY <1>1, <1>2, <1>3, <1>4, <1>5, <1>6, <1>7, RankedKeeps
<1> QED BY <1>4, <1>8 DEF Grows

LEMMA SaveFileRanked ==
    ASSUME TarStays, TypeOK, SourceInv, Ranked, tar' = tar, NEW t \in Threads, SaveFile(t)
    PROVE  Ranked' /\ Grows
<1> DEFINE i == saving[t]
<1>1. /\ UNCHANGED <<rows, snap, plan>> /\ pc[t] = "save" /\ pc' = [pc EXCEPT ![t] = "write"]
      /\ file' = Put(file, i, plan[t][i]) /\ todo' = [todo EXCEPT ![t] = @ \ {i}]
      /\ saving' = [saving EXCEPT ![t] = 0]
  <2>1. Shown(t, i) = {plan[t][i]}
    BY DEF SaveFile, SourceInv, Fetching, ManifestsHold, TarStays, Shown
  <2> QED BY <2>1 DEF SaveFile, Goto, db
<1>2. /\ DOMAIN snap[t] \subseteq DOMAIN rows
      /\ Segment(DOMAIN snap[t] \cup DOMAIN plan[t])
      /\ todo[t] \subseteq DOMAIN plan[t] /\ i \in todo[t]
      /\ \A j \in DOMAIN plan[t] : HasRank(tar, plan[t][j], j)
  BY <1>1 DEF Ranked, PlannedInv, RankInv, Fetching
<1>3. Undisturbed(t) /\ todo'[t] = todo[t] \ {i} /\ pc'[t] = "write"
  BY <1>1 DEF TypeOK, Undisturbed
<1>4. SampleInv' /\ Picked(rows)' = Picked(rows)
  BY <1>1 DEF Ranked, SampleInv, Picked
<1>5. HasRank(tar, plan[t][i], i)
  BY <1>2
<1>6. \A j \in DOMAIN file' : file'[j] = Partial \/ HasRank(tar, file'[j], j)
  BY <1>1, <1>5 DEF Ranked, RankInv, Put
<1>7. \A j \in DOMAIN rows' : HasRank(tar, rows'[j].member, j)
  BY <1>1 DEF Ranked, RankInv
<1>8. Ranked'
  BY <1>1, <1>2, <1>3, <1>4, <1>6, <1>7, RankedKeeps
<1> QED BY <1>4, <1>8 DEF Grows

\* The row that took a pick's index meanwhile holds the same member: ON CONFLICT replaces
\* it by its equal.
LEMMA PersistRanked ==
    ASSUME TypeOK, Ranked, tar' = tar, NEW t \in Threads, Persist(t) PROVE Ranked' /\ Grows
<1>1. /\ pc[t] = "write" /\ UNCHANGED file /\ ClearWork(t)
      /\ rows' = Recorded(snap[t], plan[t])
      /\ Goto(t, "chunk") \/ Goto(t, AfterRelease(kind[t]))
  BY DEF Persist, Leave
<1>2. /\ DOMAIN snap[t] \subseteq DOMAIN rows
      /\ Segment(DOMAIN snap[t] \cup DOMAIN plan[t])
      /\ \A i \in DOMAIN plan[t] : HasRank(tar, plan[t][i], i)
  BY <1>1 DEF Ranked, PlannedInv, RankInv, Fetching
<1>3. DOMAIN rows' = DOMAIN rows \cup DOMAIN plan[t]
  BY <1>1 DEF Recorded
<1>4. ASSUME NEW i \in DOMAIN rows PROVE rows'[i].member = rows[i].member
  <2>1. CASE i \notin DOMAIN plan[t]
    BY <1>1, <2>1 DEF Recorded
  <2>2. CASE i \in DOMAIN plan[t]
    <3>1. HasRank(tar, plan[t][i], i) /\ HasRank(tar, rows[i].member, i) /\ tar \in Tars
      BY <1>2, <2>2 DEF Ranked, RankInv, TypeOK
    <3>2. plan[t][i] = rows[i].member
      BY <3>1, RankIsUnique
    <3>3. rows'[i] = [member |-> IF i \in DOMAIN snap[t] THEN rows[i].member ELSE plan[t][i],
                      path |-> TRUE]
      BY <1>1, <2>2 DEF Recorded
    <3> QED BY <3>2, <3>3
  <2> QED BY <2>1, <2>2
<1>5. ASSUME NEW i \in DOMAIN plan[t] \ DOMAIN rows PROVE rows'[i].member = plan[t][i]
  <2>1. i \notin DOMAIN snap[t]
    BY <1>2
  <2>2. rows'[i] = [member |-> plan[t][i], path |-> TRUE]
    BY <1>1, <2>1 DEF Recorded
  <2> QED BY <2>2
<1>6. \A i \in DOMAIN rows' : HasRank(tar, rows'[i].member, i)
  BY <1>2, <1>3, <1>4, <1>5 DEF Ranked, RankInv
<1>7. SampleInv'
  <2>1. Segment(DOMAIN rows')
    <3>1. DOMAIN rows' = DOMAIN rows \cup (DOMAIN snap[t] \cup DOMAIN plan[t])
      BY <1>2, <1>3
    <3>2. Segment(DOMAIN rows)
      BY DEF Ranked, SampleInv
    <3> QED BY <1>2, <3>1, <3>2, SegmentUnion
  <2>2. \A i, j \in DOMAIN rows' : rows'[i].member = rows'[j].member => i = j
    BY <1>6 DEF HasRank
  <2> QED BY <2>1, <2>2 DEF SampleInv
<1>8. Undisturbed(t) /\ pc'[t] \notin {"write", "save"}
  BY <1>1 DEF ClearWork, Goto, AfterRelease, TypeOK, Undisturbed
<1>9. \A i \in DOMAIN file' : file'[i] = Partial \/ HasRank(tar, file'[i], i)
  BY <1>1 DEF Ranked, RankInv
<1>10. Ranked'
  BY <1>3, <1>6, <1>7, <1>8, <1>9, RankedKeeps DEF Fetching
<1>11. Sel!Extends(Picked(rows), Picked(rows)')
  BY <1>3, <1>4 DEF Sel!Extends, Picked
<1> QED BY <1>10, <1>11 DEF Grows

LEMMA RankedStep ==
    ASSUME TarStays, TypeOK, SourceInv, Ranked, [Next]_vars PROVE Ranked' /\ Grows
<1>1. tar' = tar
  BY TarStep
<1>2. SampleInv
  BY DEF Ranked
<1> QED BY <1>1, <1>2, StepKinds, CalmRanked, PlansRanked, OpenFileRanked, SaveFileRanked,
           PersistRanked

LEMMA InitRanked == Init => SInv
<1> SUFFICES ASSUME Init PROVE SInv
  OBVIOUS
<1>1. IInv
  BY InitInv
<1>2. PICK n \in 0 .. Imported : \E p \in Picks(0, n, InTar[tar]) :
         rows = [i \in DOMAIN p |-> [member |-> p[i], path |-> FALSE]]
  BY DEF Init
<1>3. PICK p \in Picks(0, n, InTar[tar]) :
         rows = [i \in DOMAIN p |-> [member |-> p[i], path |-> FALSE]]
  BY <1>2
<1>4. /\ tar \in Tars /\ n \in Nat /\ file = Empty /\ \A t \in Threads : pc[t] = "idle"
  BY CountAssumption DEF Init
<1>5. ASSUME NEW i \in DOMAIN rows PROVE HasRank(tar, rows[i].member, i)
  <2>1. i \in DOMAIN p /\ rows[i].member = p[i]
    BY <1>3
  <2>2. HasRank(tar, p[i], i)
    BY <1>4, <2>1, FirstPicksHaveRank
  <2> QED BY <2>1, <2>2
<1>6. RankInv /\ PlannedInv
  BY <1>4, <1>5 DEF RankInv, PlannedInv, Fetching, Empty
<1> QED BY <1>1, <1>6 DEF IInv, SInv

LEMMA SInvHolds == ASSUME TarStays PROVE Spec => []SInv
<1>1. SInv /\ [Next]_vars => SInv'
  BY TypeStep, SourceStep, RankedStep DEF SInv, Ranked
<1> QED BY <1>1, InitRanked, PTL DEF Spec

-------------------------------------------------------------------------------
(* The theorems *)

\* While the run keeps its tar its sample is a function of the tar, whatever several server
\* processes with a lock each do at once: _seeded_member_sample and the ON CONFLICT clause
\* of _persist_cached_images are enough.
THEOREM SamplesAreDeterministic == ASSUME TarStays PROVE Spec => []SampleIsDeterministic
<1>1. SInv => SampleIsDeterministic
  BY DEF SInv, RankInv, HasRank, SampleIsDeterministic
<1> QED BY <1>1, SInvHolds, PTL

\* Nor do the processes need a common lock for a file to be of its row's member.
THEOREM ServedFilesMatchAnywhere == ASSUME TarStays PROVE Spec => []ServedFileIsItsRow
<1>1. SInv => ServedFileIsItsRow
  BY RankIsUnique DEF SInv, TypeOK, RankInv, ServedFileIsItsRow
<1> QED BY <1>1, SInvHolds, PTL

\* Several processes implement the abstract sample too: no pick is replaced by another.
THEOREM ProcessesImplementSelection == ASSUME TarStays PROVE Spec => ImplementsSelection
<1>1. SInv => Sel!IsSample(Picked(rows))
  <2> SUFFICES ASSUME SInv PROVE Sel!IsSample(Picked(rows))
    OBVIOUS
  <2>1. /\ DOMAIN rows = 0 .. Size(rows) - 1 /\ Size(rows) \in Nat
        /\ \A i \in DOMAIN rows : rows[i].member \in Members
    BY RowCount DEF SInv, TypeOK, IsMap, Row
  <2>2. \A i \in DOMAIN rows : i \in Nat /\ 0 .. i \subseteq DOMAIN rows
    BY <2>1
  <2> QED BY <2>1, <2>2 DEF SInv, SampleInv, Sel!IsSample, Picked
<1>2. Init => Sel!Init
  BY <1>1, InitRanked DEF Sel!Init
<1>3. SInv /\ [Next]_vars /\ Sel!IsSample(Picked(rows))' => [Sel!Extend]_(Picked(rows))
  BY RankedStep DEF SInv, Ranked, Grows, Sel!Extend
<1> QED BY <1>1, <1>2, <1>3, SInvHolds, PTL DEF Spec, ImplementsSelection, Sel!Spec
===============================================================================
