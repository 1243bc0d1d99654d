------------------------------ MODULE ImageCache ------------------------------
(***************************************************************************)
(* app/services/image_cache.py, with its callers in app/routes.py, for one *)
(* run: how images are selected from the run's tar, fetched, written to    *)
(* the cache directory and recorded in SQLite, by request threads, the two *)
(* background workers and maintenance jobs that all touch the same run.    *)
(*                                                                         *)
(* A thread does slow S3 work with no transaction open, from a snapshot of *)
(* the run's rows, and records the result later in one transaction.  The   *)
(* run lock of its process is held from the snapshot to that transaction;  *)
(* several steps of the program change the run's target without it.        *)
(*                                                                         *)
(* One action is one transaction, one network call or one file.  The label *)
(* pc[t] names what thread t does next.                                    *)
(*                                                                         *)
(* Left out: selection_version, which no code ever changes; the bytes of   *)
(* an image (a file is the member it was made from).  Members are numbered *)
(* in ascending order of _member_random_score, which depends on nothing    *)
(* but the run and the member's name.                                      *)
(***************************************************************************)
EXTENDS Integers, FiniteSets

CONSTANTS
    Threads,          \* request threads, background workers, scripts
    Processes,        \* server processes; each has its own run locks
    Home,             \* the process a thread runs in
    Members,          \* image member names, numbered by score
    Tars,             \* the tar keys the run may have
    InTar,            \* tar key -> the image members of that tar
    NoTotal,          \* runs.total_image_count IS NULL
    NoThread,         \* a free lock
    Partial,          \* a file that is not written to its end
    DefaultCount,     \* DEFAULT_IMAGE_COUNT
    ReviewParts,      \* REVIEW_IMAGE_FRACTION is 1 / ReviewParts
    PrefetchMin, PrefetchMax, PrefetchParts,   \* the PREFETCH_ constants
    ChunkSize,        \* PREFETCH_CHUNK_SIZE
    Kinds,            \* the operations threads may start
    MaxTarget,        \* bound: no append starts at a target this large
    Imported,         \* bound: rows a validator database brought in at first
    Environment       \* which of "sync", "delete" may happen

ASSUME ThreadAssumption ==
    /\ NoThread \notin Threads
    /\ Home \in [Threads -> Processes]
ASSUME TarAssumption ==
    /\ Members \subseteq Nat /\ IsFiniteSet(Members)
    /\ InTar \in [Tars -> SUBSET Members]
    /\ NoTotal \notin Nat /\ Partial \notin Members
ASSUME CountAssumption ==
    /\ {DefaultCount, ReviewParts, PrefetchParts, ChunkSize} \subseteq Nat \ {0}
    /\ {PrefetchMin, PrefetchMax, MaxTarget, Imported} \subseteq Nat

VARIABLES
    target,   \* runs.image_target_count
    total,    \* runs.total_image_count
    tar,      \* runs.tar_key
    rows,     \* run_images: index -> [member, path], path: cache_path is set
    file,     \* the cache directory: index -> the member the file shows
    lock,     \* process -> the thread that holds the run lock
    pc,       \* thread -> label
    kind,     \* thread -> the operation it executes
    want,     \* thread -> target_count, ensure_count or the target to write
    counted,  \* thread -> what ensure_manifest_image_count returned
    key,      \* thread -> the tar_key it read
    snap,     \* thread -> the rows it read under the lock
    plan,     \* thread -> index -> member it must have on disk
    todo,     \* thread -> indexes of plan whose file it has yet to write
    saving,   \* thread -> the index whose file it is writing
    mode,     \* thread -> what the persist of plan does
    source    \* thread -> the tar whose bytes it reads

db == <<target, total, tar, rows>>
work == <<snap, plan, todo, saving, mode, source>>
locals == <<kind, want, counted, key>>
vars == <<db, file, lock, pc, locals, work>>

-------------------------------------------------------------------------------
(* Arithmetic and row helpers *)

Least(a, b) == IF a <= b THEN a ELSE b
Greatest(a, b) == IF a >= b THEN a ELSE b
CeilDiv(n, d) == (n + d - 1) \div d

\* Python's "x or default" for an integer column.
Or(n, default) == IF n = 0 THEN default ELSE n

\* review_image_target: a share of the tar once its size is known.
ReviewTarget(count, fallback) ==
    IF count = NoTotal THEN Greatest(1, Or(fallback, 1))
                       ELSE Greatest(1, CeilDiv(count, ReviewParts))

\* MUTANT of PrefetchTarget: the size of the tar is no upper bound.
PrefetchTargetUncapped(count) ==
    LET n == Least(PrefetchMax, Greatest(PrefetchMin, CeilDiv(count, PrefetchParts)))
    IN  IF n > DefaultCount THEN n ELSE 0

\* prefetch_target_for_total, where 0 stands for None.
PrefetchTarget(count) ==
    LET n == Least(PrefetchMax,
                   Least(Greatest(PrefetchMin, CeilDiv(count, PrefetchParts)), count))
    IN  IF n > DefaultCount THEN n ELSE 0

Size(r) == Cardinality(DOMAIN r)

\* MUTANT of MembersOf: images already picked are candidates again.
MembersOfNone(r) == {}

MembersOf(r) == {r[i].member : i \in DOMAIN r}
CountIn(k) == Cardinality(InTar[k])

\* f with i mapped to v, whether or not f has i already.
Put(f, i, v) == [j \in DOMAIN f \cup {i} |-> IF j = i THEN v ELSE f[j]]

Drop(f, i) == [j \in DOMAIN f \ {i} |-> f[j]]

\* _cached_path_exists, _existing_cache_file: the row has a path, and there is a file.
OnDisk(r, i) == r[i].path /\ i \in DOMAIN file

\* The rows below n that must be fetched again.
Missing(r, n) == {i \in DOMAIN r : i < n /\ ~OnDisk(r, i)}

Active(r, n) == Cardinality({i \in DOMAIN r : i < n})
CachedOnDisk(r, n) == Cardinality({i \in DOMAIN r : i < n /\ OnDisk(r, i)})
CachedInDb(r, n) == Cardinality({i \in DOMAIN r : i < n /\ r[i].path})

\* MUTANT of Picks: random.sample instead of the seeded score.
PicksAtRandom(first, n, candidates) ==
    LET last == first + Least(n, Cardinality(candidates)) - 1
    IN  {p \in [first .. last -> candidates] : \A i, j \in first .. last : p[i] = p[j] => i = j}

\* The picks for the indexes from first on: the n lowest-scored candidates (all
\* of them when there are fewer), in ascending order of score.
Picks(first, n, candidates) ==
    LET last == first + Least(n, Cardinality(candidates)) - 1
    IN  {p \in [first .. last -> candidates] :
            /\ \A i, j \in first .. last : i < j => p[i] < p[j]
            /\ \A c \in candidates : \/ \E i \in first .. last : p[i] = c
                                     \/ \A i \in first .. last : p[i] < c}

\* Existing rows to fetch again, and fresh picks p: one index -> member function.
Plan(r, again, p) ==
    [i \in again \cup DOMAIN p |-> IF i \in again THEN r[i].member ELSE p[i]]

-------------------------------------------------------------------------------
(* Control flow: where an operation goes after its shared steps *)

Empty == [i \in {} |-> 0]

AfterLock(k) == CASE k = "append" -> "bump"
                  [] k = "file" -> "fileRead"
                  [] k = "next" -> "countRead"
                  [] k = "prefetch" -> "preRead"
                  [] OTHER -> "snap"

AfterCount(k) == CASE k = "view" -> "reply"
                   [] k = "append" -> "lock"
                   [] k = "next" -> "nextRead"
                   [] OTHER -> "bootRead"

AfterRelease(k) == CASE k = "view" -> "countRead"
                     [] k = "bootstrap" -> "bootEnd"
                     [] OTHER -> "reply"

AfterSet(label) == CASE label = "nextSet" -> "nextPlan"
                     [] label = "bootSet" -> "bootCount"
                     [] OTHER -> "reply"

CountLabels == {"countRead", "count", "countWrite"}
LockedLabels == {"bump", "snap", "write", "save", "fileRead", "nextRead", "nextSet",
                 "nextPlan", "preRead", "preManifest", "preTotal", "chunk"}
FreeLabels == {"idle", "lock", "reply", "bootRead", "bootSet", "bootCount", "bootEnd",
               "setTarget", "forget"}

\* The steps a thread takes inside "with _run_lock(...)".
Inside(t) == \/ pc[t] \in LockedLabels
             \/ kind[t] = "next" /\ pc[t] \in CountLabels

Goto(t, label) == pc' = [pc EXCEPT ![t] = label]

Start(t, k, n, label) ==
    /\ pc[t] = "idle" /\ k \in Kinds
    /\ kind' = [kind EXCEPT ![t] = k]
    /\ want' = [want EXCEPT ![t] = n]
    /\ Goto(t, label)

\* The value of key[t] and source[t] when they stand for nothing.
AnyTar == CHOOSE k \in Tars : TRUE

ClearWork(t) ==
    /\ snap' = [snap EXCEPT ![t] = Empty]
    /\ plan' = [plan EXCEPT ![t] = Empty]
    /\ todo' = [todo EXCEPT ![t] = {}]
    /\ saving' = [saving EXCEPT ![t] = 0]
    /\ mode' = [mode EXCEPT ![t] = "none"]
    /\ source' = [source EXCEPT ![t] = AnyTar]

Forget(t) ==
    /\ kind' = [kind EXCEPT ![t] = "none"]
    /\ want' = [want EXCEPT ![t] = 0]
    /\ counted' = [counted EXCEPT ![t] = NoTotal]
    /\ key' = [key EXCEPT ![t] = AnyTar]

\* The end of "with _run_lock(...)".
Leave(t) ==
    /\ lock' = [lock EXCEPT ![Home[t]] = NoThread]
    /\ Goto(t, AfterRelease(kind[t]))
    /\ ClearWork(t)

-------------------------------------------------------------------------------
(* Starting an operation *)

\* get_run_images: ensure_run_images reads the target before it has the run lock.
StartView(t) ==
    /\ Start(t, "view", Or(target, DefaultCount), "lock")
    /\ UNCHANGED <<db, file, lock, counted, key, work>>

\* refresh_run_images
StartAppend(t) ==
    /\ target < MaxTarget
    /\ Start(t, "append", 0, "countRead")
    /\ UNCHANGED <<db, file, lock, counted, key, work>>

\* image_file, when the file is gone: the row and the tar key are read before the
\* run lock is taken.
StartFile(t) ==
    /\ \E i \in DOMAIN rows : ~OnDisk(rows, i) /\ Start(t, "file", i, "lock")
    /\ key' = [key EXCEPT ![t] = tar]
    /\ UNCHANGED <<db, file, lock, counted, work>>

\* _bootstrap_review_run, from a reviewer's request that finds no image ready.
StartBootstrap(t) ==
    /\ Start(t, "bootstrap", 0, "countRead")
    /\ UNCHANGED <<db, file, lock, counted, key, work>>

\* A background worker takes the run from its queue: _load_next_review_image,
\* _prefetch_run_images.
StartWorker(t) ==
    /\ \E k \in {"next", "prefetch"} : Start(t, k, 0, "lock")
    /\ UNCHANGED <<db, file, lock, counted, key, work>>

\* _sync_review_image_targets computes the targets in one transaction and writes
\* them in another, without the run lock.
StartRetarget(t) ==
    /\ total # NoTotal
    /\ ReviewTarget(total, target) # Or(target, 1)
    /\ Start(t, "retarget", ReviewTarget(total, target), "setTarget")
    /\ UNCHANGED <<db, file, lock, counted, key, work>>

\* scripts/repair_missing_cache.py lists rows whose file is gone (all of them or
\* the unreviewed ones), and clears their paths later.
StartRepair(t) ==
    /\ \E gone \in SUBSET {i \in DOMAIN rows : i < target /\ rows[i].path /\ i \notin DOMAIN file} :
          gone # {} /\ todo' = [todo EXCEPT ![t] = gone]
    /\ Start(t, "repair", 0, "forget")
    /\ UNCHANGED <<db, file, lock, counted, key, snap, plan, saving, mode, source>>

-------------------------------------------------------------------------------
(* ensure_manifest_image_count *)

CountRead(t) ==
    /\ pc[t] = "countRead"
    /\ IF total # NoTotal
       THEN /\ counted' = [counted EXCEPT ![t] = total]
            /\ Goto(t, AfterCount(kind[t]))
            /\ UNCHANGED key
       ELSE /\ key' = [key EXCEPT ![t] = tar]
            /\ Goto(t, "count")
            /\ UNCHANGED counted
    /\ UNCHANGED <<db, file, lock, kind, want, work>>

\* _try_fetch_manifest: any error is taken for "no manifest".
CountFetch(t) ==
    /\ pc[t] = "count"
    /\ \/ /\ counted' = [counted EXCEPT ![t] = CountIn(key[t])]
          /\ Goto(t, "countWrite")
       \/ /\ counted' = [counted EXCEPT ![t] = NoTotal]
          /\ Goto(t, AfterCount(kind[t]))
    /\ UNCHANGED <<db, file, lock, kind, want, key, work>>

CountWrite(t) ==
    /\ pc[t] = "countWrite"
    /\ total' = counted[t]
    /\ Goto(t, AfterCount(kind[t]))
    /\ UNCHANGED <<target, tar, rows, file, lock, locals, work>>

-------------------------------------------------------------------------------
(* The run lock, and the work done under it *)

\* MUTANT of Acquire: a new Lock for every call.
AcquireAnyway(t) ==
    /\ pc[t] = "lock"
    /\ lock' = [lock EXCEPT ![Home[t]] = t]
    /\ Goto(t, AfterLock(kind[t]))
    /\ UNCHANGED <<db, file, locals, work>>

\* _run_lock: one lock per run and process.
Acquire(t) ==
    /\ pc[t] = "lock"
    /\ lock[Home[t]] = NoThread
    /\ lock' = [lock EXCEPT ![Home[t]] = t]
    /\ Goto(t, AfterLock(kind[t]))
    /\ UNCHANGED <<db, file, locals, work>>

\* MUTANT of Bump: the test for an unknown total is the wrong way round.
BumpToUnknown(t) ==
    /\ pc[t] = "bump"
    /\ LET raised == Or(target, DefaultCount) + DefaultCount
           new == IF total = NoTotal THEN total ELSE Least(raised, total)
       IN  /\ target' = new
           /\ want' = [want EXCEPT ![t] = new]
    /\ Goto(t, "snap")
    /\ UNCHANGED <<total, tar, rows, file, lock, kind, counted, key, work>>

\* append_run_images: the transaction that raises the target.
Bump(t) ==
    /\ pc[t] = "bump"
    /\ LET raised == Or(target, DefaultCount) + DefaultCount
           new == IF total = NoTotal THEN raised ELSE Least(raised, total)
       IN  /\ target' = new
           /\ want' = [want EXCEPT ![t] = new]
    /\ Goto(t, "snap")
    /\ UNCHANGED <<total, tar, rows, file, lock, kind, counted, key, work>>

\* What a thread is about to fetch from tar k and persist, from the rows it has just
\* read.
Prepare(t, p, again, m, k) ==
    /\ snap' = [snap EXCEPT ![t] = rows]
    /\ plan' = [plan EXCEPT ![t] = p]
    /\ todo' = [todo EXCEPT ![t] = again]
    /\ mode' = [mode EXCEPT ![t] = m]
    /\ source' = [source EXCEPT ![t] = k]
    /\ Goto(t, "write")
    /\ UNCHANGED saving

\* _ensure_images_locked: read the rows, decide what to fetch.
Snapshot(t) ==
    /\ pc[t] = "snap"
    /\ LET n == want[t]
           again == Missing(rows, n)
           candidates == InTar[tar] \ MembersOf(rows)
       IN  \/ /\ Size(rows) >= n /\ again = {}
              /\ Leave(t)
              /\ UNCHANGED key
           \/ /\ Size(rows) >= n /\ again # {}
              /\ Prepare(t, Plan(rows, again, Empty), again, "recache", tar)
              /\ key' = [key EXCEPT ![t] = tar]
              /\ UNCHANGED lock
           \/ /\ Size(rows) < n
              /\ \E p \in Picks(Size(rows), n - Size(rows), candidates) :
                    Prepare(t, Plan(rows, again, p), again \cup DOMAIN p, "select", tar)
              /\ key' = [key EXCEPT ![t] = tar]
              /\ UNCHANGED lock
    /\ UNCHANGED <<db, file, kind, want, counted>>

\* ensure_image_cached reads its row again under the lock, but not the tar key.
FileRead(t) ==
    /\ pc[t] = "fileRead"
    /\ LET i == want[t] IN
          IF i \notin DOMAIN rows \/ OnDisk(rows, i)
          THEN Leave(t)
          ELSE /\ Prepare(t, Plan(rows, {i}, Empty), {i}, "recache", key[t])
               /\ UNCHANGED lock
    /\ UNCHANGED <<db, file, locals>>

\* The members whose picture may come out when thread t reads the image for index i.
\* The tar is read at the offsets of a manifest.  At the offsets of another tar's
\* manifest there may lie the beginning of any image, or nothing that can be decoded:
\* the bytes are not checked, and LOAD_TRUNCATED_IMAGES accepts what is cut short.
Shown(t, i) == IF source[t] = key[t] THEN {plan[t][i]} ELSE InTar[source[t]]

\* One image is read from S3 and converted, and its file is opened: first those that
\* already have a row, then the fresh picks in order.  A member that the manifest or
\* the tar read for it lacks is an error.  The file is written in place, under the
\* name readers look for.
OpenFile(t) ==
    /\ pc[t] = "write"
    /\ \E i \in todo[t] :
          /\ \/ i \in DOMAIN snap[t]
             \/ \A j \in todo[t] : i <= j /\ j \notin DOMAIN snap[t]
          /\ plan[t][i] \in InTar[key[t]] /\ Shown(t, i) # {}
          /\ file' = Put(file, i, Partial)
          /\ saving' = [saving EXCEPT ![t] = i]
    /\ Goto(t, "save")
    /\ UNCHANGED <<db, lock, locals, snap, plan, todo, mode, source>>

\* The JPEG is complete.
SaveFile(t) ==
    /\ pc[t] = "save"
    /\ \E m \in Shown(t, saving[t]) : file' = Put(file, saving[t], m)
    /\ todo' = [todo EXCEPT ![t] = @ \ {saving[t]}]
    /\ saving' = [saving EXCEPT ![t] = 0]
    /\ Goto(t, "write")
    /\ UNCHANGED <<db, lock, locals, snap, plan, mode, source>>

\* The rows after a persist of p from snapshot s: a row of the snapshot is updated
\* by id, a fresh pick is inserted, or replaces the row that took its index.
Recorded(s, p) ==
    [i \in DOMAIN rows \cup DOMAIN p |->
        IF i \notin DOMAIN p THEN rows[i]
        ELSE [member |-> IF i \in DOMAIN s THEN rows[i].member ELSE p[i],
              path   |-> TRUE]]

\* MUTANT of Shrunk: shrink_target_to is not passed on.
ShrunkNever(t) == target

\* The target when the tar had too few images for what was asked.
Shrunk(t) ==
    LET next == Cardinality(DOMAIN snap[t] \cup DOMAIN plan[t])
    IN  IF mode[t] = "select" /\ next < want[t] THEN next ELSE target

\* _persist_cached_images: one transaction, then the operation's lock is released,
\* except between two chunks of a prefetch.
Persist(t) ==
    /\ pc[t] = "write" /\ todo[t] = {}
    /\ rows' = Recorded(snap[t], plan[t])
    /\ total' = IF mode[t] = "recache" THEN total ELSE CountIn(key[t])
    /\ target' = Shrunk(t)
    /\ IF mode[t] = "chunk"
       THEN Goto(t, "chunk") /\ ClearWork(t) /\ UNCHANGED lock
       ELSE Leave(t)
    /\ UNCHANGED <<tar, file, locals>>

-------------------------------------------------------------------------------
(* _load_next_review_image, under the run lock, after the count *)

NextRead(t) ==
    /\ pc[t] = "nextRead"
    /\ LET desired == ReviewTarget(counted[t], Or(target, 1)) IN
          /\ want' = [want EXCEPT ![t] = desired]
          /\ Goto(t, IF desired # Or(target, 1) THEN "nextSet" ELSE "nextPlan")
    /\ UNCHANGED <<db, file, lock, kind, counted, key, work>>

\* One image at a time: enough for the rows there are, or for one more file.
NextPlan(t) ==
    /\ pc[t] = "nextPlan"
    /\ LET n == want[t]
           a == Active(rows, n)
           c == CachedOnDisk(rows, n)
       IN  IF a >= n /\ c >= n
           THEN Leave(t) /\ UNCHANGED want
           ELSE /\ want' = [want EXCEPT ![t] = Least(n, Greatest(a, c + 1))]
                /\ Goto(t, "snap")
                /\ UNCHANGED <<lock, work>>
    /\ UNCHANGED <<db, file, kind, counted, key>>

-------------------------------------------------------------------------------
(* _prefetch_run_images *)

PreRead(t) ==
    /\ pc[t] = "preRead"
    /\ key' = [key EXCEPT ![t] = tar]
    /\ Goto(t, "preManifest")
    /\ UNCHANGED <<db, file, lock, kind, want, counted, work>>

PreManifest(t) ==
    /\ pc[t] = "preManifest"
    /\ \/ Goto(t, "preTotal") /\ UNCHANGED <<lock, work>>
       \/ Leave(t)
    /\ UNCHANGED <<db, file, locals>>

PreTotal(t) ==
    /\ pc[t] = "preTotal"
    /\ total' = CountIn(key[t])
    /\ IF PrefetchTarget(CountIn(key[t])) = 0
       THEN Leave(t)
       ELSE Goto(t, "chunk") /\ UNCHANGED <<lock, work>>
    /\ UNCHANGED <<target, tar, rows, file, locals>>

\* One chunk: beyond the target, up to the prefetch target.  The manifest is the one
\* read at the start; the tar it is applied to is the run's tar now.
Chunk(t) ==
    /\ pc[t] = "chunk"
    /\ LET current == Or(target, DefaultCount)
           goal == Greatest(current, PrefetchTarget(CountIn(key[t])))
           n == Least(goal, Greatest(Size(rows), current) + ChunkSize)
           again == Missing(rows, n)
           candidates == InTar[key[t]] \ MembersOf(rows)
       IN  \/ /\ Size(rows) >= goal /\ Missing(rows, goal) = {}
              /\ Leave(t)
           \/ /\ Size(rows) < goal \/ Missing(rows, goal) # {}
              /\ \E p \in Picks(Size(rows), Greatest(0, n - Size(rows)), candidates) :
                    Prepare(t, Plan(rows, again, p), again \cup DOMAIN p,
                            IF n >= goal THEN "lastChunk" ELSE "chunk", tar)
              /\ UNCHANGED lock
    /\ UNCHANGED <<db, file, locals>>

-------------------------------------------------------------------------------
(* _bootstrap_review_run, outside the run lock *)

\* ensure_count, for the target n.
BootCount(n) ==
    Least(n, Greatest(Active(rows, target), Greatest(CachedInDb(rows, target) + 1, 1)))

BootRead(t) ==
    /\ pc[t] = "bootRead"
    /\ LET current == Or(target, 1)
           desired == ReviewTarget(counted[t], current)
       IN  IF counted[t] # NoTotal /\ desired # current
           THEN want' = [want EXCEPT ![t] = desired] /\ Goto(t, "bootSet")
           ELSE want' = [want EXCEPT ![t] = BootCount(current)] /\ Goto(t, "lock")
    /\ UNCHANGED <<db, file, lock, kind, counted, key, work>>

BootReread(t) ==
    /\ pc[t] = "bootCount"
    /\ want' = [want EXCEPT ![t] = BootCount(Or(target, 1))]
    /\ Goto(t, "lock")
    /\ UNCHANGED <<db, file, lock, kind, counted, key, work>>

BootEnd(t) ==
    /\ pc[t] = "bootEnd"
    /\ IF total # NoTotal /\ ReviewTarget(total, target) # Or(target, 1)
       THEN want' = [want EXCEPT ![t] = ReviewTarget(total, target)] /\ Goto(t, "setTarget")
       ELSE Goto(t, "reply") /\ UNCHANGED want
    /\ UNCHANGED <<db, file, lock, kind, counted, key, work>>

-------------------------------------------------------------------------------
(* Writes decided from an earlier read, replies and failures *)

\* A target computed from an earlier read is written in a transaction of its own.
WriteTarget(t) ==
    /\ pc[t] \in {"nextSet", "bootSet", "setTarget"}
    /\ target' = want[t]
    /\ Goto(t, AfterSet(pc[t]))
    /\ UNCHANGED <<total, tar, rows, file, lock, locals, work>>

\* The repair script clears the paths it found dangling.
ClearPaths(t) ==
    /\ pc[t] = "forget"
    /\ rows' = [i \in DOMAIN rows |->
                  IF i \in todo[t] THEN [rows[i] EXCEPT !.path = FALSE] ELSE rows[i]]
    /\ Goto(t, "reply") /\ ClearWork(t)
    /\ UNCHANGED <<target, total, tar, file, lock, locals>>

Reply(t) ==
    /\ pc[t] = "reply"
    /\ Goto(t, "idle") /\ Forget(t)
    /\ UNCHANGED <<db, file, lock, work>>

\* An exception: S3 refused a read, an image did not decode, a member was missing,
\* the database stayed locked, or the process was restarted.  Files written so far
\* stay; nothing is recorded; the run lock is free again.  PIL removes the file it
\* was saving when it raises; when the process dies the file stays as it is.
Fail(t) ==
    /\ pc[t] \notin {"idle", "reply"}
    /\ lock' = IF Inside(t) THEN [lock EXCEPT ![Home[t]] = NoThread] ELSE lock
    /\ Goto(t, "idle") /\ Forget(t) /\ ClearWork(t)
    /\ \/ UNCHANGED file
       \/ pc[t] = "save" /\ file' = Drop(file, saving[t])
    /\ UNCHANGED db

-------------------------------------------------------------------------------
(* The rest of the program and its surroundings *)

\* sync_runs finds another tar for the run.
SyncTar ==
    /\ "sync" \in Environment
    /\ \E k \in Tars \ {tar} : tar' = k
    /\ total' = NoTotal
    /\ UNCHANGED <<target, rows, file, lock, pc, locals, work>>

\* Somebody reclaims disk space.
DeleteFile ==
    /\ "delete" \in Environment
    /\ \E i \in DOMAIN file : file' = Drop(file, i)
    /\ UNCHANGED <<db, lock, pc, locals, work>>

Init ==
    /\ target = DefaultCount /\ total = NoTotal /\ tar \in Tars
    /\ \E n \in 0 .. Imported : \E p \in Picks(0, n, InTar[tar]) :
          rows = [i \in DOMAIN p |-> [member |-> p[i], path |-> FALSE]]
    /\ file = Empty
    /\ lock = [p \in Processes |-> NoThread]
    /\ pc = [t \in Threads |-> "idle"]
    /\ kind = [t \in Threads |-> "none"]
    /\ want = [t \in Threads |-> 0]
    /\ counted = [t \in Threads |-> NoTotal]
    /\ key = [t \in Threads |-> AnyTar]
    /\ snap = [t \in Threads |-> Empty]
    /\ plan = [t \in Threads |-> Empty]
    /\ todo = [t \in Threads |-> {}]
    /\ saving = [t \in Threads |-> 0]
    /\ mode = [t \in Threads |-> "none"]
    /\ source = [t \in Threads |-> AnyTar]

Begin(t) ==
    \/ StartView(t) \/ StartAppend(t) \/ StartFile(t) \/ StartBootstrap(t)
    \/ StartWorker(t) \/ StartRetarget(t) \/ StartRepair(t)

Locked(t) ==
    \/ Bump(t) \/ Snapshot(t) \/ FileRead(t) \/ OpenFile(t) \/ SaveFile(t) \/ Persist(t)
    \/ NextRead(t) \/ NextPlan(t)
    \/ PreRead(t) \/ PreManifest(t) \/ PreTotal(t) \/ Chunk(t)

Step(t) ==
    \/ Acquire(t) \/ Locked(t)
    \/ CountRead(t) \/ CountFetch(t) \/ CountWrite(t)
    \/ BootRead(t) \/ BootReread(t) \/ BootEnd(t)
    \/ WriteTarget(t) \/ ClearPaths(t) \/ Reply(t)

Next ==
    \/ \E t \in Threads : Begin(t) \/ Step(t) \/ Fail(t)
    \/ SyncTar \/ DeleteFile

Spec == Init /\ [][Next]_vars

\* Once inside its lock a thread goes on: S3 calls and the SQLite busy wait return
\* or raise.  Nothing says which thread a free lock goes to.
Fairness == \A t \in Threads : WF_vars(Inside(t) /\ (Step(t) \/ Fail(t)))

FairSpec == Spec /\ Fairness

-------------------------------------------------------------------------------
(* Properties *)

Row == [member : Members, path : BOOLEAN]

IsMap(f, values) ==
    /\ DOMAIN f \subseteq Nat
    /\ f \in [DOMAIN f -> values]

\* Every column, file and local has a value of its type.
TypeOK ==
    /\ target \in Nat /\ total \in Nat \cup {NoTotal} /\ tar \in Tars
    /\ IsMap(rows, Row) /\ IsMap(file, Members \cup {Partial})
    /\ lock \in [Processes -> Threads \cup {NoThread}]
    /\ pc \in [Threads -> FreeLabels \cup LockedLabels \cup CountLabels]
    /\ kind \in [Threads -> {"none", "view", "append", "file", "bootstrap", "next",
                             "prefetch", "retarget", "repair"}]
    /\ want \in [Threads -> Nat]
    /\ counted \in [Threads -> Nat \cup {NoTotal}]
    /\ key \in [Threads -> Tars] /\ source \in [Threads -> Tars]
    /\ mode \in [Threads -> {"none", "select", "recache", "chunk", "lastChunk"}]
    /\ saving \in [Threads -> Nat]
    /\ todo \in [Threads -> SUBSET Nat]
    /\ DOMAIN snap = Threads /\ DOMAIN plan = Threads
    /\ \A t \in Threads : IsMap(snap[t], Row) /\ IsMap(plan[t], Members)

Picked(r) == [i \in DOMAIN r |-> r[i].member]

\* The indexes 0 .. n-1, for some n.
Segment(S) == IsFiniteSet(S) /\ S = 0 .. Cardinality(S) - 1

Sel == INSTANCE Selection WITH sample <- Picked(rows)

\* The image cache implements Selection: the picks are numbered without gaps, no
\* member is picked twice, and a pick keeps its index for good, whatever the
\* request threads, workers, failures, tar changes and deletions do to the run.
ImplementsSelection == Sel!Spec

\* "a pre-assigned image_index is stable from read snapshot through the final
\* write": while a thread fetches what it planned from a snapshot, the run's picks
\* are those of the snapshot, and its fresh picks are new and next in order.
SnapshotStable ==
    \A t \in Threads : pc[t] \in {"write", "save"} =>
        /\ Picked(rows) = Picked(snap[t])
        /\ Segment(DOMAIN rows \cup DOMAIN plan[t])
        /\ \A i \in DOMAIN plan[t] :
              IF i \in DOMAIN rows THEN plan[t][i] = rows[i].member
                                   ELSE plan[t][i] \notin MembersOf(rows)

\* "the matching DB row is identified either by an existing row id (re-cache) or by
\* (image_index, member_name)": a file that is served (its row has a path) shows its
\* row's member.  A fetch that failed halfway leaves files behind, but none under a
\* row that is served.
ServedFileIsItsRow ==
    \A i \in DOMAIN rows :
        rows[i].path /\ i \in DOMAIN file => file[i] \in {rows[i].member, Partial}

\* As long as the run keeps its tar, the sample is a function of the tar: the image
\* at index i has the i-th lowest score, however many processes and threads built
\* the sample, in whatever portions.
SampleIsDeterministic ==
    \A i \in DOMAIN rows : Cardinality({m \in InTar[tar] : m < rows[i].member}) = i

\* A thread that was to see to its first want[t] images goes on with its request: it
\* found nothing to do, or its transaction commits.  (A failure goes to "idle".)
Ended(t) == /\ pc[t] \in {"snap", "write"}
            /\ pc'[t] \in {"countRead", "bootEnd", "reply"}

\* What there is below that count is recorded and on disk, and when the tar has too few
\* images for the count, the target is lowered to what there is.
Delivered(t) ==
    Ended(t) /\ mode[t] \notin {"chunk", "lastChunk"} =>
        /\ \A i \in DOMAIN rows' : i < want[t] => rows'[i].path /\ i \in DOMAIN file'
        /\ Size(rows') >= want[t] \/ target' = Size(rows')

\* A request for a run's images, or a background worker, that ends well has delivered,
\* whatever the other threads of its process did meanwhile.
EnsureDelivers == [][\A t \in Threads : kind[t] # "file" => Delivered(t)]_vars

\* "the exact image can be re-downloaded ... so revisiting a completed image still
\* works": a file that is served and that nobody is writing can be displayed.
ServedFileIsWhole ==
    \A i \in DOMAIN rows :
        rows[i].path /\ i \in DOMAIN file /\ file[i] = Partial
        => \E t \in Threads : pc[t] = "save" /\ saving[t] = i

\* No operation keeps the run lock for ever: every chunk of a prefetch comes closer
\* to its target, even while other threads move the run's target, and every other
\* operation has finitely many steps.
LockReleased == \A t \in Threads : Inside(t) ~> ~Inside(t)
===============================================================================
