-------------------------------- MODULE MergeDbs -------------------------------
(***************************************************************************)
(* scripts/merge_remote_dbs.py: the databases of other machines are pulled *)
(* and merged into the local one, while the servers of all machines work.  *)
(*                                                                         *)
(* The script reads each local row before it updates it.  sqlite3 opens a  *)
(* transaction at the first INSERT or UPDATE, so what was read before that *)
(* may be outdated by the time of the update; from then on the server      *)
(* waits until the remote is merged and committed.                         *)
(*                                                                         *)
(* A row stands for a run, its images and their verdicts.  An image is its *)
(* image_index, and indexes are dense: module Selection.  compltd_* and    *)
(* the other summary columns are [target, completed, updated].  Tars stay: *)
(* no sync takes a completion back (module Completion has that).           *)
(***************************************************************************)
EXTENDS Integers, FiniteSets

CONSTANTS
    Local, Remotes,     \* the machine of the script; the others
    Runs,
    Verdicts,           \* what a reviewer may say of an image
    Null,               \* SQL NULL: not completed
    DefaultCount,       \* DEFAULT_IMAGE_COUNT
    Absent,             \* a run the database does not know
    MaxImages,          \* bound: images selected for a run
    MaxTime             \* bound: compltd_updated_at

Machines == {Local} \cup Remotes

ASSUME MachineAssumption == Local \notin Remotes
ASSUME BoundAssumption ==
    /\ {DefaultCount, MaxImages, MaxTime} \subseteq Nat /\ DefaultCount > 0
    /\ Null \notin Nat /\ "none" \notin Verdicts

VARIABLES
    db,     \* machine -> run -> row, as its server sees it
    merge,  \* the script: label, remote it copies, runs to go, pulled copy, row read, transaction
    torn,   \* history: was a completed run pulled as it was in no state of its database
    raced   \* history: runs completed here while this merge was between its read and its write

vars == <<db, merge, torn, raced>>

Images == 0 .. MaxImages - 1

\* A run that was just indexed.
Fresh == [selected |-> 0, verdict |-> [i \in Images |-> "none"], done |-> Null,
          target |-> DefaultCount, completed |-> FALSE, updated |-> 0]

Rows == [selected : 0 .. MaxImages, verdict : [Images -> Verdicts \cup {"none"}],
         done : Nat \cup {Null}, target : Nat, completed : BOOLEAN, updated : Nat]

ASSUME AbsentAssumption == Absent \notin Rows

Tables == [Runs -> Rows \cup {Absent}]
Table == [r \in Runs |-> Absent]

-------------------------------------------------------------------------------
(* The servers *)

\* A write transaction of the script keeps the local server waiting.
MayWrite(m) == m = Local => ~merge.open

Earned(d) == d.selected >= d.target /\ \A i \in Images : i < d.target => d.verdict[i] # "none"

\* An UPDATE that changes nothing is no step.
Edit(m, r, d) ==
    /\ MayWrite(m) /\ d # db[m][r]
    /\ db' = [db EXCEPT ![m][r] = d]
    /\ UNCHANGED merge

Known(m, r) == db[m][r] # Absent

Index(m, r) == ~Known(m, r) /\ Edit(m, r, Fresh)

Pick(m, r) ==
    /\ Known(m, r) /\ db[m][r].selected < MaxImages
    /\ Edit(m, r, [db[m][r] EXCEPT !.selected = @ + 1])

\* MUTANT of Judge: the image is not looked up.
JudgeAny(m, r) ==
    /\ Known(m, r)
    /\ \E i \in Images, v \in Verdicts :
          /\ db[m][r].verdict[i] = "none"
          /\ Edit(m, r, [db[m][r] EXCEPT !.verdict[i] = v])

\* submit_validations; reviewers do not change their minds here.
Judge(m, r) ==
    /\ Known(m, r)
    /\ \E i \in Images, v \in Verdicts :
          /\ i < db[m][r].selected /\ db[m][r].verdict[i] = "none"
          /\ Edit(m, r, [db[m][r] EXCEPT !.verdict[i] = v])

\* complete_run_validation
Complete(m, r) ==
    /\ Known(m, r) /\ Earned(db[m][r])
    /\ Edit(m, r, [db[m][r] EXCEPT !.done = db[m][r].target])

\* What a sync or a background task noted from the sheet.
Note(m, r) ==
    /\ Known(m, r)
    /\ \E c \in BOOLEAN, t \in 0 .. MaxTime :
          Edit(m, r, [db[m][r] EXCEPT !.completed = c, !.updated = t])

Retarget(m, r) ==
    /\ Known(m, r)
    /\ \E n \in 1 .. MaxImages : Edit(m, r, [db[m][r] EXCEPT !.target = n])

Server(m, r) ==
    \/ Index(m, r) \/ Pick(m, r) \/ Judge(m, r) \/ Complete(m, r)
    \/ Note(m, r) \/ Retarget(m, r)

-------------------------------------------------------------------------------
(* The script *)

Resting == [pc |-> "idle", from |-> Local, todo |-> {}, run |-> Absent, copy |-> Table, seen |-> Absent,
            open |-> FALSE, draft |-> Table]

\* What the script's connection reads: its own transaction, or what is committed.
Current == IF merge.open THEN merge.draft ELSE db[Local]

\* What is read of a run when some pages are from one state of the database and some from
\* another: its row is of one of them, its images are, and each verdict is.  The query for
\* verdicts joins their images.  A copy that cannot be read is a failure: see Fail.
Joined(c, d, n, J) == [i \in Images |-> IF i >= n THEN "none"
                                        ELSE IF i \in J THEN c.verdict[i] ELSE d.verdict[i]]
Mixed(c, d) ==
    IF Absent \in {c, d} THEN {c, d}
    ELSE {[p[1] EXCEPT !.selected = p[2], !.verdict = Joined(c, d, p[2], p[3])] :
             p \in {c, d} \X {c.selected, d.selected} \X SUBSET Images}

\* rsync copies the database file without its write-ahead log: a committed state of the
\* remote, which is outdated as soon as the script works on it ...
Pull(m) ==
    /\ merge.pc = "idle"
    /\ merge' = [Resting EXCEPT !.pc = "pull", !.from = m, !.copy = db[m]]
    /\ UNCHANGED db

\* ... or, when a checkpoint writes to the file meanwhile, partly a later one.
PullRest ==
    /\ merge.pc = "pull"
    /\ LET Read(r) == Mixed(merge.copy[r], db[merge.from][r])
       IN  \E c \in [Runs -> UNION {Read(r) : r \in Runs}] :
              /\ \A r \in Runs : c[r] \in Read(r)
              /\ merge' = [merge EXCEPT !.pc = "runs", !.from = Local, !.copy = c,
                                        !.todo = {r \in Runs : c[r] # Absent}]
    /\ UNCHANGED db

ReadRun(r) ==
    /\ merge.pc = "runs" /\ r \in merge.todo
    /\ merge' = [merge EXCEPT !.pc = "write", !.run = r, !.todo = @ \ {r}, !.seen = Current[r]]
    /\ UNCHANGED db

\* take_summary
Newer(c, d) ==
    \/ c.completed /\ ~d.completed
    \/ c.completed = d.completed /\ c.updated > d.updated

\* MUTANT of Missing: filled in although this machine has its own.
MissingAny(c, d) == c.done # Null

\* fill_validation
Missing(c, d) == c.done # Null /\ d.done = Null

\* The row as updated from the copy, by what was read of it before.
Updated(d, c, seen) ==
    LET summed == IF Newer(c, seen)
                  THEN [d EXCEPT !.target = c.target, !.completed = c.completed,
                                 !.updated = c.updated]
                  ELSE d
    IN  IF Missing(c, seen) THEN [summed EXCEPT !.done = c.done] ELSE summed

\* A new row has no images yet.
Inserted(c) == [c EXCEPT !.selected = 0, !.verdict = Fresh.verdict]

\* An INSERT of a run that was indexed in between raises: see Fail.
WriteRun ==
    LET r == merge.run
        c == merge.copy[r]
        next == [merge EXCEPT !.pc = "runs", !.run = Absent, !.seen = Absent]
    IN
    /\ merge.pc = "write"
    /\ \/ /\ merge.seen = Absent /\ Current[r] = Absent
          /\ merge' = [next EXCEPT !.open = TRUE, !.draft = [Current EXCEPT ![r] = Inserted(c)]]
       \/ /\ merge.seen # Absent /\ (Newer(c, merge.seen) \/ Missing(c, merge.seen))
          /\ merge' = [next EXCEPT
                          !.open = TRUE,
                          !.draft = [Current EXCEPT ![r] = Updated(@, c, merge.seen)]]
       \/ /\ merge.seen # Absent /\ ~(Newer(c, merge.seen) \/ Missing(c, merge.seen))
          /\ merge' = next
    /\ UNCHANGED db

\* MUTANT of WithImages: images the remote has selected ahead are not copied.
WithoutImages(d, c) == d

\* INSERT OR IGNORE INTO run_images
WithImages(d, c) == [d EXCEPT !.selected = IF c.selected > @ THEN c.selected ELSE @]

\* MUTANT of WithVerdicts: INSERT OR REPLACE.
WithNewVerdicts(d, c) ==
    [d EXCEPT !.verdict = [i \in Images |-> IF c.verdict[i] # "none" THEN c.verdict[i]
                                            ELSE d.verdict[i]]]

\* INSERT OR IGNORE INTO image_validations, for images that are there.
WithVerdicts(d, c) ==
    [d EXCEPT !.verdict = [i \in Images |-> IF d.verdict[i] = "none" /\ i < d.selected
                                            THEN c.verdict[i] ELSE d.verdict[i]]]

\* MUTANT of CommitRemote: verdicts before images.
CommitVerdictsFirst ==
    /\ merge.pc = "runs" /\ merge.todo = {}
    /\ db' = [db EXCEPT ![Local] = [r \in Runs |->
                IF merge.copy[r] = Absent THEN Current[r]
                ELSE WithImages(WithVerdicts(Current[r], merge.copy[r]), merge.copy[r])]]
    /\ merge' = Resting

\* merge_run_images, merge_image_validations and COMMIT: the first INSERT opens the
\* transaction if no run was changed.
CommitRemote ==
    /\ merge.pc = "runs" /\ merge.todo = {}
    /\ db' = [db EXCEPT ![Local] = [r \in Runs |->
                IF merge.copy[r] = Absent THEN Current[r]
                ELSE WithVerdicts(WithImages(Current[r], merge.copy[r]), merge.copy[r])]]
    /\ merge' = Resting

\* An exception: the remote is skipped, the transaction rolled back.
Fail ==
    /\ merge.pc # "idle"
    /\ merge' = Resting
    /\ UNCHANGED db

Script == PullRest \/ WriteRun \/ CommitRemote \/ Fail

Init ==
    /\ db = [m \in Machines |-> Table]
    /\ merge = Resting
    /\ torn = FALSE /\ raced = {}

\* The completion this machine has of run r.
Own(r) == IF Known(Local, r) THEN db[Local][r].done ELSE Null

\* Of a step: the script has got a completed run as it was in neither state it was copied from.
TornNow ==
    /\ merge.pc = "pull" /\ merge'.pc = "runs"
    /\ \E r \in Runs : LET c == merge'.copy[r] IN
          c \notin {Absent, merge.copy[r], db[merge.from][r]} /\ c.done # Null

\* Of a step: the runs it completes here while the script relies on having read that they are not.
RacedNow == {r \in Runs : merge.pc = "write" /\ merge.run = r /\ Own(r) = Null /\ Own(r)' # Null}

History ==
    /\ torn' = (torn \/ TornNow)
    /\ raced' = IF merge'.pc = "idle" THEN {} ELSE raced \cup RacedNow

Next ==
    \/ \E m \in Machines, r \in Runs : Server(m, r) /\ History
    \/ \E m \in Remotes : Pull(m) /\ History
    \/ \E r \in Runs : ReadRun(r) /\ History
    \/ Script /\ History

Spec == Init /\ [][Next]_vars

-------------------------------------------------------------------------------
(* Properties *)

Judged(d) == {i \in Images : d.verdict[i] # "none"}

\* Tables and the script's copies have their types; a verdict is about an image that is there.
TypeOK ==
    /\ db \in [Machines -> Tables]
    /\ \A m \in Machines, r \in Runs : Known(m, r) => \A i \in Judged(db[m][r]) : i < db[m][r].selected
    /\ torn \in BOOLEAN /\ raced \subseteq Runs
    /\ merge \in [pc : {"idle", "pull", "runs", "write"}, from : Machines,
                  todo : SUBSET Runs, run : Runs \cup {Absent},
                  copy : Tables, seen : Rows \cup {Absent}, open : BOOLEAN, draft : Tables]

\* A completed run has a verdict for every image below the target it was completed for,
\* also where the completion and the verdicts came from another machine, unless a copy of a
\* database was torn.
CompletionIsEarned ==
    ~torn => \A m \in Machines, r \in Runs : Known(m, r) /\ db[m][r].done # Null =>
        \A i \in 0 .. db[m][r].done - 1 : i \in Images /\ db[m][r].verdict[i] # "none"

\* Of two states: the pulled copy is in the local database.
Delivered ==
    \A r \in Runs : LET c == merge.copy[r] IN c # Absent =>
        LET d == db'[Local][r] IN
        /\ d # Absent
        /\ d.selected >= c.selected /\ Judged(c) \subseteq Judged(d)
        /\ d.done \in {c.done, Own(r)} /\ (d.done = Null => c.done = Null /\ Own(r) = Null)

\* A remote that was merged is merged: its runs, images and verdicts are there, and each run
\* is completed as here or as there if it is completed anywhere, whatever the local server
\* did meanwhile.
MergeDelivers == [][CommitRemote => Delivered]_vars

\* "filled in from a source DB whenever the local DB lacks them, and never overwritten or
\* wiped": a merge leaves a completion of this machine as it was, unless it came between the
\* script's SELECT of the run and its UPDATE.
OwnFactsStay ==
    [][CommitRemote => \A r \in Runs \ raced : Own(r) # Null => db'[Local][r].done = Own(r)]_vars

\* Of two states: the local verdicts are as they were.
Kept ==
    \A r \in Runs : Known(Local, r) =>
        \A i \in Judged(db[Local][r]) : db'[Local][r].verdict[i] = db[Local][r].verdict[i]

\* A verdict given on this machine is not replaced by another machine's.
OwnVerdictsStay == [][Kept]_vars
===============================================================================
