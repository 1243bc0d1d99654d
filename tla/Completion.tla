------------------------------ MODULE Completion ------------------------------
(***************************************************************************)
(* Verdicts, completion and the Google Sheet, for one run:                 *)
(* app/services/validations.py, sheet_writeback.py, sync.py and sheets.py  *)
(* with their callers in app/routes.py.                                    *)
(*                                                                         *)
(* Every machine has its own database and server; the sheet row of the run *)
(* is shared by all of them.  A request records verdicts and completes the *)
(* run in one transaction, answers, and only then tells the sheet, in a    *)
(* background task that may fail, be overtaken or be lost.  A sync reads   *)
(* the sheet, then rewrites the run in one transaction that stays open     *)
(* while it sends completions to the sheet.                                *)
(*                                                                         *)
(* An image is its image_index: by Selection its picture never changes.    *)
(* Left out: who validated and when, notes, selection_version (never       *)
(* changed), and the order of the sheet's rows.                            *)
(***************************************************************************)
EXTENDS Integers, FiniteSets

CONSTANTS
    Machines, Workers,  \* validator machines; their requests and tasks
    Home,               \* the machine of a worker
    Nobody,             \* no writer
    Null,               \* SQL NULL
    DefaultCount,       \* DEFAULT_IMAGE_COUNT
    ApproveParts,       \* approved when fewer than 1 in ApproveParts failed
    MaxImages,          \* bound: images selected for the run
    Targets,            \* bound: the values image_target_count may take
    Validations,        \* bound: what people have put in the validation column
    Revise,             \* whether reviewers change verdicts
    SheetFails,         \* whether reads and writes of the sheet may fail
    TarMoves            \* whether a sync may find another tar for the run

ASSUME WorkerAssumption == Home \in [Workers -> Machines] /\ Nobody \notin Workers
ASSUME BoundAssumption ==
    /\ {DefaultCount, ApproveParts} \subseteq Nat \ {0}
    /\ MaxImages \in Nat /\ Targets \subseteq Nat
    /\ Validations \subseteq {"", "approved", "retry"}
    /\ {Revise, SheetFails, TarMoves} \subseteq BOOLEAN
    /\ Null \notin Nat

VARIABLES
    db,      \* machine -> its runs and image_validations rows for the run
    sheet,   \* the app's and the validation columns of the run's sheet row
    writer,  \* machine -> the worker whose write transaction is open
    pc,      \* worker -> label
    job,     \* worker -> the columns it writes to the sheet, or read from it
    draft    \* worker -> the database row as its open transaction has it

vars == <<db, sheet, writer, pc, job, draft>>

Verdicts == {"pass", "fail"}
Images == 0 .. MaxImages - 1

Columns == [validation : {"", "approved", "retry"},
            status     : {"", "in_progress", "completed"},
            outcome    : {"", "approved", "retry"},
            reviewed   : Nat,
            failed     : Nat]

Blank == [validation |-> "", status |-> "", outcome |-> "", reviewed |-> 0, failed |-> 0]

-------------------------------------------------------------------------------
(* Counting verdicts *)

\* "x or default"
Or(n, default) == IF n = 0 THEN default ELSE n

Target(d) == Or(d.target, DefaultCount)
Below(d, n) == {i \in Images : i < d.selected /\ i < n}

\* MUTANT of Reviewed: the images fetched ahead of the target count as well.
ReviewedAhead(d, n) == {i \in Below(d, MaxImages) : d.verdict[i] # "none"}

Reviewed(d, n) == {i \in Below(d, n) : d.verdict[i] # "none"}

Failed(d, n) == {i \in Below(d, n) : d.verdict[i] = "fail"}

\* _run_validation_progress: as many images and verdicts as the target asks for.
Earned(d) ==
    /\ Cardinality(Below(d, Target(d))) >= Target(d)
    /\ Cardinality(Reviewed(d, Target(d))) >= Target(d)

\* _write_run_completion
Completed(d) == [d EXCEPT !.doneAt = TRUE, !.doneFor = Target(d)]

\* maybe_complete_run_validation: a run is not completed twice for one target.
MayComplete(d) == Earned(d) /\ ~(d.doneAt /\ d.doneFor = Target(d))

\* _report_outcome
Outcome(failed, reviewed) ==
    IF reviewed > 0 /\ ApproveParts * failed < reviewed THEN "approved" ELSE "retry"

\* MUTANT of Payload: the counts are those of the current target.
PayloadNow(d) ==
    LET r == Cardinality(Reviewed(d, d.target))
        f == Cardinality(Failed(d, d.target))
    IN  [Blank EXCEPT !.status = "completed", !.outcome = Outcome(f, r),
                      !.reviewed = r, !.failed = f]

\* _completion_writeback_payload, and the same query in sync_all_completions.
Payload(d) ==
    LET n == IF d.doneFor = Null THEN d.target ELSE d.doneFor
        r == Cardinality(Reviewed(d, n))
        f == Cardinality(Failed(d, n))
    IN  [Blank EXCEPT !.status = "completed", !.outcome = Outcome(f, r),
                      !.reviewed = r, !.failed = f]

\* The app writes its own columns only, and of a progress report only the status.
Progress == [Blank EXCEPT !.status = "in_progress"]
Update(columns, new) ==
    IF new.status = "completed" THEN [new EXCEPT !.validation = columns.validation]
                                ELSE [columns EXCEPT !.status = "in_progress"]

\* _ensure_run_available, _append_sheet_availability_filter: the run is offered to
\* the reviewers of this machine.
Resolved == {"approved", "retry"}
Offered(d) ==
    d.doneAt \/ (d.mirror.validation \notin Resolved /\ d.mirror.status # "completed")

-------------------------------------------------------------------------------
(* Requests *)

Goto(w, label) == pc' = [pc EXCEPT ![w] = label]

\* The row of a run that was just indexed: the value of an unused draft, too.
Fresh == [selected |-> 0, verdict |-> [i \in Images |-> "none"], target |-> DefaultCount,
          doneAt |-> FALSE, doneFor |-> Null, mirror |-> Blank]

\* The end of a request, task or sync.
Finish(w) ==
    /\ Goto(w, "idle")
    /\ job' = [job EXCEPT ![w] = Blank]
    /\ draft' = [draft EXCEPT ![w] = Fresh]
Commit(m, d) == db' = [db EXCEPT ![m] = d]

\* BEGIN IMMEDIATE waits for the machine's other writer.
MayWrite(m) == writer[m] = Nobody

\* Some of the images the machine has selected, with a verdict each.
Marked(d, S, v) ==
    [d EXCEPT !.verdict = [i \in Images |-> IF i \in S THEN v[i] ELSE d.verdict[i]]]

\* MUTANT of Markable: an image is not looked up before its verdict is stored.
MarkableAny(d) ==
    {S \in SUBSET Images \ {{}} : Revise \/ \A i \in S : d.verdict[i] = "none"}

Markable(d) ==
    {S \in SUBSET Below(d, MaxImages) \ {{}} : Revise \/ \A i \in S : d.verdict[i] = "none"}

\* submit_review_image: no check that the run is still offered.
Submit(w) ==
    LET m == Home[w] IN
    /\ pc[w] = "idle" /\ MayWrite(m)
    /\ \E S \in Markable(db[m]) : \E v \in [S -> Verdicts] :
          LET d == Marked(db[m], S, v) IN
          IF MayComplete(d)
          THEN /\ Commit(m, Completed(d))
               /\ job' = [job EXCEPT ![w] = Payload(Completed(d))]
          ELSE Commit(m, d) /\ job' = [job EXCEPT ![w] = Progress]
    /\ Goto(w, "write")
    /\ UNCHANGED <<sheet, writer, draft>>

\* save_validations
Save(m) ==
    /\ MayWrite(m)
    /\ \E S \in Markable(db[m]) : \E v \in [S -> Verdicts] : Commit(m, Marked(db[m], S, v))
    /\ UNCHANGED <<sheet, writer, pc, job, draft>>

\* complete_run: also a run that is completed already.
CompleteRun(w) ==
    LET m == Home[w] IN
    /\ pc[w] = "idle" /\ MayWrite(m)
    /\ Earned(db[m])
    /\ Commit(m, Completed(db[m]))
    /\ Goto(w, "payload")
    /\ UNCHANGED <<sheet, writer, job, draft>>

\* _sync_completion_to_sheet reads the counts in a transaction of its own.
ReadPayload(w) ==
    /\ pc[w] = "payload"
    /\ job' = [job EXCEPT ![w] = Payload(db[Home[w]])]
    /\ Goto(w, "write")
    /\ UNCHANGED <<db, sheet, writer, draft>>

\* MUTANT of WriteSheet: the result of the write is not looked at.
WriteSheetAnyhow(w) ==
    /\ pc[w] = "write"
    /\ sheet' \in {sheet, Update(sheet, job[w])}
    /\ IF job[w].status = "completed"
       THEN Goto(w, "mirror") /\ UNCHANGED <<job, draft>>
       ELSE Finish(w)
    /\ UNCHANGED <<db, writer>>

\* write_run_batch, write_run_completion: one request sets all cells, or fails; a
\* failure that comes after the cells were set looks the same to the caller.
WriteSheet(w) ==
    /\ pc[w] = "write"
    /\ \/ /\ sheet' = Update(sheet, job[w])
          /\ IF job[w].status = "completed"
             THEN Goto(w, "mirror") /\ UNCHANGED <<job, draft>>
             ELSE Finish(w)
       \/ /\ SheetFails
          /\ sheet' \in {sheet, Update(sheet, job[w])}
          /\ Finish(w)
    /\ UNCHANGED <<db, writer>>

\* The completion that reached the sheet is noted in the database.
Mirror(w) ==
    LET m == Home[w] IN
    /\ pc[w] = "mirror" /\ MayWrite(m)
    /\ Commit(m, [db[m] EXCEPT !.mirror = Update(@, job[w])])
    /\ Finish(w)
    /\ UNCHANGED <<sheet, writer>>

-------------------------------------------------------------------------------
(* sync_metadata: sync_runs and sync_all_completions on one connection *)

\* fetch_done_runs; a failure is taken for a sheet without runs.
SyncFetch(w) ==
    /\ pc[w] = "idle"
    /\ \/ job' = [job EXCEPT ![w] = sheet]
       \/ SheetFails /\ job' = [job EXCEPT ![w] = Blank]
    /\ Goto(w, "upsert")
    /\ UNCHANGED <<db, sheet, writer, draft>>

\* MUTANT of SyncUpsert: compltd_status is not in the SET clause.
SyncUpsertKeepStatus(w) ==
    LET m == Home[w] IN
    /\ pc[w] = "upsert" /\ MayWrite(m)
    /\ writer' = [writer EXCEPT ![m] = w]
    /\ \E moved \in {FALSE, TarMoves} :
          draft' = [draft EXCEPT ![w] =
                      [db[m] EXCEPT !.mirror = [job[w] EXCEPT !.status = db[m].mirror.status],
                                    !.doneAt = @ /\ ~moved,
                                    !.doneFor = IF moved THEN Null ELSE @]]
    /\ Goto(w, "push")
    /\ UNCHANGED <<db, sheet, job>>

\* The first INSERT opens the write transaction.  A tar under another key takes the
\* completion back.
SyncUpsert(w) ==
    LET m == Home[w] IN
    /\ pc[w] = "upsert" /\ MayWrite(m)
    /\ writer' = [writer EXCEPT ![m] = w]
    /\ \E moved \in {FALSE, TarMoves} :
          draft' = [draft EXCEPT ![w] =
                      [db[m] EXCEPT !.mirror = job[w],
                                    !.doneAt = @ /\ ~moved,
                                    !.doneFor = IF moved THEN Null ELSE @]]
    /\ Goto(w, "push")
    /\ UNCHANGED <<db, sheet, job>>

\* MUTANT of SyncUnlisted: what was known of a run from the sheet is cleared.
SyncUnlistedBlank(w) ==
    LET m == Home[w] IN
    /\ pc[w] = "upsert" /\ MayWrite(m)
    /\ writer' = [writer EXCEPT ![m] = w]
    /\ draft' = [draft EXCEPT ![w] = [db[m] EXCEPT !.mirror = Blank]]
    /\ Goto(w, "push")
    /\ UNCHANGED <<db, sheet, job>>

\* A run that is missing from the S3 listing is left as it is; the transaction is open for
\* the runs that are listed.
SyncUnlisted(w) ==
    LET m == Home[w] IN
    /\ pc[w] = "upsert" /\ MayWrite(m)
    /\ writer' = [writer EXCEPT ![m] = w]
    /\ draft' = [draft EXCEPT ![w] = db[m]]
    /\ Goto(w, "push")
    /\ UNCHANGED <<db, sheet, job>>

\* sync_all_completions: a completion that the sheet did not show is sent again.
SyncPush(w) ==
    /\ pc[w] = "push"
    /\ LET d == draft[w] IN
          IF d.doneAt /\ d.mirror.status # "completed"
          THEN \/ /\ sheet' = Update(sheet, Payload(d))
                  /\ draft' = [draft EXCEPT ![w].mirror = Update(@, Payload(d))]
               \/ /\ SheetFails
                  /\ sheet' \in {sheet, Update(sheet, Payload(d))}
                  /\ UNCHANGED draft
          ELSE UNCHANGED <<sheet, draft>>
    /\ Goto(w, "commit")
    /\ job' = [job EXCEPT ![w] = Blank]
    /\ UNCHANGED <<db, writer>>

SyncCommit(w) ==
    /\ pc[w] = "commit"
    /\ Commit(Home[w], draft[w])
    /\ writer' = [writer EXCEPT ![Home[w]] = Nobody]
    /\ Finish(w)
    /\ UNCHANGED sheet

\* An exception, a busy timeout or a restart: the task is forgotten, an open
\* transaction is rolled back.
Abandon(w) ==
    /\ pc[w] # "idle"
    /\ Finish(w)
    /\ writer' = [m \in Machines |-> IF writer[m] = w THEN Nobody ELSE writer[m]]
    /\ UNCHANGED <<db, sheet>>

-------------------------------------------------------------------------------
(* What the image cache does to the run, as far as it shows here *)

\* Selection!Extend: one more image.
Pick(m) ==
    /\ MayWrite(m)
    /\ db[m].selected < MaxImages
    /\ Commit(m, [db[m] EXCEPT !.selected = @ + 1])
    /\ UNCHANGED <<sheet, writer, pc, job, draft>>

\* append_run_images, _sync_review_image_targets and the others set any target.
Retarget(m) ==
    /\ MayWrite(m)
    /\ \E n \in Targets : Commit(m, [db[m] EXCEPT !.target = n])
    /\ UNCHANGED <<sheet, writer, pc, job, draft>>

Init ==
    /\ db = [m \in Machines |-> Fresh]
    /\ \E v \in Validations : sheet = [Blank EXCEPT !.validation = v]
    /\ writer = [m \in Machines |-> Nobody]
    /\ pc = [w \in Workers |-> "idle"]
    /\ job = [w \in Workers |-> Blank]
    /\ draft = [w \in Workers |-> Fresh]

Request(w) == Submit(w) \/ CompleteRun(w) \/ ReadPayload(w) \/ WriteSheet(w) \/ Mirror(w)
Sync(w) ==
    SyncFetch(w) \/ SyncUpsert(w) \/ SyncUnlisted(w) \/ SyncPush(w) \/ SyncCommit(w)

Next ==
    \/ \E w \in Workers : Request(w) \/ Sync(w) \/ Abandon(w)
    \/ \E m \in Machines : Save(m) \/ Pick(m) \/ Retarget(m)

Spec == Init /\ [][Next]_vars

\* A sync that found the run listed gets as far as the sheet.
Repair(w) == SyncPush(w) /\ draft[w].mirror = job[w]

\* Whatever is under way ends, perhaps by failing; an operator keeps on syncing, and not
\* every sync fails to read the sheet's row into the database and to look at it again.
FairSpec ==
    /\ Spec
    /\ \A w \in Workers : WF_vars(pc[w] # "idle" /\ (Request(w) \/ Sync(w) \/ Abandon(w)))
    /\ SF_vars(\E w \in Workers : SyncFetch(w))
    /\ SF_vars(\E w \in Workers : SyncUpsert(w))
    /\ SF_vars(\E w \in Workers : Repair(w))

-------------------------------------------------------------------------------
(* Properties *)

Rows == [selected : 0 .. MaxImages, verdict : [Images -> Verdicts \cup {"none"}], target : Nat,
         doneAt : BOOLEAN, doneFor : Nat \cup {Null}, mirror : Columns]

\* Every database row, the sheet and every task have values of their types, and a
\* verdict is about an image that exists.
TypeOK ==
    /\ db \in [Machines -> Rows]
    /\ \A m \in Machines : \A i \in Images : db[m].verdict[i] # "none" => i < db[m].selected
    /\ sheet \in Columns
    /\ writer \in [Machines -> Workers \cup {Nobody}]
    /\ pc \in [Workers -> {"idle", "payload", "write", "mirror", "upsert", "push", "commit"}]
    /\ job \in [Workers -> Columns]
    /\ draft \in [Workers -> Rows]

\* A completed run is completed for good reason: every image below the target it was
\* completed for has a verdict, however targets, picks and syncs went since.
CompletionIsEarned ==
    \A m \in Machines : db[m].doneAt =>
        /\ db[m].doneFor \in Nat
        /\ \A i \in 0 .. db[m].doneFor - 1 : i \in Images /\ db[m].verdict[i] # "none"

\* The database never claims a completion the sheet has not seen: the outcome column
\* keeps a trace of it even when a later progress report resets the status.
MirrorFollowsSheet ==
    \A m \in Machines : db[m].mirror.status = "completed" => sheet.outcome # ""

\* As long as verdicts are not changed and tars stay, what the sheet says of a
\* completed run is true of a machine: the outcome and counts of all its first images.
True(c) ==
    \E m \in Machines : LET n == c.reviewed IN
        /\ n > 0 /\ \A i \in 0 .. n - 1 : i \in Images /\ db[m].verdict[i] # "none"
        /\ c.failed = Cardinality({i \in 0 .. n - 1 : db[m].verdict[i] = "fail"})
        /\ c.outcome = Outcome(c.failed, n)
SheetTellsTruth == sheet.status = "completed" => True(sheet)

\* Syncs repair the sheet: a task that is lost, a report that overtakes a completion or
\* comes from another machine, and a sync that puts back what it read before may leave a
\* completed run short of completed there, but not for ever while verdicts are final.
SheetRecovers ==
    \A m \in Machines : db[m].doneAt ~> [](sheet.status = "completed")

\* "runs already marked approved/retry ... are skipped unless they were completed
\* locally": a machine that has stopped offering a run the sheet has resolved does
\* not offer it again, unless it completes it.
ResolvedRunsAreSkipped ==
    [][\A m \in Machines :
          sheet.validation \in Resolved /\ ~Offered(db[m])
          => db'[m].doneAt \/ ~Offered(db'[m])]_vars
===============================================================================
