------------------------------ MODULE ReviewQueue ------------------------------
(***************************************************************************)
(* The review page, the requests that list its images, and the background  *)
(* worker that prepares them: _prepare_review_images in app/routes.py, the *)
(* queue of app/services/image_cache.py and refreshQueue in                *)
(* app/static/review.js, on the "unreviewed" tab.                          *)
(*                                                                         *)
(* A listing that finds nothing ready prepares runs itself, one image of   *)
(* one run after the other, until something is; it then hands the runs     *)
(* that are still pending to the worker.  The worker loads one image of a  *)
(* run and queues the run again while images are missing.  The page polls  *)
(* while runs are pending and its list is short, and after each submit.    *)
(*                                                                         *)
(* A run's images are cached in index order and under the run lock (module *)
(* ImageCache), so cached[r] counts them and a load is one step.  All runs *)
(* have a manifest: the target is then known before the first image is     *)
(* cached.  Verdicts complete no run here: that is module Completion.      *)
(* Drafts, tabs and outdated answers are in module Pages.                  *)
(***************************************************************************)
EXTENDS Integers, FiniteSets, SequencesExt

CONSTANTS
    Order,          \* the runs as _ordered_review_run_rows sorts them
    Total,          \* run -> images in its tar; there may be none
    Broken,         \* runs whose tar cannot be read: every load raises
    ReviewParts,    \* one image in ReviewParts is reviewed
    RunLimit,       \* REVIEW_BACKGROUND_RUN_LIMIT
    ReadyBuffer,    \* REVIEW_READY_IMAGE_BUFFER
    LowWater,       \* QUEUE_LOW_WATER
    Requests,       \* bound: listings the page may have in flight
    MaxRestarts,    \* bound: restarts of the server
    MaxFailures     \* bound: loads of other runs that raise

Runs == ToSet(Order)

ASSUME OrderAssumption == Order \in Seq(Runs) /\ IsInjective(Order)
ASSUME RunAssumption == Total \in [Runs -> Nat] /\ Broken \subseteq Runs
ASSUME BoundAssumption ==
    /\ ReviewParts \in Nat \ {0}
    /\ {RunLimit, ReadyBuffer, LowWater, MaxRestarts, MaxFailures} \subseteq Nat

VARIABLES
    cached,     \* run -> images cached, on disk and in the database
    reviewed,   \* images with a row in image_validations
    keys,       \* _REVIEW_ENSURE_KEYS
    queue,      \* _REVIEW_ENSURE_QUEUE
    worker,     \* _review_ensure_worker: label, run and should_requeue
    request,    \* listing -> label and locals
    page,       \* the page: its list, poll timer, message, and the submit in flight
    restarts,
    failures

server == <<keys, queue, worker>>
vars == <<cached, reviewed, keys, queue, worker, request, page, restarts, failures>>

NoRun == <<>>

-------------------------------------------------------------------------------
(* What the database shows *)

\* review_image_target
Target(r) ==
    LET share == (Total[r] + ReviewParts - 1) \div ReviewParts
    IN  IF share = 0 THEN 1 ELSE share

Pending(r) == cached[r] < Target(r)

\* MUTANT of OneMore: the target is not looked at.
OneMoreAlways(r) == cached[r] + 1

\* One more image, up to the target.
OneMore(r) == IF Pending(r) THEN cached[r] + 1 ELSE Target(r)

\* _ensure_images: never fewer than before, never more than there are.
Loaded(r, n) ==
    LET got == IF n < Total[r] THEN n ELSE Total[r]
    IN  [cached EXCEPT ![r] = IF got > @ THEN got ELSE @]

\* The images below their run's target.
Images == UNION {{r} \X (0 .. Target(r) - 1) : r \in Runs}

\* The unreviewed images ready for review, but for the runs skipped.
Ready(skipped) ==
    {p \in Images \ reviewed : p[1] \notin skipped /\ p[2] < cached[p[1]]}

\* In their order, which First gives back.
PendingRuns(skipped) == {r \in Runs \ skipped : Pending(r)}

First(S) ==
    CHOOSE r \in S : \E k \in DOMAIN Order : Order[k] = r /\ \A j \in 1 .. k - 1 : Order[j] \notin S

-------------------------------------------------------------------------------
(* A listing *)

\* had: the page had images when it sent the request, hadImages.
Idle == [pc |-> "idle", loud |-> FALSE, had |-> FALSE, todo |-> {}, skipped |-> {},
         want |-> 0, ready |-> 0, queued |-> 0, pending |-> 0, images |-> {}]

At(q, label) == request[q].pc = label
Now(q) == First(request[q].todo)
Rest(q) == request[q].todo \ {Now(q)}

\* The timer goes off.
Poll(q) ==
    /\ page.timer /\ At(q, "idle")
    /\ page' = [page EXCEPT !.timer = FALSE]
    /\ request' = [request EXCEPT ![q].pc = "read", ![q].had = page.list # {}]
    /\ UNCHANGED <<cached, reviewed, server, restarts, failures>>

\* The reviewer presses Load on a page that has stopped, and says that it lacks runs.
\* (On a page that has not, Load makes its other listings outdated: module Pages.)
Reload(q) ==
    /\ page.list = {} /\ page.sent = {} /\ ~page.timer /\ page.notice
    /\ \A p \in Requests : At(p, "idle")
    /\ page' = [page EXCEPT !.notice = FALSE]
    /\ request' = [request EXCEPT ![q].pc = "read", ![q].loud = TRUE]
    /\ UNCHANGED <<cached, reviewed, server, restarts, failures>>

\* MUTANT of Read: the listing prepares nothing itself.
ReadOnly(q) ==
    /\ At(q, "read")
    /\ request' = [request EXCEPT ![q].pc = "count"]
    /\ UNCHANGED <<cached, reviewed, server, page, restarts, failures>>

Read(q) ==
    /\ At(q, "read")
    /\ request' = IF Ready({}) = {}
                  THEN [request EXCEPT ![q].pc = "boot", ![q].todo = PendingRuns({})]
                  ELSE [request EXCEPT ![q].pc = "count"]
    /\ UNCHANGED <<cached, reviewed, server, page, restarts, failures>>

\* _bootstrap_review_run reads how far the run is without its lock.
Boot(q) ==
    /\ At(q, "boot")
    /\ request' = IF request[q].todo = {} THEN [request EXCEPT ![q].pc = "count"]
                  ELSE [request EXCEPT ![q].pc = "fill",
                                       ![q].want = OneMore(Now(q))]
    /\ UNCHANGED <<cached, reviewed, server, page, restarts, failures>>

Fill(q) ==
    /\ At(q, "fill") /\ Now(q) \notin Broken
    /\ cached' = Loaded(Now(q), request[q].want)
    /\ request' = [request EXCEPT ![q].pc = "check", ![q].todo = Rest(q)]
    /\ UNCHANGED <<reviewed, server, page, restarts, failures>>

\* A load of r raises: always, or in passing.
Raises(r) ==
    IF r \in Broken THEN UNCHANGED failures
    ELSE failures < MaxFailures /\ failures' = failures + 1

\* The run is left out of this listing.
Skip(q) ==
    LET r == Now(q) IN
    /\ At(q, "fill") /\ Raises(r)
    /\ request' = [request EXCEPT ![q].pc = "boot", ![q].todo = Rest(q),
                                  ![q].skipped = @ \cup {r}]
    /\ UNCHANGED <<cached, reviewed, server, page, restarts>>

\* Is anything ready now?
Check(q) ==
    /\ At(q, "check")
    /\ request' = [request EXCEPT
           ![q].pc = IF Ready(request[q].skipped) = {} THEN "boot" ELSE "count"]
    /\ UNCHANGED <<cached, reviewed, server, page, restarts, failures>>

\* The runs and the images are read again; the skipped runs are left out.
Count(q) ==
    LET todo == PendingRuns(request[q].skipped) IN
    /\ At(q, "count")
    /\ request' = [request EXCEPT ![q].pc = "queue", ![q].todo = todo,
                                  ![q].pending = Cardinality(todo),
                                  ![q].ready = Cardinality(Ready(request[q].skipped))]
    /\ UNCHANGED <<cached, reviewed, server, page, restarts, failures>>

\* queue_run_image_ensure, under _REVIEW_ENSURE_LOCK; the run enters the queue
\* after the lock is released.
Queue(q) ==
    /\ At(q, "queue")
    /\ IF \/ request[q].todo = {}
          \/ request[q].ready >= ReadyBuffer
          \/ request[q].queued >= RunLimit
       THEN /\ request' = [request EXCEPT ![q].pc = "list"]
            /\ keys' = keys
       ELSE LET r == Now(q) IN
            /\ request' = IF r \in keys
                          THEN [request EXCEPT ![q].todo = Rest(q), ![q].queued = @ + 1]
                          ELSE [request EXCEPT ![q].pc = "put"]
            /\ keys' = keys \cup {r}
    /\ UNCHANGED <<cached, reviewed, queue, worker, page, restarts, failures>>

Put(q) ==
    /\ At(q, "put")
    /\ queue' = Append(queue, Now(q))
    /\ request' = [request EXCEPT ![q].pc = "queue", ![q].todo = Rest(q), ![q].queued = @ + 1]
    /\ UNCHANGED <<cached, reviewed, keys, worker, page, restarts, failures>>

List(q) ==
    /\ At(q, "list")
    /\ request' = [request EXCEPT ![q].pc = "answer", ![q].images = Ready(request[q].skipped)]
    /\ UNCHANGED <<cached, reviewed, server, page, restarts, failures>>

\* The answer replaces the list, in whatever order answers arrive.  A message is shown to
\* one who pressed Load, waits for nothing more or had no images; it tells of runs that
\* were skipped, unless there are images and more are being prepared.
Answer(q) ==
    LET a == request[q]
        shown == \/ a.loud \/ a.pending = 0
                 \/ ~a.had /\ a.images # {}
        told == a.skipped # {} /\ (a.images = {} \/ a.pending = 0)
    IN
    /\ At(q, "answer")
    /\ page' = [page EXCEPT
           !.list = a.images,
           !.timer = a.pending > 0 /\ Cardinality(a.images) <= LowWater,
           !.notice = IF shown THEN told ELSE @]
    /\ request' = [request EXCEPT ![q] = Idle]
    /\ UNCHANGED <<cached, reviewed, server, restarts, failures>>

-------------------------------------------------------------------------------
(* The reviewer *)

\* Drafts are sent; the request records them in one transaction.
Submit ==
    /\ page.sent = {}
    /\ \E S \in SUBSET page.list \ {{}} :
          /\ reviewed' = reviewed \cup S
          /\ page' = [page EXCEPT !.sent = S]
    /\ UNCHANGED <<cached, server, request, restarts, failures>>

\* MUTANT of Saved: the page does not look for more.
SavedQuietly ==
    /\ page.sent # {}
    /\ page' = [page EXCEPT !.list = @ \ page.sent, !.sent = {}]
    /\ UNCHANGED <<cached, reviewed, server, request, restarts, failures>>

\* applySubmittedDrafts, then scheduleQueueRefresh.
Saved ==
    /\ page.sent # {}
    /\ page' = [list |-> page.list \ page.sent, sent |-> {}, timer |-> TRUE, notice |-> FALSE]
    /\ UNCHANGED <<cached, reviewed, server, request, restarts, failures>>

-------------------------------------------------------------------------------
(* The worker *)

Resting == [pc |-> "get", run |-> NoRun, again |-> FALSE]

\* MUTANT of Get: the last one in is taken.
GetLast ==
    /\ worker.pc = "get" /\ queue # <<>>
    /\ worker' = [pc |-> "load", run |-> Last(queue), again |-> FALSE]
    /\ queue' = Front(queue)
    /\ UNCHANGED <<cached, reviewed, keys, request, page, restarts, failures>>

Get ==
    /\ worker.pc = "get" /\ queue # <<>>
    /\ worker' = [pc |-> "load", run |-> Head(queue), again |-> FALSE]
    /\ queue' = Tail(queue)
    /\ UNCHANGED <<cached, reviewed, keys, request, page, restarts, failures>>

\* _load_next_review_image, under the run lock: TRUE while images are missing.
Load ==
    LET r == worker.run IN
    /\ worker.pc = "load" /\ r \notin Broken
    /\ cached' = Loaded(r, OneMore(r))
    /\ worker' = [worker EXCEPT !.pc = "discard", !.again = cached'[r] < Target(r)]
    /\ UNCHANGED <<reviewed, keys, queue, request, page, restarts, failures>>

\* The exception is logged, and should_requeue stays FALSE.
LoadFails ==
    /\ worker.pc = "load" /\ Raises(worker.run)
    /\ worker' = [worker EXCEPT !.pc = "discard"]
    /\ UNCHANGED <<cached, reviewed, keys, queue, request, page, restarts>>

\* MUTANT of Discard: the run is queued again under the key it has.
DiscardAtEnd ==
    /\ worker.pc = "discard"
    /\ keys' = IF worker.again THEN keys ELSE keys \ {worker.run}
    /\ worker' = IF worker.again THEN [worker EXCEPT !.pc = "requeue"] ELSE Resting
    /\ UNCHANGED <<cached, reviewed, queue, request, page, restarts, failures>>

Discard ==
    /\ worker.pc = "discard"
    /\ keys' = keys \ {worker.run}
    /\ worker' = IF worker.again THEN [worker EXCEPT !.pc = "requeue"] ELSE Resting
    /\ UNCHANGED <<cached, reviewed, queue, request, page, restarts, failures>>

\* queue_run_image_ensure, as in Queue.
Requeue ==
    /\ worker.pc = "requeue"
    /\ worker' = IF worker.run \in keys THEN Resting ELSE [worker EXCEPT !.pc = "put"]
    /\ keys' = keys \cup {worker.run}
    /\ UNCHANGED <<cached, reviewed, queue, request, page, restarts, failures>>

PutBack ==
    /\ worker.pc = "put"
    /\ queue' = Append(queue, worker.run)
    /\ worker' = Resting
    /\ UNCHANGED <<cached, reviewed, keys, request, page, restarts, failures>>

Work == Get \/ Load \/ LoadFails \/ Discard \/ Requeue \/ PutBack

-------------------------------------------------------------------------------
(* The server stops and is started again: keys, queue and worker are lost, *)
(* the page's listings fail and are tried again, a submit's answer is lost *)

Restart ==
    /\ restarts < MaxRestarts
    /\ restarts' = restarts + 1
    /\ keys' = {} /\ queue' = <<>> /\ worker' = Resting
    /\ request' = [q \in Requests |-> Idle]
    /\ page' = [page EXCEPT
           !.sent = {},
           !.timer = @ \/ \E q \in Requests : request[q].pc # "idle" /\ ~request[q].loud,
           !.notice = @ \/ \E q \in Requests : request[q].loud]
    /\ UNCHANGED <<cached, reviewed, failures>>

Init ==
    /\ cached = [r \in Runs |-> 0]
    /\ reviewed = {} /\ keys = {} /\ queue = <<>>
    /\ worker = Resting
    /\ request = [q \in Requests |-> Idle]
    /\ page = [list |-> {}, sent |-> {}, timer |-> FALSE, notice |-> TRUE]
    /\ restarts = 0 /\ failures = 0

Serve(q) ==
    \/ Read(q) \/ Boot(q) \/ Fill(q) \/ Skip(q) \/ Check(q) \/ Count(q)
    \/ Queue(q) \/ Put(q) \/ List(q) \/ Answer(q)

Next ==
    \/ \E q \in Requests : Poll(q) \/ Reload(q) \/ Serve(q)
    \/ Submit \/ Saved \/ Work \/ Restart

Spec == Init /\ [][Next]_vars

\* The server answers every request, its worker thread runs, timers go off.
Running ==
    /\ WF_vars(\E q \in Requests : Poll(q)) /\ \A q \in Requests : WF_vars(Serve(q))
    /\ WF_vars(Saved) /\ WF_vars(Work)

\* The reviewer goes on as long as images are shown, or missing by the page's own words.
FairSpec == Spec /\ Running /\ WF_vars(Submit) /\ WF_vars(\E q \in Requests : Reload(q))

-------------------------------------------------------------------------------
(* Properties *)

Labels == {"idle", "read", "boot", "fill", "check", "count", "queue", "put", "list", "answer"}

\* The locals keep their types; no run is cached, or reviewed, beyond its target.
TypeOK ==
    /\ cached \in [Runs -> Nat] /\ \A r \in Runs : cached[r] <= Target(r)
    /\ reviewed \subseteq Images /\ keys \subseteq Runs /\ queue \in Seq(Runs)
    /\ worker \in [pc : {"get", "load", "discard", "requeue", "put"},
                   run : Runs \cup {NoRun}, again : BOOLEAN]
    /\ request \in [Requests -> [pc : Labels, loud : BOOLEAN, had : BOOLEAN,
                                 todo : SUBSET Runs, skipped : SUBSET Runs,
                                 want : Nat, ready : Nat, queued : Nat, pending : Nat,
                                 images : SUBSET Images]]
    /\ page \in [list : SUBSET Images, sent : SUBSET Images,
                timer : BOOLEAN, notice : BOOLEAN]
    /\ restarts \in 0 .. MaxRestarts /\ failures \in 0 .. MaxFailures

\* Who owns the key of a run: a place in the queue, the worker until it gives the key
\* up, and whoever took the key and has not put the run in the queue yet.
Owners(r) ==
    {<<"queue", k>> : k \in {k \in DOMAIN queue : queue[k] = r}}
    \cup (IF worker.run = r /\ worker.pc \in {"load", "discard", "put"} THEN {<<"worker">>} ELSE {})
    \cup {<<"request", q>> : q \in {q \in Requests : At(q, "put") /\ Now(q) = r}}

\* A key in _REVIEW_ENSURE_KEYS has exactly one owner, and a run without a key is
\* neither queued nor being loaded: no request to prepare a run is lost, and none
\* is held twice, between the lock and the queue.
KeyIsTracked == \A r \in Runs : Cardinality(Owners(r)) = IF r \in keys THEN 1 ELSE 0

Sound == Runs \ Broken
ToReview == {p \in Images : p[1] \in Sound /\ Total[p[1]] > 0}

\* "topping up the queue in the background ... rather than waiting for it to drain to
\* zero (which forced reviewers to refresh the page)": a page that shows nothing, waits
\* for nothing and will ask for nothing says that runs were skipped, or all is reviewed,
\* whichever loads failed.
NeverStranded ==
    /\ page.list = {} /\ page.sent = {} /\ ~page.timer /\ ~page.notice
    /\ \A q \in Requests : At(q, "idle")
    => ToReview \subseteq reviewed

\* A queued run is taken by the worker, although others come back for ever.
NoStarvation == \A r \in Runs : Contains(queue, r) ~> ~Contains(queue, r)

\* Every image that can be loaded is reviewed in the end, whatever broken and empty
\* runs come before it.
EverythingIsReviewed == <>(ToReview \subseteq reviewed)
===============================================================================
