--------------------------------- MODULE Pages ---------------------------------
(***************************************************************************)
(* One reviewer at the review page (app/static/review.js) or at the run    *)
(* page (app/static/app.js): what is shown, the drafts that are not        *)
(* submitted yet, and the listings and submissions in flight, which the    *)
(* server takes up, and the page hears of, in any order.                   *)
(*                                                                         *)
(* The server stores a submission in one transaction, which it tries       *)
(* Attempts times (run_with_retry): a try gives up when a sync keeps the   *)
(* database locked over its requests to the sheet (module Completion).     *)
(* A page may stop hearing of a submission that the server still works on. *)
(*                                                                         *)
(* A draft is a verdict with the notes that belong to it.  A fail without  *)
(* severity or notes, which cannot be submitted, is not a draft yet.  All  *)
(* images are ready: which are is the subject of module ReviewQueue.       *)
(***************************************************************************)
EXTENDS Integers, FiniteSets, Functions

CONSTANTS
    Images,
    Verdicts,
    NoVerdict,
    Tabs,       \* of "unreviewed", "submitted", "all" and the verdicts
    Listings,   \* bound: listings in flight
    Submissions,\* bound: submissions in flight
    Attempts,   \* LOCKED_RETRY_ATTEMPTS
    MaxFaults   \* bound: syncs, and requests that fail or are not heard of

ASSUME VerdictAssumption == NoVerdict \notin Verdicts
ASSUME BoundAssumption ==
    /\ Attempts \in Nat \ {0}
    /\ MaxFaults \in Nat
ASSUME TabAssumption == "unreviewed" \in Tabs

VARIABLES
    stored,     \* image -> verdict in image_validations
    locked,     \* a sync has the write lock
    faults,     \* how many there were
    kind,       \* "review" or "runs": which page it is
    page,       \* tab, list, drafts, timer, and what can be clicked
    listing,    \* listings in flight
    submission, \* submissions in flight
    decided,    \* image -> verdict the reviewer chose last, until Load drops the draft
    contested   \* images whose verdict was changed while a submission was in flight

server == <<stored, locked, faults>>
words == <<decided, contested>>
vars == <<server, kind, page, listing, submission, words>>

Free == [pc |-> "free"]

Fault == faults < MaxFaults /\ faults' = faults + 1

Without(f, S) == Restrict(f, DOMAIN f \ S)
Put(f, i, v) == [j \in DOMAIN f \cup {i} |-> IF j = i THEN v ELSE f[j]]
Updated(f, g) == [i \in DOMAIN f |-> IF i \in DOMAIN g THEN g[i] ELSE f[i]]

-------------------------------------------------------------------------------
(* What a page shows and offers *)

\* matchesCurrentState, and state_where of the server's query
Matches(tab, verdict) ==
    \/ tab \in {"all", verdict}
    \/ tab = "unreviewed" /\ verdict = NoVerdict
    \/ tab = "submitted" /\ verdict # NoVerdict

Matching(tab, f) == Restrict(f, {i \in DOMAIN f : Matches(tab, f[i])})

\* collectDraftItems leaves out drafts of images that are not shown, or as stored;
\* collectValidationItems takes all.
Items(list, drafts) ==
    IF kind = "runs" THEN drafts
    ELSE Restrict(drafts, {i \in DOMAIN drafts \cap DOMAIN list : drafts[i] # list[i]})

\* The buttons after renderCurrentImage and updateDraftSummary.
Rendered(p) ==
    [p EXCEPT !.marking = p.list # <<>>, !.submitting = Items(p.list, p.drafts) # <<>>]

-------------------------------------------------------------------------------
(* Tabs and listings *)

\* MUTANT of Awaited: the token stays as it is.
AllAwaited == listing

\* The review page raises its token: the answers to what is in flight will be dropped.  The
\* run page has no token: rows of an earlier load may be shown after those of a later one.
Awaited == IF kind = "review" THEN [l \in Listings |-> Free] ELSE listing

\* A click on a tab: the token goes up, and nothing is loaded.
\* MUTANT of ClickTab: the tabs are not disabled by a load.
ClickAnyTab ==
    /\ kind = "review"
    /\ \E t \in Tabs : page' = [page EXCEPT !.tab = t, !.timer = FALSE]
    /\ listing' = Awaited
    /\ UNCHANGED <<server, kind, submission, words>>

ClickTab ==
    /\ kind = "review" /\ ~page.loading
    /\ \E t \in Tabs : page' = [page EXCEPT !.tab = t, !.timer = FALSE]
    /\ listing' = Awaited
    /\ UNCHANGED <<server, kind, submission, words>>

Sent(loud) == [pc |-> "sent", loud |-> loud, tab |-> page.tab, list |-> <<>>]

\* loadQueue: drafts stay until the answer.
LoadQueue ==
    /\ kind = "review" /\ ~page.loading
    /\ \E l \in Listings :
          /\ Awaited[l] = Free
          /\ listing' = [Awaited EXCEPT ![l] = Sent(TRUE)]
    /\ page' = [page EXCEPT !.loading = TRUE, !.timer = FALSE,
                            !.marking = FALSE, !.submitting = FALSE]
    /\ UNCHANGED <<server, kind, submission, words>>

\* loadRuns, and resetTable when a filter changes: drafts and rows go at once.
EmptyTable ==
    /\ kind = "runs"
    /\ page' = Rendered([page EXCEPT !.list = <<>>, !.drafts = <<>>])
    /\ decided' = Without(decided, DOMAIN page.drafts)
    /\ UNCHANGED <<server, kind, submission, contested>>

ResetTable == EmptyTable /\ UNCHANGED listing

LoadRuns ==
    /\ EmptyTable
    /\ \E l \in Listings :
          /\ listing[l] = Free
          /\ listing' = [listing EXCEPT ![l] = Sent(FALSE)]

\* refreshRunImages
RefreshImages ==
    /\ kind = "runs" /\ page.list # <<>>
    /\ \E l \in Listings :
          /\ listing[l] = Free
          /\ listing' = [listing EXCEPT ![l] = Sent(FALSE)]
    /\ UNCHANGED <<server, kind, page, submission, words>>

\* The timer goes off.
Poll ==
    /\ page.timer
    /\ \E l \in Listings :
          /\ listing[l] = Free
          /\ listing' = [listing EXCEPT ![l] = Sent(FALSE)]
    /\ page' = [page EXCEPT !.timer = FALSE]
    /\ UNCHANGED <<server, kind, submission, words>>

List(l) ==
    /\ listing[l].pc = "sent"
    /\ listing' = [listing EXCEPT ![l].pc = "answer", ![l].list = Matching(listing[l].tab, stored)]
    /\ UNCHANGED <<server, kind, page, submission, words>>

\* MUTANT of Kept: every answer resets the drafts.
KeptNever(l) == <<>>

\* Only a load resets the drafts (resetDrafts).
Kept(l) == IF listing[l].loud THEN <<>> ELSE page.drafts

\* applyQueueUpdate; more runs may be pending.
Apply(l) ==
    /\ kind = "review" /\ listing[l].pc = "answer"
    /\ \E more \in BOOLEAN :
          page' = Rendered([page EXCEPT
              !.list = listing[l].list, !.drafts = Kept(l), !.timer = more,
              !.loading = @ /\ ~listing[l].loud])
    /\ decided' = IF listing[l].loud THEN Without(decided, DOMAIN page.drafts) ELSE decided
    /\ listing' = [listing EXCEPT ![l] = Free]
    /\ UNCHANGED <<server, kind, submission, contested>>

\* The rows of loadRuns and refreshRunImages.  A selection stays on a row that comes back.
ShowRows(l) ==
    /\ kind = "runs" /\ listing[l].pc = "answer"
    /\ page' = Rendered([page EXCEPT !.list = listing[l].list])
    /\ listing' = [listing EXCEPT ![l] = Free]
    /\ UNCHANGED <<server, kind, submission, words>>

\* A listing fails: a poll is tried again, a load ends.
ListingFails(l) ==
    /\ listing[l] # Free /\ Fault
    /\ page' = IF kind = "runs" THEN page
               ELSE IF listing[l].loud THEN Rendered([page EXCEPT !.loading = FALSE])
               ELSE [page EXCEPT !.timer = TRUE]
    /\ listing' = [listing EXCEPT ![l] = Free]
    /\ UNCHANGED <<stored, locked, kind, submission, words>>

-------------------------------------------------------------------------------
(* Drafts and submissions *)

InFlight(s) == submission[s] # Free

\* Does a submission in flight have the image?  On the run page, is any in flight?
Contests(i) ==
    \E s \in Submissions :
        InFlight(s) /\ (kind = "runs" \/ i \in DOMAIN submission[s].items)

Contested(i) == contested' = IF Contests(i) THEN contested \cup {i} ELSE contested \ {i}

\* markCurrentImage, setFailSeverity, the notes field: setDraft drops a draft that says
\* what the page shows anyway.
Mark(i, v) ==
    LET same == page.list[i] = v
        drafts == IF same THEN Without(page.drafts, {i}) ELSE Put(page.drafts, i, v)
    IN
    /\ kind = "review" /\ page.marking
    /\ page' = [page EXCEPT !.drafts = drafts, !.submitting = Items(page.list, drafts) # <<>>]
    /\ decided' = IF same THEN Without(decided, {i}) ELSE Put(decided, i, v)
    /\ Contested(i)
    /\ UNCHANGED <<server, kind, listing, submission>>

\* The radio buttons and notes of the run page: setDraftSelection.
Choose(i, v) ==
    /\ kind = "runs"
    /\ page' = [page EXCEPT !.drafts = Put(@, i, v), !.submitting = TRUE]
    /\ decided' = Put(decided, i, v)
    /\ Contested(i)
    /\ UNCHANGED <<server, kind, listing, submission>>

Request(items) == [pc |-> "sent", items |-> items, tries |-> 0, heard |-> TRUE]

\* MUTANT of Submit: also without any draft.
SubmitNothing ==
    /\ \E s \in Submissions :
          /\ submission[s] = Free
          /\ submission' = [submission EXCEPT ![s] = Request(Items(page.list, page.drafts))]
    /\ page' = [page EXCEPT !.submitting = FALSE]
    /\ UNCHANGED <<server, kind, listing, words>>

\* submitDrafts, submitValidation.  The button is enabled again by the next mark.
Submit ==
    LET items == Items(page.list, page.drafts) IN
    /\ page.submitting /\ items # <<>>
    /\ \E s \in Submissions :
          /\ submission[s] = Free
          /\ submission' = [submission EXCEPT ![s] = Request(items)]
    /\ page' = [page EXCEPT !.submitting = FALSE]
    /\ UNCHANGED <<server, kind, listing, words>>

Ended(s, result) ==
    submission' = [submission EXCEPT ![s] =
        IF submission[s].heard THEN [submission[s] EXCEPT !.pc = result] ELSE Free]

\* submit_validations, in one transaction of write_conn
Store(s) ==
    /\ submission[s].pc = "sent" /\ ~locked
    /\ stored' = Updated(stored, submission[s].items)
    /\ Ended(s, "saved")
    /\ UNCHANGED <<locked, faults, kind, page, listing, words>>

\* A try ends with "database is locked"; after the last one the request fails.
TryAgain(s) ==
    /\ submission[s].pc = "sent" /\ locked
    /\ IF submission[s].tries + 1 < Attempts
       THEN submission' = [submission EXCEPT ![s].tries = @ + 1]
       ELSE Ended(s, "error")
    /\ UNCHANGED <<server, kind, page, listing, words>>

Heard(s, label) ==
    /\ submission[s].pc = label
    /\ submission' = [submission EXCEPT ![s] = Free]
    /\ UNCHANGED <<server, kind, listing, words>>

\* applySubmittedDrafts deletes the drafts that were sent, edited since or not.
SavedDrafts(s) ==
    LET items == submission[s].items IN
    /\ kind = "review" /\ Heard(s, "saved")
    /\ page' = Rendered([page EXCEPT
           !.list = Matching(page.tab, Updated(@, items)),
           !.drafts = Without(@, DOMAIN items),
           !.timer = @ \/ page.tab # "all"])

\* applySubmittedValidations clears all selections there are.
SavedValidations(s) ==
    /\ kind = "runs" /\ Heard(s, "saved")
    /\ page' = Rendered([page EXCEPT !.list = Updated(@, submission[s].items), !.drafts = <<>>])

\* MUTANT of Error: the button stays disabled.
ErrorSilent(s) == Heard(s, "error") /\ page' = page

\* The message is shown, and the button enabled again.
Error(s) ==
    /\ Heard(s, "error")
    /\ page' = [page EXCEPT !.submitting = Items(page.list, page.drafts) # <<>>]

\* The connection breaks: the page hears of an error, the server may go on.
Lose(s) ==
    /\ InFlight(s) /\ submission[s].heard /\ Fault
    /\ page' = [page EXCEPT !.submitting = Items(page.list, page.drafts) # <<>>]
    /\ submission' = [submission EXCEPT ![s] =
           IF @.pc = "sent" THEN [@ EXCEPT !.heard = FALSE] ELSE Free]
    /\ UNCHANGED <<stored, locked, kind, listing, words>>

\* The server is restarted in the middle of a submission.
Kill(s) ==
    /\ submission[s].pc = "sent" /\ Fault
    /\ Ended(s, "error")
    /\ UNCHANGED <<stored, locked, kind, page, listing, words>>

-------------------------------------------------------------------------------
(* sync_metadata: its transaction stays open while it talks to the sheet *)

SyncLocks ==
    /\ ~locked /\ Fault
    /\ locked' = TRUE
    /\ UNCHANGED <<stored, kind, page, listing, submission, words>>

SyncEnds ==
    /\ locked
    /\ locked' = FALSE
    /\ UNCHANGED <<stored, faults, kind, page, listing, submission, words>>

-------------------------------------------------------------------------------
Init ==
    /\ stored = [i \in Images |-> NoVerdict]
    /\ locked = FALSE /\ faults = 0
    /\ kind \in {"review", "runs"}
    /\ page = [tab |-> IF kind = "review" THEN "unreviewed" ELSE "all",
               list |-> <<>>, drafts |-> <<>>, timer |-> FALSE,
               loading |-> FALSE, marking |-> FALSE, submitting |-> FALSE]
    /\ listing = [l \in Listings |-> Free]
    /\ submission = [s \in Submissions |-> Free]
    /\ decided = <<>> /\ contested = {}

Next ==
    \/ ClickTab \/ LoadQueue \/ LoadRuns \/ ResetTable \/ RefreshImages \/ Poll
    \/ \E i \in DOMAIN page.list, v \in Verdicts : Mark(i, v) \/ Choose(i, v)
    \/ Submit
    \/ \E l \in Listings : List(l) \/ Apply(l) \/ ShowRows(l) \/ ListingFails(l)
    \/ \E s \in Submissions :
          \/ Store(s) \/ TryAgain(s) \/ Lose(s) \/ Kill(s)
          \/ SavedDrafts(s) \/ SavedValidations(s) \/ Error(s)
    \/ SyncLocks \/ SyncEnds

Spec == Init /\ [][Next]_vars

\* Listings and submissions are answered, a sync ends, and the reviewer submits.
Fairness ==
    /\ \A l \in Listings : WF_vars(List(l)) /\ WF_vars(Apply(l) \/ ShowRows(l))
    /\ \A s \in Submissions :
          WF_vars(Store(s) \/ TryAgain(s)) /\ WF_vars(SavedDrafts(s) \/ SavedValidations(s) \/ Error(s))
    /\ WF_vars(SyncEnds) /\ WF_vars(Submit)

FairSpec == Spec /\ Fairness

-------------------------------------------------------------------------------
(* Properties *)

Partial(S) == UNION {[D -> S] : D \in SUBSET Images}

\* All that is shown or drafted is about known images, and the locals keep their types.
TypeOK ==
    /\ stored \in [Images -> Verdicts \cup {NoVerdict}]
    /\ locked \in BOOLEAN /\ faults \in 0 .. MaxFaults
    /\ kind \in {"review", "runs"}
    /\ page \in [tab : Tabs \cup {"all"}, list : Partial(Verdicts \cup {NoVerdict}),
                 drafts : Partial(Verdicts), timer : BOOLEAN, loading : BOOLEAN,
                 marking : BOOLEAN, submitting : BOOLEAN]
    /\ \A s \in Submissions : InFlight(s) => submission[s].items \in Partial(Verdicts) \ {<<>>}
    /\ decided \in Partial(Verdicts) /\ contested \subseteq Images

\* No decision is lost: what the reviewer chose last for an image is stored, or the page
\* still has it as a draft, to be submitted again.  Failed and unheard submissions, retries,
\* submissions sent twice and handled in any order, polls and tab clicks do not change
\* that.  What does: Load; a verdict changed while one is in flight (contested); and a
\* verdict chosen again that the page shows already, perhaps from a poll that is out of
\* date: setDraft keeps no draft of it, and it is not counted as decided.
NoDecisionLost ==
    \A i \in DOMAIN decided \ contested :
        \/ stored[i] = decided[i]
        \/ i \in DOMAIN page.drafts /\ page.drafts[i] = decided[i]

\* A load of the review page ends, and its buttons come back: no click during a load
\* makes its answer outdated.
LoadEnds == page.loading ~> ~page.loading

\* A listing is shown under the tab it was made for, whatever was clicked meanwhile.
ListingFitsTab ==
    [][\A l \in Listings :
           kind = "review" /\ listing[l].pc = "answer" /\ page'.list # page.list
               /\ listing'[l] = Free
           => listing[l].tab = page.tab]_vars

\* Does the page offer to submit v for i?  A draft that says what the page shows, which an
\* outdated listing can bring about, is not offered; nor is one of an image that is not shown.
Offered(i, v) ==
    LET items == Items(page.list, page.drafts) IN
    i \in DOMAIN items \ contested /\ items[i] = v

\* A reviewer who goes on submitting a decision gets it stored in the end, though a sync
\* locks the database for longer than all tries of a submission, and answers are lost.
DecisionsAreStored ==
    \A i \in Images, v \in Verdicts : Offered(i, v) ~> (stored[i] = v \/ ~Offered(i, v))
===============================================================================
