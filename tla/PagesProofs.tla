------------------------------ MODULE PagesProofs ------------------------------
(***************************************************************************)
(* Proofs about Pages, for any images, verdicts, tabs and requests.        *)
(***************************************************************************)
EXTENDS Pages, TLAPS

-------------------------------------------------------------------------------
(* The inductive invariant *)

Rows == Partial(Verdicts \cup {NoVerdict})
Drafts == Partial(Verdicts)
AllTabs == Tabs \cup {"all"}

PageStates == [tab : AllTabs, list : Rows, drafts : Drafts, timer : BOOLEAN,
               loading : BOOLEAN, marking : BOOLEAN, submitting : BOOLEAN]
ListingStates == [pc : {"sent", "answer"}, loud : BOOLEAN, tab : AllTabs, list : Rows]
SubmissionStates == [pc : {"sent", "saved", "error"}, items : Drafts \ {<<>>},
                     tries : 0 .. Attempts - 1, heard : BOOLEAN]

ServerInv ==
    /\ stored \in [Images -> Verdicts \cup {NoVerdict}]
    /\ locked \in BOOLEAN /\ faults \in 0 .. MaxFaults
PageInv == kind \in {"review", "runs"} /\ page \in PageStates
ListingInv == listing \in [Listings -> ListingStates \cup {Free}]
SubmissionInv == submission \in [Submissions -> SubmissionStates \cup {Free}]
WordsInv == decided \in Drafts /\ contested \subseteq Images

TypeInv == ServerInv /\ PageInv /\ ListingInv /\ SubmissionInv /\ WordsInv

\* What the reviewer chose for i is what the page and all submissions say of it; it is
\* stored once a submission is answered, and a draft until then.  On the run page, where an
\* answer clears all drafts, every submission in flight has the draft.
Agrees(i) ==
    /\ i \in DOMAIN page.drafts => page.drafts[i] = decided[i]
    /\ stored[i] = decided[i] \/ i \in DOMAIN page.drafts
    /\ \A s \in Submissions : InFlight(s) =>
          /\ i \in DOMAIN submission[s].items => submission[s].items[i] = decided[i]
          /\ i \in DOMAIN submission[s].items /\ submission[s].pc = "saved" => stored[i] = decided[i]
          /\ kind = "runs" /\ i \in DOMAIN page.drafts => i \in DOMAIN submission[s].items

AgreeInv == \A i \in DOMAIN decided \ contested : Agrees(i)

\* A click on a tab drops what is in flight for another one.
TabInv == kind = "review" => \A l \in Listings : listing[l] # Free => listing[l].tab = page.tab

IInv == TypeInv /\ AgreeInv /\ TabInv

-------------------------------------------------------------------------------
(* Partial functions on images *)

\* A partial function is one: its domain has images, its values are values.
LEMMA PartialFacts ==
    ASSUME NEW S, NEW f
    PROVE  f \in Partial(S) <=> /\ f = [i \in DOMAIN f |-> f[i]] /\ DOMAIN f \subseteq Images
                               /\ \A i \in DOMAIN f : f[i] \in S
<1>1. ASSUME f \in Partial(S)
      PROVE  f = [i \in DOMAIN f |-> f[i]] /\ DOMAIN f \subseteq Images /\ \A i \in DOMAIN f : f[i] \in S
  <2>1. PICK D \in SUBSET Images : f \in [D -> S]
    BY <1>1 DEF Partial
  <2> QED BY <2>1
<1>2. ASSUME f = [i \in DOMAIN f |-> f[i]], DOMAIN f \subseteq Images, \A i \in DOMAIN f : f[i] \in S
      PROVE  f \in Partial(S)
  <2>1. f \in [DOMAIN f -> S]
    BY <1>2
  <2> QED BY <1>2, <2>1 DEF Partial
<1> QED BY <1>1, <1>2

\* The empty page and the page without drafts.
LEMMA EmptyFacts ==
    /\ DOMAIN <<>> = {}
    /\ \A S : <<>> \in Partial(S)
<1>1. DOMAIN <<>> = {} /\ <<>> = [i \in {} |-> i]
  OBVIOUS
<1>2. ASSUME NEW S PROVE <<>> \in Partial(S)
  <2>1. <<>> = [i \in DOMAIN <<>> |-> <<>>[i]]
    BY <1>1
  <2> QED BY <1>1, <2>1, PartialFacts
<1> QED BY <1>1, <1>2

\* What the helpers make of partial functions.
LEMMA RestrictFacts ==
    ASSUME NEW S, NEW f \in Partial(S), NEW D \in SUBSET DOMAIN f
    PROVE  /\ Restrict(f, D) \in Partial(S) /\ DOMAIN Restrict(f, D) = D
           /\ \A i \in D : Restrict(f, D)[i] = f[i]
  BY PartialFacts DEF Restrict

LEMMA WithoutFacts ==
    ASSUME NEW S, NEW f \in Partial(S), NEW D
    PROVE  /\ Without(f, D) \in Partial(S) /\ DOMAIN Without(f, D) = DOMAIN f \ D
           /\ \A i \in DOMAIN f \ D : Without(f, D)[i] = f[i]
  BY RestrictFacts DEF Without

LEMMA PutFacts ==
    ASSUME NEW S, NEW f \in Partial(S), NEW i \in Images, NEW v \in S
    PROVE  /\ Put(f, i, v) \in Partial(S) /\ DOMAIN Put(f, i, v) = DOMAIN f \cup {i}
           /\ Put(f, i, v)[i] = v
           /\ \A j \in DOMAIN f : j # i => Put(f, i, v)[j] = f[j]
  BY PartialFacts DEF Put

LEMMA UpdatedFacts ==
    ASSUME NEW S, NEW f \in Partial(S), NEW g \in Partial(S)
    PROVE  /\ Updated(f, g) \in Partial(S) /\ DOMAIN Updated(f, g) = DOMAIN f
           /\ \A i \in DOMAIN f : Updated(f, g)[i] = IF i \in DOMAIN g THEN g[i] ELSE f[i]
<1>1. DOMAIN f \subseteq Images /\ (\A i \in DOMAIN f : f[i] \in S) /\ \A i \in DOMAIN g : g[i] \in S
  BY PartialFacts
<1> QED BY <1>1, PartialFacts DEF Updated

LEMMA MatchingFacts ==
    ASSUME NEW S, NEW f \in Partial(S), NEW tab PROVE Matching(tab, f) \in Partial(S)
  BY RestrictFacts DEF Matching

\* A draft can be a stored verdict.
LEMMA DraftsAreRows == Drafts \subseteq Rows
  BY PartialFacts DEF Drafts, Rows

LEMMA ItemsFacts ==
    ASSUME NEW list \in Rows, NEW drafts \in Drafts
    PROVE  /\ Items(list, drafts) \in Drafts
           /\ DOMAIN Items(list, drafts) \subseteq DOMAIN drafts
           /\ \A i \in DOMAIN Items(list, drafts) : Items(list, drafts)[i] = drafts[i]
           /\ kind = "runs" => Items(list, drafts) = drafts
<1>1. CASE kind = "runs"
  BY <1>1 DEF Items
<1>2. CASE kind # "runs"
  <2> DEFINE D == {i \in DOMAIN drafts \cap DOMAIN list : drafts[i] # list[i]}
  <2>1. Items(list, drafts) = Restrict(drafts, D) /\ D \subseteq DOMAIN drafts
    BY <1>2 DEF Items
  <2> HIDE DEF D
  <2>2. /\ Restrict(drafts, D) \in Partial(Verdicts) /\ DOMAIN Restrict(drafts, D) = D
        /\ \A i \in D : Restrict(drafts, D)[i] = drafts[i]
    BY <2>1, RestrictFacts DEF Drafts
  <2> QED BY <1>2, <2>1, <2>2 DEF Drafts
<1> QED BY <1>1, <1>2

\* Rendering sets what can be clicked, and nothing else.
LEMMA RenderFacts ==
    ASSUME NEW p \in PageStates
    PROVE  /\ Rendered(p) \in PageStates
           /\ Rendered(p).tab = p.tab /\ Rendered(p).list = p.list /\ Rendered(p).drafts = p.drafts
<1> DEFINE a == p.list # <<>>
           b == Items(p.list, p.drafts) # <<>>
<1>1. a \in BOOLEAN /\ b \in BOOLEAN
  OBVIOUS
<1>2. Rendered(p) = [p EXCEPT !.marking = a, !.submitting = b]
  BY DEF Rendered
<1> HIDE DEF a, b
<1> QED BY <1>1, <1>2, Zenon DEF PageStates

-------------------------------------------------------------------------------
(* What the parts of a step keep *)

\* A listing is sent for the tab that is shown.
LEMMA SentFacts ==
    ASSUME PageInv, NEW loud \in BOOLEAN
    PROVE  Sent(loud) \in ListingStates /\ Sent(loud).tab = page.tab
<1>1. page.tab \in AllTabs /\ <<>> \in Rows
  BY EmptyFacts DEF PageInv, PageStates, Rows
<1> QED BY <1>1, Zenon DEF Sent, ListingStates

\* A new listing keeps the types, and the tab if the others fit it.
LEMMA SentKeeps ==
    ASSUME PageInv, TabInv, NEW old \in [Listings -> ListingStates \cup {Free}],
           kind = "review" => \A l \in Listings : old[l] = Free \/ old[l] = listing[l],
           NEW l \in Listings, NEW loud \in BOOLEAN, listing' = [old EXCEPT ![l] = Sent(loud)],
           UNCHANGED kind, page'.tab = page.tab
    PROVE  ListingInv' /\ TabInv'
<1>1. Sent(loud) \in ListingStates /\ Sent(loud).tab = page.tab
  BY SentFacts
<1>2. ListingInv'
  BY <1>1 DEF ListingInv
<1>3. ASSUME kind = "review", NEW k \in Listings, listing'[k] # Free PROVE listing'[k].tab = page.tab
  BY <1>1, <1>3 DEF TabInv
<1> QED BY <1>2, <1>3 DEF TabInv

\* Some listings end.
LEMMA FreedKeeps ==
    ASSUME ListingInv, TabInv, NEW l \in Listings, listing' = [listing EXCEPT ![l] = Free],
           UNCHANGED kind, page'.tab = page.tab
    PROVE  ListingInv' /\ TabInv'
  BY DEF ListingInv, TabInv

\* A step that changes no draft, verdict or submission keeps the agreement.
LEMMA QuietKeeps ==
    ASSUME AgreeInv, UNCHANGED <<stored, kind, submission, words>>, page'.drafts = page.drafts
    PROVE  AgreeInv'
  BY DEF words, AgreeInv, Agrees, InFlight

-------------------------------------------------------------------------------
(* Tabs and listings *)

LEMMA AwaitedFacts ==
    ASSUME ListingInv
    PROVE  /\ Awaited \in [Listings -> ListingStates \cup {Free}]
           /\ kind = "review" => \A l \in Listings : Awaited[l] = Free
  BY DEF Awaited, ListingInv

LEMMA ClickTabKeeps == ASSUME IInv, ClickTab PROVE IInv'
<1>1. /\ kind = "review" /\ listing' = Awaited
      /\ UNCHANGED <<stored, locked, faults, kind, submission, decided, contested>>
  BY DEF ClickTab, server, words
<1>2. PICK t \in Tabs : page' = [page EXCEPT !.tab = t, !.timer = FALSE]
  BY DEF ClickTab
<1>3. page' \in PageStates /\ page'.drafts = page.drafts
  BY <1>2 DEF IInv, TypeInv, PageInv, PageStates, AllTabs
<1>4. ListingInv' /\ TabInv'
  BY <1>1, AwaitedFacts DEF IInv, TypeInv, ListingInv, TabInv
<1>5. AgreeInv'
  BY <1>1, <1>3, QuietKeeps DEF IInv, words
<1> QED BY <1>1, <1>3, <1>4, <1>5 DEF IInv, TypeInv, ServerInv, PageInv, SubmissionInv, WordsInv

LEMMA LoadQueueKeeps == ASSUME IInv, LoadQueue PROVE IInv'
<1>1. /\ kind = "review"
      /\ page' = [page EXCEPT !.loading = TRUE, !.timer = FALSE,
                              !.marking = FALSE, !.submitting = FALSE]
      /\ UNCHANGED <<stored, locked, faults, kind, submission, decided, contested>>
  BY DEF LoadQueue, server, words
<1>2. page' \in PageStates /\ page'.drafts = page.drafts /\ page'.tab = page.tab
  BY <1>1 DEF IInv, TypeInv, PageInv, PageStates
<1>3. PICK l \in Listings : listing' = [Awaited EXCEPT ![l] = Sent(TRUE)]
  BY DEF LoadQueue
<1>4. ListingInv' /\ TabInv'
  BY <1>1, <1>2, <1>3, AwaitedFacts, SentKeeps DEF IInv, TypeInv
<1>5. AgreeInv'
  BY <1>1, <1>2, QuietKeeps DEF IInv, words
<1> QED BY <1>1, <1>2, <1>4, <1>5 DEF IInv, TypeInv, ServerInv, PageInv, SubmissionInv, WordsInv

\* Drafts and what the reviewer chose in them go together.
LEMMA DroppedKeeps ==
    ASSUME WordsInv, PageInv, AgreeInv, page'.drafts = <<>>,
           decided' = Without(decided, DOMAIN page.drafts),
           UNCHANGED <<stored, kind, submission, contested>>
    PROVE  WordsInv' /\ AgreeInv'
<1>1. /\ decided' \in Drafts /\ DOMAIN decided' = DOMAIN decided \ DOMAIN page.drafts
      /\ \A i \in DOMAIN decided' : decided'[i] = decided[i]
  <2> DEFINE D == DOMAIN page.drafts
             e == Without(decided, D)
  <2>1. decided \in Partial(Verdicts)
    BY DEF WordsInv, Drafts
  <2>2. e \in Partial(Verdicts) /\ DOMAIN e = DOMAIN decided \ D
        /\ \A i \in DOMAIN decided \ D : e[i] = decided[i]
    BY <2>1, WithoutFacts
  <2> HIDE DEF e
  <2> QED BY <2>2 DEF Drafts, e
<1> QED BY <1>1, EmptyFacts DEF WordsInv, AgreeInv, Agrees, InFlight

LEMMA EmptyTableKeeps ==
    ASSUME IInv, EmptyTable PROVE ServerInv' /\ PageInv' /\ SubmissionInv' /\ WordsInv' /\ AgreeInv'
<1> DEFINE p == [page EXCEPT !.list = <<>>, !.drafts = <<>>]
<1>1. /\ page' = Rendered(p)
      /\ UNCHANGED <<stored, locked, faults, kind, submission, contested>>
      /\ decided' = Without(decided, DOMAIN page.drafts)
  BY DEF EmptyTable, server
<1>2. p \in PageStates /\ p.drafts = <<>>
  BY EmptyFacts DEF IInv, TypeInv, PageInv, PageStates, Rows, Drafts
<1>3. page' \in PageStates /\ page'.drafts = <<>>
  BY <1>1, <1>2, RenderFacts
<1>4. WordsInv' /\ AgreeInv'
  BY <1>1, <1>3, DroppedKeeps DEF IInv, TypeInv
<1> QED BY <1>1, <1>3, <1>4 DEF IInv, TypeInv, ServerInv, PageInv, SubmissionInv

LEMMA LoadRunsKeeps == ASSUME IInv, ResetTable \/ LoadRuns PROVE IInv'
<1>1. EmptyTable /\ kind = "runs" /\ UNCHANGED kind
  BY DEF ResetTable, LoadRuns, EmptyTable
<1>2. ServerInv' /\ PageInv' /\ SubmissionInv' /\ WordsInv' /\ AgreeInv'
  BY <1>1, EmptyTableKeeps
<1>3. ListingInv'
  <2>1. CASE ResetTable
    BY <2>1 DEF ResetTable, IInv, TypeInv, ListingInv
  <2>2. CASE LoadRuns
    BY <2>2, SentFacts DEF LoadRuns, IInv, TypeInv, ListingInv
  <2> QED BY <2>1, <2>2
<1>4. TabInv'
  BY <1>1 DEF TabInv
<1> QED BY <1>2, <1>3, <1>4 DEF IInv, TypeInv

LEMMA PollKeeps == ASSUME IInv, RefreshImages \/ Poll PROVE IInv'
<1>1. /\ page' = page \/ page' = [page EXCEPT !.timer = FALSE]
      /\ UNCHANGED <<stored, locked, faults, kind, submission, decided, contested>>
  BY DEF RefreshImages, Poll, server, words
<1>2. page' \in PageStates /\ page'.drafts = page.drafts /\ page'.tab = page.tab
  BY <1>1 DEF IInv, TypeInv, PageInv, PageStates
<1>3. PICK l \in Listings : listing' = [listing EXCEPT ![l] = Sent(FALSE)]
  BY DEF RefreshImages, Poll
<1>4. ListingInv' /\ TabInv'
  BY <1>1, <1>2, <1>3, SentKeeps DEF IInv, TypeInv, ListingInv
<1>5. AgreeInv'
  BY <1>1, <1>2, QuietKeeps DEF IInv, words
<1> QED BY <1>1, <1>2, <1>4, <1>5 DEF IInv, TypeInv, ServerInv, PageInv, SubmissionInv, WordsInv

LEMMA ListKeeps == ASSUME IInv, NEW l \in Listings, List(l) PROVE IInv'
<1> DEFINE r == [listing[l] EXCEPT !.pc = "answer", !.list = Matching(listing[l].tab, stored)]
<1>1. /\ listing[l].pc = "sent" /\ listing' = [listing EXCEPT ![l] = r]
      /\ UNCHANGED <<stored, locked, faults, kind, page, submission, decided, contested>>
  BY DEF List, server, words, IInv, TypeInv, ListingInv
<1>2. listing[l] \in ListingStates /\ listing[l] # Free
  BY <1>1 DEF IInv, TypeInv, ListingInv, Free
<1>3. Matching(listing[l].tab, stored) \in Rows
  <2>1. stored \in Rows
    BY PartialFacts DEF IInv, TypeInv, ServerInv, Rows
  <2> QED BY <2>1, MatchingFacts DEF Rows
<1>4. r \in ListingStates /\ r.tab = listing[l].tab
  BY <1>2, <1>3 DEF ListingStates
<1> HIDE DEF r
<1>5. ListingInv'
  BY <1>1, <1>4 DEF IInv, TypeInv, ListingInv
<1>6. TabInv'
  BY <1>1, <1>2, <1>4 DEF IInv, TypeInv, ListingInv, TabInv
<1>7. AgreeInv'
  BY <1>1, QuietKeeps DEF IInv, words
<1> QED BY <1>1, <1>5, <1>6, <1>7 DEF IInv, TypeInv, ServerInv, PageInv, SubmissionInv, WordsInv

\* An answer that was asked for by Load drops drafts and what was chosen in them; that of a
\* poll drops neither.
LEMMA ApplyKeeps == ASSUME IInv, NEW l \in Listings, Apply(l) PROVE IInv'
<1>1. /\ kind = "review" /\ listing[l].pc = "answer" /\ listing' = [listing EXCEPT ![l] = Free]
      /\ decided' = IF listing[l].loud THEN Without(decided, DOMAIN page.drafts) ELSE decided
      /\ UNCHANGED <<stored, locked, faults, kind, submission, contested>>
  BY DEF Apply, server
<1>2. listing[l] \in ListingStates
  BY <1>1 DEF IInv, TypeInv, ListingInv, Free
<1>3. PICK more \in BOOLEAN :
         page' = Rendered([page EXCEPT !.list = listing[l].list, !.drafts = Kept(l), !.timer = more,
                                       !.loading = @ /\ ~listing[l].loud])
  BY DEF Apply
<1> DEFINE loading == page.loading /\ ~listing[l].loud
           p == [page EXCEPT !.list = listing[l].list, !.drafts = Kept(l), !.timer = more,
                             !.loading = loading]
<1>4. loading \in BOOLEAN /\ listing[l].list \in Rows
  BY <1>2 DEF ListingStates
<1>5. Kept(l) \in Drafts /\ Kept(l) = IF listing[l].loud THEN <<>> ELSE page.drafts
  BY EmptyFacts DEF Kept, IInv, TypeInv, PageInv, PageStates, Drafts
<1> HIDE DEF loading
<1>6. p \in PageStates /\ p.drafts = Kept(l) /\ p.tab = page.tab
  BY <1>4, <1>5, Zenon DEF IInv, TypeInv, PageInv, PageStates
<1>7. page' = Rendered(p)
  BY <1>3 DEF loading
<1> HIDE DEF p
<1>8. page' \in PageStates /\ page'.drafts = Kept(l) /\ page'.tab = page.tab
  BY <1>6, <1>7, RenderFacts
<1>9. WordsInv' /\ AgreeInv'
  <2>1. CASE listing[l].loud
    BY <1>1, <1>5, <1>8, <2>1, DroppedKeeps DEF IInv, TypeInv
  <2>2. CASE ~listing[l].loud
    BY <1>1, <1>5, <1>8, <2>2, QuietKeeps DEF IInv, TypeInv, WordsInv, words
  <2> QED BY <2>1, <2>2
<1>10. ListingInv' /\ TabInv'
  BY <1>1, <1>8, FreedKeeps DEF IInv, TypeInv
<1> QED BY <1>1, <1>8, <1>9, <1>10 DEF IInv, TypeInv, ServerInv, PageInv, SubmissionInv

LEMMA ShowRowsKeeps == ASSUME IInv, NEW l \in Listings, ShowRows(l) PROVE IInv'
<1> DEFINE p == [page EXCEPT !.list = listing[l].list]
<1>1. /\ kind = "runs" /\ listing[l].pc = "answer" /\ page' = Rendered(p)
      /\ listing' = [listing EXCEPT ![l] = Free]
      /\ UNCHANGED <<stored, locked, faults, kind, submission, decided, contested>>
  BY DEF ShowRows, server, words
<1>2. listing[l].list \in Rows
  BY <1>1 DEF IInv, TypeInv, ListingInv, ListingStates, Free
<1>3. p \in PageStates /\ p.drafts = page.drafts /\ p.tab = page.tab
  BY <1>2 DEF IInv, TypeInv, PageInv, PageStates
<1> HIDE DEF p
<1>4. page' \in PageStates /\ page'.drafts = page.drafts /\ page'.tab = page.tab
  BY <1>1, <1>3, RenderFacts
<1>5. ListingInv' /\ TabInv'
  BY <1>1, <1>4, FreedKeeps DEF IInv, TypeInv
<1>6. AgreeInv'
  BY <1>1, <1>4, QuietKeeps DEF IInv, words
<1> QED BY <1>1, <1>4, <1>5, <1>6 DEF IInv, TypeInv, ServerInv, PageInv, SubmissionInv, WordsInv

LEMMA FaultType == ASSUME ServerInv, Fault, UNCHANGED <<stored, locked>> PROVE ServerInv'
  BY BoundAssumption DEF ServerInv, Fault

LEMMA ListingFailsKeeps == ASSUME IInv, NEW l \in Listings, ListingFails(l) PROVE IInv'
<1>1. /\ Fault /\ listing' = [listing EXCEPT ![l] = Free]
      /\ UNCHANGED <<stored, locked, kind, submission, decided, contested>>
      /\ \/ page' = page
         \/ page' = Rendered([page EXCEPT !.loading = FALSE])
         \/ page' = [page EXCEPT !.timer = TRUE]
  BY DEF ListingFails, words
<1>2. page \in PageStates
  BY DEF IInv, TypeInv, PageInv
<1>3. page' \in PageStates /\ page'.drafts = page.drafts /\ page'.tab = page.tab
  <2> DEFINE p == [page EXCEPT !.loading = FALSE]
             q == [page EXCEPT !.timer = TRUE]
  <2>1. /\ p \in PageStates /\ p.drafts = page.drafts /\ p.tab = page.tab
        /\ q \in PageStates /\ q.drafts = page.drafts /\ q.tab = page.tab
    BY <1>2 DEF PageStates
  <2> HIDE DEF p, q
  <2>2. page' \in {page, Rendered(p), q}
    BY <1>1 DEF p, q
  <2> QED BY <1>2, <2>1, <2>2, RenderFacts
<1>4. ListingInv' /\ TabInv'
  BY <1>1, <1>3, FreedKeeps DEF IInv, TypeInv
<1>5. AgreeInv'
  BY <1>1, <1>3, QuietKeeps DEF IInv, words
<1> QED BY <1>1, <1>3, <1>4, <1>5, FaultType DEF IInv, TypeInv, PageInv, SubmissionInv, WordsInv

-------------------------------------------------------------------------------
(* Drafts *)

\* A draft that is set, or dropped, with what the reviewer chose.
LEMMA DraftKeeps ==
    ASSUME IInv, NEW i \in Images, NEW v \in Verdicts, NEW same \in BOOLEAN,
           page' \in PageStates,
           page'.tab = page.tab,
           page'.drafts = IF same THEN Without(page.drafts, {i}) ELSE Put(page.drafts, i, v),
           decided' = IF same THEN Without(decided, {i}) ELSE Put(decided, i, v),
           Contested(i), UNCHANGED <<server, kind, listing, submission>>
    PROVE  IInv'
<1>1. page.drafts \in Partial(Verdicts) /\ decided \in Partial(Verdicts)
  BY DEF IInv, TypeInv, PageInv, PageStates, WordsInv, Drafts
<1>2. /\ decided' \in Drafts
      /\ \A j \in DOMAIN decided' : j # i =>
            /\ j \in DOMAIN decided /\ decided'[j] = decided[j]
            /\ j \in DOMAIN page'.drafts <=> j \in DOMAIN page.drafts
            /\ j \in DOMAIN page.drafts => page'.drafts[j] = page.drafts[j]
      /\ i \in DOMAIN decided' => decided'[i] = v /\ i \in DOMAIN page'.drafts /\ page'.drafts[i] = v
  <2>1. CASE same
    <3> DEFINE d == Without(decided, {i})
               e == Without(page.drafts, {i})
    <3>1. /\ d \in Partial(Verdicts) /\ DOMAIN d = DOMAIN decided \ {i}
          /\ \A j \in DOMAIN decided \ {i} : d[j] = decided[j]
      BY <1>1, WithoutFacts
    <3>2. DOMAIN e = DOMAIN page.drafts \ {i} /\ \A j \in DOMAIN page.drafts \ {i} : e[j] = page.drafts[j]
      BY <1>1, WithoutFacts
    <3>3. decided' = d /\ page'.drafts = e
      BY <2>1
    <3> HIDE DEF d, e
    <3> QED BY <3>1, <3>2, <3>3 DEF Drafts
  <2>2. CASE ~same
    <3> DEFINE d == Put(decided, i, v)
               e == Put(page.drafts, i, v)
    <3>1. /\ d \in Drafts /\ DOMAIN d = DOMAIN decided \cup {i}
          /\ \A j \in DOMAIN decided \cup {i} : d[j] = IF j = i THEN v ELSE decided[j]
      BY <1>1, PutFacts DEF Drafts, Put
    <3>2. /\ DOMAIN e = DOMAIN page.drafts \cup {i}
          /\ \A j \in DOMAIN page.drafts \cup {i} : e[j] = IF j = i THEN v ELSE page.drafts[j]
      BY DEF Put
    <3>3. decided' = d /\ page'.drafts = e
      BY <2>2
    <3> HIDE DEF d, e
    <3> QED BY <3>1, <3>2, <3>3
  <2> QED BY <2>1, <2>2
<1>3. /\ UNCHANGED <<stored, locked, faults, kind, listing, submission>>
      /\ contested' = IF Contests(i) THEN contested \cup {i} ELSE contested \ {i}
  BY DEF server, Contested
<1>4. AgreeInv'
  <2> SUFFICES ASSUME NEW j \in DOMAIN decided' \ contested' PROVE Agrees(j)'
    BY DEF AgreeInv
  <2>1. CASE j = i
    <3>1. ~Contests(i)
      BY <1>3, <2>1
    <3>2. \A s \in Submissions : InFlight(s) => kind # "runs" /\ i \notin DOMAIN submission[s].items
      BY <3>1 DEF Contests
    <3> QED BY <1>2, <1>3, <2>1, <3>2 DEF Agrees, InFlight
  <2>2. CASE j # i
    <3>1. j \in DOMAIN decided \ contested
      BY <1>2, <1>3, <2>2
    <3>2. Agrees(j)
      BY <3>1 DEF IInv, AgreeInv
    <3> QED BY <1>2, <1>3, <2>2, <3>2 DEF Agrees, InFlight
  <2> QED BY <2>1, <2>2
<1>5. WordsInv'
  BY <1>2, <1>3 DEF IInv, TypeInv, WordsInv
<1> QED BY <1>3, <1>4, <1>5 DEF IInv, TypeInv, ServerInv, PageInv, ListingInv, SubmissionInv, TabInv

LEMMA MarkKeeps ==
    ASSUME IInv, NEW i \in DOMAIN page.list, NEW v \in Verdicts, Mark(i, v) PROVE IInv'
<1> DEFINE same == page.list[i] = v
           drafts == IF same THEN Without(page.drafts, {i}) ELSE Put(page.drafts, i, v)
           some == Items(page.list, drafts) # <<>>
<1>1. page.list \in Partial(Verdicts \cup {NoVerdict}) /\ page.drafts \in Partial(Verdicts)
  BY DEF IInv, TypeInv, PageInv, PageStates, Drafts, Rows
<1>2. i \in Images
  BY <1>1, PartialFacts
<1>3. drafts \in Drafts
  BY <1>1, <1>2, WithoutFacts, PutFacts DEF Drafts
<1>4. /\ page' = [page EXCEPT !.drafts = drafts, !.submitting = some]
      /\ decided' = IF same THEN Without(decided, {i}) ELSE Put(decided, i, v)
      /\ Contested(i) /\ UNCHANGED <<server, kind, listing, submission>>
  BY DEF Mark
<1>5. same \in BOOLEAN /\ some \in BOOLEAN
  OBVIOUS
<1> HIDE DEF some, drafts
<1>6. page' \in PageStates /\ page'.tab = page.tab /\ page'.drafts = drafts
  BY <1>3, <1>4, <1>5, Zenon DEF IInv, TypeInv, PageInv, PageStates
<1> HIDE DEF same
<1> QED BY <1>2, <1>4, <1>5, <1>6, DraftKeeps DEF drafts

LEMMA ChooseKeeps ==
    ASSUME IInv, NEW i \in DOMAIN page.list, NEW v \in Verdicts, Choose(i, v) PROVE IInv'
<1>1. page.list \in Partial(Verdicts \cup {NoVerdict}) /\ page.drafts \in Partial(Verdicts)
  BY DEF IInv, TypeInv, PageInv, PageStates, Drafts, Rows
<1>2. i \in Images
  BY <1>1, PartialFacts
<1>3. /\ page' = [page EXCEPT !.drafts = Put(@, i, v), !.submitting = TRUE]
      /\ decided' = Put(decided, i, v)
      /\ Contested(i) /\ UNCHANGED <<server, kind, listing, submission>>
  BY DEF Choose
<1>4. Put(page.drafts, i, v) \in Drafts
  BY <1>1, <1>2, PutFacts DEF Drafts
<1>5. page' \in PageStates /\ page'.tab = page.tab /\ page'.drafts = Put(page.drafts, i, v)
  BY <1>3, <1>4 DEF IInv, TypeInv, PageInv, PageStates
<1>6. FALSE \in BOOLEAN
  OBVIOUS
<1> QED BY <1>2, <1>3, <1>5, <1>6, DraftKeeps

-------------------------------------------------------------------------------
(* Submissions *)

LEMMA SubmitKeeps == ASSUME IInv, Submit PROVE IInv'
<1> DEFINE items == Items(page.list, page.drafts)
           new == Request(items)
<1>1. /\ items # <<>> /\ page' = [page EXCEPT !.submitting = FALSE]
      /\ UNCHANGED <<stored, locked, faults, kind, listing, decided, contested>>
  BY DEF Submit, server, words
<1>2. PICK s \in Submissions : submission[s] = Free /\ submission' = [submission EXCEPT ![s] = new]
  BY DEF Submit
<1>3. page' \in PageStates /\ page'.drafts = page.drafts /\ page'.tab = page.tab
  BY <1>1 DEF IInv, TypeInv, PageInv, PageStates
<1>4. /\ items \in Drafts /\ DOMAIN items \subseteq DOMAIN page.drafts
      /\ \A i \in DOMAIN items : items[i] = page.drafts[i]
      /\ kind = "runs" => items = page.drafts
  BY ItemsFacts DEF IInv, TypeInv, PageInv, PageStates
<1> HIDE DEF items
<1>5. new \in SubmissionStates /\ new.items = items /\ new.pc = "sent"
  BY <1>1, <1>4, BoundAssumption DEF Request, SubmissionStates
<1> HIDE DEF new
<1>6. SubmissionInv'
  BY <1>2, <1>5 DEF IInv, TypeInv, SubmissionInv
<1>7. ASSUME NEW i \in DOMAIN decided \ contested PROVE Agrees(i)'
  <2>1. Agrees(i)
    BY DEF IInv, AgreeInv
  <2>2. \A t \in Submissions : submission'[t] = IF t = s THEN new ELSE submission[t]
    BY <1>2 DEF IInv, TypeInv, SubmissionInv
  <2> QED BY <1>1, <1>3, <1>4, <1>5, <2>1, <2>2 DEF Agrees, InFlight
<1>8. AgreeInv'
  BY <1>1, <1>7 DEF AgreeInv
<1> QED BY <1>1, <1>3, <1>6, <1>8 DEF IInv, TypeInv, ServerInv, PageInv, ListingInv, WordsInv, TabInv

\* A request that ends, or goes on with what was sent, keeps the agreement.
LEMMA EndedKeeps ==
    ASSUME IInv, NEW s \in Submissions, NEW r \in SubmissionStates \cup {Free},
           submission' = [submission EXCEPT ![s] = r],
           r # Free => /\ InFlight(s) /\ r.items = submission[s].items
                       /\ r.pc = "saved" => submission[s].pc = "saved",
           page'.drafts = page.drafts, UNCHANGED <<stored, kind, words>>
    PROVE  SubmissionInv' /\ AgreeInv'
<1>1. \A t \in Submissions : submission'[t] = IF t = s THEN r ELSE submission[t]
  BY DEF IInv, TypeInv, SubmissionInv
<1>2. SubmissionInv'
  BY DEF IInv, TypeInv, SubmissionInv
<1>3. ASSUME NEW i \in DOMAIN decided \ contested PROVE Agrees(i)'
  BY <1>1, <1>3 DEF IInv, AgreeInv, Agrees, InFlight, words
<1> QED BY <1>2, <1>3 DEF AgreeInv, words

\* The result of a request in flight, if the page hears of it.
LEMMA EndedFacts ==
    ASSUME SubmissionInv, NEW s \in Submissions, InFlight(s),
           NEW result \in {"saved", "error"}, Ended(s, result)
    PROVE  \E r \in SubmissionStates \cup {Free} :
              /\ submission' = [submission EXCEPT ![s] = r]
              /\ r # Free => r.items = submission[s].items /\ r.pc = result
<1> DEFINE q == [submission[s] EXCEPT !.pc = result]
           r == IF submission[s].heard THEN q ELSE Free
<1>1. submission' = [submission EXCEPT ![s] = r]
  BY DEF Ended
<1>2. submission[s] \in SubmissionStates
  BY DEF SubmissionInv, InFlight
<1>3. q \in SubmissionStates /\ q.items = submission[s].items /\ q.pc = result
  BY <1>2 DEF SubmissionStates
<1> HIDE DEF q
<1>4. r \in SubmissionStates \cup {Free} /\ (r # Free => r.items = submission[s].items /\ r.pc = result)
  BY <1>3
<1> QED BY <1>1, <1>4

\* What is stored is what the page and all requests say of the image.
LEMMA StoreKeeps == ASSUME IInv, NEW s \in Submissions, Store(s) PROVE IInv'
<1> DEFINE items == submission[s].items
<1>1. /\ submission[s].pc = "sent" /\ Ended(s, "saved")
      /\ stored' = Updated(stored, items)
      /\ UNCHANGED <<locked, faults, kind, page, listing, decided, contested>>
  BY DEF Store, words
<1>2. InFlight(s)
  BY <1>1 DEF InFlight, Free
<1>3. PICK r \in SubmissionStates \cup {Free} :
         /\ submission' = [submission EXCEPT ![s] = r]
         /\ r # Free => r.items = submission[s].items /\ r.pc = "saved"
  BY <1>1, <1>2, EndedFacts DEF IInv, TypeInv
<1>4. items \in Drafts
  BY <1>2 DEF InFlight, IInv, TypeInv, SubmissionInv, SubmissionStates
<1>5. /\ stored' \in [Images -> Verdicts \cup {NoVerdict}]
      /\ \A i \in Images : stored'[i] = IF i \in DOMAIN items THEN items[i] ELSE stored[i]
  <2>1. \A i \in DOMAIN items : items[i] \in Verdicts
    BY <1>4, PartialFacts DEF Drafts
  <2> QED BY <1>1, <2>1 DEF Updated, IInv, TypeInv, ServerInv
<1>6. ASSUME NEW i \in DOMAIN decided \ contested PROVE Agrees(i)'
  <2>1. Agrees(i) /\ i \in Images
    BY PartialFacts DEF IInv, AgreeInv, TypeInv, WordsInv, Drafts
  <2>2. stored'[i] = IF i \in DOMAIN items THEN decided[i] ELSE stored[i]
    BY <1>2, <1>5, <2>1 DEF Agrees
  <2>3. \A t \in Submissions : submission'[t] = IF t = s THEN r ELSE submission[t]
    BY <1>3 DEF IInv, TypeInv, SubmissionInv
  <2> HIDE DEF items
  <2>4. ASSUME NEW t \in Submissions, submission'[t] # Free
        PROVE  submission[t] # Free /\ submission'[t].items = submission[t].items
               /\ (submission'[t].pc = "saved" => t = s \/ submission[t].pc = "saved")
    BY <1>2, <1>3, <2>3, <2>4 DEF InFlight
  <2>5. ASSUME NEW t \in Submissions, submission'[t] # Free
        PROVE /\ i \in DOMAIN submission'[t].items => submission'[t].items[i] = decided[i]
              /\ i \in DOMAIN submission'[t].items /\ submission'[t].pc = "saved" => stored'[i] = decided[i]
              /\ kind = "runs" /\ i \in DOMAIN page.drafts => i \in DOMAIN submission'[t].items
    BY <2>1, <2>2, <2>4, <2>5 DEF Agrees, InFlight, items
  <2> QED BY <1>1, <2>1, <2>2, <2>5 DEF Agrees, InFlight
<1>7. AgreeInv'
  BY <1>1, <1>6 DEF AgreeInv
<1>8. SubmissionInv'
  BY <1>3 DEF IInv, TypeInv, SubmissionInv
<1> QED BY <1>1, <1>5, <1>7, <1>8 DEF IInv, TypeInv, ServerInv, PageInv, ListingInv, WordsInv, TabInv

LEMMA TryAgainKeeps == ASSUME IInv, NEW s \in Submissions, TryAgain(s) PROVE IInv'
<1>1. /\ submission[s].pc = "sent"
      /\ UNCHANGED <<stored, locked, faults, kind, page, listing, decided, contested>>
  BY DEF TryAgain, server, words
<1>2. InFlight(s)
  BY <1>1 DEF InFlight, Free
<1>3. submission[s] \in SubmissionStates
  BY <1>2 DEF InFlight, IInv, TypeInv, SubmissionInv
<1>4. \E r \in SubmissionStates \cup {Free} :
         /\ submission' = [submission EXCEPT ![s] = r]
         /\ r # Free => r.items = submission[s].items /\ r.pc # "saved"
  <2>1. CASE submission[s].tries + 1 < Attempts
    <3> DEFINE r == [submission[s] EXCEPT !.tries = @ + 1]
    <3>1. r \in SubmissionStates /\ r.items = submission[s].items /\ r.pc = "sent"
      BY <1>1, <1>3, <2>1, BoundAssumption DEF SubmissionStates
    <3>2. submission' = [submission EXCEPT ![s] = r]
      BY <2>1 DEF TryAgain
    <3> QED BY <3>1, <3>2
  <2>2. CASE ~(submission[s].tries + 1 < Attempts)
    BY <1>2, <2>2, EndedFacts DEF TryAgain, IInv, TypeInv
  <2> QED BY <2>1, <2>2
<1>5. SubmissionInv' /\ AgreeInv'
  BY <1>1, <1>2, <1>4, EndedKeeps DEF words
<1> QED BY <1>1, <1>5 DEF IInv, TypeInv, ServerInv, PageInv, ListingInv, WordsInv, TabInv

\* What a page hears of a request.
LEMMA HeardFacts ==
    ASSUME IInv, NEW s \in Submissions, NEW label \in {"saved", "error"}, Heard(s, label)
    PROVE  /\ submission[s].pc = label /\ submission' = [submission EXCEPT ![s] = Free]
           /\ InFlight(s) /\ submission[s] \in SubmissionStates
           /\ SubmissionInv'
           /\ UNCHANGED <<stored, locked, faults, kind, listing, decided, contested>>
<1>1. /\ submission[s].pc = label /\ submission' = [submission EXCEPT ![s] = Free]
      /\ UNCHANGED <<stored, locked, faults, kind, listing, decided, contested>>
  BY DEF Heard, server, words
<1>2. InFlight(s)
  BY <1>1 DEF InFlight, Free
<1> QED BY <1>1, <1>2 DEF InFlight, IInv, TypeInv, SubmissionInv

\* A step that changes only what can be clicked.
LEMMA ButtonFacts ==
    ASSUME PageInv, page' = [page EXCEPT !.submitting = Items(page.list, page.drafts) # <<>>]
    PROVE  page' \in PageStates /\ page'.drafts = page.drafts /\ page'.tab = page.tab
<1> DEFINE some == Items(page.list, page.drafts) # <<>>
<1>1. some \in BOOLEAN
  OBVIOUS
<1> HIDE DEF some
<1>2. page' = [page EXCEPT !.submitting = some]
  BY DEF some
<1> QED BY <1>1, <1>2, Zenon DEF PageInv, PageStates

\* Once a submission is answered its drafts can go: they are stored.
LEMMA AnsweredKeeps ==
    ASSUME IInv, NEW s \in Submissions, submission[s].pc = "saved", InFlight(s),
           submission' = [submission EXCEPT ![s] = Free],
           \A i \in DOMAIN page'.drafts : i \in DOMAIN page.drafts /\ page'.drafts[i] = page.drafts[i],
           \A i \in DOMAIN page.drafts \ DOMAIN page'.drafts :
               kind = "runs" \/ i \in DOMAIN submission[s].items,
           UNCHANGED <<stored, kind, words>>
    PROVE  AgreeInv'
<1>1. \A t \in Submissions : submission'[t] = IF t = s THEN Free ELSE submission[t]
  BY DEF IInv, TypeInv, SubmissionInv
<1>2. ASSUME NEW i \in DOMAIN decided \ contested PROVE Agrees(i)'
  <2>1. Agrees(i)
    BY DEF IInv, AgreeInv
  <2> QED BY <1>1, <2>1 DEF Agrees, InFlight, words
<1> QED BY <1>2 DEF AgreeInv, words

LEMMA SavedDraftsKeeps == ASSUME IInv, NEW s \in Submissions, SavedDrafts(s) PROVE IInv'
<1> DEFINE items == submission[s].items
           list == Matching(page.tab, Updated(page.list, items))
           D == DOMAIN items
           drafts == Without(page.drafts, D)
           timer == page.timer \/ page.tab # "all"
           p == [page EXCEPT !.list = list, !.drafts = drafts, !.timer = timer]
<1>1. Heard(s, "saved") /\ page' = Rendered(p)
  BY DEF SavedDrafts
<1>2. /\ submission[s].pc = "saved" /\ submission' = [submission EXCEPT ![s] = Free]
      /\ InFlight(s) /\ submission[s] \in SubmissionStates /\ SubmissionInv'
      /\ UNCHANGED <<stored, locked, faults, kind, listing, decided, contested>>
  BY <1>1, HeardFacts
<1>3. /\ page \in PageStates /\ page.list \in Partial(Verdicts \cup {NoVerdict})
      /\ page.drafts \in Partial(Verdicts) /\ items \in Partial(Verdicts \cup {NoVerdict})
  BY <1>2, DraftsAreRows DEF IInv, TypeInv, PageInv, PageStates, SubmissionStates, Drafts, Rows
<1>4. list \in Rows
  <2>1. Updated(page.list, items) \in Partial(Verdicts \cup {NoVerdict})
    BY <1>3, UpdatedFacts
  <2> QED BY <2>1, MatchingFacts DEF Rows
<1>5. /\ drafts \in Partial(Verdicts) /\ DOMAIN drafts = DOMAIN page.drafts \ D
      /\ \A i \in DOMAIN page.drafts \ D : drafts[i] = page.drafts[i]
  <2>1. page.drafts \in Partial(Verdicts)
    BY <1>3
  <2> HIDE DEF D
  <2> QED BY <2>1, WithoutFacts
<1>6. timer \in BOOLEAN /\ drafts \in Drafts
  BY <1>3, <1>5 DEF PageStates, Drafts
<1> HIDE DEF list, drafts, timer
<1>7. p \in PageStates /\ p.drafts = drafts /\ p.tab = page.tab
  BY <1>3, <1>4, <1>6, Zenon DEF PageStates
<1> HIDE DEF p
<1>8. page' \in PageStates /\ page'.drafts = drafts /\ page'.tab = page.tab
  BY <1>1, <1>7, RenderFacts
<1>9. AgreeInv'
  BY <1>2, <1>5, <1>8, AnsweredKeeps DEF words
<1> QED BY <1>2, <1>8, <1>9 DEF IInv, TypeInv, ServerInv, PageInv, ListingInv, WordsInv, TabInv

LEMMA SavedValidationsKeeps == ASSUME IInv, NEW s \in Submissions, SavedValidations(s) PROVE IInv'
<1> DEFINE items == submission[s].items
           list == Updated(page.list, items)
           p == [page EXCEPT !.list = list, !.drafts = <<>>]
<1>1. kind = "runs" /\ Heard(s, "saved") /\ page' = Rendered(p)
  BY DEF SavedValidations
<1>2. /\ submission[s].pc = "saved" /\ submission' = [submission EXCEPT ![s] = Free]
      /\ InFlight(s) /\ submission[s] \in SubmissionStates /\ SubmissionInv'
      /\ UNCHANGED <<stored, locked, faults, kind, listing, decided, contested>>
  BY <1>1, HeardFacts
<1>3. /\ page \in PageStates /\ page.list \in Partial(Verdicts \cup {NoVerdict})
      /\ items \in Partial(Verdicts \cup {NoVerdict})
  BY <1>2, DraftsAreRows DEF IInv, TypeInv, PageInv, PageStates, SubmissionStates, Drafts, Rows
<1>4. list \in Rows /\ <<>> \in Drafts
  BY <1>3, UpdatedFacts, EmptyFacts DEF Rows, Drafts
<1> HIDE DEF list
<1>5. p \in PageStates /\ p.drafts = <<>> /\ p.tab = page.tab
  BY <1>3, <1>4 DEF PageStates
<1> HIDE DEF p
<1>6. page' \in PageStates /\ page'.drafts = <<>> /\ page'.tab = page.tab
  BY <1>1, <1>5, RenderFacts
<1>7. AgreeInv'
  BY <1>1, <1>2, <1>6, EmptyFacts, AnsweredKeeps DEF words
<1> QED BY <1>2, <1>6, <1>7 DEF IInv, TypeInv, ServerInv, PageInv, ListingInv, WordsInv, TabInv

LEMMA ErrorKeeps == ASSUME IInv, NEW s \in Submissions, Error(s) PROVE IInv'
<1>1. Heard(s, "error") /\ page' = [page EXCEPT !.submitting = Items(page.list, page.drafts) # <<>>]
  BY DEF Error
<1>2. /\ submission' = [submission EXCEPT ![s] = Free]
      /\ UNCHANGED <<stored, locked, faults, kind, listing, decided, contested>>
  BY <1>1, HeardFacts
<1>3. page' \in PageStates /\ page'.drafts = page.drafts /\ page'.tab = page.tab
  BY <1>1, ButtonFacts DEF IInv, TypeInv
<1>4. SubmissionInv' /\ AgreeInv'
  BY <1>2, <1>3, EndedKeeps DEF words
<1> QED BY <1>2, <1>3, <1>4 DEF IInv, TypeInv, ServerInv, PageInv, ListingInv, WordsInv, TabInv

LEMMA LoseKeeps == ASSUME IInv, NEW s \in Submissions, Lose(s) PROVE IInv'
<1> DEFINE q == [submission[s] EXCEPT !.heard = FALSE]
           r == IF submission[s].pc = "sent" THEN q ELSE Free
<1>1. /\ InFlight(s) /\ Fault
      /\ page' = [page EXCEPT !.submitting = Items(page.list, page.drafts) # <<>>]
      /\ UNCHANGED <<stored, locked, kind, listing, decided, contested>>
  BY DEF Lose, words
<1>2. submission' = [submission EXCEPT ![s] = r]
  BY DEF Lose
<1>3. submission[s] \in SubmissionStates
  BY <1>1 DEF InFlight, IInv, TypeInv, SubmissionInv
<1>4. q \in SubmissionStates /\ q.items = submission[s].items /\ q.pc = submission[s].pc
  BY <1>3 DEF SubmissionStates
<1> HIDE DEF q
<1>5. r \in SubmissionStates \cup {Free}
      /\ (r # Free => r.items = submission[s].items /\ r.pc = submission[s].pc)
  BY <1>4
<1> HIDE DEF r
<1>6. page' \in PageStates /\ page'.drafts = page.drafts /\ page'.tab = page.tab
  BY <1>1, ButtonFacts DEF IInv, TypeInv
<1>7. SubmissionInv' /\ AgreeInv'
  BY <1>1, <1>2, <1>5, <1>6, EndedKeeps DEF words
<1> QED BY <1>1, <1>6, <1>7, FaultType DEF IInv, TypeInv, PageInv, ListingInv, WordsInv, TabInv

LEMMA KillKeeps == ASSUME IInv, NEW s \in Submissions, Kill(s) PROVE IInv'
<1>1. /\ submission[s].pc = "sent" /\ Fault /\ Ended(s, "error")
      /\ UNCHANGED <<stored, locked, kind, page, listing, decided, contested>>
  BY DEF Kill, words
<1>2. InFlight(s)
  BY <1>1 DEF InFlight, Free
<1>3. PICK r \in SubmissionStates \cup {Free} :
         /\ submission' = [submission EXCEPT ![s] = r]
         /\ r # Free => r.items = submission[s].items /\ r.pc = "error"
  BY <1>1, <1>2, EndedFacts DEF IInv, TypeInv
<1>4. SubmissionInv' /\ AgreeInv'
  BY <1>1, <1>2, <1>3, EndedKeeps DEF words
<1> QED BY <1>1, <1>4, FaultType DEF IInv, TypeInv, PageInv, ListingInv, WordsInv, TabInv

-------------------------------------------------------------------------------
(* The specification *)

LEMMA SyncKeeps == ASSUME IInv, SyncLocks \/ SyncEnds PROVE IInv'
<1>1. ServerInv'
  <2>1. CASE SyncLocks
    BY <2>1, BoundAssumption DEF IInv, TypeInv, ServerInv, SyncLocks, Fault
  <2>2. CASE SyncEnds
    BY <2>2 DEF IInv, TypeInv, ServerInv, SyncEnds
  <2> QED BY <2>1, <2>2
<1>2. /\ UNCHANGED <<stored, kind, page, listing, submission>> /\ UNCHANGED words
      /\ UNCHANGED <<decided, contested>>
  BY DEF SyncLocks, SyncEnds, words
<1>3. AgreeInv'
  BY <1>2, QuietKeeps DEF IInv
<1> QED BY <1>1, <1>2, <1>3 DEF IInv, TypeInv, PageInv, ListingInv, SubmissionInv, WordsInv, TabInv

LEMMA InitHolds == Init => IInv
<1> SUFFICES ASSUME Init PROVE IInv
  OBVIOUS
<1>1. ServerInv
  <2>1. stored = [i \in Images |-> NoVerdict] /\ locked = FALSE /\ faults = 0
    BY DEF Init
  <2>2. faults \in 0 .. MaxFaults
    BY <2>1, BoundAssumption
  <2>3. locked \in BOOLEAN /\ stored \in [Images -> Verdicts \cup {NoVerdict}]
    BY <2>1
  <2> QED BY <2>2, <2>3 DEF ServerInv
<1>2. PageInv
  <2>1. <<>> \in Rows /\ <<>> \in Drafts
    BY EmptyFacts DEF Rows, Drafts
  <2>2. (IF kind = "review" THEN "unreviewed" ELSE "all") \in AllTabs
    BY TabAssumption DEF AllTabs
  <2> QED BY <2>1, <2>2 DEF Init, PageInv, PageStates
<1>3. ListingInv /\ SubmissionInv /\ TabInv
  BY DEF Init, ListingInv, SubmissionInv, TabInv
<1>4. WordsInv /\ AgreeInv
  BY EmptyFacts DEF Init, WordsInv, Drafts, AgreeInv
<1> QED BY <1>1, <1>2, <1>3, <1>4 DEF IInv, TypeInv

LEMMA NextKeeps == IInv /\ [Next]_vars => IInv'
<1> SUFFICES ASSUME IInv, [Next]_vars PROVE IInv'
  OBVIOUS
<1>1. CASE UNCHANGED vars
  BY <1>1 DEF vars, server, words, IInv, TypeInv, ServerInv, PageInv, ListingInv, SubmissionInv,
              WordsInv, AgreeInv, Agrees, InFlight, TabInv
<1>2. CASE ClickTab \/ LoadQueue \/ LoadRuns \/ ResetTable \/ RefreshImages \/ Poll
  BY <1>2, ClickTabKeeps, LoadQueueKeeps, LoadRunsKeeps, PollKeeps
<1>3. ASSUME NEW i \in DOMAIN page.list, NEW v \in Verdicts, Mark(i, v) \/ Choose(i, v) PROVE IInv'
  BY <1>3, MarkKeeps, ChooseKeeps
<1>4. CASE Submit
  BY <1>4, SubmitKeeps
<1>5. ASSUME NEW l \in Listings, List(l) \/ Apply(l) \/ ShowRows(l) \/ ListingFails(l) PROVE IInv'
  BY <1>5, ListKeeps, ApplyKeeps, ShowRowsKeeps, ListingFailsKeeps
<1>6. ASSUME NEW s \in Submissions,
             \/ Store(s) \/ TryAgain(s) \/ Lose(s) \/ Kill(s)
             \/ SavedDrafts(s) \/ SavedValidations(s) \/ Error(s)
      PROVE  IInv'
  BY <1>6, StoreKeeps, TryAgainKeeps, LoseKeeps, KillKeeps, SavedDraftsKeeps, SavedValidationsKeeps,
     ErrorKeeps
<1>7. CASE SyncLocks \/ SyncEnds
  BY <1>7, SyncKeeps
<1> QED BY <1>1, <1>2, <1>3, <1>4, <1>5, <1>6, <1>7 DEF Next

LEMMA InvHolds == Spec => []IInv
  BY InitHolds, NextKeeps, PTL DEF Spec

-------------------------------------------------------------------------------
(* Theorems *)

\* The page, its requests and what is stored are about known images and verdicts only, and
\* nothing empty is submitted (submitDrafts).
THEOREM TypeCorrect == Spec => []TypeOK
<1>1. IInv => TypeOK
  <2> SUFFICES ASSUME IInv PROVE TypeOK
    OBVIOUS
  <2>1. \A s \in Submissions : InFlight(s) => submission[s].items \in Drafts \ {<<>>}
    BY DEF IInv, TypeInv, SubmissionInv, InFlight, SubmissionStates
  <2> QED BY <2>1 DEF IInv, TypeInv, ServerInv, PageInv, PageStates, WordsInv, TypeOK, AllTabs, Rows, Drafts
<1> QED BY <1>1, InvHolds, PTL

\* What the reviewer chose last for an image is stored or still a draft, in whatever order
\* submissions and listings are taken up, tried again, answered, or not heard of any more:
\* applySubmittedDrafts and resetDrafts drop what is stored only, but for Load, and but for
\* verdicts changed while one is in flight.
THEOREM DecisionsAreNotLost == Spec => []NoDecisionLost
<1>1. IInv => NoDecisionLost
  BY DEF IInv, AgreeInv, Agrees, NoDecisionLost
<1> QED BY <1>1, InvHolds, PTL

\* No listing made for one tab is shown under another (the token of loadQueue).
THEOREM ListingsFitTheTab == Spec => ListingFitsTab
<1>1. IInv => \A l \in Listings :
         kind = "review" /\ listing[l].pc = "answer" /\ page'.list # page.list /\ listing'[l] = Free
         => listing[l].tab = page.tab
  BY DEF IInv, TabInv, Free
<1> QED BY <1>1, InvHolds, PTL DEF ListingFitsTab

===============================================================================
