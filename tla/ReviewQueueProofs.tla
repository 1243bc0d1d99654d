--------------------------- MODULE ReviewQueueProofs ---------------------------
(***************************************************************************)
(* Proofs about ReviewQueue, for any runs, listings, limits and failures.  *)
(***************************************************************************)
EXTENDS ReviewQueue, FiniteSetTheorems, WellFoundedInduction, TLAPS

-------------------------------------------------------------------------------
(* The inductive invariant *)

Requested == [pc : Labels, loud : BOOLEAN, had : BOOLEAN, todo : SUBSET Runs, skipped : SUBSET Runs,
              want : Nat, ready : Nat, queued : Nat, pending : Nat, images : SUBSET Images]
Workers == [pc : {"get", "load", "discard", "requeue", "put"}, run : Runs \cup {NoRun}, again : BOOLEAN]
Pages == [list : SUBSET Images, sent : SUBSET Images, timer : BOOLEAN, notice : BOOLEAN]

CacheInv ==
    /\ cached \in [Runs -> Nat] /\ \A r \in Runs : cached[r] <= Target(r)
    /\ reviewed \subseteq Images
CountInv == restarts \in 0 .. MaxRestarts /\ failures \in 0 .. MaxFailures
ServerInv ==
    /\ keys \subseteq Runs /\ queue \in Seq(Runs)
    /\ worker \in Workers /\ (worker.pc # "get" => worker.run \in Runs)
RequestInv == request \in [Requests -> Requested]
PageInv == page \in Pages

\* A listing that has a run in its hands has one left, and never asks for more than its target.
LocalInv ==
    \A q \in Requests :
        /\ At(q, "put") => request[q].todo # {}
        /\ At(q, "fill") => request[q].todo # {} /\ request[q].want <= Target(Now(q))

\* Who owns the key of r.
InQueue(r) == \E k \in 1 .. Len(queue) : queue[k] = r
AtWorker(r) == worker.run = r /\ worker.pc \in {"load", "discard", "put"}
AtRequest(r, q) == At(q, "put") /\ Now(q) = r

\* The key of r is owned, and by one only.
Owned(r) ==
    /\ r \in keys <=> InQueue(r) \/ AtWorker(r) \/ \E q \in Requests : AtRequest(r, q)
    /\ InQueue(r) => ~AtWorker(r) /\ \A q \in Requests : ~AtRequest(r, q)
    /\ AtWorker(r) => \A q \in Requests : ~AtRequest(r, q)
    /\ \A p, q \in Requests : AtRequest(r, p) /\ AtRequest(r, q) => p = q
    /\ \A j, k \in 1 .. Len(queue) : queue[j] = r /\ queue[k] = r => j = k
KeyInv == \A r \in Runs : Owned(r)

\* A listing that skipped no run and counts none as pending is right about that, and one
\* that then found no image is right, too: for good, since nothing is taken back.
AllCached == \A r \in Runs : ~Pending(r)
Done == ToReview \subseteq reviewed
AnswerInv ==
    \A q \in Requests :
        request[q].pc \in {"queue", "put", "list", "answer"}
            /\ request[q].pending = 0 /\ request[q].skipped = {} =>
        /\ AllCached
        /\ At(q, "answer") /\ request[q].images = {} => Done

\* A page that shows nothing and waits for nothing has nothing to hope for but the
\* answers to come.
StopInv ==
    page.list = {} /\ ~page.timer /\ ~page.notice
    => Done \/ \E q \in Requests : ~At(q, "idle")

TypeInv == CacheInv /\ CountInv /\ ServerInv /\ RequestInv /\ PageInv
IInv == TypeInv /\ LocalInv /\ KeyInv /\ AnswerInv /\ StopInv

-------------------------------------------------------------------------------
(* Runs, targets and what is ready *)

\* A run has at least one image to review, be it empty.
LEMMA TargetType == \A r \in Runs : Target(r) \in Nat \ {0}
<1> SUFFICES ASSUME NEW r \in Runs PROVE Target(r) \in Nat \ {0}
  OBVIOUS
<1>1. Total[r] \in Nat /\ ReviewParts \in Nat \ {0}
  BY RunAssumption, BoundAssumption
<1>2. (Total[r] + ReviewParts - 1) \div ReviewParts \in Nat
  BY <1>1
<1> QED BY <1>2 DEF Target

\* Order is a finite list of all runs.
LEMMA OrderFacts ==
    /\ \A k \in 1 .. Len(Order) : Order[k] \in Runs
    /\ \A r \in Runs : \E k \in 1 .. Len(Order) : Order[k] = r
    /\ Len(Order) \in Nat /\ DOMAIN Order = 1 .. Len(Order)
  BY OrderAssumption DEF Runs, ToSet

\* Some runs have a first one.
LEMMA FirstFacts == \A S \in SUBSET Runs : S # {} => First(S) \in S
<1> SUFFICES ASSUME NEW S \in SUBSET Runs, S # {} PROVE First(S) \in S
  OBVIOUS
<1> DEFINE T == {k \in 1 .. Len(Order) : Order[k] \in S}
<1>1. T \in SUBSET Nat /\ T # {}
  BY OrderFacts
<1>2. PICK k \in T : \A j \in T : ~ (<<j, k>> \in OpToRel(<, Nat))
  BY <1>1, WFMin, NatLessThanWellFounded
<1>3. \A j \in T : ~ (j < k)
  BY <1>1, <1>2 DEF OpToRel
<1>4. Order[k] \in S /\ k \in DOMAIN Order /\ \A j \in 1 .. k - 1 : Order[j] \notin S
  BY <1>3, OrderFacts
<1> QED BY <1>4 DEF First

\* A function has finitely many values on a finite set.
LEMMA ValuesFinite ==
    ASSUME NEW S, IsFiniteSet(S), NEW T, NEW f \in [S -> T] PROVE IsFiniteSet({f[x] : x \in S})
<1> DEFINE U == {f[x] : x \in S}
<1>1. f \in Surjection(S, U)
  BY DEF Surjection
<1> HIDE DEF U
<1>2. IsFiniteSet(U)
  BY <1>1, FS_Surjection
<1> QED BY <1>2 DEF U

LEMMA RunsFinite == IsFiniteSet(Runs)
<1>1. IsFiniteSet(1 .. Len(Order))
  BY OrderFacts, FS_Interval
<1>2. Order \in Surjection(1 .. Len(Order), Runs)
  <2>1. Order \in [1 .. Len(Order) -> Runs]
    BY OrderAssumption
  <2> QED BY <2>1, OrderFacts DEF Surjection
<1> QED BY <1>1, <1>2, FS_Surjection

\* The runs a listing counts are as many as there are: none if it counts none.
LEMMA PendingFacts ==
    ASSUME NEW skipped
    PROVE  LET todo == PendingRuns(skipped) IN
           todo \subseteq Runs /\ Cardinality(todo) \in Nat /\ (Cardinality(todo) = 0 => todo = {})
<1>1. PendingRuns(skipped) \in SUBSET Runs
  BY DEF PendingRuns
<1>2. IsFiniteSet(PendingRuns(skipped))
  BY <1>1, RunsFinite, FS_Subset
<1> QED BY <1>1, <1>2, FS_CardinalityType, FS_EmptySet

\* An image is one of a run, below its target.
LEMMA ImageFacts ==
    \A p : p \in Images <=> \E r \in Runs : \E i \in 0 .. Target(r) - 1 : p = <<r, i>>
  BY DEF Images

LEMMA ImagesFinite == IsFiniteSet(Images)
<1> DEFINE of == [r \in Runs |-> {r} \X (0 .. Target(r) - 1)]
           sets == {of[r] : r \in Runs}
<1>1. \A r \in Runs : IsFiniteSet(of[r])
  <2> SUFFICES ASSUME NEW r \in Runs PROVE IsFiniteSet(of[r])
    OBVIOUS
  <2>1. IsFiniteSet({r}) /\ IsFiniteSet(0 .. Target(r) - 1)
    <3>1. Target(r) - 1 \in Int
      BY TargetType
    <3>2. IsFiniteSet(0 .. Target(r) - 1)
      BY <3>1, FS_Interval
    <3> QED BY <3>2, FS_Singleton
  <2>2. IsFiniteSet({r} \X (0 .. Target(r) - 1))
    BY <2>1, FS_Product
  <2> QED BY <2>2
<1>2. of \in [Runs -> {of[r] : r \in Runs}]
  OBVIOUS
<1>3. Images = UNION sets
  BY DEF Images
<1> HIDE DEF of
<1>4. IsFiniteSet(sets)
  BY <1>2, RunsFinite, ValuesFinite
<1>5. \A T \in sets : IsFiniteSet(T)
  BY <1>1
<1> HIDE DEF sets
<1> QED BY <1>3, <1>4, <1>5, FS_UNION

\* What is ready is about images below a target.
LEMMA ReadyFacts ==
    ASSUME CacheInv, NEW skipped
    PROVE  /\ Ready(skipped) \subseteq Images
           /\ IsFiniteSet(Ready(skipped)) /\ Cardinality(Ready(skipped)) \in Nat
           /\ AllCached /\ skipped = {} /\ Ready(skipped) = {} => Done
<1>1. \A r \in Runs : cached[r] \in Nat /\ Target(r) \in Nat /\ cached[r] <= Target(r)
  BY TargetType DEF CacheInv
<1>2. Ready(skipped) \subseteq Images
  BY DEF Ready
<1>3. ASSUME AllCached, skipped = {}, Ready(skipped) = {}, NEW p \in Images PROVE p \in reviewed
  <2>1. p[1] \in Runs /\ p[2] \in 0 .. Target(p[1]) - 1
    BY <1>3, ImageFacts
  <2>2. p[2] < cached[p[1]]
    BY <1>1, <1>3, <2>1 DEF AllCached, Pending
  <2> QED BY <1>3, <2>2 DEF Ready
<1> QED BY <1>2, <1>3, ImagesFinite, FS_Subset, FS_CardinalityType DEF Done, ToReview

\* A load that asks for no more than the target only adds images.
LEMMA LoadedFacts ==
    ASSUME CacheInv, NEW r \in Runs, NEW n \in Nat, n <= Target(r),
           cached' = Loaded(r, n), UNCHANGED reviewed
    PROVE  CacheInv' /\ \A s \in Runs : cached'[s] >= cached[s]
<1> DEFINE got == IF n < Total[r] THEN n ELSE Total[r]
           new == IF got > cached[r] THEN got ELSE cached[r]
<1>1. Total[r] \in Nat /\ Target(r) \in Nat /\ cached[r] \in Nat /\ cached[r] <= Target(r)
  BY RunAssumption, TargetType DEF CacheInv
<1>2. new \in Nat /\ new <= Target(r) /\ new >= cached[r]
  BY <1>1
<1>3. cached' = [cached EXCEPT ![r] = new]
  BY DEF Loaded
<1> HIDE DEF new
<1> QED BY <1>2, <1>3 DEF CacheInv

LEMMA OneMoreType == ASSUME CacheInv, NEW r \in Runs PROVE OneMore(r) \in Nat /\ OneMore(r) <= Target(r)
  BY TargetType DEF CacheInv, OneMore, Pending

-------------------------------------------------------------------------------
(* What the parts of a step keep *)

\* Nobody takes or gives up a key.
LEMMA KeysStay ==
    ASSUME KeyInv, UNCHANGED server,
           \A q \in Requests : At(q, "put")' <=> At(q, "put"),
           \A q \in Requests : At(q, "put") => Now(q)' = Now(q)
    PROVE  KeyInv'
  BY DEF KeyInv, Owned, InQueue, AtWorker, AtRequest, server

\* A listing goes on: what it says next it is right about.
LEMMA ListingKeeps ==
    ASSUME IInv, NEW q \in Requests, NEW new \in Requested, request' = [request EXCEPT ![q] = new],
           new.pc # "idle",
           new.pc = "put" => new.todo # {},
           new.pc = "fill" => new.todo # {} /\ new.want <= Target(First(new.todo)),
           CacheInv', \A r \in Runs : cached'[r] >= cached[r], UNCHANGED reviewed,
           new.pc \in {"queue", "put", "list", "answer"} /\ new.pending = 0 /\ new.skipped = {}
           => AllCached' /\ (new.pc = "answer" /\ new.images = {} => Done)
    PROVE  RequestInv' /\ LocalInv' /\ AnswerInv' /\ StopInv'
<1>1. RequestInv' /\ \A p \in Requests : request'[p] = IF p = q THEN new ELSE request[p]
  BY DEF IInv, TypeInv, RequestInv
<1>2. LocalInv'
  BY <1>1 DEF IInv, LocalInv, At, Now
<1>3. Done' = Done
  BY DEF Done
<1>4. AllCached => AllCached'
  BY TargetType DEF AllCached, Pending, CacheInv, IInv, TypeInv
<1>5. AnswerInv'
  BY <1>1, <1>3, <1>4 DEF IInv, AnswerInv, At
<1>6. StopInv'
  BY <1>1 DEF StopInv, At
<1> QED BY <1>1, <1>2, <1>5, <1>6

\* A listing that is not between the lock and the queue goes on, and changes nothing else.
LEMMA QuietKeeps ==
    ASSUME IInv, NEW q \in Requests, NEW new \in Requested, request' = [request EXCEPT ![q] = new],
           ~At(q, "put"), new.pc \notin {"idle", "put"},
           new.pc = "fill" => new.todo # {} /\ new.want <= Target(First(new.todo)),
           new.pc \in {"queue", "list", "answer"} /\ new.pending = 0 /\ new.skipped = {}
           => AllCached /\ (new.pc = "answer" /\ new.images = {} => Done),
           UNCHANGED <<cached, reviewed, server>>
    PROVE  /\ CacheInv' /\ ServerInv' /\ RequestInv' /\ LocalInv' /\ KeyInv' /\ AnswerInv' /\ StopInv'
<1>1. CacheInv' /\ ServerInv'
  BY DEF IInv, TypeInv, CacheInv, ServerInv, server
<1>2. \A r \in Runs : cached'[r] >= cached[r]
  BY DEF IInv, TypeInv, CacheInv
<1>3. AllCached' = AllCached
  BY DEF AllCached, Pending
<1>4. RequestInv' /\ LocalInv' /\ AnswerInv' /\ StopInv'
  BY <1>1, <1>2, <1>3, ListingKeeps
<1>5. \A p \in Requests : request'[p] = IF p = q THEN new ELSE request[p]
  BY DEF IInv, TypeInv, RequestInv
<1>6. KeyInv'
  BY <1>5, KeysStay DEF IInv, At, Now
<1> QED BY <1>1, <1>4, <1>6

-------------------------------------------------------------------------------
(* Listings *)

LEMMA StartKeeps == ASSUME IInv, NEW q \in Requests, Poll(q) \/ Reload(q) PROVE IInv'
<1>1. PICK new \in Requested :
         request' = [request EXCEPT ![q] = new] /\ new.pc = "read"
  <2>1. request[q] \in Requested
    BY DEF IInv, TypeInv, RequestInv
  <2> DEFINE soft == [request[q] EXCEPT !.pc = "read", !.had = page.list # {}]
             hard == [request[q] EXCEPT !.pc = "read", !.loud = TRUE]
  <2>2. soft \in Requested /\ soft.pc = "read" /\ hard \in Requested /\ hard.pc = "read"
    BY <2>1 DEF Requested, Labels
  <2>3. CASE Poll(q)
    BY <2>2, <2>3 DEF Poll
  <2>4. CASE Reload(q)
    BY <2>2, <2>4 DEF Reload
  <2> QED BY <2>3, <2>4
<1>2. At(q, "idle") /\ UNCHANGED <<cached, reviewed, server, restarts, failures>>
  BY DEF Poll, Reload
<1>3. PageInv' /\ CountInv'
  BY DEF Poll, Reload, IInv, TypeInv, PageInv, Pages, CountInv
<1> QED BY <1>1, <1>2, <1>3, QuietKeeps DEF IInv, TypeInv, At

LEMMA ReadKeeps == ASSUME IInv, NEW q \in Requests, Read(q) PROVE IInv'
<1> DEFINE boot == [request[q] EXCEPT !.pc = "boot", !.todo = PendingRuns({})]
           count == [request[q] EXCEPT !.pc = "count"]
<1>1. /\ At(q, "read") /\ UNCHANGED <<cached, reviewed, server, page, restarts, failures>>
      /\ \/ request' = [request EXCEPT ![q] = boot]
         \/ request' = [request EXCEPT ![q] = count]
  BY DEF Read, IInv, TypeInv, RequestInv
<1>2. boot \in Requested /\ boot.pc = "boot" /\ count \in Requested /\ count.pc = "count"
  BY PendingFacts DEF IInv, TypeInv, RequestInv, Requested, Labels
<1> HIDE DEF boot, count
<1> QED BY <1>1, <1>2, QuietKeeps DEF IInv, TypeInv, PageInv, CountInv, At

LEMMA BootKeeps == ASSUME IInv, NEW q \in Requests, Boot(q) PROVE IInv'
<1> DEFINE count == [request[q] EXCEPT !.pc = "count"]
           fill == [request[q] EXCEPT !.pc = "fill", !.want = OneMore(Now(q))]
<1>1. /\ At(q, "boot") /\ UNCHANGED <<cached, reviewed, server, page, restarts, failures>>
      /\ \/ request' = [request EXCEPT ![q] = count]
         \/ request[q].todo # {} /\ request' = [request EXCEPT ![q] = fill]
  BY DEF Boot, IInv, TypeInv, RequestInv
<1>2. request[q] \in Requested /\ request[q].todo \in SUBSET Runs
  BY DEF IInv, TypeInv, RequestInv, Requested
<1>3. count \in Requested /\ count.pc = "count"
  BY <1>2 DEF Requested, Labels
<1>4. ASSUME request[q].todo # {}
      PROVE  fill \in Requested /\ fill.pc = "fill" /\ fill.todo # {} /\ fill.want <= Target(First(fill.todo))
  <2>1. Now(q) \in Runs /\ Now(q) = First(request[q].todo)
    BY <1>2, <1>4, FirstFacts DEF Now
  <2>2. OneMore(Now(q)) \in Nat /\ OneMore(Now(q)) <= Target(Now(q))
    BY <2>1, OneMoreType DEF IInv, TypeInv
  <2>3. fill \in Requested /\ fill.pc = "fill" /\ fill.todo = request[q].todo /\ fill.want = OneMore(Now(q))
    BY <1>2, <2>2 DEF Requested, Labels
  <2> HIDE DEF fill
  <2> QED BY <1>4, <2>1, <2>2, <2>3
<1> HIDE DEF count, fill
<1> QED BY <1>1, <1>3, <1>4, QuietKeeps DEF IInv, TypeInv, PageInv, CountInv, At

LEMMA FillKeeps == ASSUME IInv, NEW q \in Requests, Fill(q) PROVE IInv'
<1> DEFINE new == [request[q] EXCEPT !.pc = "check", !.todo = Rest(q)]
<1>1. /\ At(q, "fill") /\ cached' = Loaded(Now(q), request[q].want)
      /\ UNCHANGED <<reviewed, server, page, restarts, failures>>
      /\ request' = [request EXCEPT ![q] = new]
  BY DEF Fill, IInv, TypeInv, RequestInv
<1>2. /\ request[q] \in Requested /\ request[q].todo \in SUBSET Runs /\ request[q].want \in Nat
      /\ request[q].todo # {} /\ request[q].want <= Target(Now(q))
  BY <1>1 DEF IInv, TypeInv, RequestInv, Requested, LocalInv
<1>3. Now(q) \in Runs
  BY <1>2, FirstFacts DEF Now
<1>4. CacheInv' /\ \A r \in Runs : cached'[r] >= cached[r]
  BY <1>1, <1>2, <1>3, LoadedFacts DEF IInv, TypeInv
<1>5. new \in Requested /\ new.pc = "check"
  BY <1>2 DEF Requested, Labels, Rest
<1> HIDE DEF new
<1>6. RequestInv' /\ LocalInv' /\ AnswerInv' /\ StopInv'
  BY <1>1, <1>4, <1>5, ListingKeeps
<1>7. \A p \in Requests : request'[p] = IF p = q THEN new ELSE request[p]
  BY <1>1 DEF IInv, TypeInv, RequestInv
<1>8. KeyInv'
  BY <1>1, <1>5, <1>7, KeysStay DEF IInv, At, Now
<1> QED BY <1>1, <1>4, <1>6, <1>8 DEF IInv, TypeInv, ServerInv, PageInv, CountInv, server

LEMMA RaisesType ==
    ASSUME CountInv, NEW r, Raises(r), UNCHANGED restarts PROVE CountInv'
  BY BoundAssumption DEF CountInv, Raises

LEMMA SkipKeeps == ASSUME IInv, NEW q \in Requests, Skip(q) PROVE IInv'
<1> DEFINE new == [request[q] EXCEPT !.pc = "boot", !.todo = Rest(q), !.skipped = @ \cup {Now(q)}]
<1>1. /\ At(q, "fill") /\ Raises(Now(q)) /\ UNCHANGED <<cached, reviewed, server, page, restarts>>
      /\ request' = [request EXCEPT ![q] = new]
  BY DEF Skip, IInv, TypeInv, RequestInv
<1>2. request[q] \in Requested /\ request[q].todo \in SUBSET Runs /\ request[q].todo # {}
  BY <1>1 DEF IInv, TypeInv, RequestInv, Requested, LocalInv
<1>3. Now(q) \in Runs
  BY <1>2, FirstFacts DEF Now
<1>4. new \in Requested /\ new.pc = "boot"
  BY <1>2, <1>3 DEF Requested, Labels, Rest
<1> HIDE DEF new
<1>5. CountInv'
  BY <1>1, RaisesType DEF IInv, TypeInv
<1> QED BY <1>1, <1>4, <1>5, QuietKeeps DEF IInv, TypeInv, PageInv, At

LEMMA CheckKeeps == ASSUME IInv, NEW q \in Requests, Check(q) PROVE IInv'
<1> DEFINE label == IF Ready(request[q].skipped) = {} THEN "boot" ELSE "count"
           new == [request[q] EXCEPT !.pc = label]
<1>1. /\ At(q, "check") /\ UNCHANGED <<cached, reviewed, server, page, restarts, failures>>
      /\ request' = [request EXCEPT ![q] = new]
  BY DEF Check
<1>2. label \in {"boot", "count"}
  OBVIOUS
<1> HIDE DEF label
<1>3. new \in Requested /\ new.pc = label
  BY <1>2 DEF IInv, TypeInv, RequestInv, Requested, Labels
<1> HIDE DEF new
<1> QED BY <1>1, <1>2, <1>3, QuietKeeps DEF IInv, TypeInv, PageInv, CountInv, At

\* Only here does a listing say that nothing is pending.
LEMMA CountKeeps == ASSUME IInv, NEW q \in Requests, Count(q) PROVE IInv'
<1> DEFINE todo == PendingRuns(request[q].skipped)
           pending == Cardinality(todo)
           ready == Cardinality(Ready(request[q].skipped))
           new == [request[q] EXCEPT !.pc = "queue", !.todo = todo, !.pending = pending, !.ready = ready]
<1>1. /\ At(q, "count") /\ UNCHANGED <<cached, reviewed, server, page, restarts, failures>>
      /\ request' = [request EXCEPT ![q] = new]
  BY DEF Count
<1>2. request[q] \in Requested
  BY DEF IInv, TypeInv, RequestInv
<1>3. todo \subseteq Runs /\ pending \in Nat /\ (pending = 0 => todo = {})
  BY PendingFacts
<1>4. ready \in Nat
  BY ReadyFacts DEF IInv, TypeInv
<1>5. ASSUME pending = 0, request[q].skipped = {} PROVE AllCached
  BY <1>3, <1>5 DEF PendingRuns, AllCached
<1> HIDE DEF todo, pending, ready
<1>6. new \in Requested /\ new.pc = "queue" /\ new.pending = pending /\ new.skipped = request[q].skipped
  BY <1>2, <1>3, <1>4 DEF Requested, Labels
<1> HIDE DEF new
<1> QED BY <1>1, <1>5, <1>6, QuietKeeps DEF IInv, TypeInv, PageInv, CountInv, At

\* A run whose key is taken has no other owner.
LEMMA TakenKeeps ==
    ASSUME IInv, NEW q \in Requests, ~At(q, "put"), Now(q) \in Runs, Now(q) \notin keys,
           NEW new \in Requested, request' = [request EXCEPT ![q] = new], new.pc = "put",
           new.todo = request[q].todo, keys' = keys \cup {Now(q)}, UNCHANGED <<queue, worker>>
    PROVE  KeyInv'
<1> DEFINE r == Now(q)
<1>1. \A p \in Requests : request'[p] = IF p = q THEN new ELSE request[p]
  BY DEF IInv, TypeInv, RequestInv
<1>2. ASSUME NEW x \in Runs, NEW p \in Requests
      PROVE  AtRequest(x, p)' <=> IF p = q THEN x = r ELSE AtRequest(x, p)
  BY <1>1 DEF AtRequest, At, Now
<1>3. ASSUME NEW x \in Runs PROVE AtWorker(x)' = AtWorker(x) /\ InQueue(x)' = InQueue(x) /\ ~AtRequest(x, q)
  BY DEF AtWorker, InQueue, AtRequest
<1> HIDE DEF r
<1>4. ASSUME NEW x \in Runs PROVE Owned(x)'
  <2>1. Owned(x)
    BY DEF IInv, KeyInv
  <2>2. CASE x = r
    BY <1>2, <1>3, <2>1, <2>2 DEF Owned, r
  <2>3. CASE x # r
    BY <1>2, <1>3, <2>1, <2>3 DEF Owned, r
  <2> QED BY <2>2, <2>3
<1> QED BY <1>4 DEF KeyInv

LEMMA QueueKeeps == ASSUME IInv, NEW q \in Requests, Queue(q) PROVE IInv'
<1> DEFINE list == [request[q] EXCEPT !.pc = "list"]
           rest == Rest(q)
           more == request[q].queued + 1
           next == [request[q] EXCEPT !.todo = rest, !.queued = more]
           put == [request[q] EXCEPT !.pc = "put"]
<1>1. At(q, "queue") /\ UNCHANGED <<cached, reviewed, queue, worker, page, restarts, failures>>
  BY DEF Queue
<1>2. \/ keys' = keys /\ request' = [request EXCEPT ![q] = list]
      \/ request[q].todo # {} /\ Now(q) \in keys /\ keys' = keys /\ request' = [request EXCEPT ![q] = next]
      \/ /\ request[q].todo # {} /\ Now(q) \notin keys
         /\ keys' = keys \cup {Now(q)} /\ request' = [request EXCEPT ![q] = put]
  BY DEF Queue, IInv, TypeInv, RequestInv
<1>3. request[q] \in Requested /\ request[q].pc = "queue"
  BY <1>1 DEF IInv, TypeInv, RequestInv, At
<1>4. /\ list \in Requested /\ list.pc = "list"
      /\ list.pending = request[q].pending /\ list.skipped = request[q].skipped
  BY <1>3 DEF Requested, Labels
<1>5. /\ next \in Requested /\ next.pc = "queue"
      /\ next.pending = request[q].pending /\ next.skipped = request[q].skipped
  <2>1. rest \subseteq Runs /\ more \in Nat
    BY <1>3 DEF Requested, Rest
  <2> HIDE DEF rest, more
  <2> QED BY <1>3, <2>1 DEF Requested
<1>6. /\ put \in Requested /\ put.pc = "put" /\ put.todo = request[q].todo
      /\ put.pending = request[q].pending /\ put.skipped = request[q].skipped
  BY <1>3 DEF Requested, Labels
<1>7. request[q].pending = 0 /\ request[q].skipped = {} => AllCached
  BY <1>3 DEF IInv, AnswerInv
<1> HIDE DEF list, next, put
<1>8. CASE keys' = keys /\ request' = [request EXCEPT ![q] = list]
  BY <1>1, <1>4, <1>7, <1>8, QuietKeeps DEF IInv, TypeInv, PageInv, CountInv, At, server
<1>9. CASE keys' = keys /\ request' = [request EXCEPT ![q] = next]
  BY <1>1, <1>5, <1>7, <1>9, QuietKeeps DEF IInv, TypeInv, PageInv, CountInv, At, server
<1>10. CASE /\ request[q].todo # {} /\ Now(q) \notin keys
            /\ keys' = keys \cup {Now(q)} /\ request' = [request EXCEPT ![q] = put]
  <2>1. Now(q) \in Runs
    BY <1>3, <1>10, FirstFacts DEF Now, Requested
  <2>2. KeyInv'
    BY <1>1, <1>6, <1>10, <2>1, TakenKeeps DEF At
  <2>3. CacheInv' /\ (\A r \in Runs : cached'[r] >= cached[r]) /\ AllCached' = AllCached
    BY <1>1 DEF IInv, TypeInv, CacheInv, AllCached, Pending
  <2>4. RequestInv' /\ LocalInv' /\ AnswerInv' /\ StopInv'
    BY <1>1, <1>6, <1>7, <1>10, <2>3, ListingKeeps
  <2> QED BY <1>1, <1>10, <2>1, <2>2, <2>3, <2>4 DEF IInv, TypeInv, ServerInv, PageInv, CountInv
<1> QED BY <1>2, <1>8, <1>9, <1>10

\* A run that enters the queue takes its key along.
LEMMA AppendedKeeps ==
    ASSUME IInv, NEW r \in Runs, queue' = Append(queue, r), ~InQueue(r), UNCHANGED keys,
           \A x \in Runs : ~AtWorker(x)' \/ AtWorker(x),
           \A x \in Runs, p \in Requests : ~AtRequest(x, p)' \/ AtRequest(x, p),
           \A x \in Runs : x # r => (AtWorker(x) => AtWorker(x)'),
           \A x \in Runs, p \in Requests : x # r => (AtRequest(x, p) => AtRequest(x, p)'),
           r \in keys, ~AtWorker(r)', \A p \in Requests : ~AtRequest(r, p)'
    PROVE  KeyInv' /\ queue' \in Seq(Runs)
<1>1. queue \in Seq(Runs) /\ Len(queue) \in Nat
  BY DEF IInv, TypeInv, ServerInv
<1>2. /\ queue' \in Seq(Runs) /\ Len(queue') = Len(queue) + 1 /\ queue'[Len(queue) + 1] = r
      /\ \A k \in 1 .. Len(queue) : queue'[k] = queue[k]
  BY <1>1
<1>3. \A x \in Runs : InQueue(x)' <=> InQueue(x) \/ x = r
  BY <1>1, <1>2 DEF InQueue
<1>4. ASSUME NEW x \in Runs PROVE Owned(x)'
  <2>1. Owned(x)
    BY DEF IInv, KeyInv
  <2>2. \A j, k \in 1 .. Len(queue') : queue'[j] = x /\ queue'[k] = x => j = k
    BY <1>1, <1>2, <2>1 DEF Owned, InQueue
  <2>3. CASE x = r
    BY <1>3, <2>2, <2>3 DEF Owned
  <2>4. CASE x # r
    BY <1>3, <2>1, <2>2, <2>4 DEF Owned
  <2> QED BY <2>3, <2>4
<1> QED BY <1>2, <1>4 DEF KeyInv

LEMMA PutKeeps == ASSUME IInv, NEW q \in Requests, Put(q) PROVE IInv'
<1> DEFINE rest == Rest(q)
           more == request[q].queued + 1
           new == [request[q] EXCEPT !.pc = "queue", !.todo = rest, !.queued = more]
           r == Now(q)
<1>1. /\ At(q, "put") /\ queue' = Append(queue, r)
      /\ UNCHANGED <<cached, reviewed, keys, worker, page, restarts, failures>>
      /\ request' = [request EXCEPT ![q] = new]
  BY DEF Put, IInv, TypeInv, RequestInv
<1>2. request[q] \in Requested /\ request[q].pc = "put" /\ request[q].todo # {}
  BY <1>1 DEF IInv, TypeInv, RequestInv, At, LocalInv
<1>3. r \in Runs
  BY <1>2, FirstFacts DEF Now, Requested
<1>4. /\ new \in Requested /\ new.pc = "queue"
      /\ new.pending = request[q].pending /\ new.skipped = request[q].skipped
  <2>1. rest \subseteq Runs /\ more \in Nat
    BY <1>2 DEF Requested, Rest
  <2> HIDE DEF rest, more
  <2> QED BY <1>2, <2>1 DEF Requested, Labels
<1> HIDE DEF new
<1>5. \A p \in Requests : request'[p] = IF p = q THEN new ELSE request[p]
  BY <1>1 DEF IInv, TypeInv, RequestInv
<1>6. AtRequest(r, q)
  BY <1>1 DEF AtRequest
<1>7. r \in keys /\ ~InQueue(r) /\ ~AtWorker(r) /\ \A p \in Requests : p # q => ~AtRequest(r, p)
  BY <1>3, <1>6 DEF IInv, KeyInv, Owned
<1>8. \A x \in Runs, p \in Requests : AtRequest(x, p)' <=> p # q /\ AtRequest(x, p)
  BY <1>4, <1>5 DEF AtRequest, At, Now
<1>9. \A x \in Runs : AtWorker(x)' <=> AtWorker(x)
  BY <1>1 DEF AtWorker
<1>10. \A x \in Runs : AtRequest(x, q) => x = r
  BY DEF AtRequest
<1> HIDE DEF r
<1>11. KeyInv' /\ queue' \in Seq(Runs)
  BY <1>1, <1>3, <1>7, <1>8, <1>9, <1>10, AppendedKeeps
<1>12. CacheInv' /\ (\A s \in Runs : cached'[s] >= cached[s]) /\ AllCached' = AllCached
  BY <1>1 DEF IInv, TypeInv, CacheInv, AllCached, Pending
<1>13. request[q].pending = 0 /\ request[q].skipped = {} => AllCached
  BY <1>2 DEF IInv, AnswerInv
<1>14. RequestInv' /\ LocalInv' /\ AnswerInv' /\ StopInv'
  BY <1>1, <1>4, <1>12, <1>13, ListingKeeps
<1> QED BY <1>1, <1>11, <1>12, <1>14 DEF IInv, TypeInv, ServerInv, PageInv, CountInv

LEMMA ListKeeps == ASSUME IInv, NEW q \in Requests, List(q) PROVE IInv'
<1> DEFINE images == Ready(request[q].skipped)
           new == [request[q] EXCEPT !.pc = "answer", !.images = images]
<1>1. /\ At(q, "list") /\ UNCHANGED <<cached, reviewed, server, page, restarts, failures>>
      /\ request' = [request EXCEPT ![q] = new]
  BY DEF List, IInv, TypeInv, RequestInv
<1>2. request[q] \in Requested /\ request[q].pc = "list"
  BY <1>1 DEF IInv, TypeInv, RequestInv, At
<1>3. images \subseteq Images /\ (AllCached /\ request[q].skipped = {} /\ images = {} => Done)
  BY ReadyFacts DEF IInv, TypeInv
<1>4. request[q].pending = 0 /\ request[q].skipped = {} => AllCached
  BY <1>2 DEF IInv, AnswerInv
<1> HIDE DEF images
<1>5. /\ new \in Requested /\ new.pc = "answer" /\ new.images = images
      /\ new.pending = request[q].pending /\ new.skipped = request[q].skipped
  BY <1>2, <1>3 DEF Requested, Labels
<1> HIDE DEF new
<1> QED BY <1>1, <1>3, <1>4, <1>5, QuietKeeps DEF IInv, TypeInv, PageInv, CountInv, At

\* The request that is answered is as good as new.
LEMMA IdleFacts == Idle \in Requested /\ Idle.pc = "idle"
  BY DEF Idle, Requested, Labels

\* If an answer leaves the page without images, timer and message, all is reviewed.
LEMMA AnswerKeeps == ASSUME IInv, NEW q \in Requests, Answer(q) PROVE IInv'
<1> DEFINE a == request[q]
           shown == a.loud \/ a.pending = 0 \/ (~a.had /\ a.images # {})
           told == a.skipped # {} /\ (a.images = {} \/ a.pending = 0)
           timer == a.pending > 0 /\ Cardinality(a.images) <= LowWater
           notice == IF shown THEN told ELSE page.notice
<1>1. /\ At(q, "answer") /\ UNCHANGED <<cached, reviewed, server, restarts, failures>>
      /\ request' = [request EXCEPT ![q] = Idle]
      /\ page' = [page EXCEPT !.list = a.images, !.timer = timer, !.notice = notice]
  BY DEF Answer
<1>2. a \in Requested /\ a.pc = "answer"
  BY <1>1 DEF IInv, TypeInv, RequestInv, At
<1>3. page \in Pages /\ a.images \subseteq Images /\ a.pending \in Nat
  BY <1>2 DEF IInv, TypeInv, PageInv, Requested
<1>4. timer \in BOOLEAN /\ notice \in BOOLEAN
  BY <1>3 DEF Pages
<1>5. a.images = {} /\ ~timer /\ ~notice => Done
  <2> SUFFICES ASSUME a.images = {}, ~timer, ~notice PROVE Done
    OBVIOUS
  <2>1. Cardinality(a.images) <= LowWater
    BY BoundAssumption, FS_EmptySet
  <2>2. a.pending = 0
    BY <1>3, <2>1
  <2>3. a.skipped = {}
    BY <2>2
  <2> QED BY <1>1, <2>2, <2>3 DEF IInv, AnswerInv, At
<1> HIDE DEF timer, notice
<1>6. page' \in Pages /\ page'.list = a.images /\ page'.timer = timer /\ page'.notice = notice
  BY <1>1, <1>3, <1>4, Zenon DEF Pages
<1>7. StopInv'
  BY <1>1, <1>5, <1>6 DEF StopInv, Done
<1>8. RequestInv' /\ \A p \in Requests : request'[p] = IF p = q THEN Idle ELSE request[p]
  BY <1>1, IdleFacts DEF IInv, TypeInv, RequestInv
<1>9. LocalInv'
  BY <1>8, IdleFacts DEF IInv, LocalInv, At, Now
<1>10. AnswerInv'
  BY <1>1, <1>8, IdleFacts DEF IInv, AnswerInv, At, AllCached, Pending, Done
<1>11. KeyInv'
  BY <1>1, <1>2, <1>8, IdleFacts, KeysStay DEF IInv, At, Now
<1> QED BY <1>1, <1>6, <1>7, <1>8, <1>9, <1>10, <1>11 DEF IInv, TypeInv, CacheInv, ServerInv, PageInv, CountInv, server

-------------------------------------------------------------------------------
(* The reviewer *)

LEMMA SubmitKeeps == ASSUME IInv, Submit PROVE IInv'
<1>1. UNCHANGED <<cached, keys, queue, worker, server, request, restarts, failures>>
  BY DEF Submit, server
<1>2. PICK S \in SUBSET page.list : reviewed' = reviewed \cup S /\ page' = [page EXCEPT !.sent = S]
  BY DEF Submit
<1>3. page \in Pages /\ S \subseteq Images
  BY <1>2 DEF IInv, TypeInv, PageInv, Pages
<1>4. /\ page' \in Pages
      /\ page'.list = page.list /\ page'.timer = page.timer /\ page'.notice = page.notice
  BY <1>2, <1>3 DEF Pages
<1>5. CacheInv' /\ (Done => Done')
  BY <1>1, <1>2, <1>3 DEF IInv, TypeInv, CacheInv, Done
<1>6. LocalInv' /\ AnswerInv' /\ StopInv'
  BY <1>1, <1>4, <1>5 DEF IInv, LocalInv, AnswerInv, StopInv, At, Now, AllCached, Pending
<1>7. KeyInv'
  BY <1>1, KeysStay DEF IInv, At, Now
<1> QED BY <1>1, <1>4, <1>5, <1>6, <1>7 DEF IInv, TypeInv, ServerInv, RequestInv, PageInv, CountInv

LEMMA SavedKeeps == ASSUME IInv, Saved PROVE IInv'
<1>1. /\ UNCHANGED <<cached, reviewed, keys, queue, worker, server, request, restarts, failures>>
      /\ page' = [list |-> page.list \ page.sent, sent |-> {}, timer |-> TRUE, notice |-> FALSE]
  BY DEF Saved, server
<1>2. page' \in Pages /\ page'.timer
  BY <1>1 DEF IInv, TypeInv, PageInv, Pages
<1>3. LocalInv' /\ AnswerInv' /\ StopInv'
  BY <1>1, <1>2 DEF IInv, LocalInv, AnswerInv, StopInv, At, Now, AllCached, Pending, Done
<1>4. KeyInv'
  BY <1>1, KeysStay DEF IInv, At, Now
<1> QED BY <1>1, <1>2, <1>3, <1>4 DEF IInv, TypeInv, CacheInv, ServerInv, RequestInv, PageInv, CountInv

-------------------------------------------------------------------------------
(* The worker *)

\* What the worker does to keys, queue and cache is no matter of listings and page.
LEMMA WorkKeeps ==
    ASSUME IInv, UNCHANGED <<reviewed, request, page>>, CacheInv', \A r \in Runs : cached'[r] >= cached[r]
    PROVE  RequestInv' /\ PageInv' /\ LocalInv' /\ AnswerInv' /\ StopInv'
<1>1. AllCached => AllCached'
  BY TargetType DEF AllCached, Pending, CacheInv, IInv, TypeInv
<1> QED BY <1>1 DEF IInv, TypeInv, RequestInv, PageInv, LocalInv, AnswerInv, StopInv, At, Now, Done

\* The same, if it does not load.
LEMMA IdleWorkKeeps ==
    ASSUME IInv, UNCHANGED <<cached, reviewed, request, page>>
    PROVE  CacheInv' /\ RequestInv' /\ PageInv' /\ LocalInv' /\ AnswerInv' /\ StopInv'
<1>1. CacheInv' /\ \A r \in Runs : cached'[r] >= cached[r]
  BY DEF IInv, TypeInv, CacheInv
<1> QED BY <1>1, WorkKeeps

LEMMA GetKeeps == ASSUME IInv, Get PROVE IInv'
<1> DEFINE r == Head(queue)
<1>1. /\ worker.pc = "get" /\ queue # <<>> /\ queue' = Tail(queue)
      /\ worker' = [pc |-> "load", run |-> r, again |-> FALSE]
      /\ UNCHANGED <<cached, reviewed, keys, request, page, restarts, failures>>
  BY DEF Get
<1>2. queue \in Seq(Runs) /\ Len(queue) \in Nat \ {0}
  BY <1>1 DEF IInv, TypeInv, ServerInv
<1>3. /\ r = queue[1] /\ r \in Runs /\ queue' \in Seq(Runs) /\ Len(queue') = Len(queue) - 1
      /\ \A k \in 1 .. Len(queue') : queue'[k] = queue[k + 1]
  BY <1>1, <1>2
<1> HIDE DEF r
<1>4. worker' \in Workers /\ worker'.run = r /\ worker'.pc = "load"
  BY <1>1, <1>3 DEF Workers
<1>5. ASSUME NEW x \in Runs PROVE Owned(x)'
  <2>1. Owned(x) /\ ~AtWorker(x) /\ (AtWorker(x)' <=> x = r)
    BY <1>1, <1>4 DEF IInv, KeyInv, AtWorker
  <2>2. \A q \in Requests : AtRequest(x, q)' = AtRequest(x, q)
    BY <1>1 DEF AtRequest, At, Now
  <2>3. \A j, k \in 1 .. Len(queue') : queue'[j] = x /\ queue'[k] = x => j = k
    <3> SUFFICES ASSUME NEW j \in 1 .. Len(queue'), NEW k \in 1 .. Len(queue'), queue'[j] = x, queue'[k] = x
                 PROVE  j = k
      OBVIOUS
    <3>1. queue[j + 1] = x /\ queue[k + 1] = x /\ j + 1 \in 1 .. Len(queue) /\ k + 1 \in 1 .. Len(queue)
      BY <1>2, <1>3
    <3>2. j + 1 = k + 1
      BY <2>1, <3>1 DEF Owned
    <3> QED BY <3>2
  <2>4. InQueue(x) <=> InQueue(x)' \/ x = r
    <3>1. ASSUME InQueue(x), x # r PROVE InQueue(x)'
      <4>1. PICK k \in 1 .. Len(queue) : queue[k] = x
        BY <3>1 DEF InQueue
      <4>2. k # 1 /\ k - 1 \in 1 .. Len(queue')
        BY <1>2, <1>3, <3>1, <4>1
      <4>3. queue'[k - 1] = x
        BY <1>2, <1>3, <4>1, <4>2
      <4> QED BY <4>2, <4>3 DEF InQueue
    <3>2. ASSUME InQueue(x)' PROVE InQueue(x)
      BY <1>2, <1>3, <3>2 DEF InQueue
    <3>3. InQueue(r)
      BY <1>2, <1>3 DEF InQueue
    <3> QED BY <3>1, <3>2, <3>3
  <2>5. x = r => ~InQueue(x)'
    <3> SUFFICES ASSUME x = r, InQueue(x)' PROVE FALSE
      OBVIOUS
    <3>1. PICK k \in 1 .. Len(queue') : queue'[k] = r
      BY DEF InQueue
    <3>2. queue[k + 1] = r /\ k + 1 \in 1 .. Len(queue) /\ 1 \in 1 .. Len(queue) /\ k + 1 # 1
      BY <1>2, <1>3, <3>1
    <3> QED BY <1>3, <2>1, <3>2 DEF Owned
  <2> QED BY <1>1, <2>1, <2>2, <2>3, <2>4, <2>5 DEF Owned
<1>6. CacheInv' /\ RequestInv' /\ PageInv' /\ LocalInv' /\ AnswerInv' /\ StopInv'
  BY <1>1, IdleWorkKeeps
<1> QED BY <1>1, <1>3, <1>4, <1>5, <1>6 DEF IInv, TypeInv, ServerInv, CountInv, KeyInv

LEMMA LoadKeeps == ASSUME IInv, Load PROVE IInv'
<1> DEFINE r == worker.run
           again == cached'[r] < Target(r)
<1>1. /\ worker.pc = "load" /\ cached' = Loaded(r, OneMore(r))
      /\ worker' = [worker EXCEPT !.pc = "discard", !.again = again]
      /\ UNCHANGED <<reviewed, keys, queue, request, page, restarts, failures>>
  BY DEF Load
<1>2. r \in Runs /\ worker \in Workers
  BY <1>1 DEF IInv, TypeInv, ServerInv
<1>3. OneMore(r) \in Nat /\ OneMore(r) <= Target(r)
  BY <1>2, OneMoreType DEF IInv, TypeInv
<1>4. CacheInv' /\ \A s \in Runs : cached'[s] >= cached[s]
  BY <1>1, <1>2, <1>3, LoadedFacts DEF IInv, TypeInv
<1>5. again \in BOOLEAN
  OBVIOUS
<1> HIDE DEF again
<1>6. worker' \in Workers /\ worker'.run = r /\ worker'.pc = "discard"
  BY <1>1, <1>2, <1>5, Zenon DEF Workers
<1>7. KeyInv'
  <2>1. \A x \in Runs : AtWorker(x)' <=> AtWorker(x)
    BY <1>1, <1>6 DEF AtWorker
  <2> QED BY <1>1, <2>1 DEF IInv, KeyInv, Owned, InQueue, AtRequest, At, Now
<1>8. RequestInv' /\ PageInv' /\ LocalInv' /\ AnswerInv' /\ StopInv'
  BY <1>1, <1>4, WorkKeeps
<1> QED BY <1>1, <1>2, <1>4, <1>6, <1>7, <1>8 DEF IInv, TypeInv, ServerInv, CountInv

LEMMA LoadFailsKeeps == ASSUME IInv, LoadFails PROVE IInv'
<1>1. /\ worker.pc = "load" /\ Raises(worker.run) /\ worker' = [worker EXCEPT !.pc = "discard"]
      /\ UNCHANGED <<cached, reviewed, keys, queue, request, page, restarts>>
  BY DEF LoadFails
<1>2. worker' \in Workers /\ worker'.run = worker.run /\ worker'.pc = "discard" /\ worker.run \in Runs
  BY <1>1 DEF IInv, TypeInv, ServerInv, Workers
<1>3. KeyInv'
  <2>1. \A x \in Runs : AtWorker(x)' <=> AtWorker(x)
    BY <1>1, <1>2 DEF AtWorker
  <2> QED BY <1>1, <2>1 DEF IInv, KeyInv, Owned, InQueue, AtRequest, At, Now
<1>4. CountInv'
  BY <1>1, RaisesType DEF IInv, TypeInv
<1>5. CacheInv' /\ RequestInv' /\ PageInv' /\ LocalInv' /\ AnswerInv' /\ StopInv'
  BY <1>1, IdleWorkKeeps
<1> QED BY <1>1, <1>2, <1>3, <1>4, <1>5 DEF IInv, TypeInv, ServerInv

LEMMA DiscardKeeps == ASSUME IInv, Discard PROVE IInv'
<1> DEFINE r == worker.run
<1>1. /\ worker.pc = "discard" /\ keys' = keys \ {r}
      /\ worker' = Resting \/ worker' = [worker EXCEPT !.pc = "requeue"]
      /\ UNCHANGED <<cached, reviewed, queue, request, page, restarts, failures>>
  BY DEF Discard
<1>2. worker \in Workers /\ r \in Runs
  BY <1>1 DEF IInv, TypeInv, ServerInv
<1>3. worker' \in Workers /\ worker'.pc \in {"get", "requeue"} /\ (worker'.pc = "requeue" => worker'.run = r)
  <2>1. CASE worker' = Resting
    BY <2>1 DEF Workers, Resting
  <2>2. CASE worker' = [worker EXCEPT !.pc = "requeue"]
    BY <1>2, <2>2 DEF Workers
  <2> QED BY <1>1, <2>1, <2>2
<1>4. AtWorker(r) /\ \A x \in Runs : ~AtWorker(x)' /\ (AtWorker(x) => x = r)
  BY <1>1, <1>3 DEF AtWorker
<1>5. ASSUME NEW x \in Runs PROVE Owned(x)'
  <2>1. Owned(x) /\ Owned(r)
    BY <1>2 DEF IInv, KeyInv
  <2>2. InQueue(x)' = InQueue(x) /\ \A q \in Requests : AtRequest(x, q)' = AtRequest(x, q)
    BY <1>1 DEF InQueue, AtRequest, At, Now
  <2> HIDE DEF r
  <2>3. x \in keys' <=> x \in keys /\ x # r
    BY <1>1
  <2>4. queue' = queue
    BY <1>1
  <2> QED BY <1>4, <2>1, <2>2, <2>3, <2>4 DEF Owned
<1>6. CacheInv' /\ RequestInv' /\ PageInv' /\ LocalInv' /\ AnswerInv' /\ StopInv'
  BY <1>1, IdleWorkKeeps
<1> QED BY <1>1, <1>2, <1>3, <1>5, <1>6 DEF IInv, TypeInv, ServerInv, CountInv, KeyInv

LEMMA RequeueKeeps == ASSUME IInv, Requeue PROVE IInv'
<1> DEFINE r == worker.run
<1>1. /\ worker.pc = "requeue" /\ keys' = keys \cup {r}
      /\ worker' = IF r \in keys THEN Resting ELSE [worker EXCEPT !.pc = "put"]
      /\ UNCHANGED <<cached, reviewed, queue, request, page, restarts, failures>>
  BY DEF Requeue
<1>2. worker \in Workers /\ r \in Runs
  BY <1>1 DEF IInv, TypeInv, ServerInv
<1>3. /\ worker' \in Workers /\ (worker'.pc # "get" => worker'.run = r)
      /\ worker'.pc = IF r \in keys THEN "get" ELSE "put"
  BY <1>1, <1>2 DEF Workers, Resting
<1>4. \A x \in Runs : ~AtWorker(x) /\ (AtWorker(x)' <=> x = r /\ r \notin keys)
  BY <1>1, <1>3 DEF AtWorker
<1>5. ASSUME NEW x \in Runs PROVE Owned(x)'
  <2>1. Owned(x)
    BY DEF IInv, KeyInv
  <2>2. InQueue(x)' = InQueue(x) /\ \A q \in Requests : AtRequest(x, q)' = AtRequest(x, q)
    BY <1>1 DEF InQueue, AtRequest, At, Now
  <2> HIDE DEF r
  <2>3. x \in keys' <=> x \in keys \/ x = r
    BY <1>1
  <2>4. queue' = queue
    BY <1>1
  <2> QED BY <1>4, <2>1, <2>2, <2>3, <2>4 DEF Owned
<1>6. CacheInv' /\ RequestInv' /\ PageInv' /\ LocalInv' /\ AnswerInv' /\ StopInv'
  BY <1>1, IdleWorkKeeps
<1> QED BY <1>1, <1>2, <1>3, <1>5, <1>6 DEF IInv, TypeInv, ServerInv, CountInv, KeyInv

LEMMA PutBackKeeps == ASSUME IInv, PutBack PROVE IInv'
<1> DEFINE r == worker.run
<1>1. /\ worker.pc = "put" /\ queue' = Append(queue, r) /\ worker' = Resting
      /\ UNCHANGED <<cached, reviewed, keys, request, page, restarts, failures>>
  BY DEF PutBack
<1>2. worker' \in Workers /\ worker'.pc = "get" /\ r \in Runs
  BY <1>1 DEF IInv, TypeInv, ServerInv, Workers, Resting
<1>3. AtWorker(r) /\ \A x \in Runs : ~AtWorker(x)' /\ (AtWorker(x) => x = r)
  BY <1>1, <1>2 DEF AtWorker
<1>4. r \in keys /\ ~InQueue(r) /\ \A p \in Requests : ~AtRequest(r, p)
  BY <1>2, <1>3 DEF IInv, KeyInv, Owned
<1>5. \A x \in Runs, p \in Requests : AtRequest(x, p)' = AtRequest(x, p)
  BY <1>1 DEF AtRequest, At, Now
<1> HIDE DEF r
<1>6. KeyInv' /\ queue' \in Seq(Runs)
  BY <1>1, <1>2, <1>3, <1>4, <1>5, AppendedKeeps
<1>7. CacheInv' /\ RequestInv' /\ PageInv' /\ LocalInv' /\ AnswerInv' /\ StopInv'
  BY <1>1, IdleWorkKeeps
<1> QED BY <1>1, <1>2, <1>6, <1>7 DEF IInv, TypeInv, ServerInv, CountInv

-------------------------------------------------------------------------------
(* The specification *)

\* A page whose listing fails will poll again, or says so.
LEMMA RestartKeeps == ASSUME IInv, Restart PROVE IInv'
<1> DEFINE timer == page.timer \/ \E q \in Requests : request[q].pc # "idle" /\ ~request[q].loud
           notice == page.notice \/ \E q \in Requests : request[q].loud
<1>1. /\ restarts < MaxRestarts /\ restarts' = restarts + 1
      /\ keys' = {} /\ queue' = <<>> /\ worker' = Resting
      /\ request' = [q \in Requests |-> Idle]
      /\ page' = [page EXCEPT !.sent = {}, !.timer = timer, !.notice = notice]
      /\ UNCHANGED <<cached, reviewed, failures>>
  BY DEF Restart
<1>2. timer \in BOOLEAN /\ notice \in BOOLEAN
  BY DEF IInv, TypeInv, PageInv, Pages
<1>3. page.list = {} /\ ~timer /\ ~notice => Done
  BY DEF IInv, StopInv, At
<1> HIDE DEF timer, notice
<1>4. page' \in Pages /\ page'.list = page.list /\ page'.timer = timer /\ page'.notice = notice
  BY <1>1, <1>2, Zenon DEF IInv, TypeInv, PageInv, Pages
<1>5. StopInv'
  BY <1>1, <1>3, <1>4 DEF StopInv, Done
<1>6. CountInv'
  BY <1>1, BoundAssumption DEF IInv, TypeInv, CountInv
<1>7. ServerInv'
  BY <1>1 DEF ServerInv, Workers, Resting
<1>8. RequestInv' /\ \A q \in Requests : request'[q] = Idle
  BY <1>1, IdleFacts DEF RequestInv
<1>9. LocalInv' /\ AnswerInv'
  BY <1>8, IdleFacts DEF LocalInv, AnswerInv, At
<1>10. KeyInv'
  BY <1>1, <1>8, IdleFacts DEF KeyInv, Owned, InQueue, AtWorker, AtRequest, At, Resting
<1> QED BY <1>1, <1>4, <1>5, <1>6, <1>7, <1>8, <1>9, <1>10 DEF IInv, TypeInv, CacheInv, PageInv

LEMMA InitHolds == Init => IInv
<1> SUFFICES ASSUME Init PROVE IInv
  OBVIOUS
<1>1. CacheInv
  BY TargetType DEF Init, CacheInv
<1>2. CountInv
  BY BoundAssumption DEF Init, CountInv
<1>3. ServerInv
  BY DEF Init, ServerInv, Workers, Resting
<1>4. RequestInv /\ \A q \in Requests : request[q] = Idle
  BY IdleFacts DEF Init, RequestInv
<1>5. LocalInv /\ AnswerInv
  BY <1>4, IdleFacts DEF LocalInv, AnswerInv, At
<1>6. KeyInv
  BY <1>4, IdleFacts DEF Init, KeyInv, Owned, InQueue, AtWorker, AtRequest, At, Resting
<1>7. PageInv /\ StopInv
  BY DEF Init, PageInv, Pages, StopInv
<1> QED BY <1>1, <1>2, <1>3, <1>4, <1>5, <1>6, <1>7 DEF IInv, TypeInv

LEMMA NextKeeps == IInv /\ [Next]_vars => IInv'
<1> SUFFICES ASSUME IInv, [Next]_vars PROVE IInv'
  OBVIOUS
<1>1. CASE UNCHANGED vars
  <2>1. CacheInv' /\ RequestInv' /\ PageInv' /\ LocalInv' /\ AnswerInv' /\ StopInv'
    BY <1>1, IdleWorkKeeps DEF vars
  <2>2. UNCHANGED server /\ UNCHANGED request
    BY <1>1 DEF vars, server
  <2>3. KeyInv'
    <3>1. /\ \A q \in Requests : At(q, "put")' <=> At(q, "put")
          /\ \A q \in Requests : At(q, "put") => Now(q)' = Now(q)
      BY <2>2 DEF At, Now
    <3> QED BY <2>2, <3>1, KeysStay DEF IInv
  <2> QED BY <1>1, <2>1, <2>3 DEF vars, server, IInv, TypeInv, CountInv, ServerInv
<1>2. ASSUME NEW q \in Requests, Poll(q) \/ Reload(q) \/ Serve(q) PROVE IInv'
  BY <1>2, StartKeeps, ReadKeeps, BootKeeps, FillKeeps, SkipKeeps, CheckKeeps, CountKeeps, QueueKeeps,
     PutKeeps, ListKeeps, AnswerKeeps DEF Serve
<1>3. CASE Submit \/ Saved
  BY <1>3, SubmitKeeps, SavedKeeps
<1>4. CASE Work
  BY <1>4, GetKeeps, LoadKeeps, LoadFailsKeeps, DiscardKeeps, RequeueKeeps, PutBackKeeps DEF Work
<1>5. CASE Restart
  BY <1>5, RestartKeeps
<1> QED BY <1>1, <1>2, <1>3, <1>4, <1>5 DEF Next

LEMMA InvHolds == Spec => []IInv
  BY InitHolds, NextKeeps, PTL DEF Spec

-------------------------------------------------------------------------------
(* Theorems *)

\* Keys, queue, worker and listings are about known runs, and no run is cached or reviewed
\* beyond its target, however many listings and the worker load it at the same time.
THEOREM TypeCorrect == Spec => []TypeOK
<1>1. IInv => TypeOK
  BY DEF IInv, TypeInv, CacheInv, CountInv, ServerInv, RequestInv, PageInv, Requested, Workers, Pages, TypeOK
<1> QED BY <1>1, InvHolds, PTL

\* queue_run_image_ensure and the worker keep one owner for each key between them: a run
\* whose key is taken is queued, loaded, or about to be queued, once.
THEOREM KeysAreTracked == Spec => []KeyIsTracked
<1>1. IInv => KeyIsTracked
  <2> SUFFICES ASSUME IInv, NEW r \in Runs
               PROVE  Cardinality(Owners(r)) = IF r \in keys THEN 1 ELSE 0
    BY DEF KeyIsTracked
  <2>1. Owned(r) /\ DOMAIN queue = 1 .. Len(queue)
    BY DEF IInv, KeyInv, TypeInv, ServerInv
  <2>2. \A x : x \in Owners(r) <=>
           \/ \E k \in 1 .. Len(queue) : queue[k] = r /\ x = <<"queue", k>>
           \/ AtWorker(r) /\ x = <<"worker">>
           \/ \E q \in Requests : AtRequest(r, q) /\ x = <<"request", q>>
    BY <2>1 DEF Owners, AtWorker, AtRequest
  <2>3. CASE r \in keys
    <3>1. PICK x : x \in Owners(r)
      BY <2>1, <2>2, <2>3 DEF Owned, InQueue
    <3>2. \A y \in Owners(r) : y = x
      BY <2>1, <2>2, <3>1 DEF Owned, InQueue
    <3>3. Owners(r) = {x}
      BY <3>1, <3>2
    <3> QED BY <2>3, <3>3, FS_Singleton
  <2>4. CASE r \notin keys
    <3>1. Owners(r) = {}
      BY <2>1, <2>2, <2>4 DEF Owned, InQueue
    <3> QED BY <2>4, <3>1, FS_EmptySet
  <2> QED BY <2>3, <2>4
<1> QED BY <1>1, InvHolds, PTL

\* A page that has stopped without a word has shown everything there was: scheduleQueueRefresh
\* polls on, or the message of applyQueueUpdate names the runs that were skipped.
THEOREM NobodyIsStranded == Spec => []NeverStranded
<1>1. IInv => NeverStranded
  BY DEF IInv, StopInv, Done, NeverStranded
<1> QED BY <1>1, InvHolds, PTL

===============================================================================
