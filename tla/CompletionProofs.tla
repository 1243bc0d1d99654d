--------------------------- MODULE CompletionProofs ---------------------------
(***************************************************************************)
(* Proofs about Completion, for any machines, workers, targets and images. *)
(***************************************************************************)
EXTENDS Completion, FiniteSetTheorems, TLAPS

-------------------------------------------------------------------------------
(* The inductive invariant *)

Labels == {"idle", "payload", "write", "mirror", "upsert", "push", "commit"}

\* A database row is well-formed, has verdicts of existing images only, and is
\* completed for good reason; what an open transaction has made of it is, too.
Sound(d) ==
    /\ d \in Rows
    /\ \A i \in Images : d.verdict[i] # "none" => i < d.selected
    /\ d.doneAt => /\ d.doneFor \in Nat
                   /\ \A i \in 0 .. d.doneFor - 1 : i \in Images /\ d.verdict[i] # "none"

\* A completion that is noted, about to be noted or read back has been in the sheet.
Seen(columns) == columns.status = "completed" => sheet.outcome # ""

DbInv == db \in [Machines -> Rows] /\ \A m \in Machines : Sound(db[m]) /\ Seen(db[m].mirror)
DraftInv == draft \in [Workers -> Rows] /\ \A w \in Workers : Sound(draft[w]) /\ Seen(draft[w].mirror)
TaskInv ==
    /\ pc \in [Workers -> Labels]
    /\ job \in [Workers -> Columns]
    /\ \A w \in Workers : /\ job[w].status = "completed" => job[w].outcome # ""
                          /\ pc[w] \in {"mirror", "upsert"} => Seen(job[w])
SheetInv == sheet \in Columns /\ Seen(sheet)
WriterInv == writer \in [Machines -> Workers \cup {Nobody}]

IInv == DbInv /\ DraftInv /\ TaskInv /\ SheetInv /\ WriterInv

\* The outcome column is never cleared.
OutcomeStays == sheet.outcome # "" => sheet'.outcome # ""

-------------------------------------------------------------------------------
(* Counting verdicts *)

\* There are finitely many images below a bound, and their numbers are numbers.
LEMMA CountType ==
    ASSUME NEW d, NEW n
    PROVE  /\ Cardinality(Below(d, n)) \in Nat
           /\ Cardinality(Reviewed(d, n)) \in Nat
           /\ Cardinality(Failed(d, n)) \in Nat
<1>1. IsFiniteSet(Images)
  <2>1. MaxImages \in Nat
    BY BoundAssumption
  <2>2. 0 \in Int /\ MaxImages - 1 \in Int
    BY <2>1
  <2> QED BY <2>2, FS_Interval DEF Images
<1>2. Below(d, n) \subseteq Images /\ Reviewed(d, n) \subseteq Images /\ Failed(d, n) \subseteq Images
  BY DEF Below, Reviewed, Failed
<1> QED BY <1>1, <1>2, FS_Subset, FS_CardinalityType

\* A target is at least 1.
LEMMA TargetType == ASSUME NEW d \in Rows PROVE Target(d) \in Nat \ {0}
  BY BoundAssumption DEF Target, Or, Rows

\* When a run has as many verdicts below its target as the target asks for, every
\* image below the target has one: counting distinct rows is enough.
LEMMA EarnedCovers ==
    ASSUME NEW d \in Rows, Earned(d), NEW i \in 0 .. Target(d) - 1
    PROVE  i \in Images /\ d.verdict[i] # "none"
<1> DEFINE n == Target(d)
           R == Reviewed(d, n)
<1>1. n \in Nat
  BY TargetType
<1>2. IsFiniteSet(0 .. n - 1) /\ Cardinality(0 .. n - 1) = n
  BY <1>1, FS_Interval, 0 \in Int, n - 1 \in Int
<1>3. R \subseteq 0 .. n - 1
  BY <1>1 DEF Reviewed, Below, Images
<1>4. Cardinality(R) >= n
  BY DEF Earned
<1>5. IsFiniteSet(R) /\ Cardinality(R) \in Nat
  BY <1>2, <1>3, FS_Subset, FS_CardinalityType
<1>6. R = 0 .. n - 1
  <2>1. Cardinality(R) <= Cardinality(0 .. n - 1)
        /\ (Cardinality(R) = Cardinality(0 .. n - 1) => R = 0 .. n - 1)
    BY <1>2, <1>3, FS_Subset
  <2> QED BY <1>1, <1>2, <1>4, <1>5, <2>1
<1> QED BY <1>6 DEF Reviewed, Below

\* Completing a run with an earned completion leaves a sound row.
LEMMA CompletedSound ==
    ASSUME NEW d, Sound(d), Earned(d)
    PROVE  Sound(Completed(d)) /\ Completed(d).mirror = d.mirror
<1>1. Target(d) \in Nat /\ \A i \in 0 .. Target(d) - 1 : i \in Images /\ d.verdict[i] # "none"
  BY TargetType, EarnedCovers DEF Sound
<1>2. Completed(d) \in Rows
  BY <1>1 DEF Sound, Completed, Rows
<1>3. /\ Completed(d).doneFor = Target(d) /\ Completed(d).verdict = d.verdict
      /\ Completed(d).selected = d.selected /\ Completed(d).mirror = d.mirror
  BY DEF Sound, Completed, Rows
<1> QED BY <1>1, <1>2, <1>3 DEF Sound

\* A payload is a completion with an outcome.
LEMMA PayloadType ==
    ASSUME NEW d
    PROVE  Payload(d) \in Columns /\ Payload(d).status = "completed" /\ Payload(d).outcome # ""
<1> DEFINE n == IF d.doneFor = Null THEN d.target ELSE d.doneFor
<1>1. Cardinality(Reviewed(d, n)) \in Nat /\ Cardinality(Failed(d, n)) \in Nat
  BY CountType
<1> HIDE DEF n
<1>2. \A f, r \in Nat : Outcome(f, r) \in {"approved", "retry"}
  BY DEF Outcome
<1> QED BY <1>1, <1>2 DEF Payload, Blank, Columns, n

\* Columns stay columns when they are updated.
LEMMA UpdateType ==
    ASSUME NEW c \in Columns, NEW new \in Columns
    PROVE  /\ Update(c, new) \in Columns
           /\ Update(c, new).outcome \in {c.outcome, new.outcome}
           /\ new.status = "completed" => Update(c, new).outcome = new.outcome
           /\ new.status # "completed" => Update(c, new).outcome = c.outcome
  BY DEF Update, Columns

\* Verdicts of existing images leave a sound row.
LEMMA MarkedSound ==
    ASSUME NEW d, Sound(d), NEW S \in Markable(d), NEW v \in [S -> Verdicts]
    PROVE  Sound(Marked(d, S, v)) /\ Marked(d, S, v).mirror = d.mirror
<1> DEFINE e == Marked(d, S, v)
<1>1. S \subseteq Images /\ \A i \in S : i < d.selected
  BY DEF Markable, Below
<1>2. /\ e.selected = d.selected /\ e.doneAt = d.doneAt /\ e.doneFor = d.doneFor
      /\ e.mirror = d.mirror /\ e.target = d.target
      /\ e.verdict = [i \in Images |-> IF i \in S THEN v[i] ELSE d.verdict[i]]
  BY DEF Marked, Sound, Rows
<1>3. e \in Rows
  <2>1. e.verdict \in [Images -> Verdicts \cup {"none"}]
    BY <1>2 DEF Sound, Rows
  <2> QED BY <2>1 DEF Marked, Sound, Rows
<1>4. \A i \in Images : d.verdict[i] # "none" => e.verdict[i] # "none"
  BY <1>2 DEF Verdicts
<1>5. ASSUME NEW i \in Images, e.verdict[i] # "none" PROVE i < e.selected
  BY <1>1, <1>2, <1>5 DEF Sound
<1>6. ASSUME e.doneAt
      PROVE  /\ e.doneFor \in Nat
             /\ \A i \in 0 .. e.doneFor - 1 : i \in Images /\ e.verdict[i] # "none"
  BY <1>2, <1>4, <1>6 DEF Sound
<1> HIDE DEF e
<1> QED BY <1>2, <1>3, <1>5, <1>6 DEF Sound, e

\* Replacing the mirror and nothing else leaves a sound row.
LEMMA MirroredSound ==
    ASSUME NEW d, Sound(d), NEW c \in Columns
    PROVE  Sound([d EXCEPT !.mirror = c]) /\ [d EXCEPT !.mirror = c].mirror = c
<1> DEFINE e == [d EXCEPT !.mirror = c]
<1>1. e \in Rows /\ e.mirror = c /\ e.verdict = d.verdict /\ e.selected = d.selected
      /\ e.doneAt = d.doneAt /\ e.doneFor = d.doneFor
  BY DEF Sound, Rows
<1> HIDE DEF e
<1>2. Sound(e)
  BY <1>1 DEF Sound
<1> QED BY <1>1, <1>2 DEF e

\* So does what a sync makes of a row: it may take the completion back.
LEMMA SyncedSound ==
    ASSUME NEW d, Sound(d), NEW c \in Columns, NEW moved \in BOOLEAN
    PROVE  LET e == [d EXCEPT !.mirror = c, !.doneAt = @ /\ ~moved,
                              !.doneFor = IF moved THEN Null ELSE @]
           IN  Sound(e) /\ e.mirror = c
<1> DEFINE e == [d EXCEPT !.mirror = c, !.doneAt = @ /\ ~moved,
                          !.doneFor = IF moved THEN Null ELSE @]
<1>1. e \in Rows /\ e.mirror = c /\ e.verdict = d.verdict /\ e.selected = d.selected
      /\ e.doneAt = (d.doneAt /\ ~moved) /\ (~moved => e.doneFor = d.doneFor)
  BY DEF Sound, Rows
<1> HIDE DEF e
<1>2. Sound(e)
  BY <1>1 DEF Sound
<1> QED BY <1>1, <1>2 DEF e

\* An unused draft and a new row are sound, and claim no completion.
LEMMA FreshSound == Sound(Fresh) /\ Fresh.mirror = Blank /\ Blank \in Columns
<1>1. MaxImages \in Nat /\ DefaultCount \in Nat
  BY BoundAssumption
<1>2. Blank \in Columns
  BY DEF Blank, Columns
<1>3. Fresh \in Rows
  BY <1>1, <1>2 DEF Fresh, Rows
<1>4. Fresh.doneAt = FALSE /\ Fresh.mirror = Blank /\ \A i \in Images : Fresh.verdict[i] = "none"
  BY DEF Fresh
<1> QED BY <1>2, <1>3, <1>4 DEF Sound

-------------------------------------------------------------------------------
(* What the parts of a step keep *)

LEMMA CommitKeeps ==
    ASSUME DbInv, NEW m \in Machines, NEW d, Sound(d), Seen(d.mirror), Commit(m, d), OutcomeStays
    PROVE  DbInv'
<1>1. d \in Rows
  BY DEF Sound
<1>2. db' \in [Machines -> Rows]
  BY <1>1 DEF DbInv, Commit
<1>3. ASSUME NEW k \in Machines PROVE (Sound(db[k]) /\ Seen(db[k].mirror))'
  <2>1. CASE k = m
    <3>1. db'[k] = d
      BY <2>1 DEF DbInv, Commit
    <3> QED BY <3>1 DEF Sound, Seen, OutcomeStays
  <2>2. CASE k # m
    <3>1. db'[k] = db[k]
      BY <2>2 DEF DbInv, Commit
    <3> QED BY <3>1 DEF DbInv, Sound, Seen, OutcomeStays
  <2> QED BY <2>1, <2>2
<1> QED BY <1>2, <1>3 DEF DbInv

LEMMA DbStays == ASSUME DbInv, UNCHANGED db, OutcomeStays PROVE DbInv'
  BY DEF DbInv, Sound, Seen, OutcomeStays

LEMMA DraftStays == ASSUME DraftInv, UNCHANGED draft, OutcomeStays PROVE DraftInv'
  BY DEF DraftInv, Sound, Seen, OutcomeStays

LEMMA TaskStays == ASSUME TaskInv, UNCHANGED <<pc, job>>, OutcomeStays PROVE TaskInv'
  BY DEF TaskInv, Seen, OutcomeStays

LEMMA DraftKeeps ==
    ASSUME DraftInv, NEW w \in Workers, NEW d, Sound(d), Seen(d.mirror)',
           draft' = [draft EXCEPT ![w] = d], OutcomeStays
    PROVE  DraftInv'
<1>1. d \in Rows
  BY DEF Sound
<1>2. draft' \in [Workers -> Rows]
  BY <1>1 DEF DraftInv
<1>3. ASSUME NEW u \in Workers PROVE (Sound(draft[u]) /\ Seen(draft[u].mirror))'
  <2>1. CASE u = w
    <3>1. draft'[u] = d
      BY <2>1 DEF DraftInv
    <3> QED BY <3>1 DEF Sound, Seen
  <2>2. CASE u # w
    <3>1. draft'[u] = draft[u]
      BY <2>2 DEF DraftInv
    <3> QED BY <3>1 DEF DraftInv, Sound, Seen, OutcomeStays
  <2> QED BY <2>1, <2>2
<1> QED BY <1>2, <1>3 DEF DraftInv

LEMMA TaskKeeps ==
    ASSUME TaskInv, NEW w \in Workers, NEW c \in Columns, NEW label \in Labels,
           c.status = "completed" => c.outcome # "",
           label \in {"mirror", "upsert"} => Seen(c)',
           job' = [job EXCEPT ![w] = c], Goto(w, label), OutcomeStays
    PROVE  TaskInv'
<1>1. pc' \in [Workers -> Labels] /\ job' \in [Workers -> Columns]
  BY DEF TaskInv, Goto
<1>2. ASSUME NEW u \in Workers
      PROVE  (/\ job[u].status = "completed" => job[u].outcome # ""
              /\ pc[u] \in {"mirror", "upsert"} => Seen(job[u]))'
  <2>1. CASE u = w
    <3>1. job'[u] = c /\ pc'[u] = label
      BY <2>1 DEF TaskInv, Goto
    <3> QED BY <3>1 DEF Seen
  <2>2. CASE u # w
    <3>1. job'[u] = job[u] /\ pc'[u] = pc[u]
      BY <2>2 DEF TaskInv, Goto
    <3> QED BY <3>1 DEF TaskInv, Seen, OutcomeStays
  <2> QED BY <2>1, <2>2
<1> QED BY <1>1, <1>2 DEF TaskInv

LEMMA FinishKeeps ==
    ASSUME TaskInv, DraftInv, NEW w \in Workers, Finish(w), OutcomeStays
    PROVE  TaskInv' /\ DraftInv'
<1>1. Blank.status # "completed" /\ "idle" \in Labels
  BY DEF Blank, Labels
<1>2. TaskInv'
  BY <1>1, FreshSound, TaskKeeps DEF Finish
<1>3. Seen(Fresh.mirror)'
  BY <1>1, FreshSound DEF Seen
<1>4. DraftInv'
  BY <1>3, FreshSound, DraftKeeps DEF Finish
<1> QED BY <1>2, <1>4

\* Whatever a worker sends to the sheet, an outcome stays there and a completion has one.
LEMMA UpdateKeeps ==
    ASSUME SheetInv, NEW c \in Columns, c.status = "completed" => c.outcome # "",
           sheet' \in {sheet, Update(sheet, c)}
    PROVE  SheetInv' /\ OutcomeStays
<1>1. CASE sheet' = sheet
  BY <1>1 DEF SheetInv, OutcomeStays, Seen
<1>2. CASE sheet' = Update(sheet, c)
  <2>1. sheet' \in Columns /\ (sheet'.outcome = c.outcome \/ sheet'.outcome = sheet.outcome)
    BY <1>2, UpdateType DEF SheetInv
  <2>2. CASE c.status = "completed"
    BY <1>2, <2>1, <2>2, UpdateType DEF SheetInv, OutcomeStays, Seen
  <2>3. CASE c.status # "completed"
    <3>1. sheet'.outcome = sheet.outcome /\ sheet'.status = "in_progress"
      BY <1>2, <2>3, UpdateType DEF SheetInv, Update, Columns
    <3> QED BY <2>1, <3>1 DEF SheetInv, OutcomeStays, Seen
  <2> QED BY <2>2, <2>3
<1> QED BY <1>1, <1>2

-------------------------------------------------------------------------------
(* Every step keeps the invariant *)

LEMMA InitHolds == Init => IInv
<1> SUFFICES ASSUME Init PROVE IInv
  OBVIOUS
<1>1. Blank.status = "" /\ "idle" \in Labels
  BY DEF Blank, Labels
<1>2. DbInv
  BY <1>1, FreshSound DEF Init, DbInv, Sound, Seen
<1>3. DraftInv
  BY <1>1, FreshSound DEF Init, DraftInv, Sound, Seen
<1>4. TaskInv
  BY <1>1, FreshSound DEF Init, TaskInv, Seen
<1>5. SheetInv
  <2>1. PICK v \in Validations : sheet = [Blank EXCEPT !.validation = v]
    BY DEF Init
  <2>2. Validations \subseteq {"", "approved", "retry"}
    BY BoundAssumption
  <2> QED BY <2>1, <2>2 DEF SheetInv, Seen, Blank, Columns
<1>6. WriterInv
  BY DEF Init, WriterInv
<1> QED BY <1>2, <1>3, <1>4, <1>5, <1>6 DEF IInv

LEMMA SubmitKeeps == ASSUME IInv, NEW w \in Workers, Home[w] \in Machines, Submit(w) PROVE IInv'
<1> DEFINE m == Home[w]
<1>1. OutcomeStays /\ UNCHANGED <<sheet, writer, draft>> /\ "write" \in Labels
  BY DEF Submit, OutcomeStays, Labels
<1> DEFINE Stored(d) ==
             IF MayComplete(d)
             THEN /\ Commit(m, Completed(d))
                  /\ job' = [job EXCEPT ![w] = Payload(Completed(d))]
             ELSE Commit(m, d) /\ job' = [job EXCEPT ![w] = Progress]
<1>2. PICK S \in Markable(db[m]) : \E v \in [S -> Verdicts] : Stored(Marked(db[m], S, v))
  BY DEF Submit
<1>3. PICK v \in [S -> Verdicts] : Stored(Marked(db[m], S, v))
  BY <1>2
<1> DEFINE d == Marked(db[m], S, v)
<1>4. Sound(d) /\ Seen(d.mirror)
  BY MarkedSound DEF IInv, DbInv
<1>5. DraftInv' /\ SheetInv' /\ WriterInv'
  BY <1>1, DraftStays DEF IInv, SheetInv, Seen, WriterInv
<1>6. CASE MayComplete(d)
  <2>1. Commit(m, Completed(d)) /\ job' = [job EXCEPT ![w] = Payload(Completed(d))]
    BY <1>3, <1>6
  <2>2. Sound(Completed(d)) /\ Completed(d).mirror = d.mirror
    BY <1>4, <1>6, CompletedSound DEF MayComplete
  <2>3. DbInv'
    BY <1>1, <1>4, <2>1, <2>2, CommitKeeps DEF IInv
  <2>4. TaskInv'
    BY <1>1, <2>1, PayloadType, TaskKeeps DEF Submit, IInv
  <2> QED BY <1>5, <2>3, <2>4 DEF IInv
<1>7. CASE ~MayComplete(d)
  <2>1. Commit(m, d) /\ job' = [job EXCEPT ![w] = Progress]
    BY <1>3, <1>7
  <2>2. Progress \in Columns /\ Progress.status = "in_progress"
    BY DEF Progress, Blank, Columns
  <2>3. DbInv'
    BY <1>1, <1>4, <2>1, CommitKeeps DEF IInv
  <2>4. TaskInv'
    BY <1>1, <2>1, <2>2, TaskKeeps DEF Submit, IInv
  <2> QED BY <1>5, <2>3, <2>4 DEF IInv
<1> QED BY <1>6, <1>7

LEMMA CompleteRunKeeps ==
    ASSUME IInv, NEW w \in Workers, Home[w] \in Machines, CompleteRun(w) PROVE IInv'
<1>1. OutcomeStays /\ UNCHANGED <<sheet, writer, job, draft>> /\ "payload" \in Labels
  BY DEF CompleteRun, OutcomeStays, Labels
<1>2. Sound(Completed(db[Home[w]])) /\ Seen(Completed(db[Home[w]]).mirror)
  BY CompletedSound DEF CompleteRun, IInv, DbInv
<1>3. DbInv'
  BY <1>1, <1>2, CommitKeeps DEF CompleteRun, IInv
<1>4. TaskInv'
  <2>1. job' = [job EXCEPT ![w] = job[w]] /\ job[w] \in Columns
        /\ (job[w].status = "completed" => job[w].outcome # "")
    BY <1>1 DEF IInv, TaskInv
  <2> QED BY <1>1, <2>1, TaskKeeps DEF CompleteRun, IInv
<1>5. DraftInv' /\ SheetInv' /\ WriterInv'
  BY <1>1, DraftStays DEF IInv, SheetInv, Seen, WriterInv
<1> QED BY <1>3, <1>4, <1>5 DEF IInv

LEMMA ReadPayloadKeeps == ASSUME IInv, NEW w \in Workers, ReadPayload(w) PROVE IInv'
<1>1. OutcomeStays /\ UNCHANGED <<db, sheet, writer, draft>> /\ "write" \in Labels
  BY DEF ReadPayload, OutcomeStays, Labels
<1>2. TaskInv'
  BY <1>1, PayloadType, TaskKeeps DEF ReadPayload, IInv
<1>3. DbInv' /\ DraftInv' /\ SheetInv' /\ WriterInv'
  BY <1>1, DbStays, DraftStays DEF IInv, SheetInv, Seen, WriterInv
<1> QED BY <1>2, <1>3 DEF IInv

LEMMA WriteSheetKeeps == ASSUME IInv, NEW w \in Workers, WriteSheet(w) PROVE IInv'
<1>1. UNCHANGED <<db, writer>> /\ sheet' \in {sheet, Update(sheet, job[w])} /\ "mirror" \in Labels
  BY DEF WriteSheet, Labels
<1>2. job[w] \in Columns /\ (job[w].status = "completed" => job[w].outcome # "")
  BY DEF IInv, TaskInv
<1>3. SheetInv' /\ OutcomeStays
  BY <1>1, <1>2, UpdateKeeps DEF IInv
<1>4. DbInv' /\ WriterInv'
  BY <1>1, <1>3, DbStays DEF IInv, WriterInv
<1>5. CASE Finish(w)
  BY <1>3, <1>4, <1>5, FinishKeeps DEF IInv
<1>6. CASE /\ sheet' = Update(sheet, job[w]) /\ job[w].status = "completed"
           /\ Goto(w, "mirror") /\ UNCHANGED <<job, draft>>
  <2>1. job' = [job EXCEPT ![w] = job[w]]
    BY <1>6 DEF IInv, TaskInv
  <2>2. Seen(job[w])'
    BY <1>2, <1>6, UpdateType DEF Seen, IInv, SheetInv
  <2>3. TaskInv'
    BY <1>1, <1>2, <1>3, <1>6, <2>1, <2>2, TaskKeeps DEF IInv
  <2>4. DraftInv'
    BY <1>3, <1>6, DraftStays DEF IInv
  <2> QED BY <1>3, <1>4, <2>3, <2>4 DEF IInv
<1> QED BY <1>5, <1>6 DEF WriteSheet

LEMMA MirrorKeeps ==
    ASSUME IInv, NEW w \in Workers, Home[w] \in Machines, Mirror(w) PROVE IInv'
<1> DEFINE d == db[Home[w]]
           c == Update(d.mirror, job[w])
<1>1. OutcomeStays /\ UNCHANGED <<sheet, writer>>
  BY DEF Mirror, OutcomeStays
<1>2. Sound(d) /\ d.mirror \in Columns /\ job[w] \in Columns /\ Seen(job[w])
  BY DEF IInv, DbInv, TaskInv, Sound, Rows, Mirror
<1>3. c \in Columns /\ Seen(c)
  BY <1>2, UpdateType DEF Update, Seen, Columns
<1>4. Commit(Home[w], [d EXCEPT !.mirror = c])
  BY DEF Mirror
<1>5. Sound([d EXCEPT !.mirror = c]) /\ Seen([d EXCEPT !.mirror = c].mirror)
  BY <1>2, <1>3, MirroredSound
<1>6. DbInv'
  BY <1>1, <1>4, <1>5, CommitKeeps DEF IInv
<1>7. TaskInv' /\ DraftInv'
  BY <1>1, FinishKeeps DEF Mirror, IInv
<1> QED BY <1>1, <1>6, <1>7 DEF IInv, SheetInv, Seen, WriterInv

LEMMA SyncFetchKeeps == ASSUME IInv, NEW w \in Workers, SyncFetch(w) PROVE IInv'
<1>1. OutcomeStays /\ UNCHANGED <<db, sheet, writer, draft>> /\ "upsert" \in Labels
  BY DEF SyncFetch, OutcomeStays, Labels
<1>2. PICK c \in {sheet, Blank} : job' = [job EXCEPT ![w] = c]
  BY DEF SyncFetch
<1>3. c \in Columns /\ (c.status = "completed" => c.outcome # "") /\ Seen(c)'
  <2>1. CASE c = sheet
    BY <1>1, <2>1 DEF IInv, SheetInv, Seen
  <2>2. CASE c = Blank
    <3>1. c \in Columns /\ c.status = ""
      BY <2>2, FreshSound DEF Blank
    <3> QED BY <3>1 DEF Seen
  <2> QED BY <2>1, <2>2
<1>4. TaskInv'
  BY <1>1, <1>2, <1>3, TaskKeeps DEF SyncFetch, IInv
<1>5. DbInv' /\ DraftInv' /\ SheetInv' /\ WriterInv'
  BY <1>1, DbStays, DraftStays DEF IInv, SheetInv, Seen, WriterInv
<1> QED BY <1>4, <1>5 DEF IInv

LEMMA SyncUpsertKeeps ==
    ASSUME IInv, NEW w \in Workers, Home[w] \in Machines, SyncUpsert(w) PROVE IInv'
<1> DEFINE m == Home[w]
           E(moved) == [db[m] EXCEPT !.mirror = job[w], !.doneAt = @ /\ ~moved,
                                     !.doneFor = IF moved THEN Null ELSE @]
<1>1. /\ OutcomeStays /\ UNCHANGED <<db, sheet, job>> /\ "push" \in Labels
      /\ writer' = [writer EXCEPT ![m] = w]
  BY DEF SyncUpsert, OutcomeStays, Labels
<1>2. PICK moved \in {FALSE, TarMoves} : draft' = [draft EXCEPT ![w] = E(moved)]
  BY DEF SyncUpsert
<1>3. moved \in BOOLEAN
  BY BoundAssumption
<1>4. Sound(db[m]) /\ job[w] \in Columns /\ Seen(job[w])
  BY DEF IInv, DbInv, TaskInv, SyncUpsert
<1>5. Sound(E(moved)) /\ E(moved).mirror = job[w]
  BY <1>3, <1>4, SyncedSound
<1>6. E(moved).mirror.status = "completed" => sheet'.outcome # ""
  BY <1>1, <1>4, <1>5 DEF Seen
<1> HIDE DEF E
<1>7. DraftInv'
  BY <1>1, <1>2, <1>5, <1>6, DraftKeeps DEF IInv, Seen
<1>8. TaskInv'
  <2>1. job' = [job EXCEPT ![w] = job[w]] /\ (job[w].status = "completed" => job[w].outcome # "")
    BY <1>1 DEF IInv, TaskInv
  <2> QED BY <1>1, <1>4, <2>1, TaskKeeps DEF SyncUpsert, IInv
<1>9. DbInv' /\ SheetInv' /\ WriterInv'
  BY <1>1, DbStays DEF IInv, SheetInv, Seen, WriterInv
<1> QED BY <1>7, <1>8, <1>9 DEF IInv

LEMMA SyncUnlistedKeeps ==
    ASSUME IInv, NEW w \in Workers, Home[w] \in Machines, SyncUnlisted(w) PROVE IInv'
<1>1. /\ OutcomeStays /\ UNCHANGED <<db, sheet, job>> /\ "push" \in Labels
      /\ writer' = [writer EXCEPT ![Home[w]] = w] /\ draft' = [draft EXCEPT ![w] = db[Home[w]]]
  BY DEF SyncUnlisted, OutcomeStays, Labels
<1>2. DraftInv'
  <2>1. Sound(db[Home[w]]) /\ Seen(db[Home[w]].mirror)'
    BY <1>1 DEF IInv, DbInv, Seen
  <2> QED BY <1>1, <2>1, DraftKeeps DEF IInv
<1>3. TaskInv'
  <2>1. job' = [job EXCEPT ![w] = job[w]] /\ job[w] \in Columns
        /\ (job[w].status = "completed" => job[w].outcome # "")
    BY <1>1 DEF IInv, TaskInv
  <2> QED BY <1>1, <2>1, TaskKeeps DEF SyncUnlisted, IInv
<1>4. DbInv' /\ SheetInv' /\ WriterInv'
  BY <1>1, DbStays DEF IInv, SheetInv, Seen, WriterInv
<1> QED BY <1>2, <1>3, <1>4 DEF IInv

LEMMA SyncPushKeeps == ASSUME IInv, NEW w \in Workers, SyncPush(w) PROVE IInv'
<1> DEFINE d == draft[w]
           p == Payload(d)
           c == Update(d.mirror, p)
<1>1. UNCHANGED <<db, writer>> /\ job' = [job EXCEPT ![w] = Blank] /\ Goto(w, "commit")
  BY DEF SyncPush
<1>2. p \in Columns /\ p.status = "completed" /\ p.outcome # ""
  BY PayloadType
<1>3. Sound(d) /\ d.mirror \in Columns /\ draft \in [Workers -> Rows]
  BY DEF IInv, DraftInv, Sound, Rows
<1>4. sheet' \in {sheet, Update(sheet, p)}
  BY DEF SyncPush
<1> HIDE DEF p
<1>5. SheetInv' /\ OutcomeStays
  BY <1>2, <1>4, UpdateKeeps DEF IInv
<1>6. TaskInv'
  <2>1. "commit" \in Labels /\ Blank.status # "completed"
    BY DEF Labels, Blank
  <2> QED BY <1>1, <1>5, <2>1, FreshSound, TaskKeeps DEF IInv
<1>7. ASSUME UNCHANGED draft PROVE DraftInv'
  BY <1>5, <1>7, DraftStays DEF IInv
<1>8. ASSUME sheet' = Update(sheet, p) /\ draft' = [draft EXCEPT ![w] = [d EXCEPT !.mirror = c]]
      PROVE  DraftInv'
  <2>1. c \in Columns
    BY <1>2, <1>3, UpdateType
  <2>2. Sound([d EXCEPT !.mirror = c])
    BY <1>3, <2>1, MirroredSound
  <2>3. sheet'.outcome # ""
    BY <1>2, <1>8, UpdateType DEF IInv, SheetInv
  <2> QED BY <1>5, <1>8, <2>2, <2>3, DraftKeeps DEF IInv, Seen
<1>9. UNCHANGED draft \/ (sheet' = Update(sheet, p) /\ draft' = [draft EXCEPT ![w] = [d EXCEPT !.mirror = c]])
  BY <1>3 DEF SyncPush, p
<1>10. DbInv' /\ WriterInv'
  BY <1>1, <1>5, DbStays DEF IInv, WriterInv
<1> QED BY <1>5, <1>6, <1>7, <1>8, <1>9, <1>10 DEF IInv

LEMMA SyncCommitKeeps ==
    ASSUME IInv, NEW w \in Workers, Home[w] \in Machines, SyncCommit(w) PROVE IInv'
<1>1. OutcomeStays /\ UNCHANGED sheet /\ Commit(Home[w], draft[w])
  BY DEF SyncCommit, OutcomeStays
<1>2. DbInv'
  BY <1>1, CommitKeeps DEF IInv, DraftInv
<1>3. TaskInv' /\ DraftInv'
  BY <1>1, FinishKeeps DEF SyncCommit, IInv
<1>4. SheetInv' /\ WriterInv'
  BY <1>1 DEF SyncCommit, IInv, SheetInv, Seen, WriterInv
<1> QED BY <1>2, <1>3, <1>4 DEF IInv

LEMMA AbandonKeeps == ASSUME IInv, NEW w \in Workers, Abandon(w) PROVE IInv'
<1>1. OutcomeStays /\ UNCHANGED <<db, sheet>>
  BY DEF Abandon, OutcomeStays
<1>2. TaskInv' /\ DraftInv'
  BY <1>1, FinishKeeps DEF Abandon, IInv
<1>3. DbInv' /\ SheetInv' /\ WriterInv'
  BY <1>1, DbStays DEF Abandon, IInv, SheetInv, Seen, WriterInv
<1> QED BY <1>2, <1>3 DEF IInv

\* Steps of a machine that touch its database row only.
LEMMA RowKeeps ==
    ASSUME IInv, NEW m \in Machines, NEW d, Sound(d), d.mirror = db[m].mirror,
           Commit(m, d), UNCHANGED <<sheet, writer, pc, job, draft>>
    PROVE  IInv'
<1>1. OutcomeStays /\ Seen(d.mirror)
  BY DEF OutcomeStays, IInv, DbInv
<1>2. DbInv' /\ TaskInv' /\ DraftInv'
  BY <1>1, CommitKeeps, TaskStays, DraftStays DEF IInv
<1> QED BY <1>2 DEF IInv, SheetInv, Seen, WriterInv

LEMMA SaveKeeps == ASSUME IInv, NEW m \in Machines, Save(m) PROVE IInv'
<1>1. PICK S \in Markable(db[m]) : \E v \in [S -> Verdicts] : Commit(m, Marked(db[m], S, v))
  BY DEF Save
<1>2. PICK v \in [S -> Verdicts] : Commit(m, Marked(db[m], S, v))
  BY <1>1
<1>3. Sound(Marked(db[m], S, v)) /\ Marked(db[m], S, v).mirror = db[m].mirror
  BY MarkedSound DEF IInv, DbInv
<1> QED BY <1>2, <1>3, RowKeeps DEF Save

LEMMA PickKeeps == ASSUME IInv, NEW m \in Machines, Pick(m) PROVE IInv'
<1> DEFINE e == [db[m] EXCEPT !.selected = @ + 1]
<1>1. Sound(db[m]) /\ MaxImages \in Nat
  BY BoundAssumption DEF IInv, DbInv
<1>2. /\ e \in Rows /\ e.selected = db[m].selected + 1 /\ e.verdict = db[m].verdict
      /\ e.doneAt = db[m].doneAt /\ e.doneFor = db[m].doneFor /\ e.mirror = db[m].mirror
  BY <1>1 DEF Sound, Rows, Pick
<1>3. Commit(m, e) /\ UNCHANGED <<sheet, writer, pc, job, draft>>
  BY DEF Pick
<1> HIDE DEF e
<1>4. ASSUME NEW i \in Images, e.verdict[i] # "none" PROVE i < e.selected
  BY <1>1, <1>2, <1>4 DEF Sound, Rows, Images
<1>5. Sound(e)
  BY <1>1, <1>2, <1>4 DEF Sound
<1> QED BY <1>2, <1>3, <1>5, RowKeeps

LEMMA RetargetKeeps == ASSUME IInv, NEW m \in Machines, Retarget(m) PROVE IInv'
<1>1. PICK n \in Targets : Commit(m, [db[m] EXCEPT !.target = n])
  BY DEF Retarget
<1> DEFINE e == [db[m] EXCEPT !.target = n]
<1>2. Sound(db[m]) /\ n \in Nat
  BY BoundAssumption DEF IInv, DbInv
<1>3. /\ e \in Rows /\ e.selected = db[m].selected /\ e.verdict = db[m].verdict
      /\ e.doneAt = db[m].doneAt /\ e.doneFor = db[m].doneFor /\ e.mirror = db[m].mirror
  BY <1>2 DEF Sound, Rows
<1> HIDE DEF e
<1>4. Sound(e)
  BY <1>2, <1>3 DEF Sound
<1> QED BY <1>1, <1>3, <1>4, RowKeeps DEF Retarget, e

-------------------------------------------------------------------------------
(* The theorems *)

LEMMA IInvHolds == Spec => []IInv
<1>1. ASSUME IInv, [Next]_vars PROVE IInv'
  <2>1. \A w \in Workers : Home[w] \in Machines
    BY WorkerAssumption
  <2>2. ASSUME NEW w \in Workers, Request(w) PROVE IInv'
    BY <1>1, <2>1, <2>2, SubmitKeeps, CompleteRunKeeps, ReadPayloadKeeps, WriteSheetKeeps,
       MirrorKeeps DEF Request
  <2>3. ASSUME NEW w \in Workers, Sync(w) PROVE IInv'
    BY <1>1, <2>1, <2>3, SyncFetchKeeps, SyncUpsertKeeps, SyncUnlistedKeeps, SyncPushKeeps,
       SyncCommitKeeps DEF Sync
  <2>4. ASSUME NEW w \in Workers, Abandon(w) PROVE IInv'
    BY <1>1, <2>4, AbandonKeeps
  <2>5. ASSUME NEW m \in Machines, Save(m) \/ Pick(m) \/ Retarget(m) PROVE IInv'
    BY <1>1, <2>5, SaveKeeps, PickKeeps, RetargetKeeps
  <2>6. CASE UNCHANGED vars
    <3>1. OutcomeStays
      BY <2>6 DEF vars, OutcomeStays
    <3>2. DbInv' /\ TaskInv' /\ DraftInv'
      BY <1>1, <2>6, <3>1, DbStays, TaskStays, DraftStays DEF vars, IInv
    <3> QED BY <1>1, <2>6, <3>2 DEF vars, IInv, SheetInv, Seen, WriterInv
  <2> QED BY <1>1, <2>2, <2>3, <2>4, <2>5, <2>6 DEF Next
<1> QED BY <1>1, InitHolds, PTL DEF Spec

\* Databases, sheet and tasks always have values of their types, and a verdict is always
\* about an image of the run: submit_validations looks the image up first.
THEOREM TypeCorrect == Spec => []TypeOK
<1>1. IInv => TypeOK
  BY DEF IInv, DbInv, DraftInv, TaskInv, SheetInv, WriterInv, Sound, Labels, TypeOK
<1> QED BY <1>1, IInvHolds, PTL

\* _run_validation_progress counts joined rows, and no sync, retarget or pick makes a
\* completion wrong: every image below validation_target_count has a verdict.
THEOREM CompletionsAreEarned == Spec => []CompletionIsEarned
<1>1. IInv => CompletionIsEarned
  BY DEF IInv, DbInv, Sound, CompletionIsEarned
<1> QED BY <1>1, IInvHolds, PTL

\* The columns mirrored in the database say "completed" only of a run whose completion
\* reached the sheet, on whichever machine, over failed writes, lost tasks and reordered ones.
THEOREM MirrorsFollowTheSheet == Spec => []MirrorFollowsSheet
<1>1. IInv => MirrorFollowsSheet
  BY DEF IInv, DbInv, Seen, MirrorFollowsSheet
<1> QED BY <1>1, IInvHolds, PTL
===============================================================================
