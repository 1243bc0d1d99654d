------------------------- MODULE CompletionSheetProofs -------------------------
(***************************************************************************)
(* Proofs about Completion and the sheet: what the sheet says is true, and *)
(* what it has resolved stays so.  For any machines, workers and images.   *)
(***************************************************************************)
EXTENDS CompletionProofs

-------------------------------------------------------------------------------
(* The inductive invariants, beside IInv of CompletionProofs *)

\* An open transaction of a sync has the machine to itself.
OpenInv == \A w \in Workers : pc[w] \in {"push", "commit"} => writer[Home[w]] = w

\* While tars stay it has changed the mirror of the run and nothing else.
SameBut(d, e) == d.verdict = e.verdict /\ d.doneAt = e.doneAt /\ d.doneFor = e.doneFor
LockInv ==
    \A w \in Workers : pc[w] \in {"push", "commit"} =>
        writer[Home[w]] = w /\ SameBut(draft[w], db[Home[w]])

\* What a completion says, of one database row.
Holds(d, c) ==
    LET n == c.reviewed IN
    /\ n > 0 /\ \A i \in 0 .. n - 1 : i \in Images /\ d.verdict[i] # "none"
    /\ c.failed = Cardinality({i \in 0 .. n - 1 : d.verdict[i] = "fail"})
    /\ c.outcome = Outcome(c.failed, n)

\* A completion that is said, or about to be said, is true of a machine; a completed run
\* has a target, and stays completed.
Told(D, c) == c.status = "completed" => \E m \in Machines : Holds(D[m], c)
TruthInv ==
    /\ Told(db, sheet) /\ \A w \in Workers : Told(db, job[w])
    /\ \A m \in Machines : db[m].doneAt => db[m].doneFor # 0
    /\ \A w \in Workers : pc[w] = "payload" => db[Home[w]].doneAt

\* Verdicts are given once; a row that is completed stays so.
VerdictsStay(d, e) == \A i \in Images : d.verdict[i] # "none" => e.verdict[i] = d.verdict[i]
Grown(d, e) ==
    /\ VerdictsStay(d, e)
    /\ d.doneAt => e.doneAt
    /\ e.doneAt => e.doneFor # 0

\* From one row to a later one: the mirror stays, and a completion with it; or the mirror
\* notes a completion; or it shows the validation column as it is.
Follows(d, e) ==
    \/ e.mirror = d.mirror /\ (d.doneAt => e.doneAt)
    \/ e.mirror.validation = d.mirror.validation /\ e.mirror.status = "completed"
    \/ e.mirror.validation = sheet.validation

\* What a sync that could read the sheet has made of a row follows from the row, and what
\* a request notes of the sheet is a completion.
ValidInv ==
    \A w \in Workers :
        /\ pc[w] = "mirror" => job[w].status = "completed"
        /\ pc[w] = "upsert" => job[w].validation = sheet.validation
        /\ pc[w] \in {"push", "commit"} => Follows(db[Home[w]], draft[w])

-------------------------------------------------------------------------------
(* A step is one worker's *)

\* What a worker does touches no other worker's task.
Alone(w) ==
    \A u \in Workers \ {w} : pc'[u] = pc[u] /\ job'[u] = job[u] /\ draft'[u] = draft[u]

Step(w) == Request(w) \/ Sync(w) \/ Abandon(w)

LEMMA FinishAlone ==
    ASSUME IInv, NEW w \in Workers, Finish(w)
    PROVE  Alone(w) /\ pc'[w] = "idle" /\ job'[w] = Blank /\ draft'[w] = Fresh
  BY DEF Finish, Goto, Alone, IInv, TaskInv, DraftInv

LEMMA RequestAlone == ASSUME IInv, NEW w \in Workers, Request(w) PROVE Alone(w)
<1>1. CASE Submit(w)
  <2>1. /\ Goto(w, "write") /\ UNCHANGED draft
        /\ \E c : job' = [job EXCEPT ![w] = c]
    BY <1>1 DEF Submit
  <2> QED BY <2>1 DEF Goto, Alone, IInv, TaskInv
<1>2. CASE CompleteRun(w)
  BY <1>2 DEF CompleteRun, Goto, Alone, IInv, TaskInv
<1>3. CASE ReadPayload(w)
  BY <1>3 DEF ReadPayload, Goto, Alone, IInv, TaskInv
<1>4. CASE WriteSheet(w)
  <2>1. Finish(w) \/ (Goto(w, "mirror") /\ UNCHANGED <<job, draft>>)
    BY <1>4 DEF WriteSheet
  <2> QED BY <2>1, FinishAlone DEF Goto, Alone, IInv, TaskInv
<1>5. CASE Mirror(w)
  BY <1>5, FinishAlone DEF Mirror
<1> QED BY <1>1, <1>2, <1>3, <1>4, <1>5 DEF Request

LEMMA SyncAlone == ASSUME IInv, NEW w \in Workers, Sync(w) PROVE Alone(w)
<1>1. CASE SyncFetch(w)
  BY <1>1 DEF SyncFetch, Goto, Alone, IInv, TaskInv
<1>2. CASE SyncUpsert(w)
  <2>1. /\ Goto(w, "push") /\ UNCHANGED job
        /\ \E d : draft' = [draft EXCEPT ![w] = d]
    BY <1>2 DEF SyncUpsert
  <2> QED BY <2>1 DEF Goto, Alone, IInv, TaskInv, DraftInv
<1>5. CASE SyncUnlisted(w)
  BY <1>5 DEF SyncUnlisted, Goto, Alone, IInv, TaskInv, DraftInv
<1>3. CASE SyncPush(w)
  <2>1. /\ Goto(w, "commit") /\ job' = [job EXCEPT ![w] = Blank]
        /\ UNCHANGED draft \/ \E d : draft' = [draft EXCEPT ![w].mirror = d]
    BY <1>3 DEF SyncPush
  <2> QED BY <2>1 DEF Goto, Alone, IInv, TaskInv, DraftInv
<1>4. CASE SyncCommit(w)
  BY <1>4, FinishAlone DEF SyncCommit
<1> QED BY <1>1, <1>2, <1>3, <1>4, <1>5 DEF Sync

LEMMA StepAlone == ASSUME IInv, NEW w \in Workers, Step(w) PROVE Alone(w)
  BY RequestAlone, SyncAlone, FinishAlone DEF Step, Abandon

\* The steps that take a task to one of the later labels.
LEMMA StepTo ==
    ASSUME IInv, NEW w \in Workers, Step(w)
    PROVE  /\ pc'[w] = "mirror" => WriteSheet(w) /\ job[w].status = "completed" /\ UNCHANGED job
           /\ pc'[w] = "payload" => CompleteRun(w)
           /\ pc'[w] = "upsert" => SyncFetch(w)
           /\ pc'[w] = "push" => SyncUpsert(w) \/ SyncUnlisted(w)
           /\ pc'[w] = "commit" => SyncPush(w)
<1>1. ASSUME Finish(w) PROVE pc'[w] = "idle"
  BY <1>1, FinishAlone
<1>2. ASSUME NEW label, Goto(w, label) PROVE pc'[w] = label
  BY <1>2 DEF Goto, IInv, TaskInv
<1>3. CASE Request(w)
  <2>1. Submit(w) => pc'[w] = "write"
    BY <1>2 DEF Submit
  <2>2. CompleteRun(w) => pc'[w] = "payload"
    BY <1>2 DEF CompleteRun
  <2>3. ReadPayload(w) => pc'[w] = "write"
    BY <1>2 DEF ReadPayload
  <2>4. WriteSheet(w) => \/ pc'[w] = "idle"
                         \/ pc'[w] = "mirror" /\ job[w].status = "completed" /\ UNCHANGED job
    BY <1>1, <1>2 DEF WriteSheet
  <2>5. Mirror(w) => pc'[w] = "idle"
    BY <1>1 DEF Mirror
  <2> QED BY <1>3, <2>1, <2>2, <2>3, <2>4, <2>5 DEF Request
<1>4. CASE Sync(w)
  <2>1. SyncFetch(w) => pc'[w] = "upsert"
    BY <1>2 DEF SyncFetch
  <2>2. SyncUpsert(w) \/ SyncUnlisted(w) => pc'[w] = "push"
    BY <1>2 DEF SyncUpsert, SyncUnlisted
  <2>3. SyncPush(w) => pc'[w] = "commit"
    BY <1>2 DEF SyncPush
  <2>4. SyncCommit(w) => pc'[w] = "idle"
    BY <1>1 DEF SyncCommit
  <2> QED BY <1>4, <2>1, <2>2, <2>3, <2>4 DEF Sync
<1>5. CASE Abandon(w)
  BY <1>1, <1>5 DEF Abandon
<1> QED BY <1>3, <1>4, <1>5 DEF Step

\* A step of a machine alone leaves every task as it is.
LEMMA MachineStep ==
    ASSUME NEW m \in Machines, Save(m) \/ Pick(m) \/ Retarget(m)
    PROVE  UNCHANGED <<sheet, writer, pc, job, draft>>
  BY DEF Save, Pick, Retarget

-------------------------------------------------------------------------------
(* An open transaction has the machine to itself *)

\* A transaction that stays open stays its worker's: BEGIN IMMEDIATE lets nobody in.
LEMMA WriterStays ==
    ASSUME IInv, OpenInv, NEW w \in Workers, Step(w), NEW u \in Workers, u # w,
           pc[u] \in {"push", "commit"}
    PROVE  writer'[Home[u]] = u
<1>1. writer[Home[u]] = u /\ u # Nobody /\ Home[u] \in Machines /\ Home[w] \in Machines
  BY WorkerAssumption DEF OpenInv
<1>2. CASE UNCHANGED writer
  BY <1>1, <1>2
<1>3. CASE SyncUpsert(w)
  BY <1>1, <1>3 DEF SyncUpsert, MayWrite, IInv, WriterInv
<1>4. CASE SyncCommit(w)
  BY <1>1, <1>4 DEF SyncCommit, OpenInv, IInv, WriterInv
<1>5. CASE Abandon(w)
  BY <1>1, <1>5 DEF Abandon
<1>7. CASE SyncUnlisted(w)
  BY <1>1, <1>7 DEF SyncUnlisted, MayWrite, IInv, WriterInv
<1>6. UNCHANGED writer \/ SyncUnlisted(w) \/ SyncUpsert(w) \/ SyncCommit(w) \/ Abandon(w)
  BY DEF Step, Request, Sync, Submit, CompleteRun, ReadPayload, WriteSheet, Mirror, SyncFetch,
         SyncPush
<1> QED BY <1>2, <1>3, <1>4, <1>5, <1>6, <1>7

LEMMA OpenInvStep == ASSUME IInv, OpenInv, [Next]_vars PROVE OpenInv'
<1>1. ASSUME NEW w \in Workers, Step(w), NEW u \in Workers, pc'[u] \in {"push", "commit"}
      PROVE  writer'[Home[u]] = u
  <2>1. CASE u # w
    BY <1>1, <2>1, StepAlone, WriterStays DEF Alone
  <2>2. CASE u = w
    <3>1. CASE pc'[w] = "push"
      <4>1. writer' = [writer EXCEPT ![Home[w]] = w]
        BY <1>1, <3>1, StepTo DEF SyncUpsert, SyncUnlisted
      <4> QED BY <2>2, <4>1, WorkerAssumption DEF IInv, WriterInv
    <3>2. CASE pc'[w] = "commit"
      BY <1>1, <2>2, <3>2, StepTo DEF SyncPush, OpenInv
    <3> QED BY <1>1, <2>2, <3>1, <3>2
  <2> QED BY <2>1, <2>2
<1>2. ASSUME NEW m \in Machines, Save(m) \/ Pick(m) \/ Retarget(m) PROVE OpenInv'
  BY <1>2, MachineStep DEF OpenInv
<1>3. CASE UNCHANGED vars
  BY <1>3 DEF vars, OpenInv
<1> QED BY <1>1, <1>2, <1>3 DEF Next, Step, OpenInv

\* Only who may write, or commits, changes the row of a machine.
LEMMA RowFrame ==
    ASSUME IInv, Next, NEW m \in Machines
    PROVE  \/ db'[m] = db[m] \/ MayWrite(m)
           \/ \E w \in Workers : SyncCommit(w) /\ Home[w] = m
<1> DEFINE F == \/ db'[m] = db[m] \/ MayWrite(m)
                \/ \E w \in Workers : SyncCommit(w) /\ Home[w] = m
<1>1. db \in [Machines -> Rows]
  BY DEF IInv, DbInv
<1>2. ASSUME NEW k, NEW d, Commit(k, d), k = m => MayWrite(k) \/ F PROVE F
  BY <1>1, <1>2 DEF Commit
<1>3. ASSUME NEW w \in Workers, Submit(w) PROVE F
  <2>1. PICK S \in Markable(db[Home[w]]) : \E v \in [S -> Verdicts] :
            LET d == Marked(db[Home[w]], S, v) IN
            Commit(Home[w], Completed(d)) \/ Commit(Home[w], d)
    BY <1>3 DEF Submit
  <2>2. \E d : Commit(Home[w], d)
    BY <2>1
  <2> QED BY <1>2, <1>3, <2>2 DEF Submit
<1>4. ASSUME NEW w \in Workers, CompleteRun(w) \/ Mirror(w) PROVE F
  BY <1>2, <1>4 DEF CompleteRun, Mirror
<1>5. ASSUME NEW w \in Workers, SyncCommit(w) PROVE F
  BY <1>2, <1>5 DEF SyncCommit
<1>6. ASSUME NEW k \in Machines, Save(k) \/ Pick(k) \/ Retarget(k) PROVE F
  <2>1. \E d : Commit(k, d)
    BY <1>6 DEF Save, Pick, Retarget
  <2> QED BY <1>2, <1>6, <2>1 DEF Save, Pick, Retarget
<1>7. ASSUME UNCHANGED db PROVE F
  BY <1>7
<1> HIDE DEF F
<1>8. F
  BY <1>3, <1>4, <1>5, <1>6, <1>7 DEF Next, Request, Sync, ReadPayload, WriteSheet, SyncFetch,
     SyncUpsert, SyncUnlisted, SyncPush, Abandon
<1> QED BY <1>8 DEF F

\* The row does not change while the transaction is open.
LEMMA RowWaits ==
    ASSUME IInv, OpenInv, Next, NEW u \in Workers,
           pc[u] \in {"push", "commit"}, pc'[u] \in {"push", "commit"}
    PROVE  db'[Home[u]] = db[Home[u]]
<1>1. writer[Home[u]] = u /\ u # Nobody /\ Home[u] \in Machines
  BY WorkerAssumption DEF OpenInv
<1>2. ASSUME NEW w \in Workers, SyncCommit(w), Home[w] = Home[u] PROVE FALSE
  <2>1. w = u
    BY <1>1, <1>2 DEF SyncCommit, OpenInv
  <2>2. pc'[u] = "idle"
    BY <1>2, <2>1, FinishAlone DEF SyncCommit
  <2> QED BY <2>2
<1> QED BY <1>1, <1>2, RowFrame DEF MayWrite

-------------------------------------------------------------------------------
(* Resolved runs are skipped *)

\* The app never writes the validation column.
LEMMA ValidationStays ==
    ASSUME NEW c, NEW new, c \in Columns, new \in Columns
    PROVE  /\ Update(c, new).validation = c.validation
           /\ new.status = "completed" => Update(c, new).status = "completed"
           /\ new.status # "completed" => Update(c, new).status = "in_progress"
  BY DEF Update, Columns

LEMMA SheetValidationStays ==
    ASSUME IInv, [Next]_vars PROVE sheet'.validation = sheet.validation
<1>1. sheet \in Columns /\ \A w \in Workers : job[w] \in Columns
  BY DEF IInv, SheetInv, TaskInv
<1>2. ASSUME NEW w \in Workers, Request(w) PROVE sheet'.validation = sheet.validation
  <2>1. UNCHANGED sheet \/ WriteSheet(w)
    BY <1>2 DEF Request, Submit, CompleteRun, ReadPayload, Mirror
  <2>2. sheet' \in {sheet, Update(sheet, job[w])}
    BY <2>1 DEF WriteSheet
  <2> QED BY <1>1, <2>2, ValidationStays
<1>3. ASSUME NEW w \in Workers, Sync(w) PROVE sheet'.validation = sheet.validation
  <2>1. sheet' \in {sheet, Update(sheet, Payload(draft[w]))}
    BY <1>3 DEF Sync, SyncFetch, SyncUpsert, SyncUnlisted, SyncPush, SyncCommit
  <2>2. Payload(draft[w]) \in Columns
    BY PayloadType
  <2>3. Update(sheet, Payload(draft[w])).validation = sheet.validation
    BY <1>1, <2>2, ValidationStays
  <2> QED BY <2>1, <2>3
<1>4. ASSUME UNCHANGED sheet PROVE sheet'.validation = sheet.validation
  BY <1>4
<1> QED BY <1>2, <1>3, <1>4, MachineStep DEF Next, Abandon, vars

LEMMA ValidInvStep ==
    ASSUME SheetFails = FALSE, IInv, OpenInv, ValidInv, [Next]_vars PROVE ValidInv'
<1>1. sheet'.validation = sheet.validation
  BY SheetValidationStays
<1> DEFINE V(u) == /\ pc[u] = "mirror" => job[u].status = "completed"
                   /\ pc[u] = "upsert" => job[u].validation = sheet.validation
                   /\ pc[u] \in {"push", "commit"} => Follows(db[Home[u]], draft[u])
<1>2. ASSUME Next, NEW w \in Workers, Step(w), NEW u \in Workers PROVE V(u)'
  <2>1. CASE u # w
    <3>1. pc'[u] = pc[u] /\ job'[u] = job[u] /\ draft'[u] = draft[u]
      BY <1>2, <2>1, StepAlone DEF Alone
    <3>2. ASSUME pc[u] \in {"push", "commit"} PROVE db'[Home[u]] = db[Home[u]]
      BY <1>2, <3>1, <3>2, RowWaits
    <3> QED BY <1>1, <3>1, <3>2 DEF ValidInv, Follows
  <2>2. CASE u = w
    <3>1. CASE pc'[w] = "mirror"
      BY <1>2, <2>2, <3>1, StepTo
    <3>2. CASE pc'[w] = "upsert"
      <4>1. SyncFetch(w)
        BY <1>2, <3>2, StepTo
      <4>2. job' = [job EXCEPT ![w] = sheet]
        BY <4>1 DEF SyncFetch
      <4> QED BY <1>1, <2>2, <3>2, <4>2 DEF IInv, TaskInv
    <3>3. CASE pc'[w] = "push"
      <4> DEFINE m == Home[w]
                 E(moved) == [db[m] EXCEPT !.mirror = job[w], !.doneAt = @ /\ ~moved,
                                           !.doneFor = IF moved THEN Null ELSE @]
      <4>1. UNCHANGED <<db, sheet>> /\ draft \in [Workers -> Rows] /\ pc[w] = "upsert"
        BY <1>2, <3>3, StepTo DEF SyncUpsert, SyncUnlisted, IInv, DraftInv
      <4>2. CASE SyncUpsert(w)
        <5>1. PICK moved \in {FALSE, TarMoves} : draft' = [draft EXCEPT ![w] = E(moved)]
          BY <4>2 DEF SyncUpsert
        <5>2. moved \in BOOLEAN /\ Sound(db[m]) /\ job[w] \in Columns
          BY BoundAssumption, WorkerAssumption DEF IInv, DbInv, TaskInv
        <5>3. E(moved).mirror = job[w]
          BY <5>2, SyncedSound
        <5> HIDE DEF E
        <5>4. draft'[w].mirror.validation = sheet'.validation
          BY <4>1, <5>1, <5>3 DEF ValidInv
        <5> QED BY <2>2, <3>3, <5>4 DEF Follows
      <4>3. CASE SyncUnlisted(w)
        <5>1. draft'[w] = db'[m]
          BY <4>1, <4>3 DEF SyncUnlisted
        <5> QED BY <2>2, <3>3, <5>1 DEF Follows
      <4> QED BY <1>2, <3>3, <4>2, <4>3, StepTo
    <3>4. CASE pc'[w] = "commit"
      <4>1. SyncPush(w)
        BY <1>2, <3>4, StepTo
      <4>2. pc[w] = "push" /\ UNCHANGED db /\ Follows(db[Home[w]], draft[w])
        BY <4>1 DEF SyncPush, ValidInv
      <4> DEFINE c == Update(draft[w].mirror, Payload(draft[w]))
      <4>3. draft \in [Workers -> Rows] /\ draft[w].mirror \in Columns
        BY DEF IInv, DraftInv, Rows
      <4>4. Payload(draft[w]) \in Columns /\ Payload(draft[w]).status = "completed"
        BY PayloadType
      <4>5. c.validation = draft[w].mirror.validation /\ c.status = "completed"
        BY <4>3, <4>4, ValidationStays
      <4>6. UNCHANGED draft \/ draft' = [draft EXCEPT ![w] = [draft[w] EXCEPT !.mirror = c]]
        BY <4>1, <4>3 DEF SyncPush
      <4> HIDE DEF c
      <4>7. draft'[w] = draft[w] \/ draft'[w].mirror = c
        BY <4>3, <4>6 DEF Rows
      <4>8. Follows(db[Home[w]], draft[w])'
        BY <1>1, <4>2, <4>5, <4>7 DEF Follows
      <4> QED BY <2>2, <3>4, <4>8
    <3>5. CASE pc'[w] \notin {"mirror", "upsert", "push", "commit"}
      BY <2>2, <3>5
    <3> QED BY <3>1, <3>2, <3>3, <3>4, <3>5
  <2> QED BY <2>1, <2>2
<1>3. ASSUME Next, NEW m \in Machines, Save(m) \/ Pick(m) \/ Retarget(m), NEW u \in Workers
      PROVE  V(u)'
  <2>1. UNCHANGED <<pc, job, draft>>
    BY <1>3, MachineStep
  <2>2. ASSUME pc[u] \in {"push", "commit"} PROVE db'[Home[u]] = db[Home[u]]
    BY <1>3, <2>1, <2>2, RowWaits
  <2> QED BY <1>1, <2>1, <2>2 DEF ValidInv, Follows
<1>4. CASE UNCHANGED vars
  BY <1>4 DEF vars, ValidInv, Follows
<1> QED BY <1>2, <1>3, <1>4 DEF Next, Step, ValidInv

\* What a step may do to the row of a machine.
LEMMA RowStep ==
    ASSUME SheetFails = FALSE, IInv, ValidInv, Next, NEW m \in Machines
    PROVE  Follows(db[m], db'[m])
<1> DEFINE R == Follows(db[m], db'[m])
<1>1. db \in [Machines -> Rows] /\ \A k \in Machines : Sound(db[k]) /\ db[k].mirror \in Columns
  BY DEF IInv, DbInv, Rows
<1>2. ASSUME NEW k \in Machines, NEW d, Commit(k, d), d.mirror = db[k].mirror,
             db[k].doneAt => d.doneAt
      PROVE  R
  BY <1>1, <1>2 DEF Commit, Follows
<1>3. ASSUME UNCHANGED db PROVE R
  BY <1>3 DEF Follows
<1>4. ASSUME NEW k \in Machines, NEW S \in Markable(db[k]), NEW v \in [S -> Verdicts]
      PROVE  /\ Sound(Marked(db[k], S, v)) /\ Marked(db[k], S, v).mirror = db[k].mirror
             /\ Marked(db[k], S, v).doneAt = db[k].doneAt
  <2>1. Sound(db[k]) /\ db[k] \in Rows
    BY <1>1
  <2>2. Sound(Marked(db[k], S, v)) /\ Marked(db[k], S, v).mirror = db[k].mirror
    BY <2>1, MarkedSound
  <2>3. Marked(db[k], S, v).doneAt = db[k].doneAt
    BY <2>1 DEF Marked, Rows
  <2> QED BY <2>2, <2>3
<1>5. ASSUME NEW d, Sound(d), Earned(d)
      PROVE  Completed(d).mirror = d.mirror /\ Completed(d).doneAt
  BY <1>5, CompletedSound DEF Completed, Sound, Rows
<1>6. ASSUME NEW w \in Workers, Submit(w) PROVE R
  <2>1. PICK S \in Markable(db[Home[w]]) : \E v \in [S -> Verdicts] :
            LET d == Marked(db[Home[w]], S, v) IN
            \/ MayComplete(d) /\ Commit(Home[w], Completed(d))
            \/ Commit(Home[w], d)
    BY <1>6 DEF Submit
  <2>2. PICK v \in [S -> Verdicts] :
            LET d == Marked(db[Home[w]], S, v) IN
            \/ MayComplete(d) /\ Commit(Home[w], Completed(d))
            \/ Commit(Home[w], d)
    BY <2>1
  <2> DEFINE d == Marked(db[Home[w]], S, v)
  <2>3. Home[w] \in Machines
    BY WorkerAssumption
  <2>4. Sound(d) /\ d.mirror = db[Home[w]].mirror /\ d.doneAt = db[Home[w]].doneAt
    BY <1>4, <2>3
  <2>5. (MayComplete(d) /\ Commit(Home[w], Completed(d))) \/ Commit(Home[w], d)
    BY <2>2
  <2> HIDE DEF d
  <2>6. ASSUME MayComplete(d) PROVE Completed(d).mirror = d.mirror /\ Completed(d).doneAt
    BY <1>5, <2>4, <2>6 DEF MayComplete
  <2> QED BY <1>2, <2>3, <2>4, <2>5, <2>6
<1>7. ASSUME NEW w \in Workers, CompleteRun(w) PROVE R
  <2>1. Home[w] \in Machines
    BY WorkerAssumption
  <2> QED BY <1>1, <1>2, <1>5, <1>7, <2>1 DEF CompleteRun
<1>8. ASSUME NEW w \in Workers, Mirror(w) PROVE R
  <2> DEFINE k == Home[w]
             c == Update(db[k].mirror, job[w])
  <2>1. k \in Machines /\ job[w] \in Columns /\ job[w].status = "completed"
    BY <1>8, WorkerAssumption DEF Mirror, ValidInv, IInv, TaskInv
  <2>2. c.validation = db[k].mirror.validation /\ c.status = "completed"
    BY <1>1, <2>1, ValidationStays
  <2>3. Commit(k, [db[k] EXCEPT !.mirror = c])
    BY <1>8 DEF Mirror
  <2>4. [db[k] EXCEPT !.mirror = c].mirror = c
    BY <1>1, <2>1 DEF Rows
  <2> HIDE DEF c
  <2> QED BY <1>1, <2>1, <2>2, <2>3, <2>4 DEF Commit, Follows
<1>9. ASSUME NEW w \in Workers, SyncCommit(w) PROVE R
  <2>1. Follows(db[Home[w]], draft[w]) /\ Home[w] \in Machines
    BY <1>9, WorkerAssumption DEF SyncCommit, ValidInv
  <2> QED BY <1>1, <1>9, <2>1 DEF SyncCommit, Commit, Follows
<1>10. ASSUME NEW k \in Machines, Save(k) PROVE R
  BY <1>2, <1>4, <1>10 DEF Save
<1>11. ASSUME NEW k \in Machines, Pick(k) PROVE R
  <2>1. /\ [db[k] EXCEPT !.selected = @ + 1].mirror = db[k].mirror
        /\ [db[k] EXCEPT !.selected = @ + 1].doneAt = db[k].doneAt
    BY <1>1 DEF Rows
  <2> QED BY <1>2, <1>11, <2>1 DEF Pick
<1>12. ASSUME NEW k \in Machines, Retarget(k) PROVE R
  <2>1. PICK n \in Targets : Commit(k, [db[k] EXCEPT !.target = n])
    BY <1>12 DEF Retarget
  <2>2. /\ [db[k] EXCEPT !.target = n].mirror = db[k].mirror
        /\ [db[k] EXCEPT !.target = n].doneAt = db[k].doneAt
    BY <1>1 DEF Rows
  <2> QED BY <1>2, <2>1, <2>2
<1>13. ASSUME NEW w \in Workers, Request(w) PROVE R
  <2>1. ReadPayload(w) \/ WriteSheet(w) => UNCHANGED db
    BY DEF ReadPayload, WriteSheet
  <2> QED BY <1>3, <1>6, <1>7, <1>8, <1>13, <2>1 DEF Request
<1>14. ASSUME NEW w \in Workers, Sync(w) PROVE R
  <2>1. SyncFetch(w) \/ SyncUpsert(w) \/ SyncUnlisted(w) \/ SyncPush(w) => UNCHANGED db
    BY DEF SyncFetch, SyncUpsert, SyncUnlisted, SyncPush
  <2> QED BY <1>3, <1>9, <1>14, <2>1 DEF Sync
<1>15. ASSUME NEW w \in Workers, Abandon(w) PROVE R
  BY <1>3, <1>15 DEF Abandon
<1> HIDE DEF R
<1>16. R
  BY <1>10, <1>11, <1>12, <1>13, <1>14, <1>15 DEF Next
<1> QED BY <1>16 DEF R

\* A run that people have approved or sent back stays out of a machine's queue once it is
\* out of it, through note-taking tasks and syncs that finish in any order, even when the
\* sync takes a completion back: _ensure_run_available finds it resolved.
THEOREM ResolvedAreSkipped == ASSUME SheetFails = FALSE PROVE Spec => ResolvedRunsAreSkipped
<1>1. Init => OpenInv /\ ValidInv
  BY DEF Init, OpenInv, ValidInv
<1>2. ASSUME IInv, ValidInv, Next, NEW m \in Machines,
             sheet.validation \in Resolved, ~Offered(db[m])
      PROVE  db'[m].doneAt \/ ~Offered(db'[m])
  BY <1>2, RowStep DEF Offered, Follows
<1>3. IInv /\ ValidInv /\ [Next]_vars =>
        [\A m \in Machines :
            sheet.validation \in Resolved /\ ~Offered(db[m])
            => db'[m].doneAt \/ ~Offered(db'[m])]_vars
  BY <1>2
<1>4. IInv /\ OpenInv /\ ValidInv /\ [Next]_vars => OpenInv' /\ ValidInv'
  BY OpenInvStep, ValidInvStep
<1> QED BY <1>1, <1>3, <1>4, IInvHolds, PTL DEF Spec, ResolvedRunsAreSkipped

-------------------------------------------------------------------------------
(* The sheet is true: what a completion says *)

\* TruthInv says this of the database that Completion!True says it of.
LEMMA TrueIsHolds == \A c : True(c) <=> \E m \in Machines : Holds(db[m], c)
  BY DEF True, Holds

\* Verdicts that stay keep a completion true.
LEMMA HoldsStays ==
    ASSUME NEW d, NEW e, NEW c, c.reviewed \in Nat, Holds(d, c), VerdictsStay(d, e)
    PROVE  Holds(e, c)
<1> DEFINE N == 0 .. c.reviewed - 1
<1>1. \A i \in N : i \in Images /\ d.verdict[i] # "none"
  BY DEF Holds
<1>2. \A i \in N : e.verdict[i] = d.verdict[i]
  BY <1>1 DEF VerdictsStay
<1>3. {i \in N : e.verdict[i] = "fail"} = {i \in N : d.verdict[i] = "fail"}
  BY <1>2
<1> QED BY <1>1, <1>2, <1>3 DEF Holds

\* A payload read of a completed run is true of it.
LEMMA PayloadHolds ==
    ASSUME NEW d, Sound(d), d.doneAt, d.doneFor # 0
    PROVE  Holds(d, Payload(d))
<1> DEFINE n == d.doneFor
           R == Reviewed(d, n)
           F == Failed(d, n)
<1>1. n \in Nat /\ n > 0 /\ n # Null
  <2>1. n \in Nat /\ Null \notin Nat
    BY BoundAssumption DEF Sound
  <2> QED BY <2>1
<1>2. \A i \in 0 .. n - 1 : i \in Images /\ d.verdict[i] # "none" /\ i < d.selected /\ i < n
  BY <1>1 DEF Sound
<1>3. R = 0 .. n - 1
  <2>1. R \subseteq 0 .. n - 1
    BY <1>1 DEF Reviewed, Below, Images
  <2>2. 0 .. n - 1 \subseteq R
    BY <1>2 DEF Reviewed, Below
  <2> QED BY <2>1, <2>2
<1>4. F = {i \in 0 .. n - 1 : d.verdict[i] = "fail"}
  <2>1. F \subseteq 0 .. n - 1
    BY <1>1 DEF Failed, Below, Images
  <2>2. \A i \in 0 .. n - 1 : i \in F <=> d.verdict[i] = "fail"
    BY <1>2 DEF Failed, Below
  <2> QED BY <2>1, <2>2
<1>5. Cardinality(R) = n
  BY <1>1, <1>3, FS_Interval, 0 \in Int, n - 1 \in Int
<1> DEFINE r == Cardinality(R)
           f == Cardinality(F)
<1>6. Payload(d) = [Blank EXCEPT !.status = "completed", !.outcome = Outcome(f, r),
                                 !.reviewed = r, !.failed = f]
  BY <1>1 DEF Payload
<1> HIDE DEF r, f
<1>7. Payload(d).reviewed = r /\ Payload(d).failed = f /\ Payload(d).outcome = Outcome(f, r)
  BY <1>6 DEF Blank
<1>8. r = n /\ f = Cardinality({i \in 0 .. n - 1 : d.verdict[i] = "fail"})
  BY <1>4, <1>5 DEF r, f
<1> QED BY <1>1, <1>2, <1>7, <1>8 DEF Holds

LEMMA ToldStays ==
    ASSUME NEW D, NEW E, NEW c, c.reviewed \in Nat, Told(D, c),
           \A m \in Machines : VerdictsStay(D[m], E[m])
    PROVE  Told(E, c)
  BY HoldsStays DEF Told

LEMMA UpdateTold ==
    ASSUME NEW D, NEW c \in Columns, NEW new \in Columns, Told(D, c), Told(D, new)
    PROVE  Told(D, Update(c, new))
<1>1. CASE new.status = "completed"
  <2>1. /\ Update(c, new).reviewed = new.reviewed /\ Update(c, new).failed = new.failed
        /\ Update(c, new).outcome = new.outcome
    BY <1>1 DEF Update, Columns
  <2>2. ASSUME NEW m \in Machines, Holds(D[m], new) PROVE Holds(D[m], Update(c, new))
    BY <2>1, <2>2 DEF Holds
  <2> QED BY <1>1, <2>2 DEF Told
<1>2. CASE new.status # "completed"
  BY <1>2, ValidationStays DEF Told
<1> QED BY <1>1, <1>2

-------------------------------------------------------------------------------
(* The sheet is true: what a step does *)

\* Verdicts of images that had none leave the other verdicts alone.
LEMMA MarkedGrown ==
    ASSUME Revise = FALSE, NEW d, Sound(d), d.doneAt => d.doneFor # 0,
           NEW S \in Markable(d), NEW v \in [S -> Verdicts]
    PROVE  Grown(d, Marked(d, S, v)) /\ Marked(d, S, v).doneAt = d.doneAt
<1> DEFINE e == Marked(d, S, v)
<1>1. S \subseteq Images /\ \A i \in S : d.verdict[i] = "none"
  BY DEF Markable, Below
<1>2. /\ e.doneAt = d.doneAt /\ e.doneFor = d.doneFor
      /\ e.verdict = [i \in Images |-> IF i \in S THEN v[i] ELSE d.verdict[i]]
  BY DEF Marked, Sound, Rows
<1>3. VerdictsStay(d, e)
  BY <1>1, <1>2 DEF VerdictsStay
<1> QED BY <1>2, <1>3 DEF Grown

\* So does a completion, which is for a target.
LEMMA CompletedGrown ==
    ASSUME NEW d, Sound(d)
    PROVE  /\ Grown(d, Completed(d)) /\ Completed(d).doneAt /\ Completed(d).doneFor # 0
           /\ Completed(d).verdict = d.verdict
<1>1. Target(d) # 0
  BY TargetType DEF Sound
<1>2. /\ Completed(d).doneAt /\ Completed(d).doneFor = Target(d)
      /\ Completed(d).verdict = d.verdict
  BY DEF Completed, Sound, Rows
<1> QED BY <1>1, <1>2 DEF Grown, VerdictsStay

\* Only a sync that holds the machine's transaction changes the row while it is open, and
\* what it makes of it is the row with another mirror.
LEMMA RowGrows ==
    ASSUME Revise = FALSE, IInv, LockInv, TruthInv, [Next]_vars, NEW m \in Machines
    PROVE  /\ Grown(db[m], db'[m])
           /\ \/ db'[m] = db[m]
              \/ writer[m] = Nobody
              \/ \E w \in Workers : SyncCommit(w) /\ Home[w] = m
<1> DEFINE Frame == \/ db'[m] = db[m]
                    \/ writer[m] = Nobody
                    \/ \E w \in Workers : SyncCommit(w) /\ Home[w] = m
           Goal == Grown(db[m], db'[m]) /\ Frame
<1>1. db \in [Machines -> Rows]
      /\ \A k \in Machines : Sound(db[k]) /\ (db[k].doneAt => db[k].doneFor # 0)
  BY DEF IInv, DbInv, TruthInv
<1>2. ASSUME NEW k \in Machines, NEW d, Commit(k, d), Grown(db[k], d), MayWrite(k)
      PROVE  Goal
  <2>1. CASE k = m
    BY <1>1, <1>2, <2>1 DEF Commit, MayWrite
  <2>2. CASE k # m
    BY <1>1, <1>2, <2>2 DEF Commit, Grown, VerdictsStay
  <2> QED BY <2>1, <2>2
<1>3. ASSUME UNCHANGED db PROVE Goal
  BY <1>1, <1>3 DEF Grown, VerdictsStay
<1>4. ASSUME NEW w \in Workers, Submit(w) PROVE Goal
  <2> DEFINE k == Home[w]
             Stored(d) == (MayComplete(d) /\ Commit(k, Completed(d))) \/ Commit(k, d)
  <2>1. PICK S \in Markable(db[k]) : \E v \in [S -> Verdicts] : Stored(Marked(db[k], S, v))
    BY <1>4 DEF Submit
  <2>2. PICK v \in [S -> Verdicts] : Stored(Marked(db[k], S, v))
    BY <2>1
  <2> DEFINE d == Marked(db[k], S, v)
  <2>3. k \in Machines /\ MayWrite(k)
    BY <1>4, WorkerAssumption DEF Submit
  <2>4. Sound(d) /\ Grown(db[k], d)
    BY <1>1, <2>3, MarkedSound, MarkedGrown
  <2>5. Stored(d)
    BY <2>2
  <2> HIDE DEF d
  <2>6. Grown(db[k], Completed(d))
    BY <2>4, CompletedGrown DEF Grown, VerdictsStay
  <2> QED BY <1>2, <2>3, <2>4, <2>5, <2>6
<1>5. ASSUME NEW w \in Workers, CompleteRun(w) PROVE Goal
  BY <1>1, <1>2, <1>5, CompletedGrown, WorkerAssumption DEF CompleteRun
<1>6. ASSUME NEW w \in Workers, Mirror(w) PROVE Goal
  <2> DEFINE k == Home[w]
             e == [db[k] EXCEPT !.mirror = Update(@, job[w])]
  <2>1. k \in Machines /\ MayWrite(k) /\ Commit(k, e)
    BY <1>6, WorkerAssumption DEF Mirror
  <2>2. e.verdict = db[k].verdict /\ e.doneAt = db[k].doneAt /\ e.doneFor = db[k].doneFor
    BY <1>1, <2>1 DEF Rows
  <2> HIDE DEF e
  <2>3. Grown(db[k], e)
    BY <1>1, <2>1, <2>2 DEF Grown, VerdictsStay
  <2> QED BY <1>2, <2>1, <2>3
<1>7. ASSUME NEW w \in Workers, SyncCommit(w) PROVE Goal
  <2>1. SameBut(draft[w], db[Home[w]]) /\ Home[w] \in Machines
    BY <1>7, WorkerAssumption DEF SyncCommit, LockInv
  <2>2. Grown(db[Home[w]], draft[w])
    BY <1>1, <2>1 DEF SameBut, Grown, VerdictsStay
  <2>3. CASE Home[w] = m
    BY <1>1, <1>7, <2>2, <2>3 DEF SyncCommit, Commit
  <2>4. CASE Home[w] # m
    BY <1>1, <1>7, <2>1, <2>4 DEF SyncCommit, Commit, Grown, VerdictsStay
  <2> QED BY <2>3, <2>4
<1>8. ASSUME NEW k \in Machines, Save(k) PROVE Goal
  <2>1. PICK S \in Markable(db[k]) : \E v \in [S -> Verdicts] : Commit(k, Marked(db[k], S, v))
    BY <1>8 DEF Save
  <2>2. PICK v \in [S -> Verdicts] : Commit(k, Marked(db[k], S, v))
    BY <2>1
  <2>3. Grown(db[k], Marked(db[k], S, v))
    BY <1>1, MarkedGrown
  <2> QED BY <1>2, <1>8, <2>2, <2>3 DEF Save
<1>9. ASSUME NEW k \in Machines, NEW e, MayWrite(k), Commit(k, e), e.verdict = db[k].verdict,
             e.doneAt = db[k].doneAt, e.doneFor = db[k].doneFor
      PROVE  Goal
  <2>1. Grown(db[k], e)
    BY <1>1, <1>9 DEF Grown, VerdictsStay
  <2> QED BY <1>2, <1>9, <2>1
<1>10. ASSUME NEW k \in Machines, Pick(k) PROVE Goal
  <2> DEFINE e == [db[k] EXCEPT !.selected = @ + 1]
  <2>1. e.verdict = db[k].verdict /\ e.doneAt = db[k].doneAt /\ e.doneFor = db[k].doneFor
    BY <1>1 DEF Rows
  <2>2. MayWrite(k) /\ Commit(k, e)
    BY <1>10 DEF Pick
  <2> HIDE DEF e
  <2> QED BY <1>9, <2>1, <2>2
<1>11. ASSUME NEW k \in Machines, Retarget(k) PROVE Goal
  <2>1. PICK n \in Targets : Commit(k, [db[k] EXCEPT !.target = n])
    BY <1>11 DEF Retarget
  <2> DEFINE e == [db[k] EXCEPT !.target = n]
  <2>2. e.verdict = db[k].verdict /\ e.doneAt = db[k].doneAt /\ e.doneFor = db[k].doneFor
    BY <1>1 DEF Rows
  <2>3. MayWrite(k) /\ Commit(k, e)
    BY <1>11, <2>1 DEF Retarget
  <2> HIDE DEF e
  <2> QED BY <1>9, <2>2, <2>3
<1>12. ASSUME NEW w \in Workers, Step(w) PROVE Goal
  <2>1. ReadPayload(w) \/ WriteSheet(w) \/ SyncFetch(w) \/ SyncUpsert(w) \/ SyncUnlisted(w)
        \/ SyncPush(w) \/ Abandon(w) => UNCHANGED db
    BY DEF ReadPayload, WriteSheet, SyncFetch, SyncUpsert, SyncUnlisted, SyncPush, Abandon
  <2> HIDE DEF Goal
  <2> QED BY <1>3, <1>4, <1>5, <1>6, <1>7, <1>12, <2>1 DEF Step, Request, Sync
<1> HIDE DEF Goal
<1>13. UNCHANGED vars => UNCHANGED db
  BY DEF vars
<1>14. Goal
  BY <1>3, <1>8, <1>10, <1>11, <1>12, <1>13 DEF Next, Step
<1> QED BY <1>14 DEF Goal

-------------------------------------------------------------------------------
(* The sheet is true: the invariants are kept *)

LEMMA LockInvStep ==
    ASSUME Revise = FALSE, TarMoves = FALSE, IInv, LockInv, TruthInv, [Next]_vars
    PROVE  LockInv'
<1> DEFINE L(u) == pc[u] \in {"push", "commit"} =>
                       writer[Home[u]] = u /\ SameBut(draft[u], db[Home[u]])
<1>1. \A u \in Workers : Home[u] \in Machines /\ u # Nobody
  BY WorkerAssumption
<1>2. ASSUME NEW w \in Workers, Step(w), NEW u \in Workers, u # w PROVE L(u)'
  <2>1. pc'[u] = pc[u] /\ draft'[u] = draft[u]
    BY <1>2, StepAlone DEF Alone
  <2> SUFFICES ASSUME pc[u] \in {"push", "commit"}
               PROVE  writer'[Home[u]] = u /\ SameBut(draft[u], db'[Home[u]])
    BY <2>1 DEF SameBut
  <2>2. writer[Home[u]] = u /\ SameBut(draft[u], db[Home[u]])
    BY DEF LockInv
  <2>3. writer'[Home[u]] = u
    BY <1>2, WriterStays DEF LockInv, OpenInv
  <2>4. ASSUME NEW x \in Workers, SyncCommit(x), Home[x] = Home[u] PROVE FALSE
    <3>1. x = u
      BY <2>2, <2>4 DEF SyncCommit, LockInv
    <3>2. pc'[u] = "idle"
      BY <2>4, <3>1, FinishAlone DEF SyncCommit
    <3> QED BY <2>1, <3>2
  <2>5. db'[Home[u]] = db[Home[u]]
    BY <1>1, <2>2, <2>4, RowGrows
  <2> QED BY <2>2, <2>3, <2>5
<1>3. ASSUME NEW w \in Workers, Step(w) PROVE L(w)'
  <2> DEFINE m == Home[w]
  <2>1. db \in [Machines -> Rows] /\ draft \in [Workers -> Rows] /\ m \in Machines
        /\ writer \in [Machines -> Workers \cup {Nobody}]
    BY <1>1 DEF IInv, DbInv, DraftInv, WriterInv
  <2>2. CASE pc'[w] = "push"
    <3> DEFINE e == [db[m] EXCEPT !.mirror = job[w], !.doneAt = @ /\ ~FALSE,
                                  !.doneFor = IF FALSE THEN Null ELSE @]
    <3>1. UNCHANGED db /\ writer' = [writer EXCEPT ![m] = w]
      BY <1>3, <2>2, StepTo DEF SyncUpsert, SyncUnlisted
    <3>2. SyncUpsert(w) => draft' = [draft EXCEPT ![w] = e]
      BY DEF SyncUpsert
    <3>3. SyncUnlisted(w) => draft' = [draft EXCEPT ![w] = db[m]]
      BY DEF SyncUnlisted
    <3>4. SameBut(e, db[m]) /\ SameBut(db[m], db[m])
      BY <2>1 DEF SameBut, Rows
    <3> HIDE DEF e
    <3>5. SyncUpsert(w) \/ SyncUnlisted(w)
      BY <1>3, <2>2, StepTo
    <3>6. draft'[w] \in {e, db[m]}
      BY <2>1, <3>2, <3>3, <3>5
    <3> QED BY <2>1, <3>1, <3>4, <3>6
  <2>3. CASE pc'[w] = "commit"
    <3>1. SyncPush(w)
      BY <1>3, <2>3, StepTo
    <3>2. UNCHANGED <<db, writer>> /\ pc[w] = "push"
          /\ (UNCHANGED draft \/ \E c : draft' = [draft EXCEPT ![w].mirror = c])
      BY <3>1 DEF SyncPush
    <3>3. SameBut(draft'[w], draft[w])
      BY <2>1, <3>2 DEF SameBut, Rows
    <3> QED BY <3>2, <3>3 DEF LockInv, SameBut
  <2>4. CASE pc'[w] \notin {"push", "commit"}
    BY <2>4
  <2> QED BY <2>2, <2>3, <2>4
<1>4. ASSUME NEW m \in Machines, Save(m) \/ Pick(m) \/ Retarget(m), NEW u \in Workers PROVE L(u)'
  <2>1. UNCHANGED <<pc, draft, writer>>
    BY <1>4, MachineStep
  <2> SUFFICES ASSUME pc[u] \in {"push", "commit"}
               PROVE  writer[Home[u]] = u /\ SameBut(draft[u], db'[Home[u]])
    BY <2>1
  <2>2. writer[Home[u]] = u /\ SameBut(draft[u], db[Home[u]])
    BY DEF LockInv
  <2>3. ASSUME NEW x \in Workers, SyncCommit(x), Home[x] = Home[u] PROVE FALSE
    <3>1. pc[x] = "commit" /\ pc'[x] = "idle"
      BY <2>3, FinishAlone DEF SyncCommit
    <3> QED BY <2>1, <3>1
  <2>4. db'[Home[u]] = db[Home[u]]
    BY <1>1, <2>2, <2>3, RowGrows
  <2> QED BY <2>2, <2>4
<1>5. CASE UNCHANGED vars
  BY <1>5 DEF vars, LockInv
<1>6. ASSUME Next PROVE \A u \in Workers : L(u)'
  <2>1. CASE \E w \in Workers : Step(w)
    BY <1>2, <1>3, <2>1
  <2>2. CASE \E m \in Machines : Save(m) \/ Pick(m) \/ Retarget(m)
    BY <1>4, <2>2
  <2> HIDE DEF L
  <2> QED BY <1>6, <2>1, <2>2 DEF Next, Step
<1> QED BY <1>5, <1>6 DEF LockInv

LEMMA PayloadTold ==
    ASSUME NEW D, NEW m \in Machines, NEW d, Sound(d), d.doneAt, d.doneFor # 0,
           D[m].verdict = d.verdict
    PROVE  Told(D, Payload(d))
<1>1. Holds(d, Payload(d))
  BY PayloadHolds
<1>2. VerdictsStay(d, D[m])
  BY DEF VerdictsStay
<1>3. Payload(d).reviewed \in Nat
  BY PayloadType DEF Columns
<1>4. Holds(D[m], Payload(d))
  BY <1>1, <1>2, <1>3, HoldsStays
<1> QED BY <1>4 DEF Told

\* A task that takes up new columns takes them from the sheet or from a completed row.
LEMMA JobTold ==
    ASSUME Revise = FALSE, IInv, LockInv, TruthInv, NEW w \in Workers, Step(w),
           \A c \in Columns : Told(db, c) => Told(db', c)
    PROVE  Told(db', job'[w])
<1> DEFINE m == Home[w]
<1>1. /\ m \in Machines /\ db \in [Machines -> Rows] /\ Sound(db[m])
      /\ (db[m].doneAt => db[m].doneFor # 0)
      /\ job \in [Workers -> Columns] /\ sheet \in Columns
      /\ Told(db, job[w]) /\ Told(db, sheet)
  BY WorkerAssumption DEF IInv, DbInv, TaskInv, SheetInv, TruthInv
<1>2. Told(db', job[w]) /\ Told(db', sheet)
  BY <1>1
<1>3. Told(db', Blank) /\ Told(db', Progress)
  BY DEF Told, Blank, Progress
<1>4. CASE Submit(w)
  <2> DEFINE Stored(d) == IF MayComplete(d)
                          THEN /\ Commit(m, Completed(d))
                               /\ job' = [job EXCEPT ![w] = Payload(Completed(d))]
                          ELSE Commit(m, d) /\ job' = [job EXCEPT ![w] = Progress]
  <2>1. PICK S \in Markable(db[m]) : \E v \in [S -> Verdicts] : Stored(Marked(db[m], S, v))
    BY <1>4 DEF Submit
  <2>2. PICK v \in [S -> Verdicts] : Stored(Marked(db[m], S, v))
    BY <2>1
  <2> DEFINE d == Marked(db[m], S, v)
  <2>3. Sound(d)
    BY <1>1, MarkedSound
  <2>4. Stored(d)
    BY <2>2
  <2> HIDE DEF d
  <2>5. CASE MayComplete(d)
    <3>1. Sound(Completed(d)) /\ Completed(d).doneAt /\ Completed(d).doneFor # 0
      BY <2>3, <2>5, CompletedSound, CompletedGrown DEF MayComplete
    <3>2. Commit(m, Completed(d)) /\ job' = [job EXCEPT ![w] = Payload(Completed(d))]
      BY <2>4, <2>5
    <3>3. db'[m] = Completed(d) /\ job'[w] = Payload(Completed(d))
      BY <1>1, <3>2 DEF Commit
    <3> QED BY <1>1, <3>1, <3>3, PayloadTold
  <2>6. CASE ~MayComplete(d)
    BY <1>1, <1>3, <2>4, <2>6
  <2> QED BY <2>5, <2>6
<1>5. CASE ReadPayload(w)
  <2>1. db[m].doneAt /\ UNCHANGED db /\ job'[w] = Payload(db[m])
    BY <1>1, <1>5 DEF ReadPayload, TruthInv
  <2> QED BY <1>1, <2>1, PayloadTold
<1>6. CASE Finish(w)
  BY <1>3, <1>6, FinishAlone
<1>7. CASE SyncFetch(w)
  BY <1>1, <1>2, <1>3, <1>7 DEF SyncFetch
<1>8. CASE SyncPush(w)
  BY <1>1, <1>3, <1>8 DEF SyncPush
<1>9. UNCHANGED job \/ Submit(w) \/ ReadPayload(w) \/ SyncFetch(w) \/ SyncPush(w) \/ Finish(w)
  BY DEF Step, Request, Sync, CompleteRun, WriteSheet, Mirror, SyncUpsert, SyncUnlisted, SyncCommit,
         Abandon
<1> QED BY <1>2, <1>4, <1>5, <1>6, <1>7, <1>8, <1>9

\* What a worker sends to the sheet is its columns or the completion of its draft, which is
\* the completion of the database.
LEMMA SheetTold ==
    ASSUME IInv, LockInv, TruthInv, NEW w \in Workers, Step(w),
           \A c \in Columns : Told(db, c) => Told(db', c)
    PROVE  Told(db', sheet')
<1>1. /\ job[w] \in Columns /\ sheet \in Columns
      /\ Told(db, job[w]) /\ Told(db, sheet)
  BY DEF IInv, TaskInv, SheetInv, TruthInv
<1>2. CASE UNCHANGED sheet
  BY <1>1, <1>2
<1>3. CASE WriteSheet(w)
  <2>1. sheet' \in {sheet, Update(sheet, job[w])}
    BY <1>3 DEF WriteSheet
  <2>2. Told(db, Update(sheet, job[w])) /\ Update(sheet, job[w]) \in Columns
    BY <1>1, UpdateTold, UpdateType
  <2> QED BY <1>1, <2>1, <2>2
<1>4. CASE SyncPush(w)
  <2> DEFINE d == draft[w]
             m == Home[w]
             p == Payload(d)
  <2>1. sheet' = sheet \/ (d.doneAt /\ sheet' = Update(sheet, p))
    BY <1>4 DEF SyncPush
  <2>2. ASSUME d.doneAt PROVE Told(db, p)
    <3>1. m \in Machines /\ Sound(d) /\ SameBut(d, db[m])
      BY <1>4, WorkerAssumption DEF SyncPush, LockInv, IInv, DraftInv
    <3>2. d.doneFor # 0
      BY <2>2, <3>1 DEF SameBut, TruthInv
    <3>3. db[m].verdict = d.verdict
      BY <3>1 DEF SameBut
    <3> QED BY <2>2, <3>1, <3>2, <3>3, PayloadTold
  <2>3. p \in Columns
    BY PayloadType
  <2> HIDE DEF p, d
  <2>4. Update(sheet, p) \in Columns /\ (d.doneAt => Told(db, Update(sheet, p)))
    BY <1>1, <2>2, <2>3, UpdateTold, UpdateType
  <2> QED BY <1>1, <2>1, <2>4
<1>5. UNCHANGED sheet \/ WriteSheet(w) \/ SyncPush(w)
  BY DEF Step, Request, Sync, Submit, CompleteRun, ReadPayload, Mirror, SyncFetch, SyncUpsert,
         SyncUnlisted, SyncCommit, Abandon
<1> QED BY <1>2, <1>3, <1>4, <1>5

LEMMA TruthInvStep ==
    ASSUME Revise = FALSE, IInv, LockInv, TruthInv, [Next]_vars PROVE TruthInv'
<1>1. \A m \in Machines : Grown(db[m], db'[m])
  BY RowGrows
<1>2. \A c \in Columns : Told(db, c) => Told(db', c)
  BY <1>1, ToldStays DEF Grown, Columns
<1>3. \A m \in Machines : db'[m].doneAt => db'[m].doneFor # 0
  BY <1>1 DEF Grown
<1>4. /\ sheet \in Columns /\ Told(db, sheet)
      /\ \A u \in Workers : job[u] \in Columns /\ Told(db, job[u]) /\ Home[u] \in Machines
      /\ \A u \in Workers : pc[u] = "payload" => db[Home[u]].doneAt
  BY WorkerAssumption DEF IInv, TaskInv, SheetInv, TruthInv
<1>5. ASSUME UNCHANGED <<sheet, pc, job>> PROVE TruthInv'
  BY <1>1, <1>2, <1>3, <1>4, <1>5 DEF TruthInv, Grown
<1>6. ASSUME NEW w \in Workers, Step(w) PROVE TruthInv'
  <2>1. Told(db', sheet')
    BY <1>2, <1>6, SheetTold
  <2>2. ASSUME NEW u \in Workers
        PROVE  Told(db', job'[u]) /\ (pc'[u] = "payload" => db'[Home[u]].doneAt)
    <3>1. CASE u # w
      <4>1. pc'[u] = pc[u] /\ job'[u] = job[u]
        BY <1>6, <3>1, StepAlone DEF Alone
      <4>2. Told(db', job[u])
        BY <1>2, <1>4
      <4>3. db[Home[u]].doneAt => db'[Home[u]].doneAt
        BY <1>1, <1>4 DEF Grown
      <4> QED BY <1>4, <4>1, <4>2, <4>3
    <3>2. CASE u = w
      <4>1. Told(db', job'[w])
        BY <1>2, <1>6, JobTold
      <4>2. ASSUME pc'[w] = "payload" PROVE db'[Home[w]].doneAt
        <5>1. Commit(Home[w], Completed(db[Home[w]]))
          BY <1>6, <4>2, StepTo DEF CompleteRun
        <5>2. Completed(db[Home[w]]).doneAt
          BY <1>4, CompletedGrown DEF IInv, DbInv
        <5> QED BY <1>4, <5>1, <5>2 DEF Commit, IInv, DbInv
      <4> QED BY <3>2, <4>1, <4>2
    <3> QED BY <3>1, <3>2
  <2> QED BY <1>3, <2>1, <2>2 DEF TruthInv
<1>7. ASSUME NEW m \in Machines, Save(m) \/ Pick(m) \/ Retarget(m) PROVE TruthInv'
  BY <1>5, <1>7, MachineStep
<1>8. CASE UNCHANGED vars
  BY <1>5, <1>8 DEF vars
<1> QED BY <1>6, <1>7, <1>8 DEF Next, Step

\* While verdicts are not changed and tars stay, a completion in the sheet is the outcome
\* and the counts of some machine's first images: late payloads, lost tasks, failed or
\* half-failed writes and syncs on several machines cannot make it say anything else.
THEOREM SheetIsTrue ==
    ASSUME Revise = FALSE, TarMoves = FALSE PROVE Spec => []SheetTellsTruth
<1>1. Init => LockInv /\ TruthInv
  <2> SUFFICES ASSUME Init PROVE LockInv /\ TruthInv
    OBVIOUS
  <2>1. LockInv
    BY DEF Init, LockInv
  <2>2. sheet.status = "" /\ \A w \in Workers : job[w].status = ""
    BY DEF Init, Blank
  <2>3. \A m \in Machines : ~db[m].doneAt
    BY DEF Init, Fresh
  <2>4. \A w \in Workers : pc[w] = "idle"
    BY DEF Init
  <2> QED BY <2>1, <2>2, <2>3, <2>4 DEF TruthInv, Told
<1>2. IInv /\ LockInv /\ TruthInv /\ [Next]_vars => LockInv' /\ TruthInv'
  BY LockInvStep, TruthInvStep
<1>3. TruthInv => SheetTellsTruth
  BY TrueIsHolds DEF TruthInv, Told, SheetTellsTruth
<1> QED BY <1>1, <1>2, <1>3, IInvHolds, PTL DEF Spec
===============================================================================
