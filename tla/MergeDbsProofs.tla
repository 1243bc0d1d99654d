---------------------------- MODULE MergeDbsProofs ----------------------------
(***************************************************************************)
(* Proofs about MergeDbs, for any machines, runs, images and times.        *)
(***************************************************************************)
EXTENDS MergeDbs, TLAPS

-------------------------------------------------------------------------------
(* The inductive invariant *)

\* A row has its type and verdicts of images that are there only.
WellFormed(d) == d \in Rows /\ \A i \in Judged(d) : i < d.selected

\* All images below n have a verdict in d.
Covers(d, n) == \A i \in 0 .. n - 1 : i \in Images /\ d.verdict[i] # "none"

\* With t as what may be assumed to be torn: if nothing is, a completion comes with its verdicts.
Sound(d, t) == WellFormed(d) /\ (~t /\ d.done # Null => Covers(d, d.done))

\* A row of the open transaction may owe its completion to the copy, whose verdicts
\* are merged at the end.
SoundWith(d, c, t) ==
    /\ WellFormed(d)
    /\ ~t /\ d.done # Null => Covers(d, d.done) \/ (c # Absent /\ d.done = c.done)

\* What e has of d's run, at least, when the merge is done: the run and its completion.
Reaches(d, c) == d # Absent /\ (c.done # Null => d.done # Null)

\* The completion in d is this machine's or the copy's, and not lost if this machine has one.
OwnOrTheirs(d, c, r) ==
    /\ d.done = Own(r) \/ (c # Absent /\ d.done = c.done)
    /\ Own(r) # Null => d.done # Null

DbInv(t) == db \in [Machines -> Tables] /\ \A m \in Machines, r \in Runs : Known(m, r) => Sound(db[m][r], t)

ScriptInv(t) ==
    /\ merge \in [pc : {"idle", "pull", "runs", "write"}, from : Machines, todo : SUBSET Runs,
                  run : Runs \cup {Absent},
                  copy : Tables, seen : Rows \cup {Absent}, open : BOOLEAN, draft : Tables]
    /\ \A r \in Runs : merge.copy[r] # Absent => Sound(merge.copy[r], t)
    /\ \A r \in merge.todo : merge.copy[r] # Absent
    /\ merge.pc = "write" => merge.run \in Runs /\ merge.copy[merge.run] # Absent
    /\ merge.pc = "pull" => ~merge.open /\ merge.seen = Absent
    /\ merge.pc = "idle" => ~merge.open

\* The transaction adds to the local database and takes nothing away.
DraftInv(t) ==
    merge.open => \A r \in Runs :
        /\ merge.draft[r] # Absent => /\ SoundWith(merge.draft[r], merge.copy[r], t)
                                      /\ OwnOrTheirs(merge.draft[r], merge.copy[r], r)
        /\ Known(Local, r) => /\ merge.draft[r] # Absent
                              /\ merge.draft[r].verdict = db[Local][r].verdict

\* What the script has read of a row still holds, as far as it relies on it.
SeenInv ==
    merge.pc = "write" /\ merge.seen # Absent => Reaches(Current[merge.run], merge.seen)

\* Runs the script is through with are merged.
TodoInv ==
    merge.pc \notin {"idle", "pull"} => \A r \in Runs : merge.copy[r] # Absent =>
        \/ r \in merge.todo
        \/ merge.pc = "write" /\ r = merge.run
        \/ Reaches(Current[r], merge.copy[r])

IInv(t) == DbInv(t) /\ ScriptInv(t) /\ DraftInv(t) /\ SeenInv /\ TodoInv

-------------------------------------------------------------------------------
(* Rows *)

\* A new row is sound, and an unknown run is not a row.
LEMMA FreshSound == (\A t \in BOOLEAN : Sound(Fresh, t)) /\ Fresh \in Rows /\ Absent \notin Rows
<1>1. MaxImages \in Nat /\ DefaultCount \in Nat
  BY BoundAssumption
<1>2. Fresh \in Rows
  BY <1>1 DEF Fresh, Rows
<1>3. Fresh.done = Null /\ Judged(Fresh) = {}
  BY DEF Fresh, Judged
<1> QED BY <1>2, <1>3, AbsentAssumption DEF Sound, WellFormed

\* Tables hold rows, and the script's connection reads one.
LEMMA TableType ==
    ASSUME NEW t \in BOOLEAN, DbInv(t), ScriptInv(t)
    PROVE  /\ \A m \in Machines : db[m] \in Tables
           /\ Current \in Tables
           /\ \A table \in Tables, r \in Runs : table[r] # Absent => table[r] \in Rows
  BY DEF DbInv, ScriptInv, Current, Machines, Tables

-------------------------------------------------------------------------------
(* The servers *)

\* A server's step keeps the invariant if the row it writes is sound and a completion stays.
LEMMA EditKeeps ==
    ASSUME NEW t \in BOOLEAN, IInv(t), NEW m \in Machines, NEW r \in Runs, NEW d, Sound(d, t),
           Known(m, r) => (db[m][r].done # Null => d.done # Null),
           Edit(m, r, d)
    PROVE  IInv(t)'
<1>1. d \in Rows /\ d # Absent
  BY FreshSound DEF Sound, WellFormed
<1>2. /\ db' = [db EXCEPT ![m][r] = d] /\ merge' = merge
      /\ m = Local => ~merge.open
  BY DEF Edit, MayWrite
<1>3. db' \in [Machines -> Tables] /\ db'[m][r] = d
      /\ \A k \in Machines, q \in Runs : k # m \/ q # r => db'[k][q] = db[k][q]
  BY <1>1, <1>2 DEF IInv, DbInv, Tables
<1>4. DbInv(t)'
  <2> SUFFICES ASSUME NEW k \in Machines, NEW q \in Runs, db'[k][q] # Absent
               PROVE  Sound(db'[k][q], t)
    BY <1>3 DEF DbInv, Known, Sound, WellFormed, Covers, Judged
  <2>1. CASE k = m /\ q = r
    BY <1>3, <2>1
  <2>2. CASE k # m \/ q # r
    BY <1>3, <2>2 DEF IInv, DbInv, Known
  <2> QED BY <2>1, <2>2
<1>5. ScriptInv(t)'
  BY <1>2 DEF IInv, ScriptInv, Sound, WellFormed, Covers, Judged
<1>6. Local \in Machines
  BY DEF Machines
<1>7. DraftInv(t)'
  <2>1. CASE m = Local
    BY <1>2, <2>1 DEF DraftInv
  <2>2. CASE m # Local
    BY <1>2, <1>3, <1>6, <2>2 DEF IInv, DraftInv, Known, Own, OwnOrTheirs, SoundWith, WellFormed,
       Covers, Judged
  <2> QED BY <2>1, <2>2
<1>8. \A q \in Runs : \A c : Reaches(Current[q], c) => Reaches(Current'[q], c)
  <2>1. CASE merge.open
    BY <1>2, <2>1 DEF Current
  <2>2. CASE ~merge.open
    BY <1>1, <1>2, <1>3, <1>6, <2>2 DEF Current, Reaches, Known
  <2> QED BY <2>1, <2>2
<1>9. SeenInv'
  BY <1>2, <1>8 DEF IInv, SeenInv, ScriptInv, Reaches
<1>10. TodoInv'
  BY <1>2, <1>8 DEF IInv, TodoInv, Reaches
<1> QED BY <1>4, <1>5, <1>7, <1>9, <1>10 DEF IInv

LEMMA IndexKeeps == ASSUME NEW t \in BOOLEAN, IInv(t), NEW m \in Machines, NEW r \in Runs, Index(m, r) PROVE IInv(t)'
  BY EditKeeps, FreshSound DEF Index

LEMMA PickKeeps == ASSUME NEW t \in BOOLEAN, IInv(t), NEW m \in Machines, NEW r \in Runs, Pick(m, r) PROVE IInv(t)'
<1> DEFINE d == db[m][r]
           e == [d EXCEPT !.selected = @ + 1]
<1>1. Sound(d, t) /\ d \in Rows /\ d.selected < MaxImages /\ Edit(m, r, e)
  BY DEF Pick, IInv, DbInv, Sound, WellFormed
<1>2. /\ e \in Rows /\ e.selected = d.selected + 1
      /\ e.verdict = d.verdict /\ e.done = d.done
  BY <1>1, BoundAssumption DEF Rows
<1> HIDE DEF e
<1>3. Sound(e, t)
  BY <1>1, <1>2 DEF Sound, WellFormed, Covers, Judged, Rows, Images
<1> QED BY <1>1, <1>2, <1>3, EditKeeps

LEMMA JudgeKeeps == ASSUME NEW t \in BOOLEAN, IInv(t), NEW m \in Machines, NEW r \in Runs, Judge(m, r) PROVE IInv(t)'
<1> DEFINE d == db[m][r]
<1>1. Sound(d, t) /\ d \in Rows
  BY DEF Judge, IInv, DbInv, Sound, WellFormed
<1>2. PICK i \in Images, v \in Verdicts :
         i < d.selected /\ Edit(m, r, [d EXCEPT !.verdict[i] = v])
  BY DEF Judge
<1> DEFINE e == [d EXCEPT !.verdict[i] = v]
<1>3. /\ e \in Rows /\ e.selected = d.selected /\ e.done = d.done
      /\ e.verdict = [d.verdict EXCEPT ![i] = v]
  BY <1>1 DEF Rows
<1>4. \A j \in Images : e.verdict[j] = IF j = i THEN v ELSE d.verdict[j]
  BY <1>1, <1>3 DEF Rows
<1>5. v # "none"
  BY BoundAssumption
<1> HIDE DEF e
<1>6. Sound(e, t)
  BY <1>1, <1>2, <1>3, <1>4, <1>5 DEF Sound, WellFormed, Covers, Judged
<1> QED BY <1>2, <1>3, <1>6, EditKeeps DEF e

\* complete_run_validation is called for an earned completion: the verdicts are there.
LEMMA CompleteKeeps == ASSUME NEW t \in BOOLEAN, IInv(t), NEW m \in Machines, NEW r \in Runs, Complete(m, r) PROVE IInv(t)'
<1> DEFINE d == db[m][r]
           e == [d EXCEPT !.done = d.target]
<1>1. Sound(d, t) /\ d \in Rows /\ Earned(d) /\ Edit(m, r, e)
  BY DEF Complete, IInv, DbInv, Sound, WellFormed
<1>2. /\ e \in Rows /\ e.selected = d.selected
      /\ e.verdict = d.verdict /\ e.done = d.target /\ d.target \in Nat /\ e.done # Null
  BY <1>1, BoundAssumption DEF Rows
<1> HIDE DEF e
<1>3. Covers(d, d.target)
  <2> SUFFICES ASSUME NEW i \in 0 .. d.target - 1 PROVE i \in Images /\ d.verdict[i] # "none"
    BY DEF Covers
  <2>1. i \in Nat /\ i < d.target /\ i < d.selected /\ d.selected \in 0 .. MaxImages
    BY <1>1, <1>2 DEF Earned, Rows
  <2>2. i \in Images
    BY <2>1, BoundAssumption DEF Images
  <2> QED BY <1>1, <2>1, <2>2 DEF Earned
<1>4. Sound(e, t)
  BY <1>1, <1>2, <1>3 DEF Sound, WellFormed, Covers, Judged
<1> QED BY <1>1, <1>2, <1>4, EditKeeps

LEMMA NoteKeeps ==
    ASSUME NEW t \in BOOLEAN, IInv(t), NEW m \in Machines, NEW r \in Runs, Note(m, r) \/ Retarget(m, r) PROVE IInv(t)'
<1> DEFINE d == db[m][r]
<1>1. Sound(d, t) /\ d \in Rows /\ MaxTime \in Nat /\ MaxImages \in Nat
  BY BoundAssumption DEF Note, Retarget, IInv, DbInv, Sound, WellFormed
<1>2. ASSUME NEW e, e \in Rows, e.selected = d.selected, e.verdict = d.verdict,
             e.done = d.done, Edit(m, r, e)
      PROVE  IInv(t)'
  <2>1. Sound(e, t)
    BY <1>1, <1>2 DEF Sound, WellFormed, Covers, Judged
  <2> QED BY <1>2, <2>1, EditKeeps
<1>3. CASE Note(m, r)
  <2>1. PICK c \in BOOLEAN, time \in 0 .. MaxTime :
           Edit(m, r, [d EXCEPT !.completed = c, !.updated = time])
    BY <1>3 DEF Note
  <2> DEFINE e == [d EXCEPT !.completed = c, !.updated = time]
  <2>2. time \in Nat
    BY <1>1
  <2>3. e \in Rows /\ e.selected = d.selected /\ e.verdict = d.verdict /\ e.done = d.done
    BY <1>1, <2>2, Zenon DEF Rows
  <2> QED BY <1>2, <2>1, <2>3
<1>4. CASE Retarget(m, r)
  <2>1. PICK n \in 1 .. MaxImages : Edit(m, r, [d EXCEPT !.target = n])
    BY <1>4 DEF Retarget
  <2> DEFINE e == [d EXCEPT !.target = n]
  <2>2. e \in Rows /\ e.selected = d.selected /\ e.verdict = d.verdict /\ e.done = d.done
    BY <1>1 DEF Rows
  <2> QED BY <1>2, <2>1, <2>2
<1> QED BY <1>3, <1>4

-------------------------------------------------------------------------------
(* The script *)

\* The invariant does not look at the database when the script rests.
LEMMA RestKeeps == ASSUME NEW t \in BOOLEAN, DbInv(t)', merge' = Resting PROVE IInv(t)'
<1>1. ScriptInv(t)'
  BY DEF ScriptInv, Resting, Table, Tables, Machines
<1>2. DraftInv(t)' /\ SeenInv' /\ TodoInv'
  BY DEF DraftInv, SeenInv, TodoInv, Resting
<1> QED BY <1>1, <1>2 DEF IInv

LEMMA DbStays == ASSUME NEW t \in BOOLEAN, DbInv(t), UNCHANGED db PROVE DbInv(t)'
  BY DEF DbInv, Known, Sound, WellFormed, Covers, Judged

LEMMA FailKeeps == ASSUME NEW t \in BOOLEAN, IInv(t), Fail PROVE IInv(t)'
  BY DbStays, RestKeeps DEF Fail, IInv

LEMMA PullKeeps == ASSUME NEW t \in BOOLEAN, IInv(t), NEW m \in Remotes, Pull(m) PROVE IInv(t)'
<1>1. m \in Machines /\ db[m] \in Tables
  BY DEF Machines, IInv, DbInv
<1>2. merge' = [pc |-> "pull", from |-> m, todo |-> {}, run |-> Absent,
                copy |-> db[m], seen |-> Absent, open |-> FALSE, draft |-> Table]
  BY DEF Pull, Resting
<1>3. DbInv(t)'
  BY DbStays DEF Pull, IInv
<1>4. ScriptInv(t)'
  <2>1. \A r \in Runs : db[m][r] # Absent => Sound(db[m][r], t)
    BY <1>1 DEF IInv, DbInv, Known
  <2>2. Table \in Tables
    BY DEF Table, Tables
  <2> QED BY <1>1, <1>2, <2>1, <2>2 DEF ScriptInv
<1>5. DraftInv(t)' /\ SeenInv' /\ TodoInv'
  BY <1>2 DEF DraftInv, SeenInv, TodoInv
<1> QED BY <1>3, <1>4, <1>5 DEF IInv

\* A run that is read from two states of its database has verdicts of its images only, and is
\* as in one of them or not completed, if it may not be torn.
LEMMA MixedSound ==
    ASSUME NEW t \in BOOLEAN, NEW c, NEW d, c # Absent => Sound(c, t), d # Absent => Sound(d, t),
           NEW e \in Mixed(c, d), t \/ e \in {Absent, c, d} \/ e.done = Null
    PROVE  e \in Rows \cup {Absent} /\ (e # Absent => Sound(e, t))
<1>1. CASE Absent \in {c, d}
  BY <1>1 DEF Mixed, Sound, WellFormed
<1>2. CASE Absent \notin {c, d}
  <2>1. PICK x \in {c, d}, n \in {c.selected, d.selected}, J \in SUBSET Images :
           e = [x EXCEPT !.selected = n, !.verdict = Joined(c, d, n, J)]
    BY <1>2 DEF Mixed
  <2>2. c \in Rows /\ d \in Rows
    BY <1>2 DEF Sound, WellFormed
  <2> DEFINE v == Joined(c, d, n, J)
  <2>3. v \in [Images -> Verdicts \cup {"none"}] /\ n \in 0 .. MaxImages /\ x \in Rows
    BY <2>2 DEF Rows, Joined
  <2>4. \A i \in Images : v[i] # "none" => ~(i >= n)
    BY DEF Joined
  <2>5. \A i \in Images : v[i] # "none" => i < n
    BY <2>3, <2>4, BoundAssumption DEF Images
  <2> HIDE DEF v
  <2>6. e = [x EXCEPT !.selected = n, !.verdict = v]
    BY <2>1 DEF v
  <2>7. e \in Rows /\ e.verdict = v /\ e.selected = n
    BY <2>3, <2>6 DEF Rows
  <2> QED BY <1>2, <2>5, <2>7 DEF Sound, WellFormed, Judged
<1> QED BY <1>1, <1>2

LEMMA PullRestKeeps == ASSUME NEW t \in BOOLEAN, IInv(t), PullRest, t \/ ~TornNow PROVE IInv(t)'
<1> DEFINE Read(r) == Mixed(merge.copy[r], db[merge.from][r])
<1>1. PICK c \in [Runs -> UNION {Read(r) : r \in Runs}] :
         /\ \A r \in Runs : c[r] \in Read(r)
         /\ merge' = [merge EXCEPT !.pc = "runs", !.from = Local, !.copy = c,
                                   !.todo = {r \in Runs : c[r] # Absent}]
  BY DEF PullRest
<1>2. /\ merge'.pc = "runs" /\ merge'.copy = c /\ merge'.todo = {r \in Runs : c[r] # Absent}
      /\ merge'.open = merge.open /\ merge'.seen = merge.seen /\ merge.pc = "pull"
  BY <1>1 DEF IInv, ScriptInv, PullRest
<1>3. ASSUME NEW r \in Runs PROVE c[r] \in Rows \cup {Absent} /\ (c[r] # Absent => Sound(c[r], t))
  <2>1. /\ merge.copy[r] \in Rows \cup {Absent}
        /\ merge.copy[r] # Absent => Sound(merge.copy[r], t)
        /\ db[merge.from][r] # Absent => Sound(db[merge.from][r], t)
    BY DEF IInv, ScriptInv, DbInv, Known, Tables
  <2>2. c[r] \in Read(r)
    BY <1>1
  <2>3. t \/ c[r] \in {Absent, merge.copy[r], db[merge.from][r]} \/ c[r].done = Null
    BY <1>2 DEF TornNow
  <2> QED BY <2>1, <2>2, <2>3, MixedSound
<1>4. c \in Tables
  BY <1>1, <1>3 DEF Tables
<1> HIDE DEF Read
<1>5. ScriptInv(t)'
  <2>1. Local \in Machines
    BY DEF Machines
  <2>2. merge' \in [pc : {"idle", "pull", "runs", "write"}, from : Machines, todo : SUBSET Runs,
                  run : Runs \cup {Absent},
                  copy : Tables, seen : Rows \cup {Absent}, open : BOOLEAN, draft : Tables]
    BY <1>1, <1>4, <2>1 DEF IInv, ScriptInv
  <2> QED BY <1>2, <1>3, <2>2 DEF ScriptInv
<1>6. DbInv(t)'
  BY DbStays DEF PullRest, IInv
<1>7. DraftInv(t)' /\ SeenInv' /\ TodoInv'
  BY <1>2 DEF DraftInv, SeenInv, TodoInv, IInv, ScriptInv
<1> QED BY <1>5, <1>6, <1>7 DEF IInv

LEMMA ReadRunKeeps == ASSUME NEW t \in BOOLEAN, IInv(t), NEW r \in Runs, ReadRun(r) PROVE IInv(t)'
<1>1. /\ merge.pc = "runs" /\ r \in merge.todo /\ db' = db
      /\ merge' = [merge EXCEPT !.pc = "write", !.run = r, !.todo = @ \ {r}, !.seen = Current[r]]
  BY DEF ReadRun
<1>2. /\ merge'.pc = "write" /\ merge'.run = r /\ merge'.todo = merge.todo \ {r}
      /\ merge'.seen = Current[r] /\ merge'.copy = merge.copy
      /\ merge'.open = merge.open /\ merge'.draft = merge.draft
  BY <1>1 DEF IInv, ScriptInv
<1>3. Current' = Current
  BY <1>1, <1>2 DEF Current
<1>4. DbInv(t)'
  BY <1>1, DbStays DEF IInv
<1>5. ScriptInv(t)'
  <2>1. Current[r] \in Rows \cup {Absent}
    BY TableType DEF IInv, Tables
  <2>2. merge.copy[r] # Absent
    BY <1>1 DEF IInv, ScriptInv
  <2> QED BY <1>1, <1>2, <2>1, <2>2 DEF IInv, ScriptInv
<1>6. DraftInv(t)'
  BY <1>1, <1>2 DEF IInv, DraftInv, Known, Own, OwnOrTheirs
<1>7. SeenInv'
  BY <1>2, <1>3 DEF SeenInv, Reaches
<1>8. TodoInv'
  BY <1>1, <1>2, <1>3 DEF IInv, TodoInv
<1> QED BY <1>4, <1>5, <1>6, <1>7, <1>8 DEF IInv

\* A row that is inserted from the copy has its completion and no verdicts yet.
LEMMA InsertedSound ==
    ASSUME NEW t \in BOOLEAN, NEW c, Sound(c, t)
    PROVE  SoundWith(Inserted(c), c, t) /\ Inserted(c) \in Rows /\ Inserted(c).done = c.done
<1> DEFINE e == Inserted(c)
<1>1. c \in Rows /\ MaxImages \in Nat
  BY BoundAssumption DEF Sound, WellFormed
<1>2. /\ e \in Rows /\ e.done = c.done
      /\ e.verdict = [i \in Images |-> "none"]
  <2>1. e = [c EXCEPT !.selected = 0, !.verdict = [i \in Images |-> "none"]]
    BY DEF Inserted, Fresh
  <2>2. 0 \in 0 .. MaxImages
    BY <1>1
  <2>3. [i \in Images |-> "none"] \in [Images -> Verdicts \cup {"none"}]
    OBVIOUS
  <2> HIDE DEF e
  <2> QED BY <1>1, <2>1, <2>2, <2>3 DEF Rows
<1>3. Judged(e) = {} /\ c # Absent
  BY <1>1, <1>2, FreshSound DEF Judged
<1> HIDE DEF e
<1> QED BY <1>2, <1>3 DEF SoundWith, WellFormed, e

\* A row that is updated from the copy keeps its verdicts; a completion stays, or comes
\* from the copy if what was read had none.
LEMMA UpdatedSound ==
    ASSUME NEW t \in BOOLEAN, NEW d, NEW c, NEW seen, SoundWith(d, c, t), c \in Rows
    PROVE  LET e == Updated(d, c, seen) IN
           /\ SoundWith(e, c, t) /\ e \in Rows /\ e.verdict = d.verdict
           /\ d.done # Null => e.done # Null
           /\ c.done # Null => seen.done # Null \/ e.done # Null
           /\ e.done \in {d.done, c.done}
<1> DEFINE s == IF Newer(c, seen)
                THEN [d EXCEPT !.target = c.target, !.completed = c.completed,
                               !.updated = c.updated]
                ELSE d
           e == Updated(d, c, seen)
<1>1. d \in Rows /\ c # Absent
  BY FreshSound DEF SoundWith, WellFormed
<1>2. s \in Rows /\ s.verdict = d.verdict /\ s.selected = d.selected /\ s.done = d.done
  BY <1>1, Zenon DEF Rows
<1>3. e = IF Missing(c, seen) THEN [s EXCEPT !.done = c.done] ELSE s
  BY DEF Updated
<1> HIDE DEF s, e
<1>4. /\ e \in Rows /\ e.verdict = d.verdict /\ e.selected = d.selected
      /\ e.done = IF Missing(c, seen) THEN c.done ELSE d.done
  BY <1>2, <1>3 DEF Rows
<1>5. SoundWith(e, c, t)
  BY <1>1, <1>4 DEF SoundWith, WellFormed, Covers, Judged
<1> QED BY <1>1, <1>4, <1>5 DEF Missing, e

\* What WriteRun does to the transaction, if anything: a row for the run.
LEMMA DraftKeeps ==
    ASSUME NEW t \in BOOLEAN, IInv(t), merge.pc = "write", NEW e,
           SoundWith(e, merge.copy[merge.run], t), OwnOrTheirs(e, merge.copy[merge.run], merge.run),
           Reaches(e, merge.copy[merge.run]),
           LET d == Current[merge.run] IN
               d # Absent => e.verdict = d.verdict /\ (d.done # Null => e.done # Null),
           merge' = [merge EXCEPT !.pc = "runs", !.run = Absent, !.seen = Absent,
                                  !.open = TRUE, !.draft = [Current EXCEPT ![merge.run] = e]],
           UNCHANGED db
    PROVE  IInv(t)'
<1> DEFINE r == merge.run
<1>1. /\ merge'.pc = "runs" /\ merge'.run = Absent /\ merge'.seen = Absent /\ merge'.open = TRUE
      /\ merge'.todo = merge.todo /\ merge'.copy = merge.copy
      /\ merge'.draft = [Current EXCEPT ![r] = e]
  BY DEF IInv, ScriptInv
<1>2. r \in Runs /\ e \in Rows /\ Current \in Tables
  BY TableType DEF IInv, ScriptInv, SoundWith, WellFormed
<1>3. /\ merge'.draft \in Tables /\ merge'.draft[r] = e
      /\ \A q \in Runs : q # r => merge'.draft[q] = Current[q]
  BY <1>1, <1>2 DEF Tables
<1>4. Current' = merge'.draft
  BY <1>1 DEF Current
<1>5. DbInv(t)'
  BY DbStays DEF IInv
<1>6. ScriptInv(t)'
  <2>1. merge' \in [pc : {"idle", "pull", "runs", "write"}, from : Machines, todo : SUBSET Runs,
                  run : Runs \cup {Absent},
                     copy : Tables, seen : Rows \cup {Absent}, open : BOOLEAN, draft : Tables]
    BY <1>3 DEF IInv, ScriptInv
  <2> QED BY <1>1, <2>1 DEF IInv, ScriptInv
<1>7. ASSUME NEW q \in Runs
      PROVE  /\ Current[q] # Absent => /\ SoundWith(Current[q], merge.copy[q], t)
                                         /\ OwnOrTheirs(Current[q], merge.copy[q], q)
             /\ Known(Local, q) => /\ Current[q] # Absent
                                   /\ Current[q].verdict = db[Local][q].verdict
  BY DEF IInv, DbInv, DraftInv, Current, Machines, Known, Sound, SoundWith, Own, OwnOrTheirs
<1>8. DraftInv(t)'
  <2> SUFFICES ASSUME NEW q \in Runs
               PROVE  /\ merge'.draft[q] # Absent => /\ SoundWith(merge'.draft[q], merge.copy[q], t)
                                                      /\ OwnOrTheirs(merge'.draft[q], merge.copy[q], q)
                      /\ Known(Local, q) => /\ merge'.draft[q] # Absent
                                            /\ merge'.draft[q].verdict = db[Local][q].verdict
    BY <1>1 DEF DraftInv, Known, Own, OwnOrTheirs
  <2>1. CASE q = r
    BY <1>2, <1>3, <1>7, <2>1, FreshSound
  <2>2. CASE q # r
    BY <1>3, <1>7, <2>2
  <2> QED BY <2>1, <2>2
<1>9. SeenInv'
  BY <1>1 DEF SeenInv
<1>10. TodoInv'
  BY <1>1, <1>3, <1>4 DEF IInv, TodoInv
<1> QED BY <1>5, <1>6, <1>8, <1>9, <1>10 DEF IInv

LEMMA WriteRunKeeps == ASSUME NEW t \in BOOLEAN, IInv(t), WriteRun PROVE IInv(t)'
<1> DEFINE r == merge.run
           c == merge.copy[r]
           d == Current[r]
           next == [merge EXCEPT !.pc = "runs", !.run = Absent, !.seen = Absent]
           Wanted == Newer(c, merge.seen) \/ Missing(c, merge.seen)
<1>1. merge.pc = "write" /\ UNCHANGED db /\ r \in Runs /\ Sound(c, t) /\ c \in Rows
  BY DEF WriteRun, IInv, ScriptInv, Sound, WellFormed
<1>2. /\ d # Absent => SoundWith(d, c, t) /\ OwnOrTheirs(d, c, r)
      /\ d = Absent => Own(r) = Null
  BY <1>1 DEF IInv, DbInv, DraftInv, Current, Machines, Known, Sound, SoundWith, Own, OwnOrTheirs
<1>3. CASE /\ merge.seen = Absent /\ d = Absent
           /\ merge' = [next EXCEPT !.open = TRUE, !.draft = [Current EXCEPT ![r] = Inserted(c)]]
  <2>1. SoundWith(Inserted(c), c, t) /\ Reaches(Inserted(c), c)
    BY <1>1, InsertedSound, FreshSound DEF Reaches
  <2>2. OwnOrTheirs(Inserted(c), c, r)
    BY <1>1, <1>2, <1>3, InsertedSound, FreshSound DEF OwnOrTheirs
  <2> QED BY <1>1, <1>3, <2>1, <2>2, DraftKeeps
<1>4. CASE /\ merge.seen # Absent /\ Wanted
           /\ merge' = [next EXCEPT !.open = TRUE,
                                    !.draft = [Current EXCEPT ![r] = Updated(@, c, merge.seen)]]
  <2> DEFINE e == Updated(d, c, merge.seen)
  <2>1. Reaches(d, merge.seen)
    BY <1>1, <1>4 DEF IInv, SeenInv
  <2>2. /\ SoundWith(e, c, t) /\ e \in Rows /\ e.verdict = d.verdict
        /\ d.done # Null => e.done # Null
        /\ c.done # Null => merge.seen.done # Null \/ e.done # Null
        /\ e.done \in {d.done, c.done}
    BY <1>1, <1>2, <2>1, UpdatedSound DEF Reaches
  <2>5. OwnOrTheirs(e, c, r)
    BY <1>1, <1>2, <2>1, <2>2, FreshSound DEF OwnOrTheirs, Reaches
  <2>3. Reaches(e, c)
    BY <2>1, <2>2, FreshSound DEF Reaches
  <2>4. merge' = [next EXCEPT !.open = TRUE, !.draft = [Current EXCEPT ![r] = e]]
    BY <1>1, <1>4, TableType DEF IInv, Tables
  <2> HIDE DEF e
  <2> QED BY <1>1, <2>2, <2>3, <2>4, <2>5, DraftKeeps
<1>5. CASE merge.seen # Absent /\ ~Wanted /\ merge' = next
  <2>1. /\ merge'.pc = "runs" /\ merge'.run = Absent /\ merge'.seen = Absent
        /\ merge'.todo = merge.todo /\ merge'.copy = merge.copy
        /\ merge'.open = merge.open /\ merge'.draft = merge.draft
    BY <1>5 DEF IInv, ScriptInv
  <2>2. Current' = Current
    BY <1>1, <2>1 DEF Current
  <2>3. Reaches(d, c)
    BY <1>1, <1>5 DEF IInv, SeenInv, Reaches, Missing
  <2>4. DbInv(t)'
    BY <1>1, DbStays DEF IInv
  <2>5. ScriptInv(t)'
    BY <1>5, <2>1 DEF IInv, ScriptInv
  <2>6. DraftInv(t)'
    BY <1>1, <2>1 DEF IInv, DraftInv, Known, Own, OwnOrTheirs
  <2>7. SeenInv' /\ TodoInv'
    BY <1>1, <2>1, <2>2, <2>3 DEF IInv, SeenInv, TodoInv
  <2> QED BY <2>4, <2>5, <2>6, <2>7 DEF IInv
<1> QED BY <1>3, <1>4, <1>5 DEF WriteRun

\* Images first, then verdicts: a merged row has those of both sides, its own where both
\* have one, and so whatever completion it took over is earned.
LEMMA MergedSound ==
    ASSUME NEW t \in BOOLEAN, NEW d, NEW c, SoundWith(d, c, t), Sound(c, t)
    PROVE  LET e == WithVerdicts(WithImages(d, c), c) IN
           /\ Sound(e, t) /\ e \in Rows /\ e.done = d.done
           /\ e.selected >= c.selected /\ Judged(c) \subseteq Judged(e)
           /\ \A i \in Judged(d) : e.verdict[i] = d.verdict[i]
<1> DEFINE s == WithImages(d, c)
           e == WithVerdicts(s, c)
<1>1. /\ d \in Rows /\ c \in Rows
      /\ \A i \in Judged(d) : i < d.selected
      /\ \A i \in Judged(c) : i < c.selected
  BY DEF SoundWith, Sound, WellFormed
<1>2. MaxImages \in Nat /\ d.selected \in 0 .. MaxImages /\ c.selected \in 0 .. MaxImages
  BY <1>1, BoundAssumption DEF Rows
<1>3. /\ s \in Rows /\ s.verdict = d.verdict /\ s.done = d.done
      /\ s.selected \in 0 .. MaxImages /\ s.selected >= d.selected /\ s.selected >= c.selected
  BY <1>1, <1>2 DEF WithImages, Rows
<1> HIDE DEF s
<1>4. /\ e \in Rows /\ e.done = d.done /\ e.selected = s.selected
      /\ \A i \in Images : e.verdict[i] = IF d.verdict[i] = "none" /\ i < s.selected
                                         THEN c.verdict[i] ELSE d.verdict[i]
  BY <1>1, <1>3 DEF WithVerdicts, Rows
<1> HIDE DEF e
<1>5. Judged(c) \subseteq Judged(e) /\ \A i \in Judged(d) : e.verdict[i] = d.verdict[i]
  BY <1>1, <1>2, <1>3, <1>4 DEF Judged, Images
<1>6. \A i \in Judged(e) : i < e.selected
  BY <1>1, <1>2, <1>3, <1>4 DEF Judged, Images
<1>7. ASSUME ~t, e.done # Null PROVE Covers(e, e.done)
  <2>1. CASE Covers(d, d.done)
    BY <1>4, <1>5, <2>1 DEF Covers, Judged
  <2>2. CASE d.done = c.done
    <3>1. Covers(c, c.done)
      BY <1>4, <1>7, <2>2 DEF Sound
    <3> QED BY <1>4, <1>5, <2>2, <3>1 DEF Covers, Judged
  <2> QED BY <1>4, <1>7, <2>1, <2>2 DEF SoundWith
<1> QED BY <1>3, <1>4, <1>5, <1>6, <1>7 DEF Sound, WellFormed, e, s

\* What a commit makes of the row of a run.
LEMMA CommitRow ==
    ASSUME NEW t \in BOOLEAN, IInv(t), CommitRemote, NEW r \in Runs
    PROVE  LET d == Current[r]
               c == merge.copy[r]
               e == db'[Local][r]
           IN
           /\ e \in Rows \cup {Absent} /\ (e # Absent => Sound(e, t))
           /\ d # Absent => e.done = d.done
           /\ c # Absent => /\ Reaches(e, c) /\ OwnOrTheirs(e, c, r) /\ e.selected >= c.selected
                            /\ Judged(c) \subseteq Judged(e)
           /\ Known(Local, r) => \A i \in Judged(db[Local][r]) :
                                    e.verdict[i] = db[Local][r].verdict[i]
<1> DEFINE d == Current[r]
           c == merge.copy[r]
           e == db'[Local][r]
<1>1. e = IF c = Absent THEN d ELSE WithVerdicts(WithImages(d, c), c)
  <2>1. Local \in Machines /\ db \in [Machines -> Tables]
    BY DEF Machines, IInv, DbInv
  <2> QED BY <2>1 DEF CommitRemote
<1>2. d \in Rows \cup {Absent}
  BY TableType DEF IInv, Tables
<1>3. /\ d # Absent => SoundWith(d, c, t) /\ OwnOrTheirs(d, c, r)
      /\ Known(Local, r) => d # Absent /\ d.verdict = db[Local][r].verdict
  BY DEF IInv, DbInv, DraftInv, Current, Machines, Known, Sound, SoundWith, Own, OwnOrTheirs
<1>4. CASE c = Absent
  <2>1. e = d
    BY <1>1, <1>4
  <2>2. d # Absent => Sound(d, t)
    BY <1>3, <1>4 DEF SoundWith, Sound
  <2> QED BY <1>2, <1>3, <1>4, <2>1, <2>2 DEF Judged
<1>5. CASE c # Absent
  <2>1. Sound(c, t) /\ Reaches(d, c)
    BY <1>5 DEF CommitRemote, IInv, ScriptInv, TodoInv
  <2>2. e = WithVerdicts(WithImages(d, c), c) /\ SoundWith(d, c, t) /\ OwnOrTheirs(d, c, r)
    BY <1>1, <1>3, <1>5, <2>1 DEF Reaches
  <2>3. /\ Sound(e, t) /\ e \in Rows /\ e.done = d.done
        /\ e.selected >= c.selected /\ Judged(c) \subseteq Judged(e)
        /\ \A i \in Judged(d) : e.verdict[i] = d.verdict[i]
    BY <2>1, <2>2, MergedSound
  <2> HIDE DEF e
  <2>4. Reaches(e, c) /\ OwnOrTheirs(e, c, r)
    BY <2>1, <2>2, <2>3, FreshSound DEF Reaches, OwnOrTheirs
  <2> QED BY <1>3, <2>3, <2>4 DEF Judged, e
<1> QED BY <1>4, <1>5

LEMMA CommitKeeps == ASSUME NEW t \in BOOLEAN, IInv(t), CommitRemote PROVE IInv(t)'
<1> DEFINE new == [r \in Runs |->
                   IF merge.copy[r] = Absent THEN Current[r]
                   ELSE WithVerdicts(WithImages(Current[r], merge.copy[r]), merge.copy[r])]
<1>1. /\ Local \in Machines /\ db \in [Machines -> Tables] /\ merge' = Resting
      /\ db' = [db EXCEPT ![Local] = new]
  BY DEF Machines, IInv, DbInv, CommitRemote
<1>2. db'[Local] = new /\ \A m \in Machines : m # Local => db'[m] = db[m]
  BY <1>1
<1>3. new \in Tables
  <2>1. \A r \in Runs : new[r] \in Rows \cup {Absent}
    BY <1>2, CommitRow
  <2> QED BY <2>1 DEF Tables
<1> HIDE DEF new
<1>4. db' \in [Machines -> Tables]
  BY <1>1, <1>3
<1>5. ASSUME NEW m \in Machines, NEW r \in Runs, db'[m][r] # Absent PROVE Sound(db'[m][r], t)
  <2>1. CASE m = Local
    BY <1>5, <2>1, CommitRow
  <2>2. CASE m # Local
    BY <1>2, <1>5, <2>2 DEF IInv, DbInv, Known
  <2> QED BY <2>1, <2>2
<1>6. DbInv(t)'
  BY <1>4, <1>5 DEF DbInv, Known, Sound, WellFormed, Covers, Judged
<1> QED BY <1>1, <1>6, RestKeeps

-------------------------------------------------------------------------------
(* The theorems *)

LEMMA ServerKeeps == ASSUME NEW t \in BOOLEAN, IInv(t), NEW m \in Machines, NEW r \in Runs, Server(m, r) PROVE IInv(t)'
  BY IndexKeeps, PickKeeps, JudgeKeeps, CompleteKeeps, NoteKeeps DEF Server

\* Of a history with torn copies less is known: an invariant for each.
Inv == IInv(TRUE) /\ (~torn => IInv(FALSE)) /\ torn \in BOOLEAN

LEMMA NextKeeps ==
    ASSUME NEW t \in BOOLEAN, IInv(t), [Next]_vars, t \/ ~TornNow PROVE IInv(t)'
<1>1. CASE UNCHANGED vars
  BY <1>1 DEF vars, IInv, DbInv, ScriptInv, DraftInv, SeenInv, TodoInv, Current, Known,
     Reaches, Sound, SoundWith, WellFormed, Covers, Judged, Own, OwnOrTheirs
<1> QED BY <1>1, ServerKeeps, PullKeeps, PullRestKeeps, ReadRunKeeps, WriteRunKeeps, CommitKeeps,
           FailKeeps DEF Next, Script

LEMMA InvHolds == Spec => []Inv
<1>1. Init => Inv
  <2> SUFFICES ASSUME Init, NEW t \in BOOLEAN PROVE IInv(t)
    BY DEF Inv, Init
  <2>1. Table \in Tables /\ \A r \in Runs : Table[r] = Absent
    BY DEF Table, Tables
  <2>2. DbInv(t)
    BY <2>1 DEF Init, DbInv, Known
  <2>3. ScriptInv(t)
    BY <2>1 DEF Init, ScriptInv, Resting, Machines
  <2>4. DraftInv(t) /\ SeenInv /\ TodoInv
    BY DEF Init, DraftInv, SeenInv, TodoInv, Resting
  <2> QED BY <2>2, <2>3, <2>4 DEF IInv
<1>2. ASSUME Inv, [Next]_vars PROVE Inv'
  <2>1. IInv(TRUE)'
    BY <1>2, NextKeeps DEF Inv
  <2>2. torn' \in BOOLEAN /\ (~torn' => ~torn /\ (~TornNow \/ UNCHANGED vars))
    BY <1>2 DEF Inv, Next, History, vars
  <2>3. UNCHANGED vars => ~TornNow
    BY DEF vars, TornNow
  <2>4. ASSUME ~torn' PROVE IInv(FALSE)'
    BY <1>2, <2>2, <2>3, <2>4, NextKeeps DEF Inv
  <2> QED BY <2>1, <2>2, <2>4 DEF Inv
<1> QED BY <1>1, <1>2, PTL DEF Spec

-------------------------------------------------------------------------------
(* Completions of this machine *)

\* Unless it came between the script's read of the run and its write, a completion of this
\* machine is in the transaction, and the script has read of it.
RacedInv ==
    /\ raced \subseteq Runs
    /\ \A r \in Runs \ raced : Own(r) # Null =>
          /\ merge.open => merge.draft[r] # Absent /\ merge.draft[r].done = Own(r)
          /\ merge.pc = "write" /\ merge.run = r => merge.seen # Absent /\ merge.seen.done # Null

\* What is read of a run is its own completion, if that is not raced.
LEMMA CurrentIsOwn ==
    ASSUME RacedInv, NEW r \in Runs \ raced, Own(r) # Null
    PROVE  Current[r] # Absent /\ Current[r].done = Own(r)
  BY DEF RacedInv, Current, Own, Known

\* A step of a server that completes what the script has read as not completed is raced.
LEMMA ServerKeepsRaced ==
    ASSUME IInv(TRUE), RacedInv, NEW m \in Machines, NEW q \in Runs, Server(m, q), History
    PROVE  RacedInv'
<1>1. PICK d : db' = [db EXCEPT ![m][q] = d] /\ merge' = merge /\ (m = Local => ~merge.open)
  BY DEF Server, Index, Pick, Judge, Complete, Note, Retarget, Edit, MayWrite
<1>2. raced' \subseteq Runs /\ (merge.pc # "idle" => raced' = raced \cup RacedNow)
  BY <1>1 DEF History, RacedInv, RacedNow
<1>3. merge.pc = "idle" => ~merge.open
  BY DEF IInv, ScriptInv
<1> SUFFICES ASSUME NEW r \in Runs \ raced', Own(r)' # Null
             PROVE  /\ merge.open => merge.draft[r] # Absent /\ merge.draft[r].done = Own(r)'
                    /\ merge.pc = "write" /\ merge.run = r
                       => merge.seen # Absent /\ merge.seen.done # Null
  BY <1>1, <1>2 DEF RacedInv
<1>4. ASSUME merge.open PROVE merge.draft[r] # Absent /\ merge.draft[r].done = Own(r)'
  <2>1. db'[Local] = db[Local]
    BY <1>1, <1>4 DEF IInv, DbInv
  <2>2. Own(r)' = Own(r)
    BY <2>1 DEF Own, Known
  <2> QED BY <1>2, <1>3, <1>4, <2>2 DEF RacedInv
<1>5. ASSUME merge.pc = "write", merge.run = r PROVE merge.seen # Absent /\ merge.seen.done # Null
  <2>1. r \notin raced /\ r \notin RacedNow
    BY <1>2, <1>5
  <2>2. Own(r) # Null
    BY <1>5, <2>1 DEF RacedNow
  <2> QED BY <1>5, <2>1, <2>2 DEF RacedInv
<1> QED BY <1>4, <1>5

\* What the script writes of a run is what it was completed as here, if it has read that it was.
LEMMA WriteKeepsRaced ==
    ASSUME IInv(TRUE), RacedInv, WriteRun, History PROVE RacedInv'
<1> DEFINE q == merge.run
           c == merge.copy[q]
<1>1. /\ db' = db /\ merge.pc = "write" /\ merge'.pc = "runs" /\ q \in Runs
      /\ \/ merge'.draft = merge.draft /\ merge'.open = merge.open
         \/ /\ merge.seen = Absent /\ Current[q] = Absent
            /\ merge'.draft = [Current EXCEPT ![q] = Inserted(c)]
         \/ /\ merge.seen # Absent
            /\ merge'.draft = [Current EXCEPT ![q] = Updated(@, c, merge.seen)]
  BY DEF WriteRun, IInv, ScriptInv
<1>2. raced' = raced \cup RacedNow /\ raced' \subseteq Runs
  BY <1>1 DEF History, RacedInv, RacedNow
<1>3. Current \in Tables /\ c \in Rows
  BY <1>1, TableType DEF IInv, ScriptInv, Sound, WellFormed
<1> SUFFICES ASSUME NEW r \in Runs \ raced', Own(r) # Null, merge'.open
             PROVE  merge'.draft[r] # Absent /\ merge'.draft[r].done = Own(r)
  BY <1>1, <1>2 DEF RacedInv, Own, Known
<1>4. Current[r] # Absent /\ Current[r].done = Own(r) /\ r \notin raced
  BY <1>2, CurrentIsOwn
<1>5. CASE merge'.draft = merge.draft /\ merge'.open = merge.open
  BY <1>4, <1>5 DEF Current
<1>6. CASE /\ merge.seen = Absent /\ Current[q] = Absent
           /\ merge'.draft = [Current EXCEPT ![q] = Inserted(c)]
  BY <1>3, <1>4, <1>6 DEF Tables
<1>7. CASE /\ merge.seen # Absent
           /\ merge'.draft = [Current EXCEPT ![q] = Updated(@, c, merge.seen)]
  <2>1. CASE r # q
    BY <1>3, <1>4, <1>7, <2>1 DEF Tables
  <2>2. CASE r = q
    <3>1. merge.seen.done # Null
      BY <1>1, <1>4, <2>2 DEF RacedInv
    <3>2. merge'.draft[r] = Updated(Current[r], c, merge.seen) /\ Current[r] \in Rows
      BY <1>1, <1>3, <1>4, <1>7, <2>2 DEF Tables
    <3>3. ~Missing(c, merge.seen)
      BY <3>1 DEF Missing
    <3>4. PICK e \in Rows : merge'.draft[r] = e /\ e.done = Current[r].done
      <4> DEFINE d == Current[r]
      <4>1. [d EXCEPT !.target = c.target, !.completed = c.completed, !.updated = c.updated] \in Rows
        BY <1>3, <3>2, Zenon DEF Rows
      <4> QED BY <3>2, <3>3, <4>1 DEF Updated, Rows
    <3> QED BY <1>4, <3>4, FreshSound
  <2> QED BY <2>1, <2>2
<1> QED BY <1>1, <1>5, <1>6, <1>7

LEMMA RacedHolds == Spec => []RacedInv
<1>1. Init => RacedInv
  BY DEF Init, RacedInv, Own, Known, Table, Resting, Machines
<1>2. ASSUME IInv(TRUE), RacedInv, [Next]_vars PROVE RacedInv'
  <2>1. CASE UNCHANGED vars
    BY <1>2, <2>1 DEF vars, RacedInv, Own, Known
  <2>2. ASSUME merge' = Resting, History PROVE RacedInv'
    BY <2>2 DEF RacedInv, History, Resting
  <2>3. ASSUME NEW m \in Remotes, Pull(m), History PROVE RacedInv'
    BY <1>2, <2>3 DEF RacedInv, Pull, Resting, History, RacedNow
  <2>4. ASSUME PullRest, History PROVE RacedInv'
    <3>1. /\ db' = db /\ merge'.pc = "runs" /\ ~merge.open /\ merge'.open = merge.open
      BY <1>2, <2>4 DEF PullRest, IInv, ScriptInv
    <3> QED BY <1>2, <2>4, <3>1 DEF RacedInv, History, RacedNow, Own, Known
  <2>5. ASSUME NEW r \in Runs, ReadRun(r), History PROVE RacedInv'
    <3>1. /\ db' = db /\ merge'.pc = "write" /\ merge'.run = r /\ merge'.seen = Current[r]
          /\ merge'.open = merge.open /\ merge'.draft = merge.draft
      BY <1>2, <2>5 DEF ReadRun, IInv, ScriptInv
    <3>2. raced \subseteq raced' /\ raced' \subseteq Runs
      BY <1>2, <2>5, <3>1 DEF History, RacedInv, RacedNow
    <3> QED BY <1>2, <3>1, <3>2, CurrentIsOwn DEF RacedInv, Own, Known
  <2> QED BY <1>2, <2>1, <2>2, <2>3, <2>4, <2>5, ServerKeepsRaced, WriteKeepsRaced
          DEF Next, Script, CommitRemote, Fail
<1>3. Inv => IInv(TRUE)
  BY DEF Inv
<1> QED BY <1>1, <1>2, <1>3, InvHolds, PTL DEF Spec

-------------------------------------------------------------------------------
(* The theorems *)

\* Every database, the pulled copy and the transaction have their types, and a verdict is
\* about an image that is there: images are merged before verdicts.
THEOREM TypeCorrect == Spec => []TypeOK
<1>1. Inv /\ RacedInv => TypeOK
  BY DEF Inv, IInv, DbInv, ScriptInv, Sound, WellFormed, RacedInv, TypeOK
<1> QED BY <1>1, InvHolds, RacedHolds, PTL

\* fill_validation takes a completion over that this machine's verdicts do not earn;
\* merge_image_validations brings the verdicts that do before anyone can see it, provided
\* that the copies of remote databases had each completed run in a state it was in.
THEOREM CompletionsAreEarned == Spec => []CompletionIsEarned
<1>1. Inv => CompletionIsEarned
  BY DEF Inv, IInv, DbInv, Sound, Covers, CompletionIsEarned
<1> QED BY <1>1, InvHolds, PTL

\* A merge that commits has delivered, although the script reads each row before its
\* transaction keeps the server out, and even if the copy is torn.
THEOREM MergesDeliver == Spec => MergeDelivers
<1>1. Inv => (CommitRemote => Delivered)
  <2> SUFFICES ASSUME IInv(TRUE), CommitRemote, NEW r \in Runs, merge.copy[r] # Absent
               PROVE  LET c == merge.copy[r]
                          d == db'[Local][r]
                      IN  /\ d # Absent
                          /\ d.selected >= c.selected /\ Judged(c) \subseteq Judged(d)
                          /\ d.done \in {c.done, Own(r)}
                          /\ d.done = Null => c.done = Null /\ Own(r) = Null
    BY DEF Inv, Delivered
  <2> QED BY CommitRow DEF Reaches, OwnOrTheirs
<1> QED BY <1>1, InvHolds, PTL DEF Spec, MergeDelivers

\* fill_validation: a completion of this machine that did not come between the read of the
\* run and its update is not replaced by the remote's.
THEOREM OwnFactsAreKept == Spec => OwnFactsStay
<1>1. ASSUME Inv, RacedInv, CommitRemote, NEW r \in Runs \ raced, Own(r) # Null
      PROVE  db'[Local][r].done = Own(r)
  <2>1. Current[r] # Absent /\ Current[r].done = Own(r)
    BY <1>1, CurrentIsOwn
  <2>2. CASE merge.copy[r] = Absent
    BY <1>1, <2>1, <2>2 DEF CommitRemote, Inv, IInv, DbInv, Machines
  <2>3. CASE merge.copy[r] # Absent
    BY <1>1, <2>1, <2>3, CommitRow DEF Inv
  <2> QED BY <2>2, <2>3
<1>2. Inv /\ RacedInv
      => (CommitRemote => \A r \in Runs \ raced : Own(r) # Null => db'[Local][r].done = Own(r))
  BY <1>1
<1> QED BY <1>2, InvHolds, RacedHolds, PTL DEF Spec, OwnFactsStay

\* A server does not give a second verdict for an image, and writes one row at a time.
LEMMA ServerKeepsVerdicts ==
    ASSUME IInv(TRUE), NEW m \in Machines, NEW r \in Runs, Server(m, r), NEW q \in Runs,
           Known(Local, q),
           NEW i \in Judged(db[Local][q])
    PROVE  db'[Local][q].verdict[i] = db[Local][q].verdict[i]
<1> DEFINE d == db[m][r]
<1>1. db \in [Machines -> Tables] /\ Local \in Machines /\ db[Local][q] \in Rows
  BY DEF IInv, DbInv, Machines, Known, Sound, WellFormed
<1>2. ASSUME NEW e, Edit(m, r, e), Known(m, r) => \A j \in Judged(d) : e.verdict[j] = d.verdict[j]
      PROVE  db'[Local][q].verdict[i] = db[Local][q].verdict[i]
  <2>1. db' = [db EXCEPT ![m][r] = e]
    BY <1>2 DEF Edit
  <2>2. CASE m = Local /\ r = q
    BY <1>1, <1>2, <2>1, <2>2 DEF Tables
  <2>3. CASE m # Local \/ r # q
    <3>1. db'[Local][q] = db[Local][q]
      BY <1>1, <2>1, <2>3
    <3> QED BY <3>1
  <2> QED BY <2>2, <2>3
<1>3. Known(m, r) => d \in Rows
  BY DEF IInv, DbInv, Sound, WellFormed
<1>4. CASE Index(m, r)
  BY <1>2, <1>4 DEF Index
<1>5. CASE Pick(m, r)
  BY <1>2, <1>3, <1>5 DEF Pick, Rows
<1>6. CASE Judge(m, r)
  <2>1. PICK j \in Images, v \in Verdicts :
           d.verdict[j] = "none" /\ Edit(m, r, [d EXCEPT !.verdict[j] = v])
    BY <1>6 DEF Judge
  <2>2. \A k \in Judged(d) : [d EXCEPT !.verdict[j] = v].verdict[k] = d.verdict[k]
    BY <1>3, <1>6, <2>1 DEF Judge, Judged, Rows
  <2> QED BY <1>2, <2>1, <2>2
<1>7. CASE Complete(m, r)
  BY <1>2, <1>3, <1>7 DEF Complete, Rows
<1>8. CASE Note(m, r)
  BY <1>2, <1>3, <1>8 DEF Note, Rows
<1>9. CASE Retarget(m, r)
  BY <1>2, <1>3, <1>9 DEF Retarget, Rows
<1> QED BY <1>4, <1>5, <1>6, <1>7, <1>8, <1>9 DEF Server

\* INSERT OR IGNORE: no step, whoever takes it, replaces a verdict given on this machine.
THEOREM OwnVerdictsAreKept == Spec => OwnVerdictsStay
<1>1. ASSUME Inv, Next PROVE Kept
  <2>1. ASSUME UNCHANGED db PROVE Kept
    BY <2>1 DEF Kept
  <2>2. ASSUME CommitRemote PROVE Kept
    BY <1>1, <2>2, CommitRow DEF Inv, Kept
  <2>3. ASSUME NEW m \in Machines, NEW r \in Runs, Server(m, r) PROVE Kept
    BY <1>1, <2>3, ServerKeepsVerdicts DEF Inv, Kept
  <2> QED BY <1>1, <2>1, <2>2, <2>3 DEF Next, Script, Pull, PullRest, ReadRun, WriteRun, Fail
<1> QED BY <1>1, InvHolds, PTL DEF Spec, OwnVerdictsStay

===============================================================================
