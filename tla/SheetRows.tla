------------------------------- MODULE SheetRows -------------------------------
(***************************************************************************)
(* The cells of the Google Sheet: where the results of runs are written    *)
(* (_write_fields, write_run_batch in app/services/sheet_writeback.py) and *)
(* how they are read back (fetch_done_runs in app/services/sheets.py).     *)
(*                                                                         *)
(* A writer reads the whole sheet, makes it wide enough, adds the columns  *)
(* that are missing, and writes to rows and columns by the numbers it      *)
(* worked out from that first read.  Each of these is a request of its     *)
(* own, and people sort rows and insert rows and columns in between.  A    *)
(* sync writes run after run with one client, which looks at the width of  *)
(* the grid once.                                                          *)
(* Module Completion has what is written, for one row that never moves.    *)
(*                                                                         *)
(* A cell is a sequence, so that blank cells, names and results compare:   *)
(* <<>>, <<"folder">>, <<run>>, <<run, column>>.                           *)
(***************************************************************************)
EXTENDS Integers, FiniteSets, SequencesExt

CONSTANTS
    Writers,    \* background tasks and syncs, of all machines
    Runs,
    Listed,     \* the runs of the sheet's rows at first; some may be listed twice
    Width,      \* columns of the grid at first
    Slack,      \* columns added beyond those required (8 in the code)
    MaxEdits    \* bound: edits by people

AppColumns == <<"compltd_status", "compltd_outcome">>

ASSUME ListedAssumption == Listed \in Seq(Runs)
ASSUME BoundAssumption ==
    /\ Width \in Nat \ {0, 1}
    /\ {Slack, MaxEdits} \subseteq Nat

VARIABLES
    grid,       \* rows of cells, all of one width; row 1 has the headers
    writer,     \* writer -> label and locals
    reported,   \* runs with a task that ended "updated"
    spoiled,    \* a writer has changed a sheet that was rearranged under it
    resorted,   \* runs that were listed twice when rows were sorted
    edits

vars == <<grid, writer, reported, spoiled, resorted, edits>>

Blank == <<>>
Blanks(n) == [k \in 1 .. n |-> Blank]

-------------------------------------------------------------------------------
(* What is worked out from the values of a read *)

\* The headers up to the last one: a read drops blank cells at the end of a row.
Headers(values) ==
    LET named == {k \in DOMAIN values[1] : values[1][k] # Blank}
    IN  SubSeq(values[1], 1, IF named = {} THEN 0 ELSE Max(named))

\* header_index: of two columns with one name, the last.
Column(headers, name) == Max({k \in DOMAIN headers : headers[k] = <<name>>})
HasColumn(headers, name) == <<name>> \in ToSet(headers)

With(headers, name) == IF HasColumn(headers, name) THEN headers ELSE Append(headers, <<name>>)

\* The headers, and behind them those that are missing, in the order of AppColumns.
Completed(headers) == With(With(headers, AppColumns[1]), AppColumns[2])
Missing(headers) == SubSeq(Completed(headers), Len(headers) + 1, Len(Completed(headers)))

\* The rows of a run.
RowsOf(values, r) ==
    LET headers == Headers(values) IN
    {i \in 2 .. Len(values) :
        HasColumn(headers, "folder") /\ values[i][Column(headers, "folder")] = <<r>>}

\* MUTANT of RowOf: a later row replaces an earlier one.
LastRowOf(values, r) == Max(RowsOf(values, r))

\* MUTANT of RowOf: the header row is not counted.
DataRowOf(values, r) == Min(RowsOf(values, r)) - 1

\* _find_run_row: the first of them.
RowOf(values, r) == Min(RowsOf(values, r))

\* row_by_run
RowByRun(values) == [r \in {r \in Runs : RowsOf(values, r) # {}} |-> RowOf(values, r)]

\* The runs that fetch_done_runs finds completed; it takes the first row of a run.
ReadBack ==
    LET headers == Headers(grid) IN
    {r \in Runs :
        /\ RowsOf(grid, r) # {}
        /\ HasColumn(headers, "compltd_status")
        /\ grid[Min(RowsOf(grid, r))][Column(headers, "compltd_status")] = <<r, "compltd_status">>}

-------------------------------------------------------------------------------
(* A writer *)

\* expanded: its client has made the grid wide enough, _expanded.
\* moved: the sheet was rearranged since its read; stale: since the read with which its
\* client measured the grid.
Idle == [pc |-> "idle", runs |-> {}, later |-> {}, rows |-> <<>>, headers |-> <<>>, width |-> 0,
         moved |-> FALSE, expanded |-> FALSE, stale |-> FALSE]

At(w, label) == writer[w].pc = label
GoTo(w, label) == writer' = [writer EXCEPT ![w].pc = label]

\* write_run_batch for all runs of a task; or a write of one run, perhaps the first that
\* sync_all_completions sends.  The latter raises where the former says "missing":
\* neither writes anything for a run that was not found.
Start(w) ==
    /\ At(w, "idle")
    /\ \E S \in SUBSET Runs \ {{}} : \E T \in {S} \cup {{r} : r \in S} :
          writer' = [writer EXCEPT ![w] = [Idle EXCEPT !.pc = "read", !.runs = T, !.later = S \ T]]
    /\ UNCHANGED <<grid, reported, spoiled, resorted, edits>>

\* After one write, well or badly ended: the sync's next run with the same client, or the end.
GoOn(w) ==
    LET v == writer[w] IN
    \/ /\ v.later = {}
       /\ writer' = [writer EXCEPT ![w] = Idle]
    \/ \E r \in v.later :
          writer' = [writer EXCEPT ![w] = [Idle EXCEPT !.pc = "read", !.runs = {r},
                         !.later = v.later \ {r}, !.expanded = v.expanded, !.stale = v.stale]]

\* MUTANT of Read: what another writer has read is used again.
SharedRead(w) ==
    LET others == {v \in Writers : writer[v].headers # <<>>} IN
    /\ At(w, "read")
    /\ writer' = [writer EXCEPT
           ![w].pc = "measure",
           ![w].rows = IF others = {} THEN RowByRun(grid) ELSE writer[CHOOSE v \in others : TRUE].rows,
           ![w].headers = IF others = {} THEN Headers(grid)
                          ELSE writer[CHOOSE v \in others : TRUE].headers]
    /\ UNCHANGED <<grid, reported, spoiled, resorted, edits>>

Read(w) ==
    /\ At(w, "read")
    /\ writer' = [writer EXCEPT ![w].pc = "measure", ![w].rows = RowByRun(grid),
                                ![w].headers = Headers(grid)]
    /\ UNCHANGED <<grid, reported, spoiled, resorted, edits>>

\* MUTANT of Required: the columns to add are not counted.
RequiredNow(headers) == Len(headers)

Required(headers) == Len(Completed(headers))

\* _expand_grid_if_needed looks how wide the grid is, unless its client did before ...
Measure(w) ==
    LET required == Required(writer[w].headers)
        current == Len(grid[1])
    IN
    /\ At(w, "measure")
    /\ writer' = IF writer[w].expanded THEN [writer EXCEPT ![w].pc = "headers"]
                 ELSE IF current >= required
                 THEN [writer EXCEPT ![w].pc = "headers", ![w].expanded = TRUE,
                                     ![w].stale = writer[w].moved]
                 ELSE [writer EXCEPT ![w].pc = "resize",
                                     ![w].width = Max({required, current + Slack})]
    /\ UNCHANGED <<grid, reported, spoiled, resorted, edits>>

Resized(n) ==
    [i \in DOMAIN grid |->
        [k \in 1 .. n |-> IF k <= Len(grid[i]) THEN grid[i][k] ELSE Blank]]

\* ... and sets its width, which has changed if others acted meanwhile; the answer may be
\* lost.
Resize(w) ==
    /\ At(w, "resize")
    /\ grid' = Resized(writer[w].width)
    /\ spoiled' = (spoiled \/ writer[w].moved)
    /\ \/ writer' = [writer EXCEPT ![w].pc = "headers", ![w].expanded = TRUE, ![w].width = 0,
                                   ![w].stale = writer[w].moved]
       \/ GoOn(w)
    /\ UNCHANGED <<reported, resorted, edits>>

\* MUTANT of Behind: the headers the sheet has by now.
BehindNow(w) == Len(Headers(grid))

\* Behind the headers of the read.
Behind(w) == Len(writer[w].headers)

\* The missing names, in the columns from start + 1 on.
WithHeaders(start, names) ==
    [grid EXCEPT ![1] = [k \in DOMAIN @ |->
        IF k \in start + 1 .. start + Len(names) THEN names[k - start] ELSE @[k]]]

\* _ensure_app_headers.  The service refuses cells outside the grid.
AddHeaders(w) ==
    LET names == Missing(writer[w].headers)
        start == Behind(w)
    IN
    /\ At(w, "headers")
    /\ IF names # <<>> /\ start + Len(names) > Len(grid[1])
       THEN /\ GoTo(w, "refused")
            /\ UNCHANGED <<grid, spoiled>>
       ELSE /\ grid' = WithHeaders(start, names)
            /\ spoiled' = (spoiled \/ (names # <<>> /\ writer[w].moved))
            /\ writer' = [writer EXCEPT ![w].pc = "write", ![w].headers = @ \o names]
    /\ UNCHANGED <<reported, resorted, edits>>

\* The runs of a task that its read found.
Found(w) == writer[w].runs \cap DOMAIN writer[w].rows

\* The cells to write, at the numbers that were worked out.
Updates(w) ==
    {[row |-> writer[w].rows[r], column |-> Column(writer[w].headers, c), value |-> <<r, c>>] :
        r \in Found(w), c \in ToSet(AppColumns)}

\* batch_write_values: one request for all runs of the task.
Write(w) ==
    LET To(i, k) == {u \in Updates(w) : u.row = i /\ u.column = k} IN
    /\ At(w, "write")
    /\ HasColumn(writer[w].headers, "folder")
    /\ IF \E u \in Updates(w) : u.column > Len(grid[1])
       THEN /\ GoTo(w, "refused")
            /\ UNCHANGED <<grid, spoiled>>
       ELSE /\ grid' = [i \in DOMAIN grid |-> [k \in DOMAIN grid[i] |->
                           IF To(i, k) = {} THEN grid[i][k] ELSE (CHOOSE u \in To(i, k) : TRUE).value]]
            /\ spoiled' = (spoiled \/ (Found(w) # {} /\ writer[w].moved))
            /\ GoTo(w, "answer")
    /\ UNCHANGED <<reported, resorted, edits>>

\* Status "updated" for the runs that were found, "missing" for the others.
Answer(w) ==
    /\ At(w, "answer")
    /\ reported' = reported \cup Found(w)
    /\ GoOn(w)
    /\ UNCHANGED <<grid, spoiled, resorted, edits>>

\* A missing column or run, a refused or failed request, a lost answer: a sync goes on with
\* its next run.  A restart forgets all.
Fail(w) ==
    /\ writer[w].pc # "idle"
    /\ GoOn(w) \/ writer' = [writer EXCEPT ![w] = Idle]
    /\ UNCHANGED <<grid, reported, spoiled, resorted, edits>>

-------------------------------------------------------------------------------
(* People *)

\* What writers have worked out is out of date.
Moved ==
    writer' = [w \in Writers |-> [writer[w] EXCEPT !.moved = @ \/ writer[w].headers # <<>>,
                                                  !.stale = @ \/ writer[w].expanded]]

Edit ==
    /\ edits < MaxEdits
    /\ edits' = edits + 1
    /\ UNCHANGED <<reported, spoiled>>

Twice == {r \in Runs : Cardinality({i \in 2 .. Len(grid) : <<r>> \in ToSet(grid[i])}) > 1}

\* Rows are sorted.  Which row of a run listed twice is the first may change.
Sort ==
    /\ Edit
    /\ \E i, j \in 2 .. Len(grid) :
          /\ i < j
          /\ grid' = [grid EXCEPT ![i] = grid[j], ![j] = grid[i]]
    /\ resorted' = resorted \cup Twice
    /\ Moved

\* A row for a new run, at the end or before another one.
InsertRow ==
    /\ Edit
    /\ HasColumn(Headers(grid), "folder")
    /\ \E i \in 2 .. Len(grid) + 1, r \in Runs :
          LET folder == Column(Headers(grid), "folder") IN
          /\ \A j \in DOMAIN grid : <<r>> \notin ToSet(grid[j])
          /\ grid' = InsertAt(grid, i, [Blanks(Len(grid[1])) EXCEPT ![folder] = <<r>>])
          /\ IF i > Len(grid) THEN UNCHANGED writer ELSE Moved
    /\ UNCHANGED resorted

\* A column, with a name or blank, somewhere among the others or behind them.
InsertColumn ==
    /\ Edit
    /\ \E k \in 1 .. Len(grid[1]) + 1, name \in {Blank, <<"note">>} :
          /\ grid' = [i \in DOMAIN grid |->
                         InsertAt(grid[i], k, IF i = 1 THEN name ELSE Blank)]
          /\ IF k > Len(Headers(grid)) /\ name = Blank THEN UNCHANGED writer ELSE Moved
    /\ UNCHANGED resorted

Init ==
    /\ grid = <<[Blanks(Width) EXCEPT ![1] = <<"folder">>, ![2] = <<"validation">>]>>
              \o [i \in DOMAIN Listed |-> [Blanks(Width) EXCEPT ![1] = <<Listed[i]>>,
                                                                ![2] = <<"hold">>]]
    /\ writer = [w \in Writers |-> Idle]
    /\ reported = {} /\ spoiled = FALSE /\ resorted = {}
    /\ edits = 0

Next ==
    \/ \E w \in Writers :
          \/ Start(w) \/ Read(w) \/ Measure(w) \/ Resize(w) \/ AddHeaders(w)
          \/ Write(w) \/ Answer(w) \/ Fail(w)
    \/ Sort \/ InsertRow \/ InsertColumn

Spec == Init /\ [][Next]_vars

-------------------------------------------------------------------------------
(* Properties *)

Cells == {Blank} \cup {<<x>> : x \in Runs \cup ToSet(AppColumns)
                                     \cup {"folder", "validation", "note", "hold"}}
                 \cup (Runs \X ToSet(AppColumns))

\* The grid is a rectangle of cells, and the locals keep their types.
TypeOK ==
    /\ grid \in Seq(Seq(Cells)) /\ grid # <<>>
    /\ \A i \in DOMAIN grid : Len(grid[i]) = Len(grid[1])
    /\ DOMAIN writer = Writers
    /\ \A w \in Writers :
          /\ writer[w].pc \in {"idle", "read", "measure", "resize", "headers", "write",
                               "refused", "answer"}
          /\ writer[w].runs \subseteq Runs /\ writer[w].later \subseteq Runs
          /\ DOMAIN writer[w].rows \subseteq Runs
          /\ \A r \in DOMAIN writer[w].rows : writer[w].rows[r] \in 2 .. Len(grid)
          /\ writer[w].headers \in Seq(Cells)
          /\ writer[w].width \in Nat
          /\ {writer[w].moved, writer[w].expanded, writer[w].stale} \subseteq BOOLEAN
    /\ reported \subseteq Runs /\ resorted \subseteq Runs /\ spoiled \in BOOLEAN
    /\ edits \in 0 .. MaxEdits

\* Row and column numbers are worked out in one request and used in later ones.  With
\* any number of writers at once, and rows that are added at the end meanwhile, a result
\* stands in a row of its own run and in its own column; only sorting or inserting
\* between a writer's read and its writes can break that.
ResultsInPlace ==
    ~spoiled =>
        LET headers == Headers(grid) IN
        \A i \in 2 .. Len(grid), k \in DOMAIN grid[1] :
            Len(grid[i][k]) = 2 =>
                /\ k \in DOMAIN headers /\ headers[k] = <<grid[i][k][2]>>
                /\ grid[i][Column(headers, "folder")] = <<grid[i][k][1]>>

\* Two writers that both find the columns missing both add them: at the same place,
\* so that no name is in the sheet twice and none is lost.
HeadersOnce ==
    ~spoiled =>
        \A name \in {"folder", "validation"} \cup ToSet(AppColumns) :
            Cardinality({k \in DOMAIN grid[1] : grid[1][k] = <<name>>})
                \in (IF name \in ToSet(AppColumns) THEN {0, 1} ELSE {1})

\* What was reported as updated is what the next sync reads: writers and readers take
\* the same row of a run that is listed twice, and the same column.  Only a sort may put
\* another row of such a run first.
ReportedIsRead == ~spoiled => reported \ resorted \subseteq ReadBack

\* The grid is wide enough when a writer comes to write, though its width was read in one
\* request and set in another, and a sync looks at it for its first run only: the service
\* refuses no cell, unless people rearranged the sheet since the read with which the
\* writer's client measured it.
NeverRefused ==
    \A w \in Writers : At(w, "refused") => spoiled \/ writer[w].stale
===============================================================================
