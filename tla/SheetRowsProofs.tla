---------------------------- MODULE SheetRowsProofs ----------------------------
(***************************************************************************)
(* Proofs about SheetRows, for any writers, runs, rows and edits.          *)
(***************************************************************************)
EXTENDS SheetRows, FiniteSetTheorems, SequenceTheorems, WellFoundedInduction, TLAPS

-------------------------------------------------------------------------------
(* The inductive invariant *)

IsGrid(g) ==
    /\ g \in Seq(Seq(Cells)) /\ g # <<>>
    /\ \A i \in DOMAIN g : Len(g[i]) = Len(g[1])

Labels == {"idle", "read", "measure", "resize", "headers", "write", "refused", "answer"}
RowMaps == UNION {[R -> Nat] : R \in SUBSET Runs}
WriterStates == [pc : Labels, runs : SUBSET Runs, later : SUBSET Runs, rows : RowMaps,
                 headers : Seq(Cells), width : Nat,
                 moved : BOOLEAN, expanded : BOOLEAN, stale : BOOLEAN]

WritersInv ==
    /\ writer \in [Writers -> WriterStates]
    /\ \A w \in Writers : \A r \in DOMAIN writer[w].rows : writer[w].rows[r] \in 2 .. Len(grid)
SetsInv == reported \subseteq Runs /\ resorted \subseteq Runs /\ spoiled \in BOOLEAN /\ edits \in 0 .. MaxEdits
TypeInv == IsGrid(grid) /\ WritersInv /\ SetsInv

AppNames == ToSet(AppColumns)
Names == {"folder", "validation"} \cup AppNames

\* Column k of g has the name.
Named(g, k, name) == k \in DOMAIN g[1] /\ g[1][k] = <<name>>

\* The columns the application looks for are there once, its own at most once.
OneOfEach(g) ==
    /\ \A name \in Names : \A j, k \in DOMAIN g[1] : Named(g, j, name) /\ Named(g, k, name) => j = k
    /\ \A name \in {"folder", "validation"} : \E k \in DOMAIN g[1] : Named(g, k, name)

\* A result is in its run's row and its own column.
Placed(g) ==
    \A i \in 2 .. Len(g), k \in DOMAIN g[1] : Len(g[i][k]) = 2 =>
        /\ Named(g, k, g[i][k][2])
        /\ \A f \in DOMAIN g[1] : Named(g, f, "folder") => g[i][f] = <<g[i][k][1]>>

\* Row i of g is the first of run r.
FirstRow(g, r, i) ==
    /\ i \in 2 .. Len(g)
    /\ \A f \in DOMAIN g[1] : Named(g, f, "folder") =>
          g[i][f] = <<r>> /\ \A j \in 2 .. i - 1 : g[j][f] # <<r>>

\* The first row of r says that r is completed.
Shown(g, r) ==
    \E i \in 2 .. Len(g), s \in DOMAIN g[1] :
        FirstRow(g, r, i) /\ Named(g, s, "compltd_status") /\ g[i][s] = <<r, "compltd_status">>

\* What a writer v has worked out still holds of g: the headers are those it read, or those
\* it is about to make of them, the room it has made is enough, its rows are first rows.
Fits(g, v) ==
    /\ Headers(g) = v.headers \/ Headers(g) = Completed(v.headers)
    /\ \A r \in DOMAIN v.rows : FirstRow(g, r, v.rows[r])
    /\ v.pc = "resize" => v.width >= Required(v.headers)

\* Where the client of v has measured the grid, it has room for the headers that are to come.
Wide(g, v) == v.expanded /\ ~v.stale => Len(g[1]) >= Len(Completed(Headers(g)))

\* v is sound in g.  What it is about to report is shown, but for the runs of S.
WriterSound(g, v, S) ==
    /\ v.pc \notin {"idle", "read"} => v.headers # <<>>
    /\ v.pc = "write" => \A c \in AppNames : HasColumn(v.headers, c)
    /\ v.headers # <<>> /\ ~v.moved => Fits(g, v)
    /\ v.pc \in {"headers", "write", "refused", "answer"} => v.expanded
    /\ v.expanded /\ v.moved => v.stale
    /\ Wide(g, v)
    /\ v.pc = "refused" => v.stale
    /\ v.pc = "answer" => \A r \in (v.runs \cap DOMAIN v.rows) \ S : Shown(g, r)

Claims ==
    /\ OneOfEach(grid) /\ Placed(grid)
    /\ \A w \in Writers : WriterSound(grid, writer[w], resorted)
    /\ \A r \in reported \ resorted : Shown(grid, r)

IInv == TypeInv /\ (~spoiled => Claims)

-------------------------------------------------------------------------------
(* Numbers *)

LEMMA MinFacts ==
    ASSUME NEW S \in SUBSET Nat, S # {} PROVE Min(S) \in S /\ \A y \in S : Min(S) <= y
<1>1. PICK m \in S : \A y \in S : ~ (<<y, m>> \in OpToRel(<, Nat))
  BY WFMin, NatLessThanWellFounded
<1>2. \A y \in S : ~ (y < m)
  BY <1>1 DEF OpToRel
<1>3. \A y \in S : m <= y
  BY <1>2
<1> QED BY <1>3 DEF Min

LEMMA MaxFacts ==
    ASSUME NEW n \in Nat, NEW S \in SUBSET (1 .. n), S # {}
    PROVE  Max(S) \in S /\ \A y \in S : y <= Max(S)
<1> DEFINE T == {n - x : x \in S}
<1>1. T \in SUBSET Nat /\ T # {}
  <2>1. \A x \in S : n - x \in Nat
    OBVIOUS
  <2> QED BY <2>1
<1>2. Min(T) \in T /\ \A y \in T : Min(T) <= y
  BY <1>1, MinFacts
<1>3. PICK m \in S : Min(T) = n - m
  BY <1>2
<1>4. \A y \in S : m >= y
  <2> SUFFICES ASSUME NEW y \in S PROVE m >= y
    OBVIOUS
  <2>1. n - m <= n - y
    BY <1>2, <1>3
  <2> QED BY <2>1
<1> QED BY <1>4 DEF Max

-------------------------------------------------------------------------------
(* Grids *)

\* A grid, cell by cell.
LEMMA GridFacts ==
    ASSUME NEW g, IsGrid(g)
    PROVE  /\ Len(g) \in Nat \ {0} /\ DOMAIN g = 1 .. Len(g) /\ 1 \in DOMAIN g
           /\ Len(g[1]) \in Nat
           /\ \A i \in 1 .. Len(g) : /\ g[i] \in Seq(Cells) /\ DOMAIN g[i] = 1 .. Len(g[1])
                                     /\ Len(g[i]) = Len(g[1])
           /\ \A i \in 1 .. Len(g), k \in 1 .. Len(g[1]) : g[i][k] \in Cells
<1>1. Len(g) \in Nat /\ DOMAIN g = 1 .. Len(g) /\ g \in [1 .. Len(g) -> Seq(Cells)]
  BY LenProperties DEF IsGrid
<1>2. Len(g) # 0
  BY EmptySeq DEF IsGrid
<1>3. \A i \in 1 .. Len(g) : g[i] \in Seq(Cells) /\ Len(g[i]) = Len(g[1])
  BY <1>1 DEF IsGrid
<1>4. \A i \in 1 .. Len(g) : /\ Len(g[i]) \in Nat /\ DOMAIN g[i] = 1 .. Len(g[i])
                             /\ g[i] \in [1 .. Len(g[i]) -> Cells]
  BY <1>3, LenProperties
<1> QED BY <1>1, <1>2, <1>3, <1>4

LEMMA MakeGrid ==
    ASSUME NEW n \in Nat \ {0}, NEW m \in Nat, NEW g \in [1 .. n -> [1 .. m -> Cells]]
    PROVE  IsGrid(g) /\ Len(g) = n /\ \A x \in 1 .. n : Len(g[x]) = m
<1>1. [1 .. m -> Cells] \subseteq Seq(Cells)
  BY SeqDef
<1>2. g \in Seq(Seq(Cells)) /\ DOMAIN g = 1 .. n
  BY <1>1, SeqDef
<1>3. Len(g) = n
  BY <1>2, LenProperties
<1>4. g # <<>>
  BY <1>3, EmptySeq
<1>5. ASSUME NEW i \in 1 .. n PROVE Len(g[i]) = m
  <2>1. g[i] \in [1 .. m -> Cells]
    OBVIOUS
  <2>2. g[i] \in Seq(Cells) /\ DOMAIN g[i] = 1 .. m
    BY <1>1, <2>1
  <2> QED BY <2>2, LenProperties
<1> QED BY <1>2, <1>3, <1>4, <1>5 DEF IsGrid

Grids(n, m) == [1 .. n -> [1 .. m -> Cells]]

LEMMA GridOf ==
    \A a \in Nat \ {0}, b \in Nat : \A g \in Grids(a, b) :
        IsGrid(g) /\ Len(g) = a /\ \A x \in 1 .. a : Len(g[x]) = b
  BY MakeGrid DEF Grids

LEMMA SameShape ==
    ASSUME NEW g, IsGrid(g), NEW e, e \in [1 .. Len(g) -> [1 .. Len(g[1]) -> Cells]]
    PROVE  IsGrid(e) /\ Len(e) = Len(g) /\ \A x \in 1 .. Len(g) : Len(e[x]) = Len(g[1])
<1>1. Len(g) \in Nat \ {0} /\ Len(g[1]) \in Nat
  BY GridFacts
<1> QED BY <1>1, MakeGrid

LEMMA GridIs ==
    ASSUME NEW g, IsGrid(g) PROVE g \in [1 .. Len(g) -> [1 .. Len(g[1]) -> Cells]]
<1>1. \A i \in 1 .. Len(g) : g[i] \in [1 .. Len(g[1]) -> Cells]
  BY GridFacts, LenProperties
<1> QED BY <1>1, GridFacts, LenProperties DEF IsGrid

LEMMA BlankCell == Blank \in Cells /\ \A name : <<name>> # Blank /\ Blank # <<name>>
  BY DEF Cells, Blank

-------------------------------------------------------------------------------
(* Headers *)

\* What a read returns of the first row: all of it, but for blank cells at the end.
HeadersOf(T, h) ==
    /\ h \in Seq(Cells) /\ Len(h) <= Len(T)
    /\ \A k \in 1 .. Len(h) : h[k] = T[k]
    /\ \A k \in Len(h) + 1 .. Len(T) : T[k] = Blank
    /\ Len(h) # 0 => T[Len(h)] # Blank

LEMMA HeadersFacts == ASSUME NEW g, IsGrid(g) PROVE HeadersOf(g[1], Headers(g))
<1> DEFINE T == g[1]
           named == {k \in DOMAIN T : T[k] # Blank}
           n == IF named = {} THEN 0 ELSE Max(named)
<1>1. /\ Len(T) \in Nat /\ DOMAIN T = 1 .. Len(T) /\ T \in Seq(Cells)
      /\ \A k \in 1 .. Len(T) : T[k] \in Cells
  BY GridFacts
<1>2. named \in SUBSET (1 .. Len(T))
  BY <1>1
<1>3. /\ n \in 0 .. Len(T) /\ \A k \in n + 1 .. Len(T) : T[k] = Blank
      /\ n # 0 => T[n] # Blank
  <2>1. CASE named = {}
    BY <1>1, <2>1
  <2>2. CASE named # {}
    <3>1. Max(named) \in named /\ \A y \in named : y <= Max(named)
      BY <1>1, <1>2, <2>2, MaxFacts
    <3>2. n = Max(named)
      BY <2>2
    <3>3. \A k \in 1 .. Len(T) : k \in named <=> T[k] # Blank
      BY <1>1
    <3> HIDE DEF n, named, T
    <3>4. n \in 1 .. Len(T) /\ T[n] # Blank
      BY <1>2, <3>1, <3>2, <3>3
    <3>5. ASSUME NEW k \in n + 1 .. Len(T) PROVE T[k] = Blank
      <4>1. k \notin named /\ k \in 1 .. Len(T)
        BY <1>1, <3>1, <3>2, <3>4
      <4> QED BY <3>3, <4>1
    <3> QED BY <1>1, <3>4, <3>5
  <2> QED BY <2>1, <2>2
<1>4. Headers(g) = SubSeq(T, 1, n)
  BY DEF Headers
<1> HIDE DEF n, T
<1>5. \A k \in 1 .. n : T[k] \in Cells
  BY <1>1, <1>3
<1>6. /\ SubSeq(T, 1, n) \in Seq(Cells)
      /\ Len(SubSeq(T, 1, n)) = n
      /\ \A k \in 1 .. n : SubSeq(T, 1, n)[k] = T[k]
  <2>1. n \in Int /\ 1 \in Int
    BY <1>3
  <2> QED BY <1>3, <1>5, <2>1, SubSeqProperties
<1>7. HeadersOf(T, SubSeq(T, 1, n))
  BY <1>1, <1>3, <1>6 DEF HeadersOf
<1> QED BY <1>4, <1>7 DEF T

LEMMA HeadersUnique ==
    ASSUME NEW T \in Seq(Cells), NEW h, NEW e, HeadersOf(T, h), HeadersOf(T, e) PROVE h = e
<1>1. Len(h) \in Nat /\ Len(e) \in Nat /\ Len(T) \in Nat
  BY LenProperties DEF HeadersOf
<1>2. ASSUME Len(h) < Len(e) PROVE FALSE
  <2>1. Len(e) \in Len(h) + 1 .. Len(T)
    BY <1>1, <1>2 DEF HeadersOf
  <2> QED BY <1>1, <1>2, <2>1 DEF HeadersOf
<1>3. ASSUME Len(e) < Len(h) PROVE FALSE
  <2>1. Len(h) \in Len(e) + 1 .. Len(T)
    BY <1>1, <1>3 DEF HeadersOf
  <2> QED BY <1>1, <1>3, <2>1 DEF HeadersOf
<1>4. Len(h) = Len(e)
  BY <1>1, <1>2, <1>3
<1> QED BY <1>4, SeqEqual DEF HeadersOf

LEMMA HeadersAre ==
    ASSUME NEW g, IsGrid(g), NEW h, HeadersOf(g[1], h) PROVE Headers(g) = h
<1>1. g[1] \in Seq(Cells)
  BY GridFacts
<1> QED BY <1>1, HeadersFacts, HeadersUnique

\* Of a column that has a name, the last.
LEMMA ColumnFacts ==
    ASSUME NEW h \in Seq(Cells), NEW name, HasColumn(h, name)
    PROVE  Column(h, name) \in 1 .. Len(h) /\ h[Column(h, name)] = <<name>>
<1> DEFINE S == {k \in DOMAIN h : h[k] = <<name>>}
<1>1. Len(h) \in Nat /\ DOMAIN h = 1 .. Len(h)
  BY LenProperties
<1>2. S \in SUBSET (1 .. Len(h))
  BY <1>1
<1>3. S # {}
  BY DEF HasColumn, ToSet
<1>4. Max(S) \in S
  BY <1>1, <1>2, <1>3, MaxFacts
<1> QED BY <1>1, <1>4 DEF Column

\* Columns of the sheet and of its headers are the same.
LEMMA SheetColumn ==
    ASSUME NEW g, IsGrid(g), NEW name
    PROVE  /\ HasColumn(Headers(g), name) <=> \E k \in DOMAIN g[1] : Named(g, k, name)
           /\ HasColumn(Headers(g), name) => Named(g, Column(Headers(g), name), name)
           /\ \A k : Named(g, k, name) => k \in 1 .. Len(Headers(g))
<1> DEFINE h == Headers(g)
<1>1. HeadersOf(g[1], h)
  BY HeadersFacts
<1> HIDE DEF h
<1>2. /\ Len(g[1]) \in Nat /\ DOMAIN g[1] = 1 .. Len(g[1])
      /\ Len(h) \in Nat /\ DOMAIN h = 1 .. Len(h) /\ h \in Seq(Cells)
  BY <1>1, GridFacts, LenProperties DEF HeadersOf
<1>3. \A k : Named(g, k, name) => k \in 1 .. Len(h) /\ h[k] = <<name>>
  <2> SUFFICES ASSUME NEW k, Named(g, k, name) PROVE k \in 1 .. Len(h) /\ h[k] = <<name>>
    OBVIOUS
  <2>1. k \in 1 .. Len(g[1]) /\ g[1][k] # Blank /\ g[1][k] = <<name>>
    BY <1>2, BlankCell DEF Named
  <2>2. k \notin Len(h) + 1 .. Len(g[1])
    BY <1>1, <2>1 DEF HeadersOf
  <2> QED BY <1>1, <1>2, <2>1, <2>2 DEF HeadersOf
<1>4. \A k \in 1 .. Len(h) : h[k] = <<name>> => Named(g, k, name)
  BY <1>1, <1>2 DEF Named, HeadersOf
<1>5. HasColumn(h, name) <=> \E k \in 1 .. Len(h) : h[k] = <<name>>
  BY <1>2 DEF HasColumn, ToSet
<1>6. HasColumn(h, name) => Column(h, name) \in 1 .. Len(h) /\ h[Column(h, name)] = <<name>>
  BY <1>2, ColumnFacts
<1>7. HasColumn(h, name) <=> \E k \in DOMAIN g[1] : Named(g, k, name)
  BY <1>3, <1>4, <1>5 DEF Named
<1>8. HasColumn(h, name) => Named(g, Column(h, name), name)
  BY <1>4, <1>6
<1> QED BY <1>3, <1>7, <1>8 DEF h

\* One header more, if it is missing.
LEMMA WithFacts ==
    ASSUME NEW h \in Seq(Cells), NEW c \in AppNames
    PROVE  /\ With(h, c) \in Seq(Cells)
           /\ HasColumn(With(h, c), c)
           /\ HasColumn(h, c) => With(h, c) = h
           /\ ~HasColumn(h, c) => Len(With(h, c)) = Len(h) + 1 /\ With(h, c)[Len(h) + 1] = <<c>>
           /\ \A k \in 1 .. Len(h) : With(h, c)[k] = h[k]
           /\ \A name : HasColumn(With(h, c), name) <=> HasColumn(h, name) \/ name = c
<1>1. <<c>> \in Cells
  BY DEF Cells, AppNames
<1>2. Len(h) \in Nat /\ DOMAIN h = 1 .. Len(h)
  BY LenProperties
<1>3. CASE HasColumn(h, c)
  BY <1>3 DEF With
<1>4. CASE ~HasColumn(h, c)
  <2> DEFINE e == Append(h, <<c>>)
  <2>1. With(h, c) = e
    BY <1>4 DEF With
  <2>2. /\ e \in Seq(Cells) /\ Len(e) = Len(h) + 1 /\ e[Len(h) + 1] = <<c>>
        /\ \A k \in 1 .. Len(h) : e[k] = h[k]
    BY <1>1, AppendProperties
  <2> HIDE DEF e
  <2>3. DOMAIN e = 1 .. Len(h) + 1
    BY <2>2, LenProperties
  <2>4. HasColumn(e, c)
    BY <1>2, <2>2, <2>3 DEF HasColumn, ToSet
  <2>5. \A name : HasColumn(e, name) <=> HasColumn(h, name) \/ name = c
    <3> SUFFICES ASSUME NEW name PROVE HasColumn(e, name) <=> HasColumn(h, name) \/ name = c
      OBVIOUS
    <3>1. HasColumn(e, name) <=> \E k \in 1 .. Len(h) + 1 : e[k] = <<name>>
      BY <2>3 DEF HasColumn, ToSet
    <3>2. HasColumn(h, name) <=> \E k \in 1 .. Len(h) : h[k] = <<name>>
      BY <1>2 DEF HasColumn, ToSet
    <3>3. \A k \in 1 .. Len(h) + 1 : k \in 1 .. Len(h) \/ k = Len(h) + 1
      BY <1>2
    <3>4. Len(h) + 1 \in 1 .. Len(h) + 1 /\ \A k \in 1 .. Len(h) : k \in 1 .. Len(h) + 1
      BY <1>2
    <3>5. <<c>> = <<name>> <=> name = c
      OBVIOUS
    <3> QED BY <2>2, <3>1, <3>2, <3>3, <3>4, <3>5
  <2> QED BY <1>4, <2>1, <2>2, <2>4, <2>5
<1> QED BY <1>3, <1>4

LEMMA AppColumnFacts ==
    /\ AppNames = {AppColumns[1], AppColumns[2]}
    /\ AppColumns[1] = "compltd_status" /\ AppColumns[2] = "compltd_outcome"
    /\ AppColumns[1] # AppColumns[2]
  BY DEF AppNames, AppColumns, ToSet

\* A writer's headers, and behind them, once each, those that were missing.
Behinds(h, e) ==
    /\ e \in Seq(Cells) /\ Len(h) <= Len(e)
    /\ \A k \in 1 .. Len(h) : e[k] = h[k]
    /\ \A k \in Len(h) + 1 .. Len(e) : \E c \in AppNames : e[k] = <<c>> /\ ~HasColumn(h, c)
    /\ \A j, k \in Len(h) + 1 .. Len(e) : e[j] = e[k] => j = k

LEMMA CompletedFacts ==
    ASSUME NEW h \in Seq(Cells)
    PROVE  /\ Behinds(h, Completed(h))
           /\ \A c \in AppNames : HasColumn(Completed(h), c)
           /\ (\A c \in AppNames : HasColumn(h, c)) => Completed(h) = h
<1> DEFINE a == AppColumns[1]
           b == AppColumns[2]
           d == With(h, a)
           e == With(d, b)
<1>1. Len(h) \in Nat /\ a \in AppNames /\ b \in AppNames /\ a # b /\ <<a>> # <<b>>
      /\ AppNames = {a, b}
  BY AppColumnFacts, LenProperties
<1>2. /\ d \in Seq(Cells) /\ HasColumn(d, a)
      /\ HasColumn(h, a) => d = h
      /\ ~HasColumn(h, a) => Len(d) = Len(h) + 1 /\ d[Len(h) + 1] = <<a>>
      /\ \A k \in 1 .. Len(h) : d[k] = h[k]
      /\ \A name : HasColumn(d, name) <=> HasColumn(h, name) \/ name = a
  <2> HIDE DEF a
  <2> QED BY <1>1, WithFacts
<1> HIDE DEF d
<1>3. /\ e \in Seq(Cells) /\ HasColumn(e, b)
      /\ HasColumn(d, b) => e = d
      /\ ~HasColumn(d, b) => Len(e) = Len(d) + 1 /\ e[Len(d) + 1] = <<b>>
      /\ \A k \in 1 .. Len(d) : e[k] = d[k]
      /\ \A name : HasColumn(e, name) <=> HasColumn(d, name) \/ name = b
  <2> HIDE DEF b
  <2> QED BY <1>1, <1>2, WithFacts
<1>4. Completed(h) = e
  BY DEF Completed, d
<1> HIDE DEF a, b, e
<1>5. HasColumn(d, b) <=> HasColumn(h, b)
  BY <1>1, <1>2
<1>6. \A c \in AppNames : HasColumn(e, c)
  BY <1>1, <1>2, <1>3
<1>7. (\A c \in AppNames : HasColumn(h, c)) => e = h
  BY <1>1, <1>2, <1>3, <1>5
<1>8. CASE HasColumn(h, a) /\ HasColumn(h, b)
  <2>1. e = h
    BY <1>2, <1>3, <1>8
  <2>2. Len(h) + 1 .. Len(e) = {}
    BY <1>1, <2>1
  <2>3. Behinds(h, e)
    BY <1>1, <2>1, <2>2 DEF Behinds
  <2> QED BY <1>4, <1>6, <1>7, <2>3
<1>9. CASE HasColumn(h, a) /\ ~HasColumn(h, b)
  <2>1. Len(e) = Len(h) + 1 /\ e[Len(h) + 1] = <<b>> /\ \A k \in 1 .. Len(h) : e[k] = h[k]
    BY <1>2, <1>3, <1>5, <1>9
  <2>2. Len(h) + 1 .. Len(e) = {Len(h) + 1}
    BY <1>1, <2>1
  <2>3. Behinds(h, e)
    BY <1>1, <1>3, <1>9, <2>1, <2>2 DEF Behinds
  <2> QED BY <1>4, <1>6, <1>7, <2>3
<1>10. CASE ~HasColumn(h, a) /\ HasColumn(h, b)
  <2>1. Len(e) = Len(h) + 1 /\ e[Len(h) + 1] = <<a>> /\ \A k \in 1 .. Len(h) : e[k] = h[k]
    BY <1>2, <1>3, <1>5, <1>10
  <2>2. Len(h) + 1 .. Len(e) = {Len(h) + 1}
    BY <1>1, <2>1
  <2>3. Behinds(h, e)
    BY <1>1, <1>3, <1>10, <2>1, <2>2 DEF Behinds
  <2> QED BY <1>4, <1>6, <1>7, <2>3
<1>11. CASE ~HasColumn(h, a) /\ ~HasColumn(h, b)
  <2>1. Len(d) = Len(h) + 1 /\ Len(e) = Len(h) + 2
    BY <1>1, <1>2, <1>3, <1>5, <1>11
  <2>2. 1 .. Len(h) \subseteq 1 .. Len(d) /\ Len(h) + 1 \in 1 .. Len(d)
    BY <1>1, <2>1
  <2>3. e[Len(h) + 1] = <<a>> /\ e[Len(h) + 2] = <<b>> /\ \A k \in 1 .. Len(h) : e[k] = h[k]
    BY <1>1, <1>2, <1>3, <1>5, <1>11, <2>1, <2>2
  <2>4. Len(h) + 1 .. Len(e) = {Len(h) + 1, Len(h) + 2}
    BY <1>1, <2>1
  <2>5. Behinds(h, e)
    BY <1>1, <1>3, <1>11, <2>1, <2>3, <2>4 DEF Behinds
  <2> QED BY <1>4, <1>6, <1>7, <2>5
<1> QED BY <1>8, <1>9, <1>10, <1>11

LEMMA CompletedTwice ==
    ASSUME NEW h \in Seq(Cells) PROVE Completed(Completed(h)) = Completed(h)
  BY CompletedFacts DEF Behinds

\* What is missing is what is behind.
LEMMA MissingFacts ==
    ASSUME NEW h \in Seq(Cells)
    PROVE  /\ Missing(h) \in Seq(Cells)
           /\ Len(Missing(h)) = Len(Completed(h)) - Len(h)
           /\ h \o Missing(h) = Completed(h)
           /\ \A k \in 1 .. Len(Missing(h)) : Missing(h)[k] = Completed(h)[Len(h) + k]
           /\ Missing(h) = <<>> <=> Len(Completed(h)) = Len(h)
<1> DEFINE e == Completed(h)
           s == Missing(h)
<1>1. e \in Seq(Cells) /\ Len(h) <= Len(e) /\ \A k \in 1 .. Len(h) : e[k] = h[k]
  BY CompletedFacts DEF Behinds
<1>2. s = SubSeq(e, Len(h) + 1, Len(e))
  BY DEF Missing
<1> HIDE DEF e, s
<1>3. Len(h) \in Nat /\ Len(e) \in Nat /\ \A k \in 1 .. Len(e) : e[k] \in Cells
  BY <1>1, LenProperties
<1>4. \A k \in Len(h) + 1 .. Len(e) : e[k] \in Cells
  BY <1>3
<1>5. /\ s \in Seq(Cells)
      /\ Len(s) = IF Len(h) + 1 <= Len(e) THEN Len(e) - (Len(h) + 1) + 1 ELSE 0
      /\ \A k \in 1 .. Len(e) - (Len(h) + 1) + 1 : s[k] = e[Len(h) + 1 + k - 1]
  <2>1. Len(h) + 1 \in Int /\ Len(e) \in Int
    BY <1>3
  <2> QED BY <1>2, <1>4, <2>1, SubSeqProperties
<1>6. Len(s) = Len(e) - Len(h)
  BY <1>1, <1>3, <1>5
<1>7. \A k \in 1 .. Len(s) : s[k] = e[Len(h) + k]
  BY <1>3, <1>5, <1>6
<1>8. h \o s = e
  <2>1. /\ h \o s \in Seq(Cells) /\ Len(h \o s) = Len(h) + Len(s)
        /\ \A k \in 1 .. Len(h) + Len(s) :
              (h \o s)[k] = IF k <= Len(h) THEN h[k] ELSE s[k - Len(h)]
    BY <1>5, ConcatProperties
  <2> DEFINE c == h \o s
  <2> HIDE DEF c
  <2>2. Len(c) = Len(e) /\ c \in Seq(Cells)
    BY <1>3, <1>6, <2>1 DEF c
  <2>3. ASSUME NEW k \in 1 .. Len(c) PROVE c[k] = e[k]
    <3>1. CASE k <= Len(h)
      BY <1>1, <1>3, <1>6, <2>1, <2>2, <2>3, <3>1 DEF c
    <3>2. CASE k > Len(h)
      <4>1. k - Len(h) \in 1 .. Len(s) /\ Len(h) + (k - Len(h)) = k
        BY <1>3, <1>6, <2>2, <2>3, <3>2
      <4>2. c[k] = s[k - Len(h)]
        BY <1>3, <1>6, <2>1, <2>2, <2>3, <3>2 DEF c
      <4> QED BY <1>7, <4>1, <4>2
    <3> QED BY <1>3, <2>2, <3>1, <3>2
  <2>4. c = e
    BY <1>1, <2>2, <2>3, SeqEqual
  <2> QED BY <2>4 DEF c
<1>9. s = <<>> <=> Len(e) = Len(h)
  BY <1>3, <1>5, <1>6, EmptySeq
<1> QED BY <1>5, <1>6, <1>7, <1>8, <1>9 DEF e, s

-------------------------------------------------------------------------------
(* Rows *)

\* The rows of a run are rows, and so is the first of them.
LEMMA RowsType ==
    ASSUME NEW g, IsGrid(g), NEW r
    PROVE  /\ RowsOf(g, r) \subseteq 2 .. Len(g)
           /\ RowsOf(g, r) # {} => RowOf(g, r) \in RowsOf(g, r) /\ \A i \in RowsOf(g, r) : RowOf(g, r) <= i
<1>1. RowsOf(g, r) \subseteq 2 .. Len(g)
  BY DEF RowsOf
<1>2. RowsOf(g, r) \in SUBSET Nat
  BY <1>1, GridFacts
<1> QED BY <1>1, <1>2, MinFacts DEF RowOf

LEMMA RowMapType ==
    ASSUME NEW g, IsGrid(g)
    PROVE  /\ RowByRun(g) \in RowMaps
           /\ \A r \in DOMAIN RowByRun(g) : RowByRun(g)[r] \in 2 .. Len(g)
<1> DEFINE R == {r \in Runs : RowsOf(g, r) # {}}
<1>1. \A r \in R : RowOf(g, r) \in 2 .. Len(g)
  BY RowsType
<1>2. 2 .. Len(g) \subseteq Nat
  BY GridFacts
<1>3. RowByRun(g) = [r \in R |-> RowOf(g, r)] /\ R \in SUBSET Runs
  BY DEF RowByRun
<1> HIDE DEF R
<1>4. RowByRun(g) \in [R -> Nat]
  BY <1>1, <1>2, <1>3
<1> QED BY <1>1, <1>3, <1>4 DEF RowMaps

\* _find_run_row and row_by_run, and fetch_done_runs, find the first row.
LEMMA FirstRowFacts ==
    ASSUME NEW g, IsGrid(g), OneOfEach(g), NEW r
    PROVE  /\ RowsOf(g, r) # {} => FirstRow(g, r, RowOf(g, r))
           /\ \A i : FirstRow(g, r, i) => RowsOf(g, r) # {} /\ RowOf(g, r) = i
<1> DEFINE f == Column(Headers(g), "folder")
<1>1. HasColumn(Headers(g), "folder") /\ Named(g, f, "folder")
  BY SheetColumn DEF OneOfEach
<1>2. \A k \in DOMAIN g[1] : Named(g, k, "folder") => k = f
  BY <1>1 DEF OneOfEach, Names, Named
<1>3. RowsOf(g, r) = {i \in 2 .. Len(g) : g[i][f] = <<r>>}
  BY <1>1 DEF RowsOf
<1> HIDE DEF f
<1>4. \A i : FirstRow(g, r, i) <=> /\ i \in 2 .. Len(g) /\ g[i][f] = <<r>>
                                   /\ \A j \in 2 .. i - 1 : g[j][f] # <<r>>
  BY <1>1, <1>2 DEF FirstRow, Named
<1>5. Len(g) \in Nat
  BY GridFacts
<1>6. ASSUME RowsOf(g, r) # {} PROVE FirstRow(g, r, RowOf(g, r))
  <2>1. RowOf(g, r) \in RowsOf(g, r) /\ \A i \in RowsOf(g, r) : RowOf(g, r) <= i
    BY <1>6, RowsType
  <2>2. RowOf(g, r) \in 2 .. Len(g) /\ g[RowOf(g, r)][f] = <<r>>
    BY <1>3, <2>1
  <2>3. ASSUME NEW j \in 2 .. RowOf(g, r) - 1, g[j][f] = <<r>> PROVE FALSE
    <3>1. j \in 2 .. Len(g) /\ j < RowOf(g, r)
      BY <1>5, <2>2
    <3>2. j \in RowsOf(g, r)
      BY <1>3, <2>3, <3>1
    <3> QED BY <1>5, <2>1, <2>2, <3>1, <3>2
  <2> QED BY <1>4, <2>2, <2>3
<1>7. ASSUME NEW i, FirstRow(g, r, i) PROVE RowsOf(g, r) # {} /\ RowOf(g, r) = i
  <2>1. i \in RowsOf(g, r) /\ i \in 2 .. Len(g)
    BY <1>3, <1>4, <1>7
  <2>2. RowOf(g, r) \in RowsOf(g, r) /\ RowOf(g, r) <= i
    BY <2>1, RowsType
  <2>3. RowOf(g, r) \in 2 .. Len(g) /\ g[RowOf(g, r)][f] = <<r>>
    BY <1>3, <2>2
  <2>4. RowOf(g, r) \notin 2 .. i - 1
    BY <1>4, <1>7, <2>3
  <2> QED BY <1>5, <2>1, <2>2, <2>3, <2>4
<1> QED BY <1>6, <1>7

-------------------------------------------------------------------------------
(* A grid that follows another *)

\* e may come after g without anybody's results or writers being misled.
Follows(g, e) ==
    /\ Headers(e) = Headers(g) \/ Headers(e) = Completed(Headers(g))
    /\ Len(e[1]) >= Len(g[1]) \/ Len(e[1]) >= Len(Completed(Headers(g)))
    /\ \A r, i : FirstRow(g, r, i) => FirstRow(e, r, i)
    /\ \A r : Shown(g, r) => Shown(e, r)

LEMMA FollowsFits ==
    ASSUME NEW g, IsGrid(g), NEW e, IsGrid(e), Follows(g, e),
           NEW v \in WriterStates, NEW S, WriterSound(g, v, S)
    PROVE  WriterSound(e, v, S)
<1> DEFINE h == v.headers
           H == Headers(g)
<1>1. h \in Seq(Cells) /\ H \in Seq(Cells)
  BY HeadersFacts DEF WriterStates, HeadersOf
<1>2. ASSUME h # <<>>, ~v.moved PROVE Fits(e, v)
  <2>1. Fits(g, v)
    BY <1>2 DEF WriterSound
  <2> USE DEF Follows
  <2>2. Completed(H) = Completed(h)
    BY <1>1, <2>1, CompletedTwice DEF Fits
  <2>3. Headers(e) = h \/ Headers(e) = Completed(h)
    BY <2>1, <2>2 DEF Fits
  <2> QED BY <2>1, <2>3 DEF Fits
<1>3. ASSUME v.expanded, ~v.stale PROVE Len(e[1]) >= Len(Completed(Headers(e)))
  <2>1. Len(g[1]) >= Len(Completed(H))
    BY <1>3 DEF WriterSound, Wide
  <2>2. Completed(Headers(e)) = Completed(H)
    BY <1>1, CompletedTwice DEF Follows
  <2>3. Len(e[1]) \in Nat /\ Len(g[1]) \in Nat
    BY GridFacts
  <2>4. Completed(H) \in Seq(Cells)
    BY <1>1, CompletedFacts DEF Behinds
  <2>5. Len(Completed(H)) \in Nat
    BY <2>4, LenProperties
  <2>6. Len(e[1]) >= Len(g[1]) \/ Len(e[1]) >= Len(Completed(H))
    BY DEF Follows
  <2> QED BY <2>1, <2>2, <2>3, <2>5, <2>6
<1>4. Wide(e, v)
  BY <1>3 DEF Wide
<1> QED BY <1>2, <1>4 DEF WriterSound, Follows

\* With the same rows and the same folder column, first rows are first rows.
LEMMA SameRows ==
    ASSUME NEW g, IsGrid(g), NEW e, IsGrid(e), Len(e) = Len(g),
           \A k : Named(e, k, "folder") => Named(g, k, "folder"),
           \A i \in 2 .. Len(g) : \A k : Named(g, k, "folder") => e[i][k] = g[i][k]
    PROVE  \A r, i : FirstRow(g, r, i) => FirstRow(e, r, i)
<1> SUFFICES ASSUME NEW r, NEW i, FirstRow(g, r, i), NEW k \in DOMAIN e[1], Named(e, k, "folder")
             PROVE  e[i][k] = <<r>> /\ \A j \in 2 .. i - 1 : e[j][k] # <<r>>
  BY DEF FirstRow
<1>1. Named(g, k, "folder") /\ k \in DOMAIN g[1]
  BY DEF Named
<1>2. i \in 2 .. Len(g) /\ g[i][k] = <<r>> /\ \A j \in 2 .. i - 1 : g[j][k] # <<r>>
  BY <1>1 DEF FirstRow
<1>3. Len(g) \in Nat
  BY GridFacts
<1>4. \A j \in 2 .. i - 1 : j \in 2 .. Len(g)
  BY <1>2, <1>3
<1> QED BY <1>1, <1>2, <1>4

\* Names are those of the headers.
LEMMA NamedIs ==
    ASSUME NEW g, IsGrid(g)
    PROVE  \A k, name : Named(g, k, name) <=> k \in 1 .. Len(Headers(g)) /\ Headers(g)[k] = <<name>>
<1> DEFINE h == Headers(g)
<1>1. HeadersOf(g[1], h)
  BY HeadersFacts
<1> HIDE DEF h
<1>2. Len(g[1]) \in Nat /\ DOMAIN g[1] = 1 .. Len(g[1]) /\ Len(h) \in Nat
  BY <1>1, GridFacts, LenProperties DEF HeadersOf
<1>3. ASSUME NEW k, NEW name, Named(g, k, name) PROVE k \in 1 .. Len(h)
  BY <1>3, SheetColumn DEF h
<1>4. \A k \in 1 .. Len(h) : h[k] = g[1][k] /\ k \in DOMAIN g[1]
  BY <1>1, <1>2 DEF HeadersOf
<1>5. \A k, name : Named(g, k, name) <=> k \in 1 .. Len(h) /\ h[k] = <<name>>
  BY <1>3, <1>4 DEF Named
<1> QED BY <1>5 DEF h

\* Headers that are kept or completed keep their columns, and no name comes twice.
LEMMA NamesGrow ==
    ASSUME NEW g, IsGrid(g), OneOfEach(g), NEW e, IsGrid(e),
           Headers(e) = Headers(g) \/ Headers(e) = Completed(Headers(g))
    PROVE  /\ OneOfEach(e)
           /\ \A k, name : Named(g, k, name) => Named(e, k, name)
           /\ \A k : Named(e, k, "folder") => Named(g, k, "folder")
<1> DEFINE H == Headers(g)
           F == Headers(e)
<1>1. H \in Seq(Cells) /\ F \in Seq(Cells)
  BY HeadersFacts DEF HeadersOf
<1>2. Len(H) \in Nat /\ Len(F) \in Nat /\ DOMAIN H = 1 .. Len(H)
  BY <1>1, LenProperties
<1>3. Behinds(H, F)
  <2>1. CASE F = H
    <3>1. Len(H) + 1 .. Len(F) = {}
      BY <1>2, <2>1
    <3> QED BY <1>1, <1>2, <2>1, <3>1 DEF Behinds
  <2>2. CASE F = Completed(H)
    BY <1>1, <2>2, CompletedFacts
  <2> QED BY <2>1, <2>2
<1>4. /\ \A k, name : Named(g, k, name) <=> k \in 1 .. Len(H) /\ H[k] = <<name>>
      /\ \A k, name : Named(e, k, name) <=> k \in 1 .. Len(F) /\ F[k] = <<name>>
  BY NamedIs
<1> HIDE DEF H, F
<1>5. \A k, name : Named(g, k, name) => Named(e, k, name)
  BY <1>2, <1>3, <1>4 DEF Behinds
<1>6. ASSUME NEW name, NEW j, NEW k, Named(e, j, name), Named(e, k, name), j \in 1 .. Len(H),
             k \notin 1 .. Len(H)
      PROVE  FALSE
  <2>1. k \in Len(H) + 1 .. Len(F)
    BY <1>2, <1>4, <1>6
  <2>2. PICK c \in AppNames : F[k] = <<c>> /\ ~HasColumn(H, c)
    BY <1>3, <2>1 DEF Behinds
  <2>3. c = name
    BY <1>4, <1>6, <2>2
  <2>4. H[j] = <<name>>
    BY <1>3, <1>4, <1>6 DEF Behinds
  <2> QED BY <1>2, <1>6, <2>2, <2>3, <2>4 DEF HasColumn, ToSet
<1>7. ASSUME NEW name \in Names, NEW j, NEW k, Named(e, j, name), Named(e, k, name)
      PROVE  j = k
  <2>1. CASE j \in 1 .. Len(H) /\ k \in 1 .. Len(H)
    <3>1. Named(g, j, name) /\ Named(g, k, name)
      BY <1>3, <1>4, <1>7, <2>1 DEF Behinds
    <3> QED BY <3>1 DEF OneOfEach, Named
  <2>2. CASE j \notin 1 .. Len(H) /\ k \notin 1 .. Len(H)
    <3>1. j \in Len(H) + 1 .. Len(F) /\ k \in Len(H) + 1 .. Len(F) /\ F[j] = F[k]
      BY <1>2, <1>4, <1>7, <2>2
    <3> QED BY <1>3, <3>1 DEF Behinds
  <2> QED BY <1>6, <1>7, <2>1, <2>2
<1>8. OneOfEach(e)
  <2>1. \A name \in {"folder", "validation"} : \E k \in DOMAIN e[1] : Named(e, k, name)
    BY <1>5 DEF OneOfEach, Named
  <2> QED BY <1>7, <2>1 DEF OneOfEach
<1>9. ASSUME NEW k, Named(e, k, "folder") PROVE Named(g, k, "folder")
  <2>1. PICK j : Named(g, j, "folder")
    BY DEF OneOfEach
  <2> QED BY <1>5, <1>7, <1>9, <2>1 DEF Names
<1> QED BY <1>5, <1>8, <1>9

\* A grid that is made wider, or narrower behind its headers, or gets its missing headers.
LEMMA WiderFollows ==
    ASSUME NEW g, IsGrid(g), OneOfEach(g), Placed(g), NEW e, IsGrid(e), Len(e) = Len(g),
           Headers(e) = Headers(g) \/ Headers(e) = Completed(Headers(g)),
           Len(e[1]) >= Len(g[1]) \/ Len(e[1]) >= Len(Completed(Headers(g))),
           \A i \in 2 .. Len(g), k \in DOMAIN e[1] :
               e[i][k] = IF k \in DOMAIN g[1] THEN g[i][k] ELSE Blank
    PROVE  Follows(g, e) /\ OneOfEach(e) /\ Placed(e)
<1>1. /\ OneOfEach(e)
      /\ \A k, name : Named(g, k, name) => Named(e, k, name)
      /\ \A k : Named(e, k, "folder") => Named(g, k, "folder")
  BY NamesGrow
<1>2. \A i \in 2 .. Len(g) : \A k, name : Named(g, k, name) => e[i][k] = g[i][k]
  BY <1>1 DEF Named
<1>3. \A r, i : FirstRow(g, r, i) => FirstRow(e, r, i)
  BY <1>1, <1>2, SameRows
<1>4. \A r : Shown(g, r) => Shown(e, r)
  BY <1>1, <1>2, <1>3 DEF Shown, Named
<1>5. Placed(e)
  <2> SUFFICES ASSUME NEW i \in 2 .. Len(e), NEW k \in DOMAIN e[1], Len(e[i][k]) = 2
               PROVE  /\ Named(e, k, e[i][k][2])
                      /\ \A f \in DOMAIN e[1] : Named(e, f, "folder") => e[i][f] = <<e[i][k][1]>>
    BY DEF Placed
  <2>1. i \in 2 .. Len(g) /\ k \in DOMAIN g[1] /\ e[i][k] = g[i][k]
    <3>1. Len(Blank) # 2
      BY EmptySeq DEF Blank
    <3> QED BY <3>1
  <2>2. /\ Named(g, k, e[i][k][2])
        /\ \A f \in DOMAIN g[1] : Named(g, f, "folder") => g[i][f] = <<e[i][k][1]>>
    BY <2>1 DEF Placed
  <2>3. \A f \in DOMAIN e[1] : Named(e, f, "folder") => f \in DOMAIN g[1] /\ e[i][f] = g[i][f]
    BY <1>1, <1>2, <2>1 DEF Named
  <2> QED BY <1>1, <2>2, <2>3
<1> QED BY <1>1, <1>3, <1>4, <1>5 DEF Follows

-------------------------------------------------------------------------------
(* The requests that change the sheet *)

LEMMA ResizedFacts ==
    ASSUME IsGrid(grid), NEW n \in Nat
    PROVE  /\ IsGrid(Resized(n)) /\ Len(Resized(n)) = Len(grid) /\ Len(Resized(n)[1]) = n
           /\ \A i \in 1 .. Len(grid), k \in 1 .. n :
                 Resized(n)[i][k] = IF k <= Len(grid[1]) THEN grid[i][k] ELSE Blank
<1> DEFINE e == Resized(n)
           cell(i, k) == IF k <= Len(grid[1]) THEN grid[i][k] ELSE Blank
<1>1. /\ Len(grid) \in Nat \ {0} /\ DOMAIN grid = 1 .. Len(grid) /\ Len(grid[1]) \in Nat
      /\ 1 \in 1 .. Len(grid)
      /\ \A i \in 1 .. Len(grid) : Len(grid[i]) = Len(grid[1])
      /\ \A i \in 1 .. Len(grid), k \in 1 .. Len(grid[1]) : grid[i][k] \in Cells
  BY GridFacts
<1>2. e = [i \in 1 .. Len(grid) |-> [k \in 1 .. n |-> cell(i, k)]]
  BY <1>1 DEF Resized
<1>3. \A i \in 1 .. Len(grid), k \in 1 .. n : cell(i, k) \in Cells
  BY <1>1, BlankCell
<1> HIDE DEF cell
<1>4. e \in [1 .. Len(grid) -> [1 .. n -> Cells]]
  BY <1>2, <1>3
<1>5. IsGrid(e) /\ Len(e) = Len(grid) /\ Len(e[1]) = n
  <2> HIDE DEF e
  <2>1. IsGrid(e) /\ Len(e) = Len(grid) /\ \A i \in 1 .. Len(grid) : Len(e[i]) = n
    <3>1. Len(grid) \in Nat \ {0}
      BY <1>1
    <3>2. e \in Grids(Len(grid), n)
      BY <1>4 DEF Grids
    <3> QED BY ONLY <3>1, <3>2, n \in Nat, GridOf
  <2> QED BY <1>1, <2>1
<1>6. \A i \in 1 .. Len(grid), k \in 1 .. n : e[i][k] = cell(i, k)
  BY <1>2
<1> QED BY <1>5, <1>6 DEF cell

\* A grid that is wide enough for the headers that are to come keeps what it has.
LEMMA ResizedFollows ==
    ASSUME IsGrid(grid), OneOfEach(grid), Placed(grid),
           NEW n \in Nat, n >= Len(Completed(Headers(grid)))
    PROVE  /\ IsGrid(Resized(n)) /\ Follows(grid, Resized(n))
           /\ OneOfEach(Resized(n)) /\ Placed(Resized(n))
<1> DEFINE e == Resized(n)
           H == Headers(grid)
<1>1. /\ IsGrid(e) /\ Len(e) = Len(grid) /\ Len(e[1]) = n
      /\ \A i \in 1 .. Len(grid), k \in 1 .. n :
            e[i][k] = IF k <= Len(grid[1]) THEN grid[i][k] ELSE Blank
  BY ResizedFacts
<1>2. HeadersOf(grid[1], H) /\ Len(Completed(H)) >= Len(H) /\ Len(H) \in Nat
      /\ Len(Completed(H)) \in Nat
  BY HeadersFacts, CompletedFacts, LenProperties DEF HeadersOf, Behinds
<1> HIDE DEF e, H
<1>3. /\ Len(grid) \in Nat \ {0} /\ Len(grid[1]) \in Nat /\ DOMAIN grid[1] = 1 .. Len(grid[1])
      /\ DOMAIN e[1] = 1 .. n
  BY <1>1, GridFacts
<1>4. HeadersOf(e[1], H)
  <2>1. \A k \in 1 .. n : e[1][k] = IF k <= Len(grid[1]) THEN grid[1][k] ELSE Blank
    BY <1>1, <1>3
  <2>2. \A k \in Len(H) + 1 .. n : e[1][k] = Blank
    <3> SUFFICES ASSUME NEW k \in Len(H) + 1 .. n PROVE e[1][k] = Blank
      OBVIOUS
    <3>1. k \in 1 .. n
      BY <1>2
    <3>2. k <= Len(grid[1]) => k \in Len(H) + 1 .. Len(grid[1])
      BY <1>2, <1>3
    <3> QED BY <1>2, <2>1, <3>1, <3>2 DEF HeadersOf
  <2>3. Len(H) <= n
    BY <1>2 DEF H
  <2>4. ASSUME NEW k \in 1 .. Len(H) PROVE e[1][k] = grid[1][k]
    <3>1. k \in 1 .. n /\ k <= Len(grid[1])
      BY <1>2, <1>3, <2>3 DEF HeadersOf
    <3> QED BY <2>1, <3>1
  <2>5. Len(H) # 0 => e[1][Len(H)] # Blank
    BY <1>2, <2>4 DEF HeadersOf
  <2> QED BY <1>1, <1>2, <2>2, <2>3, <2>4, <2>5 DEF HeadersOf
<1>5. Headers(e) = H
  BY <1>1, <1>4, HeadersAre
<1>6. \A i \in 2 .. Len(grid), k \in DOMAIN e[1] :
         e[i][k] = IF k \in DOMAIN grid[1] THEN grid[i][k] ELSE Blank
  <2> SUFFICES ASSUME NEW i \in 2 .. Len(grid), NEW k \in 1 .. n
               PROVE  e[i][k] = IF k \in DOMAIN grid[1] THEN grid[i][k] ELSE Blank
    BY <1>3
  <2>1. i \in 1 .. Len(grid) /\ (k \in DOMAIN grid[1] <=> k <= Len(grid[1]))
    BY <1>3
  <2> QED BY <1>1, <2>1
<1>7. Len(e[1]) >= Len(Completed(H))
  BY <1>1 DEF H
<1> QED BY <1>1, <1>5, <1>6, <1>7, WiderFollows DEF e, H

\* What _ensure_app_headers writes.
LEMMA WithHeadersFacts ==
    ASSUME IsGrid(grid), NEW start \in Nat, NEW names \in Seq(Cells)
    PROVE  LET e == WithHeaders(start, names) IN
           /\ IsGrid(e) /\ Len(e) = Len(grid) /\ Len(e[1]) = Len(grid[1])
           /\ \A i \in 2 .. Len(grid) : e[i] = grid[i]
           /\ \A k \in 1 .. Len(grid[1]) :
                 e[1][k] = IF k \in start + 1 .. start + Len(names) THEN names[k - start] ELSE grid[1][k]
<1> DEFINE e == WithHeaders(start, names)
           cell(k) == IF k \in start + 1 .. start + Len(names) THEN names[k - start] ELSE grid[1][k]
           row == [k \in 1 .. Len(grid[1]) |-> cell(k)]
<1>1. /\ Len(grid) \in Nat \ {0} /\ DOMAIN grid = 1 .. Len(grid) /\ Len(grid[1]) \in Nat
      /\ 1 \in 1 .. Len(grid) /\ DOMAIN grid[1] = 1 .. Len(grid[1])
      /\ \A i \in 1 .. Len(grid), k \in 1 .. Len(grid[1]) : grid[i][k] \in Cells
      /\ Len(names) \in Nat /\ \A k \in 1 .. Len(names) : names[k] \in Cells
  BY GridFacts, LenProperties
<1>2. e = [grid EXCEPT ![1] = row]
  BY <1>1 DEF WithHeaders
<1>3. \A k \in 1 .. Len(grid[1]) : cell(k) \in Cells
  <2> SUFFICES ASSUME NEW k \in 1 .. Len(grid[1]) PROVE cell(k) \in Cells
    OBVIOUS
  <2>1. CASE k \in start + 1 .. start + Len(names)
    <3>1. k - start \in 1 .. Len(names)
      BY <1>1, <2>1
    <3> QED BY <1>1, <2>1, <3>1
  <2>2. CASE k \notin start + 1 .. start + Len(names)
    BY <1>1, <2>2
  <2> QED BY <2>1, <2>2
<1> HIDE DEF cell
<1>4. row \in [1 .. Len(grid[1]) -> Cells] /\ \A k \in 1 .. Len(grid[1]) : row[k] = cell(k)
  BY <1>3
<1> HIDE DEF row, e
<1>5. grid \in [1 .. Len(grid) -> [1 .. Len(grid[1]) -> Cells]]
  BY GridIs
<1>6. /\ e \in [1 .. Len(grid) -> [1 .. Len(grid[1]) -> Cells]]
      /\ e[1] = row /\ \A i \in 2 .. Len(grid) : e[i] = grid[i]
  BY <1>1, <1>2, <1>4, <1>5
<1>7. IsGrid(e) /\ Len(e) = Len(grid) /\ Len(e[1]) = Len(grid[1])
  <2>1. IsGrid(e) /\ Len(e) = Len(grid) /\ \A i \in 1 .. Len(grid) : Len(e[i]) = Len(grid[1])
    <3>1. Len(grid) \in Nat \ {0} /\ Len(grid[1]) \in Nat
      BY <1>1
    <3>2. e \in Grids(Len(grid), Len(grid[1]))
      BY <1>6 DEF Grids
    <3> QED BY ONLY <3>1, <3>2, GridOf
  <2> QED BY <1>1, <2>1
<1> QED BY <1>4, <1>6, <1>7 DEF e, cell

\* Whoever adds the missing headers, the sheet has them afterwards, once.
LEMMA AddedFollows ==
    ASSUME IsGrid(grid), OneOfEach(grid), Placed(grid), NEW h \in Seq(Cells),
           Headers(grid) = h \/ Headers(grid) = Completed(h), Len(grid[1]) >= Len(Completed(h))
    PROVE  LET e == WithHeaders(Len(h), Missing(h)) IN
           /\ IsGrid(e) /\ Headers(e) = Completed(h)
           /\ Follows(grid, e) /\ OneOfEach(e) /\ Placed(e)
<1> DEFINE e == WithHeaders(Len(h), Missing(h))
           H == Headers(grid)
           F == Completed(h)
           T == grid[1]
<1>1. /\ Len(h) \in Nat /\ Behinds(h, F) /\ F \in Seq(Cells) /\ Len(F) \in Nat /\ Len(h) <= Len(F)
      /\ DOMAIN F = 1 .. Len(F)
  BY CompletedFacts, LenProperties DEF Behinds
<1>2. /\ Missing(h) \in Seq(Cells) /\ Len(Missing(h)) = Len(F) - Len(h)
      /\ \A k \in 1 .. Len(Missing(h)) : Missing(h)[k] = F[Len(h) + k]
  BY MissingFacts
<1>3. /\ IsGrid(e) /\ Len(e) = Len(grid) /\ Len(e[1]) = Len(T)
      /\ \A i \in 2 .. Len(grid) : e[i] = grid[i]
      /\ \A k \in 1 .. Len(T) :
            e[1][k] = IF k \in Len(h) + 1 .. Len(h) + Len(Missing(h)) THEN Missing(h)[k - Len(h)] ELSE T[k]
  BY <1>1, <1>2, WithHeadersFacts
<1>4. HeadersOf(T, H) /\ Len(H) \in Nat /\ H \in Seq(Cells)
  BY HeadersFacts, LenProperties DEF HeadersOf
<1>5. H = h \/ H = F
  OBVIOUS
<1>6. Len(T) \in Nat /\ Len(F) <= Len(T) /\ DOMAIN T = 1 .. Len(T) /\ DOMAIN e[1] = 1 .. Len(T)
  BY <1>1, <1>3, GridFacts
<1> HIDE DEF e, H, F, T
<1>7. \A k \in 1 .. Len(h) : F[k] = h[k] /\ T[k] = h[k]
  BY <1>1, <1>4, <1>5 DEF Behinds, HeadersOf
<1>8. ASSUME NEW k \in 1 .. Len(F) PROVE e[1][k] = F[k]
  <2>1. CASE k <= Len(h)
    <3>1. k \in 1 .. Len(h) /\ k \in 1 .. Len(T) /\ k \notin Len(h) + 1 .. Len(h) + Len(Missing(h))
      BY <1>1, <1>2, <1>6, <2>1
    <3> QED BY <1>3, <1>7, <3>1
  <2>2. CASE k > Len(h)
    <3>1. /\ k \in 1 .. Len(T) /\ k \in Len(h) + 1 .. Len(h) + Len(Missing(h))
          /\ k - Len(h) \in 1 .. Len(Missing(h)) /\ Len(h) + (k - Len(h)) = k
      BY <1>1, <1>2, <1>6, <2>2
    <3> QED BY <1>2, <1>3, <3>1
  <2> QED BY <1>1, <2>1, <2>2
<1>9. ASSUME NEW k \in Len(F) + 1 .. Len(T) PROVE e[1][k] = Blank
  <2>1. k \in 1 .. Len(T) /\ k \notin Len(h) + 1 .. Len(h) + Len(Missing(h))
    BY <1>1, <1>2, <1>6
  <2>2. k \in Len(H) + 1 .. Len(T)
    BY <1>1, <1>4, <1>5, <1>6
  <2> QED BY <1>3, <1>4, <2>1, <2>2 DEF HeadersOf
<1>10. Len(F) # 0 => F[Len(F)] # Blank
  <2>1. CASE F = H
    BY <1>4, <2>1 DEF HeadersOf
  <2>2. CASE F # H
    <3>1. H = h
      BY <1>5, <2>2
    <3>2. CASE Len(F) = Len(h)
      <4>1. F = h
        BY <1>1, <1>7, <3>2, SeqEqual
      <4> QED BY <2>2, <3>1, <4>1
    <3>3. CASE Len(F) # Len(h)
      <4>1. Len(F) \in Len(h) + 1 .. Len(F)
        BY <1>1, <3>3
      <4> QED BY <1>1, <4>1, BlankCell DEF Behinds
    <3> QED BY <3>2, <3>3
  <2> QED BY <2>1, <2>2
<1>11. HeadersOf(e[1], F)
  <2>1. Len(F) # 0 => Len(F) \in 1 .. Len(F)
    BY <1>1
  <2> QED BY <1>1, <1>3, <1>6, <1>8, <1>9, <1>10, <2>1 DEF HeadersOf
<1>12. Headers(e) = F
  BY <1>3, <1>11, HeadersAre
<1>13. F = H \/ F = Completed(H)
  BY <1>5 DEF F
<1>14. \A i \in 2 .. Len(grid), k \in DOMAIN e[1] :
          e[i][k] = IF k \in DOMAIN T THEN grid[i][k] ELSE Blank
  BY <1>3, <1>6
<1>15. Len(e[1]) >= Len(T)
  BY <1>3, <1>6
<1>16. Follows(grid, e) /\ OneOfEach(e) /\ Placed(e)
  BY <1>3, <1>12, <1>13, <1>14, <1>15, WiderFollows DEF H, T
<1> QED BY <1>3, <1>12, <1>16 DEF e, F

\* batch_write_values, cell by cell.
To(w, i, k) == {u \in Updates(w) : u.row = i /\ u.column = k}
Written(w) ==
    [i \in DOMAIN grid |-> [k \in DOMAIN grid[i] |->
        IF To(w, i, k) = {} THEN grid[i][k] ELSE (CHOOSE u \in To(w, i, k) : TRUE).value]]

LEMMA WrittenFacts ==
    ASSUME IsGrid(grid), NEW w \in Writers, writer[w].runs \subseteq Runs
    PROVE  /\ IsGrid(Written(w)) /\ Len(Written(w)) = Len(grid) /\ Len(Written(w)[1]) = Len(grid[1])
           /\ \A i \in 1 .. Len(grid), k \in 1 .. Len(grid[1]) :
                 \/ To(w, i, k) = {} /\ Written(w)[i][k] = grid[i][k]
                 \/ \E u \in To(w, i, k) : Written(w)[i][k] = u.value
<1> DEFINE e == Written(w)
           cell(i, k) == IF To(w, i, k) = {} THEN grid[i][k] ELSE (CHOOSE u \in To(w, i, k) : TRUE).value
<1>1. /\ Len(grid) \in Nat \ {0} /\ DOMAIN grid = 1 .. Len(grid) /\ Len(grid[1]) \in Nat
      /\ 1 \in 1 .. Len(grid)
      /\ \A i \in 1 .. Len(grid) : DOMAIN grid[i] = 1 .. Len(grid[1])
      /\ \A i \in 1 .. Len(grid), k \in 1 .. Len(grid[1]) : grid[i][k] \in Cells
  BY GridFacts
<1>2. e = [i \in 1 .. Len(grid) |-> [k \in 1 .. Len(grid[1]) |-> cell(i, k)]]
  BY <1>1 DEF Written
<1>3. \A i, k : \/ To(w, i, k) = {} /\ cell(i, k) = grid[i][k]
                \/ \E u \in To(w, i, k) : cell(i, k) = u.value
  OBVIOUS
<1>4. ASSUME NEW i, NEW k, NEW u \in To(w, i, k) PROVE u.value \in Cells
  <2>1. PICK r \in Found(w), c \in ToSet(AppColumns) : u.value = <<r, c>>
    BY <1>4 DEF To, Updates
  <2> QED BY <2>1 DEF Found, Cells
<1> HIDE DEF cell, e
<1>5. \A i \in 1 .. Len(grid), k \in 1 .. Len(grid[1]) : cell(i, k) \in Cells
  BY <1>1, <1>3, <1>4
<1>6. e \in [1 .. Len(grid) -> [1 .. Len(grid[1]) -> Cells]]
  BY <1>2, <1>5
<1>7. IsGrid(e) /\ Len(e) = Len(grid) /\ Len(e[1]) = Len(grid[1])
  <2>1. IsGrid(e) /\ Len(e) = Len(grid) /\ \A i \in 1 .. Len(grid) : Len(e[i]) = Len(grid[1])
    <3>1. Len(grid) \in Nat \ {0} /\ Len(grid[1]) \in Nat
      BY <1>1
    <3>2. e \in Grids(Len(grid), Len(grid[1]))
      BY <1>6 DEF Grids
    <3> QED BY ONLY <3>1, <3>2, GridOf
  <2> QED BY <1>1, <2>1
<1>8. \A i \in 1 .. Len(grid), k \in 1 .. Len(grid[1]) : e[i][k] = cell(i, k)
  BY <1>2
<1> QED BY <1>3, <1>7, <1>8 DEF e

\* A writer whose numbers still hold writes results into the first rows of their runs and
\* under their names, all of which is shown then.
LEMMA WrittenFollows ==
    ASSUME IsGrid(grid), OneOfEach(grid), Placed(grid),
           NEW w \in Writers, writer[w] \in WriterStates, Fits(grid, writer[w]),
           \A c \in AppNames : HasColumn(writer[w].headers, c)
    PROVE  /\ \A u \in Updates(w) : u.column <= Len(grid[1])
           /\ IsGrid(Written(w)) /\ Headers(Written(w)) = Headers(grid)
           /\ Follows(grid, Written(w)) /\ OneOfEach(Written(w)) /\ Placed(Written(w))
           /\ \A r \in Found(w) : Shown(Written(w), r)
<1> DEFINE e == Written(w)
           h == writer[w].headers
           H == Headers(grid)
<1>1. /\ h \in Seq(Cells) /\ H \in Seq(Cells) /\ writer[w].runs \subseteq Runs
      /\ Len(h) \in Nat /\ Len(H) \in Nat
  BY HeadersFacts, LenProperties DEF WriterStates, HeadersOf
<1>2. /\ Len(grid) \in Nat \ {0} /\ Len(grid[1]) \in Nat /\ 1 \in 1 .. Len(grid)
      /\ \A i \in 1 .. Len(grid) : DOMAIN grid[i] = 1 .. Len(grid[1])
  BY GridFacts
<1>3. /\ IsGrid(e) /\ Len(e) = Len(grid) /\ Len(e[1]) = Len(grid[1])
      /\ \A i \in 1 .. Len(grid), k \in 1 .. Len(grid[1]) :
            \/ To(w, i, k) = {} /\ e[i][k] = grid[i][k]
            \/ \E u \in To(w, i, k) : e[i][k] = u.value
  BY <1>1, WrittenFacts
<1>4. ASSUME NEW c \in AppNames PROVE Named(grid, Column(h, c), c)
  <2>1. Column(h, c) \in 1 .. Len(h) /\ h[Column(h, c)] = <<c>>
    BY <1>1, ColumnFacts
  <2>2. Len(h) <= Len(H) /\ \A k \in 1 .. Len(h) : H[k] = h[k]
    <3>1. CASE H = h
      BY <1>1, <3>1
    <3>2. CASE H = Completed(h)
      BY <1>1, <3>2, CompletedFacts DEF Behinds
    <3> QED BY <3>1, <3>2 DEF Fits
  <2>3. Column(h, c) \in 1 .. Len(H) /\ H[Column(h, c)] = <<c>>
    BY <1>1, <2>1, <2>2
  <2> QED BY <2>3, NamedIs
<1>5. \A r \in Found(w) : FirstRow(grid, r, writer[w].rows[r])
  BY DEF Fits, Found
<1>6. ASSUME NEW u \in Updates(w)
      PROVE  \E r \in Found(w), c \in AppNames :
                /\ u = [row |-> writer[w].rows[r], column |-> Column(h, c), value |-> <<r, c>>]
                /\ FirstRow(grid, r, u.row) /\ Named(grid, u.column, c) /\ u.value = <<r, c>>
  <2>1. PICK r \in Found(w), c \in AppNames :
           u = [row |-> writer[w].rows[r], column |-> Column(h, c), value |-> <<r, c>>]
    BY <1>6 DEF Updates, AppNames
  <2>2. u.row = writer[w].rows[r] /\ u.column = Column(h, c) /\ u.value = <<r, c>>
    BY <2>1
  <2>3. FirstRow(grid, r, u.row) /\ Named(grid, u.column, c)
    BY <1>4, <1>5, <2>2
  <2> QED BY <2>1, <2>2, <2>3
<1> HIDE DEF e, h, H
<1>7. ASSUME NEW i, NEW k, NEW u \in To(w, i, k)
      PROVE  \E r \in Found(w), c \in AppNames :
                u.value = <<r, c>> /\ FirstRow(grid, r, i) /\ Named(grid, k, c)
  BY <1>6, <1>7 DEF To
<1>8. PICK f \in DOMAIN grid[1] : Named(grid, f, "folder")
  BY DEF OneOfEach
<1>9. \A k : Named(grid, k, "folder") => k = f
  BY <1>8 DEF OneOfEach, Names, Named
<1>10. ASSUME NEW c \in AppNames PROVE ~Named(grid, f, c)
  BY <1>8, AppColumnFacts DEF Named
<1>11. \A i : To(w, i, f) = {}
  BY <1>7, <1>10
<1>12. \A k : To(w, 1, k) = {}
  <2>1. \A r : ~FirstRow(grid, r, 1)
    BY <1>2 DEF FirstRow
  <2> QED BY <1>7, <2>1
<1>13. e[1] = grid[1]
  <2>1. e[1] \in Seq(Cells) /\ grid[1] \in Seq(Cells) /\ Len(e[1]) = Len(grid[1])
    BY <1>2, <1>3, GridFacts
  <2>2. \A k \in 1 .. Len(e[1]) : e[1][k] = grid[1][k]
    BY <1>2, <1>3, <1>12
  <2> QED BY ONLY <2>1, <2>2, SeqEqual
<1>14. Headers(e) = H
  BY <1>13 DEF Headers, H
<1>15. \A k, name : Named(e, k, name) <=> Named(grid, k, name)
  BY <1>13 DEF Named
<1>16. OneOfEach(e)
  BY <1>13, <1>15 DEF OneOfEach
<1>17. f \in 1 .. Len(grid[1]) /\ \A i \in 1 .. Len(grid) : e[i][f] = grid[i][f]
  BY <1>2, <1>3, <1>8, <1>11
<1>18. \A r, i : FirstRow(grid, r, i) => FirstRow(e, r, i)
  <2>1. \A i \in 2 .. Len(grid) : \A k : Named(grid, k, "folder") => e[i][k] = grid[i][k]
    BY <1>2, <1>9, <1>17
  <2>2. \A k : Named(e, k, "folder") => Named(grid, k, "folder")
    BY <1>15
  <2> QED BY ONLY IsGrid(grid), <1>3, <2>1, <2>2, SameRows
<1>19. \A r, i : FirstRow(grid, r, i) => i \in 2 .. Len(grid) /\ grid[i][f] = <<r>>
  BY <1>8 DEF FirstRow
<1>20. ASSUME NEW r, NEW i, FirstRow(grid, r, i), NEW k, NEW c \in AppNames, Named(grid, k, c),
              To(w, i, k) # {} \/ grid[i][k] = <<r, c>>
       PROVE  e[i][k] = <<r, c>>
  <2>1. i \in 1 .. Len(grid) /\ k \in 1 .. Len(grid[1])
    BY <1>2, <1>19, <1>20 DEF Named
  <2>2. CASE To(w, i, k) = {}
    BY <1>3, <1>20, <2>1, <2>2
  <2>3. CASE To(w, i, k) # {}
    <3>1. PICK u \in To(w, i, k) : e[i][k] = u.value
      BY <1>3, <2>1, <2>3
    <3>2. PICK r2 \in Found(w), c2 \in AppNames :
             u.value = <<r2, c2>> /\ FirstRow(grid, r2, i) /\ Named(grid, k, c2)
      BY <1>7
    <3>3. <<r2>> = <<r>> /\ <<c2>> = <<c>>
      BY <1>19, <1>20, <3>2 DEF Named
    <3>4. r2 = r /\ c2 = c
      BY <3>3
    <3> QED BY <3>1, <3>2, <3>4
  <2> QED BY <2>2, <2>3
<1>21. ASSUME NEW r, Shown(grid, r) PROVE Shown(e, r)
  <2>1. PICK i \in 2 .. Len(grid), s \in DOMAIN grid[1] :
           FirstRow(grid, r, i) /\ Named(grid, s, "compltd_status") /\ grid[i][s] = <<r, "compltd_status">>
    BY <1>21 DEF Shown
  <2>2. "compltd_status" \in AppNames
    BY AppColumnFacts
  <2>3. e[i][s] = <<r, "compltd_status">>
    BY <1>20, <2>1, <2>2
  <2> QED BY <1>3, <1>13, <1>15, <1>18, <2>1, <2>3 DEF Shown
<1>22. ASSUME NEW r \in Found(w) PROVE Shown(e, r)
  <2> DEFINE i == writer[w].rows[r]
             s == Column(h, "compltd_status")
             u == [row |-> i, column |-> s, value |-> <<r, "compltd_status">>]
  <2>1. "compltd_status" \in AppNames
    BY AppColumnFacts
  <2>2. u \in To(w, i, s)
    BY <1>22, <2>1 DEF To, Updates, AppNames, h
  <2>3. FirstRow(grid, r, i) /\ Named(grid, s, "compltd_status")
    BY <1>4, <1>5, <2>1
  <2> HIDE DEF u, i, s
  <2>4. e[i][s] = <<r, "compltd_status">>
    BY <1>20, <2>1, <2>2, <2>3
  <2>5. FirstRow(e, r, i) /\ Named(e, s, "compltd_status")
    BY <1>15, <1>18, <2>3
  <2> QED BY <2>4, <2>5 DEF Shown, FirstRow, Named
<1>23. Placed(e)
  <2> SUFFICES ASSUME NEW i \in 2 .. Len(grid), NEW k \in 1 .. Len(grid[1]), Len(e[i][k]) = 2
               PROVE  Named(grid, k, e[i][k][2]) /\ grid[i][f] = <<e[i][k][1]>>
    <3>1. \A i \in 2 .. Len(grid) : i \in 1 .. Len(grid)
      BY <1>2
    <3> QED BY <1>2, <1>3, <1>9, <1>13, <1>15, <1>17, <3>1 DEF Placed
  <2>1. i \in 1 .. Len(grid)
    BY <1>2
  <2>2. CASE To(w, i, k) = {}
    <3>1. e[i][k] = grid[i][k]
      BY <1>3, <2>1, <2>2
    <3> QED BY <1>2, <1>8, <3>1 DEF Placed
  <2>3. CASE To(w, i, k) # {}
    <3>1. PICK u \in To(w, i, k) : e[i][k] = u.value
      BY <1>3, <2>1, <2>3
    <3>2. PICK r \in Found(w), c \in AppNames :
             u.value = <<r, c>> /\ FirstRow(grid, r, i) /\ Named(grid, k, c)
      BY <1>7
    <3> QED BY <1>19, <3>1, <3>2
  <2> QED BY <2>2, <2>3
<1>24. Follows(grid, e)
  BY <1>2, <1>3, <1>14, <1>18, <1>21 DEF Follows, H
<1>25. \A u \in Updates(w) : u.column <= Len(grid[1])
  BY <1>2, <1>6 DEF Named
<1> QED BY <1>3, <1>14, <1>16, <1>22, <1>23, <1>24, <1>25 DEF e, H

-------------------------------------------------------------------------------
(* What people do to the sheet *)

LEMMA InsertAtFacts ==
    ASSUME NEW S, NEW T \in Seq(S), NEW i \in 1 .. Len(T) + 1, NEW x \in S
    PROVE  /\ InsertAt(T, i, x) \in Seq(S) /\ Len(InsertAt(T, i, x)) = Len(T) + 1
           /\ \A y \in 1 .. Len(T) + 1 :
                 InsertAt(T, i, x)[y] = IF y < i THEN T[y] ELSE IF y = i THEN x ELSE T[y - 1]
<1> DEFINE a == SubSeq(T, 1, i - 1)
           b == SubSeq(T, i, Len(T))
           c == a \o <<x>>
           e == c \o b
<1>1. Len(T) \in Nat /\ i \in Nat /\ 1 <= i /\ i <= Len(T) + 1
      /\ \A k \in 1 .. Len(T) : T[k] \in S
  BY LenProperties
<1>2. a \in Seq(S) /\ Len(a) = i - 1 /\ \A k \in 1 .. i - 1 : a[k] = T[k]
  <2>1. 1 \in Int /\ i - 1 \in Int /\ \A k \in 1 .. i - 1 : T[k] \in S
    BY <1>1
  <2>2. /\ a \in Seq(S) /\ Len(a) = IF 1 <= i - 1 THEN (i - 1) - 1 + 1 ELSE 0
        /\ \A k \in 1 .. (i - 1) - 1 + 1 : a[k] = T[1 + k - 1]
    BY <2>1, SubSeqProperties
  <2> HIDE DEF a
  <2> QED BY <1>1, <2>2
<1>3. b \in Seq(S) /\ Len(b) = Len(T) - i + 1 /\ \A k \in 1 .. Len(T) - i + 1 : b[k] = T[i + k - 1]
  <2>1. Len(T) \in Int /\ i \in Int /\ \A k \in i .. Len(T) : T[k] \in S
    BY <1>1
  <2>2. /\ b \in Seq(S) /\ Len(b) = IF i <= Len(T) THEN Len(T) - i + 1 ELSE 0
        /\ \A k \in 1 .. Len(T) - i + 1 : b[k] = T[i + k - 1]
    BY <2>1, SubSeqProperties
  <2> HIDE DEF b
  <2> QED BY <1>1, <2>2
<1> HIDE DEF a, b
<1>4. <<x>> \in Seq(S) /\ Len(<<x>>) = 1 /\ <<x>>[1] = x
  OBVIOUS
<1>5. /\ c \in Seq(S) /\ Len(c) = i
      /\ \A k \in 1 .. i : c[k] = IF k < i THEN T[k] ELSE x
  <2>1. /\ c \in Seq(S) /\ Len(c) = Len(a) + 1
        /\ \A k \in 1 .. Len(a) + 1 : c[k] = IF k <= Len(a) THEN a[k] ELSE <<x>>[k - Len(a)]
    BY <1>2, <1>4, ConcatProperties
  <2> HIDE DEF c
  <2>2. Len(c) = i /\ Len(a) + 1 = i
    BY <1>1, <1>2, <2>1
  <2>3. ASSUME NEW k \in 1 .. i PROVE c[k] = IF k < i THEN T[k] ELSE x
    <3>1. c[k] = IF k <= Len(a) THEN a[k] ELSE <<x>>[k - Len(a)]
      BY <2>1, <2>2
    <3>2. CASE k < i
      <4>1. k \in 1 .. i - 1 /\ k <= Len(a)
        BY <1>1, <1>2, <3>2
      <4> QED BY <1>2, <3>1, <3>2, <4>1
    <3>3. CASE k >= i
      <4>1. k - Len(a) = 1 /\ ~(k <= Len(a)) /\ ~(k < i)
        BY <1>1, <1>2, <3>3
      <4> QED BY <1>4, <3>1, <4>1
    <3> QED BY <1>1, <3>2, <3>3
  <2> QED BY <2>1, <2>2, <2>3
<1> HIDE DEF c
<1>6. /\ e \in Seq(S) /\ Len(e) = Len(T) + 1
      /\ \A k \in 1 .. Len(T) + 1 : e[k] = IF k <= i THEN c[k] ELSE b[k - i]
  <2>1. /\ e \in Seq(S) /\ Len(e) = Len(c) + Len(b)
        /\ \A k \in 1 .. Len(c) + Len(b) : e[k] = IF k <= Len(c) THEN c[k] ELSE b[k - Len(c)]
    BY <1>3, <1>5, ConcatProperties
  <2> HIDE DEF e
  <2>2. Len(c) + Len(b) = Len(T) + 1
    BY <1>1, <1>3, <1>5
  <2> QED BY <1>5, <2>1, <2>2
<1> HIDE DEF e
<1>7. ASSUME NEW k \in 1 .. Len(T) + 1
      PROVE  e[k] = IF k < i THEN T[k] ELSE IF k = i THEN x ELSE T[k - 1]
  <2>1. CASE k <= i
    BY <1>1, <1>5, <1>6, <2>1
  <2>2. CASE k > i
    <3>1. k - i \in 1 .. Len(T) - i + 1 /\ i + (k - i) - 1 = k - 1 /\ ~(k <= i) /\ ~(k < i) /\ k # i
      BY <1>1, <2>2
    <3>2. e[k] = b[k - i]
      BY <1>6, <3>1
    <3>3. b[k - i] = T[i + (k - i) - 1]
      BY <1>3, <3>1
    <3> QED BY ONLY <3>1, <3>2, <3>3
  <2> QED BY <1>1, <2>1, <2>2
<1>8. InsertAt(T, i, x) = e
  BY DEF InsertAt, a, b, c, e
<1> QED BY <1>6, <1>7, <1>8

\* The headers, and so the names, are those of the first row.
LEMMA SameHeaders ==
    ASSUME NEW g, OneOfEach(g), NEW e, e[1] = g[1]
    PROVE  /\ Headers(e) = Headers(g) /\ OneOfEach(e)
           /\ \A k, name : Named(e, k, name) <=> Named(g, k, name)
  BY DEF Headers, OneOfEach, Named

\* A run that is not listed twice is in one row.
LEMMA ListedOnce ==
    ASSUME IsGrid(grid), NEW r \in Runs \ Twice, NEW i \in 2 .. Len(grid), NEW j \in 2 .. Len(grid),
           <<r>> \in ToSet(grid[i]), <<r>> \in ToSet(grid[j])
    PROVE  i = j
<1> DEFINE S == {x \in 2 .. Len(grid) : <<r>> \in ToSet(grid[x])}
<1>1. Len(grid) \in Nat
  BY GridFacts
<1>2. IsFiniteSet(S) /\ Cardinality(S) \in Nat
  <2>1. IsFiniteSet(2 .. Len(grid))
    BY <1>1, FS_Interval
  <2> QED BY <2>1, FS_Subset, FS_CardinalityType
<1>3. ~(Cardinality(S) > 1)
  BY DEF Twice
<1>4. {i, j} \subseteq S
  OBVIOUS
<1> HIDE DEF S
<1>5. Cardinality({i, j}) <= Cardinality(S)
  BY <1>2, <1>4, FS_Subset
<1>6. ASSUME i # j PROVE Cardinality({i, j}) = 2
  <2>1. IsFiniteSet({i}) /\ Cardinality({i}) = 1
    BY FS_Singleton
  <2>2. j \notin {i} /\ {i, j} = {i} \cup {j}
    BY <1>6
  <2>3. Cardinality({i} \cup {j}) = Cardinality({i}) + 1
    BY <2>1, <2>2, FS_AddElement
  <2>4. Cardinality({i, j}) = 1 + 1
    BY ONLY <2>1, <2>2, <2>3
  <2> QED BY <2>4
<1> QED BY <1>2, <1>3, <1>5, <1>6

\* Whatever people do, a grid is a grid.
LEMMA SortedGrid ==
    ASSUME IsGrid(grid), NEW i \in 2 .. Len(grid), NEW j \in 2 .. Len(grid),
           NEW e, e = [grid EXCEPT ![i] = grid[j], ![j] = grid[i]]
    PROVE  IsGrid(e) /\ Len(e) = Len(grid)
<1>1. Len(grid) \in Nat
  BY GridFacts
<1>2. grid \in [1 .. Len(grid) -> [1 .. Len(grid[1]) -> Cells]]
  BY GridIs
<1>3. i \in 1 .. Len(grid) /\ j \in 1 .. Len(grid)
  BY <1>1
<1>4. e \in [1 .. Len(grid) -> [1 .. Len(grid[1]) -> Cells]]
  BY <1>2, <1>3
<1> QED BY ONLY IsGrid(grid), <1>4, SameShape

RowFor(r, f) == [Blanks(Len(grid[1])) EXCEPT ![f] = <<r>>]
RowAdded(r, f, i) == InsertAt(grid, i, RowFor(r, f))

LEMMA RowAddedGrid ==
    ASSUME IsGrid(grid), NEW f \in 1 .. Len(grid[1]), NEW r \in Runs, NEW i \in 2 .. Len(grid) + 1
    PROVE  /\ IsGrid(RowAdded(r, f, i)) /\ Len(RowAdded(r, f, i)) = Len(grid) + 1
           /\ \A k \in 1 .. Len(grid[1]) : RowFor(r, f)[k] = IF k = f THEN <<r>> ELSE Blank
           /\ \A x \in 1 .. Len(grid) + 1 : RowAdded(r, f, i)[x] =
                 IF x < i THEN grid[x] ELSE IF x = i THEN RowFor(r, f) ELSE grid[x - 1]
<1> DEFINE n == Len(grid)
           m == Len(grid[1])
           S == [1 .. m -> Cells]
           row == RowFor(r, f)
           e == RowAdded(r, f, i)
<1>1. n \in Nat \ {0} /\ m \in Nat
  BY GridFacts
<1>2. row \in S /\ \A k \in 1 .. m : row[k] = IF k = f THEN <<r>> ELSE Blank
  <2>1. <<r>> \in Cells /\ Blank \in Cells
    BY BlankCell DEF Cells
  <2> QED BY <1>1, <2>1 DEF Blanks, RowFor
<1>3. grid \in Seq(S)
  <2>1. grid \in [1 .. n -> S]
    BY GridIs
  <2> HIDE DEF S
  <2> QED BY <1>1, <2>1, SeqDef
<1>4. i \in 1 .. n + 1
  BY <1>1
<1>5. e = InsertAt(grid, i, row)
  BY DEF RowAdded
<1> HIDE DEF row, e
<1>6. /\ e \in Seq(S) /\ Len(e) = n + 1
      /\ \A x \in 1 .. n + 1 : e[x] = IF x < i THEN grid[x] ELSE IF x = i THEN row ELSE grid[x - 1]
  <2> HIDE DEF S
  <2>1. row \in S /\ i \in 1 .. Len(grid) + 1
    BY <1>2, <1>4
  <2>2. LET a == InsertAt(grid, i, row) IN
        /\ a \in Seq(S) /\ Len(a) = Len(grid) + 1
        /\ \A x \in 1 .. Len(grid) + 1 :
              a[x] = IF x < i THEN grid[x] ELSE IF x = i THEN row ELSE grid[x - 1]
    BY ONLY <1>3, <2>1, InsertAtFacts
  <2> QED BY ONLY <1>5, <2>2 DEF n
<1>7. IsGrid(e)
  <2>1. e \in [1 .. n + 1 -> S] /\ n + 1 \in Nat \ {0}
    <3> HIDE DEF S, n
    <3>1. e \in Seq(S) /\ Len(e) = n + 1
      BY <1>6
    <3>2. e \in [1 .. Len(e) -> S]
      BY ONLY <3>1, LenProperties
    <3>3. n + 1 \in Nat \ {0}
      BY <1>1
    <3> QED BY ONLY <3>1, <3>2, <3>3
  <2>2. e \in Grids(n + 1, m)
    BY <2>1 DEF Grids
  <2>3. n + 1 \in Nat \ {0} /\ m \in Nat
    BY <1>1
  <2> HIDE DEF n, m
  <2> QED BY ONLY <2>2, <2>3, GridOf
<1> QED BY <1>2, <1>6, <1>7 DEF row, e

ColumnAdded(k, name) ==
    [i \in DOMAIN grid |-> InsertAt(grid[i], k, IF i = 1 THEN name ELSE Blank)]

LEMMA ColumnAddedGrid ==
    ASSUME IsGrid(grid), NEW k \in 1 .. Len(grid[1]) + 1, NEW name \in {Blank, <<"note">>}
    PROVE  /\ IsGrid(ColumnAdded(k, name)) /\ Len(ColumnAdded(k, name)) = Len(grid)
           /\ \A i \in 1 .. Len(grid) :
                 /\ Len(ColumnAdded(k, name)[i]) = Len(grid[1]) + 1
                 /\ \A c \in 1 .. Len(grid[1]) + 1 : ColumnAdded(k, name)[i][c] =
                       IF c < k THEN grid[i][c]
                       ELSE IF c = k THEN IF i = 1 THEN name ELSE Blank ELSE grid[i][c - 1]
<1> DEFINE n == Len(grid)
           m == Len(grid[1])
           cell(i) == IF i = 1 THEN name ELSE Blank
           e == ColumnAdded(k, name)
<1>1. /\ n \in Nat \ {0} /\ DOMAIN grid = 1 .. n /\ m \in Nat /\ DOMAIN grid[1] = 1 .. m
      /\ \A i \in 1 .. n : grid[i] \in Seq(Cells) /\ Len(grid[i]) = m
      /\ 1 \in 1 .. n
  BY GridFacts
<1>2. \A i : cell(i) \in Cells
  BY DEF Cells, Blank
<1>3. e = [i \in 1 .. n |-> InsertAt(grid[i], k, cell(i))]
  BY <1>1 DEF ColumnAdded
<1> HIDE DEF cell, e
<1>4. ASSUME NEW i \in 1 .. n
      PROVE  /\ e[i] \in [1 .. m + 1 -> Cells]
             /\ \A c \in 1 .. m + 1 :
                   e[i][c] = IF c < k THEN grid[i][c] ELSE IF c = k THEN cell(i) ELSE grid[i][c - 1]
  <2>1. grid[i] \in Seq(Cells) /\ Len(grid[i]) = m /\ k \in 1 .. Len(grid[i]) + 1 /\ cell(i) \in Cells
    BY <1>1, <1>2
  <2> DEFINE a == InsertAt(grid[i], k, cell(i))
  <2>0. \A T \in Seq(Cells) : \A q \in 1 .. Len(T) + 1, x \in Cells :
           /\ InsertAt(T, q, x) \in Seq(Cells) /\ Len(InsertAt(T, q, x)) = Len(T) + 1
           /\ \A y \in 1 .. Len(T) + 1 :
                 InsertAt(T, q, x)[y] = IF y < q THEN T[y] ELSE IF y = q THEN x ELSE T[y - 1]
    BY InsertAtFacts
  <2>2. /\ a \in Seq(Cells) /\ Len(a) = Len(grid[i]) + 1
        /\ \A c \in 1 .. Len(grid[i]) + 1 :
              a[c] = IF c < k THEN grid[i][c] ELSE IF c = k THEN cell(i) ELSE grid[i][c - 1]
    BY ONLY <2>0, <2>1
  <2>3. e[i] = a
    BY <1>3
  <2> HIDE DEF a, m
  <2>4. a \in [1 .. m + 1 -> Cells]
    BY ONLY <2>1, <2>2, LenProperties
  <2> QED BY ONLY <2>1, <2>2, <2>3, <2>4
<1>5. IsGrid(e) /\ Len(e) = n /\ \A i \in 1 .. n : Len(e[i]) = m + 1
  <2>1. e \in [1 .. n -> [1 .. m + 1 -> Cells]]
    BY <1>3, <1>4
  <2>2. m + 1 \in Nat /\ n \in Nat \ {0}
    BY <1>1
  <2>3. e \in Grids(n, m + 1)
    BY <2>1 DEF Grids
  <2> HIDE DEF n, m
  <2> QED BY ONLY <2>2, <2>3, GridOf
<1> QED BY <1>4, <1>5 DEF cell, e

LEMMA SortedFollows ==
    ASSUME IsGrid(grid), OneOfEach(grid), Placed(grid),
           NEW i \in 2 .. Len(grid), NEW j \in 2 .. Len(grid), i < j,
           NEW e, e = [grid EXCEPT ![i] = grid[j], ![j] = grid[i]]
    PROVE  /\ IsGrid(e) /\ OneOfEach(e) /\ Placed(e)
           /\ \A r \in Runs \ Twice : Shown(grid, r) => Shown(e, r)
<1> DEFINE p(x) == IF x = i THEN j ELSE IF x = j THEN i ELSE x
<1>1. /\ Len(grid) \in Nat \ {0} /\ DOMAIN grid = 1 .. Len(grid) /\ Len(grid[1]) \in Nat
      /\ \A x \in 1 .. Len(grid) : DOMAIN grid[x] = 1 .. Len(grid[1])
  BY GridFacts
<1>2. grid \in [1 .. Len(grid) -> [1 .. Len(grid[1]) -> Cells]]
  BY GridIs
<1>3. i \in 1 .. Len(grid) /\ j \in 1 .. Len(grid) /\ 1 # i /\ 1 # j /\ i # j
  BY <1>1
<1>4. /\ e \in [1 .. Len(grid) -> [1 .. Len(grid[1]) -> Cells]]
      /\ \A x \in 1 .. Len(grid) : e[x] = grid[p(x)]
  BY <1>2, <1>3
<1>5. \A x \in 2 .. Len(grid) : p(x) \in 2 .. Len(grid) /\ p(p(x)) = x /\ x \in 1 .. Len(grid)
  BY <1>1
<1>6. e[1] = grid[1]
  BY <1>1, <1>3, <1>4
<1> HIDE DEF p
<1>7. IsGrid(e) /\ Len(e) = Len(grid)
  <2>1. e \in [1 .. Len(grid) -> [1 .. Len(grid[1]) -> Cells]]
    BY <1>4
  <2> QED BY ONLY IsGrid(grid), <2>1, SameShape
<1>8. OneOfEach(e) /\ \A k, name : Named(e, k, name) <=> Named(grid, k, name)
  BY <1>6, SameHeaders
<1>9. Placed(e)
  <2> SUFFICES ASSUME NEW x \in 2 .. Len(grid), NEW k \in DOMAIN e[1], Len(e[x][k]) = 2
               PROVE  /\ Named(e, k, e[x][k][2])
                      /\ \A f \in DOMAIN e[1] : Named(e, f, "folder") => e[x][f] = <<e[x][k][1]>>
    BY <1>7 DEF Placed
  <2>1. e[x] = grid[p(x)] /\ p(x) \in 2 .. Len(grid) /\ k \in DOMAIN grid[1]
    BY <1>4, <1>5, <1>6
  <2>2. /\ Named(grid, k, grid[p(x)][k][2])
        /\ \A f \in DOMAIN grid[1] : Named(grid, f, "folder") => grid[p(x)][f] = <<grid[p(x)][k][1]>>
    <3>1. Len(grid[p(x)][k]) = 2
      BY <2>1
    <3> QED BY ONLY Placed(grid), <2>1, <3>1 DEF Placed
  <2> QED BY ONLY <1>6, <1>8, <2>1, <2>2
<1>10. ASSUME NEW r \in Runs \ Twice, Shown(grid, r) PROVE Shown(e, r)
  <2>1. PICK m \in 2 .. Len(grid), s \in DOMAIN grid[1] :
           FirstRow(grid, r, m) /\ Named(grid, s, "compltd_status") /\ grid[m][s] = <<r, "compltd_status">>
    BY <1>10 DEF Shown
  <2>2. p(m) \in 2 .. Len(grid) /\ e[p(m)] = grid[m]
    BY <1>4, <1>5
  <2>3. ASSUME NEW f \in DOMAIN e[1], Named(e, f, "folder"), NEW x \in 2 .. Len(grid), e[x][f] = <<r>>
        PROVE  x = p(m)
    <3>0. e[x] = grid[p(x)] /\ e[x][f] = <<r>>
      BY <1>4, <1>5, <2>3
    <3>1. p(x) \in 2 .. Len(grid) /\ grid[p(x)][f] = <<r>> /\ p(x) \in 1 .. Len(grid) /\ m \in 1 .. Len(grid)
      BY <1>1, <1>5, <3>0
    <3>2. grid[m][f] = <<r>> /\ f \in 1 .. Len(grid[1])
      <4>1. f \in DOMAIN grid[1] /\ Named(grid, f, "folder")
        BY ONLY <1>6, <1>8, <2>3
      <4>2. grid[m][f] = <<r>>
        BY ONLY <2>1, <4>1 DEF FirstRow
      <4>3. DOMAIN grid[1] = 1 .. Len(grid[1])
        BY <1>1
      <4> QED BY ONLY <4>1, <4>2, <4>3
    <3>3. <<r>> \in ToSet(grid[p(x)]) /\ <<r>> \in ToSet(grid[m])
      BY <1>1, <3>1, <3>2 DEF ToSet
    <3>4. p(x) = m
      BY <3>1, <3>3, ListedOnce
    <3> QED BY <1>5, <3>4
  <2>4. \A x \in 2 .. p(m) - 1 : x \in 2 .. Len(grid) /\ x # p(m)
    BY <1>1, <2>2
  <2>5. FirstRow(e, r, p(m))
    <3> SUFFICES ASSUME NEW f \in DOMAIN e[1], Named(e, f, "folder")
                 PROVE  e[p(m)][f] = <<r>> /\ \A x \in 2 .. p(m) - 1 : e[x][f] # <<r>>
      BY <1>7, <2>2 DEF FirstRow
    <3>1. grid[m][f] = <<r>>
      BY <1>6, <1>8, <2>1 DEF FirstRow
    <3> QED BY <2>2, <2>3, <2>4, <3>1
  <2> QED BY <1>6, <1>7, <1>8, <2>1, <2>2, <2>5 DEF Shown
<1> QED BY <1>7, <1>8, <1>9, <1>10

\* A row for a run that was not listed moves rows down, and stays behind the first rows of
\* all others.
LEMMA RowInserted ==
    ASSUME IsGrid(grid), OneOfEach(grid), Placed(grid), NEW f, Named(grid, f, "folder"),
           NEW r \in Runs, \A j \in DOMAIN grid : <<r>> \notin ToSet(grid[j]),
           NEW i \in 2 .. Len(grid) + 1,
           NEW e, e = RowAdded(r, f, i)
    PROVE  /\ IsGrid(e) /\ Len(e) = Len(grid) + 1 /\ OneOfEach(e) /\ Placed(e)
           /\ \A q : Shown(grid, q) => Shown(e, q)
           /\ i > Len(grid) => Follows(grid, e)
<1> DEFINE n == Len(grid)
           m == Len(grid[1])
           row == RowFor(r, f)
<1>1. /\ n \in Nat \ {0} /\ DOMAIN grid = 1 .. n /\ m \in Nat /\ f \in 1 .. m
      /\ \A x \in 1 .. n : DOMAIN grid[x] = 1 .. m
      /\ DOMAIN grid[1] = 1 .. m
  BY GridFacts DEF Named
<1>2. /\ IsGrid(e) /\ Len(e) = n + 1
      /\ \A k \in 1 .. m : row[k] = IF k = f THEN <<r>> ELSE Blank
      /\ \A x \in 1 .. n + 1 : e[x] = IF x < i THEN grid[x] ELSE IF x = i THEN row ELSE grid[x - 1]
  BY <1>1, RowAddedGrid
<1>4. i \in 1 .. n + 1
  BY <1>1
<1> HIDE DEF row
<1>6. Len(e) = n + 1 /\ \A x \in 1 .. n + 1 :
         e[x] = IF x < i THEN grid[x] ELSE IF x = i THEN row ELSE grid[x - 1]
  BY <1>2
<1>7. IsGrid(e)
  BY <1>2
<1>8. e[1] = grid[1]
  <2>1. 1 \in 1 .. n + 1 /\ 1 < i
    BY <1>1, <1>4
  <2>2. e[1] = IF 1 < i THEN grid[1] ELSE IF 1 = i THEN row ELSE grid[1 - 1]
    BY ONLY <1>6, <2>1
  <2> QED BY <2>1, <2>2
<1>9. OneOfEach(e) /\ Headers(e) = Headers(grid) /\ \A k, name : Named(e, k, name) <=> Named(grid, k, name)
  BY <1>8, SameHeaders
<1> DEFINE up(x) == IF x < i THEN x ELSE x + 1
           down(x) == IF x < i THEN x ELSE x - 1
<1>10. /\ \A x \in 2 .. n : up(x) \in 2 .. n + 1 /\ up(x) # i /\ e[up(x)] = grid[x] /\ down(up(x)) = x
       /\ \A x \in 2 .. n + 1 : x # i => down(x) \in 2 .. n /\ e[x] = grid[down(x)]
       /\ \A x \in 2 .. n : \A y \in 2 .. up(x) - 1 : y # i => down(y) \in 2 .. x - 1
       /\ e[i] = row
  <2> HIDE DEF n, m
  <2>1. i \in 2 .. n + 1
    BY DEF n
  <2>2. ASSUME NEW x \in 2 .. n
        PROVE  /\ up(x) \in 2 .. n + 1 /\ up(x) # i /\ e[up(x)] = grid[x] /\ down(up(x)) = x
               /\ \A y \in 2 .. up(x) - 1 : y # i => down(y) \in 2 .. x - 1
    <3>1. x \in Nat /\ i \in Nat /\ up(x) \in Nat /\ up(x) # i /\ down(up(x)) = x
      BY <1>1, <2>1
    <3>2. up(x) \in 2 .. n + 1 /\ up(x) \in 1 .. n + 1
      BY <1>1, <2>1
    <3>3. e[up(x)] = IF up(x) < i THEN grid[up(x)] ELSE IF up(x) = i THEN row ELSE grid[up(x) - 1]
      BY ONLY <1>6, <3>2
    <3>4. IF up(x) < i THEN up(x) = x ELSE up(x) - 1 = x
      BY <1>1, <2>1
    <3>5. e[up(x)] = grid[x]
      BY ONLY <3>1, <3>3, <3>4
    <3>6. \A y \in 2 .. up(x) - 1 : y # i => down(y) \in 2 .. x - 1
      BY <1>1, <2>1
    <3> QED BY ONLY <3>1, <3>2, <3>5, <3>6
  <2>3. ASSUME NEW x \in 2 .. n + 1, x # i PROVE down(x) \in 2 .. n /\ e[x] = grid[down(x)]
    <3>1. x \in 1 .. n + 1 /\ down(x) \in 2 .. n
      BY <1>1, <2>1, <2>3
    <3>2. e[x] = IF x < i THEN grid[x] ELSE IF x = i THEN row ELSE grid[x - 1]
      BY ONLY <1>6, <3>1
    <3> QED BY <2>3, <3>1, <3>2
  <2>4. e[i] = row
    <3>1. i \in 1 .. n + 1 /\ ~(i < i)
      BY <1>1, <2>1
    <3>2. e[i] = IF i < i THEN grid[i] ELSE IF i = i THEN row ELSE grid[i - 1]
      BY ONLY <1>6, <3>1
    <3> QED BY <3>1, <3>2
  <2> QED BY <2>2, <2>3, <2>4
<1> HIDE DEF n, m
<1>11. \A k : Named(grid, k, "folder") => k = f
  BY DEF OneOfEach, Names, Named
<1>12. ASSUME NEW q, NEW x, FirstRow(grid, q, x)
       PROVE  FirstRow(e, q, up(x)) /\ x \in 2 .. n /\ e[up(x)] = grid[x]
  <2>1. x \in 2 .. n /\ grid[x][f] = <<q>> /\ \A y \in 2 .. x - 1 : grid[y][f] # <<q>>
    BY <1>12 DEF FirstRow, n, Named
  <2>2. <<q>> # <<r>>
    <3>1. x \in 1 .. n
      BY <1>1, <2>1
    <3>2. grid[x][f] \in ToSet(grid[x])
      BY <1>1, <3>1 DEF ToSet
    <3> QED BY <1>1, <2>1, <3>1, <3>2
  <2>3. up(x) \in 2 .. n + 1 /\ e[up(x)] = grid[x]
    BY <1>10, <2>1
  <2>4. ASSUME NEW y \in 2 .. up(x) - 1 PROVE e[y][f] # <<q>>
    <3>1. CASE y = i
      BY <1>1, <1>2, <1>10, <2>2, <3>1
    <3>2. CASE y # i
      <4>1. down(y) \in 2 .. x - 1
        BY <1>10, <2>1, <3>2
      <4>2. y \in 2 .. n + 1
        BY <1>1, <2>3
      <4>3. e[y] = grid[down(y)]
        BY <1>10, <3>2, <4>2
      <4> QED BY <2>1, <4>1, <4>3
    <3> QED BY <3>1, <3>2
  <2> HIDE DEF up
  <2>5. e[up(x)][f] = <<q>>
    BY <2>1, <2>3
  <2>6. \A k : Named(e, k, "folder") => k = f
    BY <1>9, <1>11
  <2>7. up(x) \in 2 .. Len(e)
    BY <1>6, <2>3
  <2> QED BY <2>1, <2>3, <2>4, <2>5, <2>6, <2>7 DEF FirstRow
<1>13. ASSUME NEW q, Shown(grid, q) PROVE Shown(e, q)
  <2>1. PICK x \in 2 .. n, s \in DOMAIN grid[1] :
           FirstRow(grid, q, x) /\ Named(grid, s, "compltd_status") /\ grid[x][s] = <<q, "compltd_status">>
    BY <1>13 DEF Shown, n
  <2>2. FirstRow(e, q, up(x)) /\ e[up(x)] = grid[x]
    BY <1>12, <2>1
  <2> HIDE DEF up
  <2> QED BY <1>8, <1>9, <2>1, <2>2 DEF Shown, FirstRow
<1>14. Placed(e)
  <2> SUFFICES ASSUME NEW x \in 2 .. n + 1, NEW k \in DOMAIN grid[1], Len(e[x][k]) = 2
               PROVE  /\ Named(grid, k, e[x][k][2])
                      /\ \A c \in DOMAIN grid[1] : Named(grid, c, "folder") => e[x][c] = <<e[x][k][1]>>
    <3> DEFINE Fine(x, k) == Len(e[x][k]) = 2 =>
                  /\ Named(grid, k, e[x][k][2])
                  /\ \A c \in DOMAIN grid[1] : Named(grid, c, "folder") => e[x][c] = <<e[x][k][1]>>
    <3>1. Len(e) = n + 1
      BY <1>6
    <3>2. \A x \in 2 .. Len(e), k \in DOMAIN e[1] : Fine(x, k)
      BY ONLY <3>1, <1>8, \A x \in 2 .. n + 1, k \in DOMAIN grid[1] : Fine(x, k)
    <3> QED BY ONLY <3>2, <1>8, <1>9 DEF Placed
  <2>1. x # i
    <3>1. Len(<<r>>) # 2 /\ Len(Blank) # 2
      BY EmptySeq DEF Blank
    <3>2. ASSUME x = i PROVE FALSE
      <4>1. e[x][k] = <<r>> \/ e[x][k] = Blank
        BY <1>1, <1>2, <1>10, <3>2
      <4> QED BY <3>1, <4>1
    <3> QED BY <3>2
  <2>2. down(x) \in 2 .. n /\ e[x] = grid[down(x)]
    BY <1>10, <2>1
  <2> HIDE DEF down
  <2>3. Len(grid[down(x)][k]) = 2
    BY <2>2
  <2>4. /\ Named(grid, k, grid[down(x)][k][2])
        /\ \A c \in DOMAIN grid[1] : Named(grid, c, "folder") => grid[down(x)][c] = <<grid[down(x)][k][1]>>
    BY ONLY Placed(grid), <2>2, <2>3 DEF Placed, n
  <2> QED BY ONLY <2>2, <2>4
<1>15. ASSUME i > n PROVE Follows(grid, e)
  <2>1. \A q, x : FirstRow(grid, q, x) => FirstRow(e, q, x)
    <3> SUFFICES ASSUME NEW q, NEW x, FirstRow(grid, q, x) PROVE FirstRow(e, q, x)
      OBVIOUS
    <3>1. x \in 2 .. n /\ FirstRow(e, q, up(x))
      BY <1>12
    <3>2. up(x) = x
      BY <1>1, <1>4, <1>15, <3>1
    <3> HIDE DEF up
    <3> QED BY <3>1, <3>2
  <2>2. Len(e[1]) >= Len(grid[1])
    BY <1>1, <1>8 DEF m
  <2> QED BY <1>9, <1>13, <2>1, <2>2 DEF Follows
<1> QED BY <1>6, <1>7, <1>9, <1>13, <1>14, <1>15 DEF n

\* A column that has none of the names the application looks for moves the others right, and
\* stays behind the headers if it is a blank one behind them.
LEMMA ColumnInserted ==
    ASSUME IsGrid(grid), OneOfEach(grid), Placed(grid),
           NEW k \in 1 .. Len(grid[1]) + 1, NEW name \in {Blank, <<"note">>},
           NEW e, e = ColumnAdded(k, name)
    PROVE  /\ IsGrid(e) /\ Len(e) = Len(grid) /\ OneOfEach(e) /\ Placed(e)
           /\ \A r : Shown(grid, r) => Shown(e, r)
           /\ k > Len(Headers(grid)) /\ name = Blank => Follows(grid, e)
<1> DEFINE n == Len(grid)
           m == Len(grid[1])
           cell(i) == IF i = 1 THEN name ELSE Blank
           up(c) == IF c < k THEN c ELSE c + 1
<1>1. /\ n \in Nat \ {0} /\ DOMAIN grid = 1 .. n /\ m \in Nat /\ DOMAIN grid[1] = 1 .. m
      /\ 1 \in 1 .. n
  BY GridFacts
<1>4. /\ IsGrid(e) /\ Len(e) = n
      /\ \A i \in 1 .. n : /\ Len(e[i]) = m + 1
                           /\ \A c \in 1 .. m + 1 : e[i][c] =
                                 IF c < k THEN grid[i][c] ELSE IF c = k THEN cell(i) ELSE grid[i][c - 1]
  BY ColumnAddedGrid
<1>5. IsGrid(e) /\ Len(e) = n /\ \A i \in 1 .. n : Len(e[i]) = m + 1
  BY <1>4
<1> HIDE DEF cell
<1>6. DOMAIN e[1] = 1 .. m + 1 /\ k \in 1 .. m + 1
  BY <1>1, <1>5, GridFacts
<1> HIDE DEF n, m
<1>7. ASSUME NEW c \in 1 .. m
      PROVE  up(c) \in 1 .. m + 1 /\ \A i \in 1 .. n : e[i][up(c)] = grid[i][c]
  <2>1. up(c) \in 1 .. m + 1 /\ IF up(c) < k THEN up(c) = c ELSE up(c) # k /\ up(c) - 1 = c
    BY <1>1, <1>6
  <2> HIDE DEF up
  <2>2. ASSUME NEW i \in 1 .. n PROVE e[i][up(c)] = grid[i][c]
    <3>1. e[i][up(c)] = IF up(c) < k THEN grid[i][up(c)]
                        ELSE IF up(c) = k THEN cell(i) ELSE grid[i][up(c) - 1]
      BY <1>4, <2>1
    <3> QED BY ONLY <2>1, <3>1
  <2> QED BY <2>1, <2>2
<1>8. \A i \in 1 .. n : e[i][k] = cell(i)
  <2>1. ~(k < k)
    BY <1>1, <1>6
  <2> QED BY <1>4, <1>6, <2>1
<1>9. \A c \in 1 .. m + 1 : c = k \/ \E d \in 1 .. m : c = up(d)
  <2> SUFFICES ASSUME NEW c \in 1 .. m + 1, c # k PROVE \E d \in 1 .. m : c = up(d)
    OBVIOUS
  <2>1. CASE c < k
    <3>1. c \in 1 .. m /\ c = up(c)
      BY <1>1, <1>6, <2>1
    <3> QED BY <3>1
  <2>2. CASE c > k
    <3>1. c - 1 \in 1 .. m /\ c = up(c - 1)
      BY <1>1, <1>6, <2>2
    <3> QED BY <3>1
  <2> QED BY <1>1, <1>6, <2>1, <2>2
<1>10. \A c, d \in 1 .. m : up(c) = up(d) => c = d
  BY <1>1, <1>6
<1> HIDE DEF up
<1>11. \A c, x : Named(grid, c, x) => c \in 1 .. m /\ Named(e, up(c), x)
  BY <1>1, <1>6, <1>7 DEF Named
<1>12. ASSUME NEW x \in Names, NEW c, Named(e, c, x)
       PROVE  \E d \in 1 .. m : c = up(d) /\ Named(grid, d, x)
  <2>1. c \in 1 .. m + 1 /\ e[1][c] = <<x>>
    BY <1>6, <1>12 DEF Named
  <2>2. c # k
    <3>1. cell(1) # <<x>>
      <4>1. "note" \notin Names
        BY AppColumnFacts DEF Names
      <4>2. x # "note"
        BY <4>1
      <4> QED BY <4>2, BlankCell DEF cell
    <3> QED BY <1>1, <1>8, <2>1, <3>1
  <2>3. PICK d \in 1 .. m : c = up(d)
    BY <1>9, <2>1, <2>2
  <2> QED BY <1>1, <1>7, <2>1, <2>3 DEF Named
<1>13. OneOfEach(e)
  <2>1. ASSUME NEW x \in Names, NEW c, NEW d, Named(e, c, x), Named(e, d, x) PROVE c = d
    <3>1. PICK a \in 1 .. m : c = up(a) /\ Named(grid, a, x)
      BY <1>12, <2>1
    <3>2. PICK b \in 1 .. m : d = up(b) /\ Named(grid, b, x)
      BY <1>12, <2>1
    <3> QED BY <3>1, <3>2 DEF OneOfEach, Named
  <2>2. ASSUME NEW x \in {"folder", "validation"} PROVE \E c \in DOMAIN e[1] : Named(e, c, x)
    <3>1. PICK c \in DOMAIN grid[1] : Named(grid, c, x)
      BY DEF OneOfEach
    <3> QED BY <1>11, <3>1 DEF Named
  <2> QED BY <2>1, <2>2 DEF OneOfEach
<1>14. \A c : Named(e, c, "folder") => \E d \in 1 .. m : c = up(d) /\ Named(grid, d, "folder")
  BY <1>12 DEF Names
<1>15. \A i \in 2 .. n : i \in 1 .. n
  BY <1>1
<1>16. ASSUME NEW r, NEW i, FirstRow(grid, r, i) PROVE FirstRow(e, r, i) /\ i \in 2 .. n
  <2>1. i \in 2 .. n
    BY <1>16 DEF FirstRow, n
  <2>2. ASSUME NEW c, Named(e, c, "folder")
        PROVE  e[i][c] = <<r>> /\ \A j \in 2 .. i - 1 : e[j][c] # <<r>>
    <3>1. PICK d \in 1 .. m : c = up(d) /\ Named(grid, d, "folder")
      BY <1>14, <2>2
    <3>2. grid[i][d] = <<r>> /\ \A j \in 2 .. i - 1 : grid[j][d] # <<r>>
      BY <1>16, <3>1 DEF FirstRow, Named
    <3>3. \A j \in 2 .. i - 1 : j \in 1 .. n
      BY <1>1, <2>1
    <3>4. \A j \in 1 .. n : e[j][c] = grid[j][d]
      BY <1>7, <3>1
    <3> QED BY ONLY <1>15, <2>1, <3>2, <3>3, <3>4
  <2> QED BY <1>5, <2>1, <2>2 DEF FirstRow
<1>17. ASSUME NEW r, Shown(grid, r) PROVE Shown(e, r)
  <2>1. PICK i \in 2 .. n, s \in DOMAIN grid[1] :
           FirstRow(grid, r, i) /\ Named(grid, s, "compltd_status") /\ grid[i][s] = <<r, "compltd_status">>
    BY <1>17 DEF Shown, n
  <2>2. s \in 1 .. m /\ Named(e, up(s), "compltd_status") /\ FirstRow(e, r, i)
    BY <1>11, <1>16, <2>1
  <2>3. e[i][up(s)] = <<r, "compltd_status">>
    BY <1>7, <1>15, <2>1, <2>2
  <2> QED BY <2>2, <2>3 DEF Shown, Named, FirstRow
<1>18. Placed(e)
  <2>1. ASSUME NEW i \in 2 .. n, NEW c \in 1 .. m + 1, Len(e[i][c]) = 2
        PROVE  /\ Named(e, c, e[i][c][2])
               /\ \A f \in DOMAIN e[1] : Named(e, f, "folder") => e[i][f] = <<e[i][c][1]>>
    <3>1. c # k
      <4>1. cell(i) = Blank
        BY <1>1 DEF cell
      <4>2. e[i][k] = Blank
        BY <1>8, <1>15, <4>1
      <4>3. Len(Blank) # 2
        BY EmptySeq DEF Blank
      <4> QED BY ONLY <2>1, <4>2, <4>3
    <3>2. PICK d \in 1 .. m : c = up(d)
      BY <1>9, <3>1
    <3>3. e[i][c] = grid[i][d]
      BY <1>7, <1>15, <3>2
    <3>4. /\ Named(grid, d, grid[i][d][2])
          /\ \A f \in DOMAIN grid[1] : Named(grid, f, "folder") => grid[i][f] = <<grid[i][d][1]>>
      BY <1>1, <2>1, <3>3 DEF Placed, n
    <3>5. ASSUME NEW f, Named(e, f, "folder") PROVE e[i][f] = <<e[i][c][1]>>
      <4>1. PICK b \in 1 .. m : f = up(b) /\ Named(grid, b, "folder")
        BY <1>14, <3>5
      <4>2. e[i][f] = grid[i][b]
        BY <1>7, <1>15, <4>1
      <4>3. grid[i][b] = <<grid[i][d][1]>>
        BY <3>4, <4>1 DEF Named
      <4> QED BY ONLY <3>3, <4>2, <4>3
    <3>6. Named(e, c, e[i][c][2])
      <4>1. Named(grid, d, e[i][c][2])
        BY ONLY <3>3, <3>4
      <4> QED BY <1>11, <3>2, <4>1
    <3> QED BY ONLY <3>5, <3>6
  <2>2. Len(e) = n
    BY <1>5
  <2> QED BY ONLY <1>6, <2>1, <2>2 DEF Placed
<1>19. ASSUME k > Len(Headers(grid)), name = Blank PROVE Follows(grid, e)
  <2> DEFINE H == Headers(grid)
  <2>1. HeadersOf(grid[1], H) /\ Len(H) \in Nat /\ Len(H) <= m
    BY HeadersFacts, LenProperties DEF HeadersOf, m
  <2> HIDE DEF H
  <2>2. k > Len(H)
    BY <1>19 DEF H
  <2>3. \A c \in Len(H) + 1 .. m : grid[1][c] = Blank
    BY <2>1 DEF HeadersOf, m
  <2>4. ASSUME NEW c \in Len(H) + 1 .. m + 1 PROVE e[1][c] = Blank
    <3>1. CASE c = k
      BY <1>1, <1>8, <1>19, <3>1 DEF cell
    <3>2. CASE c # k
      <4>1. c \in 1 .. m + 1
        BY <2>1
      <4>2. PICK d \in 1 .. m : c = up(d)
        BY <1>9, <3>2, <4>1
      <4>3. d \in Len(H) + 1 .. m
        BY <1>1, <1>6, <2>1, <2>2, <2>4, <4>2 DEF up
      <4> QED BY <1>1, <1>7, <2>3, <4>2, <4>3
    <3> QED BY <3>1, <3>2
  <2>5. ASSUME NEW c \in 1 .. Len(H) PROVE e[1][c] = grid[1][c]
    <3>1. c \in 1 .. m /\ up(c) = c
      BY <1>1, <1>6, <2>1, <2>2 DEF up
    <3> QED BY <1>1, <1>7, <3>1
  <2>6. Len(e[1]) = m + 1
    BY <1>1, <1>5
  <2>7. Len(H) <= m + 1 /\ \A c \in 1 .. Len(H) : H[c] = e[1][c]
    BY <1>1, <2>1, <2>5 DEF HeadersOf
  <2>8. Len(H) # 0 => e[1][Len(H)] # Blank
    <3>1. Len(H) # 0 => Len(H) \in 1 .. Len(H)
      BY <2>1
    <3> QED BY <2>1, <2>5, <3>1 DEF HeadersOf
  <2>9. HeadersOf(e[1], H)
    BY <2>1, <2>4, <2>6, <2>7, <2>8 DEF HeadersOf
  <2>10. Headers(e) = H
    BY <1>5, <2>9, HeadersAre
  <2>11. Len(e[1]) >= Len(grid[1])
    BY <1>1, <2>6 DEF m
  <2> QED BY <1>16, <1>17, <2>10, <2>11 DEF Follows, H
<1> QED BY <1>5, <1>13, <1>17, <1>18, <1>19 DEF n

-------------------------------------------------------------------------------
(* What the steps of writers and people have in common *)

LEMMA SelfFollows == ASSUME NEW g, IsGrid(g) PROVE Follows(g, g)
<1>1. Len(g[1]) \in Nat
  BY GridFacts
<1> QED BY <1>1 DEF Follows

\* A step of a writer to local state v, after which what it has worked out, and what all
\* had, still holds.
LEMMA WriterKeeps ==
    ASSUME IInv, NEW w \in Writers, NEW v \in WriterStates, writer' = [writer EXCEPT ![w] = v],
           IsGrid(grid'), Len(grid') = Len(grid),
           \A r \in DOMAIN v.rows : v.rows[r] \in 2 .. Len(grid),
           SetsInv', resorted' = resorted,
           ~spoiled' => /\ ~spoiled /\ Follows(grid, grid')
                        /\ OneOfEach(grid') /\ Placed(grid')
                        /\ WriterSound(grid', v, resorted)
                        /\ \A r \in reported' \ (reported \cup resorted) : Shown(grid', r)
    PROVE  IInv'
<1>1. writer \in [Writers -> WriterStates] /\ IsGrid(grid)
  BY DEF IInv, TypeInv, WritersInv
<1>2. writer' \in [Writers -> WriterStates]
  BY <1>1
<1>3. \A x \in Writers : writer'[x] = IF x = w THEN v ELSE writer[x]
  BY <1>1
<1>4. WritersInv'
  BY <1>2, <1>3 DEF WritersInv, IInv, TypeInv
<1>5. ASSUME ~spoiled' PROVE Claims'
  <2>1. Claims
    BY <1>5 DEF IInv
  <2>2. ASSUME NEW x \in Writers PROVE WriterSound(grid', writer'[x], resorted)
    <3>1. CASE x = w
      BY <1>3, <1>5, <3>1
    <3>2. CASE x # w
      <4>1. writer'[x] = writer[x] /\ writer[x] \in WriterStates /\ WriterSound(grid, writer[x], resorted)
        BY <1>1, <1>3, <2>1, <3>2 DEF Claims
      <4> QED BY ONLY <1>1, <1>5, <4>1, IsGrid(grid'), FollowsFits,
                      ~spoiled' => Follows(grid, grid')
    <3> QED BY <3>1, <3>2
  <2>3. ASSUME NEW r \in reported' \ resorted PROVE Shown(grid', r)
    <3>1. CASE r \in reported
      BY <1>5, <2>1, <3>1 DEF Claims, Follows
    <3>2. CASE r \notin reported
      BY <1>5, <3>2
    <3> QED BY <3>1, <3>2
  <2> QED BY <1>5, <2>2, <2>3 DEF Claims
<1> QED BY <1>4, <1>5 DEF IInv, TypeInv

\* A step of people, after which what writers have worked out is out of date unless the
\* sheet still follows from what it was.
LEMMA PeopleKeep ==
    ASSUME IInv, IsGrid(grid'), Len(grid') >= Len(grid), SetsInv',
           UNCHANGED <<reported, spoiled>>, resorted \subseteq resorted',
           ~spoiled => /\ OneOfEach(grid') /\ Placed(grid')
                       /\ \A r \in Runs \ resorted' : Shown(grid, r) => Shown(grid', r),
           \/ Moved
           \/ UNCHANGED <<writer, resorted>> /\ (~spoiled => Follows(grid, grid'))
    PROVE  IInv'
<1>1. writer \in [Writers -> WriterStates] /\ IsGrid(grid) /\ reported \subseteq Runs
  BY DEF IInv, TypeInv, WritersInv, SetsInv
<1> DEFINE old(w) == [writer[w] EXCEPT !.moved = @ \/ writer[w].headers # <<>>,
                                       !.stale = @ \/ writer[w].expanded]
<1>2. ASSUME NEW w \in Writers
      PROVE  /\ old(w) \in WriterStates
             /\ old(w).pc = writer[w].pc /\ old(w).runs = writer[w].runs
             /\ old(w).rows = writer[w].rows /\ old(w).headers = writer[w].headers
             /\ old(w).expanded = writer[w].expanded
             /\ writer[w].headers # <<>> => old(w).moved
             /\ writer[w].expanded \/ writer[w].stale => old(w).stale
  <2>1. writer[w] \in WriterStates
    BY <1>1
  <2> DEFINE b == writer[w].moved \/ writer[w].headers # <<>>
             c == writer[w].stale \/ writer[w].expanded
  <2>2. /\ b \in BOOLEAN /\ (writer[w].headers # <<>> => b)
        /\ c \in BOOLEAN /\ (writer[w].expanded \/ writer[w].stale => c)
    BY <2>1 DEF WriterStates
  <2>3. old(w) = [writer[w] EXCEPT !.moved = b, !.stale = c]
    BY <2>1 DEF WriterStates
  <2> HIDE DEF b, c, old
  <2>4. [writer[w] EXCEPT !.moved = b, !.stale = c] \in WriterStates
    BY <2>1, <2>2 DEF WriterStates
  <2>5. LET v == [writer[w] EXCEPT !.moved = b, !.stale = c] IN
        /\ v.pc = writer[w].pc /\ v.runs = writer[w].runs
        /\ v.rows = writer[w].rows /\ v.headers = writer[w].headers
        /\ v.expanded = writer[w].expanded /\ v.moved = b /\ v.stale = c
    BY <2>1 DEF WriterStates
  <2> QED BY ONLY <2>2, <2>3, <2>4, <2>5
<1>3. Moved => \A w \in Writers : writer'[w] = old(w)
  BY DEF Moved
<1>4. WritersInv'
  <2>1. CASE Moved
    <3>1. writer' = [w \in Writers |-> old(w)]
      BY <2>1 DEF Moved
    <3> HIDE DEF old
    <3>2. writer' \in [Writers -> WriterStates]
      BY <1>2, <3>1
    <3>3. ASSUME NEW w \in Writers, NEW r \in DOMAIN writer'[w].rows
          PROVE  writer'[w].rows[r] \in 2 .. Len(grid')
      <4>1. writer'[w].rows = writer[w].rows
        BY <1>2, <1>3, <2>1
      <4>2. writer[w].rows[r] \in 2 .. Len(grid)
        BY <4>1 DEF IInv, TypeInv, WritersInv
      <4>3. Len(grid) \in Nat /\ Len(grid') \in Nat
        BY <1>1, GridFacts
      <4> QED BY <4>1, <4>2, <4>3
    <3> QED BY <3>2, <3>3 DEF WritersInv
  <2>2. CASE UNCHANGED writer
    <3>1. Len(grid) \in Nat /\ Len(grid') \in Nat
      BY <1>1, GridFacts
    <3> QED BY <2>2, <3>1 DEF IInv, TypeInv, WritersInv
  <2> QED BY <2>1, <2>2
<1>5. ASSUME ~spoiled PROVE Claims'
  <2>1. Claims
    BY <1>5 DEF IInv
  <2>2. ASSUME NEW w \in Writers PROVE WriterSound(grid', writer'[w], resorted')
    <3>1. WriterSound(grid, writer[w], resorted) /\ writer[w] \in WriterStates
      BY <1>1, <2>1 DEF Claims
    <3>2. CASE Moved
      <4>1. writer'[w] = old(w)
        BY <1>3, <3>2
      <4>2. writer[w].runs \subseteq Runs
        BY <3>1 DEF WriterStates
      <4> HIDE DEF old
      <4> QED BY <1>2, <1>5, <3>1, <4>1, <4>2 DEF WriterSound, Wide
    <3>3. CASE UNCHANGED <<writer, resorted>> /\ (~spoiled => Follows(grid, grid'))
      <4>1. Follows(grid, grid') /\ writer'[w] = writer[w] /\ resorted' = resorted
        BY <1>5, <3>3
      <4> QED BY ONLY <1>1, <3>1, <4>1, IsGrid(grid'), FollowsFits
    <3> QED BY <3>2, <3>3
  <2>3. ASSUME NEW r \in reported' \ resorted' PROVE Shown(grid', r)
    <3>1. r \in reported \ resorted /\ r \in Runs \ resorted'
      BY <1>1
    <3> QED BY <1>5, <2>1, <3>1 DEF Claims
  <2> QED BY <1>5, <2>2, <2>3 DEF Claims
<1> QED BY <1>4, <1>5 DEF IInv, TypeInv

-------------------------------------------------------------------------------
(* Every step keeps the invariant: writers *)

LEMMA WriterFacts ==
    ASSUME IInv, NEW w \in Writers
    PROVE  /\ writer \in [Writers -> WriterStates] /\ writer[w] \in WriterStates
           /\ writer[w].pc \in Labels /\ writer[w].runs \subseteq Runs /\ writer[w].rows \in RowMaps
           /\ writer[w].headers \in Seq(Cells) /\ writer[w].width \in Nat /\ writer[w].moved \in BOOLEAN
           /\ writer[w].later \subseteq Runs
           /\ writer[w].expanded \in BOOLEAN /\ writer[w].stale \in BOOLEAN
           /\ \A r \in DOMAIN writer[w].rows : writer[w].rows[r] \in 2 .. Len(grid)
           /\ IsGrid(grid) /\ SetsInv
           /\ ~spoiled => WriterSound(grid, writer[w], resorted) /\ OneOfEach(grid) /\ Placed(grid)
                          /\ Follows(grid, grid)
<1>1. writer \in [Writers -> WriterStates] /\ IsGrid(grid)
  BY DEF IInv, TypeInv, WritersInv
<1>2. writer[w] \in WriterStates
  BY <1>1
<1> QED BY <1>1, <1>2, SelfFollows DEF IInv, TypeInv, WritersInv, WriterStates, Claims

LEMMA IdleFacts == Idle \in WriterStates /\ DOMAIN Idle.rows = {} /\ \A g, T : WriterSound(g, Idle, T)
<1>1. <<>> \in [{} -> Nat] /\ <<>> \in Seq(Cells) /\ DOMAIN <<>> = {} /\ {} \in SUBSET Runs
  OBVIOUS
<1>2. <<>> \in RowMaps
  BY <1>1 DEF RowMaps
<1>3. /\ Idle.pc = "idle" /\ Idle.headers = <<>> /\ Idle.rows = <<>>
      /\ ~Idle.expanded /\ ~Idle.stale /\ Idle \in WriterStates
  BY <1>1, <1>2 DEF Idle, WriterStates, Labels
<1>4. \A g, T : WriterSound(g, Idle, T)
  BY <1>3 DEF WriterSound, Wide
<1> QED BY <1>1, <1>3, <1>4

\* A write of S, with T to come, by a client that has measured the grid if u's has.
NextWrite(S, T, u) ==
    [Idle EXCEPT !.pc = "read", !.runs = S, !.later = T, !.expanded = u.expanded, !.stale = u.stale]

LEMMA NextWriteFacts ==
    ASSUME NEW S \in SUBSET Runs, NEW T \in SUBSET Runs, NEW u \in WriterStates
    PROVE  LET v == NextWrite(S, T, u) IN
           /\ v \in WriterStates /\ DOMAIN v.rows = {}
           /\ \A g, X : Wide(g, u) => WriterSound(g, v, X)
<1> DEFINE v == NextWrite(S, T, u)
<1>1. Idle \in WriterStates /\ DOMAIN Idle.rows = {} /\ Idle.headers = <<>> /\ ~Idle.moved
  BY IdleFacts DEF Idle
<1>2. v \in WriterStates
  BY <1>1 DEF NextWrite, WriterStates, Labels
<1>3. /\ v.pc = "read" /\ v.headers = <<>> /\ v.rows = Idle.rows /\ ~v.moved
      /\ v.expanded = u.expanded /\ v.stale = u.stale
  BY <1>1 DEF NextWrite, WriterStates
<1> HIDE DEF v
<1>4. \A g, X : Wide(g, u) => WriterSound(g, v, X)
  BY <1>3 DEF WriterSound, Wide
<1> QED BY <1>1, <1>2, <1>3, <1>4 DEF v

LEMMA StartKeeps == ASSUME IInv, NEW w \in Writers, Start(w) PROVE IInv'
<1>1. PICK S \in SUBSET Runs \ {{}} : \E T \in {S} \cup {{r} : r \in S} :
         writer' = [writer EXCEPT ![w] = [Idle EXCEPT !.pc = "read", !.runs = T, !.later = S \ T]]
  BY DEF Start
<1>2. PICK T \in {S} \cup {{r} : r \in S} :
         writer' = [writer EXCEPT ![w] = [Idle EXCEPT !.pc = "read", !.runs = T, !.later = S \ T]]
  BY <1>1
<1> DEFINE v == NextWrite(T, S \ T, Idle)
<1>3. T \in SUBSET Runs /\ S \ T \in SUBSET Runs
  OBVIOUS
<1>4. [Idle EXCEPT !.pc = "read", !.runs = T, !.later = S \ T] = v
  BY DEF NextWrite, Idle
<1>5. writer' = [writer EXCEPT ![w] = v] /\ UNCHANGED <<grid, reported, spoiled, resorted, edits>>
  BY <1>2, <1>4 DEF Start
<1>6. /\ v \in WriterStates /\ DOMAIN v.rows = {}
      /\ \A g, X : Wide(g, Idle) => WriterSound(g, v, X)
  BY <1>3, IdleFacts, NextWriteFacts
<1> HIDE DEF v
<1>7. \A g, X : WriterSound(g, v, X)
  BY <1>6, IdleFacts DEF WriterSound
<1> QED BY <1>5, <1>6, <1>7, WriterFacts, WriterKeeps DEF SetsInv

\* A write that ends, well or badly: its client goes on with the next run, or all is over.
LEMMA EndKeeps ==
    ASSUME IInv, NEW w \in Writers, GoOn(w) \/ writer' = [writer EXCEPT ![w] = Idle],
           IsGrid(grid'), Len(grid') = Len(grid), UNCHANGED <<resorted, edits>>,
           reported' \subseteq Runs, spoiled' \in BOOLEAN,
           ~spoiled' => /\ ~spoiled /\ Follows(grid, grid')
                        /\ OneOfEach(grid') /\ Placed(grid')
                        /\ \A r \in reported' \ (reported \cup resorted) : Shown(grid', r)
    PROVE  IInv'
<1> DEFINE u == writer[w]
<1>1. /\ u \in WriterStates /\ u.later \in SUBSET Runs /\ u.expanded \in BOOLEAN /\ u.stale \in BOOLEAN
      /\ IsGrid(grid) /\ SetsInv /\ (~spoiled => WriterSound(grid, u, resorted))
  BY WriterFacts
<1> HIDE DEF u
<1>2. SetsInv'
  BY <1>1 DEF SetsInv
<1>3. CASE writer' = [writer EXCEPT ![w] = Idle]
  <2>1. Idle \in WriterStates /\ DOMAIN Idle.rows = {} /\ \A g, T : WriterSound(g, Idle, T)
    BY IdleFacts
  <2> QED BY <1>2, <1>3, <2>1, WriterKeeps
<1>4. ASSUME NEW r \in u.later,
             writer' = [writer EXCEPT ![w] = NextWrite({r}, u.later \ {r}, u)]
      PROVE  IInv'
  <2> DEFINE v == NextWrite({r}, u.later \ {r}, u)
  <2>1. {r} \in SUBSET Runs /\ u.later \ {r} \in SUBSET Runs
    BY <1>1
  <2>2. /\ v \in WriterStates /\ DOMAIN v.rows = {}
        /\ \A g, X : Wide(g, u) => WriterSound(g, v, X)
    BY <1>1, <2>1, NextWriteFacts
  <2>3. writer' = [writer EXCEPT ![w] = v]
    BY <1>4
  <2> HIDE DEF v
  <2>4. ASSUME ~spoiled' PROVE WriterSound(grid', v, resorted)
    <3>1. WriterSound(grid, u, resorted) /\ Follows(grid, grid')
      BY <1>1, <2>4
    <3>2. WriterSound(grid', u, resorted)
      BY ONLY <1>1, <3>1, IsGrid(grid'), FollowsFits
    <3> QED BY <2>2, <3>2 DEF WriterSound
  <2> QED BY <1>2, <2>2, <2>3, <2>4, WriterKeeps
<1>5. GoOn(w) => \/ writer' = [writer EXCEPT ![w] = Idle]
                 \/ \E r \in u.later :
                       writer' = [writer EXCEPT ![w] = NextWrite({r}, u.later \ {r}, u)]
  BY DEF GoOn, NextWrite, u
<1> QED BY <1>3, <1>4, <1>5

\* A write that ends without changing the sheet.
LEMMA StopKeeps ==
    ASSUME IInv, NEW w \in Writers, GoOn(w) \/ writer' = [writer EXCEPT ![w] = Idle],
           UNCHANGED <<grid, spoiled, resorted, edits>>, reported' \subseteq Runs,
           ~spoiled => \A r \in reported' \ (reported \cup resorted) : Shown(grid, r)
    PROVE  IInv'
<1>1. /\ IsGrid(grid) /\ SetsInv
      /\ ~spoiled => OneOfEach(grid) /\ Placed(grid) /\ Follows(grid, grid)
  BY WriterFacts
<1>2. spoiled' \in BOOLEAN
  BY <1>1 DEF SetsInv
<1> QED BY <1>1, <1>2, EndKeeps

LEMMA AnswerKeeps == ASSUME IInv, NEW w \in Writers, Answer(w) PROVE IInv'
<1>1. /\ GoOn(w) /\ reported' = reported \cup Found(w)
      /\ UNCHANGED <<grid, spoiled, resorted, edits>> /\ writer[w].pc = "answer"
  BY DEF Answer, At
<1>2. reported' \subseteq Runs
  BY <1>1, WriterFacts DEF Found, SetsInv
<1>3. ASSUME ~spoiled, NEW r \in reported' \ (reported \cup resorted) PROVE Shown(grid, r)
  <2>1. r \in Found(w)
    BY <1>1
  <2> QED BY <1>1, <1>3, <2>1, WriterFacts DEF WriterSound, Found
<1> QED BY <1>1, <1>2, <1>3, StopKeeps

LEMMA FailKeeps == ASSUME IInv, NEW w \in Writers, Fail(w) PROVE IInv'
<1>1. /\ GoOn(w) \/ writer' = [writer EXCEPT ![w] = Idle]
      /\ UNCHANGED <<grid, reported, spoiled, resorted, edits>>
  BY DEF Fail
<1> QED BY <1>1, StopKeeps, WriterFacts DEF SetsInv

LEMMA ReadKeeps == ASSUME IInv, NEW w \in Writers, Read(w) PROVE IInv'
<1> DEFINE u == writer[w]
           v == [u EXCEPT !.pc = "measure", !.rows = RowByRun(grid), !.headers = Headers(grid)]
<1>1. writer' = [writer EXCEPT ![w] = v] /\ UNCHANGED <<grid, reported, spoiled, resorted, edits>>
  BY DEF Read
<1>2. u \in WriterStates
  BY WriterFacts
<1> HIDE DEF u
<1>3. /\ v.pc = "measure" /\ v.rows = RowByRun(grid) /\ v.headers = Headers(grid)
      /\ v.width = u.width /\ v.moved = u.moved /\ v.runs = u.runs
      /\ v.expanded = u.expanded /\ v.stale = u.stale
  BY <1>2 DEF WriterStates
<1>4. RowByRun(grid) \in RowMaps /\ \A r \in DOMAIN RowByRun(grid) : RowByRun(grid)[r] \in 2 .. Len(grid)
  BY WriterFacts, RowMapType
<1>5. Headers(grid) \in Seq(Cells)
  BY WriterFacts, HeadersFacts DEF HeadersOf
<1>6. v \in WriterStates
  BY <1>2, <1>4, <1>5 DEF WriterStates, Labels
<1> HIDE DEF v
<1>7. ASSUME ~spoiled PROVE WriterSound(grid, v, resorted)
  <2>1. IsGrid(grid) /\ OneOfEach(grid)
    BY <1>7, WriterFacts
  <2>2. \A r \in DOMAIN v.rows : FirstRow(grid, r, v.rows[r])
    <3> SUFFICES ASSUME NEW r \in DOMAIN RowByRun(grid) PROVE FirstRow(grid, r, RowByRun(grid)[r])
      BY <1>3
    <3>1. RowsOf(grid, r) # {} /\ RowByRun(grid)[r] = RowOf(grid, r)
      BY DEF RowByRun
    <3> QED BY <2>1, <3>1, FirstRowFacts
  <2>3. Headers(grid) # <<>>
    <3>1. PICK k : Named(grid, k, "folder")
      BY <2>1 DEF OneOfEach
    <3>2. k \in 1 .. Len(Headers(grid))
      BY <2>1, <3>1, NamedIs
    <3>3. Len(Headers(grid)) # 0
      BY <1>5, <3>2, LenProperties
    <3> QED BY <3>3
  <2>4. WriterSound(grid, u, resorted)
    BY <1>7, WriterFacts DEF u
  <2> QED BY <1>3, <2>2, <2>3, <2>4 DEF WriterSound, Fits, Wide
<1> QED BY <1>1, <1>3, <1>4, <1>6, <1>7, WriterFacts, WriterKeeps DEF SetsInv

LEMMA LargerOf ==
    ASSUME NEW a \in Nat, NEW b \in Nat
    PROVE  Max({a, b}) \in Nat /\ Max({a, b}) >= a /\ Max({a, b}) >= b
<1>1. \E x \in {a, b} : \A y \in {a, b} : x >= y
  <2>1. CASE a >= b
    BY <2>1
  <2>2. CASE b >= a
    BY <2>2
  <2> QED BY <2>1, <2>2
<1>2. Max({a, b}) \in {a, b} /\ \A y \in {a, b} : Max({a, b}) >= y
  BY <1>1 DEF Max
<1> QED BY <1>2

LEMMA RequiredFacts ==
    ASSUME NEW h \in Seq(Cells)
    PROVE  Required(h) \in Nat /\ Required(h) = Len(Completed(h)) /\ Len(h) \in Nat
           /\ Required(h) >= Len(h)
<1>1. Completed(h) \in Seq(Cells) /\ Len(h) <= Len(Completed(h))
  BY CompletedFacts DEF Behinds
<1> QED BY <1>1, LenProperties DEF Required

\* The headers that are to come are those that were to come at the writer's read.
LEMMA FitsFacts ==
    ASSUME IsGrid(grid), NEW v \in WriterStates, Fits(grid, v)
    PROVE  Completed(Headers(grid)) = Completed(v.headers)
<1>1. v.headers \in Seq(Cells)
  BY DEF WriterStates
<1> QED BY <1>1, CompletedTwice DEF Fits

LEMMA MeasureKeeps == ASSUME IInv, NEW w \in Writers, Measure(w) PROVE IInv'
<1> DEFINE u == writer[w]
           required == Required(u.headers)
           current == Len(grid[1])
           known == [u EXCEPT !.pc = "headers"]
           wide == [u EXCEPT !.pc = "headers", !.expanded = TRUE, !.stale = u.moved]
           narrow == [u EXCEPT !.pc = "resize", !.width = Max({required, current + Slack})]
<1>1. UNCHANGED <<grid, reported, spoiled, resorted, edits>> /\ u.pc = "measure"
  BY DEF Measure, At
<1>2. \/ u.expanded /\ writer' = [writer EXCEPT ![w] = known]
      \/ current >= required /\ writer' = [writer EXCEPT ![w] = wide]
      \/ ~u.expanded /\ writer' = [writer EXCEPT ![w] = narrow]
  BY DEF Measure
<1>3. u \in WriterStates /\ required \in Nat /\ current + Slack \in Nat
  <2>1. current \in Nat
    BY WriterFacts, GridFacts
  <2>2. Slack \in Nat
    BY BoundAssumption
  <2>3. required \in Nat
    BY WriterFacts, RequiredFacts
  <2> QED BY <2>1, <2>2, <2>3, WriterFacts
<1>4. Max({required, current + Slack}) \in Nat /\ Max({required, current + Slack}) >= required
  BY <1>3, LargerOf
<1>5. ~spoiled => WriterSound(grid, u, resorted)
  BY WriterFacts
<1>6. \A r \in DOMAIN u.rows : u.rows[r] \in 2 .. Len(grid)
  BY WriterFacts
<1>7. ASSUME NEW v \in WriterStates, writer' = [writer EXCEPT ![w] = v], v.rows = u.rows,
             ~spoiled => WriterSound(grid, v, resorted)
      PROVE  IInv'
  BY <1>1, <1>6, <1>7, WriterFacts, WriterKeeps DEF SetsInv
<1>8. CASE u.expanded /\ writer' = [writer EXCEPT ![w] = known]
  <2>1. known \in WriterStates
    BY <1>3 DEF WriterStates, Labels
  <2>2. /\ known.pc = "headers" /\ known.rows = u.rows /\ known.headers = u.headers
        /\ known.moved = u.moved /\ known.expanded = u.expanded /\ known.stale = u.stale
    BY <1>3 DEF WriterStates
  <2> HIDE DEF known
  <2>3. ~spoiled => WriterSound(grid, known, resorted)
    BY <1>1, <1>5, <1>8, <2>2 DEF WriterSound, Fits, Wide
  <2> QED BY <1>7, <1>8, <2>1, <2>2, <2>3
<1>9. CASE current >= required /\ writer' = [writer EXCEPT ![w] = wide]
  <2>1. wide \in WriterStates
    BY <1>3 DEF WriterStates, Labels
  <2>2. /\ wide.pc = "headers" /\ wide.rows = u.rows /\ wide.headers = u.headers
        /\ wide.moved = u.moved /\ wide.expanded /\ wide.stale = u.moved
    BY <1>3 DEF WriterStates
  <2> HIDE DEF wide
  <2>3. ASSUME ~spoiled PROVE Wide(grid, wide)
    <3> SUFFICES ASSUME ~u.moved PROVE current >= Len(Completed(Headers(grid)))
      BY <2>2 DEF Wide
    <3>1. Fits(grid, u)
      BY <1>1, <1>5, <2>3 DEF WriterSound
    <3> QED BY <1>3, <1>9, <3>1, WriterFacts, FitsFacts DEF Required
  <2>4. ~spoiled => WriterSound(grid, wide, resorted)
    BY <1>1, <1>5, <2>2, <2>3 DEF WriterSound, Fits
  <2> QED BY <1>7, <1>9, <2>1, <2>2, <2>4
<1>10. CASE ~u.expanded /\ writer' = [writer EXCEPT ![w] = narrow]
  <2> DEFINE m == Max({required, current + Slack})
  <2> HIDE DEF m
  <2>1. narrow \in WriterStates
    BY <1>3, <1>4 DEF WriterStates, Labels, m
  <2>2. /\ narrow.pc = "resize" /\ narrow.rows = u.rows /\ narrow.headers = u.headers
        /\ narrow.moved = u.moved /\ narrow.width = Max({required, current + Slack})
        /\ narrow.expanded = u.expanded /\ narrow.stale = u.stale
    BY <1>3 DEF WriterStates
  <2> HIDE DEF narrow
  <2>3. ~spoiled => WriterSound(grid, narrow, resorted)
    BY <1>1, <1>4, <1>5, <1>10, <2>2 DEF WriterSound, Fits, Wide
  <2> QED BY <1>7, <1>10, <2>1, <2>2, <2>3
<1> QED BY <1>2, <1>8, <1>9, <1>10

LEMMA ResizeKeeps == ASSUME IInv, NEW w \in Writers, Resize(w) PROVE IInv'
<1> DEFINE u == writer[w]
           v == [u EXCEPT !.pc = "headers", !.expanded = TRUE, !.width = 0, !.stale = u.moved]
<1>1. /\ grid' = Resized(u.width) /\ spoiled' = (spoiled \/ u.moved)
      /\ writer' = [writer EXCEPT ![w] = v] \/ GoOn(w)
      /\ UNCHANGED <<reported, resorted, edits>>
      /\ u.pc = "resize"
  BY DEF Resize, At
<1>2. /\ u \in WriterStates /\ u.width \in Nat /\ u.moved \in BOOLEAN /\ IsGrid(grid)
      /\ u.headers \in Seq(Cells)
      /\ \A r \in DOMAIN u.rows : u.rows[r] \in 2 .. Len(grid)
      /\ SetsInv
      /\ ~spoiled => WriterSound(grid, u, resorted) /\ OneOfEach(grid) /\ Placed(grid)
  BY WriterFacts
<1> HIDE DEF u
<1>3. v \in WriterStates
  BY <1>2 DEF WriterStates, Labels
<1>4. v.pc = "headers" /\ v.rows = u.rows /\ v.headers = u.headers /\ v.moved = u.moved
      /\ v.runs = u.runs /\ v.expanded /\ v.stale = u.moved
  BY <1>2 DEF WriterStates
<1>5. IsGrid(grid') /\ Len(grid') = Len(grid) /\ Len(grid'[1]) = u.width
  BY <1>1, <1>2, ResizedFacts
<1> HIDE DEF v
<1>6. ASSUME ~spoiled'
      PROVE  /\ ~spoiled /\ Follows(grid, grid') /\ OneOfEach(grid') /\ Placed(grid')
             /\ WriterSound(grid', v, resorted)
  <2>1. ~spoiled /\ ~u.moved
    BY <1>1, <1>6
  <2>2. WriterSound(grid, u, resorted) /\ OneOfEach(grid) /\ Placed(grid)
    BY <1>2, <2>1
  <2>3. u.headers # <<>> /\ Fits(grid, u)
    BY <1>1, <2>1, <2>2 DEF WriterSound
  <2>4. u.width >= Len(Completed(Headers(grid)))
    BY <1>1, <1>2, <2>3, RequiredFacts, FitsFacts DEF Fits
  <2>5. Follows(grid, grid') /\ OneOfEach(grid') /\ Placed(grid')
    BY ONLY <1>1, <1>2, <2>2, <2>4, ResizedFollows
  <2>6. WriterSound(grid', u, resorted)
    BY <1>2, <1>5, <2>2, <2>5, FollowsFits
  <2>7. u.width >= Len(Completed(Headers(grid')))
    <3>1. Headers(grid) \in Seq(Cells)
      BY <1>2, HeadersFacts DEF HeadersOf
    <3> QED BY <2>4, <2>5, <3>1, CompletedTwice DEF Follows
  <2>8. WriterSound(grid', v, resorted)
    BY <1>1, <1>4, <1>5, <2>1, <2>3, <2>6, <2>7 DEF WriterSound, Fits, Wide
  <2> QED BY <2>1, <2>5, <2>8
<1>7. SetsInv' /\ reported' \subseteq Runs /\ spoiled' \in BOOLEAN /\ reported' = reported
  BY <1>1, <1>2 DEF SetsInv
<1>8. CASE writer' = [writer EXCEPT ![w] = v]
  BY <1>1, <1>2, <1>3, <1>4, <1>5, <1>6, <1>7, <1>8, WriterKeeps
<1>9. CASE GoOn(w)
  BY <1>1, <1>5, <1>6, <1>7, <1>9, EndKeeps
<1> QED BY <1>1, <1>8, <1>9

\* Without names to add the sheet stays as it is.
LEMMA NothingAdded ==
    ASSUME IsGrid(grid), NEW start \in Nat PROVE WithHeaders(start, <<>>) = grid
<1> DEFINE row == [k \in DOMAIN grid[1] |->
                     IF k \in start + 1 .. start + Len(<<>>) THEN <<>>[k - start] ELSE grid[1][k]]
<1>1. start + 1 .. start + Len(<<>>) = {}
  <2>1. Len(<<>>) = 0
    BY EmptySeq
  <2> QED BY <2>1
<1>2. row = [k \in DOMAIN grid[1] |-> grid[1][k]]
  BY <1>1
<1>3. grid[1] = [k \in DOMAIN grid[1] |-> grid[1][k]]
  <2>1. grid[1] \in [1 .. Len(grid[1]) -> Cells]
    BY GridIs, GridFacts
  <2> QED BY <2>1
<1>4. grid = [grid EXCEPT ![1] = grid[1]]
  <2>1. grid \in [1 .. Len(grid) -> [1 .. Len(grid[1]) -> Cells]]
    BY GridIs
  <2> QED BY <2>1
<1>5. WithHeaders(start, <<>>) = [grid EXCEPT ![1] = row]
  BY DEF WithHeaders
<1> HIDE DEF row
<1> QED BY <1>2, <1>3, <1>4, <1>5

LEMMA AddHeadersKeeps == ASSUME IInv, NEW w \in Writers, AddHeaders(w) PROVE IInv'
<1> DEFINE u == writer[w]
           h == u.headers
           names == Missing(h)
           refused == [u EXCEPT !.pc = "refused"]
           added == [u EXCEPT !.pc = "write", !.headers = h \o names]
<1>1. u.pc = "headers" /\ UNCHANGED <<reported, resorted, edits>>
  BY DEF AddHeaders, At
<1>2. \/ /\ names # <<>> /\ Len(h) + Len(names) > Len(grid[1])
         /\ writer' = [writer EXCEPT ![w] = refused] /\ UNCHANGED <<grid, spoiled>>
      \/ /\ names = <<>> \/ ~(Len(h) + Len(names) > Len(grid[1]))
         /\ grid' = WithHeaders(Len(h), names)
         /\ spoiled' = (spoiled \/ (names # <<>> /\ u.moved))
         /\ writer' = [writer EXCEPT ![w] = added]
  BY DEF AddHeaders, Behind, GoTo
<1>3. /\ u \in WriterStates /\ u.moved \in BOOLEAN /\ IsGrid(grid) /\ h \in Seq(Cells)
      /\ \A r \in DOMAIN u.rows : u.rows[r] \in 2 .. Len(grid)
      /\ SetsInv
      /\ ~spoiled => WriterSound(grid, u, resorted) /\ OneOfEach(grid) /\ Placed(grid)
  BY WriterFacts
<1>4. ~spoiled => h # <<>>
  BY <1>1, <1>3 DEF WriterSound
<1>5. ASSUME ~spoiled, ~u.moved
      PROVE  Fits(grid, u) /\ (Headers(grid) = h \/ Headers(grid) = Completed(h))
  <2>1. Fits(grid, u)
    BY <1>3, <1>4, <1>5 DEF WriterSound
  <2> QED BY <2>1 DEF Fits
<1>6. ASSUME ~spoiled, ~u.stale PROVE Len(grid[1]) >= Len(Completed(h))
  <2>1. u.expanded /\ ~u.moved /\ Len(grid[1]) >= Len(Completed(Headers(grid)))
    BY <1>1, <1>3, <1>6 DEF WriterSound, Wide
  <2>2. Completed(Headers(grid)) = Completed(h)
    BY <1>3, <1>5, <1>6, <2>1, FitsFacts
  <2> QED BY <2>1, <2>2
<1>7. /\ names \in Seq(Cells) /\ Len(names) = Len(Completed(h)) - Len(h) /\ h \o names = Completed(h)
      /\ names = <<>> => Len(Completed(h)) = Len(h)
      /\ Len(h) \in Nat /\ Len(Completed(h)) \in Nat /\ Len(grid[1]) \in Nat
      /\ Completed(h) \in Seq(Cells) /\ Len(Completed(h)) >= Len(h)
      /\ \A c \in AppNames : HasColumn(Completed(h), c)
  <2> HIDE DEF u
  <2>1. names \in Seq(Cells) /\ Len(names) = Len(Completed(h)) - Len(h) /\ h \o names = Completed(h)
    BY <1>3, MissingFacts
  <2>2. names = <<>> => Len(Completed(h)) = Len(h)
    BY <1>3, MissingFacts
  <2>3. /\ Completed(h) \in Seq(Cells) /\ Len(Completed(h)) >= Len(h)
        /\ \A c \in AppNames : HasColumn(Completed(h), c)
    BY <1>3, CompletedFacts DEF Behinds
  <2>4. Len(h) \in Nat /\ Len(Completed(h)) \in Nat /\ Len(grid[1]) \in Nat
    BY <1>3, <2>3, LenProperties, GridFacts
  <2> QED BY <2>1, <2>2, <2>3, <2>4
<1> HIDE DEF names
<1>8. CASE /\ names # <<>> /\ Len(h) + Len(names) > Len(grid[1])
           /\ writer' = [writer EXCEPT ![w] = refused] /\ UNCHANGED <<grid, spoiled>>
  <2>1. refused \in WriterStates
    BY <1>3 DEF WriterStates, Labels
  <2>2. /\ refused.pc = "refused" /\ refused.rows = u.rows /\ refused.headers = h
        /\ refused.moved = u.moved /\ refused.expanded = u.expanded /\ refused.stale = u.stale
    BY <1>3 DEF WriterStates
  <2> HIDE DEF refused, u, h
  <2>3. ~spoiled => u.stale
    BY <1>7, <1>8, <1>6
  <2>4. ~spoiled => WriterSound(grid, refused, resorted)
    <3> SUFFICES ASSUME ~spoiled PROVE WriterSound(grid, refused, resorted)
      OBVIOUS
    <3>1. WriterSound(grid, u, resorted) /\ u.stale /\ h # <<>>
      BY <1>3, <1>4, <2>3
    <3>2. u.headers = h /\ u.pc = "headers"
      BY <1>1 DEF h
    <3> QED BY <2>2, <3>1, <3>2 DEF WriterSound, Fits, Wide
  <2>5. SetsInv'
    BY <1>1, <1>3, <1>8 DEF SetsInv
  <2> QED BY <1>1, <1>3, <1>8, <2>1, <2>2, <2>4, <2>5, SelfFollows, WriterKeeps
<1>9. CASE /\ names = <<>> \/ ~(Len(h) + Len(names) > Len(grid[1]))
           /\ grid' = WithHeaders(Len(h), names)
           /\ spoiled' = (spoiled \/ (names # <<>> /\ u.moved))
           /\ writer' = [writer EXCEPT ![w] = added]
  <2>1. added \in WriterStates
    BY <1>3, <1>7 DEF WriterStates, Labels
  <2>2. /\ added.pc = "write" /\ added.rows = u.rows /\ added.headers = Completed(h)
        /\ added.moved = u.moved /\ added.expanded = u.expanded /\ added.stale = u.stale
    BY <1>3, <1>7 DEF WriterStates
  <2> HIDE DEF added, u, h
  <2>3. IsGrid(grid') /\ Len(grid') = Len(grid)
    BY <1>3, <1>7, <1>9, WithHeadersFacts
  <2>4. SetsInv'
    BY <1>1, <1>3, <1>9 DEF SetsInv
  <2>5. ASSUME ~spoiled'
        PROVE  /\ ~spoiled /\ Follows(grid, grid') /\ OneOfEach(grid') /\ Placed(grid')
               /\ WriterSound(grid', added, resorted)
    <3>1. ~spoiled /\ h # <<>> /\ (names = <<>> \/ ~u.moved)
      BY <1>3, <1>4, <1>9, <2>5
    <3>2. WriterSound(grid, u, resorted) /\ OneOfEach(grid) /\ Placed(grid)
      BY <1>3, <3>1
    <3>3. Completed(h) # <<>>
      <4>1. Len(h) # 0
        BY <1>3, <3>1, EmptySeq
      <4>2. Len(Completed(h)) # 0
        BY <1>7, <4>1
      <4> QED BY <4>2, EmptySeq
    <3>4. CASE ~u.moved
      <4>1. /\ Headers(grid') = Completed(h) /\ Follows(grid, grid')
            /\ OneOfEach(grid') /\ Placed(grid')
        <5>1. Headers(grid) = h \/ Headers(grid) = Completed(h)
          BY <1>5, <3>1, <3>4
        <5>2. Len(grid[1]) >= Len(Completed(h))
          <6>1. Len(Headers(grid)) <= Len(grid[1])
            BY <1>3, HeadersFacts DEF HeadersOf
          <6> QED BY <1>7, <1>9, <5>1, <6>1
        <5>3. grid' = WithHeaders(Len(h), Missing(h))
          BY <1>9 DEF names
        <5> QED BY ONLY <1>3, <3>2, <5>1, <5>2, <5>3, AddedFollows
      <4>2. \A r \in DOMAIN u.rows : FirstRow(grid', r, u.rows[r])
        BY <1>5, <3>1, <3>4, <4>1 DEF Fits, Follows
      <4>3. WriterSound(grid', u, resorted)
        BY <1>3, <2>3, <3>2, <4>1, FollowsFits
      <4>4. WriterSound(grid', added, resorted)
        BY <1>1, <1>7, <2>2, <3>3, <4>1, <4>2, <4>3 DEF WriterSound, Fits, Wide
      <4> QED BY <3>1, <4>1, <4>4
    <3>5. CASE names = <<>> /\ u.moved
      <4>1. grid' = grid
        BY <1>3, <1>7, <1>9, <3>5, NothingAdded
      <4>2. WriterSound(grid', added, resorted)
        BY <1>1, <1>7, <2>2, <3>2, <3>3, <3>5, <4>1 DEF WriterSound, Wide
      <4> QED BY <1>3, <3>1, <3>2, <4>1, <4>2, SelfFollows
    <3> QED BY <1>3, <3>1, <3>4, <3>5
  <2> QED BY <1>1, <1>3, <1>9, <2>1, <2>2, <2>3, <2>4, <2>5, WriterKeeps
<1> QED BY <1>2, <1>8, <1>9

\* Without runs that were found the sheet stays as it is.
LEMMA NothingWritten ==
    ASSUME IsGrid(grid), NEW w \in Writers, Found(w) = {} PROVE Written(w) = grid
<1>1. \A i, k : To(w, i, k) = {}
  BY DEF To, Updates
<1>2. Written(w) = [i \in DOMAIN grid |-> [k \in DOMAIN grid[i] |-> grid[i][k]]]
  BY <1>1 DEF Written
<1>3. grid \in [1 .. Len(grid) -> [1 .. Len(grid[1]) -> Cells]]
  BY GridIs
<1>4. \A i \in 1 .. Len(grid) : grid[i] = [k \in DOMAIN grid[i] |-> grid[i][k]]
  BY <1>3
<1> QED BY <1>2, <1>3, <1>4

LEMMA WriteKeeps == ASSUME IInv, NEW w \in Writers, Write(w) PROVE IInv'
<1> DEFINE u == writer[w]
           h == u.headers
           refused == [u EXCEPT !.pc = "refused"]
           done == [u EXCEPT !.pc = "answer"]
<1>1. u.pc = "write" /\ UNCHANGED <<reported, resorted, edits>>
  BY DEF Write, At
<1>2. \/ /\ \E x \in Updates(w) : x.column > Len(grid[1])
         /\ writer' = [writer EXCEPT ![w] = refused] /\ UNCHANGED <<grid, spoiled>>
      \/ /\ grid' = Written(w)
         /\ spoiled' = (spoiled \/ (Found(w) # {} /\ u.moved))
         /\ writer' = [writer EXCEPT ![w] = done]
  BY DEF Write, Written, To, GoTo
<1>3. /\ u \in WriterStates /\ u.moved \in BOOLEAN /\ IsGrid(grid) /\ h \in Seq(Cells)
      /\ u.runs \subseteq Runs
      /\ \A r \in DOMAIN u.rows : u.rows[r] \in 2 .. Len(grid)
      /\ SetsInv
      /\ ~spoiled => WriterSound(grid, u, resorted) /\ OneOfEach(grid) /\ Placed(grid)
  BY WriterFacts
<1>4. ~spoiled => h # <<>> /\ \A c \in AppNames : HasColumn(h, c)
  BY <1>1, <1>3 DEF WriterSound
<1>5. ASSUME ~spoiled, ~u.moved
      PROVE  /\ \A x \in Updates(w) : x.column <= Len(grid[1])
             /\ Headers(Written(w)) = Headers(grid)
             /\ Follows(grid, Written(w)) /\ OneOfEach(Written(w)) /\ Placed(Written(w))
             /\ \A r \in Found(w) : Shown(Written(w), r)
  <2>1. Fits(grid, u)
    BY <1>3, <1>4, <1>5 DEF WriterSound
  <2>2. OneOfEach(grid) /\ Placed(grid) /\ \A c \in AppNames : HasColumn(h, c)
    BY <1>3, <1>4, <1>5
  <2> QED BY <1>3, <2>1, <2>2, WrittenFollows
<1>6. ASSUME NEW label \in {"refused", "answer"}
      PROVE  LET v == [u EXCEPT !.pc = label] IN
             /\ v \in WriterStates /\ v.pc = label /\ v.rows = u.rows /\ v.headers = h
             /\ v.moved = u.moved /\ v.runs = u.runs
             /\ v.expanded = u.expanded /\ v.stale = u.stale
  BY <1>3 DEF WriterStates, Labels
<1>7. CASE /\ \E x \in Updates(w) : x.column > Len(grid[1])
           /\ writer' = [writer EXCEPT ![w] = refused] /\ UNCHANGED <<grid, spoiled>>
  <2>1. /\ refused \in WriterStates /\ refused.pc = "refused" /\ refused.rows = u.rows
        /\ refused.headers = h /\ refused.moved = u.moved
        /\ refused.expanded = u.expanded /\ refused.stale = u.stale
    BY <1>6
  <2> HIDE DEF refused
  <2>2. ~spoiled => u.moved
    <3> SUFFICES ASSUME ~spoiled, ~u.moved PROVE FALSE
      OBVIOUS
    <3>1. PICK x \in Updates(w) : x.column > Len(grid[1])
      BY <1>7
    <3>2. x.column <= Len(grid[1])
      BY <1>5
    <3>3. x.column \in Nat /\ Len(grid[1]) \in Nat
      <4>1. \A c \in AppNames : Column(h, c) \in Nat
        <5>1. \A c \in AppNames : Column(h, c) \in 1 .. Len(h)
          BY <1>3, <1>4, ColumnFacts
        <5> QED BY <1>3, <5>1, LenProperties
      <4>2. PICK c \in AppNames : x.column = Column(h, c)
        BY DEF Updates, AppNames
      <4> QED BY <1>3, <4>1, <4>2, GridFacts
    <3> QED BY <3>1, <3>2, <3>3
  <2>3. ~spoiled => WriterSound(grid, refused, resorted)
    BY <1>1, <1>3, <1>4, <2>1, <2>2 DEF WriterSound, Fits, Wide
  <2>4. SetsInv'
    BY <1>1, <1>3, <1>7 DEF SetsInv
  <2> HIDE DEF u, h
  <2> QED BY <1>1, <1>3, <1>7, <2>1, <2>3, <2>4, SelfFollows, WriterKeeps
<1>8. CASE /\ grid' = Written(w)
           /\ spoiled' = (spoiled \/ (Found(w) # {} /\ u.moved))
           /\ writer' = [writer EXCEPT ![w] = done]
  <2>1. /\ done \in WriterStates /\ done.pc = "answer" /\ done.rows = u.rows
        /\ done.headers = h /\ done.moved = u.moved /\ done.runs = u.runs
        /\ done.expanded = u.expanded /\ done.stale = u.stale
    BY <1>6
  <2> HIDE DEF done
  <2>2. IsGrid(grid') /\ Len(grid') = Len(grid)
    BY <1>3, <1>8, WrittenFacts
  <2>3. Found(w) = u.runs \cap DOMAIN u.rows
    BY DEF Found
  <2>4. SetsInv'
    BY <1>1, <1>3, <1>8 DEF SetsInv
  <2>5. ASSUME ~spoiled'
        PROVE  /\ ~spoiled /\ Follows(grid, grid') /\ OneOfEach(grid') /\ Placed(grid')
               /\ WriterSound(grid', done, resorted)
    <3>1. ~spoiled /\ h # <<>> /\ (Found(w) = {} \/ ~u.moved)
      BY <1>3, <1>4, <1>8, <2>5
    <3>2. WriterSound(grid, u, resorted) /\ OneOfEach(grid) /\ Placed(grid)
      BY <1>3, <3>1
    <3>3. CASE ~u.moved
      <4>1. /\ Follows(grid, grid') /\ OneOfEach(grid') /\ Placed(grid')
            /\ \A r \in Found(w) : Shown(grid', r)
        BY <1>5, <1>8, <3>1, <3>3
      <4>2. WriterSound(grid', u, resorted)
        BY <1>3, <2>2, <3>2, <4>1, FollowsFits
      <4>3. Fits(grid', u)
        BY <3>1, <3>3, <4>2 DEF WriterSound
      <4>4. WriterSound(grid', done, resorted)
        BY <1>1, <2>1, <2>3, <3>1, <4>1, <4>2, <4>3 DEF WriterSound, Fits, Wide
      <4> QED BY <3>1, <4>1, <4>4
    <3>4. CASE Found(w) = {} /\ u.moved
      <4>1. grid' = grid
        BY <1>3, <1>8, <3>4, NothingWritten
      <4>2. WriterSound(grid', done, resorted)
        BY <1>1, <2>1, <2>3, <3>1, <3>2, <3>4, <4>1 DEF WriterSound, Wide
      <4> QED BY <1>3, <3>1, <3>2, <4>1, <4>2, SelfFollows
    <3> QED BY <1>3, <3>1, <3>3, <3>4
  <2> HIDE DEF u, h
  <2> QED BY <1>1, <1>3, <1>8, <2>1, <2>2, <2>4, <2>5, WriterKeeps
<1> QED BY <1>2, <1>7, <1>8

-------------------------------------------------------------------------------
(* Every step keeps the invariant: people *)

LEMMA EditFacts ==
    ASSUME IInv, Edit
    PROVE  UNCHANGED <<reported, spoiled>> /\ edits' \in 0 .. MaxEdits /\ SetsInv /\ IsGrid(grid)
           /\ (~spoiled => OneOfEach(grid) /\ Placed(grid))
<1>1. edits \in 0 .. MaxEdits /\ edits < MaxEdits /\ edits' = edits + 1 /\ MaxEdits \in Nat
  BY BoundAssumption DEF Edit, IInv, TypeInv, SetsInv
<1>2. edits' \in 0 .. MaxEdits
  BY <1>1
<1> QED BY <1>2 DEF Edit, IInv, TypeInv, Claims

LEMMA SortKeeps == ASSUME IInv, Sort PROVE IInv'
<1>1. PICK i, j \in 2 .. Len(grid) : i < j /\ grid' = [grid EXCEPT ![i] = grid[j], ![j] = grid[i]]
  BY DEF Sort
<1>2. /\ UNCHANGED <<reported, spoiled>> /\ edits' \in 0 .. MaxEdits /\ SetsInv /\ IsGrid(grid)
      /\ (~spoiled => OneOfEach(grid) /\ Placed(grid))
  BY EditFacts DEF Sort
<1>3. resorted' = resorted \cup Twice /\ Moved /\ Twice \subseteq Runs
  BY DEF Sort, Twice
<1>4. IsGrid(grid') /\ Len(grid') = Len(grid) /\ Len(grid) \in Nat
  BY <1>1, <1>2, SortedGrid, GridFacts
<1>5. SetsInv'
  BY <1>2, <1>3 DEF SetsInv
<1>6. ASSUME ~spoiled
      PROVE  OneOfEach(grid') /\ Placed(grid') /\ \A r \in Runs \ resorted' : Shown(grid, r) => Shown(grid', r)
  <2>1. OneOfEach(grid) /\ Placed(grid)
    BY <1>2, <1>6
  <2>2. OneOfEach(grid') /\ Placed(grid') /\ \A r \in Runs \ Twice : Shown(grid, r) => Shown(grid', r)
    BY <1>1, <1>2, <2>1, SortedFollows
  <2> QED BY <1>3, <2>2
<1>7. Len(grid') >= Len(grid) /\ resorted \subseteq resorted'
  BY <1>3, <1>4
<1> QED BY <1>2, <1>3, <1>4, <1>5, <1>6, <1>7, PeopleKeep

LEMMA InsertRowKeeps == ASSUME IInv, InsertRow PROVE IInv'
<1> DEFINE f == Column(Headers(grid), "folder")
<1>1. PICK i \in 2 .. Len(grid) + 1, r \in Runs :
         /\ \A j \in DOMAIN grid : <<r>> \notin ToSet(grid[j])
         /\ grid' = RowAdded(r, f, i)
         /\ IF i > Len(grid) THEN UNCHANGED writer ELSE Moved
  BY DEF InsertRow, RowAdded, RowFor
<1>2. /\ UNCHANGED <<reported, spoiled>> /\ edits' \in 0 .. MaxEdits /\ SetsInv /\ IsGrid(grid)
      /\ (~spoiled => OneOfEach(grid) /\ Placed(grid))
  BY EditFacts DEF InsertRow
<1>3. UNCHANGED resorted
  BY DEF InsertRow
<1>4. Named(grid, f, "folder")
  BY <1>2, SheetColumn DEF InsertRow
<1> HIDE DEF f
<1>5. f \in 1 .. Len(grid[1])
  BY <1>2, <1>4, GridFacts DEF Named
<1>6. IsGrid(grid') /\ Len(grid') = Len(grid) + 1 /\ Len(grid) \in Nat
  <2>1. IsGrid(RowAdded(r, f, i)) /\ Len(RowAdded(r, f, i)) = Len(grid) + 1
    BY <1>2, <1>5, RowAddedGrid
  <2> QED BY <1>1, <1>2, <2>1, GridFacts
<1>7. ASSUME ~spoiled
      PROVE  /\ OneOfEach(grid') /\ Placed(grid') /\ \A q : Shown(grid, q) => Shown(grid', q)
             /\ i > Len(grid) => Follows(grid, grid')
  <2>1. OneOfEach(grid) /\ Placed(grid)
    BY <1>2, <1>7
  <2> QED BY <1>1, <1>2, <1>4, <2>1, RowInserted
<1>8. Len(grid') >= Len(grid) /\ SetsInv'
  BY <1>2, <1>3, <1>6 DEF SetsInv
<1>9. Moved \/ (UNCHANGED writer /\ i > Len(grid))
  BY <1>1
<1> QED BY <1>2, <1>3, <1>6, <1>7, <1>8, <1>9, PeopleKeep

LEMMA InsertColumnKeeps == ASSUME IInv, InsertColumn PROVE IInv'
<1>1. PICK k \in 1 .. Len(grid[1]) + 1, name \in {Blank, <<"note">>} :
         /\ grid' = ColumnAdded(k, name)
         /\ IF k > Len(Headers(grid)) /\ name = Blank THEN UNCHANGED writer ELSE Moved
  BY DEF InsertColumn, ColumnAdded
<1>2. /\ UNCHANGED <<reported, spoiled>> /\ edits' \in 0 .. MaxEdits /\ SetsInv /\ IsGrid(grid)
      /\ (~spoiled => OneOfEach(grid) /\ Placed(grid))
  BY EditFacts DEF InsertColumn
<1>3. UNCHANGED resorted
  BY DEF InsertColumn
<1>4. IsGrid(grid') /\ Len(grid') = Len(grid) /\ Len(grid) \in Nat
  <2>1. IsGrid(ColumnAdded(k, name)) /\ Len(ColumnAdded(k, name)) = Len(grid)
    BY <1>2, ColumnAddedGrid
  <2> QED BY <1>1, <1>2, <2>1, GridFacts
<1>5. ASSUME ~spoiled
      PROVE  /\ OneOfEach(grid') /\ Placed(grid') /\ \A r : Shown(grid, r) => Shown(grid', r)
             /\ k > Len(Headers(grid)) /\ name = Blank => Follows(grid, grid')
  <2>1. OneOfEach(grid) /\ Placed(grid)
    BY <1>2, <1>5
  <2> QED BY <1>1, <1>2, <2>1, ColumnInserted
<1>6. Len(grid') >= Len(grid) /\ SetsInv'
  BY <1>2, <1>3, <1>4 DEF SetsInv
<1>7. Moved \/ (UNCHANGED writer /\ k > Len(Headers(grid)) /\ name = Blank)
  BY <1>1
<1> QED BY <1>2, <1>3, <1>4, <1>5, <1>6, <1>7, PeopleKeep

-------------------------------------------------------------------------------
(* The invariant holds *)

LEMMA FirstGrid ==
    ASSUME Init
    PROVE  /\ IsGrid(grid) /\ Len(grid[1]) = Width
           /\ \A k \in 1 .. Width : grid[1][k] = IF k = 1 THEN <<"folder">>
                                                 ELSE IF k = 2 THEN <<"validation">> ELSE Blank
           /\ \A i \in 2 .. Len(grid), k \in 1 .. Width :
                 grid[i][k] = Blank \/ \E x : grid[i][k] = <<x>>
<1> DEFINE S == [1 .. Width -> Cells]
           top == [Blanks(Width) EXCEPT ![1] = <<"folder">>, ![2] = <<"validation">>]
           data(i) == [Blanks(Width) EXCEPT ![1] = <<Listed[i]>>, ![2] = <<"hold">>]
           rest == [i \in DOMAIN Listed |-> data(i)]
           n == Len(Listed)
<1>1. n \in Nat /\ DOMAIN Listed = 1 .. n /\ \A i \in 1 .. n : Listed[i] \in Runs
  BY ListedAssumption, LenProperties
<1>2. Width \in Nat \ {0, 1} /\ 1 \in 1 .. Width /\ 2 \in 1 .. Width
  BY BoundAssumption
<1>3. Blanks(Width) \in S /\ \A k \in 1 .. Width : Blanks(Width)[k] = Blank
  BY BlankCell DEF Blanks
<1>4. top \in S /\ \A k \in 1 .. Width : top[k] = IF k = 1 THEN <<"folder">>
                                                 ELSE IF k = 2 THEN <<"validation">> ELSE Blank
  <2>1. <<"folder">> \in Cells /\ <<"validation">> \in Cells
    BY DEF Cells
  <2>2. top \in S
    BY <1>3, <2>1
  <2>3. ASSUME NEW k \in 1 .. Width
        PROVE  top[k] = IF k = 1 THEN <<"folder">> ELSE IF k = 2 THEN <<"validation">> ELSE Blank
    BY <1>2, <1>3
  <2> QED BY <2>2, <2>3
<1>5. ASSUME NEW i \in 1 .. n
      PROVE  data(i) \in S /\ \A k \in 1 .. Width : data(i)[k] = Blank \/ \E x : data(i)[k] = <<x>>
  <2>1. <<Listed[i]>> \in Cells /\ <<"hold">> \in Cells
    BY <1>1 DEF Cells
  <2>2. data(i) \in S
    BY <1>3, <2>1
  <2>3. ASSUME NEW k \in 1 .. Width PROVE data(i)[k] = Blank \/ \E x : data(i)[k] = <<x>>
    <3>1. data(i)[k] = IF k = 2 THEN <<"hold">> ELSE IF k = 1 THEN <<Listed[i]>> ELSE Blank
      BY <1>2, <1>3
    <3> QED BY <3>1
  <2> QED BY <2>2, <2>3
<1> HIDE DEF data, top
<1>6. rest \in Seq(S) /\ Len(rest) = n /\ \A i \in 1 .. n : rest[i] = data(i)
  <2> HIDE DEF S
  <2>1. rest \in [1 .. n -> S] /\ \A i \in 1 .. n : rest[i] = data(i)
    BY <1>1, <1>5
  <2> HIDE DEF rest
  <2>2. rest \in Seq(S)
    BY <1>1, <2>1, SeqDef
  <2>3. DOMAIN rest = 1 .. n
    BY <2>1
  <2> QED BY <1>1, <2>1, <2>2, <2>3, LenProperties
<1>7. <<top>> \in Seq(S) /\ Len(<<top>>) = 1 /\ <<top>>[1] = top
  <2> HIDE DEF S
  <2> QED BY <1>4
<1> HIDE DEF rest
<1>8. grid = <<top>> \o rest
  BY DEF Init, rest, data, top
<1>9. /\ grid \in Seq(S) /\ Len(grid) = n + 1
      /\ grid[1] = top /\ \A i \in 2 .. n + 1 : i - 1 \in 1 .. n /\ grid[i] = data(i - 1)
  <2> HIDE DEF S, n
  <2>1. /\ <<top>> \o rest \in Seq(S) /\ Len(<<top>> \o rest) = 1 + n
        /\ \A i \in 1 .. 1 + n : (<<top>> \o rest)[i] = IF i <= 1 THEN <<top>>[i] ELSE rest[i - 1]
    BY <1>6, <1>7, ConcatProperties
  <2>2. /\ grid \in Seq(S) /\ Len(grid) = 1 + n
        /\ \A i \in 1 .. 1 + n : grid[i] = IF i <= 1 THEN <<top>>[i] ELSE rest[i - 1]
    BY ONLY <1>8, <2>1
  <2>3. 1 \in 1 .. 1 + n /\ 1 <= 1 /\ 1 + n = n + 1
    BY <1>1
  <2>4. grid[1] = top
    BY ONLY <1>7, <2>2, <2>3
  <2>5. ASSUME NEW i \in 2 .. n + 1 PROVE i - 1 \in 1 .. n /\ grid[i] = data(i - 1)
    <3>1. i - 1 \in 1 .. n /\ i \in 1 .. 1 + n /\ ~(i <= 1)
      BY <1>1
    <3> QED BY ONLY <1>6, <2>2, <3>1
  <2> QED BY <2>2, <2>3, <2>4, <2>5
<1>10. IsGrid(grid) /\ Len(grid[1]) = Width
  <2>1. grid \in [1 .. n + 1 -> S]
    <3> HIDE DEF S
    <3>1. grid \in [1 .. Len(grid) -> S]
      BY <1>9, LenProperties
    <3> QED BY <1>9, <3>1
  <2>2. n + 1 \in Nat \ {0} /\ Width \in Nat /\ 1 \in 1 .. n + 1
    BY <1>1, <1>2
  <2>3. grid \in Grids(n + 1, Width)
    BY <2>1 DEF Grids
  <2> HIDE DEF n
  <2>4. IsGrid(grid) /\ Len(grid) = n + 1 /\ \A x \in 1 .. n + 1 : Len(grid[x]) = Width
    BY ONLY <2>2, <2>3, GridOf
  <2> QED BY <2>2, <2>4
<1>11. ASSUME NEW i \in 2 .. Len(grid), NEW k \in 1 .. Width
       PROVE  grid[i][k] = Blank \/ \E x : grid[i][k] = <<x>>
  <2>1. i - 1 \in 1 .. n /\ grid[i] = data(i - 1)
    BY <1>9
  <2> QED BY ONLY <1>5, <2>1, k \in 1 .. Width
<1> QED BY ONLY <1>4, <1>9, <1>10, <1>11

LEMMA InitHolds == Init => IInv
<1> SUFFICES ASSUME Init PROVE IInv
  OBVIOUS
<1>1. /\ IsGrid(grid) /\ Len(grid[1]) = Width
      /\ \A k \in 1 .. Width : grid[1][k] = IF k = 1 THEN <<"folder">>
                                            ELSE IF k = 2 THEN <<"validation">> ELSE Blank
      /\ \A i \in 2 .. Len(grid), k \in 1 .. Width : grid[i][k] = Blank \/ \E x : grid[i][k] = <<x>>
  BY FirstGrid
<1>2. DOMAIN grid[1] = 1 .. Width /\ Width \in Nat \ {0, 1} /\ 1 \in 1 .. Width /\ 2 \in 1 .. Width
  BY <1>1, GridFacts, BoundAssumption
<1>3. \A k, name : Named(grid, k, name) <=>
         k \in 1 .. Width /\ ((k = 1 /\ name = "folder") \/ (k = 2 /\ name = "validation"))
  <2> SUFFICES ASSUME NEW k \in 1 .. Width, NEW name
               PROVE  grid[1][k] = <<name>> <=>
                         (k = 1 /\ name = "folder") \/ (k = 2 /\ name = "validation")
    BY <1>2 DEF Named
  <2>1. CASE k = 1
    <3>1. grid[1][k] = <<"folder">>
      BY <1>1, <2>1
    <3> QED BY <2>1, <3>1
  <2>2. CASE k = 2
    <3>1. grid[1][k] = <<"validation">>
      BY <1>1, <2>2
    <3> QED BY <2>2, <3>1
  <2>3. CASE k # 1 /\ k # 2
    <3>1. grid[1][k] = Blank
      BY <1>1, <2>3
    <3> QED BY <2>3, <3>1, BlankCell
  <2> QED BY <2>1, <2>2, <2>3
<1>4. OneOfEach(grid)
  BY <1>2, <1>3 DEF OneOfEach
<1>5. Placed(grid)
  <2>1. Len(Blank) # 2 /\ \A x : Len(<<x>>) # 2
    BY EmptySeq DEF Blank
  <2>2. ASSUME NEW i \in 2 .. Len(grid), NEW k \in 1 .. Width PROVE Len(grid[i][k]) # 2
    <3>1. grid[i][k] = Blank \/ \E x : grid[i][k] = <<x>>
      BY <1>1
    <3> QED BY ONLY <2>1, <3>1
  <2> QED BY <1>2, <2>2 DEF Placed
<1>6. \A w \in Writers : writer[w] = Idle
  BY DEF Init
<1>7. TypeInv
  <2>1. writer \in [Writers -> WriterStates]
    BY IdleFacts DEF Init
  <2>2. \A w \in Writers : \A r \in DOMAIN writer[w].rows : writer[w].rows[r] \in 2 .. Len(grid)
    BY <1>6, IdleFacts
  <2>3. SetsInv
    <3>1. reported \subseteq Runs /\ resorted \subseteq Runs
      BY DEF Init
    <3>2. spoiled \in BOOLEAN
      BY DEF Init
    <3>3. edits \in 0 .. MaxEdits
      BY BoundAssumption DEF Init
    <3> QED BY <3>1, <3>2, <3>3 DEF SetsInv
  <2> QED BY <1>1, <2>1, <2>2, <2>3 DEF TypeInv, WritersInv
<1>8. Claims
  BY <1>4, <1>5, <1>6, IdleFacts DEF Init, Claims
<1> QED BY <1>7, <1>8 DEF IInv

LEMMA NextKeeps == IInv /\ [Next]_vars => IInv'
<1> SUFFICES ASSUME IInv, [Next]_vars PROVE IInv'
  OBVIOUS
<1>1. ASSUME NEW w \in Writers,
             \/ Start(w) \/ Read(w) \/ Measure(w) \/ Resize(w) \/ AddHeaders(w)
             \/ Write(w) \/ Answer(w) \/ Fail(w)
      PROVE  IInv'
  BY <1>1, StartKeeps, ReadKeeps, MeasureKeeps, ResizeKeeps, AddHeadersKeeps, WriteKeeps,
     AnswerKeeps, FailKeeps
<1>2. CASE Sort \/ InsertRow \/ InsertColumn
  BY <1>2, SortKeeps, InsertRowKeeps, InsertColumnKeeps
<1>3. CASE UNCHANGED vars
  BY <1>3 DEF vars, IInv, TypeInv, WritersInv, SetsInv, Claims
<1> QED BY <1>1, <1>2, <1>3 DEF Next

LEMMA InvHolds == Spec => []IInv
  BY InitHolds, NextKeeps, PTL DEF Spec

-------------------------------------------------------------------------------
(* Theorems *)

\* The sheet stays a rectangle of cells, and what _write_fields and write_run_batch keep
\* between their requests keeps its type; the rows they found stay rows of the sheet.
THEOREM TypeCorrect == Spec => []TypeOK
<1>1. IInv => TypeOK
  <2> SUFFICES ASSUME IInv PROVE TypeOK
    OBVIOUS
  <2>1. IsGrid(grid) /\ writer \in [Writers -> WriterStates] /\ SetsInv
    BY DEF IInv, TypeInv, WritersInv
  <2>2. ASSUME NEW w \in Writers
        PROVE  /\ writer[w].pc \in Labels
               /\ writer[w].runs \subseteq Runs /\ writer[w].later \subseteq Runs
               /\ DOMAIN writer[w].rows \subseteq Runs
               /\ \A r \in DOMAIN writer[w].rows : writer[w].rows[r] \in 2 .. Len(grid)
               /\ writer[w].headers \in Seq(Cells)
               /\ writer[w].width \in Nat
               /\ {writer[w].moved, writer[w].expanded, writer[w].stale} \subseteq BOOLEAN
    <3>1. PICK R \in SUBSET Runs : writer[w].rows \in [R -> Nat]
      BY WriterFacts DEF RowMaps
    <3> QED BY <3>1, WriterFacts
  <2> QED BY <2>1, <2>2 DEF TypeOK, IsGrid, Labels, SetsInv
<1> QED BY <1>1, InvHolds, PTL

\* _expand_grid_if_needed has made the grid wide enough by the time that
\* _ensure_app_headers and batch_write_values come to write, though it measures and
\* resizes in two requests and other writers do the same, and though a sync does so for the
\* first of its runs only; unless people rearranged the sheet since that run's read.
THEOREM NoCellIsRefused == Spec => []NeverRefused
<1>1. IInv => NeverRefused
  <2> SUFFICES ASSUME IInv, NEW w \in Writers, At(w, "refused"), ~spoiled, ~writer[w].stale PROVE FALSE
    BY DEF NeverRefused
  <2>1. WriterSound(grid, writer[w], resorted) /\ writer[w].pc = "refused"
    BY WriterFacts DEF At
  <2> QED BY <2>1 DEF WriterSound
<1> QED BY <1>1, InvHolds, PTL

\* However many writers find the columns of the application missing, _ensure_app_headers
\* leaves each of them in the sheet once, and leaves those it needs where they were.
THEOREM HeadersAreOnce == Spec => []HeadersOnce
<1>1. IInv => HeadersOnce
  <2> SUFFICES ASSUME IInv, ~spoiled, NEW name \in {"folder", "validation"} \cup ToSet(AppColumns)
               PROVE  Cardinality({k \in DOMAIN grid[1] : grid[1][k] = <<name>>})
                         \in (IF name \in ToSet(AppColumns) THEN {0, 1} ELSE {1})
    BY DEF HeadersOnce
  <2> DEFINE S == {k \in DOMAIN grid[1] : grid[1][k] = <<name>>}
  <2>1. OneOfEach(grid)
    BY DEF IInv, Claims
  <2>2. \A j, k \in S : j = k
    BY <2>1 DEF OneOfEach, Named, Names, AppNames
  <2>3. name \notin ToSet(AppColumns) => S # {}
    BY <2>1 DEF OneOfEach, Named
  <2> HIDE DEF S
  <2>4. CASE S = {}
    BY <2>3, <2>4, FS_EmptySet DEF S
  <2>5. CASE S # {}
    <3>1. PICK k : S = {k}
      BY <2>2, <2>5
    <3>2. Cardinality(S) = 1
      BY <3>1, FS_Singleton
    <3> QED BY <3>2 DEF S
  <2> QED BY <2>4, <2>5
<1> QED BY <1>1, InvHolds, PTL

\* The row and column numbers that a writer worked out from its read still lead to its
\* runs' rows and to its columns when it writes, whatever other writers did in between and
\* however many rows people added at the end.
THEOREM ResultsAreInPlace == Spec => []ResultsInPlace
<1>1. IInv => ResultsInPlace
  <2> SUFFICES ASSUME IInv, ~spoiled, NEW i \in 2 .. Len(grid), NEW k \in DOMAIN grid[1],
                      Len(grid[i][k]) = 2
               PROVE  /\ k \in DOMAIN Headers(grid) /\ Headers(grid)[k] = <<grid[i][k][2]>>
                      /\ grid[i][Column(Headers(grid), "folder")] = <<grid[i][k][1]>>
    BY DEF ResultsInPlace
  <2>1. IsGrid(grid) /\ OneOfEach(grid) /\ Placed(grid)
    BY DEF IInv, TypeInv, Claims
  <2>2. /\ Named(grid, k, grid[i][k][2])
        /\ \A f \in DOMAIN grid[1] : Named(grid, f, "folder") => grid[i][f] = <<grid[i][k][1]>>
    BY <2>1 DEF Placed
  <2>3. k \in 1 .. Len(Headers(grid)) /\ Headers(grid)[k] = <<grid[i][k][2]>>
    BY <2>1, <2>2, NamedIs
  <2>4. DOMAIN Headers(grid) = 1 .. Len(Headers(grid))
    BY <2>1, HeadersFacts, LenProperties DEF HeadersOf
  <2>5. Named(grid, Column(Headers(grid), "folder"), "folder")
    BY <2>1, SheetColumn DEF OneOfEach
  <2> QED BY <2>2, <2>3, <2>4, <2>5 DEF Named
<1> QED BY <1>1, InvHolds, PTL

\* A run whose task ended "updated" is one that fetch_done_runs finds completed, also if it
\* is listed twice, until people sort its rows.
THEOREM ReportsAreRead == Spec => []ReportedIsRead
<1>1. IInv => ReportedIsRead
  <2> SUFFICES ASSUME IInv, ~spoiled, NEW r \in reported \ resorted PROVE r \in ReadBack
    BY DEF ReportedIsRead
  <2> DEFINE h == Headers(grid)
  <2>1. IsGrid(grid) /\ OneOfEach(grid) /\ r \in Runs /\ Shown(grid, r)
    BY DEF IInv, TypeInv, SetsInv, Claims
  <2>2. PICK i \in 2 .. Len(grid), s \in DOMAIN grid[1] :
           FirstRow(grid, r, i) /\ Named(grid, s, "compltd_status") /\ grid[i][s] = <<r, "compltd_status">>
    BY <2>1 DEF Shown
  <2>3. RowsOf(grid, r) # {} /\ Min(RowsOf(grid, r)) = i
    BY <2>1, <2>2, FirstRowFacts DEF RowOf
  <2>4. HasColumn(h, "compltd_status") /\ Named(grid, Column(h, "compltd_status"), "compltd_status")
    BY <2>1, <2>2, SheetColumn
  <2> HIDE DEF h
  <2>5. Column(h, "compltd_status") = s
    <3>1. "compltd_status" \in Names
      BY AppColumnFacts DEF Names
    <3> QED BY <2>1, <2>2, <2>4, <3>1 DEF OneOfEach, Named
  <2> QED BY <2>1, <2>2, <2>3, <2>4, <2>5 DEF ReadBack, h
<1> QED BY <1>1, InvHolds, PTL
===============================================================================
