------------------------ MODULE CharacteristicsProofs ------------------------
(***************************************************************************)
(* What the tables of the study have of the reports, for every number of   *)
(* threads, every search the driver can have made of them, and every       *)
(* matching of failures.                                                   *)
(***************************************************************************)
EXTENDS Characteristics, FiniteSetTheorems, WellFoundedInduction, TLAPS

-----------------------------------------------------------------------------
(* Rows and joins.                                                         *)

IsRow(r, columns) == r = [f \in DOMAIN r |-> r[f]] /\ DOMAIN r = columns

(* Rows with the same columns and the same values are the same.            *)
LEMMA SameRow ==
  ASSUME NEW columns, NEW r, NEW s, IsRow(r, columns), IsRow(s, columns),
         \A f \in columns : r[f] = s[f]
  PROVE  r = s
BY DEF IsRow

(* The columns of two rows put together.                                   *)
LEMMA BothRow ==
  ASSUME NEW r, NEW s, NEW F, NEW G, DOMAIN r = F, DOMAIN s = G
  PROVE  /\ IsRow(Both(r, s), F \cup G)
         /\ \A f \in F : Both(r, s)[f] = r[f]
         /\ \A f \in G : f \notin F => Both(r, s)[f] = s[f]
BY DEF Both, IsRow

(* What a join has, ...                                                    *)
LEMMA JoinHas ==
  ASSUME NEW a, NEW b, NEW p \in a, NEW q \in b,
         \A f \in DOMAIN p \cap DOMAIN q : p[f] = q[f]
  PROVE  Both(p, q) \in Join(a, b)
<1> DEFINE z == <<p, q>>
<1>1. z \in a \X b /\ z[1] = p /\ z[2] = q
  OBVIOUS
<1> HIDE DEF z
<1>2. \A f \in DOMAIN z[1] \cap DOMAIN z[2] : z[1][f] = z[2][f]
  BY <1>1
<1>3. Both(z[1], z[2]) \in Join(a, b)
  BY <1>1, <1>2 DEF Join
<1> QED BY <1>1, <1>3

(* ... and where it has it from.                                           *)
LEMMA JoinFrom ==
  ASSUME NEW a, NEW b, NEW x \in Join(a, b)
  PROVE  \E p \in a, q \in b : /\ x = Both(p, q)
                               /\ \A f \in DOMAIN p \cap DOMAIN q : p[f] = q[f]
<1>1. PICK z \in a \X b : /\ x = Both(z[1], z[2])
                          /\ \A f \in DOMAIN z[1] \cap DOMAIN z[2] : z[1][f] = z[2][f]
  BY DEF Join
<1>2. z[1] \in a /\ z[2] \in b
  OBVIOUS
<1> QED BY <1>1, <1>2

(* Some columns of a table.                                                *)
LEMMA ColumnsRow ==
  ASSUME NEW table, NEW F
  PROVE  /\ \A x \in Columns(table, F) :
              IsRow(x, F) /\ \E r \in table : \A f \in F : x[f] = r[f]
         /\ \A r \in table : [f \in F |-> r[f]] \in Columns(table, F)
BY DEF Columns, IsRow

-----------------------------------------------------------------------------
(* The reports.                                                            *)

Try(t, i) ==
  [thread |-> t, lines |-> Tried(t)[i].lines, failure |-> Tried(t)[i].failure, id |-> i]

TryColumns == {"thread", "lines", "failure", "id"}

(* Minimal lists, by thread and lines.                                     *)
IsMinimal(r) == \E m \in AllMinima : m.thread = r.thread /\ m.lines = r.lines

IsFirst(r) == r.id = 1

(* What the explored rows are.                                             *)
LEMMA ExploredRows ==
  /\ \A t \in Threads : \A i \in DOMAIN Tried(t) : Try(t, i) \in Explored
  /\ \A e \in Explored : /\ IsRow(e, TryColumns)
                         /\ e.thread \in Threads /\ e.id \in DOMAIN Tried(e.thread)
                         /\ e.lines = Tried(e.thread)[e.id].lines
                         /\ e.failure = Tried(e.thread)[e.id].failure
<1>1. \A t \in Threads : \A i \in DOMAIN Tried(t) : Try(t, i) \in Explored
  BY DEF Explored, Try
<1>2. ASSUME NEW e \in Explored
      PROVE  /\ IsRow(e, TryColumns)
             /\ e.thread \in Threads /\ e.id \in DOMAIN Tried(e.thread)
             /\ e.lines = Tried(e.thread)[e.id].lines
             /\ e.failure = Tried(e.thread)[e.id].failure
  <2>1. PICK t \in Threads : \E i \in DOMAIN Tried(t) : e = Try(t, i)
    BY DEF Explored, Try
  <2> PICK i \in DOMAIN Tried(t) : e = Try(t, i)
    BY <2>1
  <2>2. e.thread = t /\ e.id = i /\ e.lines = Tried(t)[i].lines /\ e.failure = Tried(t)[i].failure
    BY DEF Try
  <2>3. IsRow(e, TryColumns)
    BY DEF Try, IsRow, TryColumns
  <2> QED BY <2>2, <2>3
<1> QED BY <1>1, <1>2

(* A thread is tried with one of the searches, or not at all.              *)
TypeOK ==
  /\ searches \in [Threads -> Searches \cup {Exceeded, AlreadyFails, Absent}]
  /\ intercepted \in [Threads -> [Lines -> Interceptions]]
  /\ failConfigs \in [Ids -> SUBSET {[thread |-> m.thread, lines |-> m.lines] : m \in AllMinima}]
  /\ files \in SUBSET {"times", "reports"}

(* The lists that were tried.                                              *)
LEMMA TriedLists ==
  ASSUME TypeOK, NEW t \in Threads
  PROVE  /\ Tried(t) = <<>> \/ Tried(t) \in Searches
         /\ Tried(t) \in Searches <=> searches[t] \in Searches
         /\ DOMAIN Tried(t) = 1 .. Len(Tried(t)) /\ Len(Tried(t)) \in Nat
         /\ Tried(t) # <<>> => 1 \in DOMAIN Tried(t) /\ IsFiniteSet(Tried(t)[1].lines)
         /\ \A i \in DOMAIN Tried(t) :
              /\ Tried(t) # <<>>
              /\ Tried(t)[i].lines # {} /\ Tried(t)[i].lines \subseteq Tried(t)[1].lines
              /\ IsFiniteSet(Tried(t)[i].lines)
              /\ Tried(t)[i].lines \notin {NoFail, Exceeded, AlreadyFails}
              /\ Tried(t)[i].stable => Tried(t)[i].failure # NoFail
              /\ i > 1 => Tried(t)[1].stable
<1> DEFINE s == Tried(t)
<1>1. CASE searches[t] \notin Searches
  <2>1. s = <<>>
    BY <1>1 DEF Tried
  <2>2. <<>> \notin Searches
    BY SearchesAssumption
  <2> QED BY <1>1, <2>1, <2>2
<1>2. CASE searches[t] \in Searches
  <2>1. s \in Searches
    BY <1>2 DEF Tried
  <2> HIDE DEF s
  <2>2. DOMAIN s = 1 .. Len(s) /\ Len(s) \in Nat \ {0} /\ (Len(s) > 1 => s[1].stable)
        /\ IsFiniteSet(s[1].lines)
    BY <2>1, SearchesAssumption
  <2>3. \A i \in DOMAIN s : /\ s[i].lines # {} /\ s[i].lines \subseteq s[1].lines
                            /\ s[i].lines \notin {NoFail, Exceeded, AlreadyFails}
                            /\ s[i].stable => s[i].failure # NoFail
    BY <2>1, SearchesAssumption
  <2>4. \A i \in DOMAIN s : IsFiniteSet(s[i].lines)
    BY <2>2, <2>3, FS_Subset
  <2>5. \A i \in DOMAIN s : i > 1 => s[1].stable
    BY <2>2
  <2>6. 1 \in DOMAIN s /\ s # <<>>
    BY <2>2
  <2> QED BY <1>2, <2>1, <2>2, <2>3, <2>4, <2>5, <2>6 DEF s
<1> QED BY <1>1, <1>2

(* Every minimal list was tried, and made the test fail stably.            *)
LEMMA MinimaWereTried ==
  ASSUME TypeOK, NEW m \in AllMinima
  PROVE  \E e \in Explored : /\ m.thread = e.thread /\ m.lines = e.lines /\ m.failure = e.failure
                             /\ e.failure # NoFail /\ m.thread \in Threads
                             /\ m.lines \notin {NoFail, Exceeded, AlreadyFails}
                             /\ m \in Minima(e.thread)
<1>1. PICK t \in Threads : m \in Minima(t)
  BY DEF AllMinima
<1>2. PICK i \in DOMAIN Tried(t) :
        /\ Tried(t)[i].stable
        /\ m = [thread |-> t, lines |-> Tried(t)[i].lines, failure |-> Tried(t)[i].failure]
  BY <1>1 DEF Minima
<1>3. m.thread = t /\ m.lines = Tried(t)[i].lines /\ m.failure = Tried(t)[i].failure
  BY <1>2
<1>4. Tried(t)[i].failure # NoFail /\ Tried(t)[i].lines \notin {NoFail, Exceeded, AlreadyFails}
  BY <1>2, TriedLists
<1>5. /\ Try(t, i) \in Explored /\ Try(t, i).thread = t /\ Try(t, i).lines = Tried(t)[i].lines
      /\ Try(t, i).failure = Tried(t)[i].failure
  BY ExploredRows DEF Try
<1> QED BY <1>1, <1>3, <1>4, <1>5

(* The rows of a thread in the minimal report.                             *)
LEMMA MinimalRows ==
  ASSUME TypeOK, NEW r \in MinimalReport
  PROVE  \/ r \in AllMinima
         \/ r.lines \in {Exceeded, AlreadyFails} /\ r.failure = r.lines
         \/ /\ r.lines = NoFail /\ r.failure = NoFail /\ r.thread \in Threads
            /\ Minima(r.thread) = {} /\ Tried(r.thread) # <<>>
<1>1. PICK t \in Threads : r \in MinRows(t)
  BY DEF MinimalReport
<1>2. searches[t] # Absent
  BY <1>1, TextsAssumption DEF MinRows
<1>3. CASE searches[t] \in {Exceeded, AlreadyFails}
  <2>1. r = [thread |-> t, lines |-> searches[t], failure |-> searches[t]]
    BY <1>1, <1>2, <1>3 DEF MinRows
  <2> QED BY <1>3, <2>1
<1>4. CASE searches[t] \notin {Exceeded, AlreadyFails}
  <2>1. searches[t] \in Searches
    BY <1>2, <1>4 DEF TypeOK
  <2>2. Tried(t) # <<>>
    BY <2>1, TriedLists, SearchesAssumption
  <2>3. r \in IF Minima(t) # {} THEN Minima(t)
              ELSE {[thread |-> t, lines |-> NoFail, failure |-> NoFail]}
    BY <1>1, <1>2, <1>4 DEF MinRows
  <2>4. CASE Minima(t) # {}
    BY <2>3, <2>4 DEF AllMinima
  <2>5. CASE Minima(t) = {}
    <3>1. r = [thread |-> t, lines |-> NoFail, failure |-> NoFail]
      BY <2>3, <2>5
    <3> QED BY <2>2, <2>5, <3>1
  <2> QED BY <2>4, <2>5
<1> QED BY <1>3, <1>4

(* And every minimal list is in it; so is every thread tried without one.  *)
LEMMA InMinimalReport ==
  ASSUME TypeOK
  PROVE  /\ AllMinima \subseteq MinimalReport
         /\ \A t \in Threads : Tried(t) # <<>> /\ Minima(t) = {} =>
              [thread |-> t, lines |-> NoFail, failure |-> NoFail] \in MinimalReport
<1>1. ASSUME NEW t \in Threads, Tried(t) # <<>>
      PROVE  MinRows(t) = IF Minima(t) # {} THEN Minima(t)
                          ELSE {[thread |-> t, lines |-> NoFail, failure |-> NoFail]}
  <2>1. searches[t] \in Searches
    BY <1>1 DEF Tried
  <2>2. searches[t] \notin {Absent, Exceeded, AlreadyFails}
    BY <2>1, SearchesAssumption
  <2> QED BY <2>2 DEF MinRows
<1>2. ASSUME NEW m \in AllMinima PROVE m \in MinimalReport
  <2>1. PICK t \in Threads : m \in Minima(t)
    BY DEF AllMinima
  <2>2. Tried(t) # <<>>
    BY <2>1 DEF Minima
  <2>3. m \in MinRows(t)
    BY <1>1, <2>1, <2>2
  <2> QED BY <2>3 DEF MinimalReport
<1>3. ASSUME NEW t \in Threads, Tried(t) # <<>>, Minima(t) = {}
      PROVE  [thread |-> t, lines |-> NoFail, failure |-> NoFail] \in MinimalReport
  BY <1>1, <1>3 DEF MinimalReport
<1> QED BY <1>2, <1>3

-----------------------------------------------------------------------------
(* What the data frames are, from the reports.                             *)

Pairs == {r \in Columns(MinimalReport, {"thread", "lines"}) :
            r.lines \notin {NoFail, AlreadyFails, Exceeded}}

MinimalTries == {e \in Explored : IsMinimal(e)}

Firsts == {e \in Explored : e.id = 1}

Kept == {e \in MinimalTries \cup Firsts : e.failure # NoFail}

Marked(e) == [thread |-> e.thread, lines |-> e.lines, id |-> e.id, min |-> IsMinimal(e)]

(* The lists of the minimal report that were tried and are not special.    *)
LEMMA PairsAreMinimal ==
  ASSUME TypeOK
  PROVE  /\ \A r \in Pairs : IsRow(r, {"thread", "lines"}) /\ IsMinimal(r)
         /\ \A m \in AllMinima : \E r \in Pairs : r.thread = m.thread /\ r.lines = m.lines
<1> DEFINE C == Columns(MinimalReport, {"thread", "lines"})
<1>1. ASSUME NEW r \in Pairs PROVE IsRow(r, {"thread", "lines"}) /\ IsMinimal(r)
  <2>1. r \in C /\ r.lines \notin {NoFail, AlreadyFails, Exceeded}
    BY DEF Pairs
  <2>2. IsRow(r, {"thread", "lines"}) /\ \E m \in MinimalReport : \A f \in {"thread", "lines"} : r[f] = m[f]
    BY <2>1, ColumnsRow
  <2>3. PICK m \in MinimalReport : r.thread = m.thread /\ r.lines = m.lines
    BY <2>2
  <2>4. m \in AllMinima
    BY <2>1, <2>3, MinimalRows
  <2> QED BY <2>2, <2>3, <2>4 DEF IsMinimal
<1>2. ASSUME NEW m \in AllMinima
      PROVE  \E r \in Pairs : r.thread = m.thread /\ r.lines = m.lines
  <2> DEFINE r == [f \in {"thread", "lines"} |-> m[f]]
  <2>1. m \in MinimalReport
    BY InMinimalReport
  <2>2. r \in C
    BY <2>1, ColumnsRow
  <2>3. r.thread = m.thread /\ r.lines = m.lines
    OBVIOUS
  <2>4. m.lines \notin {NoFail, AlreadyFails, Exceeded}
    BY MinimaWereTried
  <2> HIDE DEF r
  <2> QED BY <2>2, <2>3, <2>4 DEF Pairs
<1> QED BY <1>1, <1>2

(* MergeMinimal: each minimal list is looked up in the exploration.        *)
LEMMA JoinMinimal ==
  ASSUME TypeOK
  PROVE  /\ Join(Pairs, Explored) = MinimalTries
         /\ Pairs # {} => MinimalTries # {}
<1>1. ASSUME NEW p \in Pairs, NEW e \in Explored
      PROVE  /\ Both(p, e) = e <=> p.thread = e.thread /\ p.lines = e.lines
             /\ (\A f \in DOMAIN p \cap DOMAIN e : p[f] = e[f])
                  <=> p.thread = e.thread /\ p.lines = e.lines
  <2>1. IsRow(p, {"thread", "lines"}) /\ IsRow(e, TryColumns)
    BY PairsAreMinimal, ExploredRows
  <2>2. DOMAIN p = {"thread", "lines"} /\ DOMAIN e = TryColumns
    BY <2>1 DEF IsRow
  <2>3. DOMAIN p \cap DOMAIN e = {"thread", "lines"} /\ DOMAIN p \cup DOMAIN e = TryColumns
    BY <2>2 DEF TryColumns
  <2> DEFINE x == Both(p, e)
  <2>4. /\ IsRow(x, TryColumns) /\ x.thread = p.thread /\ x.lines = p.lines
        /\ x.failure = e.failure /\ x.id = e.id
    <3>1. /\ IsRow(x, {"thread", "lines"} \cup TryColumns)
          /\ \A f \in {"thread", "lines"} : x[f] = p[f]
          /\ \A f \in TryColumns : f \notin {"thread", "lines"} => x[f] = e[f]
      BY <2>2, BothRow
    <3> HIDE DEF x
    <3> QED BY <2>2, <2>3, <3>1 DEF TryColumns
  <2> HIDE DEF x
  <2>5. p.thread = e.thread /\ p.lines = e.lines => x = e
    <3>1. p.thread = e.thread /\ p.lines = e.lines => \A f \in TryColumns : x[f] = e[f]
      BY <2>4 DEF TryColumns
    <3> QED BY <2>1, <2>4, <3>1, SameRow
  <2>6. x = e => p.thread = e.thread /\ p.lines = e.lines
    BY <2>4
  <2> QED BY <2>3, <2>5, <2>6 DEF x
<1>2. ASSUME NEW x \in Join(Pairs, Explored) PROVE x \in MinimalTries
  <2>1. PICK p \in Pairs, e \in Explored :
          x = Both(p, e) /\ \A f \in DOMAIN p \cap DOMAIN e : p[f] = e[f]
    BY JoinFrom
  <2>2. p.thread = e.thread /\ p.lines = e.lines /\ x = e
    BY <1>1, <2>1
  <2>3. IsMinimal(e)
    BY <2>2, PairsAreMinimal DEF IsMinimal
  <2> QED BY <2>2, <2>3 DEF MinimalTries
<1>3. ASSUME NEW e \in MinimalTries PROVE e \in Join(Pairs, Explored)
  <2>1. e \in Explored /\ IsMinimal(e)
    BY DEF MinimalTries
  <2>2. PICK m \in AllMinima : m.thread = e.thread /\ m.lines = e.lines
    BY <2>1 DEF IsMinimal
  <2>3. PICK p \in Pairs : p.thread = m.thread /\ p.lines = m.lines
    BY PairsAreMinimal
  <2>4. Both(p, e) = e /\ \A f \in DOMAIN p \cap DOMAIN e : p[f] = e[f]
    BY <1>1, <2>1, <2>2, <2>3
  <2>5. Both(p, e) \in Join(Pairs, Explored)
    BY <2>1, <2>4, JoinHas
  <2> QED BY <2>4, <2>5
<1>4. Pairs # {} => MinimalTries # {}
  <2> SUFFICES ASSUME NEW p \in Pairs PROVE MinimalTries # {}
    OBVIOUS
  <2>1. PICK m \in AllMinima : m.thread = p.thread /\ m.lines = p.lines
    BY PairsAreMinimal DEF IsMinimal
  <2>2. PICK e \in Explored : m.thread = e.thread /\ m.lines = e.lines
    BY MinimaWereTried
  <2>3. e \in MinimalTries
    BY <2>2 DEF MinimalTries, IsMinimal
  <2> QED BY <2>3
<1> QED BY <1>2, <1>3, <1>4

(* The first list tried with a thread is the longest.                      *)
LEMMA FirstIsMaximal ==
  ASSUME TypeOK
  PROVE  FirstOfThread(Explored) = Firsts
<1>1. ASSUME NEW e \in Explored
      PROVE  e.id \in Nat \ {0} /\ \E r \in Explored : r.thread = e.thread /\ r.id = 1
  <2>1. e.thread \in Threads /\ e.id \in DOMAIN Tried(e.thread)
    BY ExploredRows
  <2>2. 1 \in DOMAIN Tried(e.thread) /\ e.id \in Nat \ {0}
    BY <2>1, TriedLists
  <2>3. Try(e.thread, 1) \in Explored
    BY <2>1, <2>2, ExploredRows
  <2> QED BY <2>2, <2>3 DEF Try
<1> QED BY <1>1 DEF FirstOfThread, Firsts

(* A row that was tried, with one more column.                             *)
LEMMA MarkRow ==
  ASSUME NEW e, DOMAIN e = TryColumns, NEW q, DOMAIN q = {"min"}
  PROVE  LET b == Both(e, q)
         IN  b.thread = e.thread /\ b.lines = e.lines /\ b.id = e.id /\ b.min = q.min
BY DEF Both, TryColumns

(* MergeMaximal: minimal lists and maximal ones, and which is which.       *)
LEMMA MarkMinimal ==
  ASSUME TypeOK
  PROVE  Columns({Both(r, [min |-> r \in MinimalTries]) :
                    r \in {x \in MinimalTries \cup Firsts : x.failure # NoFail}},
                 {"thread", "lines", "id", "min"})
         = {Marked(e) : e \in Kept}
<1> DEFINE F == {"thread", "lines", "id", "min"}
           B(r) == Both(r, [min |-> r \in MinimalTries])
           T == {B(r) : r \in Kept}
<1>1. ASSUME NEW e \in Kept, NEW x, IsRow(x, F), \A f \in F : x[f] = B(e)[f]
      PROVE  x = Marked(e)
  <2> DEFINE q == [min |-> e \in MinimalTries]
             b == Both(e, q)
             d == Marked(e)
  <2>1. e \in Explored /\ DOMAIN e = TryColumns /\ DOMAIN q = {"min"}
    BY ExploredRows DEF Kept, MinimalTries, Firsts, IsRow
  <2>2. b.thread = e.thread /\ b.lines = e.lines /\ b.id = e.id /\ b.min = q.min
    BY <2>1, MarkRow
  <2>3. q.min = IsMinimal(e)
    <3>1. (e \in MinimalTries) <=> IsMinimal(e)
      BY <2>1 DEF MinimalTries
    <3>2. q.min = (e \in MinimalTries)
      OBVIOUS
    <3>3. (e \in MinimalTries) = IsMinimal(e)
      <4>1. IsMinimal(e) \in BOOLEAN
        BY DEF IsMinimal
      <4> QED BY <3>1, <4>1
    <3> QED BY <3>2, <3>3
  <2>4. IsRow(d, F) /\ d.thread = e.thread /\ d.lines = e.lines /\ d.id = e.id /\ d.min = IsMinimal(e)
    BY DEF Marked, IsRow
  <2>5. x.thread = b.thread /\ x.lines = b.lines /\ x.id = b.id /\ x.min = b.min
    BY <1>1
  <2> HIDE DEF b, d, q
  <2>6. \A f \in F : x[f] = d[f]
    BY <2>2, <2>3, <2>4, <2>5
  <2> HIDE DEF F
  <2>7. x = d
    BY <1>1, <2>4, <2>6, SameRow
  <2> QED BY <2>7 DEF d
<1> HIDE DEF B, F
<1>2. ASSUME NEW x \in Columns(T, F) PROVE x \in {Marked(e) : e \in Kept}
  <2>1. IsRow(x, F) /\ \E b \in T : \A f \in F : x[f] = b[f]
    BY ColumnsRow
  <2>2. PICK e \in Kept : \A f \in F : x[f] = B(e)[f]
    BY <2>1
  <2>3. x = Marked(e)
    BY <1>1, <2>1, <2>2
  <2> QED BY <2>3
<1>3. ASSUME NEW e \in Kept PROVE Marked(e) \in Columns(T, F)
  <2> DEFINE x == [f \in F |-> B(e)[f]]
  <2>1. x \in Columns(T, F)
    <3>1. B(e) \in T
      OBVIOUS
    <3> HIDE DEF T
    <3> QED BY <3>1, ColumnsRow
  <2>2. IsRow(x, F) /\ \A f \in F : x[f] = B(e)[f]
    BY DEF IsRow
  <2> HIDE DEF x
  <2>3. x = Marked(e)
    BY <1>1, <2>2
  <2> QED BY <2>1, <2>3
<1>4. Columns(T, F) = {Marked(e) : e \in Kept}
  BY <1>2, <1>3
<1> QED BY <1>4 DEF B, F, Kept

(* A list, with a failure it was matched with.                             *)
Config(e, i) == [thread |-> e.thread, lines |-> e.lines, id |-> e.id, min |-> IsMinimal(e),
                 failureID |-> i]

ConfigColumns == {"thread", "lines", "id", "min", "failureID"}

AllConfigs == UNION {{Config(e, IF IsMinimal(e) THEN i ELSE Maximal) : i \in Labels(e)} : e \in Kept}

(* The rows of the matched failures.                                       *)
LEMMA MatchRows ==
  ASSUME TypeOK
  PROVE  /\ \A m \in MatchedRows :
              /\ IsRow(m, {"thread", "lines", "failureID"}) /\ m.failureID \in Ids
              /\ [thread |-> m.thread, lines |-> m.lines] \in failConfigs[m.failureID]
         /\ \A i \in Ids : \A c \in failConfigs[i] :
              \E m \in MatchedRows : m.thread = c.thread /\ m.lines = c.lines /\ m.failureID = i
<1>1. ASSUME NEW i \in Ids, NEW c \in failConfigs[i], NEW m, m = Both(c, [failureID |-> i])
      PROVE  /\ IsRow(m, {"thread", "lines", "failureID"})
             /\ m.thread = c.thread /\ m.lines = c.lines /\ m.failureID = i
             /\ [thread |-> m.thread, lines |-> m.lines] = c
  <2> DEFINE q == [failureID |-> i]
  <2>1. PICK a \in AllMinima : c = [thread |-> a.thread, lines |-> a.lines]
    BY DEF TypeOK
  <2>2. DOMAIN c = {"thread", "lines"} /\ DOMAIN q = {"failureID"} /\ q.failureID = i
    BY <2>1
  <2>3. m = Both(c, q)
    BY <1>1
  <2> HIDE DEF q
  <2>4. m.thread = c.thread /\ m.lines = c.lines /\ m.failureID = q.failureID
    BY <2>2, <2>3 DEF Both
  <2>5. IsRow(m, {"thread", "lines", "failureID"})
    BY <2>2, <2>3 DEF Both, IsRow
  <2> QED BY <2>1, <2>2, <2>4, <2>5
<1>2. ASSUME NEW m \in MatchedRows
      PROVE  /\ IsRow(m, {"thread", "lines", "failureID"}) /\ m.failureID \in Ids
             /\ [thread |-> m.thread, lines |-> m.lines] \in failConfigs[m.failureID]
  <2>1. PICK i \in Ids : \E c \in failConfigs[i] : m = Both(c, [failureID |-> i])
    BY DEF MatchedRows
  <2>2. PICK c \in failConfigs[i] : m = Both(c, [failureID |-> i])
    BY <2>1
  <2> QED BY <1>1, <2>2
<1>3. ASSUME NEW i \in Ids, NEW c \in failConfigs[i]
      PROVE  \E m \in MatchedRows : m.thread = c.thread /\ m.lines = c.lines /\ m.failureID = i
  <2>1. Both(c, [failureID |-> i]) \in MatchedRows
    BY DEF MatchedRows
  <2> QED BY <1>1, <2>1
<1> QED BY <1>2, <1>3

(* A labelled row becomes a list of the table.                             *)
LEMMA RelabelledRow ==
  ASSUME NEW e, NEW y, IsRow(y, ConfigColumns), NEW i,
         y.thread = e.thread, y.lines = e.lines, y.id = e.id, y.min = IsMinimal(e), y.failureID = i
  PROVE  [y EXCEPT !.failureID = IF y.min THEN @ ELSE Maximal]
           = Config(e, IF IsMinimal(e) THEN i ELSE Maximal)
<1> DEFINE v == IF IsMinimal(e) THEN i ELSE Maximal
           z == [y EXCEPT !.failureID = v]
           c == Config(e, v)
<1>1. [y EXCEPT !.failureID = IF y.min THEN @ ELSE Maximal] = z
  BY DEF IsRow, ConfigColumns
<1> HIDE DEF v
<1>2. /\ IsRow(z, ConfigColumns) /\ z.thread = e.thread /\ z.lines = e.lines /\ z.id = e.id
      /\ z.failureID = v
  BY DEF IsRow, ConfigColumns
<1>3. z.min = y.min
  BY DEF IsRow, ConfigColumns
<1>4. /\ IsRow(c, ConfigColumns) /\ c.thread = e.thread /\ c.lines = e.lines /\ c.id = e.id
      /\ c.failureID = v
  BY DEF IsRow, ConfigColumns, Config
<1>5. c.min = IsMinimal(e)
  BY DEF Config
<1> HIDE DEF z, c
<1>6. \A f \in ConfigColumns : z[f] = c[f]
  BY <1>2, <1>3, <1>4, <1>5 DEF ConfigColumns
<1>7. z = c
  BY <1>2, <1>4, <1>6, SameRow
<1> QED BY <1>1, <1>7 DEF c, v

Marks == {Marked(e) : e \in Kept}

MarkColumns == {"thread", "lines", "id", "min"}

(* A marked row.                                                           *)
LEMMA MarkedRow ==
  ASSUME NEW e
  PROVE  /\ IsRow(Marked(e), MarkColumns)
         /\ Marked(e).thread = e.thread /\ Marked(e).lines = e.lines
         /\ Marked(e).id = e.id /\ Marked(e).min = IsMinimal(e)
<1>1. /\ IsRow(Marked(e), MarkColumns)
      /\ Marked(e).thread = e.thread /\ Marked(e).lines = e.lines /\ Marked(e).id = e.id
  BY DEF Marked, IsRow, MarkColumns
<1>2. Marked(e).min = IsMinimal(e)
  BY DEF Marked
<1> QED BY <1>1, <1>2

(* A marked row, with the failure of another one.                          *)
LEMMA FailureRow ==
  ASSUME NEW e, NEW q, NEW F, IsRow(q, F), F \subseteq {"thread", "lines", "failureID"},
         "failureID" \in F
  PROVE  LET y == Both(Marked(e), q)
         IN  /\ IsRow(y, ConfigColumns)
             /\ y.thread = e.thread /\ y.lines = e.lines /\ y.id = e.id /\ y.min = IsMinimal(e)
             /\ y.failureID = q.failureID
<1> DEFINE d == Marked(e)
           y == Both(d, q)
<1>1. DOMAIN d = MarkColumns /\ DOMAIN q = F
  BY MarkedRow DEF IsRow
<1> HIDE DEF d
<1>2. /\ IsRow(y, MarkColumns \cup F)
      /\ \A f \in MarkColumns : y[f] = d[f]
      /\ \A f \in F : f \notin MarkColumns => y[f] = q[f]
  BY <1>1 DEF Both, IsRow
<1>3. MarkColumns \cup F = ConfigColumns
  BY DEF MarkColumns, ConfigColumns
<1> HIDE DEF y
<1>4. y.thread = d.thread /\ y.lines = d.lines /\ y.id = d.id /\ y.min = d.min
  BY <1>2 DEF MarkColumns
<1>5. y.failureID = q.failureID
  BY <1>2 DEF MarkColumns
<1>6. d.thread = e.thread /\ d.lines = e.lines /\ d.id = e.id /\ d.min = IsMinimal(e)
  BY MarkedRow DEF d
<1> QED BY <1>2, <1>3, <1>4, <1>5, <1>6 DEF y, d

(* Label: every marked list with every failure it was matched with.        *)
LEMMA LabelMarks ==
  ASSUME TypeOK
  PROVE  LET matched == Join(Marks, MatchedRows)
             others  == {r \in Marks : ~ \E m \in MatchedRows :
                                           m.thread = r.thread /\ m.lines = r.lines}
         IN  {[r EXCEPT !.failureID = IF r.min THEN @ ELSE Maximal] :
                r \in matched \cup {Both(x, [failureID |-> Missing]) : x \in others}}
             = AllConfigs
<1> DEFINE matched == Join(Marks, MatchedRows)
           others  == {r \in Marks : ~ \E m \in MatchedRows :
                                         m.thread = r.thread /\ m.lines = r.lines}
           gap == [failureID |-> Missing]
           T == matched \cup {Both(x, gap) : x \in others}
           L(r) == [r EXCEPT !.failureID = IF r.min THEN @ ELSE Maximal]
           Source(y, e, i) ==
             /\ IsRow(y, ConfigColumns)
             /\ y.thread = e.thread /\ y.lines = e.lines /\ y.id = e.id
             /\ y.min = IsMinimal(e) /\ y.failureID = i
           C(e, i) == Config(e, IF IsMinimal(e) THEN i ELSE Maximal)
<1>1. \A y, e, i : Source(y, e, i) => L(y) = C(e, i)
  BY RelabelledRow
<1>2. IsRow(gap, {"failureID"}) /\ gap.failureID = Missing
  BY DEF IsRow
<1> HIDE DEF L, C, gap
<1>3. ASSUME NEW e \in Kept
      PROVE  \A i \in Ids : i \in Labels(e) <=>
               \E m \in MatchedRows : m.thread = e.thread /\ m.lines = e.lines /\ m.failureID = i
  <2> DEFINE p == [thread |-> e.thread, lines |-> e.lines]
  <2>1. \A i \in Ids : i \in Labels(e) <=> p \in failConfigs[i]
    BY TextsAssumption DEF Labels
  <2>2. ASSUME NEW i \in Ids, p \in failConfigs[i]
        PROVE  \E m \in MatchedRows : m.thread = e.thread /\ m.lines = e.lines /\ m.failureID = i
    BY <2>2, MatchRows
  <2>3. ASSUME NEW i \in Ids, NEW m \in MatchedRows,
               m.thread = e.thread, m.lines = e.lines, m.failureID = i
        PROVE  p \in failConfigs[i]
    <3>1. [thread |-> m.thread, lines |-> m.lines] \in failConfigs[m.failureID]
      BY MatchRows
    <3> QED BY <2>3, <3>1
  <2> QED BY <2>1, <2>2, <2>3
<1>4. \A e : /\ \A i \in Labels(e) : i = Missing \/ i \in Ids
             /\ Missing \in Labels(e) <=> ~ \E i \in Ids : i \in Labels(e)
  BY TextsAssumption DEF Labels
<1>5. ASSUME NEW y \in T
      PROVE  \E e \in Kept : \E i \in Labels(e) : Source(y, e, i)
  <2>1. CASE y \in matched
    <3>1. PICK r \in Marks, m \in MatchedRows :
            y = Both(r, m) /\ \A f \in DOMAIN r \cap DOMAIN m : r[f] = m[f]
      BY <2>1, JoinFrom
    <3>2. PICK e \in Kept : r = Marked(e)
      BY DEF Marks
    <3>3. IsRow(m, {"thread", "lines", "failureID"}) /\ m.failureID \in Ids
      BY MatchRows
    <3>4. Source(y, e, m.failureID)
      BY <3>1, <3>2, <3>3, FailureRow
    <3>5. m.thread = e.thread /\ m.lines = e.lines
      <4>1. IsRow(r, MarkColumns) /\ r.thread = e.thread /\ r.lines = e.lines
        BY <3>2, MarkedRow
      <4>2. {"thread", "lines"} \subseteq DOMAIN r \cap DOMAIN m
        BY <3>3, <4>1 DEF IsRow, MarkColumns
      <4> QED BY <3>1, <4>1, <4>2
    <3>6. m.failureID \in Labels(e)
      BY <1>3, <3>3, <3>5
    <3> QED BY <3>4, <3>6
  <2>2. CASE y \notin matched
    <3>1. PICK r \in others : y = Both(r, gap)
      BY <2>2
    <3>2. PICK e \in Kept : r = Marked(e)
      BY DEF Marks
    <3>3. Source(y, e, Missing)
      BY <1>2, <3>1, <3>2, FailureRow
    <3>4. ~ \E m \in MatchedRows : m.thread = e.thread /\ m.lines = e.lines
      BY <3>2, MarkedRow
    <3>5. Missing \in Labels(e)
      BY <1>3, <1>4, <3>4
    <3> QED BY <3>3, <3>5
  <2> QED BY <2>1, <2>2
<1>6. ASSUME NEW e \in Kept, NEW i \in Labels(e)
      PROVE  \E y \in T : Source(y, e, i)
  <2> DEFINE r == Marked(e)
  <2>1. /\ r \in Marks /\ IsRow(r, MarkColumns) /\ r.thread = e.thread /\ r.lines = e.lines
        /\ r = Marked(e)
    BY MarkedRow DEF Marks
  <2> HIDE DEF r
  <2>2. CASE i \in Ids
    <3>1. PICK m \in MatchedRows : m.thread = e.thread /\ m.lines = e.lines /\ m.failureID = i
      BY <1>3, <2>2
    <3>2. IsRow(m, {"thread", "lines", "failureID"})
      BY MatchRows
    <3>3. Source(Both(r, m), e, i)
      BY <2>1, <3>1, <3>2, FailureRow
    <3>4. DOMAIN r \cap DOMAIN m = {"thread", "lines"}
      BY <2>1, <3>2 DEF IsRow, MarkColumns
    <3>5. \A f \in DOMAIN r \cap DOMAIN m : r[f] = m[f]
      BY <2>1, <3>1, <3>4
    <3>6. Both(r, m) \in matched
      BY <2>1, <3>5, JoinHas
    <3> QED BY <3>3, <3>6
  <2>3. CASE i \notin Ids
    <3>1. i = Missing /\ \A j \in Ids : j \notin Labels(e)
      BY <1>4, <2>3
    <3>2. ~ \E m \in MatchedRows : m.thread = e.thread /\ m.lines = e.lines
      BY <1>3, <3>1, MatchRows
    <3>3. r \in others
      BY <2>1, <3>2
    <3>4. Source(Both(r, gap), e, i)
      BY <1>2, <2>1, <3>1, FailureRow
    <3> QED BY <3>3, <3>4
  <2> QED BY <2>2, <2>3
<1> HIDE DEF T, Source
<1>7. {L(r) : r \in T} = UNION {{C(e, i) : i \in Labels(e)} : e \in Kept}
  <2>1. ASSUME NEW y \in T PROVE L(y) \in UNION {{C(e, i) : i \in Labels(e)} : e \in Kept}
    BY <1>1, <1>5
  <2>2. ASSUME NEW e \in Kept, NEW i \in Labels(e) PROVE C(e, i) \in {L(r) : r \in T}
    BY <1>1, <1>6
  <2> QED BY <2>1, <2>2
<1> QED BY <1>7 DEF T, L, C, gap, AllConfigs

(* A line of a list, and what was intercepted there.                       *)
Leaf(c, l, k) ==
  [thread |-> c.thread, failureID |-> c.failureID, id |-> c.id, cause |-> k, line |-> l,
   configIdx |-> c, min |-> c.min]

LeafColumns == {"thread", "failureID", "id", "cause", "line", "configIdx", "min"}

Leaves == UNION {UNION {{Leaf(c, l, k) : k \in intercepted[c.thread][l]} : l \in c.lines} : c \in AllConfigs}

(* The cause report is about lines of lists that were tried.               *)
LEMMA CauseRows ==
  ASSUME TypeOK
  PROVE  /\ \A z \in Causes :
              /\ IsRow(z, {"thread", "line", "cause"}) /\ z.cause \in intercepted[z.thread][z.line]
              /\ z.thread \in Threads
         /\ \A t \in Threads : Tried(t) # <<>> =>
              \A l \in Tried(t)[1].lines : \A k \in intercepted[t][l] : [thread |-> t, line |-> l, cause |-> k] \in Causes
<1>1. ASSUME NEW z \in Causes
      PROVE  /\ IsRow(z, {"thread", "line", "cause"}) /\ z.cause \in intercepted[z.thread][z.line]
             /\ z.thread \in Threads
  <2>1. PICK t \in Threads : \E l \in Tried(t)[1].lines : \E k \in intercepted[t][l] :
               z = [thread |-> t, line |-> l, cause |-> k]
    BY DEF Causes
  <2>2. PICK l \in Tried(t)[1].lines : \E k \in intercepted[t][l] :
               z = [thread |-> t, line |-> l, cause |-> k]
    BY <2>1
  <2>3. PICK k \in intercepted[t][l] : z = [thread |-> t, line |-> l, cause |-> k]
    BY <2>2
  <2> QED BY <2>3 DEF IsRow
<1>2. ASSUME NEW t \in Threads, Tried(t) # <<>>, NEW l \in Tried(t)[1].lines, NEW k \in intercepted[t][l]
      PROVE  [thread |-> t, line |-> l, cause |-> k] \in Causes
  BY <1>2 DEF Causes
<1> QED BY <1>1, <1>2

(* The lists of the table were tried, and their lines are the thread's.    *)
LEMMA ConfigRows ==
  ASSUME TypeOK, NEW c \in AllConfigs
  PROVE  /\ IsRow(c, ConfigColumns) /\ c.thread \in Threads /\ Tried(c.thread) # <<>>
         /\ c.lines \subseteq Tried(c.thread)[1].lines /\ c.lines # {} /\ IsFiniteSet(c.lines)
         /\ \E e \in Kept : /\ c.thread = e.thread /\ c.lines = e.lines /\ c.id = e.id
                            /\ c.min = IsMinimal(e)
                            /\ IF IsMinimal(e) THEN c.failureID \in Labels(e)
                                               ELSE c.failureID = Maximal
<1>1. PICK e \in Kept : \E i \in Labels(e) : c = Config(e, IF IsMinimal(e) THEN i ELSE Maximal)
  BY DEF AllConfigs
<1>2. PICK i \in Labels(e) : c = Config(e, IF IsMinimal(e) THEN i ELSE Maximal)
  BY <1>1
<1>3. /\ IsRow(c, ConfigColumns)
      /\ c.thread = e.thread /\ c.lines = e.lines /\ c.id = e.id
      /\ c.failureID = IF IsMinimal(e) THEN i ELSE Maximal
  <2> DEFINE v == IF IsMinimal(e) THEN i ELSE Maximal
  <2>1. c = Config(e, v)
    BY <1>2
  <2> HIDE DEF v
  <2>2. /\ IsRow(c, ConfigColumns)
        /\ c.thread = e.thread /\ c.lines = e.lines /\ c.id = e.id /\ c.failureID = v
    BY <2>1 DEF Config, IsRow, ConfigColumns
  <2> QED BY <2>2 DEF v
<1>4. c.min = IsMinimal(e)
  BY <1>2 DEF Config
<1>5. e \in Explored
  BY DEF Kept, MinimalTries, Firsts
<1>6. /\ e.thread \in Threads /\ Tried(e.thread) # <<>>
      /\ e.lines \subseteq Tried(e.thread)[1].lines /\ e.lines # {} /\ IsFiniteSet(e.lines)
  BY <1>5, ExploredRows, TriedLists
<1>7. IF IsMinimal(e) THEN c.failureID \in Labels(e) ELSE c.failureID = Maximal
  BY <1>3
<1> QED BY <1>3, <1>4, <1>6, <1>7

(* A line of a list, with what is known of the list.                       *)
LEMMA UnpackedRow ==
  ASSUME NEW F, "configIdx" \notin F, "line" \notin F, NEW c, IsRow(c, F), NEW l
  PROVE  LET u == Both(c, [configIdx |-> c, line |-> l])
         IN  /\ IsRow(u, F \cup {"configIdx", "line"})
             /\ \A f \in F : u[f] = c[f]
             /\ u.configIdx = c /\ u.line = l
<1> DEFINE q == [configIdx |-> c, line |-> l]
           u == Both(c, q)
<1>1. DOMAIN c = F /\ DOMAIN q = {"configIdx", "line"}
  BY DEF IsRow
<1>2. q.configIdx = c /\ q.line = l
  OBVIOUS
<1> HIDE DEF q
<1>3. /\ IsRow(u, F \cup {"configIdx", "line"})
      /\ \A f \in F : u[f] = c[f]
      /\ \A f \in {"configIdx", "line"} : f \notin F => u[f] = q[f]
  BY <1>1 DEF Both, IsRow
<1> HIDE DEF u
<1>4. u.configIdx = q.configIdx /\ u.line = q.line
  BY <1>3
<1> QED BY <1>2, <1>3, <1>4 DEF u, q

(* Unpack: the lines of a list at which something was intercepted.         *)
LEMMA UnpackConfigs ==
  ASSUME TypeOK
  PROVE  Columns(Join(Causes, UnpackSleepylines(AllConfigs)), LeafColumns) = Leaves
<1> DEFINE U == UnpackSleepylines(AllConfigs)
           J == Join(Causes, U)
<1>1. ASSUME NEW u \in U
      PROVE  /\ u.configIdx \in AllConfigs /\ u.line \in u.configIdx.lines
             /\ IsRow(u, ConfigColumns \cup {"configIdx", "line"})
             /\ \A f \in ConfigColumns : u[f] = u.configIdx[f]
  <2>1. PICK c \in AllConfigs : \E l \in c.lines : u = Both(c, [configIdx |-> c, line |-> l])
    BY DEF UnpackSleepylines
  <2>2. PICK l \in c.lines : u = Both(c, [configIdx |-> c, line |-> l])
    BY <2>1
  <2>3. IsRow(c, ConfigColumns)
    BY ConfigRows
  <2>4. /\ IsRow(u, ConfigColumns \cup {"configIdx", "line"})
        /\ \A f \in ConfigColumns : u[f] = c[f]
        /\ u.configIdx = c /\ u.line = l
    BY <2>2, <2>3, UnpackedRow DEF ConfigColumns
  <2> QED BY <2>4
<1>2. ASSUME NEW c \in AllConfigs, NEW l \in c.lines
      PROVE  \E u \in U : u.configIdx = c /\ u.line = l
  <2>1. Both(c, [configIdx |-> c, line |-> l]) \in U
    BY DEF UnpackSleepylines
  <2>2. IsRow(c, ConfigColumns) /\ "configIdx" \notin ConfigColumns /\ "line" \notin ConfigColumns
    BY ConfigRows DEF ConfigColumns
  <2> DEFINE q == [configIdx |-> c, line |-> l]
  <2>3. DOMAIN c = ConfigColumns /\ DOMAIN q = {"configIdx", "line"}
    BY <2>2 DEF IsRow
  <2>4. q.configIdx = c /\ q.line = l
    OBVIOUS
  <2> HIDE DEF q
  <2>5. Both(c, q).configIdx = c /\ Both(c, q).line = l
    BY <2>2, <2>3, <2>4 DEF Both
  <2> QED BY <2>1, <2>5 DEF q
<1>3. ASSUME NEW z \in Causes, NEW u \in U
      PROVE  LET x == Both(z, u)
             IN  /\ (\A f \in DOMAIN z \cap DOMAIN u : z[f] = u[f])
                      <=> z.thread = u.configIdx.thread /\ z.line = u.line
                 /\ x.thread = z.thread /\ x.line = z.line /\ x.cause = z.cause
                 /\ x.configIdx = u.configIdx /\ x.id = u.configIdx.id
                 /\ x.failureID = u.configIdx.failureID /\ x.min = u.configIdx.min
  <2> DEFINE x == Both(z, u)
             Z == {"thread", "line", "cause"}
             V == ConfigColumns \cup {"configIdx", "line"}
  <2>1. DOMAIN z = Z /\ DOMAIN u = V
    BY <1>1, CauseRows DEF IsRow
  <2>2. DOMAIN z \cap DOMAIN u = {"thread", "line"}
    BY <2>1 DEF ConfigColumns
  <2>3. u.thread = u.configIdx.thread /\ u.id = u.configIdx.id
        /\ u.failureID = u.configIdx.failureID /\ u.min = u.configIdx.min
    BY <1>1 DEF ConfigColumns
  <2>4. (\A f \in Z : x[f] = z[f]) /\ \A f \in V : f \notin Z => x[f] = u[f]
    BY <2>1 DEF Both
  <2> HIDE DEF x
  <2>5. x.thread = z.thread /\ x.line = z.line /\ x.cause = z.cause
    BY <2>4
  <2>6. x.configIdx = u.configIdx /\ x.id = u.id /\ x.failureID = u.failureID /\ x.min = u.min
    BY <2>4 DEF ConfigColumns
  <2>7. (\A f \in DOMAIN z \cap DOMAIN u : z[f] = u[f])
          <=> z.thread = u.configIdx.thread /\ z.line = u.line
    BY <2>2, <2>3
  <2> QED BY <2>3, <2>5, <2>6, <2>7 DEF x
<1>4. ASSUME NEW c, NEW l, NEW k, NEW x, NEW y, IsRow(y, LeafColumns),
             \A f \in LeafColumns : y[f] = x[f],
             x.thread = c.thread, x.line = l, x.cause = k, x.configIdx = c, x.id = c.id,
             x.failureID = c.failureID, x.min = c.min
      PROVE  y = Leaf(c, l, k)
  <2> DEFINE d == Leaf(c, l, k)
  <2>1. /\ IsRow(d, LeafColumns)
        /\ d.thread = c.thread /\ d.line = l /\ d.cause = k /\ d.configIdx = c /\ d.id = c.id
        /\ d.failureID = c.failureID /\ d.min = c.min
    BY DEF Leaf, IsRow, LeafColumns
  <2> HIDE DEF d
  <2>2. \A f \in LeafColumns : y[f] = d[f]
    BY <1>4, <2>1 DEF LeafColumns
  <2>3. y = d
    BY <1>4, <2>1, <2>2, SameRow
  <2> QED BY <2>3 DEF d
<1> HIDE DEF U
<1>5. ASSUME NEW y \in Columns(J, LeafColumns) PROVE y \in Leaves
  <2>1. IsRow(y, LeafColumns) /\ \E x \in J : \A f \in LeafColumns : y[f] = x[f]
    BY ColumnsRow
  <2>2. PICK x \in J : \A f \in LeafColumns : y[f] = x[f]
    BY <2>1
  <2>3. PICK z \in Causes, u \in U :
          x = Both(z, u) /\ \A f \in DOMAIN z \cap DOMAIN u : z[f] = u[f]
    BY JoinFrom
  <2> DEFINE c == u.configIdx
             l == z.line
             k == z.cause
  <2>4. /\ x.thread = c.thread /\ x.line = l /\ x.cause = k /\ x.configIdx = c /\ x.id = c.id
        /\ x.failureID = c.failureID /\ x.min = c.min
        /\ z.line = u.line /\ z.thread = c.thread
    BY <1>3, <2>3
  <2>5. c \in AllConfigs /\ l \in c.lines /\ k \in intercepted[c.thread][l]
    BY <1>1, <2>4, CauseRows
  <2> HIDE DEF c, l, k
  <2>6. y = Leaf(c, l, k)
    BY <1>4, <2>1, <2>2, <2>4
  <2> QED BY <2>5, <2>6 DEF Leaves
<1>6. ASSUME NEW c \in AllConfigs, NEW l \in c.lines, NEW k \in intercepted[c.thread][l]
      PROVE  Leaf(c, l, k) \in Columns(J, LeafColumns)
  <2>1. PICK u \in U : u.configIdx = c /\ u.line = l
    BY <1>2
  <2> DEFINE z == [thread |-> c.thread, line |-> l, cause |-> k]
             x == Both(z, u)
             y == [f \in LeafColumns |-> x[f]]
  <2>2. z \in Causes
    BY ConfigRows, CauseRows
  <2>3. z.thread = c.thread /\ z.line = l /\ z.cause = k
    OBVIOUS
  <2> HIDE DEF z
  <2>4. /\ \A f \in DOMAIN z \cap DOMAIN u : z[f] = u[f]
        /\ x.thread = c.thread /\ x.line = l /\ x.cause = k /\ x.configIdx = c /\ x.id = c.id
        /\ x.failureID = c.failureID /\ x.min = c.min
    BY <1>3, <2>1, <2>2, <2>3
  <2>5. x \in J
    BY <2>2, <2>4, JoinHas
  <2> HIDE DEF x, J
  <2>6. y \in Columns(J, LeafColumns)
    BY <2>5, ColumnsRow
  <2>7. IsRow(y, LeafColumns) /\ \A f \in LeafColumns : y[f] = x[f]
    BY DEF IsRow
  <2> HIDE DEF y
  <2>8. y = Leaf(c, l, k)
    BY <1>4, <2>4, <2>7
  <2> QED BY <2>6, <2>8
<1> HIDE DEF J
<1>7. Columns(J, LeafColumns) = Leaves
  <2>1. \A y \in Leaves : y \in Columns(J, LeafColumns)
    BY <1>6 DEF Leaves
  <2> QED BY <1>5, <2>1
<1> QED BY <1>7 DEF J, U
-----------------------------------------------------------------------------
(* The stages of the two programs.                                         *)

NoFailColumns == {"thread", "failure", "cause", "line", "configIdx"}

NoFailTable == Columns(Join(Causes, UnpackSleepylines(NeverFailed)), NoFailColumns)

(* Every frame is one of those above.                                      *)
Stages ==
  /\ pc \in {"nofails", "times", "read", "drop", "merge", "outer", "label", "unpack", "collect",
             "filter", "done", "missing"}
  /\ pc = "drop" => minSleep = Columns(MinimalReport, {"thread", "lines"}) /\ explore = Explored
  /\ pc = "merge" => minSleep = Pairs /\ explore = Explored
  /\ pc = "outer" => merged = MinimalTries /\ explore = Explored
  /\ pc = "label" => merged = Marks
  /\ pc = "unpack" => merged = AllConfigs
  /\ pc \in {"collect", "filter", "done"} => merged = Leaves

(* What the tables are made of.                                            *)
Tables ==
  /\ pc \notin {"nofails", "times", "missing"} => "times" \in files
  /\ pc \notin {"nofails", "times", "read", "missing"} => "reports" \in files
  /\ pc # "nofails" /\ files = {"times", "reports"} => noFails = NoFailTable
  /\ pc \in {"filter", "done"} =>
       /\ flagged = Columns({r \in Leaves : r.cause \notin Abstract}, {"cause", "line"})
       /\ out = IF MatchedRows = {} THEN {}
                ELSE {[r EXCEPT !.cause = IF @ \in Abstract THEN @ ELSE Flagged] : r \in Leaves}
  /\ pc = "done" => leaves = {r \in out : r.failureID # Missing}

CInv == TypeOK /\ Stages /\ Tables

(* The reports do not change, nor what is made of them.                    *)
LEMMA SameInput ==
  ASSUME UNCHANGED input
  PROVE  /\ TypeOK => TypeOK'
         /\ Explored' = Explored /\ MinimalReport' = MinimalReport /\ Pairs' = Pairs
         /\ MinimalTries' = MinimalTries /\ Marks' = Marks /\ MatchedRows' = MatchedRows
         /\ AllConfigs' = AllConfigs /\ Leaves' = Leaves /\ NoFailTable' = NoFailTable
<1>1. /\ searches' = searches /\ intercepted' = intercepted /\ failConfigs' = failConfigs
      /\ files' = files
  BY DEF input
<1>2. \A t : Tried(t)' = Tried(t)
  BY <1>1 DEF Tried
<1>3. \A t : Minima(t)' = Minima(t)
  BY <1>2 DEF Minima
<1>4. AllMinima' = AllMinima
  BY <1>3 DEF AllMinima
<1>5. Explored' = Explored
  BY <1>2 DEF Explored
<1>6. \A t : MinRows(t)' = MinRows(t)
  BY <1>1, <1>3 DEF MinRows
<1>7. MinimalReport' = MinimalReport
  BY <1>6 DEF MinimalReport
<1>8. Pairs' = Pairs
  BY <1>7 DEF Pairs, Columns
<1>9. \A r : IsMinimal(r)' <=> IsMinimal(r)
  BY <1>4 DEF IsMinimal
<1>10. MinimalTries' = MinimalTries
  BY <1>5, <1>9 DEF MinimalTries
<1>11. \A e : Marked(e)' = Marked(e)
  BY <1>4 DEF Marked, IsMinimal
<1>12. Kept' = Kept
  BY <1>5, <1>10 DEF Kept, Firsts
<1>13. Marks' = Marks
  BY <1>11, <1>12 DEF Marks
<1>14. MatchedRows' = MatchedRows
  BY <1>1 DEF MatchedRows, Both
<1>15. \A e : Labels(e)' = Labels(e)
  BY <1>1 DEF Labels
<1>16. \A e, i : Config(e, i)' = Config(e, i)
  BY <1>4 DEF Config, IsMinimal
<1>17. AllConfigs' = AllConfigs
  BY <1>9, <1>12, <1>15, <1>16 DEF AllConfigs
<1>18. Leaves' = Leaves
  BY <1>1, <1>17 DEF Leaves, Leaf
<1>19. Causes' = Causes
  BY <1>1, <1>2 DEF Causes
<1>20. NeverFailed' = NeverFailed
  BY <1>5, <1>7 DEF NeverFailed, Columns, Join, Both
<1>21. NoFailTable' = NoFailTable
  BY <1>19, <1>20 DEF NoFailTable, Columns, Join, Both, UnpackSleepylines
<1>22. TypeOK => TypeOK'
  BY <1>1, <1>4 DEF TypeOK
<1> QED BY <1>5, <1>7, <1>8, <1>10, <1>13, <1>14, <1>17, <1>18, <1>21, <1>22

(* The programs take a frame to the next one.                              *)
LEMMA StagesHold == Spec => []CInv
<1>1. Init => CInv
  BY DEF Init, CInv, TypeOK, Stages, Tables
<1>2. ASSUME CInv, [Next]_vars PROVE CInv'
  <2> USE <1>2
  <2> DEFINE Same ==
        /\ Explored' = Explored /\ MinimalReport' = MinimalReport /\ Pairs' = Pairs
        /\ MinimalTries' = MinimalTries /\ Marks' = Marks /\ MatchedRows' = MatchedRows
        /\ AllConfigs' = AllConfigs /\ Leaves' = Leaves /\ NoFailTable' = NoFailTable
  <2>1. UNCHANGED input
    BY DEF Next, vars, NoFailsProgram, ExtractTime, ReadReports, DropSpecial, MergeMinimal,
           MergeMaximal, Label, Unpack, Collect, Filter
  <2>2. TypeOK' /\ TypeOK /\ Same
    BY <2>1, SameInput DEF CInv
  <2>3. files' = files /\ files \subseteq {"times", "reports"}
    BY <2>1, <2>2 DEF input, TypeOK
  <2>4. Stages /\ Tables
    BY DEF CInv
  <2>5. CASE NoFailsProgram
    BY <2>2, <2>3, <2>4, <2>5 DEF NoFailsProgram, Stages, Tables, NoFailTable, NoFailColumns, CInv
  <2>6. CASE ExtractTime
    BY <2>2, <2>3, <2>4, <2>6 DEF ExtractTime, Stages, Tables, tables, frames, CInv
  <2>7. CASE ReadReports
    BY <2>2, <2>3, <2>4, <2>7 DEF ReadReports, Stages, Tables, tables, frames, CInv, Columns
  <2>8. CASE DropSpecial
    <3>1. minSleep' = Pairs
      BY <2>4, <2>8 DEF DropSpecial, Stages, Pairs
    <3> QED BY <2>2, <2>3, <2>4, <2>8, <3>1 DEF DropSpecial, Stages, Tables, CInv
  <2>9. CASE MergeMinimal
    <3>1. merged' = MinimalTries /\ pc' \in {"outer", "missing"}
      BY <2>2, <2>4, <2>9, JoinMinimal DEF MergeMinimal, Stages
    <3> QED BY <2>2, <2>3, <2>4, <2>9, <3>1 DEF MergeMinimal, Stages, Tables, tables, CInv
  <2>10. CASE MergeMaximal
    <3>1. explore = Explored /\ merged = MinimalTries /\ explore' = Firsts
      BY <2>2, <2>4, <2>10, FirstIsMaximal DEF MergeMaximal, Stages
    <3>2. merged' = Columns({Both(r, [min |-> r \in MinimalTries]) :
                               r \in {x \in MinimalTries \cup Firsts : x.failure # NoFail}},
                            {"thread", "lines", "id", "min"})
      BY <2>10, <3>1 DEF MergeMaximal
    <3>3. merged' = Marks
      BY <2>2, <3>2, MarkMinimal DEF Marks
    <3> QED BY <2>2, <2>3, <2>4, <2>10, <3>3 DEF MergeMaximal, Stages, Tables, tables, CInv
  <2>11. CASE Label
    <3>1. merged = Marks
      BY <2>4, <2>11 DEF Label, Stages
    <3>2. merged' = AllConfigs
      BY <2>2, <2>11, <3>1, LabelMarks DEF Label
    <3> QED BY <2>2, <2>3, <2>4, <2>11, <3>2 DEF Label, Stages, Tables, tables, CInv
  <2>12. CASE Unpack
    <3>1. merged = AllConfigs
      BY <2>4, <2>12 DEF Unpack, Stages
    <3>2. merged' = Leaves
      BY <2>2, <2>12, <3>1, UnpackConfigs DEF Unpack, LeafColumns
    <3> QED BY <2>2, <2>3, <2>4, <2>12, <3>2 DEF Unpack, Stages, Tables, tables, CInv
  <2>13. CASE Collect
    BY <2>2, <2>3, <2>4, <2>13 DEF Collect, Stages, Tables, frames, CInv
  <2>14. CASE Filter
    BY <2>2, <2>3, <2>4, <2>14 DEF Filter, Stages, Tables, frames, CInv
  <2>15. CASE UNCHANGED vars
    BY <2>2, <2>3, <2>4, <2>15 DEF vars, frames, tables, Stages, Tables, CInv, Columns
  <2> QED BY <2>5, <2>6, <2>7, <2>8, <2>9, <2>10, <2>11, <2>12, <2>13, <2>14, <2>15 DEF Next
<1> QED BY <1>1, <1>2, PTL DEF Spec

-----------------------------------------------------------------------------
(* What the tables have of the reports.                                    *)

(* A row of the table is a line of a list, and what was intercepted there. *)
LEMMA LeafRows ==
  /\ \A r \in Leaves : /\ r.configIdx \in AllConfigs /\ r.line \in r.configIdx.lines
                       /\ r.cause \in intercepted[r.thread][r.line] /\ r.thread = r.configIdx.thread
                       /\ r.failureID = r.configIdx.failureID /\ r.min = r.configIdx.min
                       /\ IsRow(r, LeafColumns)
  /\ \A c \in AllConfigs : \A l \in c.lines : \A k \in intercepted[c.thread][l] :
       \E r \in Leaves : r.configIdx = c /\ r.line = l /\ r.cause = k
<1>1. ASSUME NEW r \in Leaves
      PROVE  /\ r.configIdx \in AllConfigs /\ r.line \in r.configIdx.lines
             /\ r.cause \in intercepted[r.thread][r.line] /\ r.thread = r.configIdx.thread
             /\ r.failureID = r.configIdx.failureID /\ r.min = r.configIdx.min
             /\ IsRow(r, LeafColumns)
  <2>1. PICK c \in AllConfigs : \E l \in c.lines : \E k \in intercepted[c.thread][l] : r = Leaf(c, l, k)
    BY DEF Leaves
  <2>2. PICK l \in c.lines : \E k \in intercepted[c.thread][l] : r = Leaf(c, l, k)
    BY <2>1
  <2>3. PICK k \in intercepted[c.thread][l] : r = Leaf(c, l, k)
    BY <2>2
  <2>4. /\ r.configIdx = c /\ r.line = l /\ r.cause = k /\ r.thread = c.thread
        /\ r.failureID = c.failureID
    BY <2>3 DEF Leaf
  <2>5. r.min = c.min
    BY <2>3 DEF Leaf
  <2>6. IsRow(r, LeafColumns)
    BY <2>3 DEF Leaf, IsRow, LeafColumns
  <2> QED BY <2>4, <2>5, <2>6
<1>2. ASSUME NEW c \in AllConfigs, NEW l \in c.lines, NEW k \in intercepted[c.thread][l]
      PROVE  \E r \in Leaves : r.configIdx = c /\ r.line = l /\ r.cause = k
  <2>1. Leaf(c, l, k) \in Leaves
    BY DEF Leaves
  <2>2. /\ Leaf(c, l, k).configIdx = c /\ Leaf(c, l, k).line = l /\ Leaf(c, l, k).cause = k
    BY DEF Leaf
  <2> QED BY <2>1, <2>2
<1> QED BY <1>1, <1>2

(* A minimal list is in the table for every failure it was matched with.   *)
LEMMA MinimalConfigs ==
  ASSUME TypeOK, NEW m \in AllMinima, NEW i \in Labels(m)
  PROVE  \E c \in AllConfigs : /\ c.thread = m.thread /\ c.lines = m.lines
                               /\ c.failureID = i /\ c.min
<1>1. PICK e \in Explored : m.thread = e.thread /\ m.lines = e.lines /\ e.failure # NoFail
  BY MinimaWereTried
<1>2. IsMinimal(e) /\ e \in Kept
  BY <1>1 DEF IsMinimal, Kept, MinimalTries
<1>3. i \in Labels(e)
  BY <1>1 DEF Labels
<1> DEFINE c == Config(e, i)
<1>4. c \in AllConfigs
  BY <1>2, <1>3 DEF AllConfigs
<1>5. c.thread = e.thread /\ c.lines = e.lines /\ c.failureID = i
  BY DEF Config
<1>6. c.min
  <2>1. c.min = IsMinimal(e)
    BY DEF Config
  <2> QED BY <1>2, <2>1
<1> QED BY <1>1, <1>4, <1>5, <1>6

(* NothingMinimalIsLost: every minimal list is in the table, whole, for    *)
(* each failure it was matched with, and nothing else is called minimal.   *)
THEOREM MinimalListsAreKept == Spec => []NothingMinimalIsLost
<1>1. CInv => NothingMinimalIsLost
  <2> SUFFICES ASSUME TypeOK, pc # "raised", merged = Leaves PROVE NothingMinimalIsLost
    BY DEF CInv, Stages, NothingMinimalIsLost
  <2> DEFINE rowsOf(idx) == {r \in merged : r.configIdx = idx}
             linesOf(idx) == {r.line : r \in rowsOf(idx)}
             hit(m) == {l \in m.lines : intercepted[m.thread][l] # {}}
             minimal == {r \in merged : r.min}
  <2>1. ASSUME NEW c \in AllConfigs PROVE linesOf(c) = hit(c)
    <3>1. \A l \in linesOf(c) : l \in hit(c)
      BY LeafRows
    <3>2. \A l \in hit(c) : l \in linesOf(c)
      BY LeafRows
    <3> QED BY <3>1, <3>2
  <2>2. ASSUME NEW m \in AllMinima, hit(m) # {}, NEW i \in Labels(m)
        PROVE  \E idx \in Configs(minimal) :
                 /\ linesOf(idx) = hit(m)
                 /\ \A r \in rowsOf(idx) : r.min /\ r.thread = m.thread /\ r.failureID = i
    <3>1. PICK c \in AllConfigs : /\ c.thread = m.thread /\ c.lines = m.lines
                                  /\ c.failureID = i /\ c.min
      BY MinimalConfigs
    <3>2. hit(c) = hit(m)
      BY <3>1
    <3>3. linesOf(c) = hit(m)
      BY <2>1, <3>2
    <3>4. \A r \in rowsOf(c) : r.min /\ r.thread = m.thread /\ r.failureID = i
      BY <3>1, LeafRows
    <3>5. PICK l \in c.lines : \E k \in intercepted[c.thread][l] : TRUE
      BY <2>2, <3>1
    <3>6. PICK r \in Leaves : r.configIdx = c
      BY <3>5, LeafRows
    <3>7. c \in Configs(minimal)
      BY <3>4, <3>6 DEF Configs
    <3> HIDE DEF linesOf, rowsOf, hit
    <3> QED BY <3>3, <3>4, <3>7
  <2>3. ASSUME NEW idx \in Configs(minimal)
        PROVE  \E m \in AllMinima :
                 linesOf(idx) = hit(m) /\ \A r \in rowsOf(idx) : r.thread = m.thread
    <3>1. PICK x \in Leaves : x.min /\ idx = x.configIdx
      BY DEF Configs
    <3>2. idx \in AllConfigs /\ idx.min
      BY <3>1, LeafRows
    <3>3. PICK e \in Kept : idx.thread = e.thread /\ idx.lines = e.lines /\ idx.min = IsMinimal(e)
      BY <3>2, ConfigRows
    <3>4. IsMinimal(e)
      BY <3>2, <3>3
    <3>5. PICK m \in AllMinima : m.thread = e.thread /\ m.lines = e.lines
      BY <3>4 DEF IsMinimal
    <3>6. hit(idx) = hit(m)
      BY <3>3, <3>5
    <3>7. \A r \in rowsOf(idx) : r.thread = m.thread
      BY <3>3, <3>5, LeafRows
    <3> HIDE DEF linesOf, rowsOf, hit
    <3> QED BY <2>1, <3>2, <3>6, <3>7
  <2> QED BY <2>2, <2>3 DEF NothingMinimalIsLost
<1> QED BY <1>1, StagesHold, PTL

(* A set of naturals has a least element.                                  *)
LEMMA Least ==
  ASSUME NEW N, N \subseteq Nat, N # {}
  PROVE  \E k \in N : \A n \in N : k <= n
<1> DEFINE R == OpToRel(<, Nat)
<1>1. \A x, y \in Nat : x < y => <<x, y>> \in R
  BY DEF OpToRel
<1>2. IsWellFoundedOn(R, Nat)
  BY NatLessThanWellFounded
<1> HIDE DEF R
<1>3. PICK k \in N : \A n \in N : ~ (<<n, k>> \in R)
  BY <1>2, WFMin
<1>4. ASSUME NEW n \in N PROVE k <= n
  <2>1. n \in Nat /\ k \in Nat /\ ~ (n < k)
    BY <1>1, <1>3
  <2> QED BY <2>1
<1> QED BY <1>4

(* A thread with a stable failure has a minimal list.                      *)
LEMMA StableHasMinimum ==
  ASSUME TypeOK, NEW t \in Threads, NEW i \in DOMAIN Tried(t), Tried(t)[i].stable
  PROVE  Minima(t) # {}
<1> DEFINE stable == {Tried(t)[n] : n \in {j \in DOMAIN Tried(t) : Tried(t)[j].stable}}
           same == {x \in stable : x.failure = Tried(t)[i].failure}
           sizes == {Cardinality(x.lines) : x \in same}
<1>1. \A x \in stable : Cardinality(x.lines) \in Nat
  BY TriedLists, FS_CardinalityType
<1>2. sizes \subseteq Nat /\ sizes # {}
  BY <1>1
<1>3. PICK k \in sizes : \A n \in sizes : k <= n
  <2> HIDE DEF sizes
  <2> QED BY <1>2, Least
<1>4. PICK s \in same : k = Cardinality(s.lines)
  OBVIOUS
<1>5. \A y \in stable : s.failure = y.failure => Cardinality(s.lines) <= Cardinality(y.lines)
  <2> SUFFICES ASSUME NEW y \in stable, s.failure = y.failure
               PROVE  Cardinality(s.lines) <= Cardinality(y.lines)
    OBVIOUS
  <2>1. Cardinality(y.lines) \in sizes
    OBVIOUS
  <2> QED BY <1>3, <1>4, <2>1
<1>6. s \in {x \in stable : \A y \in stable : x.failure = y.failure
                              => Cardinality(x.lines) <= Cardinality(y.lines)}
  BY <1>5
<1>7. [thread |-> t, lines |-> s.lines, failure |-> s.failure] \in Minima(t)
  BY <1>6 DEF Minima
<1> QED BY <1>7

(* Threads with a minimal list, and their rows.                            *)
LEMMA MinimaThreads ==
  ASSUME TypeOK, NEW e, IsMinimal(e)
  PROVE  Minima(e.thread) # {}
<1>1. PICK m \in AllMinima : m.thread = e.thread
  BY DEF IsMinimal
<1>2. PICK x \in Explored : m.thread = x.thread /\ m \in Minima(x.thread)
  BY MinimaWereTried
<1> QED BY <1>1, <1>2

(* only-nofail.py: threads without any minimal list.                       *)
LEMMA NeverFailedRows ==
  ASSUME TypeOK
  PROVE  /\ \A x \in NeverFailed : /\ IsRow(x, TryColumns) /\ Minima(x.thread) = {}
                                   /\ x.thread \in Threads /\ x \in Explored /\ x.failure = NoFail
         /\ \A t \in Threads : Tried(t) # <<>> /\ Minima(t) = {} /\ Tried(t)[1].failure = NoFail
              => Try(t, 1) \in NeverFailed
<1> DEFINE A == Columns(MinimalReport, {"thread", "failure"})
<1>1. ASSUME NEW p \in A, NEW e \in Explored,
             p.thread = e.thread /\ p.failure = e.failure
      PROVE  Both(p, e) = e
  <2>1. IsRow(p, {"thread", "failure"}) /\ IsRow(e, TryColumns)
    BY ColumnsRow, ExploredRows
  <2> DEFINE x == Both(p, e)
  <2>2. {"thread", "failure"} \cup TryColumns = TryColumns
    BY DEF TryColumns
  <2>3. DOMAIN p = {"thread", "failure"} /\ DOMAIN e = TryColumns
    BY <2>1 DEF IsRow
  <2>4. /\ IsRow(x, {"thread", "failure"} \cup TryColumns)
        /\ \A f \in {"thread", "failure"} : x[f] = p[f]
        /\ \A f \in TryColumns : f \notin {"thread", "failure"} => x[f] = e[f]
    BY <2>3, BothRow
  <2> HIDE DEF x
  <2>5. \A f \in TryColumns : x[f] = e[f]
    BY <1>1, <2>4 DEF TryColumns
  <2>6. x = e
    BY <2>1, <2>2, <2>4, <2>5, SameRow
  <2> QED BY <2>6 DEF x
<1>2. ASSUME NEW p \in A, NEW e \in Explored
      PROVE  (\A f \in DOMAIN p \cap DOMAIN e : p[f] = e[f])
               <=> p.thread = e.thread /\ p.failure = e.failure
  <2>1. DOMAIN p = {"thread", "failure"} /\ DOMAIN e = TryColumns
    BY ColumnsRow, ExploredRows DEF IsRow
  <2>2. DOMAIN p \cap DOMAIN e = {"thread", "failure"}
    BY <2>1 DEF TryColumns
  <2> QED BY <2>2
<1>3. ASSUME NEW x \in NeverFailed
      PROVE  /\ IsRow(x, TryColumns) /\ Minima(x.thread) = {}
             /\ x.thread \in Threads /\ x \in Explored /\ x.failure = NoFail
  <2>1. x \in Join(A, Explored) /\ x.failure = NoFail
    BY DEF NeverFailed
  <2>2. PICK p \in A, e \in Explored :
          x = Both(p, e) /\ \A f \in DOMAIN p \cap DOMAIN e : p[f] = e[f]
    BY <2>1, JoinFrom
  <2>3. p.thread = e.thread /\ p.failure = e.failure /\ x = e
    BY <1>1, <1>2, <2>2
  <2>4. \E m \in MinimalReport : \A f \in {"thread", "failure"} : p[f] = m[f]
    BY ColumnsRow
  <2>5. PICK m \in MinimalReport : p.thread = m.thread /\ p.failure = m.failure
    BY <2>4
  <2>6. m \notin AllMinima /\ m.failure \notin {Exceeded, AlreadyFails}
    BY <2>1, <2>3, <2>5, MinimaWereTried, TextsAssumption
  <2>7. Minima(m.thread) = {} /\ m.thread \in Threads
    BY <2>6, MinimalRows
  <2> QED BY <2>1, <2>3, <2>5, <2>7, ExploredRows
<1>4. ASSUME NEW t \in Threads, Tried(t) # <<>>, Minima(t) = {}, Tried(t)[1].failure = NoFail
      PROVE  Try(t, 1) \in NeverFailed
  <2> DEFINE m == [thread |-> t, lines |-> NoFail, failure |-> NoFail]
             p == [f \in {"thread", "failure"} |-> m[f]]
             e == Try(t, 1)
  <2>1. m \in MinimalReport
    BY <1>4, InMinimalReport
  <2>2. p \in A
    BY <2>1, ColumnsRow
  <2>3. p.thread = t /\ p.failure = NoFail
    OBVIOUS
  <2>4. e \in Explored
    BY <1>4, TriedLists, ExploredRows
  <2>5. e.thread = t /\ e.failure = NoFail
    BY <1>4 DEF Try
  <2> HIDE DEF p, e
  <2>6. Both(p, e) = e /\ \A f \in DOMAIN p \cap DOMAIN e : p[f] = e[f]
    BY <1>1, <1>2, <2>2, <2>3, <2>4, <2>5
  <2>7. e \in Join(A, Explored)
    BY <2>2, <2>4, <2>6, JoinHas
  <2> QED BY <2>5, <2>7 DEF NeverFailed, e
<1> QED BY <1>3, <1>4

(* The table of only-nofail.py is about threads that were intercepted.     *)
LEMMA NoFailRows ==
  ASSUME TypeOK
  PROVE  /\ \A x \in NoFailTable : \E r \in NeverFailed : x.thread = r.thread
         /\ \A t \in Threads :
              (Try(t, 1) \in NeverFailed /\ \E l \in Tried(t)[1].lines : intercepted[t][l] # {})
                => \E x \in NoFailTable : x.thread = t
<1> DEFINE U == UnpackSleepylines(NeverFailed)
           J == Join(Causes, U)
           Z == {"thread", "line", "cause"}
           V == TryColumns \cup {"configIdx", "line"}
<1>1. ASSUME NEW r \in NeverFailed, NEW l, NEW u, u = Both(r, [configIdx |-> r, line |-> l])
      PROVE  DOMAIN u = V /\ u.thread = r.thread /\ u.line = l
  <2>1. IsRow(r, TryColumns) /\ "configIdx" \notin TryColumns /\ "line" \notin TryColumns
    BY NeverFailedRows DEF TryColumns
  <2>2. IsRow(u, V) /\ (\A f \in TryColumns : u[f] = r[f]) /\ u.line = l
    BY <1>1, <2>1, UnpackedRow
  <2> QED BY <2>2 DEF IsRow, TryColumns
<1>2. ASSUME NEW z \in Causes, NEW u, DOMAIN u = V
      PROVE  /\ Both(z, u).thread = z.thread
             /\ DOMAIN z \cap DOMAIN u = {"thread", "line"}
  <2>1. DOMAIN z = Z
    BY CauseRows DEF IsRow
  <2>2. DOMAIN z \cap DOMAIN u = {"thread", "line"}
    BY <1>2, <2>1 DEF TryColumns
  <2>3. \A f \in Z : Both(z, u)[f] = z[f]
    BY <1>2, <2>1 DEF Both
  <2> QED BY <2>2, <2>3
<1>3. ASSUME NEW x \in NoFailTable PROVE \E r \in NeverFailed : x.thread = r.thread
  <2>1. \E y \in J : \A f \in NoFailColumns : x[f] = y[f]
    BY ColumnsRow DEF NoFailTable
  <2>2. PICK y \in J : x.thread = y.thread
    BY <2>1 DEF NoFailColumns
  <2>3. PICK z \in Causes, u \in U :
          y = Both(z, u) /\ \A f \in DOMAIN z \cap DOMAIN u : z[f] = u[f]
    BY JoinFrom
  <2>4. PICK r \in NeverFailed : \E l \in r.lines : u = Both(r, [configIdx |-> r, line |-> l])
    BY DEF UnpackSleepylines
  <2>5. DOMAIN u = V /\ u.thread = r.thread
    BY <1>1, <2>4
  <2>6. y.thread = z.thread /\ z.thread = u.thread
    BY <1>2, <2>3, <2>5
  <2> QED BY <2>2, <2>5, <2>6
<1>4. ASSUME NEW t \in Threads, Try(t, 1) \in NeverFailed,
             NEW l \in Tried(t)[1].lines, intercepted[t][l] # {}
      PROVE  \E x \in NoFailTable : x.thread = t
  <2>1. PICK k \in intercepted[t][l] : TRUE
    BY <1>4
  <2> DEFINE r == Try(t, 1)
             u == Both(r, [configIdx |-> r, line |-> l])
             z == [thread |-> t, line |-> l, cause |-> k]
             y == Both(z, u)
             x == [f \in NoFailColumns |-> y[f]]
  <2>2. r.thread = t /\ r.lines = Tried(t)[1].lines
    BY DEF Try
  <2>3. u \in U
    BY <1>4, <2>2 DEF UnpackSleepylines
  <2>4. DOMAIN u = V /\ u.thread = t /\ u.line = l
    BY <1>1, <1>4, <2>2
  <2>5. z \in Causes
    <3>1. Tried(t) # <<>>
      BY <1>4, NeverFailedRows, ExploredRows, TriedLists DEF Try
    <3> QED BY <3>1, CauseRows
  <2>6. z.thread = t /\ z.line = l
    OBVIOUS
  <2> HIDE DEF u, z
  <2>7. y.thread = t /\ \A f \in DOMAIN z \cap DOMAIN u : z[f] = u[f]
    BY <1>2, <2>4, <2>5, <2>6
  <2>8. y \in J
    BY <2>3, <2>5, <2>7, JoinHas
  <2> HIDE DEF y, J
  <2>9. x \in Columns(J, NoFailColumns)
    BY <2>8, ColumnsRow
  <2>10. x.thread = t
    BY <2>7 DEF NoFailColumns
  <2> QED BY <2>9, <2>10 DEF NoFailTable, J
<1> QED BY <1>3, <1>4

(* NeverFailedIsApart: a thread that never failed is in the table of       *)
(* only-nofail.py and in no list of fk-grab-min-meta.py, one that failed   *)
(* stably only in the latter.                                              *)
THEOREM TablesAreApart == Spec => []NeverFailedIsApart
<1>1. CInv => NeverFailedIsApart
  <2> SUFFICES ASSUME TypeOK, merged = Leaves, noFails = NoFailTable PROVE NeverFailedIsApart
    <3>1. pc = "collect" /\ TypeOK /\ Tables => files = {"times", "reports"}
      BY DEF TypeOK, Tables
    <3> QED BY <3>1 DEF CInv, Stages, Tables, NeverFailedIsApart
  <2> DEFINE seen(t) == Tried(t) # <<>> /\ \E l \in Tried(t)[1].lines : intercepted[t][l] # {}
             failing == {r.thread : r \in merged}
             passing == {r.thread : r \in noFails}
  <2>1. \A t \in passing : \E r \in NeverFailed : t = r.thread
    BY NoFailRows
  <2>2. \A t \in passing : Minima(t) = {}
    BY <2>1, NeverFailedRows
  <2>3. ASSUME NEW t \in failing, t \in passing PROVE FALSE
    <3>1. PICK r \in NeverFailed : t = r.thread
      BY <2>1, <2>3
    <3>2. t \in Threads /\ Minima(t) = {} /\ r \in Explored /\ r.failure = NoFail
      BY <3>1, NeverFailedRows
    <3>3. r.id \in DOMAIN Tried(t) /\ Tried(t)[r.id].failure = NoFail
      BY <3>1, <3>2, ExploredRows
    <3>4. PICK c \in AllConfigs : t = c.thread
      BY LeafRows
    <3>5. PICK e \in Kept : c.thread = e.thread
      BY ConfigRows
    <3>6. ~ IsMinimal(e)
      BY <3>2, <3>4, <3>5, MinimaThreads
    <3>7. e \in Explored /\ e.id = 1 /\ e.failure # NoFail
      BY <3>6 DEF Kept, MinimalTries, Firsts
    <3>8. 1 \in DOMAIN Tried(t) /\ Tried(t)[1].failure # NoFail
      BY <3>4, <3>5, <3>7, ExploredRows
    <3>9. r.id # 1 /\ r.id \in Nat \ {0}
      BY <3>2, <3>3, <3>8, TriedLists
    <3>10. Tried(t)[1].stable
      BY <3>2, <3>3, <3>9, TriedLists
    <3> QED BY <3>2, <3>8, <3>10, StableHasMinimum
  <2>4. ASSUME NEW t \in Threads, seen(t), Tried(t)[1].stable PROVE t \in failing
    <3> DEFINE e == Try(t, 1)
    <3>1. 1 \in DOMAIN Tried(t) /\ Tried(t)[1].failure # NoFail
      BY <2>4, TriedLists
    <3>2. e \in Explored /\ e.thread = t /\ e.lines = Tried(t)[1].lines /\ e.id = 1
          /\ e.failure # NoFail
      BY <3>1, ExploredRows DEF Try
    <3> HIDE DEF e
    <3>3. e \in Kept
      BY <3>2 DEF Kept, Firsts
    <3>4. PICK i \in Labels(e) : TRUE
      BY DEF Labels
    <3> DEFINE v == IF IsMinimal(e) THEN i ELSE Maximal
               c == Config(e, v)
    <3>5. c \in AllConfigs
      BY <3>3, <3>4 DEF AllConfigs
    <3>6. c.thread = t /\ c.lines = e.lines
      BY <3>2 DEF Config
    <3> HIDE DEF c
    <3>7. PICK l \in c.lines : intercepted[t][l] # {}
      BY <2>4, <3>2, <3>6
    <3>8. \E r \in Leaves : r.configIdx = c
      BY <3>5, <3>6, <3>7, LeafRows
    <3> QED BY <3>6, <3>8, LeafRows
  <2>5. ASSUME NEW t \in Threads, seen(t), Tried(t)[1].failure = NoFail PROVE t \in passing
    <3>1. ~ Tried(t)[1].stable
      BY <2>5, TriedLists
    <3>2. \A i \in DOMAIN Tried(t) : i = 1
      BY <3>1, TriedLists
    <3>3. Minima(t) = {}
      BY <3>1, <3>2 DEF Minima
    <3>4. Try(t, 1) \in NeverFailed
      BY <2>5, <3>3, NeverFailedRows
    <3>5. \E x \in NoFailTable : x.thread = t
      BY <2>5, <3>4, NoFailRows
    <3> QED BY <3>5
  <2> QED BY <2>2, <2>3, <2>4, <2>5 DEF NeverFailedIsApart
<1> QED BY <1>1, StagesHold, PTL

-----------------------------------------------------------------------------
(* What is counted of the tables.                                          *)

(* The image of a finite set is finite, and not larger.                    *)
LEMMA ImageIsFinite ==
  ASSUME NEW S, IsFiniteSet(S), NEW f
  PROVE  IsFiniteSet({f[x] : x \in S}) /\ Cardinality({f[x] : x \in S}) <= Cardinality(S)
<1> DEFINE T == {f[x] : x \in S}
           g == [x \in S |-> f[x]]
<1>1. g \in Surjection(S, T)
  BY DEF Surjection
<1> HIDE DEF g, T
<1>2. IsFiniteSet(T) /\ Cardinality(T) <= Cardinality(S)
  BY <1>1, FS_Surjection
<1> QED BY <1>2 DEF T

(* There are finitely many lists.                                          *)
LEMMA FiniteConfigs ==
  ASSUME TypeOK
  PROVE  IsFiniteSet(AllConfigs)
<1>1. IsFiniteSet(Threads)
  BY SearchesAssumption, FS_Interval DEF Threads
<1>2. IsFiniteSet(Explored)
  <2> DEFINE g == [t \in Threads |-> {Try(t, i) : i \in DOMAIN Tried(t)}]
             G == {g[t] : t \in Threads}
  <2>1. ASSUME NEW t \in Threads PROVE IsFiniteSet(g[t])
    <3> DEFINE D == DOMAIN Tried(t)
               h == [i \in D |-> Try(t, i)]
    <3>1. IsFiniteSet(D)
      BY TriedLists, FS_Interval
    <3>2. IsFiniteSet({h[i] : i \in D})
      <4> HIDE DEF h, D
      <4> QED BY <3>1, ImageIsFinite
    <3>3. {h[i] : i \in D} = g[t]
      OBVIOUS
    <3> QED BY <3>2, <3>3
  <2>2. UNION G = Explored
    BY DEF Explored, Try
  <2> HIDE DEF g
  <2>3. IsFiniteSet(G) /\ \A x \in G : IsFiniteSet(x)
    BY <1>1, <2>1, ImageIsFinite
  <2> HIDE DEF G
  <2>4. IsFiniteSet(UNION G)
    BY <2>3, FS_UNION
  <2> QED BY <2>2, <2>4
<1>3. IsFiniteSet(Kept)
  <2>1. Kept \in SUBSET Explored
    BY DEF Kept, MinimalTries, Firsts
  <2> QED BY <1>2, <2>1, FS_Subset
<1>4. IsFiniteSet(AllConfigs)
  <2> DEFINE V(e, i) == Config(e, IF IsMinimal(e) THEN i ELSE Maximal)
             g == [e \in Kept |-> {V(e, i) : i \in Labels(e)}]
             G == {g[e] : e \in Kept}
  <2>1. ASSUME NEW e \in Kept PROVE IsFiniteSet(g[e])
    <3> DEFINE D == Labels(e)
               h == [i \in D |-> V(e, i)]
    <3>1. IsFiniteSet(D)
      <4> DEFINE I == {i \in Ids : [thread |-> e.thread, lines |-> e.lines] \in failConfigs[i]}
      <4>1. I \in SUBSET Ids
        OBVIOUS
      <4>2. D = IF I = {} THEN {Missing} ELSE I
        BY DEF Labels
      <4> HIDE DEF I, D
      <4>3. IsFiniteSet(I)
        BY <4>1, TextsAssumption, FS_Subset
      <4> QED BY <4>2, <4>3, FS_Singleton
    <3>2. IsFiniteSet({h[i] : i \in D})
      <4> HIDE DEF h, D
      <4> QED BY <3>1, ImageIsFinite
    <3> HIDE DEF V
    <3>3. {h[i] : i \in D} = g[e]
      OBVIOUS
    <3> QED BY <3>2, <3>3
  <2>2. UNION G = AllConfigs
    <3>1. AllConfigs = UNION {{V(e, i) : i \in Labels(e)} : e \in Kept}
      BY DEF AllConfigs
    <3> HIDE DEF V
    <3> QED BY <3>1
  <2> HIDE DEF g
  <2>3. IsFiniteSet(G) /\ \A x \in G : IsFiniteSet(x)
    BY <1>3, <2>1, ImageIsFinite
  <2> HIDE DEF G
  <2>4. IsFiniteSet(UNION G)
    BY <2>3, FS_UNION
  <2> QED BY <2>2, <2>4
<1> QED BY <1>4

(* The rows that are left, and where they come from.                       *)
LEMMA OutRows ==
  ASSUME CInv, pc = "done"
  PROVE  /\ \A x \in out : /\ x.configIdx \in AllConfigs
                           /\ x.thread = x.configIdx.thread /\ x.min = x.configIdx.min
         /\ MatchedRows # {} => \A r \in Leaves : \E x \in out : x.configIdx = r.configIdx
<1> DEFINE g == [r \in Leaves |-> [r EXCEPT !.cause = IF @ \in Abstract THEN @ ELSE Flagged]]
<1>1. out = IF MatchedRows = {} THEN {} ELSE {g[r] : r \in Leaves}
  <2>1. {g[r] : r \in Leaves}
          = {[r EXCEPT !.cause = IF @ \in Abstract THEN @ ELSE Flagged] : r \in Leaves}
    OBVIOUS
  <2>2. out = IF MatchedRows = {} THEN {}
              ELSE {[r EXCEPT !.cause = IF @ \in Abstract THEN @ ELSE Flagged] : r \in Leaves}
    BY DEF CInv, Tables
  <2> HIDE DEF g
  <2> QED BY <2>1, <2>2
<1>2. ASSUME NEW r \in Leaves
      PROVE  g[r].configIdx = r.configIdx /\ g[r].thread = r.thread /\ g[r].min = r.min
  <2> DEFINE v == IF r.cause \in Abstract THEN r.cause ELSE Flagged
             x == [r EXCEPT !.cause = v]
  <2>1. IsRow(r, LeafColumns)
    BY LeafRows
  <2>2. g[r] = x
    BY <2>1 DEF IsRow, LeafColumns
  <2> HIDE DEF v
  <2>3. \A f \in LeafColumns : x[f] = IF f = "cause" THEN v ELSE r[f]
    BY <2>1 DEF IsRow, LeafColumns
  <2> HIDE DEF x, g
  <2> QED BY <2>2, <2>3 DEF LeafColumns
<1> HIDE DEF g
<1>3. ASSUME NEW x \in out
      PROVE  /\ x.configIdx \in AllConfigs
             /\ x.thread = x.configIdx.thread /\ x.min = x.configIdx.min
  <2>1. PICK r \in Leaves : x = g[r]
    BY <1>1
  <2> QED BY <1>2, <2>1, LeafRows
<1>4. ASSUME MatchedRows # {}, NEW r \in Leaves
      PROVE  \E x \in out : x.configIdx = r.configIdx
  <2>1. g[r] \in out
    BY <1>1, <1>4
  <2> QED BY <1>2, <2>1
<1> QED BY <1>3, <1>4

(* MatchedAreCounted: the table has the threads of the matched failures,   *)
(* and no fewer minimal lists than were matched, as far as naps were taken *)
(* at their lines.                                                         *)
THEOREM MatchedListsAreCounted == Spec => []MatchedAreCounted
<1>1. CInv => MatchedAreCounted
  <2> DEFINE H == {m \in MatchedRows : \E l \in m.lines : intercepted[m.thread][l] # {}}
             Match(m, c) == /\ c.thread = m.thread /\ c.lines = m.lines
                            /\ c.failureID = m.failureID /\ c.min
             T == Configs({r \in out : r.min})
             g == [m \in H |-> CHOOSE c \in AllConfigs : Match(m, c)]
  <2> SUFFICES ASSUME CInv, pc = "done"
               PROVE  /\ {m.thread : m \in H} \subseteq {r.thread : r \in out}
                      /\ Cardinality(H) <= Cardinality(T)
    BY DEF MatchedAreCounted, Canary
  <2>1. TypeOK /\ IsFiniteSet(AllConfigs)
    BY FiniteConfigs DEF CInv
  <2>2. ASSUME NEW m \in MatchedRows PROVE \E c \in AllConfigs : Match(m, c)
    <3>1. /\ m.failureID \in Ids
          /\ [thread |-> m.thread, lines |-> m.lines] \in failConfigs[m.failureID]
      BY <2>1, MatchRows
    <3>2. PICK a \in AllMinima :
            [thread |-> m.thread, lines |-> m.lines] = [thread |-> a.thread, lines |-> a.lines]
      BY <2>1, <3>1 DEF TypeOK
    <3>3. a.thread = m.thread /\ a.lines = m.lines
      BY <3>2
    <3>4. m.failureID \in Labels(a)
      BY <3>1, <3>3 DEF Labels
    <3> QED BY <2>1, <3>3, <3>4, MinimalConfigs
  <2>3. ASSUME NEW m \in H, NEW c \in AllConfigs, Match(m, c)
        PROVE  \E x \in out : x.configIdx = c /\ x.thread = m.thread /\ x.min
    <3>1. PICK l \in c.lines : intercepted[c.thread][l] # {}
      BY <2>3
    <3>2. PICK r \in Leaves : r.configIdx = c
      BY <3>1, LeafRows
    <3>3. PICK x \in out : x.configIdx = c
      BY <3>2, OutRows
    <3>4. x.thread = c.thread /\ x.min = c.min
      BY <3>3, OutRows
    <3> QED BY <2>3, <3>3, <3>4
  <2>4. ASSUME NEW m \in H PROVE g[m] \in AllConfigs /\ Match(m, g[m])
    <3>1. g[m] = CHOOSE c \in AllConfigs : Match(m, c)
      OBVIOUS
    <3>2. m \in MatchedRows
      OBVIOUS
    <3> HIDE DEF Match, g, H
    <3> QED BY <2>2, <3>1, <3>2
  <2>5. {m.thread : m \in H} \subseteq {r.thread : r \in out}
    <3> HIDE DEF g, H
    <3> QED BY <2>3, <2>4
  <2>6. g \in Injection(H, T)
    <3>1. ASSUME NEW m \in H PROVE g[m] \in T
      <4> HIDE DEF g, H
      <4>1. PICK x \in out : x.configIdx = g[m] /\ x.min
        BY <2>3, <2>4
      <4> QED BY <4>1 DEF Configs
    <3>2. ASSUME NEW m \in H, NEW n \in H, g[m] = g[n] PROVE m = n
      <4>1. m.thread = n.thread /\ m.lines = n.lines /\ m.failureID = n.failureID
        <5> HIDE DEF g, H
        <5> QED BY <2>4, <3>2
      <4> DEFINE F == {"thread", "lines", "failureID"}
      <4>2. IsRow(m, F) /\ IsRow(n, F) /\ \A f \in F : m[f] = n[f]
        BY <2>1, <4>1, MatchRows
      <4> HIDE DEF F
      <4> QED BY <4>2, SameRow
    <3>3. g = [m \in H |-> g[m]] /\ DOMAIN g = H
      OBVIOUS
    <3> HIDE DEF g, T, H
    <3>4. g \in [H -> T]
      BY <3>1, <3>3
    <3> QED BY <3>2, <3>4 DEF Injection, IsInjective
  <2>7. IsFiniteSet(T)
    <3>1. T \in SUBSET AllConfigs
      BY OutRows DEF Configs
    <3> HIDE DEF T
    <3> QED BY <2>1, <3>1, FS_Subset
  <2>8. Cardinality(H) <= Cardinality(T)
    <3> HIDE DEF g, T, H
    <3> QED BY <2>6, <2>7, FS_Injection
  <2> QED BY <2>5, <2>8
<1> QED BY <1>1, StagesHold, PTL
=============================================================================
