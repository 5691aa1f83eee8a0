------------------------ MODULE FindFlakySleepsProofs ------------------------
(***************************************************************************)
(* What the reports of the driver promise, for every number of test        *)
(* methods, attempts, threads and lines.                                   *)
(***************************************************************************)
EXTENDS FindFlakySleeps, TLAPS

(* What a set of rows says of the threads of a test method.                *)
Accounted(rows, threads) ==
  \/ \E r \in rows : r.kind = "AlreadyFailsStably"
  \/ /\ threads # {}
     /\ \A t \in threads : \E r \in rows : r.tid = t \/ r.kind = "Exceeded"

Holds(rows, pairs) == \A p \in pairs : Row("failure", p[1], p[2]) \in rows

Targets == Lines \cup {NoTarget, HardCoded}

HistoryTypes ==
  /\ reached \in [Methods -> SUBSET (Tids \X Lines)]
  /\ probed \in [Methods -> SUBSET Tids]
  /\ found \in [Methods -> SUBSET (Tids \X SUBSET Targets)]

(* Where the driver is in its file.                                        *)
Position ==
  /\ phase \in {"setup", "probe", "search", "write"} => method <= NumMethods
  /\ phase \in {"reports", "done"} => method = NumMethods + 1

(* Nothing is known yet of the test methods to come.                       *)
Untouched ==
  \A m \in Methods :
    /\ m > method => reached[m] = {} /\ found[m] = {}
    /\ m = method /\ phase = "setup" => reached[m] = {}
    /\ m = method /\ phase \in {"setup", "probe"} => found[m] = {}

(* The lines of each attempt are kept, up to the searches.                 *)
LinesKept ==
  /\ phase \in {"probe", "search"} =>
       \A h \in reached[method] : h[2] \in maximalLines[h[1]]
  /\ phase = "search" => \A h \in reached[method] : h[1] \in probed[method]

(* The test method at hand: its rows so far.                               *)
RowsSoFar ==
  /\ phase = "search" =>
       /\ probed[method] # {}
       /\ \A t \in probed[method] : t \in tidsLeft \/ \E r \in out : r.tid = t
  /\ phase = "write" => Accounted(out, probed[method])
  /\ phase \in {"search", "write"} => Holds(out, found[method])

(* The test methods before it: their rows in the report.                   *)
RowsWritten ==
  \A m \in Methods :
    m < method => Accounted(csv[m], probed[m]) /\ Holds(csv[m], found[m])

IInv == /\ TypeOK /\ HistoryTypes /\ Position /\ Untouched
        /\ LinesKept /\ RowsSoFar /\ RowsWritten

-----------------------------------------------------------------------------
(* A row is one of Rows.                                                   *)
LEMMA RowsAreRows ==
  \A k \in Kinds, t \in Tids \cup {Nobody}, ls \in SUBSET Targets :
    Row(k, t, ls) \in Rows
BY DEF Rows, Targets

(* The fields of a row.                                                    *)
LEMMA RowFields ==
  \A k, t, ls : Row(k, t, ls).kind = k /\ Row(k, t, ls).tid = t
BY DEF Row

(* The driver starts in the invariant.                                     *)
LEMMA Initially == Init => IInv
<1> SUFFICES ASSUME Init PROVE IInv
  OBVIOUS
<1> USE DriverAssumption DEF Init, Methods
<1>1. TypeOK /\ HistoryTypes
  <2>1. expired \in BOOLEAN /\ sideReports \in BOOLEAN
    OBVIOUS
  <2>2. method \in 1 .. NumMethods + 1 /\ attempt \in 0 .. Attempts /\ failures \in 0 .. attempt
    OBVIOUS
  <2>3. csv \in [Methods -> SUBSET Rows] /\ out \subseteq Rows
    OBVIOUS
  <2>4. TypeOK
    BY <2>1, <2>2, <2>3 DEF TypeOK
  <2>5. HistoryTypes
    BY DEF HistoryTypes
  <2> QED BY <2>4, <2>5
<1>2. Position /\ Untouched /\ LinesKept /\ RowsSoFar /\ RowsWritten
  BY DEF Position, Untouched, LinesKept, RowsSoFar, RowsWritten
<1> QED BY <1>1, <1>2 DEF IInv

(* setup keeps it: nothing is known of the method that begins.             *)
LEMMA SetupKeeps == IInv /\ Setup /\ UNCHANGED mode => IInv'
<1> SUFFICES ASSUME IInv, Setup, UNCHANGED mode PROVE IInv'
  OBVIOUS
<1> USE DriverAssumption DEF IInv, Setup, Methods, probe, past
<1>1. TypeOK' /\ HistoryTypes'
  <2>1. HistoryTypes'
    BY DEF HistoryTypes
  <2>2. expired' \in BOOLEAN /\ sideReports' \in BOOLEAN
    BY DEF TypeOK
  <2>3. attempt' \in 0 .. Attempts /\ failures' \in 0 .. attempt' /\ out' \subseteq Rows
    BY DEF TypeOK
  <2>4. TypeOK'
    BY <2>2, <2>3 DEF TypeOK
  <2> QED BY <2>1, <2>4
<1>2. Position' /\ Untouched' /\ RowsWritten'
  BY DEF Position, Untouched, RowsWritten
<1>3. LinesKept' /\ RowsSoFar'
  BY DEF LinesKept, RowsSoFar, Untouched, TypeOK
<1> QED BY <1>1, <1>2, <1>3

(* A probe run keeps it: its lines are added to those of the runs before.  *)
LEMMA ProbeKeeps ==
  ASSUME NEW hits \in SUBSET (Tids \X Lines), NEW b \in BOOLEAN,
         IInv, Probe(hits, b), UNCHANGED mode
  PROVE  IInv'
<1> USE DriverAssumption DEF IInv, Probe, Methods
<1>1. method \in Methods
  BY DEF TypeOK, Position
<1>2. maximalLines' \in [Tids -> SUBSET (Lines \cup {NoTarget})]
  BY DEF TypeOK, Added
<1>3. reached' \in [Methods -> SUBSET (Tids \X Lines)]
  BY <1>1 DEF HistoryTypes
<1>4. TypeOK' /\ HistoryTypes'
  BY <1>2, <1>3 DEF TypeOK, HistoryTypes
<1>5. Position' /\ RowsWritten' /\ RowsSoFar'
  BY DEF Position, RowsWritten, RowsSoFar
<1>6. Untouched'
  BY <1>1 DEF Untouched, TypeOK, HistoryTypes
<1>7. ASSUME NEW h \in reached'[method]
      PROVE  h[2] \in maximalLines'[h[1]]
  <2>1. reached'[method] = reached[method] \cup hits
    BY <1>1 DEF HistoryTypes
  <2>2. CASE h \in reached[method]
    <3>1. h[1] \in Tids
      BY <2>2, <1>1 DEF HistoryTypes
    <3> QED BY <2>2, <3>1 DEF LinesKept, Added
  <2>3. CASE h \in hits
    <3>1. h[1] \in Tids
      BY <2>3
    <3> QED BY <2>3, <3>1 DEF Added
  <2> QED BY <2>1, <2>2, <2>3
<1>8. LinesKept'
  BY <1>7 DEF LinesKept
<1> QED BY <1>4, <1>5, <1>6, <1>8

(* A test method that fails already has one row, which says so.            *)
LEMMA AlreadyFailsKeeps == IInv /\ AlreadyFails /\ UNCHANGED mode => IInv'
<1> SUFFICES ASSUME IInv, AlreadyFails, UNCHANGED mode PROVE IInv'
  OBVIOUS
<1> USE DriverAssumption DEF IInv, AlreadyFails, Methods, probe, past
<1>1. method \in Methods
  BY DEF TypeOK, Position
<1>2. out' \subseteq Rows
  BY RowsAreRows DEF Kinds
<1>3. TypeOK' /\ HistoryTypes'
  BY <1>2 DEF TypeOK, HistoryTypes
<1>4. Position' /\ Untouched' /\ LinesKept' /\ RowsWritten'
  BY DEF Position, Untouched, LinesKept, RowsWritten
<1>5. Accounted(out', probed'[method])
  BY RowFields DEF Accounted
<1>6. found'[method] = {}
  BY <1>1 DEF Untouched
<1>7. RowsSoFar'
  BY <1>5, <1>6 DEF RowsSoFar, Holds
<1> QED BY <1>3, <1>4, <1>7

(* The threads found are those that hit a line in some attempt.            *)
LEMMA ThreadsFoundKeeps == IInv /\ ThreadsFound /\ UNCHANGED mode => IInv'
<1> SUFFICES ASSUME IInv, ThreadsFound, UNCHANGED mode PROVE IInv'
  OBVIOUS
<1> USE DriverAssumption DEF IInv, ThreadsFound, Methods, probe
<1>1. method \in Methods
  BY DEF TypeOK, Position
<1>2. tidsLeft' \subseteq Tids /\ tidsLeft' # {}
  BY DEF Known
<1>3. maximalLines' \in [Tids -> SUBSET (Lines \cup {NoTarget})]
  BY DEF TypeOK
<1>4. probed' \in [Methods -> SUBSET Tids] /\ probed'[method] = tidsLeft'
  BY <1>1, <1>2 DEF HistoryTypes
<1>5. TypeOK' /\ HistoryTypes'
  BY <1>2, <1>3, <1>4 DEF TypeOK, HistoryTypes
<1>6. Position' /\ Untouched'
  BY DEF Position, Untouched
<1>7. RowsWritten'
  <2>1. \A m \in Methods : m < method => probed'[m] = probed[m]
    BY <1>1 DEF HistoryTypes, TypeOK
  <2> QED BY <2>1 DEF RowsWritten, TypeOK
<1>8. ASSUME NEW h \in reached[method]
      PROVE  h[1] \in tidsLeft' /\ h[2] \in maximalLines'[h[1]]
  <2>1. h[1] \in Tids /\ h[2] \in maximalLines[h[1]]
    BY <1>1 DEF HistoryTypes, LinesKept
  <2>2. h[1] \in Known
    BY <2>1 DEF Known
  <2> QED BY <2>1, <2>2
<1>9. LinesKept'
  BY <1>4, <1>8 DEF LinesKept
<1>10. RowsSoFar'
  BY <1>1, <1>2, <1>4 DEF RowsSoFar, Untouched, Holds
<1> QED BY <1>5, <1>6, <1>7, <1>9, <1>10

-----------------------------------------------------------------------------
(* The rows that are returned for a thread account for it.                 *)
LEMMA ReturnedKeeps ==
  ASSUME NEW t \in Tids, NEW lists \in SUBSET SUBSET Targets,
         IInv, Searching(t), Returned(t, lists), expired' \in BOOLEAN,
         UNCHANGED mode
  PROVE  IInv'
<1> USE DriverAssumption DEF IInv, Returned, Searching, Methods, probe
<1> DEFINE Rs == IF lists = {} THEN {Row("NoFail", t, {})}
                              ELSE {Row("failure", t, ls) : ls \in lists}
<1>1. method \in Methods
  BY DEF TypeOK, Position
<1>2. Rs \subseteq Rows /\ out' = out \cup Rs
  BY RowsAreRows DEF Kinds
<1>3. found' \in [Methods -> SUBSET (Tids \X SUBSET Targets)]
  <2>1. {t} \X lists \in SUBSET (Tids \X SUBSET Targets)
    OBVIOUS
  <2> QED BY <1>1, <2>1 DEF HistoryTypes
<1>4. found'[method] = found[method] \cup ({t} \X lists)
  BY <1>1 DEF HistoryTypes
<1>5. \A m \in Methods : m # method => found'[m] = found[m]
  BY DEF HistoryTypes
<1>6. TypeOK' /\ HistoryTypes'
  BY <1>2, <1>3 DEF TypeOK, HistoryTypes
<1>7. Position' /\ LinesKept'
  BY DEF Position, LinesKept
<1>8. Untouched'
  BY <1>1, <1>5 DEF Untouched, TypeOK
<1>9. RowsWritten'
  BY <1>1, <1>5 DEF RowsWritten, TypeOK
<1>10. \E r \in Rs : r.tid = t
  <2>1. CASE lists = {}
    BY <2>1, RowFields
  <2>2. CASE lists # {}
    <3>1. PICK ls \in lists : TRUE
      BY <2>2
    <3>2. Row("failure", t, ls) \in Rs
      BY <2>2, <3>1
    <3> QED BY <3>2, RowFields
  <2> QED BY <2>1, <2>2
<1>11. Holds(out', found'[method])
  <2>1. Holds(out', found[method])
    BY <1>2 DEF RowsSoFar, Holds
  <2>2. Holds(out', {t} \X lists)
    BY <1>2 DEF Holds
  <2> QED BY <1>4, <2>1, <2>2 DEF Holds
<1>12. \A u \in probed[method] : u \in tidsLeft' \/ \E r \in out' : r.tid = u
  BY <1>2, <1>10 DEF RowsSoFar
<1>13. RowsSoFar'
  BY <1>11, <1>12 DEF RowsSoFar
<1> QED BY <1>6, <1>7, <1>8, <1>9, <1>13

(* --no_sleep: so does a row that only names it.                           *)
LEMMA NoSleepRowKeeps ==
  ASSUME NEW t \in Tids, IInv, NoSleepRow(t), UNCHANGED mode
  PROVE  IInv'
<1> USE DriverAssumption DEF IInv, NoSleepRow, Searching, Methods, probe, past
<1>1. out' \subseteq Rows
  BY RowsAreRows DEF Kinds, TypeOK
<1>2. TypeOK' /\ HistoryTypes'
  BY <1>1 DEF TypeOK, HistoryTypes
<1>3. Position' /\ Untouched' /\ LinesKept' /\ RowsWritten'
  BY DEF Position, Untouched, LinesKept, RowsWritten
<1>4. RowsSoFar'
  BY RowFields DEF RowsSoFar, Holds
<1> QED BY <1>2, <1>3, <1>4

(* Out of time: one row stands for all threads that are left.              *)
LEMMA SearchExceedsKeeps ==
  ASSUME NEW t \in Tids, IInv, SearchExceeds(t), UNCHANGED mode
  PROVE  IInv'
<1> USE DriverAssumption DEF IInv, SearchExceeds, Searching, Methods, probe, past
<1>1. out' \subseteq Rows
  BY RowsAreRows DEF Kinds, TypeOK
<1>2. TypeOK' /\ HistoryTypes'
  BY <1>1 DEF TypeOK, HistoryTypes
<1>3. Position' /\ Untouched' /\ LinesKept' /\ RowsWritten'
  BY DEF Position, Untouched, LinesKept, RowsWritten
<1>4. Accounted(out', probed[method])
  BY RowFields DEF RowsSoFar, Accounted
<1>5. RowsSoFar'
  BY <1>4 DEF RowsSoFar, Holds
<1> QED BY <1>2, <1>3, <1>5

(* The end of the program, and of the loop over threads.                   *)
LEMMA SearchStopsKeeps ==
  ASSUME IInv, SearchEnds \/ (\E t \in tidsLeft : SearchCrashes(t)), UNCHANGED mode
  PROVE  IInv'
<1> USE DriverAssumption DEF IInv, SearchEnds, SearchCrashes, Searching, Methods, probe, past
<1>1. TypeOK' /\ HistoryTypes'
  BY DEF TypeOK, HistoryTypes
<1>2. Position' /\ Untouched' /\ LinesKept' /\ RowsWritten'
  BY DEF Position, Untouched, LinesKept, RowsWritten
<1>3. RowsSoFar'
  BY DEF RowsSoFar, Accounted
<1> QED BY <1>1, <1>2, <1>3

-----------------------------------------------------------------------------
(* The rows of a test method go to the report as they are.                 *)
LEMMA WriteRowsKeeps == IInv /\ WriteRows /\ UNCHANGED mode => IInv'
<1> SUFFICES ASSUME IInv, WriteRows, UNCHANGED mode PROVE IInv'
  OBVIOUS
<1> USE DriverAssumption DEF IInv, WriteRows, Methods, probe, past
<1>1. method \in Methods
  BY DEF TypeOK, Position
<1>2. csv'[method] = out /\ \A m \in Methods : m # method => csv'[m] = csv[m]
  BY <1>1 DEF TypeOK
<1>3. TypeOK' /\ HistoryTypes'
  BY <1>1 DEF TypeOK, HistoryTypes
<1>4. Position' /\ Untouched' /\ LinesKept' /\ RowsSoFar'
  BY <1>1 DEF Position, Untouched, LinesKept, RowsSoFar, TypeOK
<1>5. RowsWritten'
  BY <1>1, <1>2 DEF RowsWritten, RowsSoFar, TypeOK
<1> QED BY <1>3, <1>4, <1>5

(* The other reports have no say in it.                                    *)
LEMMA WriteSideReportsKeeps == IInv /\ WriteSideReports /\ UNCHANGED mode => IInv'
<1> SUFFICES ASSUME IInv, WriteSideReports, UNCHANGED mode PROVE IInv'
  OBVIOUS
<1> USE DriverAssumption DEF IInv, WriteSideReports, Methods, probe, past
<1>1. TypeOK' /\ HistoryTypes'
  BY DEF TypeOK, HistoryTypes
<1>2. Position' /\ Untouched' /\ LinesKept' /\ RowsSoFar' /\ RowsWritten'
  BY DEF Position, Untouched, LinesKept, RowsSoFar, RowsWritten
<1> QED BY <1>1, <1>2

(* Every step keeps the invariant.                                         *)
LEMMA StepsKeep == IInv /\ [Next]_vars => IInv'
<1> SUFFICES ASSUME IInv, [Next]_vars PROVE IInv'
  OBVIOUS
<1>1. CASE Setup /\ UNCHANGED mode
  BY <1>1, SetupKeeps
<1>2. ASSUME NEW hits \in SUBSET (Tids \X Lines), NEW b \in BOOLEAN,
             Probe(hits, b), UNCHANGED mode
      PROVE  IInv'
  BY <1>2, ProbeKeeps
<1>3. CASE (AlreadyFails \/ ThreadsFound) /\ UNCHANGED mode
  BY <1>3, AlreadyFailsKeeps, ThreadsFoundKeeps
<1>4. ASSUME NEW t \in tidsLeft, NEW lists \in SUBSET ((SUBSET maximalLines[t]) \ {{}}),
             NEW late \in BOOLEAN, SearchReturns(t, lists, late), UNCHANGED mode
      PROVE  IInv'
  <2>1. t \in Tids /\ lists \in SUBSET SUBSET Targets
    BY DEF IInv, TypeOK, Targets
  <2>2. Searching(t) /\ Returned(t, lists) /\ expired' \in BOOLEAN
    BY <1>4 DEF SearchReturns
  <2> QED BY <1>4, <2>1, <2>2, ReturnedKeeps
<1>5. ASSUME NEW t \in tidsLeft, HardCode(t), UNCHANGED mode
      PROVE  IInv'
  <2>1. t \in Tids /\ {{HardCoded}} \in SUBSET SUBSET Targets
    BY DEF IInv, TypeOK, Targets
  <2>2. Searching(t) /\ Returned(t, {{HardCoded}}) /\ expired' \in BOOLEAN
    BY <1>5 DEF HardCode, IInv, TypeOK
  <2> QED BY <1>5, <2>1, <2>2, ReturnedKeeps
<1>6. ASSUME NEW t \in tidsLeft, NoSleepRow(t) \/ SearchExceeds(t), UNCHANGED mode
      PROVE  IInv'
  <2>1. t \in Tids
    BY DEF IInv, TypeOK
  <2> QED BY <1>6, <2>1, NoSleepRowKeeps, SearchExceedsKeeps
<1>7. CASE (SearchEnds \/ \E t \in tidsLeft : SearchCrashes(t)) /\ UNCHANGED mode
  BY <1>7, SearchStopsKeeps
<1>8. CASE (WriteRows \/ WriteSideReports) /\ UNCHANGED mode
  BY <1>8, WriteRowsKeeps, WriteSideReportsKeeps
<1>9. CASE UNCHANGED vars
  <2> USE <1>9 DEF vars, probe, past, IInv
  <2>1. TypeOK' /\ HistoryTypes'
    BY DEF TypeOK, HistoryTypes
  <2>2. Position' /\ Untouched' /\ LinesKept' /\ RowsSoFar' /\ RowsWritten'
    BY DEF Position, Untouched, LinesKept, RowsSoFar, RowsWritten
  <2> QED BY <2>1, <2>2
<1> QED BY <1>1, <1>2, <1>3, <1>4, <1>5, <1>6, <1>7, <1>8, <1>9 DEF Next, Step

(* The inductive invariant of the driver: what is found is kept up to the  *)
(* search, what a search gives up to the row, the row up to the report.    *)
THEOREM DriverInvariant == Spec => []IInv
BY Initially, StepsKeep, PTL DEF Spec

(* Types, and where the driver is.                                         *)
THEOREM DriverTypes == Spec => []TypeOK
<1>1. IInv => TypeOK
  BY DEF IInv
<1> QED BY <1>1, DriverInvariant, PTL

(* A finished test method has a row for every thread found, one that says  *)
(* that the time was exceeded, or one that says that it fails anyway.      *)
THEOREM AllThreadsAreAccountedFor == Spec => []EveryThreadIsAccountedFor
<1>1. IInv => EveryThreadIsAccountedFor
  BY DriverAssumption DEF IInv, EveryThreadIsAccountedFor, Finished, Position,
     RowsWritten, Accounted, Methods
<1> QED BY <1>1, DriverInvariant, PTL

(* Every pair that a search returned is in the report of its test method.  *)
THEOREM AllPairsAreReported == Spec => []FoundPairsAreReported
<1>1. IInv => FoundPairsAreReported
  BY DriverAssumption DEF IInv, FoundPairsAreReported, Finished, Position,
     RowsWritten, Holds, Methods
<1> QED BY <1>1, DriverInvariant, PTL

(* Lines hit by any attempt, and their threads, are searched.              *)
THEOREM AllReachedLinesAreSearched == Spec => []NoReachedLineIsMissing
<1>1. IInv => NoReachedLineIsMissing
  BY DEF IInv, NoReachedLineIsMissing, LinesKept
<1> QED BY <1>1, DriverInvariant, PTL
=============================================================================
