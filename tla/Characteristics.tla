--------------------------- MODULE Characteristics ---------------------------
(***************************************************************************)
(* What the study makes of the reports of one test: only-nofail.py (the    *)
(* threads that never failed) and then fk-grab-min-meta.py (the lists of   *)
(* lines that made it fail, what they were intercepted for, and how often  *)
(* each cause is in such a list).                                          *)
(*                                                                         *)
(* A data frame is a set of records, merge() of two frames is their        *)
(* natural join.  SleepyLines is the set of its lines.  A table of one     *)
(* minimization method is followed; the other one is treated alike.  Every *)
(* thread has one stack trace, so joining the traces adds a column only;   *)
(* columns that depend on others are left out.                             *)
(*                                                                         *)
(* An operator or action whose comment begins with "Slip" is a plausible   *)
(* bug; no other one uses it.                                              *)
(***************************************************************************)
EXTENDS Integers, Sequences, FiniteSets

CONSTANTS NumThreads,
          Searches,   \* what minimal_lines_helper can try for a thread
          Partial,    \* those that TimeoutError cut short
          Interceptions, \* causes a line may be intercepted for
          Abstract,   \* abstract_sline_causes, but for FLAGGED_API
          Ids,        \* failureIDs of the matched failures of the test
          NoFail, Exceeded, AlreadyFails,   \* texts for SleepyLines, Failure
          Absent,     \* nothing was tried for the thread
          Maximal, Missing, Flagged   \* MAXIMAL_CONFIG and so on

Threads == 1 .. NumThreads
Lines   == UNION {s[1].lines : s \in Searches}

(* The list tried first is the longest, and it is cut up only if it makes  *)
(* the test fail stably.                                                   *)
ASSUME SearchesAssumption ==
  /\ NumThreads \in Nat \ {0}
  /\ Partial \subseteq Searches
  /\ \A s \in Searches :
       /\ DOMAIN s = 1 .. Len(s) /\ Len(s) \in Nat \ {0}
       /\ Len(s) > 1 => s[1].stable
       /\ IsFiniteSet(s[1].lines)
       /\ \A i \in DOMAIN s : /\ s[i].lines # {} /\ s[i].lines \subseteq s[1].lines
                              /\ s[i].lines \notin {NoFail, Exceeded, AlreadyFails}
                              /\ s[i].stable => s[i].failure # NoFail
  /\ \A causes \in Interceptions : IsFiniteSet(causes)
  /\ {NoFail, Exceeded, AlreadyFails, Absent} \cap Searches = {}

(* The texts are apart from each other, from failure ids and from causes.  *)
ASSUME TextsAssumption ==
  /\ {NoFail, Absent} \cap {Exceeded, AlreadyFails} = {}
  /\ IsFiniteSet(Ids) /\ Missing \notin Ids /\ Maximal \notin Ids \cup {Missing}
  /\ Flagged \notin Abstract

VARIABLES searches,    \* per thread, what findFlakySleeps.py has done
          intercepted, \* per thread and line, the causes in the interception report
          failConfigs, \* per failureID, its FailConfigs
          files,       \* is there a log with both times, are there all reports?
          pc,
          minSleep, explore, merged,  \* data frames of _work
          skipRow,     \* endedEarly of thread-skipped.csv
          noFails,     \* characteristics-no-fails.csv
          out,         \* flakerake-thread-lines-meta-next.csv
          flagged,     \* flaggedAPI-to-sline.csv
          leaves       \* pipe_in_tid_df, after the filters

input  == <<searches, intercepted, failConfigs, files>>
frames == <<minSleep, explore, merged>>
tables == <<skipRow, noFails, out, flagged, leaves>>
vars   == <<input, pc, frames, tables>>

-----------------------------------------------------------------------------
(* The reports the driver has written. *)

Tried(t) == IF searches[t] \in Searches THEN searches[t] ELSE <<>>

(* Rows of the exploration report.                                         *)
Explored ==
  UNION {{[thread |-> t, lines |-> Tried(t)[i].lines, failure |-> Tried(t)[i].failure, id |-> i] :
            i \in DOMAIN Tried(t)} : t \in Threads}

(* The shortest lists of every failure, see MinimalLines.                  *)
Minima(t) ==
  LET stable == {Tried(t)[i] : i \in {j \in DOMAIN Tried(t) : Tried(t)[j].stable}}
  IN  {[thread |-> t, lines |-> s.lines, failure |-> s.failure] :
         s \in {x \in stable : \A y \in stable : x.failure = y.failure
                                 => Cardinality(x.lines) <= Cardinality(y.lines)}}

(* Rows of the minimal sleep report.                                       *)
MinRows(t) ==
  CASE searches[t] = Absent -> {}
    [] searches[t] \in {Exceeded, AlreadyFails} ->
         {[thread |-> t, lines |-> searches[t], failure |-> searches[t]]}
    [] OTHER -> IF Minima(t) # {} THEN Minima(t)
                ELSE {[thread |-> t, lines |-> NoFail, failure |-> NoFail]}

MinimalReport == UNION {MinRows(t) : t \in Threads}
AllMinima     == UNION {Minima(t) : t \in Threads}

(* Rows of the cause report: naps of a thread are at lines of its list.    *)
Causes ==
  UNION {UNION {{[thread |-> t, line |-> l, cause |-> c] : c \in intercepted[t][l]} :
                  l \in Tried(t)[1].lines} :
           t \in {u \in Threads : Tried(u) # <<>>}}

(* Once the time is used up, the next thread has a row that says so, and   *)
(* the others have none.  A test that fails without naps has one row only. *)
(* A failure was matched with lists of the minimal report.                 *)
Init ==
  /\ searches \in [Threads -> Searches \cup {Exceeded, AlreadyFails, Absent}]
  /\ \A t \in Threads :
       /\ searches[t] = AlreadyFails => t = 1
       /\ searches[t] = Absent <=>
            t > 1 /\ searches[t - 1] \in {Absent, Exceeded, AlreadyFails}
       /\ t > 1 /\ searches[t] # Absent =>
            (searches[t - 1] \in Partial => searches[t] = Exceeded)
  /\ intercepted \in [Threads -> [Lines -> Interceptions]]
  /\ failConfigs \in [Ids -> SUBSET {[thread |-> m.thread, lines |-> m.lines] : m \in AllMinima}]
  /\ files \in SUBSET {"times", "reports"}
  /\ pc = "nofails"
  /\ minSleep = {} /\ explore = {} /\ merged = {}
  /\ skipRow = FALSE
  /\ noFails = {} /\ out = {} /\ flagged = {} /\ leaves = {}

Columns(table, fields) == {[f \in fields |-> r[f]] : r \in table}

(* A row with the columns of both.                                         *)
Both(r, s) == [f \in DOMAIN r \cup DOMAIN s |-> IF f \in DOMAIN r THEN r[f] ELSE s[f]]

(* a.merge(b)                                                              *)
Join(a, b) ==
  {Both(p[1], p[2]) : p \in {q \in a \X b :
     \A f \in DOMAIN q[1] \cap DOMAIN q[2] : q[1][f] = q[2][f]}}

(* Every row gets an index of its own, for which the row itself stands, and *)
(* is repeated for every line of its list.                                 *)
UnpackSleepylines(table) ==
  UNION {{Both(r, [configIdx |-> r, line |-> l]) : l \in r.lines} : r \in table}

-----------------------------------------------------------------------------
(* only-nofail.py *)

(* Slip: the failure is not among the columns of the minimal report.       *)
NeverFailedByThread ==
  {r \in Join(Columns(MinimalReport, {"thread"}), Explored) : r.failure = NoFail}

NeverFailed ==
  {r \in Join(Columns(MinimalReport, {"thread", "failure"}), Explored) : r.failure = NoFail}

(* Without times or reports, the test contributes nothing.                 *)
NoFailsProgram ==
  /\ pc = "nofails" /\ pc' = "times"
  /\ noFails' = IF files # {"times", "reports"} THEN {}
                ELSE Columns(Join(Causes, UnpackSleepylines(NeverFailed)),
                             {"thread", "failure", "cause", "line", "configIdx"})
  /\ UNCHANGED <<input, frames, skipRow, out, flagged, leaves>>

-----------------------------------------------------------------------------
(* _work of fk-grab-min-meta.py *)

(* A log that was cut off has no line with FlakeRakeEnd.                   *)
ExtractTime ==
  /\ pc = "times"
  /\ pc' = IF "times" \in files THEN "read" ELSE "missing"
  /\ UNCHANGED <<input, frames, tables>>

ReadReports ==
  /\ pc = "read"
  /\ IF "reports" \notin files THEN pc' = "missing" /\ UNCHANGED frames
     ELSE /\ pc' = "drop"
          /\ minSleep' = Columns(MinimalReport, {"thread", "lines"})
          /\ explore' = Explored /\ UNCHANGED merged
  /\ UNCHANGED <<input, tables>>

DropSpecial ==
  /\ pc = "drop" /\ pc' = "merge"
  /\ minSleep' = {r \in minSleep : r.lines \notin {NoFail, AlreadyFails, Exceeded}}
  /\ skipRow' = (\E r \in minSleep' : r.lines = Exceeded)
  /\ UNCHANGED <<input, explore, merged, noFails, out, flagged, leaves>>

FirstOfThread(table) == {r \in table : \A s \in table : s.thread = r.thread => r.id <= s.id}

(* Slip: what is not maximal is removed from the exploration before the    *)
(* lists of the minimal report are looked up in it.                        *)
MergeMinimalWithMaximal ==
  /\ pc = "merge"
  /\ merged' = Join(minSleep, FirstOfThread(explore))
  /\ pc' = IF merged' # {} THEN "outer" ELSE "missing"
  /\ UNCHANGED <<input, minSleep, explore, tables>>

(* Nothing may come out only if there was nothing to look up.              *)
MergeMinimal ==
  /\ pc = "merge"
  /\ merged' = Join(minSleep, explore)
  /\ pc' = IF merged' # {} THEN "outer" ELSE IF minSleep # {} THEN "raised" ELSE "missing"
  /\ UNCHANGED <<input, minSleep, explore, tables>>

(* The outer join with the first list of every thread tells which rows are *)
(* of minimal lists; then rows without a failure go.                       *)
MergeMaximal ==
  /\ pc = "outer" /\ pc' = "label"
  /\ explore' = FirstOfThread(explore)
  /\ merged' = Columns({Both(r, [min |-> r \in merged]) :
                          r \in {x \in merged \cup explore' : x.failure # NoFail}},
                       {"thread", "lines", "id", "min"})
  /\ UNCHANGED <<input, minSleep, tables>>

(* get_unpacked_matched_failures, for one method                           *)
MatchedRows ==
  UNION {{Both(c, [failureID |-> i]) : c \in failConfigs[i]} : i \in Ids}

(* The left join with the matched failures, and what its gaps are filled   *)
(* with.                                                                   *)
Label ==
  /\ pc = "label" /\ pc' = "unpack"
  /\ merged' = LET matched == Join(merged, MatchedRows)
                   others  == {r \in merged : ~ \E m \in MatchedRows :
                                                 m.thread = r.thread /\ m.lines = r.lines}
               IN  {[r EXCEPT !.failureID = IF r.min THEN @ ELSE Maximal] :
                      r \in matched \cup {Both(x, [failureID |-> Missing]) : x \in others}}
  /\ UNCHANGED <<input, minSleep, explore, tables>>

(* Lines that no nap was ever taken at have no cause, and drop out.        *)
Unpack ==
  /\ pc = "unpack" /\ pc' = "collect"
  /\ merged' = Columns(Join(Causes, UnpackSleepylines(merged)),
                       {"thread", "failureID", "id", "cause", "line", "configIdx", "min"})
  /\ UNCHANGED <<input, minSleep, explore, tables>>

-----------------------------------------------------------------------------
(* do_all of fk-grab-min-meta.py *)

(* Only tests with a matched failure are kept.                             *)
Collect ==
  /\ pc = "collect" /\ pc' = "filter"
  /\ flagged' = Columns({r \in merged : r.cause \notin Abstract}, {"cause", "line"})
  /\ out' = IF MatchedRows = {} THEN {}
            ELSE {[r EXCEPT !.cause = IF @ \in Abstract THEN @ ELSE Flagged] : r \in merged}
  /\ UNCHANGED <<input, frames, skipRow, noFails, leaves>>

Filter ==
  /\ pc = "filter" /\ pc' = "done"
  /\ leaves' = {r \in out : r.failureID # Missing}
  /\ UNCHANGED <<input, frames, skipRow, noFails, out, flagged>>

MinimalLeaves == {r \in leaves : r.failureID # Maximal}

(* Slip: the rows with other causes are not put back in by pd.concat.      *)
CauseToConfigFlaggedOnly(rows) ==
  Join(Columns({r \in rows : r.cause = Flagged}, {"failureID", "configIdx", "line"}), flagged)

(* Rows with the flagged API itself in place of FLAGGED_API.               *)
CauseToConfig(rows) ==
  {r \in rows : r.cause # Flagged}
  \cup Join(Columns({r \in rows : r.cause = Flagged},
                    {"failureID", "configIdx", "line"}), flagged)

Configs(rows) == {r.configIdx : r \in rows}

(* slineMin_size: how many rows a list has.                                *)
SlineSize(idx) == Cardinality({r \in leaves : r.min /\ r.configIdx = idx})

(* do_correlations: the lists of size 1, and how often a failure has each  *)
(* cause in one of them.                                                   *)
SingleLeaves == {r \in MinimalLeaves : SlineSize(r.configIdx) = 1}

CauseMatrix(failureID, cause) ==
  Cardinality({r \in CauseToConfig(SingleLeaves) : r.failureID = failureID /\ r.cause = cause})

(* cause_proportion_count_all_projects, of all lists.                      *)
ConfigCount(cause) ==
  Cardinality(Configs({r \in CauseToConfig(MinimalLeaves) : r.cause = cause}))

(* slineCauseToUniqFailure_count                                           *)
FailureCount(cause) ==
  Cardinality({r.failureID : r \in {x \in CauseToConfig(MinimalLeaves) : x.cause = cause}})

(* get_all_intercepted_causes: those of lists that made the test fail, and *)
(* those of threads that never failed.                                     *)
AllCauses == {r.cause : r \in noFails} \cup {r.cause : r \in CauseToConfig(MinimalLeaves)}

(* safety_checks: the threads, and the lists, of both sides.               *)
Canary ==
  [threads |-> [matched |-> {r.thread : r \in MatchedRows}, out |-> {r.thread : r \in out}],
   configs |-> [matched |-> Cardinality(MatchedRows),
                out |-> Cardinality(Configs({r \in out : r.min}))]]

-----------------------------------------------------------------------------
Next ==
  \/ NoFailsProgram
  \/ ExtractTime \/ ReadReports \/ DropSpecial \/ MergeMinimal \/ MergeMaximal \/ Label \/ Unpack
  \/ Collect \/ Filter

Spec == Init /\ [][Next]_vars

-----------------------------------------------------------------------------
Labels(m) ==
  LET ids == {i \in Ids : [thread |-> m.thread, lines |-> m.lines] \in failConfigs[i]}
  IN  IF ids = {} THEN {Missing} ELSE ids

(* Every minimal list whose lines were intercepted is in the table, whole, *)
(* for each failure it was matched with, and called minimal; and what is   *)
(* called minimal is one of these lists ("Before removing minimal from     *)
(* min_explore, merge it min_sleep", fk-grab-min-meta.py:262).  They are   *)
(* all in the exploration report, so that the code that saves both tables  *)
(* and raises ValueError is never reached, whatever the driver could and   *)
(* could not finish.                                                       *)
NothingMinimalIsLost ==
  LET rowsOf(idx) == {r \in merged : r.configIdx = idx}
      linesOf(idx) == {r.line : r \in rowsOf(idx)}
      hit(m) == {l \in m.lines : intercepted[m.thread][l] # {}}
      minimal == {r \in merged : r.min}
  IN  /\ pc # "raised"
      /\ pc = "collect" =>
           /\ \A m \in AllMinima : hit(m) # {} => \A i \in Labels(m) :
                \E idx \in Configs(minimal) :
                  /\ linesOf(idx) = hit(m)
                  /\ \A r \in rowsOf(idx) : r.min /\ r.thread = m.thread /\ r.failureID = i
           /\ \A idx \in Configs(minimal) : \E m \in AllMinima :
                linesOf(idx) = hit(m) /\ \A r \in rowsOf(idx) : r.thread = m.thread

(* "out configs will have more actually, because matched failures          *)
(* condenses it" (fk-grab-min-meta.py:1174): threads of matched failures   *)
(* are in the table, and no fewer minimal lists than were matched, not     *)
(* counting lists at whose lines no nap was ever taken.                    *)
MatchedAreCounted ==
  LET hit == {m \in MatchedRows : \E l \in m.lines : intercepted[m.thread][l] # {}}
  IN  pc = "done" =>
        /\ {m.thread : m \in hit} \subseteq Canary.threads.out
        /\ Cardinality(hit) <= Canary.configs.out

(* What a thread napped for in lists that made it fail is counted for each *)
(* of these lists and each of their failures, and an abstract cause for no *)
(* others.  A flagged API may be: it was replaced in the table, and comes  *)
(* back by the line alone (fk-grab-min-meta.py:587, 739).  All of this is  *)
(* among the intercepted causes, and so is what the threads that never     *)
(* failed have napped for.                                                 *)
CausesAreCounted ==
  LET napped(rows, cause) ==
        {r \in rows : cause \in intercepted[r.configIdx.thread][r.line]}
      lists(cause)    == Cardinality(Configs(napped(MinimalLeaves, cause)))
      failures(cause) == Cardinality({r.failureID : r \in napped(MinimalLeaves, cause)})
      single(i, cause) ==
        Cardinality({r \in napped(SingleLeaves, cause) : r.failureID = i})
      passing == {t \in Threads : /\ Tried(t) # <<>>
                                  /\ \A k \in DOMAIN Tried(t) : Tried(t)[k].failure = NoFail}
  IN  pc = "done" =>
        /\ \A cause \in UNION Interceptions :
             /\ ConfigCount(cause) >= lists(cause)
             /\ FailureCount(cause) >= failures(cause)
             /\ \A i \in Ids : CauseMatrix(i, cause) >= single(i, cause)
             /\ cause \in Abstract =>
                  /\ ConfigCount(cause) = lists(cause)
                  /\ FailureCount(cause) = failures(cause)
                  /\ \A i \in Ids : CauseMatrix(i, cause) = single(i, cause)
             /\ lists(cause) > 0 => cause \in AllCauses
        /\ {z.cause : z \in {x \in Causes : x.thread \in passing}} \subseteq AllCauses

(* The two programs are about different threads: one that never failed is  *)
(* in the table of only-nofail.py and in no list of fk-grab-min-meta.py,   *)
(* one that failed stably is only in the latter.                           *)
NeverFailedIsApart ==
  LET seen(t) == Tried(t) # <<>> /\ \E l \in Tried(t)[1].lines : intercepted[t][l] # {}
      failing == {r.thread : r \in merged}
      passing == {r.thread : r \in noFails}
  IN  pc = "collect" =>
        /\ failing \cap passing = {}
        /\ \A t \in Threads : seen(t) =>
             /\ Tried(t)[1].stable => t \in failing
             /\ Tried(t)[1].failure = NoFail => t \in passing
        /\ \A t \in passing : Minima(t) = {}
=============================================================================
