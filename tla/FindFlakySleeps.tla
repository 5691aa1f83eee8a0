--------------------------- MODULE FindFlakySleeps ---------------------------
(***************************************************************************)
(* The driver findFlakySleeps.py with --testMethodsFile: test method by    *)
(* test method, the runs without sleeping that find threads and lines      *)
(* (threads_to_slow), the search thread by thread (find_all_naptime_lines) *)
(* and the reports (main).                                                 *)
(*                                                                         *)
(* A call of do_run(0) is one step, and so is a call of                    *)
(* minimal_sleepy_lines (see SleepyRun and MinimalLines): of a search the  *)
(* driver sees the pairs it returns, a TimeoutError or another exception.  *)
(* With --no_sleep or --minimalizing_method hardcoded nothing is searched. *)
(* An operator whose comment begins with "Slip" is a plausible bug; no     *)
(* action uses it.                                                         *)
(***************************************************************************)
EXTENDS Integers, FiniteSets

CONSTANTS NumMethods,  \* rows of the testMethodsFile
          Attempts,    \* NUM_TRIES
          Tids,        \* ids of threads, with MainId among them
          MainId,      \* "<main>"
          Lines,       \* lines threads can hit
          NoTarget,    \* NO_TARGET_HIT:NO_TARGET_HIT:NO_TARGET_HIT
          HardCoded,   \* the line that hard_code returns
          Nobody       \* no thread

ASSUME DriverAssumption ==
  /\ NumMethods \in Nat \ {0}
  /\ Attempts \in Nat \ {0}
  /\ MainId \in Tids /\ Nobody \notin Tids
  /\ NoTarget \notin Lines /\ HardCoded \notin Lines \cup {NoTarget}

VARIABLES mode,          \* the option: "search", "no_sleep" or "hardcoded"
          phase,
          method,        \* row of the file at hand
          attempt, failures,     \* of threads_to_slow
          maximalLines,  \* sha_to_maximal_lines; {} for a thread without entry
          tidsLeft,      \* unique_tids still to be analysed
          expired,       \* is the time for the test method used up?
          out,           \* find_all_naptime_lines: rows of the method at hand
          csv,           \* rows in the minimal sleep report
          sideReports,   \* have the other four reports been written?
          reached,       \* history: per method, the hits its probe runs wrote
          probed,        \* history: per method, the threads found
          found          \* history: per method, the pairs searches returned

probe == <<attempt, failures>>
past  == <<reached, probed, found>>
vars  == <<mode, phase, method, probe, maximalLines, tidsLeft, expired, out,
           csv, sideReports, past>>

Methods == 1 .. NumMethods

(* A row: what was found, for which thread, with which lines.              *)
Kinds == {"failure", "NoFail", "AlreadyFailsStably", "Exceeded", "no_sleep_arg"}
Row(kind, t, ls) == [kind |-> kind, tid |-> t, lines |-> ls]
Rows == {Row(k, t, ls) : k \in Kinds, t \in Tids \cup {Nobody},
                         ls \in SUBSET (Lines \cup {NoTarget, HardCoded})}

TypeOK ==
  /\ mode \in {"search", "no_sleep", "hardcoded"}
  /\ phase \in {"setup", "probe", "search", "write", "reports", "done", "crashed"}
  /\ method \in 1 .. NumMethods + 1
  /\ attempt \in 0 .. Attempts /\ failures \in 0 .. attempt
  /\ maximalLines \in [Tids -> SUBSET (Lines \cup {NoTarget})]
  /\ tidsLeft \subseteq Tids
  /\ expired \in BOOLEAN /\ sideReports \in BOOLEAN
  /\ out \subseteq Rows
  /\ csv \in [Methods -> SUBSET Rows]

Init ==
  /\ mode \in {"search", "no_sleep", "hardcoded"}
  /\ phase = "setup" /\ method = 1
  /\ attempt = 0 /\ failures = 0
  /\ maximalLines = [t \in Tids |-> {}]
  /\ tidsLeft = {}
  /\ expired = FALSE
  /\ out = {}
  /\ csv = [m \in Methods |-> {}]
  /\ sideReports = FALSE
  /\ reached = [m \in Methods |-> {}]
  /\ probed = [m \in Methods |-> {}]
  /\ found = [m \in Methods |-> {}]

-----------------------------------------------------------------------------
(* setup: Maven may fail for a test method, and then the program ends.     *)
Setup ==
  /\ phase = "setup" /\ method <= NumMethods
  /\ \/ phase' = "probe" /\ attempt' = 0 /\ failures' = 0 /\ out' = {} /\ expired' = FALSE
     \/ phase' = "crashed" /\ UNCHANGED <<probe, out, expired>>
  /\ UNCHANGED <<method, maximalLines, tidsLeft, csv, sideReports, past>>

(* One attempt of threads_to_slow: whatever its exit code, the hits in     *)
(* sleepCalls.0 are added to the lines of their threads.                   *)
Added(hits) ==
  [t \in Tids |-> maximalLines[t] \cup {h[2] : h \in {g \in hits : g[1] = t}}]

(* Slip: the lines of the last attempt replace those of the ones before.   *)
ProbeReplaces(hits, fails) ==
  /\ phase = "probe" /\ attempt < Attempts
  /\ attempt' = attempt + 1
  /\ failures' = failures + (IF fails THEN 1 ELSE 0)
  /\ maximalLines' = [t \in Tids |-> {h[2] : h \in {g \in hits : g[1] = t}}]
  /\ reached' = [reached EXCEPT ![method] = @ \cup hits]
  /\ UNCHANGED <<phase, method, tidsLeft, expired, out, csv, sideReports, probed, found>>

Probe(hits, fails) ==
  /\ phase = "probe" /\ attempt < Attempts
  /\ attempt' = attempt + 1
  /\ failures' = failures + (IF fails THEN 1 ELSE 0)
  /\ maximalLines' = Added(hits)
  /\ reached' = [reached EXCEPT ![method] = @ \cup hits]
  /\ UNCHANGED <<phase, method, tidsLeft, expired, out, csv, sideReports, probed, found>>

(* threads_to_slow raises, because a majority of the attempts failed or    *)
(* because do_run did: any exception makes the test method one that        *)
(* "AlreadyFailsStably".                                                   *)
AlreadyFails ==
  /\ phase = "probe"
  /\ attempt < Attempts \/ 2 * failures > Attempts
  /\ out' = {Row("AlreadyFailsStably", Nobody, {})}
  /\ phase' = "write"
  /\ UNCHANGED <<method, probe, maximalLines, tidsLeft, expired, csv, sideReports, past>>

Known == {t \in Tids : maximalLines[t] # {}}

(* Slip: no thread is made up for a test without interceptions.            *)
ThreadsFoundNoEdge ==
  /\ phase = "probe" /\ attempt = Attempts
  /\ ~ (2 * failures > Attempts)
  /\ tidsLeft' = Known
  /\ probed' = [probed EXCEPT ![method] = tidsLeft']
  /\ phase' = "search"
  /\ UNCHANGED <<method, probe, maximalLines, expired, out, csv, sideReports, reached, found>>

(* The threads to search; a test without any is searched on main.          *)
ThreadsFound ==
  /\ phase = "probe" /\ attempt = Attempts
  /\ ~ (2 * failures > Attempts)
  /\ \/ Known # {} /\ tidsLeft' = Known /\ UNCHANGED maximalLines
     \/ /\ Known = {}
        /\ tidsLeft' = {MainId}
        /\ maximalLines' = [maximalLines EXCEPT ![MainId] = {NoTarget}]
  /\ probed' = [probed EXCEPT ![method] = tidsLeft']
  /\ phase' = "search"
  /\ UNCHANGED <<method, probe, expired, out, csv, sideReports, reached, found>>

-----------------------------------------------------------------------------
(* The search for one thread.                                              *)

Searching(t) == phase = "search" /\ t \in tidsLeft

(* What is returned for a thread becomes its rows.                         *)
Returned(t, lists) ==
  /\ out' = out \cup (IF lists = {}
                      THEN {Row("NoFail", t, {})}
                      ELSE {Row("failure", t, ls) : ls \in lists})
  /\ found' = [found EXCEPT ![method] = @ \cup ({t} \X lists)]
  /\ tidsLeft' = tidsLeft \ {t}
  /\ UNCHANGED <<phase, method, probe, maximalLines, csv, sideReports, reached, probed>>

(* minimal_sleepy_lines returns lists of lines, all of them or those found *)
(* when the time ran out, or none.                                         *)
SearchReturns(t, lists, late) ==
  /\ Searching(t) /\ mode = "search" /\ ~ expired
  /\ lists = {} => ~ late
  /\ Returned(t, lists)
  /\ expired' = late

(* hard_code returns the same pair for every thread, without a run.        *)
HardCode(t) ==
  /\ Searching(t) /\ mode = "hardcoded"
  /\ Returned(t, {{HardCoded}})
  /\ UNCHANGED expired

(* --no_sleep: a row that only names the thread.                           *)
NoSleepRow(t) ==
  /\ Searching(t) /\ mode = "no_sleep"
  /\ out' = out \cup {Row("no_sleep_arg", t, {})}
  /\ tidsLeft' = tidsLeft \ {t}
  /\ UNCHANGED <<phase, method, probe, maximalLines, expired, csv, sideReports, past>>

(* Slip: the rows of the threads before are dropped.                       *)
SearchExceedsDrops(t) ==
  /\ Searching(t) /\ mode = "search"
  /\ out' = {Row("Exceeded", t, {})}
  /\ tidsLeft' = {} /\ expired' = TRUE
  /\ phase' = "write"
  /\ UNCHANGED <<method, probe, maximalLines, csv, sideReports, past>>

(* It raises TimeoutError, at the latest for the thread after one that got *)
(* partial results: the threads that are left are given up.                *)
SearchExceeds(t) ==
  /\ Searching(t) /\ mode = "search"
  /\ out' = out \cup {Row("Exceeded", t, {})}
  /\ tidsLeft' = {} /\ expired' = TRUE
  /\ phase' = "write"
  /\ UNCHANGED <<method, probe, maximalLines, csv, sideReports, past>>

(* It raises anything else, which nothing catches.                         *)
SearchCrashes(t) ==
  /\ Searching(t) /\ mode = "search"
  /\ phase' = "crashed"
  /\ UNCHANGED <<method, probe, maximalLines, tidsLeft, expired, out, csv,
                 sideReports, past>>

SearchEnds ==
  /\ phase = "search" /\ tidsLeft = {}
  /\ phase' = "write"
  /\ UNCHANGED <<method, probe, maximalLines, tidsLeft, expired, out, csv,
                 sideReports, past>>

-----------------------------------------------------------------------------
(* Slip: the end of the file goes unnoticed.                               *)
WriteRowsNoEnd ==
  /\ phase = "write"
  /\ csv' = [csv EXCEPT ![method] = out]
  /\ method' = method + 1
  /\ phase' = "setup"
  /\ UNCHANGED <<probe, maximalLines, tidsLeft, expired, out, sideReports, past>>

(* The rows of a test method are written and flushed.                      *)
WriteRows ==
  /\ phase = "write"
  /\ csv' = [csv EXCEPT ![method] = out]
  /\ method' = method + 1
  /\ phase' = IF method = NumMethods THEN "reports" ELSE "setup"
  /\ UNCHANGED <<probe, maximalLines, tidsLeft, expired, out, sideReports, past>>

(* The other reports are held in memory up to here.                        *)
WriteSideReports ==
  /\ phase = "reports"
  /\ sideReports' = TRUE
  /\ phase' = "done"
  /\ UNCHANGED <<method, probe, maximalLines, tidsLeft, expired, out, csv, past>>

Step ==
  \/ Setup
  \/ \E hits \in SUBSET (Tids \X Lines), fails \in BOOLEAN : Probe(hits, fails)
  \/ AlreadyFails \/ ThreadsFound
  \/ \E t \in tidsLeft :
       \/ \E lists \in SUBSET ((SUBSET maximalLines[t]) \ {{}}), late \in BOOLEAN :
            SearchReturns(t, lists, late)
       \/ HardCode(t) \/ NoSleepRow(t)
       \/ SearchExceeds(t)
       \/ SearchCrashes(t)
  \/ SearchEnds \/ WriteRows \/ WriteSideReports

Next == Step /\ UNCHANGED mode

Spec == Init /\ [][Next]_vars

(* One thread, and every run of a test is bounded by a timeout.            *)
FairSpec == Spec /\ WF_vars(Next)

-----------------------------------------------------------------------------
(* The report of a test method that was finished, in whatever way the      *)
(* program ends later, tells of every thread found for it: a failure, that *)
(* there is none, or that the time was used up ...                         *)
Finished(m) == m < method \/ phase \in {"reports", "done"}

EveryThreadIsAccountedFor ==
  \A m \in {k \in Methods : Finished(k)} :
    \/ \E r \in csv[m] : r.kind = "AlreadyFailsStably"
    \/ /\ probed[m] # {}
       /\ \A t \in probed[m] :
            \E r \in csv[m] : r.tid = t \/ r.kind = "Exceeded"

(* ... and holds every pair a search returned, those of the threads before *)
(* the time ran out among them ("so if we get a flaky_fail_attempt we have *)
(* at least some data", line 835).                                         *)
FoundPairsAreReported ==
  \A m \in {k \in Methods : Finished(k)} :
    \A p \in found[m] : Row("failure", p[1], p[2]) \in csv[m]

(* "We want all lines that this thread would have reached" (line 351):     *)
(* what any attempt for the test method has hit is given to the searches   *)
(* of that method.                                                         *)
NoReachedLineIsMissing ==
  phase = "search" =>
    \A h \in reached[method] : h[1] \in probed[method] /\ h[2] \in maximalLines[h[1]]

(* The driver gets through its file or ends with an exception.             *)
Ends == <>(phase \in {"done", "crashed"})

(* The same line the other way round: a thread is only put to sleep at     *)
(* lines that it has reached in this test.                                 *)
OnlyReachedLines ==
  phase = "search" =>
    \A t \in probed[method] :
      maximalLines[t] \subseteq {h[2] : h \in {g \in reached[method] : g[1] = t}}
                                \cup {NoTarget}
=============================================================================
