---------------------------- MODULE Reproduction ----------------------------
(***************************************************************************)
(* Reproducing what a minimal sleep report says: findFlakySleeps.py with   *)
(* --reproduceFailureFile, called for the whole report, or by              *)
(* reproduce_reports.py once for every row (variable split), with the      *)
(* reports of the single rows put together in an accumulator file.         *)
(*                                                                         *)
(* A sample is one do_run and one get_failure_str.  The limit on the       *)
(* analysis time is left out: reproduce mode sets its begin to ten times   *)
(* the time of day (line 759), so time spent is negative and the limit     *)
(* never applies.  --logging debug, which keeps internal/, is left out.    *)
(* Special options for single projects are left out.  An operator whose    *)
(* comment begins with "Slip" is a plausible bug; no action uses it.       *)
(***************************************************************************)
EXTENDS Integers, Sequences, FiniteSets

CONSTANTS NumRows,   \* rows of the report to be reproduced
          Runs,      \* NUM_TRIES
          Failures,  \* what a test runner can leave in failure.log
          Timeout, Unlogged, NoFail,   \* as in StableBatch
          Header     \* first line of a reproduction report

ASSUME ReproductionAssumption ==
  /\ NumRows \in Nat \ {0}
  /\ Runs \in Nat \ {0}
  /\ NoFail \notin Failures \cup {Timeout, Unlogged}

VARIABLES kinds,       \* of the rows, see Init
          split,       \* is a driver started for every row?
          phase,
          row,         \* row at hand
          failureLog,  \* what get_failure_str() returns
          samples,     \* sample_count_failure_str_pairs of the row at hand
          report,      \* lines of the driver's reproduction report
          accum,       \* lines of the accumulator file
          final,       \* lines of the accumulator's .csv
          again,       \* has the program been called a second time?
          ended        \* history: per row, how its runs ended (see Restart)

input == <<kinds, split>>
files == <<report, accum, final>>
vars  == <<input, phase, row, failureLog, samples, files, again, ended>>

InputRows == 1 .. NumRows
Logged    == Failures \cup {Timeout, Unlogged}
Line(r, i, f) == [row |-> r, idx |-> i, failure |-> f]
SampleLines == {Line(r, i, f) : r \in InputRows, i \in 0 .. Runs - 1,
                                f \in Logged \cup {NoFail}}
FileLines == {Header} \cup SampleLines

(* The header line has column names where the others have numbers.         *)
ASSUME HeaderAssumption == Header \notin SampleLines

TypeOK ==
  /\ kinds \in [InputRows -> {"failure", "NoFail", "Exceeded"}]
  /\ split \in BOOLEAN /\ again \in BOOLEAN
  /\ phase \in {"next", "start", "setup", "sample", "collect", "done", "crashed"}
  /\ row \in 1 .. NumRows + 1
  /\ failureLog \in Logged \cup {NoFail}
  /\ samples \in Seq(Logged \cup {NoFail}) /\ Len(samples) <= Runs
  /\ report \in Seq(FileLines) /\ accum \in Seq(FileLines) /\ final \in Seq(FileLines)
  /\ ended \in [InputRows -> Seq(Logged \cup {NoFail})]

(* A row has a failure with its lines, or "NoFail", or tells that the time *)
(* for the test method was exceeded; this last one has text for Minutes.   *)
Init ==
  /\ kinds \in [InputRows -> {"failure", "NoFail", "Exceeded"}]
  /\ split \in BOOLEAN
  /\ phase = IF split THEN "next" ELSE "start"
  /\ row = 1
  /\ failureLog = NoFail /\ samples = <<>>
  /\ report = <<>> /\ accum = <<>> /\ final = <<>>
  /\ again = FALSE
  /\ ended = [r \in InputRows |-> <<>>]

-----------------------------------------------------------------------------
(* reproduce_reports.py *)

(* setup_reproduction_run returns at once.                                 *)
Skip ==
  /\ phase = "next" /\ row <= NumRows /\ kinds[row] = "NoFail"
  /\ row' = row + 1
  /\ UNCHANGED <<input, phase, failureLog, samples, files, again, ended>>

(* Clone and checkout are not checked; get_module_path may raise.          *)
Prepare ==
  /\ phase = "next" /\ row <= NumRows /\ kinds[row] # "NoFail"
  /\ phase' \in {"start", "crashed"}
  /\ UNCHANGED <<input, row, failureLog, samples, files, again, ended>>

(* Slip: ">" for ">>".                                                     *)
CollectOverwrites ==
  /\ phase = "collect"
  /\ accum' = report
  /\ phase' = "next" /\ row' = row + 1
  /\ UNCHANGED <<input, failureLog, samples, report, final, again, ended>>

(* The report is appended to the accumulator with its header.              *)
Collect ==
  /\ phase = "collect"
  /\ accum' = accum \o report
  /\ phase' = "next" /\ row' = row + 1
  /\ UNCHANGED <<input, failureLog, samples, report, final, again, ended>>

(* Only the first line is ever added to reproduction_report_lines.  If no  *)
(* row was reproduced there is no file to open.                            *)
RemoveHeaders ==
  /\ phase = "next" /\ row > NumRows
  /\ IF accum = <<>> THEN phase' = "crashed" /\ UNCHANGED final
                     ELSE phase' = "done" /\ final' = <<accum[1]>>
  /\ UNCHANGED <<input, row, failureLog, samples, report, accum, again, ended>>

-----------------------------------------------------------------------------
(* findFlakySleeps.py --reproduceFailureFile *)

(* create_dirs removes what is in internal/.                               *)
CreateDirs ==
  /\ phase = "start"
  /\ failureLog' = NoFail

(* install_project: from the root of the project down to the module, every *)
(* directory with a pom.xml is installed; the first failure raises.        *)
Install ==
  \/ phase' = "setup" /\ report' = <<Header>>
  \/ phase' = "crashed" /\ UNCHANGED report

StartDriver ==
  /\ CreateDirs /\ Install
  /\ UNCHANGED <<input, row, samples, accum, final, again, ended>>

(* Slip: internal/ is created if need be, but not emptied.                 *)
SetupKeepsInternal ==
  /\ phase = "setup"
  /\ \/ kinds[row] # "Exceeded" /\ phase' = "sample"
     \/ phase' = "crashed"
  /\ samples' = <<>> /\ ended' = [ended EXCEPT ![row] = <<>>]
  /\ UNCHANGED <<input, row, failureLog, files, again>>

(* setup empties internal/; Maven may fail, and float(row['Minutes'])      *)
(* raises for a row that has no number there.                              *)
Setup ==
  /\ phase = "setup"
  /\ \/ kinds[row] # "Exceeded" /\ phase' = "sample"
     \/ phase' = "crashed"
  /\ failureLog' = NoFail
  /\ samples' = <<>> /\ ended' = [ended EXCEPT ![row] = <<>>]
  /\ UNCHANGED <<input, row, files, again>>

(* What a run that ends in f leaves in failure.log.                        *)
LogAfter(f) ==
  CASE f = NoFail -> failureLog
    [] f = Unlogged /\ failureLog # NoFail -> failureLog
    [] OTHER -> f

Sample(f) ==
  /\ phase = "sample" /\ Len(samples) < Runs
  /\ failureLog' = LogAfter(f)
  /\ samples' = Append(samples, LogAfter(f))
  /\ ended' = [ended EXCEPT ![row] = Append(@, f)]
  /\ UNCHANGED <<input, phase, row, files, again>>

Block(r, failures) == [i \in DOMAIN failures |-> Line(r, i - 1, failures[i])]

(* Slip: the samples there are are written all the same.                   *)
SampleRaisesLate ==
  /\ phase = "sample" /\ Len(samples) < Runs
  /\ report' = report \o Block(row, samples)
  /\ phase' = "crashed"
  /\ UNCHANGED <<input, row, failureLog, samples, accum, final, again, ended>>

(* do_run raises: the JVM did not even create its files (see SleepyRun).   *)
SampleRaises ==
  /\ phase = "sample" /\ Len(samples) < Runs
  /\ phase' = "crashed"
  /\ UNCHANGED <<input, row, failureLog, samples, files, again, ended>>

WriteRows ==
  /\ phase = "sample" /\ Len(samples) = Runs
  /\ report' = report \o Block(row, samples)
  /\ IF split THEN phase' = "collect" /\ UNCHANGED row
     ELSE IF row = NumRows THEN phase' = "done" /\ UNCHANGED row
     ELSE phase' = "setup" /\ row' = row + 1
  /\ UNCHANGED <<input, failureLog, samples, accum, final, again, ended>>

-----------------------------------------------------------------------------
(* The program is called again after a crash.  The accumulator is still    *)
(* there.                                                                  *)
Restart ==
  /\ phase = "crashed" /\ ~ again
  /\ again' = TRUE
  /\ phase' = IF split THEN "next" ELSE "start"
  /\ row' = 1
  /\ UNCHANGED <<input, failureLog, samples, files, ended>>

Next ==
  \/ Skip \/ Prepare \/ Collect \/ RemoveHeaders
  \/ StartDriver \/ Setup \/ SampleRaises \/ WriteRows
  \/ \E f \in Logged \cup {NoFail} : Sample(f)
  \/ Restart

Spec == Init /\ [][Next]_vars

-----------------------------------------------------------------------------
(* A row is reproduced Runs times or has no line: also after a crash in    *)
(* the middle of its samples, and with the accumulator of the call before, *)
(* every line is one of Runs lines, in order and next to each other, so a  *)
(* rate of failures computed from a report is one of Runs samples.         *)
ComeTogether(lines) ==
  \A k \in DOMAIN lines :
    lines[k] # Header =>
      LET first == k - lines[k].idx
      IN  \A i \in 0 .. Runs - 1 :
            /\ first + i \in DOMAIN lines
            /\ lines[first + i] # Header
            /\ lines[first + i].row = lines[k].row /\ lines[first + i].idx = i

SamplesComeTogether == ComeTogether(report) /\ ComeTogether(accum)

(* The failure given for a sample made this sample's run fail or an        *)
(* earlier one of the same row: never a run for another row or test.       *)
FailuresAreOfTheirRow ==
  \A k \in DOMAIN report :
    report[k] # Header =>
      LET l    == report[k]
          runs == 1 .. l.idx + 1
      IN  /\ runs \subseteq DOMAIN ended[l.row]
          /\ l.failure # NoFail => \E j \in runs : ended[l.row][j] = l.failure
          /\ l.failure = NoFail => \A j \in runs : ended[l.row][j] = NoFail

SamplesOf(lines, r) == {k \in DOMAIN lines : lines[k] # Header /\ lines[k].row = r}

(* At the end every row that is to be reproduced has its samples in the    *)
(* file the lines are collected in; twice if the script was called twice.  *)
EveryRowReproduced ==
  phase = "done" =>
    LET lines == IF split THEN accum ELSE report
        rows  == {r \in InputRows : split => kinds[r] # "NoFail"}
        times(r) == Cardinality(SamplesOf(lines, r))
    IN  \A r \in InputRows :
          IF r \in rows THEN times(r) \in {Runs} \cup (IF split /\ again THEN {2 * Runs} ELSE {})
                        ELSE times(r) = 0

(* ":return whether we can stable reproduce the failure."                  *)
(* (findFlakySleeps.py:533): if a majority of the samples of a row report  *)
(* a failure, a majority of its runs failed.                               *)
ReproducedIsStable ==
  \A r \in InputRows :
    LET reported == SelectSeq(report, LAMBDA l : l # Header /\ l.row = r /\ l.failure # NoFail)
        failed   == SelectSeq(ended[r], LAMBDA f : f # NoFail)
    IN  2 * Len(reported) > Runs => 2 * Len(failed) > Runs
=============================================================================
