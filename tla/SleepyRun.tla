------------------------------ MODULE SleepyRun ------------------------------
(***************************************************************************)
(* do_run of findFlakySleeps.py, the JVM it starts (SleepyTestRunner), and *)
(* who calls it, test method by test method: threads_to_slow for its runs  *)
(* without naps (the probes) and then is_stable_failure in the search.     *)
(* Driver and JVM run side by side and share three files under             *)
(* sleepy-records/internal.                                                *)
(*                                                                         *)
(* At a timeout the driver kills the shell it started; the JVM may survive *)
(* that as an orphan until killall, and goes on writing to the files.  A   *)
(* probe whose files are missing never gets to killall, and its orphan     *)
(* lives on into the next test method.                                     *)
(*                                                                         *)
(* Runs are numbered through, probes too: the number stands for the JVM.   *)
(* Time is counted in ticks.  That the timeout is rounded up to a second   *)
(* is left out, and so is the logging level debug, at which setup removes  *)
(* nothing.  An operator whose comment begins with "Slip" is a plausible   *)
(* bug; no action uses it.                                                 *)
(***************************************************************************)
EXTENDS Integers, FiniteSets

CONSTANTS Runs,       \* NUM_TRIES
          Failures,   \* stack traces a failing test can have
          Timeout, Unlogged, NoFail,   \* as in StableBatch
          Blank,      \* what get_failure_str says of an empty failure.log
          Candidate,  \* candidate_dynamic_timeout_ms of a run with naps
          ProbeTimeout,   \* ... and of a probe
          Budget,     \* max_test_method_analysis_time_ms
          MaxRuns     \* bound on the runs modelled

ASSUME SleepyRunAssumption ==
  /\ Runs \in Nat \ {0}
  /\ Candidate \in Nat \ {0} /\ ProbeTimeout \in Nat \ {0}
  /\ Budget \in Nat
  /\ MaxRuns \in Nat
  /\ NoFail \notin Failures \cup {Blank, Timeout, Unlogged}

Traces == Failures \cup {Blank}
Logged == Traces \cup {Timeout, Unlogged}
RunIds == 1 .. MaxRuns

(* A row of the cause report: the run it is of, and whether it was written *)
(* when the driver had read the file of that run.                          *)
Row == [of : RunIds, late : BOOLEAN]

VARIABLES phase,       \* of the test method: "probe" or "search"
          pc,          \* where the driver is
          probes, probeFails,  \* attempt and failures of threads_to_slow
          run, fails,  \* of the batch (is_stable_failure)
          count,       \* number of the run at hand
          clock,       \* ticks since max_test_method_analysis_time_ms_begin_time
          deadline,    \* when the run at hand times out
          whole,       \* ~ test_method_total_analysis_timeout
          code,        \* what do_run is about to return
          raising,     \* is TimeoutError pending while finally runs?
          jvm,         \* where the JVM of each run is
          exit,        \* exit code of the run at hand, when its JVM is gone
          failureLog,  \* failure.log
          shaFile,     \* does shaToStackTrace.csv exist?
          writers,     \* the JVMs that opened causeToInterception.csv; if it
                       \* does not exist, {}
          causeRows,   \* its rows
          taken,       \* cause_to_interception: <<run number, row>>
          sleepy,      \* history: the runs that were given lines to nap at
          began,       \* history: when the run at hand was started
          wrote,       \* history: was failure.log written in this run?
          oldLog,      \* history: failure.log before the run at hand
          seen         \* history: per failure, the runs of the batch it ended

trial == <<probes, probeFails>>
batch == <<run, fails, seen>>
timer == <<deadline, whole, began>>
procs == <<jvm, exit, sleepy>>
files == <<failureLog, shaFile, writers, causeRows>>
past  == <<wrote, oldLog>>
vars  == <<phase, pc, trial, batch, count, clock, timer, code, raising, procs, files,
           taken, past>>

JvmStates == {"gone", "boot", "init", "test", "log", "logged"}

TypeOK ==
  /\ phase \in {"probe", "search"}
  /\ pc \in {"between", "waiting", "mark", "sha", "cause", "kill", "outOfTime", "gaveUp",
             "crashed"}
  /\ probes \in 0 .. Runs /\ probeFails \in 0 .. probes
  /\ run \in 0 .. Runs /\ fails \in 0 .. run
  /\ count \in 0 .. MaxRuns
  /\ clock \in 0 .. Budget + 1
  /\ deadline \in 0 .. Budget
  /\ whole \in BOOLEAN /\ raising \in BOOLEAN
  /\ code \in {0, 1337, 1338}
  /\ jvm \in [RunIds -> JvmStates]
  /\ exit \in {0, 1337}
  /\ failureLog \in Logged \cup {NoFail}
  /\ shaFile \in BOOLEAN
  /\ writers \subseteq RunIds /\ sleepy \subseteq RunIds
  /\ causeRows \subseteq Row
  /\ taken \subseteq RunIds \X Row

(* setup was called for the first test method.                             *)
Init ==
  /\ phase = "probe" /\ pc = "between"
  /\ probes = 0 /\ probeFails = 0
  /\ run = 0 /\ fails = 0 /\ count = 0
  /\ clock = 0 /\ deadline = 0 /\ whole = TRUE /\ began = 0
  /\ code = 0 /\ raising = FALSE
  /\ jvm = [n \in RunIds |-> "gone"] /\ exit = 0 /\ sleepy = {}
  /\ failureLog = NoFail /\ shaFile = FALSE
  /\ writers = {} /\ causeRows = {}
  /\ taken = {}
  /\ wrote = FALSE /\ oldLog = NoFail
  /\ seen = [f \in Logged |-> 0]

-----------------------------------------------------------------------------
(* The JVM of run n, an orphan or not.  Nothing makes it go on, and it may *)
(* die at any moment.                                                      *)

JvmUnchanged == <<phase, pc, trial, batch, count, clock, timer, code, raising, sleepy,
                  taken, oldLog>>

Goes(n, from, to) == jvm[n] = from /\ jvm' = [jvm EXCEPT ![n] = to]

(* Wrapper.init opens one file for appending and the other for writing,    *)
(* which empties it.                                                       *)
CreateShaFile(n) ==
  /\ Goes(n, "boot", "init")
  /\ shaFile' = TRUE
  /\ UNCHANGED <<JvmUnchanged, exit, failureLog, writers, causeRows, wrote>>

CreateCauseFile(n) ==
  /\ Goes(n, "init", "test")
  /\ writers' = writers \cup {n}
  /\ causeRows' = {}
  /\ UNCHANGED <<JvmUnchanged, exit, failureLog, shaFile, wrote>>

(* A nap of the test is reported.  A file the driver has removed by then   *)
(* has no name any more, and what is written to it is lost.                *)
ReportNap(n) ==
  /\ jvm[n] = "test" /\ n \in sleepy
  /\ n \in writers
  /\ causeRows' = causeRows \cup {[of |-> n, late |-> pc = "kill"]}
  /\ UNCHANGED <<JvmUnchanged, jvm, exit, failureLog, shaFile, writers, wrote>>

(* The test fails: the file is opened, and thereby emptied, before the     *)
(* trace is put together.                                                  *)
OpenFailureLog(n) ==
  /\ Goes(n, "test", "log")
  /\ failureLog' = Blank
  /\ wrote' = TRUE
  /\ UNCHANGED <<JvmUnchanged, exit, shaFile, writers, causeRows>>

WriteFailureLog(n, f) ==
  /\ Goes(n, "log", "logged")
  /\ failureLog' = f
  /\ wrote' = TRUE
  /\ UNCHANGED <<JvmUnchanged, exit, shaFile, writers, causeRows>>

Leaves(n, c) ==
  /\ jvm' = [jvm EXCEPT ![n] = "gone"]
  /\ exit' = IF n = count THEN c ELSE exit
  /\ UNCHANGED <<JvmUnchanged, files, wrote>>

TestPasses(n) == jvm[n] = "test" /\ Leaves(n, 0)

(* System.exit(1337) after a failure, or out of memory, an exception of    *)
(* main, a crash at any moment.                                            *)
JvmFails(n) == jvm[n] # "gone" /\ Leaves(n, 1337)

Jvm(n) ==
  \/ CreateShaFile(n) \/ CreateCauseFile(n) \/ ReportNap(n)
  \/ OpenFailureLog(n) \/ \E f \in Failures : WriteFailureLog(n, f)
  \/ TestPasses(n) \/ JvmFails(n)

-----------------------------------------------------------------------------
(* From one test method to the next, and from its probes to its search.    *)

Lower(a, b) == IF a < b THEN a ELSE b

IsStableRatio(k) == 2 * k > Runs

Undecided == ~ IsStableRatio(fails) /\ IsStableRatio(fails + (Runs - run))

(* What the search has left in failure.log so far.                         *)
Kept == IF phase = "search" /\ pc = "between" THEN failureLog ELSE oldLog

(* threads_to_slow raises: a majority of the probes failed, or the lines   *)
(* that one recorded (sleepCalls.0) are not there or cannot be read.       *)
ProbesRejected ==
  /\ phase = "probe" /\ pc = "between"
  /\ probes > 0
  /\ pc' = "gaveUp"
  /\ UNCHANGED <<phase, trial, batch, count, clock, timer, code, raising, procs, files,
                 taken, past>>

(* The analysis of the method is over.                                     *)
MethodDone ==
  \/ pc \in {"gaveUp", "outOfTime"}
  \/ phase = "search" /\ pc = "between" /\ ~ Undecided

(* setup for the next one removes the files.  A JVM that has failure.log   *)
(* open goes on writing to the removed one.  (The bound on the runs has to *)
(* leave room for its probes and a search.)                                *)
NextMethod ==
  /\ MethodDone
  /\ count + Runs < MaxRuns
  /\ phase' = "probe" /\ pc' = "between"
  /\ probes' = 0 /\ probeFails' = 0
  /\ jvm' = [n \in RunIds |-> IF jvm[n] = "log" THEN "logged" ELSE jvm[n]]
  /\ failureLog' = NoFail /\ shaFile' = FALSE
  /\ writers' = {} /\ causeRows' = {}
  /\ oldLog' = Kept
  /\ UNCHANGED <<batch, count, clock, timer, code, raising, exit, sleepy, taken, wrote>>

(* Maven fails, or an orphan writes to the directory that is being removed.*)
SetupFails ==
  /\ MethodDone
  /\ pc' = "crashed"
  /\ oldLog' = Kept
  /\ UNCHANGED <<phase, trial, batch, count, clock, timer, code, raising, procs, files,
                 taken, wrote>>

NewBatch ==
  /\ pc' = "between"
  /\ run' = 0 /\ fails' = 0
  /\ seen' = [f \in Logged |-> 0]
  /\ UNCHANGED <<trial, count, timer, code, raising, procs, shaFile, writers, causeRows,
                 taken, past>>

(* Enough probes passed: the clock is set anew, and is_stable_failure is   *)
(* called, for all lines of a thread; it removes failure.log.              *)
StartSearch ==
  /\ phase = "probe" /\ pc = "between"
  /\ probes = Runs /\ ~ IsStableRatio(probeFails)
  /\ phase' = "search"
  /\ clock' = 0
  /\ failureLog' = NoFail
  /\ NewBatch

BatchDone == phase = "search" /\ (pc = "outOfTime" \/ (pc = "between" /\ ~ Undecided))

(* Slip: failure.log is not removed.                                       *)
BeginBatchKeepsLog ==
  /\ BatchDone
  /\ NewBatch
  /\ UNCHANGED <<phase, clock, failureLog>>

(* is_stable_failure is called again, for another list of lines.           *)
BeginBatch ==
  /\ BatchDone
  /\ failureLog' = NoFail
  /\ NewBatch
  /\ UNCHANGED <<phase, clock>>

-----------------------------------------------------------------------------
(* do_run.                                                                 *)

(* It is called after the time for the test method.                        *)
RefuseRun ==
  /\ phase = "search" /\ pc = "between" /\ Undecided
  /\ count < MaxRuns
  /\ clock > Budget
  /\ count' = count + 1
  /\ pc' = "outOfTime"
  /\ oldLog' = Kept
  /\ UNCHANGED <<phase, trial, batch, clock, timer, code, raising, procs, files, taken,
                 wrote>>

Starts(candidate, now) ==
  LET dynamic == Lower(candidate, Budget - now)
  IN  /\ count < MaxRuns
      /\ count' = count + 1
      /\ pc' = "waiting"
      /\ clock' = now
      /\ deadline' = now + dynamic
      /\ whole' = (dynamic = candidate)
      /\ began' = now
      /\ jvm' = [jvm EXCEPT ![count + 1] = "boot"]
      /\ wrote' = FALSE
      /\ oldLog' = Kept
      /\ UNCHANGED <<phase, trial, batch, code, raising, exit, files, taken>>

(* Every probe has the clock to itself.                                    *)
StartProbe ==
  /\ phase = "probe" /\ pc = "between" /\ probes < Runs
  /\ Starts(ProbeTimeout, 0)
  /\ UNCHANGED sleepy

StartRun ==
  /\ phase = "search" /\ pc = "between" /\ Undecided
  /\ clock <= Budget
  /\ Starts(Candidate, clock)
  /\ sleepy' = sleepy \cup {count + 1}

RunExitsZero ==
  /\ pc = "waiting"
  /\ jvm[count] = "gone" /\ exit = 0
  /\ code' = 0
  /\ pc' = "sha"
  /\ UNCHANGED <<phase, trial, batch, count, clock, timer, raising, procs, files, taken, past>>

(* Any other exit code: failure.log is filled in if nobody wrote it.       *)
RunExitsNonZero ==
  /\ pc = "waiting"
  /\ jvm[count] = "gone" /\ exit # 0
  /\ code' = 1337
  /\ failureLog' = IF failureLog = NoFail THEN Unlogged ELSE failureLog
  /\ pc' = "sha"
  /\ UNCHANGED <<phase, trial, batch, count, clock, timer, raising, procs, shaFile, writers,
                 causeRows, taken, past>>

(* TimeoutExpired: the shell is killed, and the JVM with it or not.        *)
Expire ==
  /\ pc = "waiting"
  /\ clock >= deadline
  /\ jvm[count] # "gone"
  /\ jvm' \in {jvm, [jvm EXCEPT ![count] = "gone"]}
  /\ UNCHANGED <<phase, trial, batch, count, clock, timer, code, exit, sleepy, files, taken,
                 past>>

(* Slip: out of budget is taken for a hang, and the other way round.       *)
RunTimesOutSwapped == Expire /\ ~ whole /\ pc' = "mark" /\ UNCHANGED raising

(* A likely deadlock...                                                    *)
RunTimesOut == Expire /\ whole /\ pc' = "mark" /\ UNCHANGED raising

MarkTimeout ==
  /\ pc = "mark"
  /\ failureLog' = Timeout
  /\ wrote' = TRUE
  /\ code' = 1338
  /\ pc' = "sha"
  /\ UNCHANGED <<phase, trial, batch, count, clock, timer, raising, procs, shaFile, writers,
                 causeRows, taken, oldLog>>

(* ... or no time left: TimeoutError, once the clean-up is done.           *)
BudgetRunsOut == Expire /\ ~ whole /\ raising' = TRUE /\ pc' = "sha"

(* The local variables of do_run are gone when it is left.                 *)
LocalsEnd ==
  /\ deadline' = 0 /\ whole' = TRUE /\ began' = 0
  /\ code' = 0 /\ exit' = 0

(* finally: each file is read and removed; killall comes last.             *)
TakeShaFile ==
  /\ pc = "sha"
  /\ shaFile
  /\ shaFile' = FALSE
  /\ pc' = "cause"
  /\ UNCHANGED <<phase, trial, batch, count, clock, timer, code, raising, procs, failureLog,
                 writers, causeRows, taken, past>>

ReadCauseFile ==
  /\ pc = "cause"
  /\ writers # {}
  /\ taken' = taken \cup ({count} \X causeRows)
  /\ pc' = "kill"
  /\ UNCHANGED <<phase, trial, batch, count, clock, timer, code, raising, procs, failureLog,
                 shaFile, past>>

(* Slip: the file is read but not removed.                                 *)
TakeCauseFileKeeps == ReadCauseFile /\ UNCHANGED <<writers, causeRows>>

TakeCauseFile == ReadCauseFile /\ writers' = {} /\ causeRows' = {}

(* A file the JVM did not live to create: FileNotFoundError, in place of   *)
(* whatever was to be returned or raised, and no killall.                  *)
FileMissing ==
  /\ \/ pc = "sha" /\ ~ shaFile
     \/ pc = "cause" /\ writers = {}
  /\ LocalsEnd
  /\ UNCHANGED <<phase, trial, batch, count, clock, jvm, sleepy, files, taken, past>>

(* find_all_naptime_lines catches it around threads_to_slow ...            *)
ProbeGivesUp == FileMissing /\ phase = "probe" /\ pc' = "gaveUp" /\ raising' = FALSE

(* ... and nobody around the search, where only TimeoutError is caught.    *)
SearchCrashes == FileMissing /\ phase = "search" /\ pc' = "crashed" /\ UNCHANGED raising

(* After killall: TimeoutError goes on to the callers, a returned code is  *)
(* counted there.                                                          *)
EndedIn == IF wrote THEN failureLog ELSE Unlogged

Raise ==
  /\ raising
  /\ raising' = FALSE
  /\ pc' = IF phase = "probe" THEN "gaveUp" ELSE "outOfTime"
  /\ UNCHANGED <<trial, batch>>

ProbeReturns ==
  /\ phase = "probe"
  /\ probes' = probes + 1
  /\ probeFails' = probeFails + (IF code = 0 THEN 0 ELSE 1)
  /\ UNCHANGED batch

RunReturns ==
  /\ phase = "search"
  /\ run' = run + 1
  /\ \/ code = 0 /\ UNCHANGED <<fails, seen>>
     \/ /\ code # 0
        /\ fails' = fails + 1
        /\ seen' = [seen EXCEPT ![EndedIn] = @ + 1]
  /\ UNCHANGED trial

Leave ==
  /\ pc = "kill"
  /\ Raise \/ (~ raising /\ pc' = "between" /\ UNCHANGED raising
                /\ (ProbeReturns \/ RunReturns))
  /\ LocalsEnd
  /\ UNCHANGED <<phase, count, clock, sleepy, files, taken, past>>

(* Slip: only the JVM of this run is killed.                               *)
KillOwnJvm == Leave /\ jvm' = [jvm EXCEPT ![count] = "gone"]

KillJvms == Leave /\ jvm' = [n \in RunIds |-> "gone"]

Driver ==
  \/ ProbesRejected \/ NextMethod \/ SetupFails \/ StartSearch \/ BeginBatch
  \/ RefuseRun \/ StartProbe \/ StartRun
  \/ RunExitsZero \/ RunExitsNonZero \/ RunTimesOut \/ MarkTimeout \/ BudgetRunsOut
  \/ TakeShaFile \/ TakeCauseFile \/ ProbeGivesUp \/ SearchCrashes \/ KillJvms

(* Time passes.  Before a probe or a search starts nobody reads the clock.  *)
Tick ==
  /\ phase = "search" \/ pc \notin {"between", "gaveUp"}
  /\ pc # "crashed"
  /\ clock <= Budget
  /\ clock' = clock + 1
  /\ UNCHANGED <<phase, pc, trial, batch, count, timer, code, raising, procs, files, taken,
                 past>>

(* What a JVM does when the program is over is not followed.               *)
Next ==
  \/ Driver
  \/ pc # "crashed" /\ \E n \in RunIds : Jvm(n)
  \/ Tick

Spec == Init /\ [][Next]_vars

(* The driver's process is scheduled and time passes; the JVM may hang.    *)
FairSpec == Spec /\ WF_vars(Driver) /\ WF_vars(Tick)

-----------------------------------------------------------------------------
(* "in case of hung orphaned processes" (line 327): an orphan of a probe   *)
(* may live on through setup into the probes of later test methods, where  *)
(* it writes to their files; but no run of a search ever has a JVM beside  *)
(* its own, and none is left between such runs.                            *)
SearchesRunAlone ==
  phase = "search" =>
    \A n \in RunIds : jvm[n] # "gone" => n = count /\ pc \notin {"between", "outOfTime"}

(* "Differentiate between timeout from likely deadlock or timeout from     *)
(* running out of time to analyze method" (line 251): a run that counts as *)
(* a deadlock has had its whole timeout, and TimeoutError is raised only   *)
(* when the budget of the test method is used up.                          *)
HangIsNotBudget ==
  /\ pc \in {"sha", "cause", "kill"} /\ code = 1338 /\ ~ raising =>
       clock - began >= IF phase = "probe" THEN ProbeTimeout ELSE Candidate
  /\ pc = "outOfTime" \/ raising => clock >= Budget

(* Rows of the cause report are put down to the run whose JVM wrote them,  *)
(* but for those written between the moment the driver removes the file of *)
(* a run and killall, which the next run may find.  A probe never finds a  *)
(* row: it has no key to put one down to (line 323).                       *)
RowsOfTheirRun ==
  /\ \A x \in taken : x[1] = x[2].of \/ x[2].late
  /\ phase = "probe" => causeRows = {}

(* A run that is started comes to an end, though the JVM may hang.         *)
RunsEnd == pc = "waiting" ~> pc \in {"between", "outOfTime", "gaveUp", "crashed"}

(* A batch of real runs is a batch of StableBatch: whatever driver and     *)
(* JVMs do side by side, a finished run leaves one of the four outcomes    *)
(* there, and failure.log changes at no other time (what probes and runs   *)
(* that end in an exception leave there is removed before the search reads *)
(* it).                                                                    *)
Batch == INSTANCE StableBatch WITH
  Failures   <- Traces,
  failureLog <- Kept

ImplementsBatch == Batch!BatchSpec

(* "giving partial results for thread" (line 503): when the budget runs    *)
(* out the callers get the TimeoutError that they turn into partial        *)
(* results, not an error that ends the program.                            *)
BudgetGivesPartialResults == ~ (pc = "crashed" /\ raising)

=============================================================================
