----------------------------- MODULE StableBatch -----------------------------
(***************************************************************************)
(* is_stable_failure of findFlakySleeps.py and the file failure.log it     *)
(* shares with do_run: a batch of at most Runs runs of the test under one  *)
(* sleep list, stopped as soon as the majority is known.                   *)
(*                                                                         *)
(* One step is one do_run, reduced to what the batch sees of it: its exit  *)
(* code and what is in failure.log when it returns.  (The clock, the JVM   *)
(* and the exceptions of do_run are the business of the callers.)          *)
(***************************************************************************)
EXTENDS Naturals

CONSTANTS Runs,      \* NUM_TRIES
          Failures,  \* what a test runner can leave in failure.log
          Timeout,   \* SLEEPY_TIMEOUT_FAIL_STR
          Unlogged,  \* FAILURE_THAT_COULD_NOT_BE_LOGGED
          NoFail     \* get_failure_str() when there is no failure.log

ASSUME RunsAssumption == Runs \in Nat \ {0}

ASSUME FailuresAssumption ==
  /\ Timeout \notin Failures \cup {Unlogged, NoFail}
  /\ Unlogged \notin Failures \cup {NoFail}
  /\ NoFail \notin Failures

VARIABLES run,         \* runs of the batch so far
          fails,       \* fail_count
          failureLog,  \* what get_failure_str() returns
          seen         \* history: per failure, the runs of the batch it ended

batchVars == <<run, fails, failureLog, seen>>

Logged == Failures \cup {Timeout, Unlogged}

(* is_stable_ratio(k / Runs), with STABLE_FAILURE_RATIO = 0.5. *)
IsStableRatio(k) == 2 * k > Runs

Stable == IsStableRatio(fails)

(* Slip: the run just done is counted twice.                               *)
HopelessTooSoon == ~ IsStableRatio(fails + (Runs - run) - 1)

(* Even if all runs to come fail, there is no majority of failures.        *)
Hopeless == ~ IsStableRatio(fails + (Runs - run))

Undecided == ~ Stable /\ ~ Hopeless

BatchTypeOK ==
  /\ run \in 0 .. Runs
  /\ fails \in 0 .. run
  /\ failureLog \in Logged \cup {NoFail}
  /\ seen \in [Logged -> 0 .. Runs]

-----------------------------------------------------------------------------

(* The entry of is_stable_failure: failure.log is removed.                 *)
BatchInit ==
  /\ run = 0
  /\ fails = 0
  /\ failureLog = NoFail
  /\ seen = [f \in Logged |-> 0]

(* Slip: failure.log is left in place.                                     *)
BeginBatchKeepsLog ==
  /\ run' = 0
  /\ fails' = 0
  /\ seen' = [f \in Logged |-> 0]
  /\ UNCHANGED failureLog

BeginBatch ==
  /\ run' = 0
  /\ fails' = 0
  /\ failureLog' = NoFail
  /\ seen' = [f \in Logged |-> 0]

(* do_run returns 0; failure.log is as the runs before left it. *)
RunPasses ==
  /\ Undecided
  /\ run' = run + 1
  /\ UNCHANGED <<fails, failureLog, seen>>

(* do_run returns non-zero because of f. *)
RunEndsIn(f) ==
  /\ Undecided
  /\ run' = run + 1
  /\ fails' = fails + 1
  /\ seen' = [seen EXCEPT ![f] = @ + 1]

(* The runner writes failure.log and exits non-zero (or it is killed at    *)
(* the timeout and a surviving JVM writes the file after do_run did).      *)
RunFails(f) == RunEndsIn(f) /\ failureLog' = f

RunTimesOut == RunEndsIn(Timeout) /\ failureLog' = Timeout

(* The JVM dies with nothing in failure.log: do_run fills the gap, but     *)
(* only when no earlier run of the batch left a failure there.             *)
RunDiesUnlogged ==
  /\ RunEndsIn(Unlogged)
  /\ failureLog' = IF failureLog = NoFail THEN Unlogged ELSE failureLog

DoRun ==
  \/ RunPasses
  \/ \E f \in Failures : RunFails(f)
  \/ RunTimesOut
  \/ RunDiesUnlogged

(* A batch may be cut short by an exception, so a new one can begin at any *)
(* moment.                                                                 *)
BatchNext == BeginBatch \/ DoRun

BatchSpec == BatchInit /\ [][BatchNext]_batchVars

-----------------------------------------------------------------------------
(* Stopping early changes no verdict: a batch reported stable (line 106)   *)
(* or impossible (line 109) gets that verdict from every continuation up   *)
(* to Runs runs, one that goes on could still get either, and the loop     *)
(* never ends without a verdict, so the code after it is never reached.    *)
VerdictForced ==
  LET Outcomes == {fails + k : k \in 0 .. (Runs - run)}
  IN  /\ Stable    <=> \A k \in Outcomes : IsStableRatio(k)
      /\ Hopeless  <=> \A k \in Outcomes : ~ IsStableRatio(k)
      /\ run = Runs => ~ Undecided

(* What get_failure_str() says after any run of a batch is a failure some  *)
(* run of this very batch ended in, never the leftover of an earlier       *)
(* batch; and it says "NoFail" only if no run has failed, so a stable      *)
(* batch always has a failure to report.                                   *)
LogIsOfThisBatch ==
  /\ failureLog = NoFail <=> fails = 0
  /\ failureLog # NoFail => seen[failureLog] > 0

=============================================================================
