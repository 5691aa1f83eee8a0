--------------------------- MODULE SleepyRunProofs ---------------------------
(***************************************************************************)
(* Driver and JVMs side by side, for every number of runs, timeout, budget *)
(* and set of failures: the types, who lives beside whom and what is left  *)
(* behind, the clock, and that a batch of runs is a batch of StableBatch.  *)
(***************************************************************************)
EXTENDS SleepyRun, TLAPS

Running == {"waiting", "mark", "sha", "cause", "kill"}

(* killall was the last that was done.                                     *)
NobodyLeft == pc = "outOfTime" \/ (pc = "between" /\ (phase = "search" \/ probes > 0))

(* Where a JVM can be alive: beside a probe, any earlier probe's; beside   *)
(* a run of a search, none.                                                *)
Lives ==
  /\ \A n \in RunIds : jvm[n] # "gone" => n <= count
  /\ phase = "search" => \A n \in RunIds : jvm[n] # "gone" => n = count
  /\ NobodyLeft => \A n \in RunIds : jvm[n] = "gone"
  /\ phase = "probe" => \A n \in sleepy : jvm[n] = "gone"

(* Which runs are numbered, and where the probes are.                      *)
Counts ==
  /\ \A n \in sleepy : n <= count
  /\ pc \in Running => count \in RunIds
  /\ phase = "probe" /\ pc \in Running => probes < Runs
  /\ pc = "outOfTime" => phase = "search"
  /\ pc = "gaveUp" => phase = "probe"

(* The rows in the cause file, and those that were taken from it: when a   *)
(* run of a search begins, only late ones are there.                       *)
RowsAreOfTheRun ==
  /\ phase = "probe" => causeRows = {}
  /\ \A r \in causeRows : r.of = count \/ r.late
  /\ phase = "search" /\ pc \in {"kill", "between", "outOfTime"} =>
       \A r \in causeRows : r.late
  /\ \A x \in taken : x[1] = x[2].of \/ x[2].late

(* The clock and the deadline of the run at hand.                          *)
OwnTimeout == IF phase = "probe" THEN ProbeTimeout ELSE Candidate

Timing ==
  /\ pc \in Running => began \in 0 .. Budget
  /\ pc = "waiting" =>
       /\ whole => deadline = began + OwnTimeout
       /\ ~ whole => deadline = Budget
  /\ pc = "mark" => clock - began >= OwnTimeout
  /\ pc \in {"sha", "cause", "kill"} /\ code = 1338 /\ ~ raising => clock - began >= OwnTimeout
  /\ pc = "outOfTime" => clock >= Budget
  /\ raising => pc \in {"sha", "cause", "kill", "crashed"} /\ clock >= Budget

(* The log of the run at hand, and of the batch before it.                 *)
Log ==
  phase = "search" =>
    /\ pc \in Running => Undecided
    /\ pc \in Running /\ wrote => failureLog \in Traces \cup {Timeout}
    /\ pc = "waiting" /\ ~ wrote => failureLog = oldLog
    /\ pc = "waiting" /\ wrote =>
         jvm[count] \in {"log", "logged"} \/ (jvm[count] = "gone" /\ exit = 1337)
    /\ pc \in {"sha", "cause", "kill"} /\ ~ raising =>
         /\ code = 0 => failureLog = oldLog /\ jvm[count] = "gone"
         /\ code = 1337 => jvm[count] = "gone"
         /\ code = 1338 => wrote
         /\ code # 0 /\ ~ wrote =>
              failureLog = IF oldLog = NoFail THEN Unlogged ELSE oldLog

IInv == TypeOK /\ Lives /\ Counts /\ RowsAreOfTheRun /\ Timing /\ Log

-----------------------------------------------------------------------------
(* An undecided batch has runs left.                                       *)
LEMMA RunsLeft == TypeOK /\ Undecided => run + 1 \in 0 .. Runs
BY SleepyRunAssumption DEF TypeOK, Undecided, IsStableRatio

(* The driver starts without a JVM.                                        *)
LEMMA Initially == Init => IInv
<1> SUFFICES ASSUME Init PROVE IInv
  OBVIOUS
<1> USE SleepyRunAssumption DEF Init
<1>1. whole \in BOOLEAN /\ raising \in BOOLEAN /\ shaFile \in BOOLEAN
  OBVIOUS
<1>2. TypeOK
  BY <1>1 DEF TypeOK, JvmStates
<1>3. Lives /\ Counts /\ RowsAreOfTheRun
  BY DEF Lives, Counts, RowsAreOfTheRun, NobodyLeft, Running
<1>4. Timing /\ Log
  BY DEF Timing, Log, Running
<1> QED BY <1>2, <1>3, <1>4 DEF IInv

-----------------------------------------------------------------------------
(* What a step of the JVM of run n leaves alone, and that n is alive.      *)
LEMMA JvmSteps ==
  ASSUME TypeOK, NEW n \in RunIds, Jvm(n)
  PROVE  /\ jvm[n] # "gone"
         /\ jvm' \in [RunIds -> JvmStates]
         /\ \A m \in RunIds \ {n} : jvm'[m] = jvm[m]
         /\ UNCHANGED <<phase, pc, probes, probeFails, run, fails, seen, count, clock, deadline,
                        whole, began, code, raising, sleepy, taken, oldLog>>
         /\ exit' \in {0, 1337}
         /\ failureLog' \in {failureLog} \cup Traces
         /\ shaFile' \in BOOLEAN
         /\ writers' \in {writers, writers \cup {n}}
         /\ causeRows' \subseteq causeRows \cup {[of |-> n, late |-> pc = "kill"]}
         /\ causeRows' \subseteq causeRows \/ n \in sleepy
<1> USE DEF TypeOK, JvmUnchanged, Goes, trial, batch, timer, JvmStates, Traces
<1>1. shaFile' \in BOOLEAN
  <2>1. shaFile \in BOOLEAN
    OBVIOUS
  <2>2. shaFile' = TRUE \/ shaFile' = shaFile
    BY DEF Jvm, CreateShaFile, CreateCauseFile, ReportNap, OpenFailureLog, WriteFailureLog,
       TestPasses, JvmFails, Leaves, files
  <2> QED BY ONLY <2>1, <2>2, Zenon
<1>2. CASE CreateShaFile(n) \/ CreateCauseFile(n)
  BY <1>1, <1>2 DEF CreateShaFile, CreateCauseFile
<1>3. CASE ReportNap(n)
  BY <1>1, <1>3 DEF ReportNap
<1>4. CASE OpenFailureLog(n) \/ \E f \in Failures : WriteFailureLog(n, f)
  BY <1>1, <1>4 DEF OpenFailureLog, WriteFailureLog
<1>5. CASE TestPasses(n) \/ JvmFails(n)
  BY <1>1, <1>5 DEF TestPasses, JvmFails, Leaves, files
<1> QED BY <1>2, <1>3, <1>4, <1>5 DEF Jvm

(* What it does to failure.log.                                            *)
LEMMA JvmLogs ==
  ASSUME TypeOK, NEW n \in RunIds, Jvm(n)
  PROVE  \/ failureLog' \in Traces /\ wrote' /\ jvm'[n] \in {"log", "logged"}
         \/ /\ UNCHANGED <<failureLog, wrote>>
            /\ \/ jvm[n] \notin {"log", "logged"}
               \/ jvm'[n] = "gone" /\ (n = count => exit' = 1337)
<1> USE DEF TypeOK, JvmUnchanged, Goes, JvmStates, Traces
<1>1. CASE CreateShaFile(n) \/ CreateCauseFile(n) \/ ReportNap(n)
  BY <1>1 DEF CreateShaFile, CreateCauseFile, ReportNap
<1>2. CASE OpenFailureLog(n) \/ \E f \in Failures : WriteFailureLog(n, f)
  BY <1>2 DEF OpenFailureLog, WriteFailureLog
<1>3. CASE TestPasses(n) \/ JvmFails(n)
  BY <1>3 DEF TestPasses, JvmFails, Leaves, files
<1> QED BY <1>1, <1>2, <1>3 DEF Jvm

(* What the JVMs do, and that they die.                                    *)
LEMMA JvmKeeps == ASSUME IInv, NEW n \in RunIds, Jvm(n) PROVE IInv'
<1> USE SleepyRunAssumption
<1>0. TypeOK /\ Lives /\ Counts /\ RowsAreOfTheRun /\ Timing /\ Log
  BY DEF IInv
<1> DEFINE row == [of |-> n, late |-> pc = "kill"]
<1>1. /\ jvm[n] # "gone"
      /\ jvm' \in [RunIds -> JvmStates]
      /\ \A m \in RunIds \ {n} : jvm'[m] = jvm[m]
      /\ UNCHANGED <<phase, pc, probes, probeFails, run, fails, seen, count, clock, deadline,
                     whole, began, code, raising, sleepy, taken, oldLog>>
      /\ exit' \in {0, 1337}
      /\ failureLog' \in {failureLog} \cup Traces
      /\ shaFile' \in BOOLEAN
      /\ writers' \in {writers, writers \cup {n}}
      /\ causeRows' \subseteq causeRows \cup {row}
      /\ causeRows' \subseteq causeRows \/ n \in sleepy
  BY <1>0, JvmSteps
<1>2. row \in Row /\ row.of = n /\ row.late = (pc = "kill")
  BY DEF Row
<1> HIDE DEF row
<1>3. TypeOK'
  BY <1>0, <1>1, <1>2 DEF TypeOK, Logged
<1>4. \A m \in RunIds : jvm'[m] # "gone" => jvm[m] # "gone"
  BY <1>1
<1>5. Lives'
  BY <1>0, <1>1, <1>4 DEF Lives, NobodyLeft, TypeOK
<1>6. Counts'
  BY <1>0, <1>1 DEF Counts, Running
<1>7. RowsAreOfTheRun'
  <2>1. CASE causeRows' \subseteq causeRows
    BY <1>0, <1>1, <2>1 DEF RowsAreOfTheRun
  <2>2. CASE n \in sleepy
    <3>1. phase = "search" /\ n = count /\ pc \notin {"between", "outOfTime"}
      BY <1>0, <1>1, <2>2 DEF Lives, NobodyLeft, TypeOK
    <3>2. \A r \in causeRows' : r \in causeRows \/ r = row
      BY <1>1
    <3>3. pc = "kill" => row.late
      BY <1>2
    <3>4. \A r \in causeRows' : r.of = count \/ r.late
      BY <1>0, <1>2, <3>1, <3>2 DEF RowsAreOfTheRun
    <3>5. pc = "kill" => \A r \in causeRows' : r.late
      BY <1>0, <3>1, <3>2, <3>3 DEF RowsAreOfTheRun
    <3> QED BY <1>0, <1>1, <3>1, <3>4, <3>5 DEF RowsAreOfTheRun
  <2> QED BY <1>1, <2>1, <2>2
<1>8. Timing'
  BY <1>0, <1>1 DEF Timing, Running, OwnTimeout
<1>9. Log'
  <2> SUFFICES ASSUME phase = "search" PROVE Log'
    BY <1>1 DEF Log
  <2>1. n = count /\ pc \notin {"between", "outOfTime"}
    BY <1>0, <1>1 DEF Lives, NobodyLeft
  <2>2. CASE pc \notin Running
    BY <1>1, <2>2 DEF Log, Running
  <2>3. CASE pc \in Running
    <3>1. Undecided /\ Undecided'
      BY <1>0, <1>1, <2>3 DEF Log, Undecided
    <3>2. CASE failureLog' \in Traces /\ wrote' /\ jvm'[n] \in {"log", "logged"}
      BY <1>0, <1>1, <2>1, <3>1, <3>2 DEF Log
    <3>3. CASE /\ UNCHANGED <<failureLog, wrote>>
               /\ \/ jvm[n] \notin {"log", "logged"}
                  \/ jvm'[n] = "gone" /\ (n = count => exit' = 1337)
      BY <1>0, <1>1, <2>1, <3>1, <3>3 DEF Log
    <3> QED BY <1>0, <3>2, <3>3, JvmLogs
  <2> QED BY <2>2, <2>3
<1> QED BY <1>3, <1>5, <1>6, <1>7, <1>8, <1>9 DEF IInv

-----------------------------------------------------------------------------
(* threads_to_slow gives up, or the analysis of a method is over.          *)
LEMMA MethodEndsKeeps == IInv /\ (ProbesRejected \/ SetupFails) => IInv'
<1> SUFFICES ASSUME IInv, ProbesRejected \/ SetupFails PROVE IInv'
  OBVIOUS
<1> USE DEF IInv, ProbesRejected, SetupFails, trial, batch, timer, procs, files, past
<1>1. /\ pc' \in {"gaveUp", "crashed"} /\ (pc' = "gaveUp" => phase = "probe")
      /\ pc \notin Running
      /\ UNCHANGED <<phase, probes, probeFails, run, fails, seen, count, clock, deadline, whole,
                     began, code, raising, jvm, exit, sleepy, failureLog, shaFile, writers,
                     causeRows, taken, wrote>>
      /\ oldLog' \in {oldLog, Kept}
  BY DEF MethodDone, Running
<1>2. ~ raising
  BY DEF Timing, MethodDone
<1> HIDE DEF ProbesRejected, SetupFails
<1>3. TypeOK'
  BY <1>1 DEF TypeOK
<1>4. Lives' /\ Counts' /\ RowsAreOfTheRun'
  BY <1>1 DEF Lives, NobodyLeft, Counts, RowsAreOfTheRun, Running
<1>5. Timing'
  BY <1>2, <1>1 DEF Timing, Running
<1>6. Log'
  BY <1>1 DEF Log, Running
<1> QED BY <1>3, <1>4, <1>5, <1>6

(* setup for the next method: orphans live on, and no row is left.         *)
LEMMA NextMethodKeeps == IInv /\ NextMethod => IInv'
<1> SUFFICES ASSUME IInv, NextMethod PROVE IInv'
  OBVIOUS
<1> USE SleepyRunAssumption DEF IInv, NextMethod, batch, timer
<1>1. jvm' \in [RunIds -> JvmStates] /\ \A n \in RunIds : jvm'[n] # "gone" => jvm[n] # "gone"
  BY DEF TypeOK, JvmStates
<1>2. phase = "search" => \A n \in RunIds : jvm[n] = "gone"
  BY DEF MethodDone, Lives, NobodyLeft, Counts
<1>3. /\ phase' = "probe" /\ pc' = "between" /\ probes' = 0 /\ probeFails' = 0
      /\ failureLog' = NoFail /\ shaFile' = FALSE /\ writers' = {} /\ causeRows' = {}
      /\ UNCHANGED <<run, fails, seen, count, clock, deadline, whole, began, code, raising,
                     exit, sleepy, taken, wrote>>
      /\ pc \notin {"sha", "cause", "kill", "crashed"}
  BY DEF MethodDone
<1> HIDE DEF NextMethod
<1>4. shaFile' \in BOOLEAN
  BY <1>3
<1>5. TypeOK'
  BY <1>1, <1>3, <1>4 DEF TypeOK
<1>6. Lives'
  <2>1. \A n \in sleepy : jvm[n] = "gone"
    BY <1>2 DEF Lives, TypeOK
  <2> QED BY <1>1, <1>3, <2>1 DEF Lives, NobodyLeft, TypeOK
<1>7. Counts' /\ RowsAreOfTheRun' /\ Timing' /\ Log'
  BY <1>3 DEF Counts, RowsAreOfTheRun, Timing, Log, Running
<1> QED BY <1>5, <1>6, <1>7

(* A batch begins, the first one of a search or another one.               *)
LEMMA BatchBeginsKeeps == IInv /\ (StartSearch \/ BeginBatch) => IInv'
<1> SUFFICES ASSUME IInv, StartSearch \/ BeginBatch PROVE IInv'
  OBVIOUS
<1> USE SleepyRunAssumption DEF IInv, StartSearch, BeginBatch, BatchDone, NewBatch, trial,
                                timer, procs, past
<1>1. /\ phase' = "search" /\ pc' = "between" /\ run' = 0 /\ fails' = 0 /\ failureLog' = NoFail
      /\ clock' \in {clock, 0}
      /\ UNCHANGED <<probes, probeFails, count, deadline, whole, began, code, raising, jvm, exit,
                     sleepy, shaFile, writers, causeRows, taken, wrote, oldLog>>
  OBVIOUS
<1>2. \A n \in RunIds : jvm[n] = "gone"
  BY DEF Lives, NobodyLeft, TypeOK
<1>3. \A r \in causeRows : r.late
  BY DEF RowsAreOfTheRun
<1>4. ~ raising
  BY DEF Timing
<1> HIDE DEF StartSearch, BeginBatch, BatchDone, NewBatch
<1>5. TypeOK'
  BY <1>1 DEF TypeOK
<1>6. Lives' /\ Counts' /\ RowsAreOfTheRun'
  BY <1>1, <1>2, <1>3 DEF Lives, Counts, RowsAreOfTheRun, Running
<1>7. Timing' /\ Log'
  BY <1>1, <1>4 DEF Timing, Log, Running
<1> QED BY <1>5, <1>6, <1>7

(* do_run is called too late.                                              *)
LEMMA RefuseRunKeeps == IInv /\ RefuseRun => IInv'
<1> SUFFICES ASSUME IInv, RefuseRun PROVE IInv'
  OBVIOUS
<1> USE SleepyRunAssumption DEF IInv, RefuseRun, trial, batch, timer, procs, files
<1>1. \A n \in RunIds : jvm[n] = "gone"
  BY DEF Lives, NobodyLeft
<1>2. \A r \in causeRows : r.late
  BY DEF RowsAreOfTheRun
<1>3. count' = count + 1 /\ count' \in 0 .. MaxRuns /\ \A n \in sleepy : n <= count'
  <2>1. count \in 0 .. MaxRuns /\ sleepy \subseteq RunIds /\ MaxRuns \in Nat
    BY DEF TypeOK
  <2>2. \A n \in sleepy : n \in Nat /\ n <= count
    BY <2>1 DEF Counts, RunIds
  <2> QED BY <2>1, <2>2
<1>4. TypeOK'
  BY <1>3 DEF TypeOK
<1>5. Lives' /\ Counts' /\ RowsAreOfTheRun'
  BY <1>1, <1>2, <1>3 DEF Lives, Counts, RowsAreOfTheRun, Running
<1>6. Timing' /\ Log'
  BY DEF Timing, Log, Running, TypeOK
<1> QED BY <1>4, <1>5, <1>6

(* A run is started: its deadline is within the budget.                    *)
LEMMA StartsKeeps == IInv /\ (StartProbe \/ StartRun) => IInv'
<1> SUFFICES ASSUME IInv, StartProbe \/ StartRun PROVE IInv'
  OBVIOUS
<1> USE SleepyRunAssumption DEF IInv, trial, batch, files
<1> DEFINE now == IF phase = "probe" THEN 0 ELSE clock
           dynamic == Lower(OwnTimeout, Budget - now)
<1>1. /\ now \in 0 .. Budget /\ OwnTimeout \in Nat
      /\ count \in 0 .. MaxRuns /\ count < MaxRuns /\ count + 1 \in RunIds
  BY DEF TypeOK, StartRun, StartProbe, Starts, OwnTimeout, RunIds
<1>2. /\ now + dynamic \in 0 .. Budget
      /\ dynamic # OwnTimeout => now + dynamic = Budget
  BY <1>1 DEF Lower
<1>3. /\ pc = "between" /\ pc' = "waiting"
      /\ jvm' = [jvm EXCEPT ![count + 1] = "boot"]
      /\ count' = count + 1 /\ deadline' = now + dynamic /\ began' = now /\ clock' = now
      /\ whole' = (dynamic = OwnTimeout) /\ wrote' = FALSE /\ oldLog' = Kept
      /\ UNCHANGED <<phase, probes, probeFails, run, fails, seen, code, raising, exit, failureLog,
                     shaFile, writers, causeRows, taken>>
  BY DEF StartRun, StartProbe, Starts, OwnTimeout
<1>4. /\ phase = "probe" => probes < Runs /\ sleepy' = sleepy
      /\ phase = "search" => Undecided /\ sleepy' = sleepy \cup {count + 1}
      /\ phase \in {"probe", "search"}
  BY DEF StartRun, StartProbe, TypeOK
<1> HIDE DEF now, dynamic
<1>5. whole' \in BOOLEAN /\ count' \in 0 .. MaxRuns /\ jvm' \in [RunIds -> JvmStates]
  <2>1. whole' \in BOOLEAN /\ count' \in 0 .. MaxRuns
    BY <1>1, <1>3
  <2>2. jvm' \in [RunIds -> JvmStates]
    <3>1. jvm \in [RunIds -> JvmStates] /\ "boot" \in JvmStates
      BY DEF TypeOK, JvmStates
    <3> QED BY ONLY <1>3, <3>1
  <2> QED BY <2>1, <2>2
<1>6. sleepy' \subseteq RunIds
  BY <1>1, <1>4 DEF TypeOK
<1>7. TypeOK'
  BY <1>1, <1>2, <1>3, <1>5, <1>6 DEF TypeOK
<1>8. \A n \in RunIds : jvm'[n] = IF n = count + 1 THEN "boot" ELSE jvm[n]
  BY <1>3 DEF TypeOK
<1>9. \A n \in RunIds : n <= count => n <= count + 1 /\ n # count + 1
  BY <1>1 DEF RunIds
<1>10. phase = "search" => \A n \in RunIds : jvm[n] = "gone"
  BY <1>3 DEF Lives, NobodyLeft
<1>11. count + 1 <= count + 1
  BY <1>1
<1>12. Lives'
  <2>1. \A n \in RunIds : jvm'[n] # "gone" => n <= count'
    BY <1>3, <1>8, <1>9, <1>11 DEF Lives
  <2>2. phase' = "search" => \A n \in RunIds : jvm'[n] # "gone" => n = count'
    BY <1>3, <1>8, <1>10
  <2>3. phase' = "probe" => \A n \in sleepy' : jvm'[n] = "gone"
    BY <1>3, <1>4, <1>8, <1>9 DEF Lives, Counts, TypeOK
  <2> QED BY <1>3, <2>1, <2>2, <2>3 DEF Lives, NobodyLeft
<1>13. Counts'
  <2>1. \A n \in sleepy' : n <= count'
    BY <1>3, <1>4, <1>9, <1>11 DEF Counts, TypeOK
  <2> QED BY <1>1, <1>3, <1>4, <2>1 DEF Counts
<1>14. RowsAreOfTheRun'
  BY <1>3, <1>4 DEF RowsAreOfTheRun
<1>15. Timing'
  <2>1. /\ whole' => deadline' = began' + OwnTimeout'
        /\ ~ whole' => deadline' = Budget
    BY <1>2, <1>3 DEF OwnTimeout
  <2> QED BY <1>1, <1>3, <2>1 DEF Timing
<1>16. Log'
  BY <1>3, <1>4 DEF Log, Undecided, Kept
<1> QED BY <1>7, <1>12, <1>13, <1>14, <1>15, <1>16

(* subprocess.run returns.                                                 *)
LEMMA RunExitsKeeps == IInv /\ (RunExitsZero \/ RunExitsNonZero) => IInv'
<1> SUFFICES ASSUME IInv, RunExitsZero \/ RunExitsNonZero PROVE IInv'
  OBVIOUS
<1> USE SleepyRunAssumption DEF IInv, RunExitsZero, RunExitsNonZero, trial, batch, timer, procs,
                                files, past
<1>1. /\ pc = "waiting" /\ pc' = "sha" /\ jvm[count] = "gone"
      /\ \/ exit = 0 /\ code' = 0 /\ UNCHANGED failureLog
         \/ /\ exit # 0 /\ code' = 1337
            /\ failureLog' = IF failureLog = NoFail THEN Unlogged ELSE failureLog
      /\ UNCHANGED <<phase, probes, probeFails, run, fails, seen, count, clock, deadline, whole,
                     began, raising, jvm, exit, sleepy, shaFile, writers, causeRows, taken,
                     wrote, oldLog>>
  OBVIOUS
<1> HIDE DEF RunExitsZero, RunExitsNonZero
<1>2. TypeOK'
  BY <1>1 DEF TypeOK, Logged
<1>3. Lives' /\ Counts' /\ RowsAreOfTheRun'
  BY <1>1 DEF Lives, NobodyLeft, Counts, RowsAreOfTheRun, Running
<1>4. Timing'
  BY <1>1 DEF Timing, Running
<1>5. Log'
  BY <1>1 DEF Log, Running, Undecided, Traces, TypeOK
<1> QED BY <1>2, <1>3, <1>4, <1>5

(* subprocess.run runs out of time.                                        *)
LEMMA RunExpiresKeeps == IInv /\ (RunTimesOut \/ BudgetRunsOut) => IInv'
<1> SUFFICES ASSUME IInv, RunTimesOut \/ BudgetRunsOut PROVE IInv'
  OBVIOUS
<1> USE SleepyRunAssumption DEF IInv, RunTimesOut, BudgetRunsOut, Expire, trial, batch, timer,
                                files, past
<1>1. /\ pc = "waiting" /\ clock >= deadline
      /\ jvm[count] # "gone"
      /\ jvm' \in {jvm, [jvm EXCEPT ![count] = "gone"]}
      /\ \/ whole /\ pc' = "mark" /\ UNCHANGED raising
         \/ ~ whole /\ pc' = "sha" /\ raising' = TRUE
      /\ UNCHANGED <<phase, probes, probeFails, run, fails, seen, count, clock, deadline, whole,
                     began, code, exit, sleepy, failureLog, shaFile, writers, causeRows, taken,
                     wrote, oldLog>>
  OBVIOUS
<1> HIDE DEF RunTimesOut, BudgetRunsOut, Expire
<1>2. raising' \in BOOLEAN
  <2>1. raising \in BOOLEAN
    BY DEF TypeOK
  <2>2. raising' = raising \/ raising' = TRUE
    BY <1>1
  <2> QED BY ONLY <2>1, <2>2, Zenon
<1>3. /\ jvm' \in [RunIds -> JvmStates]
      /\ \A n \in RunIds : jvm'[n] # "gone" => jvm[n] # "gone"
  BY <1>1 DEF TypeOK, JvmStates
<1>4. TypeOK'
  <2>1. pc' \in {"mark", "sha"}
    BY <1>1
  <2> QED BY <1>1, <1>2, <1>3, <2>1 DEF TypeOK
<1>5. Lives' /\ Counts' /\ RowsAreOfTheRun'
  BY <1>1, <1>3 DEF Lives, NobodyLeft, Counts, RowsAreOfTheRun, Running, TypeOK
<1>6. Timing'
  BY <1>1 DEF Timing, Running, TypeOK, OwnTimeout
<1>7. Log'
  BY <1>1 DEF Log, Running, Undecided
<1> QED BY <1>4, <1>5, <1>6, <1>7

(* The driver writes the timeout to failure.log.                           *)
LEMMA MarkTimeoutKeeps == IInv /\ MarkTimeout => IInv'
<1> SUFFICES ASSUME IInv, MarkTimeout PROVE IInv'
  OBVIOUS
<1> USE SleepyRunAssumption DEF IInv, MarkTimeout, trial, batch, timer, procs, files
<1>1. TypeOK'
  BY DEF TypeOK, Logged
<1>2. Lives' /\ Counts' /\ RowsAreOfTheRun'
  BY DEF Lives, NobodyLeft, Counts, RowsAreOfTheRun, Running
<1>3. Timing'
  BY DEF Timing, Running, OwnTimeout
<1>4. Log'
  BY DEF Log, Running, Undecided
<1> QED BY <1>1, <1>2, <1>3, <1>4

(* finally: the two files.                                                 *)
LEMMA TakeFilesKeeps == IInv /\ (TakeShaFile \/ TakeCauseFile) => IInv'
<1> SUFFICES ASSUME IInv, TakeShaFile \/ TakeCauseFile PROVE IInv'
  OBVIOUS
<1> USE SleepyRunAssumption DEF IInv, TakeShaFile, TakeCauseFile, ReadCauseFile, trial, batch,
                                timer, procs, past
<1>1. /\ pc \in {"sha", "cause"} /\ pc' \in {"cause", "kill"}
      /\ shaFile' = FALSE \/ UNCHANGED shaFile
      /\ writers' \in {writers, {}} /\ causeRows' \in {causeRows, {}}
      /\ pc' = "kill" => causeRows' = {}
      /\ taken' \in {taken, taken \cup ({count} \X causeRows)}
      /\ UNCHANGED <<phase, probes, probeFails, run, fails, seen, count, clock, deadline, whole,
                     began, code, raising, jvm, exit, sleepy, failureLog, wrote, oldLog>>
  OBVIOUS
<1> HIDE DEF TakeShaFile, TakeCauseFile, ReadCauseFile
<1>2. shaFile' \in BOOLEAN
  <2>1. shaFile \in BOOLEAN
    BY DEF TypeOK
  <2>2. shaFile' = shaFile \/ shaFile' = FALSE
    BY <1>1
  <2> QED BY ONLY <2>1, <2>2, Zenon
<1>3. taken' \subseteq RunIds \X Row
  BY <1>1 DEF TypeOK, Counts, Running
<1>4. TypeOK'
  BY <1>1, <1>2, <1>3 DEF TypeOK
<1>5. Lives' /\ Counts'
  BY <1>1 DEF Lives, NobodyLeft, Counts, Running
<1>6. RowsAreOfTheRun'
  <2>1. \A x \in {count} \X causeRows : x[1] = x[2].of \/ x[2].late
    BY DEF RowsAreOfTheRun
  <2> QED BY <1>1, <2>1 DEF RowsAreOfTheRun
<1>7. Timing'
  BY <1>1 DEF Timing, Running, OwnTimeout
<1>8. Log'
  BY <1>1 DEF Log, Running, Undecided
<1> QED BY <1>4, <1>5, <1>6, <1>7, <1>8

(* One of them is missing.                                                 *)
LEMMA FileMissingKeeps == IInv /\ (ProbeGivesUp \/ SearchCrashes) => IInv'
<1> SUFFICES ASSUME IInv, ProbeGivesUp \/ SearchCrashes PROVE IInv'
  OBVIOUS
<1> USE SleepyRunAssumption DEF IInv, ProbeGivesUp, SearchCrashes, FileMissing, LocalsEnd, trial,
                                batch, files, past
<1>1. /\ pc \in {"sha", "cause"}
      /\ \/ phase = "probe" /\ pc' = "gaveUp" /\ raising' = FALSE
         \/ phase = "search" /\ pc' = "crashed" /\ UNCHANGED raising
      /\ deadline' = 0 /\ whole' = TRUE /\ began' = 0 /\ code' = 0 /\ exit' = 0
      /\ UNCHANGED <<phase, probes, probeFails, run, fails, seen, count, clock, jvm, sleepy,
                     failureLog, shaFile, writers, causeRows, taken, wrote, oldLog>>
  OBVIOUS
<1> HIDE DEF ProbeGivesUp, SearchCrashes, FileMissing, LocalsEnd
<1>2. raising' \in BOOLEAN /\ whole' \in BOOLEAN
  <2>1. raising \in BOOLEAN
    BY DEF TypeOK
  <2>2. (raising' = raising \/ raising' = FALSE) /\ whole' = TRUE
    BY <1>1
  <2> QED BY ONLY <2>1, <2>2, Zenon
<1>3. TypeOK'
  <2>1. pc' \in {"gaveUp", "crashed"}
    BY <1>1
  <2> QED BY <1>1, <1>2, <2>1 DEF TypeOK
<1>4. Lives' /\ Counts' /\ RowsAreOfTheRun'
  BY <1>1 DEF Lives, NobodyLeft, Counts, RowsAreOfTheRun, Running
<1>5. Timing' /\ Log'
  BY <1>1 DEF Timing, Log, Running
<1> QED BY <1>3, <1>4, <1>5

(* killall, and back to threads_to_slow or the batch.                      *)
LEMMA KillJvmsKeeps == IInv /\ KillJvms => IInv'
<1> SUFFICES ASSUME IInv, KillJvms PROVE IInv'
  OBVIOUS
<1> USE SleepyRunAssumption DEF IInv, KillJvms, Leave, Raise, ProbeReturns, RunReturns, LocalsEnd,
                                trial, batch, files, past
<1>1. /\ pc = "kill" /\ jvm' = [n \in RunIds |-> "gone"]
      /\ ~ raising'
      /\ pc' \in {"gaveUp", "between", "outOfTime"}
      /\ (pc' = "gaveUp" => phase = "probe") /\ (pc' = "outOfTime" => phase = "search")
      /\ pc' = "outOfTime" => raising
      /\ deadline' = 0 /\ whole' = TRUE /\ began' = 0 /\ code' = 0 /\ exit' = 0
      /\ UNCHANGED <<phase, count, clock, sleepy, failureLog, shaFile, writers, causeRows, taken,
                     wrote, oldLog>>
  BY DEF TypeOK
<1>2. /\ probes' \in 0 .. Runs /\ probeFails' \in 0 .. probes'
      /\ run' \in 0 .. Runs /\ fails' \in 0 .. run'
  <2>1. CASE raising
    BY <2>1 DEF TypeOK
  <2>2. CASE ~ raising /\ phase = "probe"
    <3>1. probes < Runs
      BY <1>1, <2>2 DEF Counts, Running
    <3> QED BY <2>2, <3>1 DEF TypeOK
  <2>3. CASE ~ raising /\ phase = "search"
    <3>1. run + 1 \in 0 .. Runs
      BY <1>1, <2>3, RunsLeft DEF Log, Running
    <3> QED BY <2>3, <3>1 DEF TypeOK
  <2> QED BY <2>1, <2>2, <2>3 DEF TypeOK
<1>3. raising' \in BOOLEAN /\ whole' \in BOOLEAN
  <2>1. raising' = FALSE
    OBVIOUS
  <2> QED BY <1>1, <2>1, Zenon
<1> HIDE DEF KillJvms, Leave, Raise, ProbeReturns, RunReturns, LocalsEnd
<1>4. jvm' \in [RunIds -> JvmStates] /\ \A n \in RunIds : jvm'[n] = "gone"
  BY <1>1 DEF JvmStates
<1>5. TypeOK'
  BY <1>1, <1>2, <1>3, <1>4 DEF TypeOK
<1>6. Lives'
  BY <1>1, <1>4 DEF Lives, TypeOK
<1>7. Counts' /\ RowsAreOfTheRun'
  BY <1>1 DEF Counts, RowsAreOfTheRun, Running
<1>8. Timing'
  BY <1>1 DEF Timing, Running
<1>9. Log'
  BY <1>1 DEF Log, Running
<1> QED BY <1>5, <1>6, <1>7, <1>8, <1>9

(* Time passes.                                                            *)
LEMMA TickKeeps == IInv /\ Tick => IInv'
<1> SUFFICES ASSUME IInv, Tick PROVE IInv'
  OBVIOUS
<1> USE SleepyRunAssumption DEF IInv, Tick, trial, batch, timer, procs, files, past
<1>1. TypeOK'
  BY DEF TypeOK
<1>2. Lives' /\ Counts' /\ RowsAreOfTheRun'
  BY DEF Lives, NobodyLeft, Counts, RowsAreOfTheRun, Running
<1>3. Timing'
  BY DEF Timing, TypeOK, Running, OwnTimeout
<1>4. Log'
  BY DEF Log, Running, Undecided
<1> QED BY <1>1, <1>2, <1>3, <1>4

(* Every step keeps the invariant.                                         *)
LEMMA StepsKeep == IInv /\ [Next]_vars => IInv'
<1> SUFFICES ASSUME IInv, [Next]_vars PROVE IInv'
  OBVIOUS
<1>1. CASE UNCHANGED vars
  <2> USE <1>1 DEF vars, trial, batch, timer, procs, files, past, IInv
  <2>1. TypeOK' /\ Lives' /\ Counts'
    BY DEF TypeOK, Lives, NobodyLeft, Counts, Running
  <2>2. RowsAreOfTheRun' /\ Timing'
    BY DEF RowsAreOfTheRun, Timing, Running, OwnTimeout
  <2>3. Log'
    BY DEF Log, Running, Undecided
  <2> QED BY <2>1, <2>2, <2>3
<1> QED
  BY <1>1, JvmKeeps, MethodEndsKeeps, NextMethodKeeps, BatchBeginsKeeps, RefuseRunKeeps,
     StartsKeeps, RunExitsKeeps, RunExpiresKeeps, MarkTimeoutKeeps, TakeFilesKeeps,
     FileMissingKeeps, KillJvmsKeeps, TickKeeps DEF Next, Driver

(* The inductive invariant of driver and JVMs.                             *)
THEOREM RunInvariant == Spec => []IInv
BY Initially, StepsKeep, PTL DEF Spec

-----------------------------------------------------------------------------
(* Types; in particular a deadline never lies behind the budget.           *)
THEOREM RunTypes == Spec => []TypeOK
<1>1. IInv => TypeOK
  BY DEF IInv
<1> QED BY <1>1, RunInvariant, PTL

(* Orphans of probes may live on into later test methods, but a search     *)
(* begins after a probe that got to killall, and no run of it has a JVM    *)
(* beside its own.                                                         *)
THEOREM SearchesHaveNoOrphans == Spec => []SearchesRunAlone
<1>1. IInv => SearchesRunAlone
  BY DEF IInv, Lives, NobodyLeft, SearchesRunAlone
<1> QED BY <1>1, RunInvariant, PTL

(* A hang had its whole timeout, and TimeoutError means the budget is gone.*)
THEOREM HangsAreHangs == Spec => []HangIsNotBudget
<1>1. IInv => HangIsNotBudget
  BY DEF IInv, Timing, OwnTimeout, HangIsNotBudget
<1> QED BY <1>1, RunInvariant, PTL

(* Every row put down to a run was written by the JVM of that run, or in   *)
(* the moment before killall by that of an earlier one.                    *)
THEOREM RowsStayWithTheirRun == Spec => []RowsOfTheirRun
<1>1. IInv => RowsOfTheirRun
  BY DEF IInv, RowsAreOfTheRun, RowsOfTheirRun
<1> QED BY <1>1, RunInvariant, PTL

-----------------------------------------------------------------------------
(* The first state is the first state of a batch.                          *)
LEMMA BatchStarts == Init => Batch!BatchInit
BY DEF Init, Kept, Batch!BatchInit, Logged, Batch!Logged

(* A run of the search that returns is one of the four of StableBatch.     *)
LEMMA ReturnsOfTheBatch ==
  IInv /\ KillJvms /\ phase = "search" /\ ~ raising => Batch!DoRun
<1> SUFFICES ASSUME IInv, KillJvms, phase = "search", ~ raising PROVE Batch!DoRun
  OBVIOUS
<1> USE SleepyRunAssumption DEF IInv
<1>1. /\ pc = "kill" /\ pc' = "between" /\ UNCHANGED <<phase, failureLog, oldLog, wrote>>
      /\ run' = run + 1
      /\ \/ code = 0 /\ UNCHANGED <<fails, seen>>
         \/ /\ code # 0
            /\ fails' = fails + 1
            /\ seen' = [seen EXCEPT ![EndedIn] = @ + 1]
  BY DEF KillJvms, Leave, Raise, ProbeReturns, RunReturns, files, past
<1>2. Kept = oldLog /\ Kept' = failureLog
  BY <1>1 DEF Kept
<1>3. Batch!Undecided
  BY <1>1 DEF Log, Running, Undecided, IsStableRatio, Batch!Undecided, Batch!Stable,
     Batch!Hopeless, Batch!IsStableRatio
<1>4. CASE code = 0
  <2>1. Batch!RunPasses
    BY <1>1, <1>2, <1>3, <1>4 DEF Batch!RunPasses, Log
  <2> QED BY <2>1 DEF Batch!DoRun
<1>5. CASE code # 0
  <2>1. Batch!RunEndsIn(EndedIn)
    BY <1>1, <1>3, <1>5 DEF Batch!RunEndsIn
  <2>2. CASE wrote
    <3>1. EndedIn = failureLog /\ failureLog \in Traces \cup {Timeout}
      BY <2>2, <1>1 DEF EndedIn, Log, Running
    <3>2. CASE failureLog = Timeout
      BY <2>1, <3>1, <3>2, <1>2 DEF Batch!RunTimesOut, Batch!DoRun
    <3>3. CASE failureLog \in Traces
      BY <2>1, <3>1, <3>3, <1>2 DEF Batch!RunFails, Batch!DoRun
    <3> QED BY <3>1, <3>2, <3>3
  <2>3. CASE ~ wrote
    <3>1. EndedIn = Unlogged
      BY <2>3 DEF EndedIn
    <3>2. failureLog = IF oldLog = NoFail THEN Unlogged ELSE oldLog
      BY <2>3, <1>1, <1>5 DEF Log
    <3>3. Batch!RunDiesUnlogged
      BY <2>1, <3>1, <3>2, <1>2 DEF Batch!RunDiesUnlogged
    <3> QED BY <3>3 DEF Batch!DoRun
  <2> QED BY <2>2, <2>3
<1> QED BY <1>4, <1>5

(* Nothing else is seen there than such a return and the start of a batch: *)
(* probes, orphans, setup and runs that raise are not.                     *)
LEMMA BatchSteps == IInv /\ [Next]_vars => [Batch!BatchNext]_(Batch!batchVars)
<1> SUFFICES ASSUME IInv, [Next]_vars PROVE [Batch!BatchNext]_(Batch!batchVars)
  OBVIOUS
<1> USE SleepyRunAssumption DEF IInv, Batch!batchVars
<1>1. CASE StartSearch \/ BeginBatch
  <2>1. /\ phase' = "search" /\ pc' = "between" /\ run' = 0 /\ fails' = 0 /\ failureLog' = NoFail
        /\ seen' = [f \in Logged |-> 0]
    BY <1>1 DEF StartSearch, BeginBatch, BatchDone, NewBatch
  <2>2. Batch!BeginBatch
    BY <2>1 DEF Batch!BeginBatch, Kept, Logged, Batch!Logged
  <2> QED BY <2>2 DEF Batch!BatchNext
<1>2. CASE KillJvms
  <2>1. CASE phase = "search" /\ ~ raising
    BY <1>2, <2>1, ReturnsOfTheBatch DEF Batch!BatchNext
  <2>2. CASE phase # "search" \/ raising
    <3>1. UNCHANGED <<run, fails, seen, phase, oldLog>> /\ pc = "kill"
      BY <1>2, <2>2 DEF KillJvms, Leave, Raise, ProbeReturns, RunReturns, batch, past
    <3>2. pc' # "between" \/ phase # "search"
      BY <1>2, <2>2 DEF KillJvms, Leave, Raise
    <3> QED BY <3>1, <3>2 DEF Kept
  <2> QED BY <2>1, <2>2
<1>3. ASSUME NEW n \in RunIds, Jvm(n) PROVE UNCHANGED Batch!batchVars
  <2>1. /\ jvm[n] # "gone"
        /\ UNCHANGED <<phase, pc, run, fails, seen, oldLog>>
    BY <1>3, JvmSteps
  <2>2. ~ (phase = "search" /\ pc = "between")
    BY <2>1 DEF Lives, NobodyLeft
  <2> QED BY <2>1, <2>2 DEF Kept
<1>4. CASE NextMethod \/ SetupFails
  BY <1>4 DEF NextMethod, SetupFails, MethodDone, Kept, batch
<1>5. CASE RefuseRun \/ StartProbe \/ StartRun
  BY <1>5 DEF RefuseRun, StartProbe, StartRun, Starts, Kept, batch
<1>6. CASE RunExitsZero \/ RunExitsNonZero \/ RunTimesOut \/ MarkTimeout \/ BudgetRunsOut
  BY <1>6 DEF RunExitsZero, RunExitsNonZero, RunTimesOut, MarkTimeout, BudgetRunsOut, Expire,
     Kept, batch, past
<1>7. CASE TakeShaFile \/ TakeCauseFile \/ ProbeGivesUp \/ SearchCrashes
  BY <1>7 DEF TakeShaFile, TakeCauseFile, ReadCauseFile, ProbeGivesUp, SearchCrashes,
     FileMissing, Kept, batch, past
<1>8. CASE ProbesRejected \/ Tick \/ UNCHANGED vars
  BY <1>8 DEF ProbesRejected, Tick, vars, Kept, batch, files, past
<1> QED BY <1>1, <1>2, <1>3, <1>4, <1>5, <1>6, <1>7, <1>8 DEF Next, Driver

(* A batch of real runs is a batch as StableBatch describes it.            *)
THEOREM BatchRefinement == Spec => ImplementsBatch
BY BatchStarts, BatchSteps, RunInvariant, PTL DEF Spec, Batch!BatchSpec, ImplementsBatch
=============================================================================
