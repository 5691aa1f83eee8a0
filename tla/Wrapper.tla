------------------------------- MODULE Wrapper -------------------------------
(***************************************************************************)
(* Wrapper.java: what instrumented code calls inside the JVM under test.   *)
(* Every thread of the test runs into interception sites (a cause at a     *)
(* line); there it looks up its own id and, if it is the thread to slow at *)
(* a chosen line, naps for half as long as the last nap at that line.      *)
(*                                                                         *)
(* Threads interleave between the steps below.  trackThread and            *)
(* writeCauseInterceptionSleepReport run under the monitor of the class,   *)
(* napTime's bookkeeping under the lock lineToSleeps, and the lookup of an *)
(* id under none.  All rows are flushed as they are written, so what is in *)
(* a file in some state is what is left if the JVM is killed in it.        *)
(*                                                                         *)
(* An operator whose comment begins with "Slip" is a plausible bug; no     *)
(* action uses it.                                                         *)
(***************************************************************************)
EXTENDS Integers, FiniteSets, Functions

CONSTANTS Threads, Main,   \* threads of the JVM; main runs the test method
          Untracked,       \* threads older than the instrumentation of Thread
          Tasks,           \* ForkJoinTasks
          Traces,          \* stack traces at which threads are created
          NonceRange,      \* NONCE_RANGE
          Sites,           \* pairs <<cause, line>> that are instrumented
          DoExecSite,      \* the one at the start of ForkJoinTask.doExec
          Chosen,          \* linesToSleepDuringRun
          Target,          \* threadIdToSlow
          MaxSleep,        \* maxSleepTimeMS
          Thresholds,      \* sizes past which a HashMap moves to a new table
          MaxCalls,        \* bound on the interceptions of all threads
          MainId,          \* "<main>"
          NoSleep,         \* "0", the threadIdToSlow of no thread
          Nobody           \* null

Objects == Threads \cup Tasks
Lines   == {s[2] : s \in Sites}
Causes  == {s[1] : s \in Sites}
Ids     == {MainId} \cup (Traces \X (0 .. NonceRange - 1))

ASSUME WrapperAssumption ==
  /\ Main \in Threads
  /\ Untracked \subseteq Threads \ {Main}
  /\ DoExecSite \in Sites
  /\ IsFiniteSet(Threads) /\ IsFiniteSet(Sites)
  /\ NonceRange \in Nat \ {0}
  /\ MaxSleep \in Nat
  /\ Thresholds \subseteq Nat
  /\ MaxCalls \in Nat
  /\ Nobody \notin Objects \cup Ids
  /\ NoSleep \notin Ids \cup {Nobody}

VARIABLES threadToID, stackTraceToNextNonce, threadToForkJoinTask,
          sleepThreads,    \* SLEEP_THREADS
          lineToSleeps,    \* line -> number of naps
          ledger,          \* site -> [count, total]; absent while count is 0
          recordedSleeps,
          sleepCalls,      \* the file sleepCalls.<tid>
          causeFile,       \* last total per site in causeToInterception.csv
          monitor,         \* who holds the monitor of the class
          mapLock,         \* who holds the lock lineToSleeps
          pc,              \* per thread: where it is
          site, tid, amt,  \* per thread: locals of its call
          causesLeft, rowsLeft, keys,  \* iterators of the report it writes
          making,          \* the object whose trackThread call it is in
          task,            \* the task whose doExec it is in (environment)
          calls,           \* interceptions so far
          napped, hits     \* history: ms napped per line; hits that returned

identity == <<threadToID, stackTraceToNextNonce, threadToForkJoinTask>>
naps     == <<lineToSleeps, ledger, napped>>
records  == <<recordedSleeps, sleepCalls, hits>>
locals   == <<site, tid, amt>>
iters    == <<causesLeft, rowsLeft, keys>>
env      == <<calls, making, task>>
vars == <<identity, naps, records, locals, iters, env, sleepThreads, causeFile,
          monitor, mapLock, pc>>

PCs == {"unborn", "ready", "track", "map", "lookup", "nap", "book",
        "put", "report", "cause", "rows", "sleep", "asleep", "record", "add", "print"}

TypeOK ==
  /\ threadToID \in [Objects -> Ids \cup {Nobody}]
  /\ stackTraceToNextNonce \in [Traces -> 0 .. NonceRange - 1]
  /\ threadToForkJoinTask \in [Threads -> Tasks \cup {Nobody}]
  /\ sleepThreads \in BOOLEAN
  /\ lineToSleeps \in [Lines -> Nat]
  /\ ledger \in [Sites -> [count : Nat, total : Nat]]
  /\ causeFile \in [Sites -> Nat]
  /\ recordedSleeps \subseteq (Ids \cup {Nobody}) \X Lines
  /\ sleepCalls \subseteq (Ids \cup {Nobody}) \X Lines
  /\ monitor \in Threads \cup {Nobody}
  /\ mapLock \in Threads \cup {Nobody}
  /\ pc \in [Threads -> PCs]
  /\ calls \in 0 .. MaxCalls
  /\ site \in [Threads -> Sites]
  /\ tid \in [Threads -> Ids \cup {Nobody}]
  /\ amt \in [Threads -> 0 .. MaxSleep]

-----------------------------------------------------------------------------

(* After Wrapper.init, on the main thread and before any test code.        *)
Init ==
  /\ threadToID = [o \in Objects |-> IF o = Main THEN MainId ELSE Nobody]
  /\ stackTraceToNextNonce = [t \in Traces |-> 0]
  /\ threadToForkJoinTask = [t \in Threads |-> Nobody]
  /\ sleepThreads = FALSE
  /\ lineToSleeps = [l \in Lines |-> 0]
  /\ ledger = [s \in Sites |-> [count |-> 0, total |-> 0]]
  /\ recordedSleeps = {} /\ sleepCalls = {} /\ hits = {}
  /\ causeFile = [s \in Sites |-> 0]
  /\ napped = [l \in Lines |-> 0]
  /\ monitor = Nobody /\ mapLock = Nobody
  /\ pc = [t \in Threads |-> IF t \in Untracked \cup {Main} THEN "ready" ELSE "unborn"]
  /\ calls = 0
  /\ site = [t \in Threads |-> DoExecSite]
  /\ tid = [t \in Threads |-> Nobody]
  /\ amt = [t \in Threads |-> 0]
  /\ causesLeft = [t \in Threads |-> {}]
  /\ rowsLeft = [t \in Threads |-> {}]
  /\ keys = [t \in Threads |-> {}]
  /\ making = [t \in Threads |-> Nobody]
  /\ task = [t \in Threads |-> Nobody]

Goto(t, label) == pc' = [pc EXCEPT ![t] = label]

(* extraSleep returns to the test; its locals are gone.                    *)
Return(t) ==
  /\ Goto(t, "ready")
  /\ site' = [site EXCEPT ![t] = DoExecSite]
  /\ tid' = [tid EXCEPT ![t] = Nobody]
  /\ amt' = [amt EXCEPT ![t] = 0]

(* The test method, or a @Before method, starts on the main thread.        *)
SetSleep ==
  /\ pc[Main] = "ready"
  /\ ~ sleepThreads
  /\ sleepThreads' = TRUE
  /\ UNCHANGED <<identity, naps, records, locals, iters, env, causeFile,
                 monitor, mapLock, pc>>

-----------------------------------------------------------------------------
(* trackThread, called at the end of the constructor of a thread or a task *)
(* by the thread that creates it.                                          *)

Untouched(o) ==
  /\ threadToID[o] = Nobody
  /\ \A t \in Threads : making[t] # o
  /\ o \in Threads => pc[o] = "unborn"

TrackThreadEnter(t, o) ==
  /\ pc[t] = "ready"
  /\ monitor = Nobody
  /\ Untouched(o)
  /\ monitor' = t
  /\ making' = [making EXCEPT ![t] = o]
  /\ Goto(t, "track")
  /\ UNCHANGED <<identity, naps, records, locals, iters, calls, task, sleepThreads,
                 causeFile, mapLock>>

(* Slip: the nonce is not wrapped at NONCE_RANGE.                          *)
TrackThreadNoWrap(t, trace) ==
  LET nonce == stackTraceToNextNonce[trace] + 1
      o     == making[t]
  IN  /\ pc[t] = "track"
      /\ stackTraceToNextNonce' = [stackTraceToNextNonce EXCEPT ![trace] = nonce]
      /\ threadToID' = [threadToID EXCEPT ![o] = <<trace, nonce>>]
      /\ monitor' = Nobody
      /\ making' = [making EXCEPT ![t] = Nobody]
      /\ pc' = [p \in Threads |-> IF p \in {t, o} THEN "ready" ELSE pc[p]]
      /\ UNCHANGED <<threadToForkJoinTask, naps, records, locals, iters, calls, task,
                     sleepThreads, causeFile, mapLock>>

(* The object gets its id; if it is a thread it may be started from now on. *)
TrackThread(t, trace) ==
  LET nonce == (stackTraceToNextNonce[trace] + 1) % NonceRange
      o     == making[t]
  IN  /\ pc[t] = "track"
      /\ stackTraceToNextNonce' = [stackTraceToNextNonce EXCEPT ![trace] = nonce]
      /\ threadToID' = [threadToID EXCEPT ![o] = <<trace, nonce>>]
      /\ monitor' = Nobody
      /\ making' = [making EXCEPT ![t] = Nobody]
      /\ pc' = [p \in Threads |-> IF p \in {t, o} THEN "ready" ELSE pc[p]]
      /\ UNCHANGED <<threadToForkJoinTask, naps, records, locals, iters, calls, task,
                     sleepThreads, causeFile, mapLock>>

(* doExec of a tracked task: mapThreadToForkJoinTask, then the interception *)
(* at the start of doExec.  Nothing is called when doExec returns.         *)
DoExecEnter(t, k) ==
  /\ pc[t] = "ready"
  /\ monitor = Nobody
  /\ calls < MaxCalls
  /\ threadToID[k] # Nobody
  /\ \A p \in Threads : task[p] # k
  /\ monitor' = t
  /\ task' = [task EXCEPT ![t] = k]
  /\ calls' = calls + 1
  /\ Goto(t, "map")
  /\ UNCHANGED <<identity, naps, records, locals, iters, making, sleepThreads,
                 causeFile, mapLock>>

MapThreadToForkJoinTask(t) ==
  /\ pc[t] = "map"
  /\ threadToForkJoinTask' = [threadToForkJoinTask EXCEPT ![t] = task[t]]
  /\ monitor' = Nobody
  /\ site' = [site EXCEPT ![t] = DoExecSite]
  /\ Goto(t, "lookup")
  /\ UNCHANGED <<threadToID, stackTraceToNextNonce, naps, records, tid, amt, iters,
                 env, sleepThreads, causeFile, mapLock>>

DoExecReturns(t) ==
  /\ pc[t] = "ready"
  /\ task[t] # Nobody
  /\ task' = [task EXCEPT ![t] = Nobody]
  /\ UNCHANGED <<identity, naps, records, locals, iters, calls, making, sleepThreads,
                 causeFile, monitor, mapLock, pc>>

-----------------------------------------------------------------------------
(* extraSleep                                                              *)

ExtraSleep(t, s) ==
  /\ pc[t] = "ready"
  /\ calls < MaxCalls
  /\ site' = [site EXCEPT ![t] = s]
  /\ calls' = calls + 1
  /\ Goto(t, "lookup")
  /\ UNCHANGED <<identity, naps, records, tid, amt, iters, making, task, sleepThreads,
                 causeFile, monitor, mapLock>>

SpecialTID(t) ==
  IF threadToForkJoinTask[t] # Nobody
  THEN threadToID[threadToForkJoinTask[t]]
  ELSE threadToID[t]

(* getSpecialTID reads unsynchronized WeakHashMaps: while another thread   *)
(* puts into one of them, an entry of that map may be missed.              *)
Putting(label) == monitor # Nobody /\ pc[monitor] = label

IdsSeen(t) ==
  {SpecialTID(t)}
  \cup (IF Putting("track") THEN {Nobody} ELSE {})
  \cup (IF Putting("map") THEN {threadToID[t]} ELSE {})

ShouldNap(t, id) ==
  id # Nobody /\ sleepThreads /\ id = Target /\ site[t][2] \in Chosen

(* extraSleep up to the decision to nap.  The end of extraSleep, after the *)
(* decision or the nap, only does anything in a run that slows no thread.  *)
LookUp(t) ==
  /\ pc[t] = "lookup"
  /\ \E id \in IdsSeen(t) :
       \/ /\ ShouldNap(t, id)
          /\ Goto(t, "nap")
          /\ tid' = [tid EXCEPT ![t] = id]
          /\ UNCHANGED <<site, amt>>
       \/ /\ ~ ShouldNap(t, id)
          /\ Target = NoSleep
          /\ Goto(t, "record")
          /\ tid' = [tid EXCEPT ![t] = id]
          /\ UNCHANGED <<site, amt>>
       \/ /\ ~ ShouldNap(t, id)
          /\ Target # NoSleep
          /\ Return(t)
  /\ UNCHANGED <<identity, naps, records, iters, env, sleepThreads, causeFile,
                 monitor, mapLock>>

(* The end of extraSleep: report a line once per thread id.                *)
Hit(t) == <<tid[t], site[t][2]>>

(* Slip: the line alone decides whether a hit is new.                      *)
RecordByLine(t) ==
  /\ pc[t] = "record"
  /\ \/ /\ \A h \in recordedSleeps : h[2] # Hit(t)[2]
        /\ Goto(t, "add")
        /\ UNCHANGED <<locals, hits>>
     \/ /\ \E h \in recordedSleeps : h[2] = Hit(t)[2]
        /\ Return(t)
        /\ hits' = hits \cup {Hit(t)}
  /\ UNCHANGED <<identity, naps, recordedSleeps, sleepCalls, iters, env,
                 sleepThreads, causeFile, monitor, mapLock>>

Record(t) ==
  /\ pc[t] = "record"
  /\ \/ /\ Hit(t) \notin recordedSleeps
        /\ Goto(t, "add")
        /\ UNCHANGED <<locals, hits>>
     \/ /\ Hit(t) \in recordedSleeps
        /\ Return(t)
        /\ hits' = hits \cup {Hit(t)}
  /\ UNCHANGED <<identity, naps, recordedSleeps, sleepCalls, iters, env,
                 sleepThreads, causeFile, monitor, mapLock>>

(* recordedSleeps is an unsynchronized HashSet: of two simultaneous        *)
(* additions one may be lost.                                              *)
Add(t) ==
  /\ pc[t] = "add"
  /\ \/ recordedSleeps' = recordedSleeps \cup {Hit(t)}
     \/ /\ \E p \in Threads \ {t} : pc[p] = "add"
        /\ UNCHANGED recordedSleeps
  /\ Goto(t, "print")
  /\ UNCHANGED <<identity, naps, sleepCalls, hits, locals, iters, env, sleepThreads,
                 causeFile, monitor, mapLock>>

PrintHit(t) ==
  /\ pc[t] = "print"
  /\ sleepCalls' = sleepCalls \cup {Hit(t)}
  /\ hits' = hits \cup {Hit(t)}
  /\ Return(t)
  /\ UNCHANGED <<identity, naps, recordedSleeps, iters, env, sleepThreads,
                 causeFile, monitor, mapLock>>

-----------------------------------------------------------------------------
(* napTime                                                                 *)

(* floor(maxSleepTimeMS * 0.5 ^ n)                                         *)
NapLength(n) == MaxSleep \div 2 ^ n

(* Slip: the block is not synchronized.                                    *)
NapEnterUnlocked(t) ==
  /\ pc[t] = "nap"
  /\ mapLock' = t
  /\ amt' = [amt EXCEPT ![t] = NapLength(lineToSleeps[site[t][2]])]
  /\ Goto(t, "book")
  /\ UNCHANGED <<identity, naps, records, site, tid, iters, env, sleepThreads,
                 causeFile, monitor>>

NapEnter(t) ==
  /\ pc[t] = "nap"
  /\ mapLock = Nobody
  /\ mapLock' = t
  /\ amt' = [amt EXCEPT ![t] = NapLength(lineToSleeps[site[t][2]])]
  /\ Goto(t, "book")
  /\ UNCHANGED <<identity, naps, records, site, tid, iters, env, sleepThreads,
                 causeFile, monitor>>

(* What is booked for a nap of some length at the site of t.               *)
Book(t) ==
  IF amt[t] > 0
  THEN /\ ledger' = [ledger EXCEPT ![site[t]] = [count |-> @.count + 1,
                                                 total |-> @.total + amt[t]]]
       /\ lineToSleeps' = [lineToSleeps EXCEPT ![site[t][2]] = @ + 1]
  ELSE UNCHANGED <<ledger, lineToSleeps>>

(* The rows of the report, a HashMap per cause: the sites that are booked, *)
(* and the one a thread is putting, whose pair is (0, 0) until it books.   *)
Booked == {s \in Sites : ledger[s].count > 0}
BeingPut == {site[u] : u \in {p \in Threads : pc[p] = "put"}}
RowsOf(c) == {s \in Booked \cup BeingPut : s[1] = c}

(* The first nap at a site puts a row.  The put links the row, counts the  *)
(* modification and, past a threshold, moves all rows of the cause to a    *)
(* table of twice the size; it may take until the nap is booked.           *)
NapInsert(t) ==
  /\ pc[t] = "book"
  /\ amt[t] > 0
  /\ site[t] \notin Booked
  /\ Goto(t, "put")
  /\ UNCHANGED <<identity, naps, records, locals, iters, env, sleepThreads,
                 causeFile, monitor, mapLock>>

HasRow(t) == pc[t] = "put" \/ (pc[t] = "book" /\ (amt[t] = 0 \/ site[t] \in Booked))

(* Slip: the nap begins before the report is written.                      *)
NapBookNoReport(t) ==
  /\ HasRow(t)
  /\ Book(t)
  /\ mapLock' = Nobody
  /\ Goto(t, "sleep")
  /\ UNCHANGED <<identity, napped, records, locals, iters, env, sleepThreads,
                 causeFile, monitor>>

NapBook(t) ==
  /\ HasRow(t)
  /\ Book(t)
  /\ mapLock' = Nobody
  /\ Goto(t, "report")
  /\ UNCHANGED <<identity, napped, records, locals, iters, env, sleepThreads,
                 causeFile, monitor>>

(* writeCauseInterceptionSleepReport reads the maps under the monitor but  *)
(* without the lock lineToSleeps.  The outer map is concurrent: its        *)
(* iterator visits what was there when it began and possibly what is added *)
(* while it runs (a cause without rows adds nothing to the report).        *)
ReportEnter(t) ==
  /\ pc[t] = "report"
  /\ monitor = Nobody
  /\ monitor' = t
  /\ \E late \in SUBSET Causes :
       causesLeft' = [causesLeft EXCEPT ![t] = {s[1] : s \in Booked} \cup late]
  /\ Goto(t, "cause")
  /\ UNCHANGED <<identity, naps, records, locals, rowsLeft, keys, env, sleepThreads,
                 causeFile, mapLock>>

(* The map of a cause is a HashMap.  keys are the rows whose modifications *)
(* the iterator counted when it began, rowsLeft the ones it will visit: it *)
(* may meet a row that is just being put before the put is counted.        *)
ReportCause(t, c) ==
  /\ pc[t] = "cause"
  /\ c \in causesLeft[t]
  /\ causesLeft' = [causesLeft EXCEPT ![t] = @ \ {c}]
  /\ \E counted \in {RowsOf(c), RowsOf(c) \cap Booked} :
       /\ keys' = [keys EXCEPT ![t] = counted]
       /\ \E met \in {counted, RowsOf(c)} : rowsLeft' = [rowsLeft EXCEPT ![t] = met]
  /\ Goto(t, "rows")
  /\ UNCHANGED <<identity, naps, records, locals, env, sleepThreads, causeFile,
                 monitor, mapLock>>

(* The rows of the cause being reported are those its iterator counted.    *)
Undisturbed(t) == \A k \in keys[t] : RowsOf(k[1]) = keys[t]

(* The rows of a cause are being moved: the new table is in place before   *)
(* it is filled.                                                           *)
Moving(c) ==
  /\ \E s \in BeingPut : s[1] = c
  /\ Cardinality(RowsOf(c)) - 1 \in Thresholds

ReportRow(t, s) ==
  /\ pc[t] = "rows"
  /\ s \in rowsLeft[t]
  /\ causeFile' = [causeFile EXCEPT ![s] = ledger[s].total]
  /\ rowsLeft' = [rowsLeft EXCEPT ![t] = @ \ {s}]
  /\ UNCHANGED <<identity, naps, records, locals, causesLeft, keys, env, sleepThreads,
                 monitor, mapLock, pc>>

(* The iterator looks for its next row in a table that is not filled yet.  *)
(* (It looks one row ahead; here a row may be passed over up to the moment *)
(* it is written.)                                                         *)
ReportSkips(t, s) ==
  /\ pc[t] = "rows"
  /\ s \in rowsLeft[t]
  /\ Moving(s[1])
  /\ rowsLeft' = [rowsLeft EXCEPT ![t] = @ \ {s}]
  /\ UNCHANGED <<identity, naps, records, locals, causesLeft, keys, env, sleepThreads,
                 causeFile, monitor, mapLock, pc>>

ReportCauseDone(t) ==
  /\ pc[t] = "rows"
  /\ rowsLeft[t] = {}
  /\ keys' = [keys EXCEPT ![t] = {}]
  /\ Goto(t, "cause")
  /\ UNCHANGED <<identity, naps, records, locals, causesLeft, rowsLeft, env,
                 sleepThreads, causeFile, monitor, mapLock>>

DropIterators(t) ==
  /\ causesLeft' = [causesLeft EXCEPT ![t] = {}]
  /\ rowsLeft' = [rowsLeft EXCEPT ![t] = {}]
  /\ keys' = [keys EXCEPT ![t] = {}]

(* nextNode notices a modification it did not count, or get finds no pair  *)
(* for a row that is being moved.                                          *)
Fails(t) ==
  /\ pc[t] = "rows"
  /\ rowsLeft[t] # {}
  /\ ~ Undisturbed(t) \/ \E s \in rowsLeft[t] : Moving(s[1])

(* Slip: the monitor is not given back.                                    *)
ReportThrowsLocked(t) ==
  /\ Fails(t)
  /\ DropIterators(t)
  /\ Return(t)
  /\ UNCHANGED <<identity, naps, records, env, sleepThreads, causeFile, monitor,
                 mapLock>>

(* The exception leaves extraSleep, without the nap, and hits the test,    *)
(* which may or may not go on.                                             *)
ReportThrows(t) ==
  /\ Fails(t)
  /\ monitor' = Nobody
  /\ DropIterators(t)
  /\ Return(t)
  /\ UNCHANGED <<identity, naps, records, env, sleepThreads, causeFile, mapLock>>

ReportExit(t) ==
  /\ pc[t] = "cause"
  /\ causesLeft[t] = {}
  /\ monitor' = Nobody
  /\ Goto(t, "sleep")
  /\ UNCHANGED <<identity, naps, records, locals, iters, env, sleepThreads,
                 causeFile, mapLock>>

FallAsleep(t) ==
  /\ pc[t] = "sleep"
  /\ napped' = [napped EXCEPT ![site[t][2]] = @ + amt[t]]
  /\ Goto(t, "asleep")
  /\ UNCHANGED <<identity, lineToSleeps, ledger, records, locals, iters, env,
                 sleepThreads, causeFile, monitor, mapLock>>

(* Thread.sleep ends by itself or by an interrupt, which is swallowed.     *)
WakeUp(t) ==
  /\ pc[t] = "asleep"
  /\ Return(t)
  /\ UNCHANGED <<identity, naps, records, iters, env, sleepThreads, causeFile,
                 monitor, mapLock>>

-----------------------------------------------------------------------------

(* The rest of a call that has begun.                                      *)
Continue(t) ==
  \/ \E trace \in Traces : TrackThread(t, trace)
  \/ MapThreadToForkJoinTask(t) \/ LookUp(t)
  \/ Record(t) \/ Add(t) \/ PrintHit(t)
  \/ NapEnter(t) \/ NapInsert(t) \/ NapBook(t)
  \/ ReportEnter(t) \/ ReportExit(t) \/ ReportThrows(t) \/ ReportCauseDone(t)
  \/ \E c \in Causes : ReportCause(t, c)
  \/ \E s \in Sites : ReportRow(t, s) \/ ReportSkips(t, s)
  \/ FallAsleep(t) \/ WakeUp(t)

(* What the test may do next.                                              *)
TestStep(t) ==
  \/ \E o \in Objects : TrackThreadEnter(t, o)
  \/ \E k \in Tasks : DoExecEnter(t, k)
  \/ DoExecReturns(t)
  \/ \E s \in Sites : ExtraSleep(t, s)

Next == SetSleep \/ \E t \in Threads : Continue(t) \/ TestStep(t)

Spec == Init /\ [][Next]_vars

(* The JVM runs every thread that can run; nothing is assumed of the test  *)
(* (that it makes MaxCalls calls at most keeps it from starving a thread   *)
(* that waits for the monitor).                                            *)
FairSpec == Spec /\ \A t \in Threads : WF_vars(Continue(t))

-----------------------------------------------------------------------------
SitesAt(l) == {s \in Sites : s[2] = l}

Counts == [s \in Sites |-> ledger[s].count]
Totals == [s \in Sites |-> ledger[s].total]

(* The length of the first n naps at a line together.                      *)
FirstNaps(n) == SumFunctionOnSet([i \in 0 .. n - 1 |-> NapLength(i)], 0 .. n - 1)

(* The two ways naps are counted agree whenever the lock is free: the naps *)
(* at a line are those of its sites together, and their lengths are the    *)
(* first so many halvings, however the threads that nap interleave.        *)
LedgerAgrees ==
  mapLock = Nobody =>
    \A l \in Lines :
      /\ lineToSleeps[l] = SumFunctionOnSet(Counts, SitesAt(l))
      /\ SumFunctionOnSet(Totals, SitesAt(l)) = FirstNaps(lineToSleeps[l])

(* The time do_run adds to its timeout for a line that is slowed.          *)
CeilLog2(n) == CHOOSE k \in 0 .. n : 2 ^ k >= n /\ \A j \in 0 .. k - 1 : 2 ^ j < n

TimePerLine == IF MaxSleep > 0 THEN MaxSleep * CeilLog2(MaxSleep) ELSE 0

(* The halving keeps the time all threads together sleep at a line within  *)
(* what do_run adds per line to its timeout, so a run does not time out    *)
(* for the naps alone (from 3 ms on; for 1 and 2 ms do_run adds 0 and 2).  *)
NapsFitTimeout ==
  \A l \in Lines :
    /\ MaxSleep > 0 => napped[l] < 2 * MaxSleep
    /\ MaxSleep >= 3 => napped[l] <= TimePerLine

(* "Every time we sleep we may cause some kind of weird failure like OOM   *)
(* so write the report immediately" (Wrapper.java:258): at whatever moment *)
(* the JVM dies, the file accounts for every nap that had begun, as long   *)
(* as the rows of the causes seen at the line were never moved to a larger *)
(* table.  Reports and puts of other threads may overlap: a report that a  *)
(* put disturbs still has the row of the thread that writes it, or ends in *)
(* an exception instead of the nap.  (While rows are moved, a report can   *)
(* pass over some without an exception, and the nap begins all the same.)  *)
Unmoved(c) == \A n \in Thresholds : Cardinality(RowsOf(c)) <= n

UnmovedNapsAreReported ==
  \A l \in Lines :
    (\A s \in SitesAt(l) : Unmoved(s[1])) =>
      napped[l] <= SumFunctionOnSet(causeFile, SitesAt(l))

(* In the runs that find the threads and lines to slow, no line a thread   *)
(* passed is missing from the file (threads_to_slow would never offer it), *)
(* unless another thread is just about to print it.                        *)
NoHitLost ==
  Target = NoSleep =>
    \A h \in hits : h \in sleepCalls \/ \E t \in Threads : pc[t] = "print" /\ Hit(t) = h

(* A thread that enters the engine comes back to the test, by return or by *)
(* an exception: no thread waits for ever for a monitor or a lock.         *)
CallsReturn ==
  \A t \in Threads : pc[t] \notin {"unborn", "ready"} ~> pc[t] = "ready"

=============================================================================
