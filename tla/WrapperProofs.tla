---------------------------- MODULE WrapperProofs ----------------------------
(***************************************************************************)
(* The runtime inside the JVM, for every number of threads, tasks, traces  *)
(* and sites: the class monitor is exclusive, a thread does nothing before *)
(* the one that creates it has given it an id, no recorded hit is lost     *)
(* though the set of recorded hits is read and written without a lock, the *)
(* two ways naps are counted agree, what was napped at a line is in the    *)
(* file of causes as long as no map of its causes was moved, and the naps  *)
(* at a line fit what do_run adds to the timeout.                          *)
(*                                                                         *)
(* The sums of the ledger are folds over sets.  An accumulator function    *)
(* with the recurrence of the fold exists on the subsets of a finite set   *)
(* and has its values; that, and everything said of sums and powers, is    *)
(* shown of a smallest counterexample.                                     *)
(***************************************************************************)
EXTENDS Wrapper, FiniteSetTheorems, WellFoundedInduction, TLAPS

Guarded == {"track", "map", "cause", "rows"}

(* Where threads are and the locals the invariant is about.                *)
Places ==
  /\ pc \in [Threads -> PCs]
  /\ site \in [Threads -> Sites]
  /\ tid = [t \in Threads |-> tid[t]]
  /\ making \in [Threads -> Objects \cup {Nobody}]

(* Inside synchronized methods there is one thread: the owner.             *)
MonitorIsExclusive == \A t \in Threads : pc[t] \in Guarded => monitor = t

(* A thread that is being created does nothing yet.                        *)
NewThreadsWait ==
  \A t \in Threads :
    /\ pc[t] = "track" => making[t] # Nobody
    /\ making[t] # Nobody => pc[t] = "track"
    /\ making[t] \in Threads => pc[making[t]] = "unborn"

InPrint(h) == \E t \in Threads : pc[t] = "print" /\ Hit(t) = h

(* What counts as recorded, or was passed over as recorded, is in the file *)
(* or on its way there.                                                    *)
RecordedIsPrinted == \A h \in recordedSleeps \cup hits : h \in sleepCalls \/ InPrint(h)

IInv == Places /\ MonitorIsExclusive /\ NewThreadsWait /\ RecordedIsPrinted

-----------------------------------------------------------------------------
(* What all steps of a call have in common: t moves on in a call that is   *)
(* not trackThread, changes locals of its own only, and is in a guarded    *)
(* section only if it was in one or found the monitor free.                *)
OwnStep(t, x) ==
  /\ pc' = [pc EXCEPT ![t] = x]
  /\ making' = making
  /\ \/ UNCHANGED <<site, tid>>
     \/ \E s \in Sites : site' = [site EXCEPT ![t] = s] /\ UNCHANGED tid
     \/ \E i : tid' = [tid EXCEPT ![t] = i] /\ UNCHANGED site
     \/ site' = [site EXCEPT ![t] = DoExecSite] /\ tid' = [tid EXCEPT ![t] = Nobody]
  /\ \/ monitor' = monitor /\ (x \in Guarded => pc[t] \in Guarded)
     \/ monitor = Nobody /\ monitor' = t
     \/ pc[t] \in Guarded /\ x \notin Guarded

(* Such a step keeps everything except, at most, what is recorded.         *)
LEMMA OwnStepKeeps ==
  ASSUME NEW t \in Threads, NEW x \in PCs \ {"unborn", "track"}, IInv, OwnStep(t, x),
         pc[t] \notin {"unborn", "track"}
  PROVE  Places' /\ MonitorIsExclusive' /\ NewThreadsWait'
<1> USE WrapperAssumption DEF IInv, OwnStep
<1>1. Places'
  BY DEF Places
<1>2. pc'[t] = x /\ \A p \in Threads : p # t => pc'[p] = pc[p]
  BY DEF Places
<1>3. MonitorIsExclusive'
  <2> SUFFICES ASSUME NEW p \in Threads, pc'[p] \in Guarded PROVE monitor' = p
    BY DEF MonitorIsExclusive
  <2>1. Nobody # p
    BY DEF Objects
  <2>2. CASE p = t
    BY <1>2, <2>2 DEF MonitorIsExclusive
  <2>3. CASE p # t
    <3>1. pc[p] \in Guarded /\ monitor = p
      BY <1>2, <2>3 DEF MonitorIsExclusive
    <3>2. pc[t] \notin Guarded
      BY <2>3, <3>1 DEF MonitorIsExclusive
    <3> QED BY <2>1, <3>1, <3>2
  <2> QED BY <2>2, <2>3
<1>4. NewThreadsWait'
  BY <1>2 DEF NewThreadsWait
<1> QED BY <1>1, <1>3, <1>4

(* If t was not about to print, no one's printing is disturbed.            *)
LEMMA OwnStepPrints ==
  ASSUME NEW t \in Threads, NEW x \in PCs, IInv, OwnStep(t, x), pc[t] # "print"
  PROVE  \A h : InPrint(h) => InPrint(h)'
<1> SUFFICES ASSUME NEW h, NEW p \in Threads, pc[p] = "print", Hit(p) = h
             PROVE  InPrint(h)'
  BY DEF InPrint
<1>1. p # t /\ pc'[p] = pc[p]
  BY DEF OwnStep, IInv, Places
<1>2. site'[p] = site[p] /\ tid'[p] = tid[p]
  BY <1>1 DEF OwnStep, IInv, Places
<1> QED BY <1>1, <1>2 DEF InPrint, Hit

(* So a step that records nothing keeps the invariant.                     *)
LEMMA QuietStepKeeps ==
  ASSUME NEW t \in Threads, NEW x \in PCs \ {"unborn", "track"}, IInv, OwnStep(t, x),
         pc[t] \notin {"unborn", "track", "print"}, UNCHANGED records
  PROVE  IInv'
<1>1. RecordedIsPrinted'
  BY OwnStepPrints DEF IInv, RecordedIsPrinted, records
<1> QED BY <1>1, OwnStepKeeps DEF IInv

(* And so does a step that touches none of it.                             *)
LEMMA ElsewhereKeeps ==
  ASSUME IInv, UNCHANGED <<pc, site, tid, making, monitor, records>>
  PROVE  IInv'
BY DEF IInv, Places, MonitorIsExclusive, NewThreadsWait, RecordedIsPrinted, InPrint, Hit, records

-----------------------------------------------------------------------------
(* The state after Wrapper.init.                                           *)
LEMMA Initially == Init => IInv
<1> SUFFICES ASSUME Init PROVE IInv
  OBVIOUS
<1> USE WrapperAssumption DEF Init
<1>1. Places
  BY DEF Places, PCs
<1>2. \A t \in Threads : pc[t] \in {"ready", "unborn"} /\ making[t] = Nobody
  OBVIOUS
<1>3. Nobody \notin Threads
  BY DEF Objects
<1>4. MonitorIsExclusive /\ NewThreadsWait /\ RecordedIsPrinted
  BY <1>2, <1>3 DEF MonitorIsExclusive, NewThreadsWait, RecordedIsPrinted, Guarded
<1> QED BY <1>1, <1>4 DEF IInv

(* A thread begins to give an object its id.                               *)
LEMMA TrackThreadEnterKeeps ==
  ASSUME NEW t \in Threads, NEW o \in Objects, IInv, TrackThreadEnter(t, o)
  PROVE  IInv'
<1> USE WrapperAssumption DEF IInv, TrackThreadEnter
<1>1. /\ pc[t] = "ready" /\ pc' = [pc EXCEPT ![t] = "track"]
      /\ making' = [making EXCEPT ![t] = o] /\ o # Nobody
      /\ monitor = Nobody /\ monitor' = t /\ UNCHANGED <<records, site, tid>>
  BY DEF Goto, locals
<1>2. \A p \in Threads : p # t => pc'[p] = pc[p] /\ making'[p] = making[p]
  BY <1>1 DEF Places
<1>3. pc'[t] = "track" /\ making'[t] = o
  BY <1>1 DEF Places
<1>4. Places'
  BY <1>1 DEF Places, PCs
<1>5. MonitorIsExclusive'
  <2>1. Nobody \notin Threads
    BY DEF Objects
  <2> QED BY <1>1, <1>2, <2>1 DEF MonitorIsExclusive
<1>6. NewThreadsWait'
  <2>1. o \in Threads => pc[o] = "unborn" /\ o # t
    BY <1>1 DEF Untouched
  <2> QED BY <1>1, <1>2, <1>3, <2>1 DEF NewThreadsWait
<1>7. RecordedIsPrinted'
  BY <1>1, <1>2 DEF RecordedIsPrinted, InPrint, Hit, records
<1> QED BY <1>4, <1>5, <1>6, <1>7

(* The object has its id; if it is a thread, it is there from now on.      *)
LEMMA TrackThreadKeeps ==
  ASSUME NEW t \in Threads, NEW trace \in Traces, IInv, TrackThread(t, trace)
  PROVE  IInv'
<1> USE WrapperAssumption DEF IInv
<1> DEFINE o == making[t]
<1>1. /\ pc[t] = "track" /\ monitor' = Nobody
      /\ making' = [making EXCEPT ![t] = Nobody]
      /\ pc' = [p \in Threads |-> IF p \in {t, o} THEN "ready" ELSE pc[p]]
      /\ UNCHANGED <<records, site, tid>>
  BY DEF TrackThread, locals
<1>2. o \in Objects /\ (o \in Threads => pc[o] = "unborn")
  BY <1>1 DEF NewThreadsWait, Places
<1>3. \A p \in Threads : p \notin {t, o} => pc'[p] = pc[p] /\ making'[p] = making[p]
  BY <1>1 DEF Places
<1>4. \A p \in Threads : p \in {t, o} => pc'[p] = "ready" /\ making'[p] = Nobody
  <2>1. pc'[t] = "ready" /\ making'[t] = Nobody
    BY <1>1 DEF Places
  <2>2. o \in Threads => pc'[o] = "ready" /\ making'[o] = Nobody
    BY <1>1, <1>2 DEF Places, NewThreadsWait
  <2> QED BY <2>1, <2>2
<1>5. \A p \in Threads \ {t} : pc[p] \notin Guarded
  BY <1>1 DEF MonitorIsExclusive, Guarded
<1>6. Places'
  BY <1>1 DEF Places, PCs
<1>7. MonitorIsExclusive'
  BY <1>3, <1>4, <1>5 DEF MonitorIsExclusive, Guarded
<1>8. NewThreadsWait'
  <2>1. \A p \in Threads : making'[p] = Nobody
    BY <1>3, <1>4, <1>5 DEF NewThreadsWait, Guarded
  <2>2. \A p \in Threads : pc'[p] # "track"
    BY <1>3, <1>4, <1>5 DEF Guarded
  <2>3. Nobody \notin Threads
    BY DEF Objects
  <2> QED BY <2>1, <2>2, <2>3 DEF NewThreadsWait
<1>9. RecordedIsPrinted'
  <2>1. \A p \in Threads : pc[p] = "print" => pc'[p] = "print"
    BY <1>1, <1>2, <1>3
  <2> QED BY <1>1, <2>1 DEF RecordedIsPrinted, InPrint, Hit, records
<1> QED BY <1>6, <1>7, <1>8, <1>9

-----------------------------------------------------------------------------
(* The three steps of the end of extraSleep.                               *)
LEMMA RecordKeeps == ASSUME NEW t \in Threads, IInv, Record(t) PROVE IInv'
<1>1. /\ pc[t] = "record" /\ UNCHANGED <<recordedSleeps, sleepCalls>>
      /\ \/ OwnStep(t, "add") /\ hits' = hits
         \/ OwnStep(t, "ready") /\ hits' = hits \cup {Hit(t)} /\ Hit(t) \in recordedSleeps
  BY DEF Record, Goto, Return, OwnStep, Guarded, locals, env
<1>2. Places' /\ MonitorIsExclusive' /\ NewThreadsWait'
  BY <1>1, OwnStepKeeps DEF PCs
<1>3. \A h : InPrint(h) => InPrint(h)'
  BY <1>1, OwnStepPrints DEF PCs
<1>4. recordedSleeps' \cup hits' \subseteq recordedSleeps \cup hits
  BY <1>1
<1>5. RecordedIsPrinted'
  BY <1>1, <1>3, <1>4 DEF IInv, RecordedIsPrinted
<1> QED BY <1>2, <1>5 DEF IInv

(* A hit is added, or the addition is lost; t will print it all the same.  *)
LEMMA AddKeeps == ASSUME NEW t \in Threads, IInv, Add(t) PROVE IInv'
<1>1. /\ pc[t] = "add" /\ UNCHANGED <<sleepCalls, hits, site, tid>>
      /\ OwnStep(t, "print") /\ pc' = [pc EXCEPT ![t] = "print"]
      /\ recordedSleeps' \subseteq recordedSleeps \cup {Hit(t)}
  BY DEF Add, Goto, OwnStep, Guarded, locals, env
<1>2. Places' /\ MonitorIsExclusive' /\ NewThreadsWait'
  BY <1>1, OwnStepKeeps DEF PCs
<1>3. \A h : InPrint(h) => InPrint(h)'
  BY <1>1, OwnStepPrints DEF PCs
<1>4. InPrint(Hit(t))' /\ Hit(t)' = Hit(t)
  BY <1>1 DEF InPrint, Hit, IInv, Places
<1>5. RecordedIsPrinted'
  <2> SUFFICES ASSUME NEW h \in (recordedSleeps \cup hits)'
               PROVE  h \in sleepCalls' \/ InPrint(h)'
    BY DEF RecordedIsPrinted
  <2>1. CASE h = Hit(t)
    BY <1>4, <2>1
  <2>2. CASE h # Hit(t)
    <3>1. h \in recordedSleeps \cup hits
      BY <1>1, <2>2
    <3> QED BY <1>1, <1>3, <3>1 DEF IInv, RecordedIsPrinted
  <2> QED BY <2>1, <2>2
<1> QED BY <1>2, <1>5 DEF IInv

(* The hit is in the file; the hits others are about to print still are.   *)
LEMMA PrintHitKeeps == ASSUME NEW t \in Threads, IInv, PrintHit(t) PROVE IInv'
<1>1. /\ pc[t] = "print" /\ sleepCalls' = sleepCalls \cup {Hit(t)}
      /\ hits' = hits \cup {Hit(t)} /\ recordedSleeps' = recordedSleeps
      /\ OwnStep(t, "ready")
  BY DEF PrintHit, Return, Goto, OwnStep, Guarded, env
<1>2. Places' /\ MonitorIsExclusive' /\ NewThreadsWait'
  BY <1>1, OwnStepKeeps DEF PCs
<1>3. \A p \in Threads : p # t =>
        pc'[p] = pc[p] /\ site'[p] = site[p] /\ tid'[p] = tid[p]
  BY <1>1 DEF OwnStep, IInv, Places
<1>4. \A h : InPrint(h) => h = Hit(t) \/ InPrint(h)'
  BY <1>3 DEF InPrint, Hit
<1>5. RecordedIsPrinted'
  BY <1>1, <1>4 DEF IInv, RecordedIsPrinted
<1> QED BY <1>2, <1>5 DEF IInv

(* The lookup of an id, whatever it finds.                                 *)
LEMMA LookUpKeeps == ASSUME NEW t \in Threads, IInv, LookUp(t) PROVE IInv'
<1>1. pc[t] = "lookup" /\ UNCHANGED <<records, monitor, making>>
  BY DEF LookUp, env
<1>2. \E x \in {"nap", "record", "ready"} : OwnStep(t, x)
  <2>1. \/ \E id : \/ OwnStep(t, "nap")
                   \/ OwnStep(t, "record")
        \/ OwnStep(t, "ready")
    BY <1>1 DEF LookUp, Goto, Return, OwnStep, Guarded
  <2> QED BY <2>1
<1> QED BY <1>1, <1>2, QuietStepKeeps DEF PCs

(* Everything a thread does within a call, except trackThread.             *)
QuietSteps(t) ==
  \/ MapThreadToForkJoinTask(t)
  \/ NapEnter(t) \/ NapInsert(t) \/ NapBook(t) \/ FallAsleep(t) \/ WakeUp(t)
  \/ ReportEnter(t) \/ ReportExit(t) \/ ReportThrows(t) \/ ReportCauseDone(t)
  \/ \E c \in Causes : ReportCause(t, c)
  \/ \E s \in Sites : ReportRow(t, s) \/ ReportSkips(t, s)
  \/ \E k \in Tasks : DoExecEnter(t, k)
  \/ \E s \in Sites : ExtraSleep(t, s)

(* None of these steps records anything.                                   *)
LEMMA QuietStepsKeep == ASSUME NEW t \in Threads, IInv, QuietSteps(t) PROVE IInv'
<1> USE DEF Goto, OwnStep, Guarded, locals, env, PCs
<1>1. CASE MapThreadToForkJoinTask(t)
  <2>1. /\ OwnStep(t, "lookup") /\ pc[t] = "map" /\ UNCHANGED records
    BY <1>1, WrapperAssumption DEF MapThreadToForkJoinTask
  <2> QED BY <2>1, QuietStepKeeps
<1>2. CASE NapEnter(t)
  <2>1. OwnStep(t, "book") /\ pc[t] = "nap" /\ UNCHANGED records
    BY <1>2 DEF NapEnter
  <2> QED BY <2>1, QuietStepKeeps
<1>3. CASE NapBook(t)
  <2>1. OwnStep(t, "report") /\ pc[t] \in {"book", "put"} /\ UNCHANGED records
    BY <1>3 DEF NapBook, HasRow
  <2> QED BY <2>1, QuietStepKeeps
<1>4. CASE FallAsleep(t)
  <2>1. OwnStep(t, "asleep") /\ pc[t] = "sleep" /\ UNCHANGED records
    BY <1>4 DEF FallAsleep
  <2> QED BY <2>1, QuietStepKeeps
<1>5. CASE WakeUp(t)
  <2>1. OwnStep(t, "ready") /\ pc[t] = "asleep" /\ UNCHANGED records
    BY <1>5 DEF WakeUp, Return
  <2> QED BY <2>1, QuietStepKeeps
<1>6. CASE ReportEnter(t)
  <2>1. OwnStep(t, "cause") /\ pc[t] = "report" /\ UNCHANGED records
    BY <1>6 DEF ReportEnter
  <2> QED BY <2>1, QuietStepKeeps
<1>7. CASE ReportExit(t)
  <2>1. OwnStep(t, "sleep") /\ pc[t] = "cause" /\ UNCHANGED records
    BY <1>7 DEF ReportExit
  <2> QED BY <2>1, QuietStepKeeps
<1>8. CASE ReportThrows(t)
  <2>1. OwnStep(t, "ready") /\ pc[t] = "rows" /\ UNCHANGED records
    BY <1>8 DEF ReportThrows, Fails, Return
  <2> QED BY <2>1, QuietStepKeeps
<1>9. CASE ReportCauseDone(t)
  <2>1. OwnStep(t, "cause") /\ pc[t] = "rows" /\ UNCHANGED records
    BY <1>9 DEF ReportCauseDone
  <2> QED BY <2>1, QuietStepKeeps
<1>10. ASSUME NEW c \in Causes, ReportCause(t, c) PROVE IInv'
  <2>1. OwnStep(t, "rows") /\ pc[t] = "cause" /\ UNCHANGED records
    BY <1>10 DEF ReportCause
  <2> QED BY <2>1, QuietStepKeeps
<1>11. ASSUME NEW s \in Sites, ReportRow(t, s) \/ ReportSkips(t, s) PROVE IInv'
  BY <1>11, ElsewhereKeeps DEF ReportRow, ReportSkips
<1>12. ASSUME NEW k \in Tasks, DoExecEnter(t, k) PROVE IInv'
  <2>1. OwnStep(t, "map") /\ pc[t] = "ready" /\ UNCHANGED records
    BY <1>12 DEF DoExecEnter
  <2> QED BY <2>1, QuietStepKeeps
<1>13. ASSUME NEW s \in Sites, ExtraSleep(t, s) PROVE IInv'
  <2>1. OwnStep(t, "lookup") /\ pc[t] = "ready" /\ UNCHANGED records
    BY <1>13 DEF ExtraSleep
  <2> QED BY <2>1, QuietStepKeeps
<1>14. CASE NapInsert(t)
  <2>1. OwnStep(t, "put") /\ pc[t] = "book" /\ UNCHANGED records
    BY <1>14 DEF NapInsert
  <2> QED BY <2>1, QuietStepKeeps
<1> QED
  BY <1>1, <1>2, <1>3, <1>4, <1>5, <1>6, <1>7, <1>8, <1>9, <1>10, <1>11, <1>12, <1>13,
     <1>14 DEF QuietSteps

(* Any step of the JVM.                                                    *)
LEMMA StepKeeps == IInv /\ [Next]_vars => IInv'
<1> SUFFICES ASSUME IInv, [Next]_vars PROVE IInv'
  OBVIOUS
<1>1. CASE SetSleep
  BY <1>1, ElsewhereKeeps DEF SetSleep, locals, env
<1>2. ASSUME NEW t \in Threads, Continue(t) \/ TestStep(t) PROVE IInv'
  <2>1. CASE QuietSteps(t)
    BY <2>1, QuietStepsKeep
  <2>2. CASE LookUp(t) \/ Record(t) \/ Add(t) \/ PrintHit(t)
    BY <2>2, LookUpKeeps, RecordKeeps, AddKeeps, PrintHitKeeps
  <2>3. ASSUME NEW trace \in Traces, TrackThread(t, trace) PROVE IInv'
    BY <2>3, TrackThreadKeeps
  <2>4. ASSUME NEW o \in Objects, TrackThreadEnter(t, o) PROVE IInv'
    BY <2>4, TrackThreadEnterKeeps
  <2>5. CASE DoExecReturns(t)
    BY <2>5, ElsewhereKeeps DEF DoExecReturns, locals
  <2> QED BY <1>2, <2>1, <2>2, <2>3, <2>4, <2>5 DEF Continue, TestStep, QuietSteps
<1>3. CASE UNCHANGED vars
  BY <1>3, ElsewhereKeeps DEF vars, locals, env
<1> QED BY <1>1, <1>2, <1>3 DEF Next

-----------------------------------------------------------------------------
(* The invariant of the runtime: one owner of the class monitor, threads   *)
(* that wait for their ids, recorded hits that get printed.                *)
THEOREM RuntimeInvariant == Spec => []IInv
<1> QED BY Initially, StepKeeps, PTL DEF Spec

(* No hit that extraSleep took for recorded is missing from sleepCalls,    *)
(* except while another thread is printing it, for every number of threads *)
(* racing through the unsynchronized end of extraSleep.                    *)
THEOREM NoHitIsLost == Spec => []NoHitLost
<1>1. IInv => NoHitLost
  BY DEF IInv, RecordedIsPrinted, InPrint, NoHitLost
<1> QED BY <1>1, RuntimeInvariant, PTL

-----------------------------------------------------------------------------
(* Sums over finite sets.                                                  *)

(* The fold takes any element of a set first.                              *)
Pick(s) == CHOOSE x \in s : TRUE

(* What the recursive function of the fold satisfies on the subsets of S.  *)
Accumulates(F, g, S) ==
  F = [s \in SUBSET S |-> IF s = {} THEN 0 ELSE g[Pick(s)] + F[s \ {Pick(s)}]]

(* If there is such a function, the sum is a value of one.                 *)
LEMMA Unfold ==
  ASSUME NEW g, NEW S, NEW F, Accumulates(F, g, S)
  PROVE  \E G : Accumulates(G, g, S) /\ SumFunctionOnSet(g, S) = G[S]
<1> DEFINE P(G) ==
             G = [s \in SUBSET S |->
                    IF s = {} THEN 0
                    ELSE g[CHOOSE x \in s : TRUE] + G[s \ {CHOOSE x \in s : TRUE}]]
           G == CHOOSE H : P(H)
<1>1. P(F)
  BY DEF Accumulates, Pick
<1>2. P(G)
  BY <1>1, Zenon
<1>3. SumFunctionOnSet(g, S) = G[S]
  BY DEF SumFunctionOnSet, FoldFunctionOnSet, MapThenFoldSet
<1> QED
  BY <1>2, <1>3 DEF Accumulates, Pick

(* A set of subsets of a finite set has a smallest element.                *)
LEMMA SmallestSubset ==
  ASSUME NEW S, IsFiniteSet(S), NEW Bad, Bad \subseteq SUBSET S, Bad # {}
  PROVE  \E T \in Bad : \A U \in Bad : U \subseteq T => U = T
<1> DEFINE R == StrictSubsetOrdering(S)
<1>1. IsWellFoundedOn(R, SUBSET S)
  BY FS_StrictSubsetOrderingWellFounded, FS_FiniteSubsetsOfFinite
<1>2. \A U, T \in SUBSET S : U \subseteq T /\ U # T => <<U, T>> \in R
  BY DEF StrictSubsetOrdering
<1> HIDE DEF R
<1>3. \E T \in Bad : \A U \in Bad : ~ (<<U, T>> \in R)
  BY <1>1, WFMin
<1> QED
  BY <1>2, <1>3

(* Two such functions agree wherever both are defined.                     *)
LEMMA AccumulatorsAgree ==
  ASSUME NEW g, NEW S, IsFiniteSet(S), NEW F, Accumulates(F, g, S),
         NEW R, NEW G, Accumulates(G, g, R), NEW T, T \subseteq S, T \subseteq R
  PROVE  F[T] = G[T]
<1> DEFINE Bad == {U \in SUBSET S : U \subseteq R /\ F[U] # G[U]}
<1>1. SUFFICES ASSUME Bad # {} PROVE FALSE
  OBVIOUS
<1>2. PICK U \in Bad : \A V \in Bad : V \subseteq U => V = U
  <2>1. Bad \subseteq SUBSET S
    OBVIOUS
  <2> HIDE DEF Bad
  <2> QED BY <1>1, <2>1, SmallestSubset
<1>3. /\ F[U] = IF U = {} THEN 0 ELSE g[Pick(U)] + F[U \ {Pick(U)}]
      /\ G[U] = IF U = {} THEN 0 ELSE g[Pick(U)] + G[U \ {Pick(U)}]
  BY <1>2 DEF Accumulates
<1>4. CASE U = {}
  BY <1>2, <1>3, <1>4
<1>5. CASE U # {}
  <2>1. Pick(U) \in U
    BY <1>5 DEF Pick
  <2>2. U \ {Pick(U)} \notin Bad
    BY <1>2, <2>1
  <2>3. F[U \ {Pick(U)}] = G[U \ {Pick(U)}]
    BY <1>2, <2>2
  <2> QED BY <1>2, <1>3, <1>5, <2>3
<1> QED BY <1>4, <1>5

(* There is one for every finite set.                                      *)
LEMMA AccumulatorExists ==
  ASSUME NEW g, NEW S, IsFiniteSet(S)
  PROVE  \E F : Accumulates(F, g, S)
<1> DEFINE Bad == {T \in SUBSET S : ~ \E F : Accumulates(F, g, T)}
<1>1. SUFFICES ASSUME Bad # {} PROVE FALSE
  OBVIOUS
<1>2. PICK T \in Bad : \A U \in Bad : U \subseteq T => U = T
  <2>1. Bad \subseteq SUBSET S
    OBVIOUS
  <2> HIDE DEF Bad
  <2> QED BY <1>1, <2>1, SmallestSubset
<1> DEFINE sum(s) == SumFunctionOnSet(g, s)
           body(s, F) == IF s = {} THEN 0 ELSE g[Pick(s)] + F[s \ {Pick(s)}]
           F == [s \in SUBSET T |-> IF s # T THEN sum(s)
                                   ELSE IF s = {} THEN 0 ELSE g[Pick(s)] + sum(s \ {Pick(s)})]
<1>3. ASSUME NEW s \in SUBSET T, s # T
      PROVE  \E G : Accumulates(G, g, s) /\ sum(s) = G[s]
  <2>1. \E G : Accumulates(G, g, s)
    BY <1>2, <1>3
  <2> QED BY <2>1, Unfold
<1>4. ASSUME NEW s \in SUBSET T, s # T, s # {}
      PROVE  sum(s) = g[Pick(s)] + sum(s \ {Pick(s)})
  <2> DEFINE r == s \ {Pick(s)}
  <2>1. Pick(s) \in s
    BY <1>4 DEF Pick
  <2>2. r \in SUBSET T /\ r # T /\ r \subseteq s /\ IsFiniteSet(s)
    BY <1>2, <1>4, FS_Subset
  <2>3. PICK G : Accumulates(G, g, s) /\ sum(s) = G[s]
    BY <1>3, <1>4
  <2>4. PICK H : Accumulates(H, g, r) /\ sum(r) = H[r]
    BY <1>3, <2>2
  <2>5. G[s] = g[Pick(s)] + G[r]
    BY <1>4, <2>3 DEF Accumulates
  <2>6. G[r] = H[r]
    BY <2>2, <2>3, <2>4, AccumulatorsAgree
  <2> QED BY <2>3, <2>4, <2>5, <2>6
<1>5. ASSUME NEW s \in SUBSET T, s = {}, s # T PROVE sum(s) = 0
  <2>1. PICK G : Accumulates(G, g, s) /\ sum(s) = G[s]
    BY <1>3, <1>5
  <2> QED BY <1>5, <2>1 DEF Accumulates
<1>6. ASSUME NEW s \in SUBSET T PROVE F[s] = body(s, F)
  <2>1. CASE s = {}
    BY <1>5, <2>1
  <2>2. CASE s # {}
    <3>1. Pick(s) \in s
      BY <2>2 DEF Pick
    <3>2. s \ {Pick(s)} \in SUBSET T /\ s \ {Pick(s)} # T
      BY <3>1
    <3>3. F[s \ {Pick(s)}] = sum(s \ {Pick(s)})
      BY <3>2
    <3> HIDE DEF sum
    <3> QED BY <1>4, <2>2, <3>3
  <2> QED BY <2>1, <2>2
<1>7. Accumulates(F, g, T)
  <2>1. F = [s \in SUBSET T |-> F[s]]
    OBVIOUS
  <2> HIDE DEF F
  <2> QED BY <1>6, <2>1 DEF Accumulates
<1> QED BY <1>2, <1>7

(* The sum over a finite set, one element at a time: the element CHOOSE    *)
(* picks first.                                                            *)
LEMMA SumUnfolds ==
  ASSUME NEW g, NEW S, IsFiniteSet(S)
  PROVE  /\ S = {} => SumFunctionOnSet(g, S) = 0
         /\ S # {} =>
              /\ Pick(S) \in S
              /\ SumFunctionOnSet(g, S)
                   = g[Pick(S)] + SumFunctionOnSet(g, S \ {Pick(S)})
<1> DEFINE r == S \ {Pick(S)}
<1>1. IsFiniteSet(r) /\ r \subseteq S
  BY FS_Subset
<1>2. PICK G : Accumulates(G, g, S) /\ SumFunctionOnSet(g, S) = G[S]
  BY AccumulatorExists, Unfold
<1>3. PICK H : Accumulates(H, g, r) /\ SumFunctionOnSet(g, r) = H[r]
  BY <1>1, AccumulatorExists, Unfold
<1>4. G[r] = H[r]
  <2> HIDE DEF r
  <2>1. r \subseteq r
    OBVIOUS
  <2> QED BY <1>1, <1>2, <1>3, <2>1, AccumulatorsAgree
<1>5. G[S] = IF S = {} THEN 0 ELSE g[Pick(S)] + G[r]
  BY <1>2 DEF Accumulates
<1>6. S # {} => Pick(S) \in S
  BY DEF Pick
<1> HIDE DEF r
<1>7. S # {} => SumFunctionOnSet(g, S) = g[Pick(S)] + SumFunctionOnSet(g, r)
  BY <1>2, <1>3, <1>4, <1>5
<1> QED BY <1>2, <1>5, <1>6, <1>7 DEF r

(* A sum of integers is an integer.                                        *)
LEMMA SumIsInt ==
  ASSUME NEW g, NEW S, IsFiniteSet(S), \A x \in S : g[x] \in Int
  PROVE  SumFunctionOnSet(g, S) \in Int
<1> DEFINE Bad == {U \in SUBSET S : SumFunctionOnSet(g, U) \notin Int}
<1>1. SUFFICES ASSUME Bad # {} PROVE FALSE
  OBVIOUS
<1>2. PICK U \in Bad : \A V \in Bad : V \subseteq U => V = U
  <2>1. Bad \subseteq SUBSET S
    OBVIOUS
  <2> HIDE DEF Bad
  <2> QED BY <1>1, <2>1, SmallestSubset
<1>3. IsFiniteSet(U)
  BY <1>2, FS_Subset
<1>4. U # {}
  BY <1>2, <1>3, SumUnfolds
<1>5. Pick(U) \in U /\ SumFunctionOnSet(g, U) = g[Pick(U)] + SumFunctionOnSet(g, U \ {Pick(U)})
  BY <1>3, <1>4, SumUnfolds
<1>6. SumFunctionOnSet(g, U \ {Pick(U)}) \in Int
  BY <1>2, <1>5
<1> QED BY <1>2, <1>5, <1>6

(* Any element may be taken out first.                                     *)
LEMMA SumTakesOut ==
  ASSUME NEW g, NEW S, IsFiniteSet(S), \A x \in S : g[x] \in Int, NEW x \in S
  PROVE  SumFunctionOnSet(g, S) = g[x] + SumFunctionOnSet(g, S \ {x})
<1> DEFINE sum(s) == SumFunctionOnSet(g, s)
           Bad == {U \in SUBSET S : \E y \in U : sum(U) # g[y] + sum(U \ {y})}
<1>1. SUFFICES ASSUME Bad # {} PROVE FALSE
  OBVIOUS
<1>2. PICK U \in Bad : \A V \in Bad : V \subseteq U => V = U
  <2>1. Bad \subseteq SUBSET S
    OBVIOUS
  <2> HIDE DEF Bad
  <2> QED BY <1>1, <2>1, SmallestSubset
<1>3. PICK y \in U : sum(U) # g[y] + sum(U \ {y})
  BY <1>2
<1> DEFINE c == Pick(U)
<1>4. IsFiniteSet(U) /\ U \subseteq S /\ IsFiniteSet(U \ {y}) /\ IsFiniteSet(U \ {c})
      /\ IsFiniteSet((U \ {c}) \ {y})
  BY <1>2, FS_Subset
<1>5. c \in U /\ sum(U) = g[c] + sum(U \ {c})
  BY <1>3, <1>4, SumUnfolds
<1>6. /\ g[c] \in Int /\ g[y] \in Int /\ sum((U \ {c}) \ {y}) \in Int
  <2>1. \A z \in (U \ {c}) \ {y} : g[z] \in Int
    BY <1>4
  <2>2. sum((U \ {c}) \ {y}) \in Int
    BY <1>4, <2>1, SumIsInt
  <2>3. c \in S /\ y \in S
    BY <1>3, <1>4, <1>5
  <2> QED BY <2>2, <2>3
<1> HIDE DEF sum, c
<1>7. c # y
  BY <1>3, <1>5
<1>8. sum(U \ {c}) = g[y] + sum((U \ {c}) \ {y})
  BY <1>2, <1>3, <1>5, <1>7
<1>9. sum(U \ {y}) = g[c] + sum((U \ {c}) \ {y})
  <2>1. U \ {y} \notin Bad /\ c \in U \ {y}
    BY <1>2, <1>3, <1>5, <1>7
  <2>2. (U \ {y}) \ {c} = (U \ {c}) \ {y} /\ U \ {y} \in SUBSET S
    BY <1>4
  <2> QED BY <2>1, <2>2
<1> QED BY <1>3, <1>5, <1>6, <1>8, <1>9

(* Sums of functions that are added up, or ordered, element by element.    *)
LEMMA SumsCompare ==
  ASSUME NEW S, IsFiniteSet(S),
         NEW f, NEW g, NEW h,
         \A x \in S : f[x] \in Int /\ g[x] \in Int /\ h[x] \in Int
  PROVE  /\ (\A x \in S : h[x] = f[x] + g[x]) =>
               SumFunctionOnSet(h, S) = SumFunctionOnSet(f, S) + SumFunctionOnSet(g, S)
         /\ (\A x \in S : f[x] <= g[x]) =>
               SumFunctionOnSet(f, S) <= SumFunctionOnSet(g, S)
         /\ (\A x \in S : f[x] = g[x]) =>
               SumFunctionOnSet(f, S) = SumFunctionOnSet(g, S)
<1> DEFINE F(s) == SumFunctionOnSet(f, s)
           G(s) == SumFunctionOnSet(g, s)
           H(s) == SumFunctionOnSet(h, s)
           Adds(U) == (\A x \in U : h[x] = f[x] + g[x]) => H(U) = F(U) + G(U)
           Less(U) == (\A x \in U : f[x] <= g[x]) => F(U) <= G(U)
           Same(U) == (\A x \in U : f[x] = g[x]) => F(U) = G(U)
           Bad == {U \in SUBSET S : ~ (Adds(U) /\ Less(U) /\ Same(U))}
<1>1. SUFFICES ASSUME Bad # {} PROVE FALSE
  OBVIOUS
<1>2. PICK U \in Bad : \A V \in Bad : V \subseteq U => V = U
  <2>1. Bad \subseteq SUBSET S
    OBVIOUS
  <2> HIDE DEF Bad
  <2> QED BY <1>1, <2>1, SmallestSubset
<1> DEFINE c == Pick(U)
           r == U \ {c}
<1>3. IsFiniteSet(U) /\ U \subseteq S /\ IsFiniteSet(r)
  BY <1>2, FS_Subset
<1>4. U # {}
  <2>1. U = {} => F(U) = 0 /\ G(U) = 0 /\ H(U) = 0
    BY <1>3, SumUnfolds
  <2> HIDE DEF F, G, H
  <2> QED BY <1>2, <2>1
<1>5. /\ c \in U /\ F(U) = f[c] + F(r) /\ G(U) = g[c] + G(r) /\ H(U) = h[c] + H(r)
  BY <1>3, <1>4, SumUnfolds
<1>6. F(r) \in Int /\ G(r) \in Int /\ H(r) \in Int
  <2>1. \A x \in r : f[x] \in Int /\ g[x] \in Int /\ h[x] \in Int
    BY <1>3
  <2> QED BY <1>3, <2>1, SumIsInt
<1>7. f[c] \in Int /\ g[c] \in Int /\ h[c] \in Int
  BY <1>3, <1>5
<1>8. r \subseteq U /\ r # U /\ r \in SUBSET S
  BY <1>3, <1>5
<1> HIDE DEF F, G, H, c
<1>9. Adds(r) /\ Less(r) /\ Same(r)
  BY <1>2, <1>8
<1> HIDE DEF r
<1>10. Adds(U)
  BY <1>5, <1>6, <1>7, <1>8, <1>9
<1>11. Less(U)
  BY <1>5, <1>6, <1>7, <1>8, <1>9
<1>12. Same(U)
  BY <1>5, <1>6, <1>7, <1>8, <1>9
<1> QED BY <1>2, <1>10, <1>11, <1>12

(* Powers of two, as the numbers of subsets of 1 .. n.                     *)
LEMMA PowersOfTwo ==
  ASSUME NEW n \in Nat
  PROVE  2 ^ n \in Nat \ {0} /\ 2 ^ (n + 1) = 2 * 2 ^ n
<1> DEFINE S  == 1 .. n
           A  == {t \cup {n + 1} : t \in SUBSET S}
<1>1. IsFiniteSet(S) /\ Cardinality(S) = n
  BY FS_Interval
<1>2. IsFiniteSet(1 .. (n + 1)) /\ Cardinality(1 .. (n + 1)) = n + 1
  BY FS_Interval
<1>3. /\ IsFiniteSet(SUBSET S) /\ Cardinality(SUBSET S) = 2 ^ n
      /\ IsFiniteSet(SUBSET (1 .. (n + 1)))
      /\ Cardinality(SUBSET (1 .. (n + 1))) = 2 ^ (n + 1)
  BY <1>1, <1>2, FS_SUBSET
<1>4. n + 1 \notin S
  OBVIOUS
<1>5. SUBSET (1 .. (n + 1)) = (SUBSET S) \cup A
  <2>1. 1 .. (n + 1) = S \cup {n + 1}
    OBVIOUS
  <2>2. ASSUME NEW t \in SUBSET (1 .. (n + 1)) PROVE t \in (SUBSET S) \cup A
    <3> DEFINE u == t \ {n + 1}
    <3>1. u \in SUBSET S
      BY <2>1
    <3>2. n + 1 \in t => t = u \cup {n + 1}
      OBVIOUS
    <3>3. n + 1 \notin t => t = u
      OBVIOUS
    <3>4. u \cup {n + 1} \in A
      BY <3>1
    <3> HIDE DEF u, S, A
    <3> QED BY <3>1, <3>2, <3>3, <3>4
  <2>3. ASSUME NEW t \in SUBSET S PROVE t \cup {n + 1} \in SUBSET (1 .. (n + 1))
    BY <2>1
  <2>4. \A a \in A : a \in SUBSET (1 .. (n + 1))
    BY <2>3
  <2>5. \A t \in SUBSET S : t \in SUBSET (1 .. (n + 1))
    BY <2>1
  <2> HIDE DEF S, A
  <2> QED BY <2>2, <2>4, <2>5
<1>6. (SUBSET S) \cap A = {}
  <2>1. \A a \in A : n + 1 \in a
    OBVIOUS
  <2>2. \A t \in SUBSET S : n + 1 \notin t
    BY <1>4
  <2> HIDE DEF S, A
  <2> QED BY <2>1, <2>2
<1> HIDE DEF S
<1>7. IsFiniteSet(A) /\ Cardinality(A) = Cardinality(SUBSET S)
  <2> DEFINE F == [t \in SUBSET S |-> t \cup {n + 1}]
  <2>1. F \in [SUBSET S -> A]
    OBVIOUS
  <2>2. \A t, u \in SUBSET S : F[t] = F[u] => t = u
    <3> SUFFICES ASSUME NEW t \in SUBSET S, NEW u \in SUBSET S, F[t] = F[u] PROVE t = u
      OBVIOUS
    <3>1. t \cup {n + 1} = u \cup {n + 1}
      OBVIOUS
    <3>2. n + 1 \notin t /\ n + 1 \notin u
      BY <1>4
    <3> QED BY ONLY <3>1, <3>2
  <2>3. \A a \in A : \E t \in SUBSET S : F[t] = a
    OBVIOUS
  <2>4. DOMAIN F = SUBSET S
    OBVIOUS
  <2> HIDE DEF F, A
  <2>5. F \in Bijection(SUBSET S, A)
    BY <2>1, <2>2, <2>3, <2>4 DEF Bijection, Injection, Surjection, IsInjective
  <2>6. ExistsBijection(SUBSET S, A)
    BY <2>5 DEF ExistsBijection
  <2> QED BY <1>3, <2>6, FS_Bijection
<1> HIDE DEF A
<1>8. Cardinality((SUBSET S) \cup A) = 2 ^ n + 2 ^ n
  <2>1. Cardinality((SUBSET S) \cup A)
          = Cardinality(SUBSET S) + Cardinality(A) - Cardinality((SUBSET S) \cap A)
    BY <1>3, <1>7, FS_Union, Zenon
  <2>2. Cardinality((SUBSET S) \cap A) = 0
    BY <1>6, FS_EmptySet
  <2>3. 2 ^ n \in Nat
    BY <1>3, FS_CardinalityType
  <2> QED BY <1>3, <1>7, <2>1, <2>2, <2>3
<1>9. 2 ^ n \in Nat /\ 2 ^ n # 0
  <2>1. SUBSET S # {}
    OBVIOUS
  <2> QED BY <1>3, <2>1, FS_CardinalityType, FS_EmptySet
<1>10. 2 ^ (n + 1) = 2 ^ n + 2 ^ n
  BY <1>3, <1>5, <1>8
<1> QED BY <1>9, <1>10

(* The naps at a line: within MaxSleep, and each at most half the last.    *)
LEMMA Halving ==
  ASSUME NEW max \in Nat, NEW n \in Nat
  PROVE  /\ max \div 2 ^ n \in 0 .. max
         /\ 2 * (max \div 2 ^ (n + 1)) <= max \div 2 ^ n
         /\ max \div 2 ^ 0 = max
<1> DEFINE p == 2 ^ n
<1>1. p \in Nat \ {0} /\ 2 ^ (n + 1) = 2 * p /\ 2 ^ 0 = 1
  BY PowersOfTwo
<1> HIDE DEF p
<1>2. max \div p \in 0 .. max
  BY <1>1
<1>3. max \div (2 * p) = (max \div p) \div 2
  BY <1>1
<1>4. 2 * ((max \div p) \div 2) <= max \div p
  BY <1>2
<1>5. max \div 1 = max
  OBVIOUS
<1> QED BY <1>1, <1>2, <1>3, <1>4, <1>5 DEF p
-----------------------------------------------------------------------------
(* Types.                                                                  *)

(* TypeOK with the variables of the environment and of the iterators.      *)
Typed ==
  /\ TypeOK
  /\ napped \in [Lines -> Nat]
  /\ task \in [Threads -> Tasks \cup {Nobody}]
  /\ causesLeft \in [Threads -> SUBSET Causes]
  /\ rowsLeft \in [Threads -> SUBSET Sites]

(* The line and the cause of a site.                                       *)
LEMMA SiteParts == \A s \in Sites : s[2] \in Lines /\ s[1] \in Causes
BY DEF Lines, Causes

(* Where a thread's call ends.                                             *)
LEMMA ReturnTypes ==
  ASSUME NEW t \in Threads, Typed, Return(t)
  PROVE  /\ pc' \in [Threads -> PCs] /\ site' \in [Threads -> Sites]
         /\ tid' \in [Threads -> Ids \cup {Nobody}] /\ amt' \in [Threads -> 0 .. MaxSleep]
BY WrapperAssumption DEF Typed, TypeOK, Return, Goto, PCs

(* What the lookup finds is an id, or null.                                *)
LEMMA SeenIdsAreIds ==
  ASSUME NEW t \in Threads, Typed
  PROVE  IdsSeen(t) \subseteq Ids \cup {Nobody}
<1>1. threadToID[t] \in Ids \cup {Nobody}
  BY DEF Typed, TypeOK, Objects
<1>2. SpecialTID(t) \in Ids \cup {Nobody}
  <2>1. threadToForkJoinTask[t] # Nobody => threadToForkJoinTask[t] \in Objects
    BY DEF Typed, TypeOK, Objects
  <2> QED BY <1>1, <2>1 DEF SpecialTID, Typed, TypeOK
<1> QED BY <1>1, <1>2 DEF IdsSeen

(* Steps of trackThread and doExec.                                        *)
LEMMA IdentityTypes ==
  ASSUME NEW t \in Threads, Typed, IInv,
         \/ \E o \in Objects : TrackThreadEnter(t, o)
         \/ \E trace \in Traces : TrackThread(t, trace)
         \/ \E k \in Tasks : DoExecEnter(t, k)
         \/ MapThreadToForkJoinTask(t)
         \/ DoExecReturns(t)
         \/ \E s \in Sites : ExtraSleep(t, s)
  PROVE  Typed'
<1> USE WrapperAssumption DEF Typed, TypeOK, Goto, identity, naps, records, locals, iters, env
<1>1. CASE \E o \in Objects : TrackThreadEnter(t, o)
  BY <1>1 DEF TrackThreadEnter, PCs
<1>2. ASSUME NEW trace \in Traces, TrackThread(t, trace) PROVE Typed'
  <2> DEFINE nonce == (stackTraceToNextNonce[trace] + 1) % NonceRange
  <2>1. nonce \in 0 .. NonceRange - 1
    OBVIOUS
  <2>2. <<trace, nonce>> \in Ids
    BY <2>1 DEF Ids
  <2> HIDE DEF nonce
  <2>3. /\ stackTraceToNextNonce' = [stackTraceToNextNonce EXCEPT ![trace] = nonce]
        /\ threadToID' = [threadToID EXCEPT ![making[t]] = <<trace, nonce>>]
        /\ monitor' = Nobody
        /\ pc' = [p \in Threads |-> IF p \in {t, making[t]} THEN "ready" ELSE pc[p]]
        /\ UNCHANGED <<threadToForkJoinTask, naps, records, locals, iters, calls, task,
                       sleepThreads, causeFile, mapLock>>
    BY <1>2 DEF TrackThread, nonce
  <2>4. pc' \in [Threads -> PCs]
    BY <2>3 DEF PCs
  <2>5. threadToID' \in [Objects -> Ids \cup {Nobody}]
    BY <2>2, <2>3
  <2> QED BY <2>1, <2>3, <2>4, <2>5
<1>3. CASE \E k \in Tasks : DoExecEnter(t, k)
  BY <1>3 DEF DoExecEnter, PCs
<1>4. CASE MapThreadToForkJoinTask(t)
  BY <1>4 DEF MapThreadToForkJoinTask, PCs
<1>5. CASE DoExecReturns(t)
  BY <1>5 DEF DoExecReturns
<1>6. CASE \E s \in Sites : ExtraSleep(t, s)
  BY <1>6 DEF ExtraSleep, PCs
<1> QED BY <1>1, <1>2, <1>3, <1>4, <1>5, <1>6

(* Steps of extraSleep that take no nap.                                   *)
LEMMA RecordTypes ==
  ASSUME NEW t \in Threads, Typed,
         LookUp(t) \/ Record(t) \/ Add(t) \/ PrintHit(t)
  PROVE  Typed'
<1> USE WrapperAssumption DEF identity, naps, records, locals, iters, env
<1>1. Hit(t) \in (Ids \cup {Nobody}) \X Lines
  BY SiteParts DEF Hit, Typed, TypeOK
<1>2. CASE LookUp(t)
  <2>1. /\ pc' \in [Threads -> PCs] /\ site' \in [Threads -> Sites]
        /\ tid' \in [Threads -> Ids \cup {Nobody}] /\ amt' \in [Threads -> 0 .. MaxSleep]
    <3>1. PICK id \in IdsSeen(t) :
            \/ \E x \in {"nap", "record"} :
                 Goto(t, x) /\ tid' = [tid EXCEPT ![t] = id] /\ UNCHANGED <<site, amt>>
            \/ Return(t)
      <4>1. /\ "nap" \in {"nap", "record"} /\ "record" \in {"nap", "record"}
        OBVIOUS
      <4> QED BY <1>2, <4>1 DEF LookUp
    <3>2. id \in Ids \cup {Nobody}
      BY SeenIdsAreIds
    <3>3. CASE Return(t)
      BY <3>3, ReturnTypes
    <3>4. ASSUME NEW x \in {"nap", "record"}, Goto(t, x), tid' = [tid EXCEPT ![t] = id],
                 UNCHANGED <<site, amt>>
          PROVE  /\ pc' \in [Threads -> PCs] /\ site' \in [Threads -> Sites]
                 /\ tid' \in [Threads -> Ids \cup {Nobody}]
                 /\ amt' \in [Threads -> 0 .. MaxSleep]
      BY <3>2, <3>4 DEF Typed, TypeOK, Goto, PCs
    <3> QED BY <3>1, <3>3, <3>4
  <2>2. UNCHANGED <<identity, naps, records, iters, env, sleepThreads, causeFile, monitor, mapLock>>
    BY <1>2 DEF LookUp
  <2> QED BY <2>1, <2>2 DEF Typed, TypeOK
<1>3. CASE Record(t)
  <2>1. /\ pc' \in [Threads -> PCs] /\ site' \in [Threads -> Sites]
        /\ tid' \in [Threads -> Ids \cup {Nobody}] /\ amt' \in [Threads -> 0 .. MaxSleep]
    <3>1. CASE Return(t)
      BY <3>1, ReturnTypes
    <3>2. CASE Goto(t, "add") /\ UNCHANGED locals
      BY <3>2 DEF Typed, TypeOK, Goto, PCs
    <3> QED BY <1>3, <3>1, <3>2 DEF Record
  <2>2. UNCHANGED <<identity, naps, recordedSleeps, sleepCalls, iters, env, sleepThreads,
                    causeFile, monitor, mapLock>>
    BY <1>3 DEF Record
  <2> QED BY <2>1, <2>2 DEF Typed, TypeOK
<1>4. CASE Add(t)
  <2>1. recordedSleeps' \subseteq recordedSleeps \cup {Hit(t)}
    BY <1>4 DEF Add
  <2> QED BY <1>1, <1>4, <2>1 DEF Add, Typed, TypeOK, Goto, PCs
<1>5. CASE PrintHit(t)
  <2>1. /\ pc' \in [Threads -> PCs] /\ site' \in [Threads -> Sites]
        /\ tid' \in [Threads -> Ids \cup {Nobody}] /\ amt' \in [Threads -> 0 .. MaxSleep]
    BY <1>5, ReturnTypes DEF PrintHit
  <2>2. sleepCalls' = sleepCalls \cup {Hit(t)}
        /\ UNCHANGED <<identity, naps, recordedSleeps, iters, env, sleepThreads,
                       causeFile, monitor, mapLock>>
    BY <1>5 DEF PrintHit
  <2> QED BY <1>1, <2>1, <2>2 DEF Typed, TypeOK
<1> QED BY <1>2, <1>3, <1>4, <1>5

(* Steps of a nap.                                                         *)
LEMMA NapTypes ==
  ASSUME NEW t \in Threads, Typed,
         NapEnter(t) \/ NapInsert(t) \/ NapBook(t) \/ FallAsleep(t) \/ WakeUp(t)
  PROVE  Typed'
<1> USE WrapperAssumption DEF identity, naps, records, locals, iters, env
<1>1. site[t] \in Sites /\ site[t][2] \in Lines /\ amt[t] \in 0 .. MaxSleep
  BY SiteParts DEF Typed, TypeOK
<1>2. CASE NapEnter(t)
  <2>1. NapLength(lineToSleeps[site[t][2]]) \in 0 .. MaxSleep
    <3>1. lineToSleeps[site[t][2]] \in Nat
      BY <1>1 DEF Typed, TypeOK
    <3> QED BY <3>1, Halving DEF NapLength
  <2> QED BY <1>2, <2>1 DEF NapEnter, Typed, TypeOK, Goto, PCs
<1>3. CASE NapBook(t)
  <2>1. lineToSleeps' \in [Lines -> Nat] /\ ledger' \in [Sites -> [count : Nat, total : Nat]]
    <3>1. CASE amt[t] > 0
      <4>1. ledger[site[t]] \in [count : Nat, total : Nat]
        BY <1>1 DEF Typed, TypeOK
      <4>2. [count |-> ledger[site[t]].count + 1, total |-> ledger[site[t]].total + amt[t]]
              \in [count : Nat, total : Nat]
        BY <1>1, <4>1
      <4>3. ledger' = [ledger EXCEPT ![site[t]] =
              [count |-> ledger[site[t]].count + 1, total |-> ledger[site[t]].total + amt[t]]]
        BY <1>3, <3>1 DEF NapBook, Book
      <4>4. lineToSleeps' = [lineToSleeps EXCEPT ![site[t][2]] = @ + 1]
        BY <1>3, <3>1 DEF NapBook, Book
      <4>5. ledger' \in [Sites -> [count : Nat, total : Nat]]
        <5> DEFINE r == [count |-> ledger[site[t]].count + 1,
                         total |-> ledger[site[t]].total + amt[t]]
        <5>1. r \in [count : Nat, total : Nat] /\ ledger' = [ledger EXCEPT ![site[t]] = r]
          BY <4>2, <4>3
        <5>2. ledger \in [Sites -> [count : Nat, total : Nat]]
          BY DEF Typed, TypeOK
        <5> HIDE DEF r
        <5> QED BY <5>1, <5>2
      <4>6. lineToSleeps' \in [Lines -> Nat]
        <5>1. lineToSleeps \in [Lines -> Nat]
          BY DEF Typed, TypeOK
        <5> DEFINE l == site[t][2]
        <5>2. l \in Lines /\ lineToSleeps' = [lineToSleeps EXCEPT ![l] = lineToSleeps[l] + 1]
          BY <1>1, <4>4
        <5> HIDE DEF l
        <5> QED BY <5>1, <5>2
      <4> QED BY <4>5, <4>6
    <3>2. CASE ~ (amt[t] > 0)
      BY <1>3, <3>2 DEF NapBook, Book, Typed, TypeOK
    <3> QED BY <3>1, <3>2
  <2> QED BY <1>3, <2>1 DEF NapBook, Typed, TypeOK, Goto, PCs
<1>4. CASE FallAsleep(t)
  BY <1>1, <1>4 DEF FallAsleep, Typed, TypeOK, Goto, PCs
<1>5. CASE WakeUp(t)
  <2>1. /\ pc' \in [Threads -> PCs] /\ site' \in [Threads -> Sites]
        /\ tid' \in [Threads -> Ids \cup {Nobody}] /\ amt' \in [Threads -> 0 .. MaxSleep]
    BY <1>5, ReturnTypes DEF WakeUp
  <2> QED BY <1>5, <2>1 DEF WakeUp, Typed, TypeOK
<1>6. CASE NapInsert(t)
  BY <1>6 DEF NapInsert, Typed, TypeOK, Goto, PCs
<1> QED BY <1>2, <1>3, <1>4, <1>5, <1>6

(* Steps of the report.                                                    *)
LEMMA ReportTypes ==
  ASSUME NEW t \in Threads, Typed,
         \/ ReportEnter(t) \/ ReportExit(t) \/ ReportThrows(t) \/ ReportCauseDone(t)
         \/ \E c \in Causes : ReportCause(t, c)
         \/ \E s \in Sites : ReportRow(t, s) \/ ReportSkips(t, s)
  PROVE  Typed'
<1> USE WrapperAssumption DEF identity, naps, records, locals, iters, env
<1>1. CASE ReportEnter(t)
  <2>1. {s[1] : s \in Booked} \subseteq Causes
    BY SiteParts DEF Booked
  <2> QED BY <1>1, <2>1 DEF ReportEnter, Typed, TypeOK, Goto, PCs
<1>2. CASE ReportExit(t)
  BY <1>2 DEF ReportExit, Typed, TypeOK, Goto, PCs
<1>3. CASE ReportThrows(t)
  <2>1. /\ pc' \in [Threads -> PCs] /\ site' \in [Threads -> Sites]
        /\ tid' \in [Threads -> Ids \cup {Nobody}] /\ amt' \in [Threads -> 0 .. MaxSleep]
    BY <1>3, ReturnTypes DEF ReportThrows
  <2> QED BY <1>3, <2>1 DEF ReportThrows, DropIterators, Typed, TypeOK
<1>4. CASE ReportCauseDone(t)
  BY <1>4 DEF ReportCauseDone, Typed, TypeOK, Goto, PCs
<1>5. ASSUME NEW c \in Causes, ReportCause(t, c) PROVE Typed'
  <2>1. RowsOf(c) \subseteq Sites /\ RowsOf(c) \cap Booked \subseteq Sites
    BY DEF RowsOf, Booked, BeingPut, Typed, TypeOK
  <2>2. PICK r \in SUBSET Sites : rowsLeft' = [rowsLeft EXCEPT ![t] = r]
    BY <1>5, <2>1 DEF ReportCause
  <2> QED BY <1>5, <2>2 DEF ReportCause, Typed, TypeOK, Goto, PCs
<1>6. ASSUME NEW s \in Sites, ReportRow(t, s) PROVE Typed'
  <2>1. ledger[s].total \in Nat
    BY DEF Typed, TypeOK
  <2> QED BY <1>6, <2>1 DEF ReportRow, Typed, TypeOK
<1>7. ASSUME NEW s \in Sites, ReportSkips(t, s) PROVE Typed'
  BY <1>7 DEF ReportSkips, Typed, TypeOK
<1> QED BY <1>1, <1>2, <1>3, <1>4, <1>5, <1>6, <1>7

(* The types hold after Wrapper.init.                                      *)
LEMMA InitTypes == Init => Typed
<1> SUFFICES ASSUME Init PROVE Typed
  OBVIOUS
<1> USE WrapperAssumption DEF Init
<1>1. 0 \in 0 .. NonceRange - 1 /\ 0 \in 0 .. MaxCalls /\ 0 \in 0 .. MaxSleep /\ MainId \in Ids
  BY DEF Ids
<1>2. \A o \in Objects : (IF o = Main THEN MainId ELSE Nobody) \in Ids \cup {Nobody}
  BY <1>1
<1>3. threadToID \in [Objects -> Ids \cup {Nobody}]
  BY <1>2
<1>4. \A t \in Threads :
        (IF t \in Untracked \cup {Main} THEN "ready" ELSE "unborn") \in PCs
  BY DEF PCs
<1>5. pc \in [Threads -> PCs]
  BY <1>4
<1>6. ledger \in [Sites -> [count : Nat, total : Nat]] /\ causeFile \in [Sites -> Nat]
      /\ lineToSleeps \in [Lines -> Nat] /\ napped \in [Lines -> Nat]
  OBVIOUS
<1>7. /\ stackTraceToNextNonce \in [Traces -> 0 .. NonceRange - 1]
      /\ calls \in 0 .. MaxCalls /\ amt \in [Threads -> 0 .. MaxSleep]
  BY <1>1
<1>8. /\ threadToForkJoinTask \in [Threads -> Tasks \cup {Nobody}]
      /\ sleepThreads \in BOOLEAN
      /\ monitor \in Threads \cup {Nobody} /\ mapLock \in Threads \cup {Nobody}
      /\ site \in [Threads -> Sites] /\ tid \in [Threads -> Ids \cup {Nobody}]
      /\ recordedSleeps = {} /\ sleepCalls = {}
      /\ task \in [Threads -> Tasks \cup {Nobody}]
      /\ causesLeft \in [Threads -> SUBSET Causes]
      /\ rowsLeft \in [Threads -> SUBSET Sites]
  OBVIOUS
<1> QED BY ONLY <1>3, <1>5, <1>6, <1>7, <1>8 DEF Typed, TypeOK

(* Any step of the JVM keeps the types.                                    *)
LEMMA TypesKeep == IInv /\ Typed /\ [Next]_vars => Typed'
<1> SUFFICES ASSUME IInv, Typed, [Next]_vars PROVE Typed'
  OBVIOUS
<1>1. CASE SetSleep
  BY <1>1 DEF SetSleep, Typed, TypeOK, identity, naps, records, locals, iters, env
<1>2. ASSUME NEW t \in Threads, Continue(t) \/ TestStep(t) PROVE Typed'
  BY <1>2, IdentityTypes, RecordTypes, NapTypes, ReportTypes DEF Continue, TestStep
<1>3. CASE UNCHANGED vars
  BY <1>3 DEF vars, Typed, TypeOK, identity, naps, records, locals, iters, env
<1> QED BY <1>1, <1>2, <1>3 DEF Next

(* Every variable of the runtime stays in its type, for every number of    *)
(* threads, tasks, sites and calls.                                        *)
THEOREM RuntimeTypes == Spec => []TypeOK
<1>1. Typed => TypeOK
  BY DEF Typed
<1> QED BY <1>1, InitTypes, Initially, StepKeeps, TypesKeep, PTL DEF Spec

-----------------------------------------------------------------------------
(* Two sums that differ at one place.                                      *)
LEMMA SumDiffers ==
  ASSUME NEW S, IsFiniteSet(S), NEW f, NEW g, NEW x,
         \A y \in S : f[y] \in Int /\ g[y] \in Int,
         \A y \in S \ {x} : g[y] = f[y]
  PROVE  /\ x \in S => SumFunctionOnSet(g, S) = SumFunctionOnSet(f, S) + g[x] - f[x]
         /\ x \notin S => SumFunctionOnSet(g, S) = SumFunctionOnSet(f, S)
<1> DEFINE r == S \ {x}
<1>1. IsFiniteSet(r) /\ \A y \in r : f[y] \in Int /\ g[y] \in Int /\ f[y] = g[y]
  BY FS_Subset
<1>2. SumFunctionOnSet(f, r) = SumFunctionOnSet(g, r)
  BY <1>1, SumsCompare
<1>3. SumFunctionOnSet(f, r) \in Int
  BY <1>1, SumIsInt
<1>4. CASE x \in S
  <2>1. /\ SumFunctionOnSet(f, S) = f[x] + SumFunctionOnSet(f, r)
        /\ SumFunctionOnSet(g, S) = g[x] + SumFunctionOnSet(g, r)
    BY <1>4, SumTakesOut
  <2>2. f[x] \in Int /\ g[x] \in Int
    BY <1>4
  <2> HIDE DEF r
  <2> QED BY <1>2, <1>3, <1>4, <2>1, <2>2
<1>5. CASE x \notin S
  <2>1. r = S
    BY <1>5
  <2> QED BY <1>2, <1>5, <2>1
<1> QED BY <1>4, <1>5

(* A sum of zeros.                                                         *)
LEMMA SumOfNothing ==
  ASSUME NEW S, IsFiniteSet(S), NEW f, \A y \in S : f[y] = 0
  PROVE  SumFunctionOnSet(f, S) = 0
<1> DEFINE sum == SumFunctionOnSet(f, S)
<1>1. \A y \in S : f[y] \in Int /\ f[y] = f[y] + f[y]
  OBVIOUS
<1>2. sum \in Int
  BY <1>1, SumIsInt
<1>3. sum = sum + sum
  BY <1>1, SumsCompare
<1> HIDE DEF sum
<1>4. sum = 0
  BY <1>2, <1>3
<1> QED BY <1>4 DEF sum

(* A sum of naturals is one.                                               *)
LEMMA SumIsNat ==
  ASSUME NEW S, IsFiniteSet(S), NEW f, \A y \in S : f[y] \in Nat
  PROVE  SumFunctionOnSet(f, S) \in Nat
<1> DEFINE z == [y \in S |-> 0]
           sum == SumFunctionOnSet(f, S)
<1>1. \A y \in S : z[y] = 0 /\ z[y] \in Int /\ f[y] \in Int /\ z[y] <= f[y]
  OBVIOUS
<1> HIDE DEF z
<1>2. SumFunctionOnSet(z, S) <= sum /\ sum \in Int
  BY <1>1, SumsCompare, SumIsInt
<1>3. SumFunctionOnSet(z, S) = 0
  BY <1>1, SumOfNothing
<1> HIDE DEF sum
<1>4. sum \in Nat
  BY <1>2, <1>3
<1> QED BY <1>4 DEF sum

(* One more nap.                                                           *)
LEMMA NextNap ==
  ASSUME NEW n \in Nat
  PROVE  /\ NapLength(n) \in 0 .. MaxSleep /\ FirstNaps(n) \in Int
         /\ FirstNaps(0) = 0
         /\ FirstNaps(n + 1) = FirstNaps(n) + NapLength(n)
<1> DEFINE f(m) == [i \in 0 .. m - 1 |-> NapLength(i)]
<1>1. \A i \in Nat : NapLength(i) \in 0 .. MaxSleep
  BY WrapperAssumption, Halving DEF NapLength
<1>2. \A m \in Nat : IsFiniteSet(0 .. m - 1) /\ \A i \in 0 .. m - 1 : f(m)[i] \in Int
  <2> SUFFICES ASSUME NEW m \in Nat
               PROVE  IsFiniteSet(0 .. m - 1) /\ \A i \in 0 .. m - 1 : f(m)[i] \in Int
    OBVIOUS
  <2>1. IsFiniteSet(0 .. m - 1)
    BY FS_Interval
  <2>2. \A i \in 0 .. m - 1 : f(m)[i] \in Int
    BY <1>1
  <2> QED BY <2>1, <2>2
<1>3. FirstNaps(n) \in Int
  BY <1>2, SumIsInt DEF FirstNaps
<1>4. FirstNaps(0) = 0
  <2>1. 0 .. 0 - 1 = {}
    OBVIOUS
  <2> QED BY <1>2, <2>1, SumUnfolds DEF FirstNaps
<1>5. FirstNaps(n + 1) = FirstNaps(n) + NapLength(n)
  <2>1. /\ n + 1 \in Nat /\ n \in 0 .. (n + 1) - 1 /\ f(n + 1)[n] = NapLength(n)
        /\ (0 .. (n + 1) - 1) \ {n} = 0 .. n - 1
        /\ \A i \in 0 .. n - 1 : f(n + 1)[i] = f(n)[i] /\ f(n + 1)[i] \in Int /\ f(n)[i] \in Int
    BY <1>1
  <2> HIDE DEF f
  <2>2. SumFunctionOnSet(f(n + 1), 0 .. (n + 1) - 1)
          = f(n + 1)[n] + SumFunctionOnSet(f(n + 1), (0 .. (n + 1) - 1) \ {n})
    <3> DEFINE S == 0 .. (n + 1) - 1
               g == f(n + 1)
    <3>1. IsFiniteSet(S) /\ (\A i \in S : g[i] \in Int) /\ n \in S
      BY <1>2, <2>1
    <3> HIDE DEF S, g
    <3>2. SumFunctionOnSet(g, S) = g[n] + SumFunctionOnSet(g, S \ {n})
      <4> DEFINE k == n
      <4>1. IsFiniteSet(S) /\ (\A i \in S : g[i] \in Int) /\ k \in S
        BY <3>1
      <4> HIDE DEF k
      <4>2. SumFunctionOnSet(g, S) = g[k] + SumFunctionOnSet(g, S \ {k})
        BY <4>1, SumTakesOut
      <4> QED BY <4>2 DEF k
    <3> QED BY <3>2 DEF S, g
  <2>3. SumFunctionOnSet(f(n + 1), 0 .. n - 1) = SumFunctionOnSet(f(n), 0 .. n - 1)
    BY <1>2, <2>1, SumsCompare
  <2>4. /\ FirstNaps(n + 1) = SumFunctionOnSet(f(n + 1), 0 .. (n + 1) - 1)
        /\ FirstNaps(n) = SumFunctionOnSet(f(n), 0 .. n - 1)
    BY DEF FirstNaps, f
  <2>5. FirstNaps(n + 1) = NapLength(n) + FirstNaps(n)
    BY <2>1, <2>2, <2>3, <2>4
  <2> QED BY <1>1, <1>3, <2>5
<1> QED BY <1>1, <1>3, <1>4, <1>5

-----------------------------------------------------------------------------
(* Naps.  What a thread that is between booking a nap and falling asleep   *)
(* has booked may or may not have reached the file of causes.              *)

Napping == {"report", "cause", "rows", "sleep"}

(* A thread that computes the length of its nap has the lock, and no one   *)
(* else counts naps at its line meanwhile.                                 *)
LockHolder ==
  \A t \in Threads :
    /\ pc[t] \in {"book", "put"} =>
         mapLock = t /\ amt[t] = NapLength(lineToSleeps[site[t][2]])
    /\ pc[t] = "put" => amt[t] > 0

BookedSites ==
  \A t \in Threads : pc[t] \in Napping /\ amt[t] > 0 => ledger[site[t]].count > 0

(* The sums of LedgerAgrees, whoever has the lock.                         *)
SumsAgree ==
  \A l \in Lines :
    /\ lineToSleeps[l] = SumFunctionOnSet(Counts, SitesAt(l))
    /\ SumFunctionOnSet(Totals, SitesAt(l)) = FirstNaps(lineToSleeps[l])

(* The report t is writing, or waits to write, will get to the site of t.  *)
Unreported(t) ==
  \/ pc[t] = "report"
  \/ /\ pc[t] \in {"cause", "rows"}
     /\ \/ site[t][1] \in causesLeft[t]
        \/ pc[t] = "rows" /\ site[t] \in rowsLeft[t]

(* What the threads of R are about to sleep at line l, ...                 *)
Reported(R, l) ==
  [t \in Threads |-> IF t \in R /\ pc[t] \in Napping /\ site[t][2] = l THEN amt[t] ELSE 0]

(* ... and what the other threads have booked at site s.                   *)
Missing(R, s) ==
  [t \in Threads |-> IF t \notin R /\ pc[t] \in Napping /\ site[t] = s THEN amt[t] ELSE 0]

(* No map of a cause seen at line l was moved.                             *)
QuietLine(l) == \A s \in SitesAt(l) : Unmoved(s[1])

(* As long as no map was moved, a thread outside R is yet to report, and   *)
(* the file covers the naps that began and those the threads of R are      *)
(* about to take; what it still lacks of the ledger covers the others'.    *)
AccountedFor(R) ==
  /\ \A t \in Threads :
       pc[t] \in Napping /\ t \notin R /\ amt[t] > 0 /\ Unmoved(site[t][1]) => Unreported(t)
  /\ \A l \in Lines :
       QuietLine(l) =>
         napped[l] + SumFunctionOnSet(Reported(R, l), Threads)
           <= SumFunctionOnSet(causeFile, SitesAt(l))
  /\ \A s \in Sites :
       causeFile[s] + SumFunctionOnSet(Missing(R, s), Threads) <= ledger[s].total

Accounted == \E R \in SUBSET Threads : AccountedFor(R)

(* The naps that began at a line and those that are about to were booked.  *)
Spent ==
  \A l \in Lines :
    napped[l] + SumFunctionOnSet(Reported(Threads, l), Threads)
      <= SumFunctionOnSet(Totals, SitesAt(l))

NapInv == LockHolder /\ BookedSites /\ SumsAgree /\ Spent /\ Accounted

(* The types of the sums.                                                  *)
SumFacts ==
  /\ \A l : IsFiniteSet(SitesAt(l)) /\ SitesAt(l) \subseteq Sites
  /\ \A s \in Sites : Counts[s] \in Nat /\ Totals[s] \in Nat /\ causeFile[s] \in Nat
  /\ \A R : /\ \A l : \A t \in Threads : Reported(R, l)[t] \in Nat
            /\ \A s : \A t \in Threads : Missing(R, s)[t] \in Nat
  /\ \A l : /\ SumFunctionOnSet(causeFile, SitesAt(l)) \in Int
            /\ SumFunctionOnSet(Counts, SitesAt(l)) \in Int
            /\ SumFunctionOnSet(Totals, SitesAt(l)) \in Int
  /\ \A R : /\ \A l : SumFunctionOnSet(Reported(R, l), Threads) \in Nat
            /\ \A s : SumFunctionOnSet(Missing(R, s), Threads) \in Nat

(* They follow from the types of the variables.                            *)
LEMMA SumTypes == Typed => SumFacts
<1> SUFFICES ASSUME Typed PROVE SumFacts
  OBVIOUS
<1>1. /\ IsFiniteSet(Threads) /\ \A l : IsFiniteSet(SitesAt(l)) /\ SitesAt(l) \subseteq Sites
  <2>1. \A l : SitesAt(l) \subseteq Sites
    BY DEF SitesAt
  <2> QED BY <2>1, WrapperAssumption, FS_Subset
<1>2. \A s \in Sites : Counts[s] \in Nat /\ Totals[s] \in Nat /\ causeFile[s] \in Nat
  BY DEF Typed, TypeOK, Counts, Totals
<1>3. \A t \in Threads : amt[t] \in Nat
  BY WrapperAssumption DEF Typed, TypeOK
<1>4. \A R, l : \A t \in Threads : Reported(R, l)[t] \in Nat
  BY <1>3 DEF Reported
<1>5. \A R, s : \A t \in Threads : Missing(R, s)[t] \in Nat
  BY <1>3 DEF Missing
<1>6. \A f, S : IsFiniteSet(S) /\ (\A x \in S : f[x] \in Nat) => SumFunctionOnSet(f, S) \in Nat
  BY SumIsNat
<1>7. \A l : /\ SumFunctionOnSet(causeFile, SitesAt(l)) \in Int
             /\ SumFunctionOnSet(Counts, SitesAt(l)) \in Int
             /\ SumFunctionOnSet(Totals, SitesAt(l)) \in Int
  BY <1>1, <1>2, <1>6
<1>8. \A R : /\ \A l : SumFunctionOnSet(Reported(R, l), Threads) \in Nat
             /\ \A s : SumFunctionOnSet(Missing(R, s), Threads) \in Nat
  BY <1>1, <1>4, <1>5, <1>6
<1> QED BY <1>1, <1>2, <1>4, <1>5, <1>7, <1>8 DEF SumFacts

(* The same of the next state.                                             *)
LEMMA NextSumTypes == Typed' => SumFacts'
BY SumTypes, PTL

(* The share of p in what is booked does not grow, and p does not forget   *)
(* to report it.                                                           *)
Calm(p) ==
  pc'[p] \in Napping =>
    /\ pc[p] \in Napping /\ site'[p] = site[p] /\ amt'[p] = amt[p]
    /\ Unreported(p) /\ amt[p] > 0 /\ Unmoved(site[p][1])' => Unreported(p)'

(* A map that was moved stays so.                                          *)
MovedStays == \A c : Unmoved(c)' => Unmoved(c)

(* Then neither do the sums of the shares.                                 *)
LEMMA SharesShrink ==
  ASSUME SumFacts, SumFacts', NEW R, \A p \in Threads : Calm(p)
  PROVE  /\ \A l : SumFunctionOnSet(Reported(R, l)', Threads)
                  <= SumFunctionOnSet(Reported(R, l), Threads)
         /\ \A s : SumFunctionOnSet(Missing(R, s)', Threads)
                  <= SumFunctionOnSet(Missing(R, s), Threads)
<1> USE WrapperAssumption
<1>1. ASSUME NEW l
      PROVE  SumFunctionOnSet(Reported(R, l)', Threads)
               <= SumFunctionOnSet(Reported(R, l), Threads)
  <2> DEFINE f == Reported(R, l)
  <2>1. \A p \in Threads : f[p] \in Nat /\ f'[p] \in Nat
    BY DEF SumFacts
  <2>2. \A p \in Threads : f'[p] <= f[p]
    <3> SUFFICES ASSUME NEW p \in Threads PROVE f'[p] <= f[p]
      OBVIOUS
    <3>1. CASE f'[p] = 0
      BY <2>1, <3>1
    <3>2. CASE f'[p] # 0
      <4>1. p \in R /\ pc'[p] \in Napping /\ site'[p][2] = l /\ f'[p] = amt'[p]
        BY <3>2 DEF Reported
      <4>2. f[p] = amt[p] /\ amt'[p] = amt[p]
        BY <4>1 DEF Calm, Reported
      <4> HIDE DEF f
      <4> QED BY <2>1, <4>1, <4>2
    <3> QED BY <3>1, <3>2
  <2> HIDE DEF f
  <2>3. SumFunctionOnSet(f', Threads) <= SumFunctionOnSet(f, Threads)
    BY <2>1, <2>2, SumsCompare
  <2> QED BY <2>3 DEF f
<1>2. ASSUME NEW s
      PROVE  SumFunctionOnSet(Missing(R, s)', Threads)
               <= SumFunctionOnSet(Missing(R, s), Threads)
  <2> DEFINE f == Missing(R, s)
  <2>1. \A p \in Threads : f[p] \in Nat /\ f'[p] \in Nat
    BY DEF SumFacts
  <2>2. \A p \in Threads : f'[p] <= f[p]
    <3> SUFFICES ASSUME NEW p \in Threads PROVE f'[p] <= f[p]
      OBVIOUS
    <3>1. CASE f'[p] = 0
      BY <2>1, <3>1
    <3>2. CASE f'[p] # 0
      <4>1. p \notin R /\ pc'[p] \in Napping /\ site'[p] = s /\ f'[p] = amt'[p]
        BY <3>2 DEF Missing
      <4>2. f[p] = amt[p] /\ amt'[p] = amt[p]
        BY <4>1 DEF Calm, Missing
      <4> HIDE DEF f
      <4> QED BY <2>1, <4>1, <4>2
    <3> QED BY <3>1, <3>2
  <2> HIDE DEF f
  <2>3. SumFunctionOnSet(f', Threads) <= SumFunctionOnSet(f, Threads)
    BY <2>1, <2>2, SumsCompare
  <2> QED BY <2>3 DEF f
<1> QED BY <1>1, <1>2

(* So causes and lines that are quiet were so before.                      *)
LEMMA StayUnmoved ==
  ASSUME MovedStays
  PROVE  /\ \A c : Unmoved(c)' => Unmoved(c)
         /\ \A l : QuietLine(l)' => QuietLine(l)
<1>1. \A l : SitesAt(l)' = SitesAt(l)
  BY DEF SitesAt
<1> QED BY <1>1 DEF MovedStays, QuietLine

(* A calm step that books, begins and reports no nap keeps what is         *)
(* accounted for.                                                          *)
LEMMA CalmStepKeeps ==
  ASSUME Typed, Typed', BookedSites, SumsAgree, Spent, Accounted,
         UNCHANGED <<naps, causeFile>>, MovedStays, \A p \in Threads : Calm(p)
  PROVE  BookedSites' /\ SumsAgree' /\ Spent' /\ Accounted'
<1>1. SumFacts /\ SumFacts'
  BY SumTypes, NextSumTypes
<1>2. BookedSites'
  BY DEF BookedSites, Calm, naps
<1>3. SumsAgree'
  BY DEF SumsAgree, Counts, Totals, naps
<1>4. PICK R \in SUBSET Threads : AccountedFor(R)
  BY DEF Accounted
<1>5. AccountedFor(R)'
  <2>1. \A t \in Threads :
          (pc[t] \in Napping /\ t \notin R /\ amt[t] > 0 /\ Unmoved(site[t][1])
             => Unreported(t))'
    BY <1>4, StayUnmoved DEF AccountedFor, Calm
  <2>2. ASSUME NEW l \in Lines, QuietLine(l)'
        PROVE  (napped[l] + SumFunctionOnSet(Reported(R, l), Threads)
                  <= SumFunctionOnSet(causeFile, SitesAt(l)))'
    <3> DEFINE f == Reported(R, l)
    <3>1. SumFunctionOnSet(f', Threads) <= SumFunctionOnSet(f, Threads)
      BY <1>1, SharesShrink
    <3>2. /\ napped[l] + SumFunctionOnSet(f, Threads) <= SumFunctionOnSet(causeFile, SitesAt(l))
          /\ SumFunctionOnSet(f, Threads) \in Int /\ SumFunctionOnSet(f', Threads) \in Int
          /\ SumFunctionOnSet(causeFile, SitesAt(l)) \in Int
      BY <1>1, <1>4, <2>2, StayUnmoved DEF SumFacts, AccountedFor
    <3> HIDE DEF f
    <3>3. napped'[l] = napped[l] /\ napped[l] \in Int /\ causeFile' = causeFile
      BY DEF naps, Typed
    <3>4. napped'[l] + SumFunctionOnSet(f', Threads) <= SumFunctionOnSet(causeFile', SitesAt(l))
      BY <3>1, <3>2, <3>3
    <3> QED BY <3>4 DEF f, SitesAt
  <2>3. ASSUME NEW s \in Sites
        PROVE  (causeFile[s] + SumFunctionOnSet(Missing(R, s), Threads) <= ledger[s].total)'
    <3> DEFINE f == Missing(R, s)
    <3>1. SumFunctionOnSet(f', Threads) <= SumFunctionOnSet(f, Threads)
      BY <1>1, SharesShrink
    <3>2. ledger[s].total \in Int
      BY DEF Typed, TypeOK
    <3>3. /\ causeFile[s] + SumFunctionOnSet(f, Threads) <= ledger[s].total
          /\ SumFunctionOnSet(f, Threads) \in Int /\ SumFunctionOnSet(f', Threads) \in Int
          /\ causeFile[s] \in Int
      BY <1>1, <1>4 DEF SumFacts, AccountedFor
    <3> HIDE DEF f
    <3>4. causeFile' = causeFile /\ ledger' = ledger
      BY DEF naps
    <3>5. causeFile'[s] + SumFunctionOnSet(f', Threads) <= ledger'[s].total
      BY <3>1, <3>2, <3>3, <3>4
    <3> QED BY <3>5 DEF f
  <2> QED BY <2>1, <2>2, <2>3 DEF AccountedFor
<1>6. Spent'
  <2> SUFFICES ASSUME NEW l \in Lines
               PROVE  (napped[l] + SumFunctionOnSet(Reported(Threads, l), Threads)
                         <= SumFunctionOnSet(Totals, SitesAt(l)))'
    BY DEF Spent
  <2> DEFINE f == Reported(Threads, l)
             c == SumFunctionOnSet(Totals, SitesAt(l))
  <2>1. SumFunctionOnSet(f', Threads) <= SumFunctionOnSet(f, Threads)
    <3>1. /\ \A k : SumFunctionOnSet(Reported(Threads, k)', Threads)
                    <= SumFunctionOnSet(Reported(Threads, k), Threads)
      BY <1>1, SharesShrink
    <3> QED BY <3>1
  <2>2. /\ napped[l] + SumFunctionOnSet(f, Threads) <= c
        /\ SumFunctionOnSet(f, Threads) \in Int /\ SumFunctionOnSet(f', Threads) \in Int
        /\ c \in Int
    BY <1>1 DEF SumFacts, Spent
  <2>3. napped'[l] = napped[l] /\ napped[l] \in Int /\ c' = c
    BY DEF naps, Typed, Totals, SitesAt
  <2> HIDE DEF f, c
  <2>4. napped'[l] + SumFunctionOnSet(f', Threads) <= c'
    BY <2>1, <2>2, <2>3
  <2> QED BY <2>4 DEF f, c
<1> QED BY <1>2, <1>3, <1>5, <1>6 DEF Accounted

(* What a step of t does to the locals of other threads: one that is being *)
(* created may become ready.                                               *)
LocalStep(t) ==
  \A p \in Threads \ {t} :
    /\ pc'[p] \in {pc[p], "ready"} /\ (pc[p] = "put" => pc'[p] = "put")
    /\ site'[p] = site[p] /\ amt'[p] = amt[p]
    /\ causesLeft'[p] = causesLeft[p] /\ rowsLeft'[p] = rowsLeft[p]

(* All steps of t are of this kind.                                        *)
LEMMA StepsAreLocal ==
  ASSUME NEW t \in Threads, IInv, Typed, Continue(t) \/ TestStep(t)
  PROVE  LocalStep(t)
<1> USE DEF LocalStep, Typed, TypeOK, locals, iters, Goto
<1> DEFINE IsCall == \/ \E o \in Objects : TrackThreadEnter(t, o)
                     \/ \E trace \in Traces : TrackThread(t, trace)
                     \/ \E k \in Tasks : DoExecEnter(t, k)
                     \/ MapThreadToForkJoinTask(t)
                     \/ DoExecReturns(t)
                     \/ \E s \in Sites : ExtraSleep(t, s)
           IsReport == \/ ReportEnter(t) \/ ReportExit(t) \/ ReportThrows(t)
                       \/ ReportCauseDone(t)
                       \/ \E c \in Causes : ReportCause(t, c)
                       \/ \E s \in Sites : ReportRow(t, s) \/ ReportSkips(t, s)
<1>1. CASE IsCall
  <2>1. ASSUME NEW trace \in Traces, TrackThread(t, trace) PROVE LocalStep(t)
    <3>1. making[t] \in Threads => pc[making[t]] = "unborn"
      BY DEF IInv, NewThreadsWait
    <3>2. /\ pc' = [p \in Threads |-> IF p \in {t, making[t]} THEN "ready" ELSE pc[p]]
          /\ UNCHANGED <<locals, iters>>
      BY <2>1 DEF TrackThread
    <3> QED BY <3>1, <3>2
  <2> QED BY <1>1, <2>1 DEF TrackThreadEnter, DoExecEnter, MapThreadToForkJoinTask,
                            DoExecReturns, ExtraSleep
<1>2. CASE IsReport
  BY <1>2 DEF ReportEnter, ReportExit, ReportThrows, ReportCauseDone, ReportCause,
              ReportRow, ReportSkips, DropIterators, Return
<1>3. CASE LookUp(t) \/ Record(t) \/ Add(t) \/ PrintHit(t)
  BY <1>3 DEF LookUp, Record, Add, PrintHit, Return
<1>4. CASE NapEnter(t) \/ NapInsert(t) \/ NapBook(t) \/ FallAsleep(t) \/ WakeUp(t)
  BY <1>4 DEF NapEnter, NapInsert, NapBook, FallAsleep, WakeUp, Return
<1> QED BY <1>1, <1>2, <1>3, <1>4 DEF Continue, TestStep

(* So such a step is calm if t is.                                         *)
LEMMA OthersAreCalm ==
  ASSUME NEW t \in Threads, LocalStep(t), NEW p \in Threads \ {t}
  PROVE  Calm(p)
BY DEF LocalStep, Calm, Napping, Unreported

(* No one else is computing the length of a nap.                           *)
LEMMA LockKeeps ==
  ASSUME NEW t \in Threads, LockHolder, LocalStep(t), pc'[t] \notin {"book", "put"},
         UNCHANGED <<mapLock, lineToSleeps>>
  PROVE  LockHolder'
BY DEF LockHolder, LocalStep

(* What is booked.                                                         *)
LEMMA Booking ==
  ASSUME NEW t \in Threads, Typed, NapBook(t)
  PROVE  /\ \A s \in Sites :
              /\ ledger'[s].total = ledger[s].total + (IF s = site[t] THEN amt[t] ELSE 0)
              /\ ledger'[s].count
                   = ledger[s].count + (IF s = site[t] /\ amt[t] > 0 THEN 1 ELSE 0)
         /\ \A l \in Lines :
              lineToSleeps'[l]
                = lineToSleeps[l] + (IF l = site[t][2] /\ amt[t] > 0 THEN 1 ELSE 0)
<1>1. /\ \A s \in Sites : ledger[s].total \in Nat /\ ledger[s].count \in Nat
      /\ \A l \in Lines : lineToSleeps[l] \in Nat
      /\ DOMAIN ledger = Sites /\ DOMAIN lineToSleeps = Lines
      /\ amt[t] \in Nat
  BY DEF Typed, TypeOK
<1>2. CASE amt[t] > 0
  <2>1. /\ ledger' = [ledger EXCEPT ![site[t]] = [count |-> @.count + 1,
                                                  total |-> @.total + amt[t]]]
        /\ lineToSleeps' = [lineToSleeps EXCEPT ![site[t][2]] = @ + 1]
    BY <1>2 DEF NapBook, Book
  <2>2. /\ \A s \in Sites \ {site[t]} : ledger'[s] = ledger[s]
        /\ site[t] \in Sites =>
             ledger'[site[t]] = [count |-> ledger[site[t]].count + 1,
                                 total |-> ledger[site[t]].total + amt[t]]
        /\ \A l \in Lines : lineToSleeps'[l] = IF l = site[t][2] THEN lineToSleeps[l] + 1
                                               ELSE lineToSleeps[l]
    BY <1>1, <2>1
  <2>3. site[t] \in Sites =>
          /\ ledger'[site[t]].count = ledger[site[t]].count + 1
          /\ ledger'[site[t]].total = ledger[site[t]].total + amt[t]
    BY <2>2
  <2> QED BY <1>1, <1>2, <2>2, <2>3
<1>3. CASE ~ (amt[t] > 0)
  <2>1. ledger' = ledger /\ lineToSleeps' = lineToSleeps /\ amt[t] = 0
    BY <1>1, <1>3 DEF NapBook, Book
  <2> QED BY <1>1, <2>1
<1> QED BY <1>2, <1>3

(* While rows of a cause are being moved, it is not unmoved.               *)
LEMMA MovingIsMoved ==
  ASSUME Typed, NEW c, Moving(c)
  PROVE  ~ Unmoved(c)
<1> DEFINE n == Cardinality(RowsOf(c)) - 1
<1>1. n \in Nat /\ n \in Thresholds
  BY WrapperAssumption DEF Moving
<1>2. Cardinality(RowsOf(c)) \in Nat
  <2>1. RowsOf(c) \subseteq Sites
    BY DEF RowsOf, Booked, BeingPut, Typed, TypeOK
  <2> QED BY <2>1, WrapperAssumption, FS_Subset, FS_CardinalityType
<1>3. ~ (Cardinality(RowsOf(c)) <= n)
  BY <1>2
<1> QED BY <1>1, <1>3 DEF Unmoved

(* Rows stay: what a thread puts it books.                                 *)
LEMMA RowsStay ==
  ASSUME NEW t \in Threads, IInv, Typed, Typed', LockHolder, Continue(t) \/ TestStep(t)
  PROVE  MovedStays
<1>1. LocalStep(t)
  BY StepsAreLocal
<1>2. Booked \subseteq Booked'
  <2>1. CASE NapBook(t)
    <3>1. \A s \in Sites :
            ledger'[s].count
              = ledger[s].count + (IF s = site[t] /\ amt[t] > 0 THEN 1 ELSE 0)
      BY <2>1, Booking
    <3>2. ASSUME NEW s \in Sites, ledger[s].count > 0 PROVE ledger'[s].count > 0
      <4>1. ledger[s].count \in Nat
        BY DEF Typed, TypeOK
      <4> QED BY <3>1, <3>2, <4>1
    <3> QED BY <3>2 DEF Booked
  <2>2. CASE ~ NapBook(t)
    <3>1. ledger' = ledger
      BY <2>2 DEF Continue, TestStep, TrackThread, MapThreadToForkJoinTask, LookUp, Record,
                  Add, PrintHit, NapEnter, NapInsert, ReportEnter, ReportExit, ReportThrows,
                  ReportCauseDone, ReportCause, ReportRow, ReportSkips, FallAsleep, WakeUp,
                  TrackThreadEnter, DoExecEnter, DoExecReturns, ExtraSleep, naps
    <3> QED BY <3>1 DEF Booked
  <2> QED BY <2>1, <2>2
<1>3. BeingPut \subseteq (Booked \cup BeingPut)'
  <2> SUFFICES ASSUME NEW u \in Threads, pc[u] = "put"
               PROVE  site[u] \in (Booked \cup BeingPut)'
    BY DEF BeingPut
  <2>1. CASE u # t
    BY <1>1, <2>1 DEF LocalStep, BeingPut
  <2>2. CASE u = t
    <3>1. NapBook(t)
      BY <2>2 DEF Continue, TestStep, TrackThread, MapThreadToForkJoinTask, LookUp, Record,
                  Add, PrintHit, NapEnter, NapInsert, ReportEnter, ReportExit, ReportThrows,
                  ReportCauseDone, ReportCause, ReportRow, ReportSkips, FallAsleep, WakeUp,
                  TrackThreadEnter, DoExecEnter, DoExecReturns, ExtraSleep, Fails
    <3>2. amt[t] > 0 /\ site[t] \in Sites /\ ledger[site[t]].count \in Nat
      BY <2>2 DEF LockHolder, Typed, TypeOK
    <3>3. ledger'[site[t]].count = ledger[site[t]].count + 1
      BY <3>1, <3>2, Booking
    <3>4. ledger'[site[t]].count > 0
      BY <3>2, <3>3
    <3> QED BY <2>2, <3>2, <3>4 DEF Booked
  <2> QED BY <2>1, <2>2
<1> SUFFICES ASSUME NEW c, Unmoved(c)' PROVE Unmoved(c)
  BY DEF MovedStays
<1>4. RowsOf(c) \subseteq RowsOf(c)'
  BY <1>2, <1>3 DEF RowsOf
<1>5. RowsOf(c)' \subseteq Sites
  BY DEF RowsOf, Booked, BeingPut, Typed, TypeOK
<1>6. /\ Cardinality(RowsOf(c)) \in Nat /\ Cardinality(RowsOf(c)') \in Nat
      /\ Cardinality(RowsOf(c)) <= Cardinality(RowsOf(c)')
  <2> DEFINE A == RowsOf(c)
             B == RowsOf(c)'
  <2>1. IsFiniteSet(B) /\ A \subseteq B
    BY <1>4, <1>5, WrapperAssumption, FS_Subset
  <2> HIDE DEF A, B
  <2>2. /\ IsFiniteSet(A) /\ Cardinality(A) <= Cardinality(B)
        /\ Cardinality(A) \in Nat /\ Cardinality(B) \in Nat
    BY <2>1, FS_Subset, FS_CardinalityType
  <2> QED BY <2>2 DEF A, B
<1>7. \A n \in Thresholds : Cardinality(RowsOf(c)') <= n
  BY DEF Unmoved
<1>8. ASSUME NEW n \in Thresholds PROVE Cardinality(RowsOf(c)) <= n
  <2>1. n \in Nat /\ Cardinality(RowsOf(c)') <= n
    BY <1>7, WrapperAssumption
  <2> QED BY <1>6, <2>1
<1> QED BY <1>8 DEF Unmoved

(* Steps after which t is not in a nap, or not any more.                   *)
Elsewhere(t) ==
  \/ \E o \in Objects : TrackThreadEnter(t, o)
  \/ \E trace \in Traces : TrackThread(t, trace)
  \/ \E k \in Tasks : DoExecEnter(t, k)
  \/ MapThreadToForkJoinTask(t)
  \/ DoExecReturns(t)
  \/ \E s \in Sites : ExtraSleep(t, s)
  \/ LookUp(t) \/ Record(t) \/ Add(t) \/ PrintHit(t) \/ WakeUp(t) \/ ReportThrows(t)

(* They leave the bookkeeping of naps alone.                               *)
LEMMA ElsewhereKeepsNaps ==
  ASSUME NEW t \in Threads, IInv, Typed, Typed', NapInv, Elsewhere(t)
  PROVE  NapInv'
<1>1. pc'[t] \notin Napping \cup {"book", "put"} /\ UNCHANGED <<naps, causeFile, mapLock>>
  <2> USE DEF Napping, Goto, Return, Typed, TypeOK
  <2>1. CASE \/ \E o \in Objects : TrackThreadEnter(t, o)
             \/ \E trace \in Traces : TrackThread(t, trace)
             \/ \E k \in Tasks : DoExecEnter(t, k)
             \/ MapThreadToForkJoinTask(t)
             \/ DoExecReturns(t)
             \/ \E s \in Sites : ExtraSleep(t, s)
    BY <2>1 DEF TrackThreadEnter, TrackThread, DoExecEnter, MapThreadToForkJoinTask,
                DoExecReturns, ExtraSleep
  <2>2. CASE LookUp(t) \/ Record(t) \/ Add(t) \/ PrintHit(t) \/ WakeUp(t) \/ ReportThrows(t)
    BY <2>2 DEF LookUp, Record, Add, PrintHit, WakeUp, ReportThrows
  <2> QED BY <2>1, <2>2 DEF Elsewhere
<1>2. LocalStep(t)
  BY StepsAreLocal DEF Continue, TestStep, Elsewhere
<1>3. \A p \in Threads : Calm(p)
  BY <1>1, <1>2, OthersAreCalm DEF Calm
<1>4. LockHolder'
  BY <1>1, <1>2, LockKeeps DEF NapInv, naps
<1>5. MovedStays
  BY RowsStay DEF Continue, TestStep, Elsewhere, NapInv
<1> QED BY <1>1, <1>3, <1>4, <1>5, CalmStepKeeps DEF NapInv

(* The lock is free when a nap begins, and kept while a row is put.        *)
LEMMA NapEnterKeeps ==
  ASSUME NEW t \in Threads, IInv, Typed, Typed', NapInv, NapEnter(t) \/ NapInsert(t)
  PROVE  NapInv'
<1>1. /\ mapLock \in {Nobody, t} /\ mapLock' = t /\ pc'[t] \in {"book", "put"}
      /\ site' = site /\ amt'[t] = NapLength(lineToSleeps[site[t][2]])
      /\ pc'[t] = "put" => amt'[t] > 0
      /\ UNCHANGED <<naps, causeFile>>
  <2>1. CASE NapEnter(t)
    BY <2>1 DEF NapEnter, Goto, Typed, TypeOK
  <2>2. CASE NapInsert(t)
    BY <2>2 DEF NapInsert, Goto, Typed, TypeOK, NapInv, LockHolder, locals
  <2> QED BY <2>1, <2>2
<1>2. LocalStep(t)
  BY StepsAreLocal DEF Continue
<1>3. \A p \in Threads : Calm(p)
  BY <1>1, <1>2, OthersAreCalm DEF Calm, Napping
<1>4. LockHolder'
  <2>1. Nobody \notin Threads
    BY WrapperAssumption DEF Objects
  <2>2. \A p \in Threads \ {t} : pc'[p] \notin {"book", "put"}
    BY <1>1, <1>2, <2>1 DEF LocalStep, LockHolder, NapInv
  <2>3. lineToSleeps' = lineToSleeps
    BY <1>1 DEF naps
  <2> QED BY <1>1, <2>2, <2>3 DEF LockHolder, NapLength
<1>5. MovedStays
  BY RowsStay DEF Continue, NapInv
<1> QED BY <1>1, <1>3, <1>4, <1>5, CalmStepKeeps DEF NapInv

(* A report begins with every cause that has a booked nap, takes up every  *)
(* booked line of each, and only passes over rows that are being moved.    *)
LEMMA ReportStepsKeep ==
  ASSUME NEW t \in Threads, IInv, Typed, Typed', NapInv,
         \/ ReportEnter(t) \/ ReportCauseDone(t) \/ ReportExit(t)
         \/ \E c \in Causes : ReportCause(t, c)
         \/ \E s \in Sites : ReportSkips(t, s)
  PROVE  NapInv'
<1>1. /\ pc[t] \in Napping /\ UNCHANGED <<site, amt, naps, causeFile, mapLock>>
      /\ pc'[t] \notin {"book", "put"}
  BY DEF ReportEnter, ReportCauseDone, ReportExit, ReportCause, ReportSkips, Napping,
         locals, Goto, Typed, TypeOK
<1>2. LocalStep(t)
  BY StepsAreLocal DEF Continue
<1>3. amt[t] > 0 => site[t] \in Booked /\ site[t] \in Sites
  BY <1>1 DEF NapInv, BookedSites, Booked, Typed, TypeOK
<1>7. MovedStays
  BY RowsStay DEF Continue, NapInv
<1>4. Calm(t)
  <2> SUFFICES ASSUME Unreported(t), amt[t] > 0, pc'[t] \in Napping, Unmoved(site[t][1])
               PROVE  Unreported(t)'
    BY <1>1, <1>7 DEF Calm, MovedStays
  <2> USE DEF Typed, TypeOK, Goto
  <2>1. CASE ReportEnter(t)
    <3>1. pc'[t] = "cause" /\ {s[1] : s \in Booked} \subseteq causesLeft'[t]
      BY <2>1 DEF ReportEnter
    <3> QED BY <1>1, <1>3, <3>1 DEF Unreported
  <2>2. CASE ReportCauseDone(t)
    BY <1>1, <2>2 DEF ReportCauseDone, Unreported, iters
  <2>3. CASE ReportExit(t)
    BY <2>3 DEF ReportExit, Unreported
  <2>4. ASSUME NEW c \in Causes, ReportCause(t, c) PROVE Unreported(t)'
    <3>1. /\ pc[t] = "cause" /\ pc'[t] = "rows"
          /\ RowsOf(c) \cap Booked \subseteq rowsLeft'[t]
          /\ causesLeft'[t] = causesLeft[t] \ {c}
      BY <2>4 DEF ReportCause
    <3>2. site[t][1] \in causesLeft[t]
      BY <3>1 DEF Unreported
    <3> QED BY <1>1, <1>3, <3>1, <3>2 DEF Unreported, RowsOf
  <2>5. ASSUME NEW s \in Sites, ReportSkips(t, s) PROVE Unreported(t)'
    <3>1. s[1] # site[t][1]
      BY <2>5, MovingIsMoved DEF ReportSkips
    <3> QED BY <1>1, <2>5, <3>1 DEF ReportSkips, Unreported
  <2> QED BY <2>1, <2>2, <2>3, <2>4, <2>5
<1>5. \A p \in Threads : Calm(p)
  BY <1>2, <1>4, OthersAreCalm
<1>6. LockHolder'
  BY <1>1, <1>2, LockKeeps DEF NapInv, naps
<1> QED BY <1>1, <1>5, <1>6, <1>7, CalmStepKeeps DEF NapInv

(* A thread that falls asleep takes its share with it.                     *)
LEMMA ShareLeaves ==
  ASSUME NEW t \in Threads, Typed, SumFacts, SumFacts', LocalStep(t), FallAsleep(t),
         \A p \in Threads : Calm(p), NEW l \in Lines, NEW R, t \in R \/ amt[t] = 0
  PROVE  napped'[l] + SumFunctionOnSet(Reported(R, l)', Threads)
           = napped[l] + SumFunctionOnSet(Reported(R, l), Threads)
<1> USE WrapperAssumption
<1> DEFINE f == Reported(R, l)
           a == IF site[t][2] = l THEN amt[t] ELSE 0
<1>1. /\ pc[t] = "sleep" /\ pc'[t] = "asleep" /\ UNCHANGED <<site, amt>>
      /\ napped'[l] = napped[l] + a /\ napped[l] \in Int /\ a \in Int
  BY DEF FallAsleep, Goto, locals, Typed, TypeOK
<1>2. \A p \in Threads : f[p] \in Int /\ f'[p] \in Int
  BY DEF SumFacts
<1>3. \A p \in Threads \ {t} : f'[p] = f[p]
  <2> SUFFICES ASSUME NEW p \in Threads \ {t} PROVE f'[p] = f[p]
    OBVIOUS
  <2>1. pc'[p] \in Napping <=> pc[p] \in Napping
    BY DEF FallAsleep, Goto, Typed, TypeOK
  <2> QED BY <1>1, <2>1 DEF Reported
<1>4. f[t] = a /\ f'[t] = 0
  BY <1>1 DEF Reported, Napping
<1>5. SumFunctionOnSet(f, Threads) \in Int
  BY DEF SumFacts
<1> HIDE DEF f, a
<1>6. SumFunctionOnSet(f', Threads) = SumFunctionOnSet(f, Threads) + f'[t] - f[t]
  BY <1>2, <1>3, SumDiffers
<1>7. napped'[l] + SumFunctionOnSet(f', Threads) = napped[l] + SumFunctionOnSet(f, Threads)
  BY <1>1, <1>4, <1>5, <1>6
<1> QED BY <1>7 DEF f

(* A thread falls asleep when its nap is in the file, unless a map was     *)
(* moved.                                                                  *)
LEMMA FallAsleepKeeps ==
  ASSUME NEW t \in Threads, IInv, Typed, Typed', NapInv, FallAsleep(t)
  PROVE  NapInv'
<1> USE WrapperAssumption
<1>1. /\ pc[t] = "sleep" /\ pc'[t] = "asleep" /\ amt[t] \in Nat
      /\ UNCHANGED <<lineToSleeps, ledger, site, amt, causesLeft, causeFile, mapLock>>
  BY DEF FallAsleep, Goto, locals, iters, Typed, TypeOK
<1>2. LocalStep(t)
  BY StepsAreLocal DEF Continue
<1>3. SumFacts /\ SumFacts'
  BY SumTypes, NextSumTypes
<1>4. \A p \in Threads : Calm(p)
  BY <1>1, <1>2, OthersAreCalm DEF Calm, Napping
<1>5. LockHolder' /\ BookedSites' /\ SumsAgree'
  <2>1. LockHolder'
    BY <1>1, <1>2, LockKeeps DEF NapInv
  <2>2. BookedSites'
    BY <1>1, <1>4 DEF NapInv, BookedSites, Calm
  <2>3. SumsAgree'
    BY <1>1 DEF NapInv, SumsAgree, Counts, Totals
  <2> QED BY <2>1, <2>2, <2>3
<1>6. MovedStays
  BY RowsStay DEF Continue, NapInv
<1>7. PICK R \in SUBSET Threads : AccountedFor(R)
  BY DEF NapInv, Accounted
<1>8. t \in R \/ amt[t] = 0 \/ ~ Unmoved(site[t][1])
  <2>1. ~ Unreported(t) /\ pc[t] \in Napping
    BY <1>1 DEF Unreported, Napping
  <2> QED BY <1>1, <1>7, <2>1 DEF AccountedFor
<1>9. \A p \in Threads :
        (pc[p] \in Napping /\ p \notin R /\ amt[p] > 0 /\ Unmoved(site[p][1])
           => Unreported(p))'
  BY <1>4, <1>6, <1>7, StayUnmoved DEF AccountedFor, Calm
<1>10. ASSUME NEW l \in Lines, QuietLine(l)'
       PROVE  (napped[l] + SumFunctionOnSet(Reported(R, l), Threads)
                 <= SumFunctionOnSet(causeFile, SitesAt(l)))'
  <2>1. /\ napped[l] + SumFunctionOnSet(Reported(R, l), Threads)
              <= SumFunctionOnSet(causeFile, SitesAt(l))
        /\ QuietLine(l)
    BY <1>6, <1>7, <1>10, StayUnmoved DEF AccountedFor
  <2>2. SumFunctionOnSet(causeFile', SitesAt(l)') = SumFunctionOnSet(causeFile, SitesAt(l))
    BY <1>1 DEF SitesAt
  <2>3. CASE site[t][2] = l
    <3>1. Unmoved(site[t][1])
      BY <2>1, <2>3 DEF QuietLine, SitesAt, Typed, TypeOK
    <3> QED BY <1>2, <1>3, <1>4, <1>8, <2>1, <2>2, <3>1, ShareLeaves
  <2>4. CASE site[t][2] # l
    <3> DEFINE f == Reported(R, l)
    <3>1. SumFunctionOnSet(f', Threads) <= SumFunctionOnSet(f, Threads)
      BY <1>3, <1>4, SharesShrink
    <3>2. /\ SumFunctionOnSet(f, Threads) \in Int /\ SumFunctionOnSet(f', Threads) \in Int
          /\ SumFunctionOnSet(causeFile, SitesAt(l)) \in Int
      BY <1>3 DEF SumFacts
    <3>3. napped'[l] = napped[l] /\ napped[l] \in Int
      BY <2>4 DEF FallAsleep, Typed
    <3> HIDE DEF f
    <3>4. napped'[l] + SumFunctionOnSet(f', Threads) <= SumFunctionOnSet(causeFile', SitesAt(l)')
      BY <2>1, <2>2, <3>1, <3>2, <3>3 DEF f
    <3> QED BY <3>4 DEF f
  <2> QED BY <2>3, <2>4
<1>11. ASSUME NEW s \in Sites
       PROVE  (causeFile[s] + SumFunctionOnSet(Missing(R, s), Threads) <= ledger[s].total)'
  <2> DEFINE f == Missing(R, s)
  <2>1. SumFunctionOnSet(f', Threads) <= SumFunctionOnSet(f, Threads)
    BY <1>3, <1>4, SharesShrink
  <2>2. ledger[s].total \in Int
    BY DEF Typed, TypeOK
  <2>3. /\ causeFile[s] + SumFunctionOnSet(f, Threads) <= ledger[s].total
        /\ SumFunctionOnSet(f, Threads) \in Int /\ SumFunctionOnSet(f', Threads) \in Int
        /\ causeFile[s] \in Int
    BY <1>3, <1>7 DEF SumFacts, AccountedFor
  <2> HIDE DEF f
  <2>4. causeFile'[s] + SumFunctionOnSet(f', Threads) <= ledger'[s].total
    BY <1>1, <2>1, <2>2, <2>3
  <2> QED BY <2>4 DEF f
<1>12. AccountedFor(R)'
  BY <1>9, <1>10, <1>11 DEF AccountedFor
<1>13. Spent'
  <2> SUFFICES ASSUME NEW l \in Lines
               PROVE  napped'[l] + SumFunctionOnSet(Reported(Threads, l)', Threads)
                        <= SumFunctionOnSet(Totals', SitesAt(l)')
    BY DEF Spent
  <2>1. /\ SitesAt(l)' = SitesAt(l) /\ Totals' = Totals
        /\ napped[l] + SumFunctionOnSet(Reported(Threads, l), Threads)
              <= SumFunctionOnSet(Totals, SitesAt(l))
    BY <1>1 DEF NapInv, Spent, SitesAt, Totals
  <2> QED BY <1>2, <1>3, <1>4, <2>1, ShareLeaves
<1> QED BY <1>5, <1>12, <1>13 DEF NapInv, Accounted

(* A row brings the file up to the ledger: the naps booked at its site by  *)
(* any thread are reported, also those of threads that have not come to    *)
(* write their own report.                                                 *)
LEMMA ReportRowKeeps ==
  ASSUME NEW t \in Threads, NEW s \in Sites, IInv, Typed, Typed', NapInv, ReportRow(t, s)
  PROVE  NapInv'
<1> USE WrapperAssumption
<1>1. /\ UNCHANGED <<pc, site, amt, causesLeft, lineToSleeps, ledger, napped, mapLock>>
      /\ causeFile'[s] = ledger[s].total
      /\ \A r \in Sites \ {s} : causeFile'[r] = causeFile[r]
      /\ rowsLeft'[t] = rowsLeft[t] \ {s} /\ \A p \in Threads \ {t} : rowsLeft'[p] = rowsLeft[p]
  BY DEF ReportRow, locals, naps, Typed, TypeOK
<1>2. SumFacts /\ SumFacts'
  BY SumTypes, NextSumTypes
<1>3. LockHolder' /\ BookedSites' /\ SumsAgree' /\ Spent'
  <2>1. LockHolder' /\ BookedSites' /\ SumsAgree'
    BY <1>1 DEF NapInv, LockHolder, BookedSites, SumsAgree, Counts, Totals
  <2>2. \A l : Reported(Threads, l)' = Reported(Threads, l)
    BY <1>1 DEF Reported
  <2>3. Totals' = Totals /\ \A l : SitesAt(l)' = SitesAt(l)
    BY <1>1 DEF Totals, SitesAt
  <2> QED BY <1>1, <2>1, <2>2, <2>3 DEF NapInv, Spent
<1>10. MovedStays
  BY RowsStay DEF Continue, NapInv
<1>4. PICK R \in SUBSET Threads : AccountedFor(R)
  BY DEF NapInv, Accounted
<1>5. PICK Q \in SUBSET Threads : \A p \in Threads : p \in Q <=> p \in R \/ site[p] = s
  <2>1. R \cup {p \in Threads : site[p] = s} \in SUBSET Threads
    OBVIOUS
  <2> QED BY <2>1
<1>6. \A p \in Threads :
        (pc[p] \in Napping /\ p \notin Q /\ amt[p] > 0 /\ Unmoved(site[p][1])
           => Unreported(p))'
  <2> SUFFICES ASSUME NEW p \in Threads, p \notin R, site[p] # s, pc[p] \in Napping,
                      amt[p] > 0, Unmoved(site[p][1])
               PROVE  Unreported(p)'
    BY <1>1, <1>5, <1>10, StayUnmoved
  <2>1. Unreported(p)
    BY <1>4 DEF AccountedFor
  <2> QED BY <1>1, <2>1 DEF Unreported
<1>7. ASSUME NEW l \in Lines, QuietLine(l)'
      PROVE  (napped[l] + SumFunctionOnSet(Reported(Q, l), Threads)
                <= SumFunctionOnSet(causeFile, SitesAt(l)))'
  <2> DEFINE f == Reported(R, l)
             g == Missing(R, s)
             h == Reported(Q, l)'
             c == SumFunctionOnSet(causeFile, SitesAt(l))
             d == SumFunctionOnSet(causeFile', SitesAt(l))
  <2>1. \A p \in Threads : f[p] \in Int /\ g[p] \in Int /\ h[p] \in Int
    <3>1. \A p \in Threads : f[p] \in Nat /\ g[p] \in Nat
      BY <1>2 DEF SumFacts
    <3>2. \A p \in Threads : h[p] \in Nat
      BY <1>2 DEF SumFacts
    <3> HIDE DEF f, g, h
    <3> QED BY <3>1, <3>2
  <2>2. /\ napped[l] + SumFunctionOnSet(f, Threads) <= c
        /\ causeFile[s] + SumFunctionOnSet(g, Threads) <= ledger[s].total
        /\ SumFunctionOnSet(f, Threads) \in Int /\ SumFunctionOnSet(g, Threads) \in Int
        /\ c \in Int /\ causeFile[s] \in Int
    BY <1>2, <1>4, <1>7, <1>10, StayUnmoved DEF SumFacts, AccountedFor
  <2>3. napped[l] \in Int /\ ledger[s].total \in Int
    BY DEF Typed, TypeOK
  <2>4. /\ s \in SitesAt(l) => d = c + causeFile'[s] - causeFile[s]
        /\ s \notin SitesAt(l) => d = c
    <3>1. \A r \in SitesAt(l) : causeFile[r] \in Int /\ causeFile'[r] \in Int
      BY <1>2 DEF SumFacts
    <3>2. \A r \in SitesAt(l) \ {s} : causeFile'[r] = causeFile[r]
      BY <1>1, <1>2 DEF SumFacts
    <3>3. IsFiniteSet(SitesAt(l))
      BY <1>2 DEF SumFacts
    <3> QED BY <3>1, <3>2, <3>3, SumDiffers
  <2>5. CASE s[2] = l
    <3>1. \A p \in Threads : h[p] = f[p] + g[p]
      <4> SUFFICES ASSUME NEW p \in Threads PROVE h[p] = f[p] + g[p]
        OBVIOUS
      <4>1. amt[p] \in Int
        BY DEF Typed, TypeOK
      <4>2. h[p] = IF p \in Q /\ pc[p] \in Napping /\ site[p][2] = l THEN amt[p] ELSE 0
        BY <1>1 DEF Reported
      <4>3. CASE site[p] = s
        BY <1>5, <2>5, <4>1, <4>2, <4>3 DEF Reported, Missing
      <4>4. CASE site[p] # s
        BY <1>5, <4>1, <4>2, <4>4 DEF Reported, Missing
      <4> QED BY <4>3, <4>4
    <3>2. s \in SitesAt(l)
      BY <2>5 DEF SitesAt
    <3> HIDE DEF f, g, h, c, d
    <3>3. SumFunctionOnSet(h, Threads)
            = SumFunctionOnSet(f, Threads) + SumFunctionOnSet(g, Threads)
      BY <2>1, <3>1, SumsCompare
    <3>4. napped[l] + SumFunctionOnSet(h, Threads) <= d
      BY <1>1, <2>2, <2>3, <2>4, <3>2, <3>3
    <3> QED BY <1>1, <3>4 DEF h, d, SitesAt
  <2>6. CASE s[2] # l
    <3>1. \A p \in Threads : h[p] = f[p]
      <4> SUFFICES ASSUME NEW p \in Threads PROVE h[p] = f[p]
        OBVIOUS
      <4>1. h[p] = IF p \in Q /\ pc[p] \in Napping /\ site[p][2] = l THEN amt[p] ELSE 0
        BY <1>1 DEF Reported
      <4> QED BY <1>5, <2>6, <4>1 DEF Reported
    <3>2. s \notin SitesAt(l)
      BY <2>6 DEF SitesAt
    <3> HIDE DEF f, g, h, c, d
    <3>3. SumFunctionOnSet(h, Threads) = SumFunctionOnSet(f, Threads)
      BY <2>1, <3>1, SumsCompare
    <3>4. napped[l] + SumFunctionOnSet(h, Threads) <= d
      BY <2>2, <2>4, <3>2, <3>3
    <3> QED BY <1>1, <3>4 DEF h, d, SitesAt
  <2> QED BY <2>5, <2>6
<1>8. ASSUME NEW r \in Sites
      PROVE  (causeFile[r] + SumFunctionOnSet(Missing(Q, r), Threads) <= ledger[r].total)'
  <2> DEFINE f == Missing(R, r)
             h == Missing(Q, r)'
  <2>1. \A p \in Threads : f[p] \in Int /\ h[p] \in Int
    BY <1>2 DEF SumFacts
  <2>2. ledger[r].total \in Int
    BY DEF Typed, TypeOK
  <2>3. \A p \in Threads :
          h[p] = IF p \notin Q /\ pc[p] \in Napping /\ site[p] = r THEN amt[p] ELSE 0
    BY <1>1 DEF Missing
  <2>4. CASE r = s
    <3>1. \A p \in Threads : h[p] = 0
      BY <1>5, <2>3, <2>4
    <3> HIDE DEF h
    <3>2. SumFunctionOnSet(h, Threads) = 0
      BY <3>1, SumOfNothing
    <3> QED BY <1>1, <2>2, <2>4, <3>2 DEF h
  <2>5. CASE r # s
    <3>1. \A p \in Threads : h[p] = f[p]
      BY <1>5, <2>3, <2>5 DEF Missing
    <3> HIDE DEF f, h
    <3>2. SumFunctionOnSet(h, Threads) = SumFunctionOnSet(f, Threads)
      BY <2>1, <3>1, SumsCompare
    <3>3. causeFile[r] + SumFunctionOnSet(f, Threads) <= ledger[r].total
      BY <1>4 DEF AccountedFor, f
    <3> QED BY <1>1, <2>5, <3>2, <3>3 DEF h
  <2> QED BY <2>4, <2>5
<1>9. AccountedFor(Q)'
  BY <1>6, <1>7, <1>8 DEF AccountedFor
<1> QED BY <1>3, <1>9 DEF NapInv, Accounted

(* Booking a nap counts it once at its line and once at its site, with the *)
(* length that is next at the line; t is yet to report it.                 *)
LEMMA NapBookKeeps ==
  ASSUME NEW t \in Threads, IInv, Typed, Typed', NapInv, NapBook(t)
  PROVE  NapInv'
<1> USE WrapperAssumption
<1>1. /\ pc[t] \in {"book", "put"} /\ pc'[t] = "report"
      /\ UNCHANGED <<site, amt, napped, causesLeft, rowsLeft, causeFile>>
      /\ \A p \in Threads \ {t} : pc'[p] = pc[p]
  BY DEF NapBook, HasRow, locals, iters, Goto, Typed, TypeOK
<1>2. SumFacts /\ SumFacts'
  BY SumTypes, NextSumTypes
<1>3. /\ site[t] \in Sites /\ site[t][2] \in Lines /\ amt[t] \in Nat
      /\ mapLock = t /\ amt[t] = NapLength(lineToSleeps[site[t][2]])
  BY <1>1, SiteParts DEF NapInv, LockHolder, Typed, TypeOK
<1>4. /\ \A s \in Sites : ledger[s].total \in Nat /\ ledger[s].count \in Nat
      /\ \A l \in Lines : lineToSleeps[l] \in Nat /\ napped[l] \in Nat
  BY DEF Typed, TypeOK
<1>5. LockHolder'
  BY <1>1, <1>3 DEF NapInv, LockHolder
<1>6. BookedSites'
  <2> SUFFICES ASSUME NEW p \in Threads, pc'[p] \in Napping, amt[p] > 0
               PROVE  ledger'[site[p]].count > 0
    BY <1>1 DEF BookedSites
  <2>1. site[p] \in Sites
    BY DEF Typed, TypeOK
  <2>2. CASE p = t
    BY <1>4, <2>1, <2>2, Booking
  <2>3. CASE p # t
    <3>1. ledger[site[p]].count > 0
      BY <1>1, <2>3 DEF NapInv, BookedSites
    <3> QED BY <1>4, <2>1, <3>1, Booking
  <2> QED BY <2>2, <2>3
<1>7. SumsAgree'
  <2> SUFFICES ASSUME NEW l \in Lines
               PROVE  /\ lineToSleeps'[l] = SumFunctionOnSet(Counts', SitesAt(l))
                      /\ SumFunctionOnSet(Totals', SitesAt(l)) = FirstNaps(lineToSleeps'[l])
    BY DEF SumsAgree, SitesAt, FirstNaps, NapLength
  <2> DEFINE S == SitesAt(l)
             n == lineToSleeps[l]
  <2>1. /\ n = SumFunctionOnSet(Counts, S) /\ SumFunctionOnSet(Totals, S) = FirstNaps(n)
        /\ n \in Nat
    BY <1>4 DEF NapInv, SumsAgree
  <2>2. /\ IsFiniteSet(S) /\ S \subseteq Sites
        /\ \A s \in S : /\ Counts[s] \in Int /\ Counts'[s] \in Int
                        /\ Totals[s] \in Int /\ Totals'[s] \in Int
        /\ SumFunctionOnSet(Counts, S) \in Int /\ SumFunctionOnSet(Totals, S) \in Int
    BY <1>2 DEF SumFacts
  <2>3. \A s \in Sites :
          /\ Totals'[s] = Totals[s] + (IF s = site[t] THEN amt[t] ELSE 0)
          /\ Counts'[s] = Counts[s] + (IF s = site[t] /\ amt[t] > 0 THEN 1 ELSE 0)
    BY Booking DEF Totals, Counts
  <2>4. lineToSleeps'[l] = n + (IF l = site[t][2] /\ amt[t] > 0 THEN 1 ELSE 0)
    BY Booking
  <2>5. site[t] \in S <=> site[t][2] = l
    BY <1>3 DEF SitesAt
  <2> HIDE DEF S, n
  <2>6. CASE site[t][2] = l /\ amt[t] > 0
    <3>1. /\ \A s \in S \ {site[t]} : Counts'[s] = Counts[s] /\ Totals'[s] = Totals[s]
          /\ Counts'[site[t]] = Counts[site[t]] + 1
          /\ Totals'[site[t]] = Totals[site[t]] + amt[t]
          /\ Counts[site[t]] \in Int /\ Totals[site[t]] \in Int
      BY <1>3, <2>2, <2>3, <2>5, <2>6
    <3> DEFINE x == site[t]
    <3>2. SumFunctionOnSet(Counts', S) = SumFunctionOnSet(Counts, S) + Counts'[x] - Counts[x]
      <4>1. x \in S /\ \A s \in S \ {x} : Counts'[s] = Counts[s]
        BY <2>5, <2>6, <3>1
      <4> HIDE DEF x
      <4> QED BY <2>2, <4>1, SumDiffers
    <3>3. SumFunctionOnSet(Totals', S) = SumFunctionOnSet(Totals, S) + Totals'[x] - Totals[x]
      <4>1. x \in S /\ \A s \in S \ {x} : Totals'[s] = Totals[s]
        BY <2>5, <2>6, <3>1
      <4> HIDE DEF x
      <4>2. IsFiniteSet(S) /\ \A s \in S : Totals[s] \in Int /\ Totals'[s] \in Int
        BY <2>2
      <4> QED BY ONLY <4>1, <4>2, SumDiffers
    <3>4. FirstNaps(n + 1) = FirstNaps(n) + NapLength(n)
      BY <2>1, NextNap
    <3>5. amt[t] = NapLength(n)
      BY <1>3, <2>6 DEF n
    <3>6. lineToSleeps'[l] = n + 1
      BY <2>4, <2>6
    <3>7. lineToSleeps'[l] = SumFunctionOnSet(Counts', S)
      BY <2>1, <2>2, <3>1, <3>2, <3>6
    <3>8. SumFunctionOnSet(Totals', S) = FirstNaps(n + 1)
      BY <1>3, <2>1, <2>2, <3>1, <3>3, <3>4, <3>5
    <3> QED BY <3>6, <3>7, <3>8 DEF S
  <2>7. CASE ~ (site[t][2] = l /\ amt[t] > 0)
    <3>1. \A s \in S : Counts'[s] = Counts[s] /\ Totals'[s] = Totals[s]
      BY <1>3, <2>2, <2>3, <2>5, <2>7
    <3>2. /\ SumFunctionOnSet(Counts', S) = SumFunctionOnSet(Counts, S)
          /\ SumFunctionOnSet(Totals', S) = SumFunctionOnSet(Totals, S)
      BY <2>2, <3>1, SumsCompare
    <3>3. lineToSleeps'[l] = n
      BY <2>1, <2>4, <2>7
    <3> QED BY <2>1, <3>2, <3>3 DEF S
  <2> QED BY <2>6, <2>7
<1>8. PICK R \in SUBSET Threads : AccountedFor(R)
  BY DEF NapInv, Accounted
<1>9. PICK Q \in SUBSET Threads : Q = R \ {t}
  OBVIOUS
<1>14. MovedStays
  BY RowsStay DEF Continue, NapInv
<1>10. \A p \in Threads :
         (pc[p] \in Napping /\ p \notin Q /\ amt[p] > 0 /\ Unmoved(site[p][1])
            => Unreported(p))'
  <2> SUFFICES ASSUME NEW p \in Threads, pc'[p] \in Napping, p \notin Q, amt[p] > 0,
                      Unmoved(site[p][1])
               PROVE  Unreported(p)'
    BY <1>1, <1>14, StayUnmoved
  <2>1. CASE p = t
    BY <1>1, <2>1 DEF Unreported
  <2>2. CASE p # t
    <3>1. Unreported(p)
      BY <1>1, <1>8, <1>9, <2>2 DEF AccountedFor
    <3> QED BY <1>1, <2>2, <3>1 DEF Unreported
  <2> QED BY <2>1, <2>2
<1>11. ASSUME NEW l \in Lines, QuietLine(l)'
       PROVE  (napped[l] + SumFunctionOnSet(Reported(Q, l), Threads)
                 <= SumFunctionOnSet(causeFile, SitesAt(l)))'
  <2> DEFINE f == Reported(R, l)
             h == Reported(Q, l)'
  <2>1. \A p \in Threads : f[p] \in Int /\ h[p] \in Int
    <3>1. \A p \in Threads : f[p] \in Nat
      BY <1>2 DEF SumFacts
    <3>2. \A p \in Threads : h[p] \in Nat
      BY <1>2 DEF SumFacts
    <3> HIDE DEF f, h
    <3> QED BY <3>1, <3>2
  <2>2. \A p \in Threads : h[p] = f[p]
    BY <1>1, <1>9 DEF Reported, Napping
  <2> HIDE DEF f, h
  <2>3. SumFunctionOnSet(h, Threads) = SumFunctionOnSet(f, Threads)
    BY <2>1, <2>2, SumsCompare
  <2>4. napped[l] + SumFunctionOnSet(f, Threads) <= SumFunctionOnSet(causeFile, SitesAt(l))
    BY <1>8, <1>11, <1>14, StayUnmoved DEF AccountedFor, f
  <2> QED BY <1>1, <2>3, <2>4 DEF h, SitesAt
<1>12. ASSUME NEW s \in Sites
       PROVE  (causeFile[s] + SumFunctionOnSet(Missing(Q, s), Threads) <= ledger[s].total)'
  <2> DEFINE f == Missing(R, s)
             h == Missing(Q, s)'
             a == IF s = site[t] THEN amt[t] ELSE 0
  <2>1. \A p \in Threads : f[p] \in Int /\ h[p] \in Int
    <3>1. \A p \in Threads : f[p] \in Nat
      BY <1>2 DEF SumFacts
    <3>2. \A p \in Threads : h[p] \in Nat
      BY <1>2 DEF SumFacts
    <3> HIDE DEF f, h
    <3> QED BY <3>1, <3>2
  <2>9. SumFunctionOnSet(f, Threads) \in Int
    BY <1>2 DEF SumFacts
  <2>2. \A p \in Threads \ {t} : h[p] = f[p]
    BY <1>1, <1>9 DEF Missing
  <2>3. f[t] = 0 /\ h[t] = a
    BY <1>1, <1>9 DEF Missing, Napping
  <2>4. causeFile[s] + SumFunctionOnSet(f, Threads) <= ledger[s].total
    BY <1>8 DEF AccountedFor, f
  <2>5. ledger'[s].total = ledger[s].total + a /\ a \in Int
    BY <1>3, Booking DEF a
  <2>6. causeFile[s] \in Int /\ ledger[s].total \in Int
    BY <1>2, <1>4 DEF SumFacts
  <2> HIDE DEF f, h, a
  <2>7. SumFunctionOnSet(h, Threads) = SumFunctionOnSet(f, Threads) + h[t] - f[t]
    BY <2>1, <2>2, SumDiffers
  <2>8. causeFile[s] + SumFunctionOnSet(h, Threads) <= ledger'[s].total
    BY <2>3, <2>4, <2>5, <2>6, <2>7, <2>9
  <2> QED BY <1>1, <2>8 DEF h
<1>13. AccountedFor(Q)'
  BY <1>10, <1>11, <1>12 DEF AccountedFor
<1>15. Spent'
  <2> SUFFICES ASSUME NEW l \in Lines
               PROVE  napped'[l] + SumFunctionOnSet(Reported(Threads, l)', Threads)
                        <= SumFunctionOnSet(Totals', SitesAt(l)')
    BY DEF Spent
  <2> DEFINE f == Reported(Threads, l)
             c == SumFunctionOnSet(Totals, SitesAt(l))
             n == lineToSleeps[l]
             a == IF site[t][2] = l THEN amt[t] ELSE 0
  <2>1. \A p \in Threads : f[p] \in Int /\ f'[p] \in Int
    BY <1>2 DEF SumFacts
  <2>2. \A p \in Threads \ {t} : f'[p] = f[p]
    BY <1>1 DEF Reported
  <2>3. f[t] = 0 /\ f'[t] = a
    BY <1>1 DEF Reported, Napping
  <2>4. /\ napped[l] + SumFunctionOnSet(f, Threads) <= c
        /\ SumFunctionOnSet(f, Threads) \in Int /\ c \in Int /\ napped[l] \in Int
        /\ napped' = napped /\ a \in Int
    BY <1>1, <1>2, <1>3, <1>4 DEF SumFacts, NapInv, Spent
  <2>5. /\ c = FirstNaps(n) /\ c' = FirstNaps(lineToSleeps'[l]) /\ n \in Nat
        /\ FirstNaps(n) \in Int /\ FirstNaps(n + 1) = FirstNaps(n) + NapLength(n)
    <3>1. c' = FirstNaps(lineToSleeps'[l])
      BY <1>7 DEF SumsAgree, FirstNaps, NapLength
    <3> QED BY <1>4, <3>1, NextNap DEF NapInv, SumsAgree
  <2>6. c' = c + a
    <3>1. lineToSleeps'[l] = n + (IF l = site[t][2] /\ amt[t] > 0 THEN 1 ELSE 0)
      BY Booking
    <3>2. CASE l = site[t][2] /\ amt[t] > 0
      <4>1. a = NapLength(n) /\ lineToSleeps'[l] = n + 1
        BY <1>3, <3>1, <3>2
      <4> HIDE DEF c, n, a
      <4> QED BY <2>5, <4>1
    <3>3. CASE ~ (l = site[t][2] /\ amt[t] > 0)
      <4>1. a = 0 /\ lineToSleeps'[l] = n
        BY <1>3, <2>5, <3>1, <3>3
      <4> HIDE DEF c, n, a
      <4> QED BY <2>4, <2>5, <4>1
    <3> QED BY <3>2, <3>3
  <2> HIDE DEF f, c, a, n
  <2>7. SumFunctionOnSet(f', Threads) = SumFunctionOnSet(f, Threads) + f'[t] - f[t]
    BY <1>2, <2>1, <2>2, SumDiffers
  <2>8. napped'[l] + SumFunctionOnSet(f', Threads) <= c'
    BY <2>3, <2>4, <2>6, <2>7
  <2> QED BY <2>8 DEF f, c
<1> QED BY <1>5, <1>6, <1>7, <1>13, <1>15 DEF NapInv, Accounted

(* Before the first nap.                                                   *)
LEMMA NapsInitially == Init => NapInv
<1> SUFFICES ASSUME Init PROVE NapInv
  OBVIOUS
<1> USE WrapperAssumption
<1>1. Typed /\ SumFacts
  BY InitTypes, SumTypes
<1>2. \A t \in Threads : pc[t] \notin Napping \cup {"book", "put"}
  BY DEF Init, Napping
<1>3. /\ \A s \in Sites : ledger[s].total = 0 /\ ledger[s].count = 0 /\ causeFile[s] = 0
      /\ \A l \in Lines : lineToSleeps[l] = 0 /\ napped[l] = 0
  BY DEF Init
<1>4. LockHolder /\ BookedSites
  BY <1>2 DEF LockHolder, BookedSites
<1>5. SumsAgree
  <2> SUFFICES ASSUME NEW l \in Lines
               PROVE  /\ lineToSleeps[l] = SumFunctionOnSet(Counts, SitesAt(l))
                      /\ SumFunctionOnSet(Totals, SitesAt(l)) = FirstNaps(lineToSleeps[l])
    BY DEF SumsAgree
  <2>1. IsFiniteSet(SitesAt(l)) /\ \A s \in SitesAt(l) : Counts[s] = 0 /\ Totals[s] = 0
    BY <1>1, <1>3 DEF SumFacts, Counts, Totals
  <2>2. /\ SumFunctionOnSet(Counts, SitesAt(l)) = 0
        /\ SumFunctionOnSet(Totals, SitesAt(l)) = 0
    BY <2>1, SumOfNothing
  <2> QED BY <1>3, <2>2, NextNap
<1>6. AccountedFor({})
  <2>1. \A t \in Threads : pc[t] \in Napping /\ t \notin {} /\ amt[t] > 0 => Unreported(t)
    BY <1>2
  <2>2. ASSUME NEW l \in Lines
        PROVE  napped[l] + SumFunctionOnSet(Reported({}, l), Threads)
                 <= SumFunctionOnSet(causeFile, SitesAt(l))
    <3>1. \A t \in Threads : Reported({}, l)[t] = 0
      BY <1>2 DEF Reported
    <3>2. IsFiniteSet(SitesAt(l)) /\ \A s \in SitesAt(l) : causeFile[s] = 0
      BY <1>1, <1>3 DEF SumFacts
    <3>3. /\ SumFunctionOnSet(Reported({}, l), Threads) = 0
          /\ SumFunctionOnSet(causeFile, SitesAt(l)) = 0
      BY <3>1, <3>2, SumOfNothing
    <3> QED BY <1>3, <3>3
  <2>3. ASSUME NEW s \in Sites
        PROVE  causeFile[s] + SumFunctionOnSet(Missing({}, s), Threads) <= ledger[s].total
    <3>1. \A t \in Threads : Missing({}, s)[t] = 0
      BY <1>2 DEF Missing
    <3>2. SumFunctionOnSet(Missing({}, s), Threads) = 0
      BY <3>1, SumOfNothing
    <3> QED BY <1>3, <3>2
  <2> QED BY <2>1, <2>2, <2>3 DEF AccountedFor
<1>7. Spent
  <2> SUFFICES ASSUME NEW l \in Lines
               PROVE  napped[l] + SumFunctionOnSet(Reported(Threads, l), Threads)
                        <= SumFunctionOnSet(Totals, SitesAt(l))
    BY DEF Spent
  <2>1. \A t \in Threads : Reported(Threads, l)[t] = 0
    BY <1>2 DEF Reported
  <2>2. IsFiniteSet(SitesAt(l)) /\ \A s \in SitesAt(l) : Totals[s] = 0
    BY <1>1, <1>3 DEF SumFacts, Totals
  <2>3. /\ SumFunctionOnSet(Reported(Threads, l), Threads) = 0
        /\ SumFunctionOnSet(Totals, SitesAt(l)) = 0
    BY <2>1, <2>2, SumOfNothing
  <2> QED BY <1>3, <2>3
<1> QED BY <1>4, <1>5, <1>6, <1>7 DEF NapInv, Accounted

(* Any step of the JVM.                                                    *)
LEMMA NapStepsKeep == IInv /\ Typed /\ Typed' /\ NapInv /\ [Next]_vars => NapInv'
<1> SUFFICES ASSUME IInv, Typed, Typed', NapInv, [Next]_vars PROVE NapInv'
  OBVIOUS
<1>1. CASE SetSleep \/ UNCHANGED vars
  <2>1. UNCHANGED <<naps, locals, iters, causeFile, mapLock, pc>>
    BY <1>1 DEF SetSleep, vars
  <2>2. \A p \in Threads : Calm(p)
    BY <2>1 DEF Calm, Unreported, locals, iters
  <2>3. LockHolder'
    BY <2>1 DEF NapInv, LockHolder, locals, naps
  <2>4. MovedStays
    BY <2>1 DEF MovedStays, Unmoved, RowsOf, Booked, BeingPut, locals, naps
  <2> QED BY <2>1, <2>2, <2>3, <2>4, CalmStepKeeps DEF NapInv
<1>2. ASSUME NEW t \in Threads, Continue(t) \/ TestStep(t) PROVE NapInv'
  <2>1. CASE Elsewhere(t)
    BY <2>1, ElsewhereKeepsNaps
  <2>2. CASE NapEnter(t) \/ NapInsert(t) \/ NapBook(t) \/ FallAsleep(t)
    BY <2>2, NapEnterKeeps, NapBookKeeps, FallAsleepKeeps
  <2>3. CASE \/ ReportEnter(t) \/ ReportCauseDone(t) \/ ReportExit(t)
             \/ \E c \in Causes : ReportCause(t, c)
             \/ \E s \in Sites : ReportSkips(t, s)
    BY <2>3, ReportStepsKeep
  <2>4. CASE \E s \in Sites : ReportRow(t, s)
    BY <2>4, ReportRowKeeps
  <2> QED BY <1>2, <2>1, <2>2, <2>3, <2>4 DEF Continue, TestStep, Elsewhere
<1> QED BY <1>1, <1>2 DEF Next

(* The invariant of the naps.                                              *)
LEMMA NapInvariant == Spec => [](Typed /\ NapInv)
<1>1. Init => IInv /\ Typed /\ NapInv
  BY Initially, InitTypes, NapsInitially
<1>2. IInv /\ Typed /\ NapInv /\ [Next]_vars => (IInv /\ Typed /\ NapInv)'
  BY StepKeeps, TypesKeep, NapStepsKeep
<1> QED BY <1>1, <1>2, PTL DEF Spec

(* However threads interleave in napTime, the number of naps at a line is  *)
(* the sum over its causes, and their lengths are the first so many        *)
(* halvings.                                                               *)
THEOREM NapsAreCountedTwice == Spec => []LedgerAgrees
<1>1. NapInv => LedgerAgrees
  BY DEF NapInv, SumsAgree, LedgerAgrees
<1> QED BY <1>1, NapInvariant, PTL

(* At whatever moment the JVM dies, the file of causes accounts for every  *)
(* nap that had begun at a line none of whose causes outgrew its map.      *)
THEOREM NapsReachTheFile == Spec => []UnmovedNapsAreReported
<1>1. Typed /\ NapInv => UnmovedNapsAreReported
  <2> SUFFICES ASSUME Typed, NapInv, NEW l \in Lines, QuietLine(l)
               PROVE  napped[l] <= SumFunctionOnSet(causeFile, SitesAt(l))
    BY DEF UnmovedNapsAreReported, QuietLine
  <2> USE WrapperAssumption
  <2>1. SumFacts
    BY SumTypes
  <2>2. PICK R \in SUBSET Threads : AccountedFor(R)
    BY DEF NapInv, Accounted
  <2>3. /\ napped[l] + SumFunctionOnSet(Reported(R, l), Threads)
             <= SumFunctionOnSet(causeFile, SitesAt(l))
        /\ SumFunctionOnSet(Reported(R, l), Threads) \in Nat
        /\ SumFunctionOnSet(causeFile, SitesAt(l)) \in Int
        /\ napped[l] \in Nat
    BY <2>1, <2>2 DEF SumFacts, AccountedFor, Typed
  <2> QED BY <2>3
<1> QED BY <1>1, NapInvariant, PTL

-----------------------------------------------------------------------------
(* The naps at a line and the timeout.                                     *)

(* A set of naturals has a least element.                                  *)
LEMMA LeastElement ==
  ASSUME NEW T, T \subseteq Nat, T # {}
  PROVE  \E m \in T : \A k \in T : m <= k
<1> DEFINE R == OpToRel(<, Nat)
<1>1. \A x, y \in Nat : x < y => <<x, y>> \in R
  BY DEF OpToRel
<1> HIDE DEF R
<1>2. IsWellFoundedOn(R, Nat)
  BY NatLessThanWellFounded DEF R
<1>3. PICK m \in T : \A k \in T : ~ (<<k, m>> \in R)
  BY <1>2, WFMin
<1>4. ASSUME NEW k \in T PROVE m <= k
  <2>1. m \in Nat /\ k \in Nat /\ ~ (k < m)
    BY <1>1, <1>3
  <2> QED BY <2>1
<1> QED BY <1>4

(* The first n naps at a line, and two more of the length that is next,    *)
(* are within twice the maximum.                                           *)
LEMMA NapsAreBounded ==
  ASSUME NEW n \in Nat, MaxSleep > 0
  PROVE  FirstNaps(n) < 2 * MaxSleep
<1> USE WrapperAssumption
<1> DEFINE Fits(m) == /\ FirstNaps(m) + 2 * NapLength(m) <= 2 * MaxSleep
                      /\ FirstNaps(m) < 2 * MaxSleep
           Bad == {m \in Nat : ~ Fits(m)}
<1>1. \A m \in Nat : /\ NapLength(m) \in Nat /\ FirstNaps(m) \in Int
                     /\ FirstNaps(m + 1) = FirstNaps(m) + NapLength(m)
                     /\ 2 * NapLength(m + 1) <= NapLength(m)
  <2> SUFFICES ASSUME NEW m \in Nat
               PROVE  /\ NapLength(m) \in Nat /\ FirstNaps(m) \in Int
                      /\ FirstNaps(m + 1) = FirstNaps(m) + NapLength(m)
                      /\ 2 * NapLength(m + 1) <= NapLength(m)
    OBVIOUS
  <2>1. /\ NapLength(m) \in 0 .. MaxSleep /\ FirstNaps(m) \in Int
        /\ FirstNaps(m + 1) = FirstNaps(m) + NapLength(m)
    BY NextNap
  <2>2. 2 * NapLength(m + 1) <= NapLength(m)
    BY Halving DEF NapLength
  <2> QED BY <2>1, <2>2
<1>2. Fits(0)
  BY NextNap, Halving DEF NapLength
<1>3. ASSUME NEW m \in Nat, Fits(m) PROVE Fits(m + 1)
  <2> DEFINE a == FirstNaps(m)
             b == NapLength(m)
             c == FirstNaps(m + 1)
             d == NapLength(m + 1)
  <2>1. a \in Int /\ b \in Nat /\ d \in Nat /\ c = a + b /\ 2 * d <= b
    BY <1>1
  <2>2. a + 2 * b <= 2 * MaxSleep /\ a < 2 * MaxSleep
    BY <1>3
  <2> HIDE DEF a, b, c, d
  <2>3. c + 2 * d <= 2 * MaxSleep /\ c < 2 * MaxSleep
    BY <2>1, <2>2
  <2> QED BY <2>3 DEF c, d
<1>4. Bad = {}
  <2> SUFFICES ASSUME Bad # {} PROVE FALSE
    OBVIOUS
  <2>1. PICK m \in Bad : \A k \in Bad : m <= k
    <3>1. Bad \subseteq Nat
      OBVIOUS
    <3> HIDE DEF Bad
    <3> QED BY <3>1, LeastElement
  <2>2. m \in Nat /\ ~ Fits(m)
    OBVIOUS
  <2> HIDE DEF Fits
  <2>3. m # 0
    BY <1>2, <2>2
  <2>4. m - 1 \in Nat /\ (m - 1) + 1 = m /\ ~ (m <= m - 1)
    BY <2>2, <2>3
  <2>5. Fits(m - 1)
    BY <2>1, <2>4
  <2> QED BY <1>3, <2>2, <2>4, <2>5
<1> QED BY <1>4

(* A number is at most the power of two it is the exponent of.             *)
LEMMA PowersAreLarge ==
  ASSUME NEW n \in Nat
  PROVE  2 ^ n >= n
<1> DEFINE Bad == {m \in Nat : ~ (2 ^ m >= m)}
<1> SUFFICES ASSUME Bad # {} PROVE FALSE
  OBVIOUS
<1>1. PICK m \in Bad : \A k \in Bad : m <= k
  <2>1. Bad \subseteq Nat
    OBVIOUS
  <2> HIDE DEF Bad
  <2> QED BY <2>1, LeastElement
<1>2. m \in Nat /\ ~ (2 ^ m >= m)
  OBVIOUS
<1>3. m # 0
  BY <1>2, PowersOfTwo
<1> DEFINE k == m - 1
<1>4. k \in Nat /\ k + 1 = m /\ ~ (m <= k)
  BY <1>2, <1>3
<1>5. 2 ^ k >= k
  BY <1>1, <1>4
<1> HIDE DEF k
<1>6. 2 ^ k \in Nat \ {0} /\ 2 ^ (k + 1) = 2 * 2 ^ k
  BY <1>4, PowersOfTwo
<1> DEFINE p == 2 ^ k
<1>7. 2 * p >= k + 1
  <2> HIDE DEF p
  <2>1. p \in Nat \ {0} /\ p >= k
    BY <1>5, <1>6 DEF p
  <2> QED BY <1>4, <2>1
<1> QED BY <1>2, <1>4, <1>6, <1>7

(* do_run adds at least twice the maximum per line, from 3 ms on.          *)
LEMMA TimeIsTwice ==
  ASSUME MaxSleep >= 3
  PROVE  TimePerLine >= 2 * MaxSleep /\ TimePerLine \in Int
<1> USE WrapperAssumption
<1> DEFINE Log(k) == 2 ^ k >= MaxSleep /\ \A j \in 0 .. k - 1 : 2 ^ j < MaxSleep
           Ks == {k \in 0 .. MaxSleep : 2 ^ k >= MaxSleep}
<1>1. \E k \in 0 .. MaxSleep : Log(k)
  <2>1. MaxSleep \in Ks
    BY PowersAreLarge
  <2>2. PICK k \in Ks : \A j \in Ks : k <= j
    <3>1. Ks \subseteq Nat
      OBVIOUS
    <3> HIDE DEF Ks
    <3> QED BY <2>1, <3>1, LeastElement
  <2>3. ASSUME NEW j \in 0 .. k - 1 PROVE 2 ^ j < MaxSleep
    <3>1. j \in 0 .. MaxSleep /\ ~ (k <= j)
      BY <2>2
    <3>2. 2 ^ j \in Nat
      BY <3>1, PowersOfTwo
    <3>3. ~ (2 ^ j >= MaxSleep)
      BY <2>2, <3>1
    <3> QED BY <3>2, <3>3
  <2> QED BY <2>2, <2>3
<1> DEFINE k == CHOOSE i \in 0 .. MaxSleep : Log(i)
<1>2. k = CeilLog2(MaxSleep)
  BY DEF CeilLog2
<1>3. k \in 0 .. MaxSleep /\ 2 ^ k >= MaxSleep
  BY <1>1
<1> HIDE DEF k
<1>4. k >= 2
  <2>1. 2 ^ 0 = 1 /\ 2 ^ 1 = 2
    BY PowersOfTwo
  <2>2. k # 0 /\ k # 1
    <3>1. k = 0 => 2 ^ k = 1
      BY <2>1
    <3>2. k = 1 => 2 ^ k = 2
      BY <2>1
    <3> QED BY <1>3, <3>1, <3>2
  <2> QED BY <1>3, <2>2
<1>5. MaxSleep * k >= MaxSleep * 2
  BY <1>3, <1>4
<1> QED BY <1>2, <1>3, <1>5 DEF TimePerLine

(* All threads together nap at a line for less than twice the maximum, so  *)
(* within what do_run adds to the timeout for the line.                    *)
THEOREM NapsFitTheTimeout == Spec => []NapsFitTimeout
<1>1. Typed /\ NapInv => NapsFitTimeout
  <2> SUFFICES ASSUME Typed, NapInv, NEW l \in Lines
               PROVE  /\ MaxSleep > 0 => napped[l] < 2 * MaxSleep
                      /\ MaxSleep >= 3 => napped[l] <= TimePerLine
    BY DEF NapsFitTimeout
  <2> USE WrapperAssumption
  <2> DEFINE total == SumFunctionOnSet(Totals, SitesAt(l))
             share == SumFunctionOnSet(Reported(Threads, l), Threads)
             n == lineToSleeps[l]
  <2>1. SumFacts
    BY SumTypes
  <2>2. napped[l] \in Nat /\ n \in Nat /\ share \in Nat /\ total \in Int
    BY <2>1 DEF SumFacts, Typed, TypeOK
  <2>3. napped[l] + share <= total /\ total = FirstNaps(n)
    BY DEF NapInv, Spent, SumsAgree
  <2> HIDE DEF total, share, n
  <2>4. napped[l] <= total
    BY <2>2, <2>3
  <2>5. CASE MaxSleep > 0
    <3>1. FirstNaps(n) < 2 * MaxSleep
      BY <2>2, <2>5, NapsAreBounded
    <3>2. napped[l] < 2 * MaxSleep
      BY <2>2, <2>3, <2>4, <3>1
    <3>3. MaxSleep >= 3 => TimePerLine >= 2 * MaxSleep /\ TimePerLine \in Int
      BY TimeIsTwice
    <3>4. MaxSleep >= 3 => napped[l] <= TimePerLine
      <4> SUFFICES ASSUME MaxSleep >= 3 PROVE napped[l] <= TimePerLine
        OBVIOUS
      <4>1. TimePerLine >= 2 * MaxSleep /\ TimePerLine \in Int
        BY <3>3
      <4> QED BY <2>2, <3>2, <4>1
    <3> QED BY <3>2, <3>4
  <2> QED BY <2>5
<1> QED BY <1>1, NapInvariant, PTL
=============================================================================
