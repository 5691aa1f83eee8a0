----------------------------- MODULE FleetProofs -----------------------------
(***************************************************************************)
(* What a study on many machines promises of its uploads and of the report *)
(* they are merged into, for every number of nodes, tests, tries and rows. *)
(***************************************************************************)
EXTENDS Fleet, FiniteSetTheorems, SequenceTheorems, TLAPS

(* A report of this run for t.                                             *)
IsReport(rows, t) == \E k \in 1 .. MaxRows : rows = Report(t, "now", k)

(* A test that is at work has tries left, and so has one that waits.       *)
Queued ==
  /\ \A n \in Nodes : job[n] # Nobody => settled[job[n]] = "no"
  /\ \A n, m \in Nodes : job[n] # Nobody /\ job[n] = job[m] => n = m
  /\ \A t \in Tests : settled[t] = "no" /\ (\A n \in Nodes : job[n] # t) => tries[t] < MaxTries

(* The records on a node at work belong to its test.                       *)
HomesAreClean ==
  \A n \in Nodes : job[n] # Nobody =>
    /\ at[n] \in {"clone", "driver"} => records[n] = <<>>
    /\ at[n] = "upload" => IsReport(records[n], job[n])

(* What is in S3 is a report of its test, and is there when parallel says. *)
Uploads ==
  /\ \A t \in Tests : s3[t] # <<>> => IsReport(s3[t], t)
  /\ \A t \in Tests : settled[t] = "done" => s3[t] # <<>>

(* Of the variables that this is about, the types.                         *)
Types ==
  /\ job \in [Nodes -> Tests \cup {Nobody}]
  /\ at \in [Nodes -> Steps]
  /\ records \in [Nodes -> Seq(Rows)]
  /\ tries \in [Tests -> 0 .. MaxTries]
  /\ settled \in [Tests -> {"no", "done", "failed"}]
  /\ s3 \in [Tests -> Seq(Rows)]

IInv == Types /\ Queued /\ HomesAreClean /\ Uploads

-----------------------------------------------------------------------------
(* A report is a sequence of rows, and never empty.                        *)
LEMMA ReportType ==
  ASSUME NEW t \in Tests, NEW k \in 1 .. MaxRows
  PROVE  /\ Report(t, "now", k) \in Seq(Rows)
         /\ Report(t, "now", k) # <<>>
         /\ <<>> \o Report(t, "now", k) = Report(t, "now", k)
<1> DEFINE R == Report(t, "now", k)
<1> USE FleetAssumption
<1>1. \A i \in 1 .. k : R[i] \in Rows
  <2> SUFFICES ASSUME NEW i \in 1 .. k PROVE R[i] \in Rows
    OBVIOUS
  <2>1. i \in 1 .. MaxRows
    OBVIOUS
  <2>2. R[i] = Row(t, "now", i)
    BY DEF Report
  <2> QED BY <2>1, <2>2 DEF Rows
<1>2. R \in [1 .. k -> Rows] /\ k \in Nat
  BY <1>1 DEF Report
<1>3. R \in Seq(Rows) /\ Len(R) = k
  BY <1>2 DEF Report
<1> HIDE DEF R
<1>4. R # <<>>
  BY <1>3
<1>5. <<>> \o R = R
  BY <1>3
<1> QED BY <1>3, <1>4, <1>5 DEF R

(* Nothing has been done yet.                                              *)
LEMMA Initially == Init => IInv
<1> SUFFICES ASSUME Init PROVE IInv
  OBVIOUS
<1> USE FleetAssumption DEF Init
<1>1. Types
  BY DEF Types, Steps
<1>2. Queued /\ HomesAreClean /\ Uploads
  BY DEF Queued, HomesAreClean, Uploads
<1> QED BY <1>1, <1>2 DEF IInv

(* A test is given to a node when it has tries left; it starts afresh.     *)
LEMMA StartJobKeeps ==
  ASSUME NEW n \in Nodes, NEW t \in Tests, IInv, StartJob(n, t)
  PROVE  IInv'
<1> USE FleetAssumption DEF IInv, StartJob, home
<1>1. tries[t] < MaxTries /\ tries[t] \in Nat
  BY DEF Queued, Types
<1>2. Types'
  BY <1>1 DEF Types, Steps
<1>3. Queued'
  BY DEF Queued, Types
<1>4. HomesAreClean'
  BY DEF HomesAreClean, Types
<1>5. Uploads'
  BY DEF Uploads
<1> QED BY <1>2, <1>3, <1>4, <1>5

(* A job that fails leaves its node to others, and S3 alone or with the    *)
(* report of its test.                                                     *)
LEMMA JobFailsKeeps ==
  ASSUME NEW n \in Nodes, IInv, JobFails(n)
  PROVE  IInv'
<1> USE FleetAssumption DEF IInv
<1> DEFINE t == job[n]
           outcome == IF tries[t] = MaxTries THEN "failed" ELSE "no"
<1>1. t \in Tests /\ settled[t] = "no"
  BY DEF JobFails, FailWith, Types, Queued
<1>2. /\ job' = [job EXCEPT ![n] = Nobody]
      /\ settled' = [settled EXCEPT ![t] = outcome]
      /\ UNCHANGED <<at, tries>>
  BY DEF JobFails, FailWith
<1>3. \/ UNCHANGED <<records, s3>>
      \/ /\ UNCHANGED s3
         /\ \E k \in 1 .. MaxRows : records' = [records EXCEPT ![n] = @ \o Report(t, "now", k)]
      \/ /\ at[n] = "upload" /\ UNCHANGED records
         /\ s3' = [s3 EXCEPT ![t] = records[n]]
  BY DEF JobFails, FailWith
<1>4. records' \in [Nodes -> Seq(Rows)]
  <2>1. ASSUME NEW k \in 1 .. MaxRows PROVE records[n] \o Report(t, "now", k) \in Seq(Rows)
    BY <1>1, ReportType DEF Types
  <2> QED BY <1>3, <2>1 DEF Types
<1>5. s3' \in [Tests -> Seq(Rows)]
  BY <1>1, <1>3 DEF Types
<1>6. Types'
  BY <1>1, <1>2, <1>4, <1>5 DEF Types
<1>7. Queued'
  <2>1. \A m \in Nodes : job'[m] # Nobody => m # n /\ job'[m] = job[m] /\ job[m] # t
    BY <1>1, <1>2 DEF Types, Queued
  <2>2. \A u \in Tests : u # t => settled'[u] = settled[u]
    BY <1>1, <1>2 DEF Types
  <2>3. settled'[t] = "no" => tries[t] < MaxTries
    BY <1>1, <1>2 DEF Types
  <2>4. ASSUME NEW u \in Tests, u # t, settled'[u] = "no", \A m \in Nodes : job'[m] # u
        PROVE  tries[u] < MaxTries
    <3>1. \A m \in Nodes : job[m] # u
      BY <1>2, <2>4 DEF Types
    <3> QED BY <2>2, <2>4, <3>1 DEF Queued
  <2>5. \A m \in Nodes : job'[m] # Nobody => settled'[job'[m]] = "no"
    BY <2>1, <2>2 DEF Queued, Types
  <2>6. \A l, m \in Nodes : job'[l] # Nobody /\ job'[l] = job'[m] => l = m
    BY <2>1 DEF Queued
  <2> QED BY <1>2, <2>3, <2>4, <2>5, <2>6 DEF Queued
<1>8. HomesAreClean'
  <2>1. \A m \in Nodes : job'[m] # Nobody => m # n /\ job'[m] = job[m] /\ records'[m] = records[m]
    BY <1>1, <1>2, <1>3 DEF Types
  <2> QED BY <1>2, <2>1 DEF HomesAreClean, IsReport
<1>9. Uploads'
  <2>1. \A u \in Tests : s3'[u] = s3[u] \/ (u = t /\ IsReport(s3'[u], u))
    BY <1>1, <1>3 DEF Types, HomesAreClean
  <2>2. \A u \in Tests : IsReport(s3'[u], u) => s3'[u] # <<>>
    BY ReportType DEF IsReport
  <2>3. \A u \in Tests : settled'[u] = "done" => settled[u] = "done"
    BY <1>1, <1>2 DEF Types
  <2> QED BY <2>1, <2>2, <2>3 DEF Uploads, IsReport
<1> QED BY <1>6, <1>7, <1>8, <1>9

-----------------------------------------------------------------------------
(* The node is emptied before the clone is made.                           *)
LEMMA CleanAndCloneKeep ==
  ASSUME NEW n \in Nodes, IInv, Clean(n) \/ Clone(n)
  PROVE  IInv'
<1> USE FleetAssumption DEF IInv, Clean, Clone, Works, GoesTo, queue
<1>1. Types'
  <2>1. at' \in [Nodes -> Steps]
    BY DEF Types, Steps
  <2>2. records' \in [Nodes -> Seq(Rows)]
    <3>1. CASE Clean(n)
      BY <3>1 DEF Types
    <3>2. CASE Clone(n)
      BY <3>2 DEF Types
    <3> QED BY <3>1, <3>2
  <2> QED BY <2>1, <2>2 DEF Types
<1>2. Queued' /\ Uploads'
  BY DEF Queued, Uploads
<1>3. HomesAreClean'
  <2>1. /\ job' = job
        /\ \A m \in Nodes : m # n => at'[m] = at[m] /\ records'[m] = records[m]
    BY DEF Types
  <2>2. at'[n] \in {"clone", "driver"} /\ records'[n] = <<>>
    BY DEF Types, HomesAreClean
  <2> QED BY <2>1, <2>2 DEF HomesAreClean, IsReport
<1> QED BY <1>1, <1>2, <1>3

(* The driver starts from its first row, in an empty clone.                *)
LEMMA RunDriverKeeps ==
  ASSUME NEW n \in Nodes, NEW paths, IInv, RunDriver(n, paths)
  PROVE  IInv'
<1> USE FleetAssumption DEF IInv, Works, GoesTo, queue
<1>1. PICK k \in 1 .. MaxRows : records' = [records EXCEPT ![n] = @ \o Report(job[n], "now", k)]
  BY DEF RunDriver
<1>2. job[n] \in Tests /\ job[n] # Nobody /\ records[n] = <<>>
  BY DEF RunDriver, Types, HomesAreClean
<1>3. records' = [records EXCEPT ![n] = Report(job[n], "now", k)]
  BY <1>1, <1>2, ReportType
<1>4. Report(job[n], "now", k) \in Seq(Rows)
  BY <1>2, ReportType
<1>5. Types'
  BY <1>3, <1>4 DEF RunDriver, Types, Steps
<1>6. Queued' /\ Uploads'
  BY DEF RunDriver, Queued, Uploads
<1>7. HomesAreClean'
  <2>1. records'[n] = Report(job[n], "now", k)
    BY <1>3 DEF Types
  <2>2. IsReport(records'[n], job'[n])
    BY <2>1 DEF RunDriver, IsReport
  <2>3. \A m \in Nodes : m # n => records'[m] = records[m] /\ at'[m] = at[m] /\ job'[m] = job[m]
    BY <1>3 DEF RunDriver, Types
  <2>4. at'[n] = "upload"
    BY DEF RunDriver, Types
  <2> QED BY <2>2, <2>3, <2>4 DEF HomesAreClean
<1> QED BY <1>5, <1>6, <1>7

(* What is uploaded is the report of the test.                             *)
LEMMA UploadKeeps ==
  ASSUME NEW n \in Nodes, IInv, Upload(n)
  PROVE  IInv'
<1> USE FleetAssumption DEF IInv, Upload, Works, home
<1> DEFINE t == job[n]
<1>1. t \in Tests /\ IsReport(records[n], t) /\ records[n] \in Seq(Rows)
  BY DEF Types, HomesAreClean
<1>2. records[n] # <<>>
  BY <1>1, ReportType DEF IsReport
<1>3. Types'
  BY <1>1 DEF Types
<1>4. Queued'
  <2>1. \A m \in Nodes : job'[m] # Nobody => m # n /\ job'[m] = job[m] /\ job[m] # t
    BY <1>1 DEF Types, Queued
  <2>2. settled'[t] = "done" /\ \A u \in Tests : u # t => settled'[u] = settled[u]
    BY <1>1 DEF Types
  <2>3. ASSUME NEW u \in Tests, settled'[u] = "no", \A m \in Nodes : job'[m] # u
        PROVE  tries[u] < MaxTries
    <3>1. \A m \in Nodes : job[m] # u
      BY <2>2, <2>3 DEF Types
    <3> QED BY <2>2, <2>3, <3>1 DEF Queued
  <2>4. \A m \in Nodes : job'[m] # Nobody => settled'[job'[m]] = "no"
    BY <2>1, <2>2 DEF Queued, Types
  <2>5. \A l, m \in Nodes : job'[l] # Nobody /\ job'[l] = job'[m] => l = m
    BY <2>1 DEF Queued
  <2> QED BY <2>3, <2>4, <2>5 DEF Queued
<1>5. HomesAreClean'
  BY DEF HomesAreClean, Types, IsReport
<1>6. Uploads'
  <2>1. \A u \in Tests : IF u = t THEN s3'[u] = records[n]
                         ELSE s3'[u] = s3[u] /\ settled'[u] = settled[u]
    BY <1>1 DEF Types
  <2> QED BY <1>1, <1>2, <2>1 DEF Uploads
<1> QED BY <1>3, <1>4, <1>5, <1>6

-----------------------------------------------------------------------------
(* The other scripts do not touch what the invariant is about.             *)
Scripts ==
  \/ \E n \in Nodes : CopyFlakeRake(n) \/ InstallFlakeRake(n)
  \/ Installed \/ CheckNodes \/ ParallelEnds
  \/ Sync \/ \E t \in Tests : MergeReport(t)
  \/ Interrupt \/ Merged \/ CleanUp

(* The other scripts leave jobs, homes and uploads as they are.            *)
LEMMA ScriptsKeep == IInv /\ (Scripts \/ UNCHANGED vars) => IInv'
<1> SUFFICES ASSUME IInv, Scripts \/ UNCHANGED vars PROVE IInv'
  OBVIOUS
<1>1. UNCHANGED <<job, at, records, tries, settled, s3>>
  BY DEF Scripts, CopyFlakeRake, InstallFlakeRake, Installed, CheckNodes, ParallelEnds,
     Sync, MergeReport, Interrupt, Merged, CleanUp, vars, home, queue, merge
<1> QED BY <1>1 DEF IInv, Types, Queued, HomesAreClean, Uploads, IsReport

(* Every step keeps the invariant.                                         *)
LEMMA StepsKeep == IInv /\ [Next]_vars => IInv'
<1> SUFFICES ASSUME IInv, [Next]_vars PROVE IInv'
  OBVIOUS
<1>1. ASSUME NEW n \in Nodes, Experiment(n) PROVE IInv'
  BY <1>1, CleanAndCloneKeep, RunDriverKeeps, UploadKeeps, JobFailsKeeps DEF Experiment
<1>2. ASSUME NEW n \in Nodes, NEW t \in Tests, StartJob(n, t) PROVE IInv'
  BY <1>2, StartJobKeeps
<1>3. CASE Scripts \/ UNCHANGED vars
  BY <1>3, ScriptsKeep
<1> QED BY <1>1, <1>2, <1>3 DEF Next, Scripts

(* The inductive invariant: a node at work holds rows of its own test only.*)
THEOREM FleetInvariant == Spec => []IInv
BY Initially, StepsKeep, PTL DEF Spec

(* No test is tried more than MaxTries times, by any two nodes at once, or *)
(* after it was done.                                                      *)
THEOREM TriesAreBounded ==
  Spec => [](/\ \A t \in Tests : tries[t] <= MaxTries
             /\ \A n, m \in Nodes : job[n] # Nobody /\ job[n] = job[m] => n = m
             /\ \A n \in Nodes : job[n] # Nobody => settled[job[n]] = "no")
<1>1. IInv => /\ \A t \in Tests : tries[t] <= MaxTries
              /\ \A n, m \in Nodes : job[n] # Nobody /\ job[n] = job[m] => n = m
              /\ \A n \in Nodes : job[n] # Nobody => settled[job[n]] = "no"
  BY FleetAssumption DEF IInv, Types, Queued
<1> QED BY <1>1, FleetInvariant, PTL

(* The zip under the key of a test holds one report of this run for it.    *)
THEOREM ZipsAreFiledUnderTheirTest == Spec => []FiledUnderTheirTest
<1>1. IInv => FiledUnderTheirTest
  BY DEF IInv, Uploads, IsReport, FiledUnderTheirTest
<1> QED BY <1>1, FleetInvariant, PTL

(* A job that parallel calls done has its zip in S3.                       *)
THEOREM JobsDoneAreUploaded == Spec => []DoneIsUploaded
<1>1. IInv => DoneIsUploaded
  BY DEF IInv, Uploads, DoneIsUploaded
<1> QED BY <1>1, FleetInvariant, PTL

-----------------------------------------------------------------------------
(* The merge.  Reports of this run and of the one before are read in any   *)
(* order; all but the first are taken whole.                               *)

IsZip(rows, t) ==
  \E run \in {"now", "before"}, k \in 1 .. MaxRows : rows = Report(t, run, k)

Read == Zips(tmp) \ left

(* Row i of the report of t is in what is merged so far.                   *)
InMerge(t, i) == \E j \in DOMAIN merged : merged[j] = tmp[t][i]

MergeInv ==
  /\ tmp \in [Tests -> Seq(Rows)]
  /\ \A t \in Zips(tmp) : IsZip(tmp[t], t)
  /\ phase \in {"merge", "merged"} =>
       /\ merged \in Seq(Rows \cup {Header})
       /\ left \subseteq Zips(tmp)
       /\ Read = {} => merged = <<>>
       /\ Read # {} => merged # <<>> /\ merged[1] = Header
       /\ \A j \in DOMAIN merged :
            merged[j] = Header \/ \E t \in Read : \E i \in DOMAIN tmp[t] : merged[j] = tmp[t][i]
       /\ IsInjective(merged)
       /\ Read # {} =>
            \E f \in Read : \A t \in Read : \A i \in DOMAIN tmp[t] :
              InMerge(t, i) \/ (t = f /\ i = 1)
  /\ phase = "merged" => left = {}

(* The rows of a report, which differ.                                     *)
LEMMA ZipRows ==
  ASSUME NEW t \in Tests, NEW rows, IsZip(rows, t)
  PROVE  /\ rows \in Seq(Rows) /\ rows # <<>> /\ Len(rows) \in 1 .. MaxRows
         /\ \A i \in 1 .. Len(rows) : rows[i].test = t /\ rows[i].idx = i /\ rows[i] \in Rows
<1> USE FleetAssumption
<1>1. PICK run \in {"now", "before"}, k \in 1 .. MaxRows : rows = Report(t, run, k)
  BY DEF IsZip
<1>2. \A i \in 1 .. k : rows[i] = Row(t, run, i) /\ rows[i] \in Rows
  <2> SUFFICES ASSUME NEW i \in 1 .. k PROVE rows[i] = Row(t, run, i) /\ rows[i] \in Rows
    OBVIOUS
  <2>1. i \in 1 .. MaxRows /\ rows[i] = Row(t, run, i)
    BY <1>1 DEF Report
  <2> QED BY <2>1 DEF Rows
<1>3. rows \in [1 .. k -> Rows] /\ k \in Nat
  BY <1>1, <1>2 DEF Report
<1>4. rows \in Seq(Rows) /\ Len(rows) = k
  BY <1>3
<1>5. \A i \in 1 .. k : rows[i].test = t /\ rows[i].idx = i
  <2> SUFFICES ASSUME NEW i \in 1 .. k PROVE rows[i].test = t /\ rows[i].idx = i
    OBVIOUS
  <2>1. Row(t, run, i).test = t /\ Row(t, run, i).idx = i
    BY DEF Row
  <2> QED BY <1>2, <2>1
<1> QED BY <1>2, <1>4, <1>5

(* What is written of a report: all its rows, or, of the first, the header *)
(* and all rows but the first.                                             *)
LEMMA WhatIsKept ==
  ASSUME NEW rows \in Seq(Rows), rows # <<>>
  PROVE  LET lines == <<Header>> \o rows
             first == Kept(lines, FALSE)
         IN  /\ Kept(lines, TRUE) = rows
             /\ first \in Seq(Rows \cup {Header}) /\ Len(first) = Len(rows)
             /\ first[1] = Header
             /\ \A i \in 2 .. Len(rows) : first[i] = rows[i]
<1> DEFINE lines == <<Header>> \o rows
           rest == SubSeq(lines, 3, Len(lines))
           first == <<lines[1]>> \o rest
           T == Rows \cup {Header}
           n == Len(rows)
<1>1. /\ lines \in Seq(T) /\ Len(lines) = n + 1 /\ lines[1] = Header /\ n \in Nat \ {0}
      /\ \A i \in 1 .. n : lines[i + 1] = rows[i]
  OBVIOUS
<1> HIDE DEF lines
<1>2. Tail(lines) = rows
  <2>1. /\ Tail(lines) \in Seq(T) /\ Len(Tail(lines)) = n
        /\ \A i \in 1 .. n : Tail(lines)[i] = rows[i]
    BY <1>1
  <2>2. rows \in Seq(T)
    OBVIOUS
  <2> QED BY <2>1, <2>2
<1>3. /\ rest \in Seq(T) /\ Len(rest) = n - 1
      /\ \A i \in 1 .. n - 1 : rest[i] = rows[i + 1]
  <2> DEFINE m == 3
             e == Len(lines)
  <2>1. m \in Int /\ e \in Int /\ \A i \in m .. e : lines[i] \in T
    BY <1>1
  <2>2. m = 3 /\ e = n + 1
    BY <1>1
  <2>3. rest = SubSeq(lines, m, e)
    OBVIOUS
  <2> HIDE DEF m, e, rest
  <2>4. /\ rest \in Seq(T) /\ Len(rest) = IF m <= e THEN e - m + 1 ELSE 0
        /\ \A i \in 1 .. e - m + 1 : rest[i] = lines[m + i - 1]
    BY <2>1, <2>3, SubSeqProperties
  <2>5. rest \in Seq(T) /\ Len(rest) = n - 1 /\ \A i \in 1 .. n - 1 : rest[i] = lines[i + 2]
    <3>0. n \in Nat /\ n >= 1
      BY <1>1
    <3> HIDE DEF n
    <3>1. (IF m <= e THEN e - m + 1 ELSE 0) = n - 1 /\ e - m + 1 = n - 1
      BY ONLY <2>2, <3>0
    <3>2. \A i \in 1 .. n - 1 : m + i - 1 = i + 2
      BY <1>1, <2>2
    <3> QED BY <2>4, <3>1, <3>2
  <2>6. \A i \in 1 .. n - 1 : lines[i + 2] = rows[i + 1]
    BY <1>1
  <2> QED BY <2>5, <2>6
<1> HIDE DEF rest
<1>4. /\ first \in Seq(T) /\ Len(first) = n /\ first[1] = Header
      /\ \A i \in 2 .. n : first[i] = rows[i]
  <2>1. /\ first \in Seq(T) /\ Len(first) = n /\ first[1] = Header
        /\ \A i \in 2 .. n : first[i] = rest[i - 1]
    BY <1>1, <1>3
  <2>2. \A i \in 2 .. n : rest[i - 1] = rows[i]
    BY <1>1, <1>3
  <2> QED BY <2>1, <2>2
<1>5. Kept(lines, TRUE) = Tail(lines) /\ Kept(lines, FALSE) = first
  BY DEF Kept, rest
<1> QED BY <1>2, <1>4, <1>5 DEF lines

(* Where the elements of two lists are when one is appended to the other.  *)
LEMMA Appends ==
  ASSUME NEW T, NEW a \in Seq(T), NEW b \in Seq(T)
  PROVE  LET c == a \o b
             m == Len(a)
             n == Len(b)
         IN  /\ c \in Seq(T) /\ m \in Nat /\ n \in Nat /\ Len(c) = m + n
             /\ DOMAIN c = 1 .. m + n /\ DOMAIN a = 1 .. m /\ DOMAIN b = 1 .. n
             /\ \A j \in 1 .. m : c[j] = a[j] /\ j \in 1 .. m + n
             /\ \A i \in 1 .. n : c[m + i] = b[i] /\ m + i \in 1 .. m + n
             /\ \A j \in 1 .. m + n : j \in 1 .. m \/ (j - m \in 1 .. n /\ c[j] = b[j - m])
OBVIOUS

(* Two lists without repetition that share nothing.                        *)
LEMMA AppendsInjectively ==
  ASSUME NEW T, NEW a \in Seq(T), NEW b \in Seq(T), IsInjective(a),
         \A i, j \in 1 .. Len(b) : b[i] = b[j] => i = j,
         \A i \in 1 .. Len(a), j \in 1 .. Len(b) : a[i] # b[j]
  PROVE  IsInjective(a \o b)
<1> DEFINE c == a \o b
           m == Len(a)
           n == Len(b)
<1>1. /\ m \in Nat /\ n \in Nat /\ DOMAIN c = 1 .. m + n
      /\ \A i \in 1 .. m : c[i] = a[i]
      /\ \A i \in (m + 1) .. (m + n) : i - m \in 1 .. n /\ c[i] = b[i - m]
  BY Appends
<1>2. \A i, j \in 1 .. m : a[i] = a[j] => i = j
  BY DEF IsInjective
<1> HIDE DEF c, m, n
<1>3. ASSUME NEW i \in 1 .. m + n, NEW j \in 1 .. m + n, c[i] = c[j] PROVE i = j
  <2>1. i \in 1 .. m \/ i \in (m + 1) .. (m + n)
    BY <1>1
  <2>2. j \in 1 .. m \/ j \in (m + 1) .. (m + n)
    BY <1>1
  <2>3. CASE i \in 1 .. m /\ j \in 1 .. m
    BY <1>1, <1>2, <1>3, <2>3
  <2>4. CASE i \in (m + 1) .. (m + n) /\ j \in (m + 1) .. (m + n)
    <3>1. i - m \in 1 .. n /\ j - m \in 1 .. n /\ b[i - m] = b[j - m]
      BY <1>1, <1>3, <2>4
    <3>2. i - m = j - m
      BY <3>1 DEF n
    <3> QED BY <1>1, <3>2
  <2>5. CASE i \in 1 .. m /\ j \in (m + 1) .. (m + n)
    BY <1>1, <1>3, <2>5 DEF m, n
  <2>6. CASE i \in (m + 1) .. (m + n) /\ j \in 1 .. m
    BY <1>1, <1>3, <2>6 DEF m, n
  <2> QED BY <2>1, <2>2, <2>3, <2>4, <2>5, <2>6
<1>4. \A i, j \in DOMAIN c : c[i] = c[j] => i = j
  BY <1>1, <1>3
<1> QED BY <1>4 DEF IsInjective, c

(* The first report is taken without its first row, after the header.      *)
LEMMA FirstReportKeeps ==
  ASSUME NEW t \in Tests, MergeInv, MergeReport(t), Read = {}
  PROVE  MergeInv'
<1> USE FleetAssumption, HeaderAssumption
<1> DEFINE rows == tmp[t]
           n == Len(rows)
<1>1. /\ phase = "merge" /\ phase' = "merge" /\ tmp' = tmp /\ left' = left \ {t} /\ t \in left
      /\ merged = <<>>
      /\ merged' = <<>> \o Kept(<<Header>> \o rows, FALSE)
  BY DEF MergeReport, MergeInv
<1>2. /\ t \in Zips(tmp) /\ left \subseteq Zips(tmp) /\ tmp \in [Tests -> Seq(Rows)]
      /\ Zips(tmp)' = Zips(tmp) /\ Zips(tmp) \subseteq Tests
  BY <1>1 DEF MergeInv, Zips
<1>3. IsZip(rows, t)
  BY <1>2 DEF MergeInv
<1>4. /\ rows \in Seq(Rows) /\ rows # <<>> /\ n \in Nat \ {0}
      /\ \A i \in 1 .. n : rows[i].test = t /\ rows[i].idx = i /\ rows[i] \in Rows
  BY <1>3, ZipRows
<1>5. Read' = {t}
  BY <1>1, <1>2 DEF Read
<1> HIDE DEF rows
<1>6. /\ merged' \in Seq(Rows \cup {Header}) /\ Len(merged') = n /\ merged'[1] = Header
      /\ \A i \in 2 .. n : merged'[i] = rows[i]
  <2> DEFINE f == Kept(<<Header>> \o rows, FALSE)
  <2>1. /\ f \in Seq(Rows \cup {Header}) /\ Len(f) = n /\ f[1] = Header
        /\ \A i \in 2 .. n : f[i] = rows[i]
    BY <1>4, WhatIsKept
  <2> HIDE DEF f
  <2>2. <<>> \o f = f
    BY <2>1
  <2> QED BY <1>1, <2>1, <2>2 DEF f
<1>7. DOMAIN merged' = 1 .. n /\ DOMAIN rows = 1 .. n
  BY <1>4, <1>6
<1>8. /\ merged' # <<>>
      /\ \A j \in 1 .. n : j = 1 \/ j \in 2 .. n
  BY <1>4, <1>6
<1>9. IsInjective(merged')
  <2>1. ASSUME NEW i \in 1 .. n, NEW j \in 1 .. n, merged'[i] = merged'[j] PROVE i = j
    <3>1. CASE i = 1 /\ j = 1
      BY <3>1
    <3>2. CASE i \in 2 .. n /\ j \in 2 .. n
      BY <1>4, <1>6, <2>1, <3>2
    <3>3. CASE i = 1 /\ j \in 2 .. n
      BY <1>4, <1>6, <2>1, <3>3
    <3>4. CASE i \in 2 .. n /\ j = 1
      BY <1>4, <1>6, <2>1, <3>4
    <3> QED BY <1>8, <3>1, <3>2, <3>3, <3>4
  <2> QED BY <1>7, <2>1 DEF IsInjective
<1>10. \A j \in DOMAIN merged' :
         merged'[j] = Header \/ \E u \in Read' : \E i \in DOMAIN tmp'[u] : merged'[j] = tmp'[u][i]
  BY <1>1, <1>5, <1>6, <1>7, <1>8 DEF rows
<1>11. \E f \in Read' : \A u \in Read' : \A i \in DOMAIN tmp'[u] :
         InMerge(u, i)' \/ (u = f /\ i = 1)
  <2>1. \A i \in DOMAIN rows : InMerge(t, i)' \/ i = 1
    BY <1>1, <1>6, <1>7, <1>8 DEF InMerge, rows
  <2> QED BY <1>1, <1>5, <2>1 DEF rows
<1>12. tmp' \in [Tests -> Seq(Rows)] /\ \A u \in Zips(tmp)' : IsZip(tmp[u], u)'
  BY <1>1, <1>2 DEF MergeInv, IsZip
<1>13. left' \subseteq Zips(tmp)' /\ Read' # {}
  BY <1>1, <1>2, <1>5
<1> QED BY <1>1, <1>5, <1>6, <1>8, <1>9, <1>10, <1>11, <1>12, <1>13 DEF MergeInv

(* The others are taken whole.                                             *)
LEMMA NextReportKeeps ==
  ASSUME NEW t \in Tests, MergeInv, MergeReport(t), Read # {}
  PROVE  MergeInv'
<1> USE FleetAssumption, HeaderAssumption
<1> DEFINE rows == tmp[t]
           n == Len(rows)
           m == Len(merged)
           T == Rows \cup {Header}
<1>1. /\ phase = "merge" /\ phase' = "merge" /\ tmp' = tmp /\ left' = left \ {t} /\ t \in left
      /\ merged # <<>> /\ merged[1] = Header
      /\ merged' = merged \o Kept(<<Header>> \o rows, TRUE)
  BY DEF MergeReport, MergeInv
<1>2. /\ t \in Zips(tmp) /\ left \subseteq Zips(tmp) /\ tmp \in [Tests -> Seq(Rows)]
      /\ Zips(tmp)' = Zips(tmp) /\ Zips(tmp) \subseteq Tests /\ merged \in Seq(T)
      /\ IsInjective(merged)
  BY <1>1 DEF MergeInv, Zips
<1>3. \A u \in Zips(tmp) : IsZip(tmp[u], u)
  BY DEF MergeInv
<1>4. /\ rows \in Seq(Rows) /\ rows # <<>> /\ n \in Nat \ {0}
      /\ \A i \in 1 .. n : rows[i].test = t /\ rows[i].idx = i /\ rows[i] \in Rows
  BY <1>2, <1>3, ZipRows
<1>5. Read' = Read \cup {t} /\ t \notin Read /\ Read \subseteq Zips(tmp)
  BY <1>1, <1>2 DEF Read
<1>6. \A j \in DOMAIN merged :
        merged[j] = Header \/ \E u \in Read : \E i \in DOMAIN tmp[u] : merged[j] = tmp[u][i]
  BY <1>1 DEF MergeInv
<1>7. PICK f \in Read : \A u \in Read : \A i \in DOMAIN tmp[u] : InMerge(u, i) \/ (u = f /\ i = 1)
  BY <1>1 DEF MergeInv
<1>8. \A u \in Read : \A i \in DOMAIN tmp[u] : tmp[u][i].test = u
  <2> SUFFICES ASSUME NEW u \in Read, NEW i \in DOMAIN tmp[u] PROVE tmp[u][i].test = u
    OBVIOUS
  <2> DEFINE r == tmp[u]
  <2>1. u \in Tests /\ IsZip(r, u)
    BY <1>2, <1>3, <1>5
  <2> HIDE DEF r
  <2>2. r \in Seq(Rows) /\ \A k \in 1 .. Len(r) : r[k].test = u
    BY <2>1, ZipRows
  <2>3. DOMAIN r = 1 .. Len(r)
    BY <2>2
  <2> QED BY <2>2, <2>3 DEF r
<1> HIDE DEF rows
<1>9. merged' = merged \o rows
  BY <1>1, <1>4, WhatIsKept
<1>10. /\ merged' \in Seq(T) /\ m \in Nat \ {0} /\ Len(merged') = m + n
       /\ DOMAIN merged' = 1 .. m + n /\ DOMAIN merged = 1 .. m /\ DOMAIN rows = 1 .. n
       /\ \A j \in 1 .. m : merged'[j] = merged[j] /\ j \in 1 .. m + n
       /\ \A i \in 1 .. n : merged'[m + i] = rows[i] /\ m + i \in 1 .. m + n
       /\ \A j \in 1 .. m + n : j \in 1 .. m \/ (j - m \in 1 .. n /\ merged'[j] = rows[j - m])
  <2>1. rows \in Seq(T)
    BY <1>4
  <2>2. m \in Nat \ {0}
    BY <1>1, <1>2
  <2> QED BY <1>2, <1>9, <2>1, <2>2, Appends
<1>11. IsInjective(merged')
  <2>1. \A i \in 1 .. m, j \in 1 .. n : merged[i] # rows[j]
    <3> SUFFICES ASSUME NEW i \in 1 .. m, NEW j \in 1 .. n PROVE merged[i] # rows[j]
      OBVIOUS
    <3>1. rows[j].test = t /\ rows[j] \in Rows
      BY <1>4
    <3>2. merged[i] = Header \/ \E u \in Read : merged[i].test = u
      BY <1>6, <1>8, <1>10
    <3> QED BY <1>5, <3>1, <3>2
  <2>2. \A i, j \in 1 .. n : rows[i] = rows[j] => i = j
    <3> SUFFICES ASSUME NEW i \in 1 .. n, NEW j \in 1 .. n, rows[i] = rows[j] PROVE i = j
      OBVIOUS
    <3>1. rows[i].idx = i /\ rows[j].idx = j
      BY <1>4
    <3> QED BY <3>1
  <2>3. rows \in Seq(T)
    BY <1>4
  <2> QED BY <1>2, <1>9, <2>1, <2>2, <2>3, AppendsInjectively
<1>12. \A j \in DOMAIN merged' :
         merged'[j] = Header \/ \E u \in Read' : \E i \in DOMAIN tmp'[u] : merged'[j] = tmp'[u][i]
  <2> SUFFICES ASSUME NEW j \in 1 .. m + n, merged'[j] # Header
               PROVE  \E u \in Read' : \E i \in DOMAIN tmp'[u] : merged'[j] = tmp'[u][i]
    BY <1>10
  <2>1. CASE j \in 1 .. m
    <3>1. \E u \in Read : \E i \in DOMAIN tmp[u] : merged[j] = tmp[u][i]
      BY <1>6, <1>10, <2>1
    <3> QED BY <1>1, <1>5, <1>10, <2>1, <3>1
  <2>2. CASE j \notin 1 .. m
    <3>1. j - m \in DOMAIN rows /\ merged'[j] = rows[j - m]
      BY <1>10, <2>2
    <3> QED BY <1>1, <1>5, <3>1 DEF rows
  <2> QED BY <2>1, <2>2
<1>13. ASSUME NEW u \in Read', NEW i \in DOMAIN tmp'[u]
       PROVE  InMerge(u, i)' \/ (u = f /\ i = 1)
  <2>1. CASE u = t
    <3>1. i \in 1 .. n /\ m + i \in DOMAIN merged' /\ merged'[m + i] = tmp'[t][i]
      BY <1>1, <1>10, <1>13, <2>1 DEF rows
    <3> QED BY <2>1, <3>1 DEF InMerge
  <2>2. CASE u # t
    <3>1. u \in Read /\ i \in DOMAIN tmp[u]
      BY <1>1, <1>5, <1>13, <2>2
    <3>2. CASE InMerge(u, i)
      <4>1. PICK j \in 1 .. m : merged[j] = tmp[u][i]
        BY <1>10, <3>2 DEF InMerge
      <4>2. j \in DOMAIN merged' /\ merged'[j] = tmp'[u][i]
        BY <1>1, <1>10, <4>1
      <4> QED BY <4>2 DEF InMerge
    <3> QED BY <1>7, <3>1, <3>2
  <2> QED BY <2>1, <2>2
<1>14. tmp' \in [Tests -> Seq(Rows)] /\ \A u \in Zips(tmp)' : IsZip(tmp[u], u)'
  BY <1>1, <1>2, <1>3 DEF IsZip
<1>15. left' \subseteq Zips(tmp)' /\ Read' # {} /\ f \in Read'
  BY <1>1, <1>2, <1>5
<1>16. merged' # <<>> /\ merged'[1] = Header
  <2>1. 1 \in 1 .. m
    BY <1>10
  <2>2. merged'[1] = merged[1] /\ 1 \in DOMAIN merged'
    BY <1>10, <2>1
  <2>3. DOMAIN merged' # {}
    BY <2>2
  <2>4. merged' # <<>>
    BY <2>3
  <2> QED BY <1>1, <2>2, <2>4
<1> QED BY <1>1, <1>10, <1>11, <1>12, <1>13, <1>14, <1>15, <1>16 DEF MergeInv

(* What aws sync adds to tmp-aws, and the start of a merge.                *)
LEMMA SyncKeeps == ASSUME IInv, MergeInv, Sync PROVE MergeInv'
<1> USE FleetAssumption
<1>1. ASSUME NEW t \in Tests
      PROVE  /\ tmp'[t] \in Seq(Rows)
             /\ tmp'[t] # <<>> => IsZip(tmp'[t], t)
  <2>1. tmp'[t] = tmp[t] \/ (tmp'[t] = s3[t] /\ s3[t] # <<>>)
    BY DEF Sync
  <2>2. tmp[t] \in Seq(Rows) /\ (tmp[t] # <<>> => IsZip(tmp[t], t))
    BY DEF MergeInv, Zips
  <2>3. s3[t] # <<>> => s3[t] \in Seq(Rows) /\ IsZip(s3[t], t)
    BY DEF IInv, Types, Uploads, IsReport, IsZip
  <2> QED BY <2>1, <2>2, <2>3
<1>2. tmp' \in [Tests -> Seq(Rows)]
  <2>1. tmp' = [u \in Tests |-> tmp'[u]]
    BY DEF Sync, MergeInv
  <2> QED BY <1>1, <2>1
<1>3. \A t \in Zips(tmp)' : IsZip(tmp[t], t)'
  BY <1>1 DEF Zips, IsZip
<1>4. merged' = <<>> /\ phase' # "merged" /\ (phase' = "merge" => left' = Zips(tmp)')
  BY DEF Sync, Zips
<1>5. merged' \in Seq(Rows \cup {Header}) /\ DOMAIN merged' = {} /\ IsInjective(merged')
  BY <1>4 DEF IsInjective
<1>6. phase' = "merge" => Read' = {} /\ left' \subseteq Zips(tmp)'
  BY <1>4 DEF Read
<1> QED BY <1>2, <1>3, <1>4, <1>5, <1>6 DEF MergeInv

(* All other steps.                                                        *)
LEMMA MergeStepsKeep == IInv /\ MergeInv /\ [Next]_vars => MergeInv'
<1> SUFFICES ASSUME IInv, MergeInv, [Next]_vars PROVE MergeInv'
  OBVIOUS
<1>1. CASE Sync
  BY <1>1, SyncKeeps
<1>2. ASSUME NEW t \in Tests, MergeReport(t) PROVE MergeInv'
  BY <1>2, FirstReportKeeps, NextReportKeeps
<1>3. CASE CleanUp
  <2>1. /\ phase' = "done" /\ tmp' \in {[t \in Tests |-> <<>>], tmp}
    BY <1>3 DEF CleanUp
  <2>2. CASE tmp' = tmp
    BY <2>1, <2>2 DEF MergeInv, Zips, IsZip
  <2>3. CASE tmp' = [t \in Tests |-> <<>>]
    BY <2>1, <2>3 DEF MergeInv, Zips, IsZip
  <2> QED BY <2>1, <2>2, <2>3
<1>4. CASE Interrupt
  BY <1>4 DEF Interrupt, MergeInv, Zips, IsZip
<1>5. CASE Merged
  BY <1>5 DEF Merged, merge, MergeInv, Zips, IsZip, Read, InMerge
<1>6. CASE \/ \E n \in Nodes : CopyFlakeRake(n) \/ InstallFlakeRake(n) \/ Experiment(n)
           \/ \E n \in Nodes, t \in Tests : StartJob(n, t)
           \/ Installed \/ CheckNodes \/ ParallelEnds \/ UNCHANGED vars
  <2>1. /\ UNCHANGED merge
        /\ phase' = phase \/ phase' \notin {"merge", "merged"}
    BY <1>6 DEF CopyFlakeRake, InstallFlakeRake, Experiment, Clean, Clone, RunDriver, Upload,
                JobFails, FailWith, Works, GoesTo, StartJob, Installed, CheckNodes,
                ParallelEnds, vars
  <2> QED BY <2>1 DEF merge, MergeInv, Zips, IsZip, Read, InMerge
<1> QED BY <1>1, <1>2, <1>3, <1>4, <1>5, <1>6 DEF Next

(* What tmp-aws has from before are reports, too.                          *)
LEMMA MergeInitially == Init => MergeInv
<1> SUFFICES ASSUME Init PROVE MergeInv
  OBVIOUS
<1> USE FleetAssumption
<1>1. ASSUME NEW t \in Tests
      PROVE  tmp[t] \in Seq(Rows) /\ (tmp[t] # <<>> => IsZip(tmp[t], t))
  <2>1. IsZip(Report(t, "before", 1), t)
    BY DEF IsZip
  <2>2. Report(t, "before", 1) \in Seq(Rows)
    BY <2>1, ZipRows
  <2> QED BY <2>1, <2>2 DEF Init
<1>2. tmp \in [Tests -> Seq(Rows)]
  <2>1. tmp = [u \in Tests |-> tmp[u]]
    BY DEF Init
  <2> QED BY <1>1, <2>1
<1> QED BY <1>1, <1>2 DEF Init, MergeInv, Zips

(* However the study went, and also when the merge was broken off and      *)
(* repeated: the merged report has its header first, no line twice, and    *)
(* lacks one row at most.                                                  *)
THEOREM ReportsAreMergedOnce == Spec => []MergedOnce
<1>1. MergeInv => MergedOnce
  <2> USE FleetAssumption, HeaderAssumption
  <2> SUFFICES ASSUME MergeInv, phase = "merged" PROVE MergedOnce
    BY DEF MergedOnce
  <2> DEFINE rows == UNION {Range(tmp[t]) : t \in Tests}
             lost == rows \ Range(merged)
  <2>1. Read = Zips(tmp) /\ IsInjective(merged)
    BY DEF MergeInv, Read
  <2>2. ASSUME NEW r \in rows PROVE \E t \in Read : \E i \in DOMAIN tmp[t] : r = tmp[t][i]
    <3>1. PICK t \in Tests : r \in Range(tmp[t])
      OBVIOUS
    <3>2. PICK i \in DOMAIN tmp[t] : r = tmp[t][i]
      BY <3>1 DEF Range
    <3>3. tmp[t] # <<>>
      BY <3>2
    <3> QED BY <2>1, <3>2, <3>3 DEF Zips
  <2>3. rows # {} => merged[1] = Header
    BY <2>2 DEF MergeInv
  <2>4. CASE Read = {}
    <3>1. lost = {}
      BY <2>2, <2>4
    <3>2. Cardinality(lost) <= 1
      BY <3>1, FS_EmptySet
    <3> HIDE DEF lost, rows
    <3> QED BY <2>1, <2>3, <3>1, <3>2 DEF MergedOnce, lost, rows
  <2>5. CASE Read # {}
    <3>1. PICK f \in Read : \A t \in Read : \A i \in DOMAIN tmp[t] :
            InMerge(t, i) \/ (t = f /\ i = 1)
      BY <2>5 DEF MergeInv
    <3>2. \A r \in lost : r = tmp[f][1]
      BY <2>2, <3>1 DEF InMerge, Range
    <3>3. tmp[f][1].idx = 1
      <4> DEFINE z == tmp[f]
      <4>1. f \in Tests /\ IsZip(z, f)
        BY <2>1 DEF MergeInv, Zips
      <4> HIDE DEF z
      <4>2. Len(z) \in 1 .. MaxRows /\ \A i \in 1 .. Len(z) : z[i].idx = i
        BY <4>1, ZipRows
      <4> QED BY <4>2 DEF z
    <3>4. Cardinality(lost) <= 1
      <4>1. lost = {} \/ lost = {tmp[f][1]}
        BY <3>2
      <4> HIDE DEF lost
      <4>2. Cardinality({}) = 0 /\ Cardinality({tmp[f][1]}) = 1
        BY FS_EmptySet, FS_Singleton
      <4> QED BY <4>1, <4>2
    <3> HIDE DEF lost, rows
    <3> QED BY <2>1, <2>3, <3>2, <3>3, <3>4 DEF MergedOnce, lost, rows
  <2> QED BY <2>4, <2>5
<1>2. Init => IInv /\ MergeInv
  BY Initially, MergeInitially
<1>3. IInv /\ MergeInv /\ [Next]_vars => (IInv /\ MergeInv)'
  BY StepsKeep, MergeStepsKeep
<1> QED BY <1>1, <1>2, <1>3, PTL DEF Spec
=============================================================================
