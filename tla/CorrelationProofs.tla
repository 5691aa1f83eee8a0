-------------------------- MODULE CorrelationProofs --------------------------
(***************************************************************************)
(* The cache of correlate_flaky_aws.py, for every number of logs and       *)
(* prefixes, and calls, kills and clean-ups in any order, and              *)
(* compare_stack_traces.py, for traces of any length.                      *)
(***************************************************************************)
EXTENDS Correlation, TLAPS, SequenceTheorems, FiniteSetTheorems,
        WellFoundedInduction

KeyPrefixes == 1 .. NumPrefixes

(* p is the prefix to look under: the first one that has the log, not      *)
(* counting those it failed to come from.                                  *)
AllBeforeFailed(p, l) == \A q \in bucket[l] : q < p => <<l, q>> \in misled
IsFirst(p, l) == p \in bucket[l] /\ AllBeforeFailed(p, l)

(* Archives, directories and the answer are from the first prefix.         *)
FirstOnes ==
  /\ \A l \in Logs : tgz[l] # Absent => IsFirst(tgz[l], l)
  /\ \A l \in Logs : dir[l] # Absent => IsFirst(dir[l].from, l)
  /\ answer.from # Absent => IsFirst(answer.from, log)
  /\ pc = "download" => AllBeforeFailed(try, log)

(* Which directory is there, and which has the whole report.               *)
Directories ==
  /\ \A l \in Logs : dir[l] # Absent =>
       dir[l].report = "whole" \/ l \in cut \/ (pc = "extracting" /\ log = l)
  /\ pc \in {"extracting", "find", "rmdir"} => dir[log] # Absent

(* What is in the answer at each step of a call.                           *)
Answers ==
  /\ DOMAIN answer = {"outcome", "from", "whole", "report", "trace"}
  /\ pc \in {"download", "extract", "extracting", "find"} => answer = NoAnswer
  /\ pc \in {"rmdir", "wipe", "parse"} => answer.outcome = "text"
  /\ answer.outcome = "raised" => log \in cut \/ tgz[log] = Absent
  /\ answer.whole # TRUE => log \in cut /\ answer.outcome = "text"

IInv == TypeOK /\ FirstOnes /\ Directories /\ Answers

-----------------------------------------------------------------------------
(* A directory keeps its origin, whatever happens to what is in it.        *)
LEMMA DirFields ==
  ASSUME NEW d \in Dirs, d # Absent, NEW s \in {"none", "cut", "whole"}
  PROVE  /\ d.from \in KeyPrefixes
         /\ [d EXCEPT !.report = s] \in Dirs
         /\ [d EXCEPT !.report = s] # Absent
         /\ [d EXCEPT !.report = s].from = d.from
         /\ [d EXCEPT !.report = s].report = s
BY CorrelationAssumption DEF Dirs, KeyPrefixes

(* A new directory is one.                                                 *)
LEMMA NewDir ==
  ASSUME NEW p \in KeyPrefixes, NEW s \in {"none", "cut", "whole"}
  PROVE  /\ [from |-> p, report |-> s] \in Dirs
         /\ [from |-> p, report |-> s] # Absent
         /\ [from |-> p, report |-> s].from = p
<1>1. [from |-> p, report |-> s] \in [from : 1 .. NumPrefixes, report : {"none", "cut", "whole"}]
  BY DEF KeyPrefixes
<1> QED BY <1>1, CorrelationAssumption DEF Dirs

(* What is known of the answer of a call that has none yet, or raises.     *)
LEMMA Blank ==
  /\ DOMAIN NoAnswer = {"outcome", "from", "whole", "report", "trace"}
  /\ NoAnswer.outcome = "none" /\ NoAnswer.from = Absent /\ NoAnswer.whole = TRUE
  /\ DOMAIN Raised = {"outcome", "from", "whole", "report", "trace"}
  /\ Raised.outcome = "raised" /\ Raised.from = Absent /\ Raised.whole = TRUE
BY DEF NoAnswer, Raised

(* The state before any call.                                              *)
LEMMA Initially == Init => IInv
<1> SUFFICES ASSUME Init PROVE IInv
  OBVIOUS
<1> USE CorrelationAssumption DEF Init
<1>1. cleanup \in BOOLEAN /\ abstract \in BOOLEAN /\ bucket \in [Logs -> SUBSET KeyPrefixes]
  BY DEF KeyPrefixes
<1>2. TypeOK
  BY <1>1 DEF TypeOK, KeyPrefixes, Dirs
<1>3. FirstOnes /\ Directories /\ Answers
  BY Blank DEF FirstOnes, Directories, Answers
<1> QED BY <1>2, <1>3 DEF IInv

(* aws_tgz_getter.  What befell a log is forgotten with the log.           *)
LEMMA CallKeeps == ASSUME NEW l \in Logs, IInv, Call(l) PROVE IInv'
<1> USE CorrelationAssumption DEF IInv, Call, cache, compare
<1>1. TypeOK'
  <2>1. cleanup' \in BOOLEAN /\ abstract' \in BOOLEAN
    OBVIOUS
  <2>2. try' \in 1 .. NumPrefixes + 1 /\ log' \in Logs
    OBVIOUS
  <2>3. pc' \in {"download", "extract"}
    OBVIOUS
  <2> QED BY <2>1, <2>2, <2>3 DEF TypeOK
<1>2. FirstOnes'
  <2>1. \A q \in bucket[l] : ~ q < 1
    BY DEF TypeOK
  <2>2. \A k \in Logs, q \in KeyPrefixes :
          tgz[k] # Absent \/ dir[k] # Absent => (<<k, q>> \in misled' <=> <<k, q>> \in misled)
    OBVIOUS
  <2>3. answer'.from = Absent
    BY Blank
  <2>4. \A k \in Logs : bucket[k] \subseteq KeyPrefixes
    BY DEF TypeOK, KeyPrefixes
  <2> QED BY <2>1, <2>2, <2>3, <2>4 DEF FirstOnes, IsFirst, AllBeforeFailed
<1>3. Directories'
  BY DEF Directories
<1>4. Answers'
  BY Blank DEF Answers
<1> QED BY <1>1, <1>2, <1>3, <1>4

(* One prefix is tried; if it is passed over with the log there, this is   *)
(* noted in misled.                                                        *)
LEMMA DownloadKeeps == IInv /\ Download => IInv'
<1> SUFFICES ASSUME IInv, Download PROVE IInv'
  OBVIOUS
<1> USE CorrelationAssumption DEF IInv, args, compare
<1>1. /\ pc = "download" /\ try \in KeyPrefixes /\ log \in Logs
      /\ UNCHANGED <<bucket, args, dir, answer, cut>>
  BY DEF Download, TypeOK, KeyPrefixes
<1>2. Answers'
  <2>1. pc' \in {"download", "extract"} /\ answer = NoAnswer
    BY <1>1 DEF Download, Answers
  <2> QED BY <1>1, <2>1, Blank DEF Answers
<1>3. CASE /\ try \in bucket[log] /\ tgz' = [tgz EXCEPT ![log] = try]
           /\ pc' = "extract" /\ UNCHANGED <<try, misled>>
  <2>1. TypeOK'
    BY <1>1, <1>3 DEF TypeOK, KeyPrefixes
  <2>2. IsFirst(try, log)
    BY <1>1, <1>3 DEF FirstOnes, IsFirst, AllBeforeFailed
  <2>3. FirstOnes'
    BY <1>1, <1>3, <2>2 DEF FirstOnes, IsFirst, AllBeforeFailed, TypeOK
  <2>4. Directories'
    BY <1>1, <1>3 DEF Directories
  <2> QED BY <1>2, <2>1, <2>3, <2>4
<1>4. CASE /\ misled' = (IF try \in bucket[log] THEN misled \cup {<<log, try>>} ELSE misled)
           /\ try' = try + 1 /\ UNCHANGED <<pc, tgz>>
  <2>1. TypeOK'
    BY <1>1, <1>4 DEF TypeOK, KeyPrefixes
  <2>2. misled \subseteq misled'
    BY <1>4
  <2>3. \A q \in bucket[log] : q < try + 1 => <<log, q>> \in misled'
    <3> SUFFICES ASSUME NEW q \in bucket[log], q < try + 1 PROVE <<log, q>> \in misled'
      OBVIOUS
    <3>1. q \in Nat /\ try \in Nat
      BY <1>1 DEF TypeOK, KeyPrefixes
    <3>2. CASE q = try
      BY <1>4, <3>2
    <3>3. CASE q < try
      BY <1>1, <2>2, <3>3 DEF FirstOnes, AllBeforeFailed
    <3> QED BY <3>1, <3>2, <3>3
  <2>4. FirstOnes'
    BY <1>1, <1>4, <2>2, <2>3 DEF FirstOnes, IsFirst, AllBeforeFailed
  <2>5. Directories'
    BY <1>1, <1>4 DEF Directories
  <2> QED BY <1>2, <2>1, <2>4, <2>5
<1> QED BY <1>3, <1>4 DEF Download

(* All prefixes were tried.                                                *)
LEMMA NoMorePrefixKeeps == IInv /\ NoMorePrefix => IInv'
<1> SUFFICES ASSUME IInv, NoMorePrefix PROVE IInv'
  OBVIOUS
<1> USE DEF IInv, NoMorePrefix, args, cache, past, compare
<1> QED BY DEF TypeOK, FirstOnes, IsFirst, AllBeforeFailed, Directories, Answers

-----------------------------------------------------------------------------
(* get_test_result_xml.                                                    *)
LEMMA ExtractKeeps == IInv /\ Extract => IInv'
<1> SUFFICES ASSUME IInv, Extract PROVE IInv'
  OBVIOUS
<1> USE CorrelationAssumption DEF IInv, args, compare
<1>1. /\ pc = "extract" /\ log \in Logs /\ answer = NoAnswer
      /\ UNCHANGED <<bucket, args, try, tgz, misled>>
  BY DEF Extract, TypeOK, Answers
<1>2. CASE dir[log] # Absent /\ pc' = "find" /\ UNCHANGED <<dir, cut, answer>>
  BY <1>1, <1>2 DEF TypeOK, FirstOnes, IsFirst, AllBeforeFailed, Directories, Answers
<1>3. CASE /\ dir[log] = Absent /\ tgz[log] = Absent
           /\ pc' = "idle" /\ answer' = Raised /\ UNCHANGED <<dir, cut>>
  BY <1>1, <1>3, Blank DEF TypeOK, FirstOnes, IsFirst, AllBeforeFailed, Directories, Answers
<1>4. CASE /\ dir[log] = Absent /\ tgz[log] # Absent
           /\ pc' = "extracting" /\ cut' = cut \ {log}
           /\ dir' = [dir EXCEPT ![log] = [from |-> tgz[log], report |-> "none"]]
           /\ UNCHANGED answer
  <2> DEFINE new == [from |-> tgz[log], report |-> "none"]
  <2>1. new \in Dirs /\ new # Absent /\ new.from = tgz[log]
    <3>1. tgz[log] \in KeyPrefixes
      BY <1>1, <1>4 DEF TypeOK, KeyPrefixes
    <3> QED BY <3>1, NewDir
  <2>2. TypeOK'
    BY <1>1, <1>4, <2>1 DEF TypeOK
  <2>3. dir'[log] = new /\ \A l \in Logs : l # log => dir'[l] = dir[l]
    BY <1>1, <1>4 DEF TypeOK
  <2> HIDE DEF new
  <2>4. FirstOnes' /\ Directories'
    BY <1>1, <1>4, <2>1, <2>3 DEF FirstOnes, IsFirst, AllBeforeFailed, Directories
  <2>5. Answers'
    BY <1>1, <1>4, Blank DEF Answers
  <2> QED BY <2>2, <2>4, <2>5
<1> QED BY <1>2, <1>3, <1>4 DEF Extract

(* The directory of the log is filled.                                     *)
LEMMA ExtractMoreKeeps == IInv /\ ExtractMore => IInv'
<1> SUFFICES ASSUME IInv, ExtractMore PROVE IInv'
  OBVIOUS
<1> USE CorrelationAssumption DEF IInv, args, past, compare
<1>1. /\ pc = "extracting" /\ log \in Logs /\ dir[log] \in Dirs /\ dir[log] # Absent
      /\ UNCHANGED <<bucket, args, try, tgz, answer, misled, cut>>
  BY DEF ExtractMore, TypeOK, Directories
<1>2. PICK s \in {"cut", "whole"} :
        /\ dir' = [dir EXCEPT ![log].report = s]
        /\ IF s = "cut" THEN pc' = pc ELSE pc' = "find"
  BY DEF ExtractMore
<1>3. /\ dir'[log] \in Dirs /\ dir'[log] # Absent
      /\ dir'[log].from = dir[log].from /\ dir'[log].report = s
  <2>1. dir'[log] = [dir[log] EXCEPT !.report = s]
    BY <1>1, <1>2 DEF TypeOK
  <2>2. s \in {"none", "cut", "whole"}
    BY <1>2
  <2>3. \A d \in Dirs : d # Absent =>
          /\ [d EXCEPT !.report = s] \in Dirs /\ [d EXCEPT !.report = s] # Absent
          /\ [d EXCEPT !.report = s].from = d.from /\ [d EXCEPT !.report = s].report = s
    BY <2>2, DirFields
  <2> QED BY <1>1, <2>1, <2>3, Zenon
<1>4. \A l \in Logs : l # log => dir'[l] = dir[l]
  BY <1>2 DEF TypeOK
<1>5. dir' \in [Logs -> Dirs]
  BY <1>1, <1>2, <1>3 DEF TypeOK
<1>6. TypeOK'
  BY <1>1, <1>2, <1>5 DEF TypeOK
<1>7. FirstOnes'
  BY <1>1, <1>2, <1>3, <1>4 DEF FirstOnes, IsFirst, AllBeforeFailed
<1>8. Directories'
  BY <1>1, <1>2, <1>3, <1>4 DEF Directories
<1>9. Answers'
  BY <1>1, <1>2 DEF Answers
<1> QED BY <1>6, <1>7, <1>8, <1>9

(* The extraction breaks off, and what it has written stays.               *)
LEMMA ExtractRaisesKeeps == IInv /\ ExtractRaises => IInv'
<1> SUFFICES ASSUME IInv, ExtractRaises PROVE IInv'
  OBVIOUS
<1> USE CorrelationAssumption DEF IInv, ExtractRaises, args, cache, compare
<1>1. TypeOK'
  BY DEF TypeOK
<1>2. FirstOnes' /\ Directories' /\ Answers'
  BY Blank DEF FirstOnes, IsFirst, AllBeforeFailed, Directories, Answers
<1> QED BY <1>1, <1>2

(* A directory that has no report, or not the whole of it, was broken.     *)
LEMMA FindKeeps == ASSUME NEW cases, IInv, Find(cases) PROVE IInv'
<1> USE CorrelationAssumption DEF IInv, args, cache, past, compare
<1>1. /\ pc = "find" /\ log \in Logs /\ dir[log] # Absent
      /\ dir[log].report # "whole" => log \in cut
      /\ UNCHANGED <<bucket, args, try, tgz, dir, misled, cut>>
  BY DEF Find, TypeOK, Directories
<1>2. pc' \in {"idle", "rmdir", "parse"}
  BY DEF Find, Then
<1>3. TypeOK' /\ Directories'
  BY <1>1, <1>2 DEF TypeOK, Directories
<1>4. CASE dir[log].report = "none"
  <2>1. pc' = "idle" /\ answer' = Raised
    BY <1>4 DEF Find
  <2> QED BY <1>1, <1>3, <1>4, <2>1, Blank DEF FirstOnes, IsFirst, AllBeforeFailed, Answers
<1>5. CASE dir[log].report # "none"
  <2>1. answer' = [NoAnswer EXCEPT !.outcome = "text", !.from = dir[log].from,
                     !.whole = (dir[log].report = "whole"), !.report = cases]
    BY <1>5 DEF Find
  <2>2. /\ answer'.outcome = "text" /\ answer'.from = dir[log].from
        /\ answer'.whole = (dir[log].report = "whole")
        /\ DOMAIN answer' = {"outcome", "from", "whole", "report", "trace"}
    BY <2>1 DEF NoAnswer
  <2>3. FirstOnes'
    BY <1>1, <1>2, <2>2 DEF FirstOnes, IsFirst, AllBeforeFailed
  <2>4. Answers'
    BY <1>1, <1>2, <2>2 DEF Answers
  <2> QED BY <1>3, <2>3, <2>4
<1> QED BY <1>4, <1>5

(* The cache is emptied.                                                   *)
LEMMA CleanUpKeeps == IInv /\ (RemoveDir \/ Wipe) => IInv'
<1> SUFFICES ASSUME IInv, RemoveDir \/ Wipe PROVE IInv'
  OBVIOUS
<1> USE CorrelationAssumption DEF IInv, RemoveDir, Wipe, Then, args, past, compare
<1>1. /\ tgz' \in [Logs -> KeyPrefixes \cup {Absent}] /\ dir' \in [Logs -> Dirs]
      /\ pc' \in {"wipe", "parse", "idle"}
      /\ UNCHANGED <<bucket, args, try, answer, misled, cut>>
  BY DEF TypeOK, KeyPrefixes, Dirs
<1>2. \A l \in Logs : tgz'[l] \in {tgz[l], Absent} /\ dir'[l] \in {dir[l], Absent}
  BY DEF TypeOK
<1>3. pc \in {"rmdir", "wipe"}
  OBVIOUS
<1> HIDE DEF RemoveDir, Wipe, Then
<1>4. TypeOK'
  BY <1>1 DEF TypeOK, KeyPrefixes
<1>5. FirstOnes' /\ Directories'
  BY <1>1, <1>2, <1>3 DEF FirstOnes, IsFirst, AllBeforeFailed, Directories
<1>6. Answers'
  <2>1. answer.outcome = "text"
    BY <1>3 DEF Answers
  <2> QED BY <1>1, <1>3, <2>1 DEF Answers
<1> QED BY <1>4, <1>5, <1>6

(* The report is parsed, if it is whole.                                   *)
LEMMA ParseReportKeeps == IInv /\ ParseReport => IInv'
<1> SUFFICES ASSUME IInv, ParseReport PROVE IInv'
  OBVIOUS
<1> USE CorrelationAssumption DEF IInv, args, cache, past, compare
<1>1. pc = "parse" /\ pc' = "idle" /\ UNCHANGED <<bucket, args, try, tgz, dir, misled, cut>>
  BY DEF ParseReport
<1>2. TypeOK' /\ Directories'
  BY <1>1 DEF TypeOK, Directories
<1>3. CASE answer.whole = TRUE
  <2>1. answer' = [answer EXCEPT !.outcome = "trace", !.trace = Parse(answer.report)]
    BY <1>3 DEF ParseReport
  <2>2. /\ answer'.outcome = "trace" /\ answer'.from = answer.from
        /\ answer'.whole = answer.whole /\ DOMAIN answer' = DOMAIN answer
    BY <2>1 DEF Answers
  <2> QED BY <1>1, <1>2, <1>3, <2>2 DEF FirstOnes, IsFirst, AllBeforeFailed, Answers
<1>4. CASE answer.whole # TRUE
  <2>1. answer' \in {Raised, [answer EXCEPT !.outcome = "trace", !.trace = Parse(answer.report)]}
    BY DEF ParseReport
  <2>2. log \in cut
    BY <1>4 DEF Answers
  <2>3. answer' = Raised
    BY <1>4 DEF ParseReport
  <2> QED BY <1>1, <1>2, <2>2, <2>3, Blank DEF FirstOnes, IsFirst, AllBeforeFailed, Answers
<1> QED BY <1>3, <1>4

-----------------------------------------------------------------------------
(* A kill leaves directories absent, as they were, or broken into.         *)
LEMMA KillKeeps == IInv /\ Kill => IInv'
<1> SUFFICES ASSUME IInv, Kill PROVE IInv'
  OBVIOUS
<1> USE CorrelationAssumption DEF IInv, args
<1>1. /\ pc' = "idle" /\ answer' = NoAnswer /\ log \in Logs
      /\ UNCHANGED <<bucket, args, try, misled>>
  BY DEF Kill, TypeOK
<1>2. /\ cut' \subseteq Logs /\ cut \subseteq cut'
      /\ tgz' \in [Logs -> KeyPrefixes \cup {Absent}]
      /\ \A l \in Logs : tgz'[l] \in {tgz[l], Absent}
      /\ dir' \in [Logs -> Dirs]
      /\ \A l \in Logs : dir'[l] # Absent =>
           /\ dir[l] # Absent /\ dir'[l].from = dir[l].from
           /\ dir'[l] = dir[l] \/ l \in cut'
      /\ pc = "extracting" => log \in cut'
  <2>1. CASE pc \notin {"rmdir", "wipe"}
    BY <1>1, <2>1 DEF Kill, cache, TypeOK, KeyPrefixes
  <2>2. CASE pc = "rmdir"
    <3>1. cut' = cut \cup {log} /\ tgz' = tgz
      BY <2>2 DEF Kill
    <3>2. CASE dir' = dir
      BY <1>1, <2>2, <3>1, <3>2 DEF TypeOK, KeyPrefixes
    <3>3. CASE dir' = [dir EXCEPT ![log].report = "none"]
      <4>1. dir[log] # Absent /\ dir[log] \in Dirs
        BY <1>1, <2>2 DEF TypeOK, Directories
      <4>2. /\ dir'[log] \in Dirs /\ dir'[log].from = dir[log].from
            /\ \A l \in Logs : l # log => dir'[l] = dir[l]
        BY <1>1, <3>3, <4>1, DirFields DEF TypeOK
      <4>3. dir' \in [Logs -> Dirs]
        BY <1>1, <3>3, <4>1, DirFields DEF TypeOK
      <4> QED BY <1>1, <2>2, <3>1, <3>3, <4>1, <4>2, <4>3 DEF TypeOK, KeyPrefixes
    <3> QED BY <2>2, <3>2, <3>3 DEF Kill
  <2>3. CASE pc = "wipe"
    <3>1. PICK gone \in SUBSET Logs :
            tgz' = [l \in Logs |-> IF l \in gone THEN Absent ELSE tgz[l]]
      BY <2>3 DEF Kill
    <3>2. PICK lost \in SUBSET Logs, broken \in SUBSET {l \in Logs : dir[l] # Absent} :
            /\ dir' = [l \in Logs |-> IF l \in broken THEN [dir[l] EXCEPT !.report = "none"]
                                      ELSE IF l \in lost THEN Absent ELSE dir[l]]
            /\ cut' = cut \cup broken
      BY <2>3 DEF Kill
    <3>3. ASSUME NEW l \in Logs
          PROVE  /\ dir'[l] \in Dirs
                 /\ dir'[l] # Absent => /\ dir[l] # Absent /\ dir'[l].from = dir[l].from
                                        /\ dir'[l] = dir[l] \/ l \in cut'
      <4>1. dir[l] \in Dirs
        BY DEF TypeOK
      <4>2. CASE l \in broken
        <5>1. dir'[l] = [dir[l] EXCEPT !.report = "none"] /\ dir[l] # Absent
          BY <3>2, <4>2
        <5> QED BY <3>2, <4>1, <4>2, <5>1, DirFields
      <4>3. CASE l \notin broken
        <5>1. dir'[l] = IF l \in lost THEN Absent ELSE dir[l]
          BY <3>2, <4>3
        <5> QED BY <4>1, <5>1 DEF Dirs
      <4> QED BY <4>2, <4>3
    <3>4. dir' \in [Logs -> Dirs]
      BY <3>2, <3>3
    <3>5. tgz' \in [Logs -> KeyPrefixes \cup {Absent}] /\ \A l \in Logs : tgz'[l] \in {tgz[l], Absent}
      BY <3>1 DEF TypeOK, KeyPrefixes
    <3>6. cut' \subseteq Logs /\ cut \subseteq cut'
      BY <3>2 DEF TypeOK
    <3> QED BY <2>3, <3>3, <3>4, <3>5, <3>6
  <2> QED BY <2>1, <2>2, <2>3
<1>3. TypeOK'
  BY <1>1, <1>2 DEF TypeOK, KeyPrefixes
<1>4. FirstOnes'
  BY <1>1, <1>2, Blank DEF FirstOnes, IsFirst, AllBeforeFailed
<1>5. Directories'
  BY <1>1, <1>2 DEF Directories
<1>6. Answers'
  BY <1>1, Blank DEF Answers
<1> QED BY <1>3, <1>4, <1>5, <1>6

(* Every step keeps the invariant; compare_stack_traces has no cache.      *)
LEMMA StepsKeep == IInv /\ [Next]_vars => IInv'
<1> SUFFICES ASSUME IInv, [Next]_vars PROVE IInv'
  OBVIOUS
<1>1. CASE CompareTraces
  <2>1. pc = "compare" /\ pc' = "compared" /\ UNCHANGED <<bucket, args, try, tgz, dir, answer, misled, cut>>
    BY <1>1 DEF CompareTraces, cache, past
  <2> QED BY <2>1 DEF args, IInv, TypeOK, FirstOnes, IsFirst, AllBeforeFailed, Directories, Answers
<1>2. CASE UNCHANGED vars
  BY <1>2 DEF vars, args, cache, past, compare, IInv, TypeOK, FirstOnes, IsFirst, AllBeforeFailed, Directories, Answers
<1> QED
  BY <1>1, <1>2, CallKeeps, DownloadKeeps, NoMorePrefixKeeps, ExtractKeeps, ExtractMoreKeeps,
     ExtractRaisesKeeps, FindKeeps, CleanUpKeeps, ParseReportKeeps, KillKeeps DEF Next

(* The inductive invariant: all that is cached or read is from the first   *)
(* prefix, and what is not whole was broken by an interruption.            *)
THEOREM CacheInvariant == Spec => []IInv
BY Initially, StepsKeep, PTL DEF Spec

(* What a call returns is of the log under the first prefix that has it,   *)
(* not counting those whose download failed.                               *)
THEOREM TheFirstPrefixAnswers == Spec => []FirstPrefixAnswers
<1>1. IInv => FirstPrefixAnswers
  BY DEF IInv, FirstOnes, IsFirst, AllBeforeFailed, FirstPrefixAnswers
<1> QED BY <1>1, CacheInvariant, PTL

(* A call raises, or returns half a report, only for want of an archive or *)
(* after an extraction or removal that broke off.                          *)
THEOREM OnlyBreaksSpoilAnswers == Spec => []OnlyBreaksSpoil
<1>1. IInv => OnlyBreaksSpoil
  <2> SUFFICES ASSUME IInv PROVE OnlyBreaksSpoil
    OBVIOUS
  <2>1. answer.outcome = "raised" => log \in cut \/ tgz[log] = Absent
    BY DEF IInv, Answers
  <2>2. ~ answer.whole => log \in cut /\ answer.outcome = "text"
    BY DEF IInv, Answers
  <2> QED BY <2>1, <2>2 DEF OnlyBreaksSpoil
<1> QED BY <1>1, CacheInvariant, PTL

-----------------------------------------------------------------------------
(* A set of naturals has a least element.                                  *)
LEMMA Least ==
  ASSUME NEW N, N \subseteq Nat, N # {}
  PROVE  \E k \in N : \A n \in N : k <= n
<1> DEFINE R == OpToRel(<, Nat)
<1>1. \A x, y \in Nat : x < y => <<x, y>> \in R
  BY DEF OpToRel
<1>2. IsWellFoundedOn(R, Nat)
  BY NatLessThanWellFounded
<1> HIDE DEF R
<1>3. PICK k \in N : \A n \in N : ~ (<<n, k>> \in R)
  BY <1>2, WFMin
<1>4. ASSUME NEW n \in N PROVE k <= n
  <2>1. n \in Nat /\ k \in Nat /\ ~ (n < k)
    BY <1>1, <1>3
  <2> QED BY <2>1
<1> QED BY <1>4

(* f is the function with f[0] = base, each value a step from the one      *)
(* before.                                                                 *)
Steps(f, base, step, n) ==
  f = [k \in 0 .. n |-> IF k = 0 THEN base ELSE step[k][f[k - 1]]]

(* Such a function exists, and its values are of the type the steps have.  *)
LEMMA Recursion ==
  ASSUME NEW S, NEW base \in S, NEW n \in Nat, NEW step,
         \A k \in 1 .. n : step[k] \in [S -> S]
  PROVE  \E f \in [0 .. n -> S] : Steps(f, base, step, n)
<1> DEFINE Bad == {m \in 0 .. n : ~ \E f \in [0 .. m -> S] : Steps(f, base, step, m)}
<1>1. SUFFICES ASSUME Bad # {} PROVE FALSE
  OBVIOUS
<1>2. PICK m \in Bad : \A k \in Bad : m <= k
  <2>1. Bad \subseteq Nat
    OBVIOUS
  <2> HIDE DEF Bad
  <2> QED BY <1>1, <2>1, Least
<1>3. CASE m = 0
  <2> DEFINE f == [k \in 0 .. 0 |-> base]
  <2>1. f \in [0 .. 0 -> S] /\ Steps(f, base, step, 0)
    BY DEF Steps
  <2> QED BY <1>2, <1>3, <2>1
<1>4. CASE m # 0
  <2>1. m - 1 \in 0 .. n /\ m - 1 \notin Bad /\ m \in 1 .. n
    BY <1>2, <1>4
  <2>2. PICK g \in [0 .. m - 1 -> S] : Steps(g, base, step, m - 1)
    BY <2>1
  <2> DEFINE f == [k \in 0 .. m |-> IF k = m THEN step[m][g[m - 1]] ELSE g[k]]
  <2>3. f \in [0 .. m -> S]
    <3>1. step[m][g[m - 1]] \in S
      BY <2>1
    <3> QED BY <2>1, <3>1
  <2>4. ASSUME NEW k \in 0 .. m PROVE f[k] = IF k = 0 THEN base ELSE step[k][f[k - 1]]
    <3>1. CASE k = m
      BY <2>1, <3>1
    <3>2. CASE k # m
      <4>1. k \in 0 .. m - 1
        BY <2>1, <3>2
      <4>2. g[k] = IF k = 0 THEN base ELSE step[k][g[k - 1]]
        BY <2>2, <4>1 DEF Steps
      <4> QED BY <2>1, <3>2, <4>1, <4>2
    <3> QED BY <3>1, <3>2
  <2>5. Steps(f, base, step, m)
    <3> HIDE DEF f
    <3>1. f = [k \in 0 .. m |-> f[k]]
      BY <2>3
    <3> QED BY <2>4, <3>1 DEF Steps
  <2> QED BY <1>2, <2>3, <2>5
<1> QED BY <1>3, <1>4

(* Two functions that begin alike, and go on alike.                        *)
StepAlike(f, g, n) ==
  /\ f[0] = g[0]
  /\ \A k \in 1 .. n : f[k - 1] = g[k - 1] => f[k] = g[k]

(* Two functions that begin alike and go on alike are alike.               *)
LEMMA Alike ==
  ASSUME NEW n \in Nat, NEW f, NEW g, StepAlike(f, g, n)
  PROVE  \A k \in 0 .. n : f[k] = g[k]
<1> USE DEF StepAlike
<1> DEFINE Bad == {k \in 0 .. n : f[k] # g[k]}
<1>1. SUFFICES ASSUME Bad # {} PROVE FALSE
  OBVIOUS
<1>2. PICK k \in Bad : \A j \in Bad : k <= j
  <2>1. Bad \subseteq Nat
    OBVIOUS
  <2> HIDE DEF Bad
  <2> QED BY <1>1, <2>1, Least
<1>3. k # 0
  BY <1>2
<1>4. k \in 1 .. n /\ k - 1 \notin Bad
  BY <1>2, <1>3
<1> QED BY <1>2, <1>4

-----------------------------------------------------------------------------
(* The characters of a list of parts, one part after the other.            *)
LEMMA WeightSteps ==
  ASSUME NEW s \in Seq(Parts)
  PROVE  \E f \in [0 .. Len(s) -> Nat] :
           /\ Weight(s) = f[Len(s)]
           /\ f[0] = 0
           /\ \A k \in 1 .. Len(s) : f[k] = f[k - 1] + Chars[s[k]]
<1> DEFINE step == [k \in 1 .. Len(s) |-> [v \in Nat |-> v + Chars[s[k]]]]
           Is(f) == f = [k \in 0 .. Len(s) |-> IF k = 0 THEN 0 ELSE f[k - 1] + Chars[s[k]]]
           F == CHOOSE f : Is(f)
<1>1. \A k \in 1 .. Len(s) : step[k] \in [Nat -> Nat]
  <2> TAKE k \in 1 .. Len(s)
  <2>1. Chars[s[k]] \in Nat
    BY StackTracesAssumption
  <2> QED BY <2>1
<1>2. Len(s) \in Nat
  OBVIOUS
<1>3. PICK f \in [0 .. Len(s) -> Nat] : Steps(f, 0, step, Len(s))
  <2> HIDE DEF step
  <2> QED BY <1>1, <1>2, Recursion
<1>4. \A k \in 1 .. Len(s) : f[k] = f[k - 1] + Chars[s[k]]
  <2> TAKE k \in 1 .. Len(s)
  <2>1. f[k - 1] \in Nat /\ k \in 0 .. Len(s) /\ k # 0
    OBVIOUS
  <2>2. f[k] = step[k][f[k - 1]]
    BY <1>3, <2>1 DEF Steps
  <2> QED BY <2>1, <2>2
<1>5. f[0] = 0
  BY <1>2, <1>3 DEF Steps
<1>6. Is(f)
  <2>1. f = [k \in 0 .. Len(s) |-> f[k]]
    OBVIOUS
  <2>2. \A k \in 0 .. Len(s) : f[k] = IF k = 0 THEN 0 ELSE f[k - 1] + Chars[s[k]]
    <3>1. \A k \in 0 .. Len(s) : k # 0 => k \in 1 .. Len(s)
      OBVIOUS
    <3> QED BY <1>4, <1>5, <3>1
  <2> QED BY <2>1, <2>2, Zenon
<1>7. Is(F)
  BY <1>6, Zenon
<1>8. Weight(s) = F[Len(s)]
  BY Zenon DEF Weight
<1> HIDE DEF F
<1>9. F[0] = 0
  BY <1>2, <1>7
<1>10. ASSUME NEW k \in 1 .. Len(s), F[k - 1] = f[k - 1] PROVE F[k] = f[k]
  <2>1. k \in 0 .. Len(s) /\ k # 0
    BY <1>2
  <2>2. F[k] = F[k - 1] + Chars[s[k]]
    BY <1>7, <2>1
  <2> QED BY <1>4, <1>10, <2>2
<1>11. StepAlike(F, f, Len(s))
  BY <1>5, <1>9, <1>10 DEF StepAlike
<1>12. F[Len(s)] = f[Len(s)]
  <2>1. Len(s) \in 0 .. Len(s)
    BY <1>2
  <2> QED BY <1>2, <1>11, <2>1, Alike
<1> QED BY <1>4, <1>5, <1>8, <1>12

(* A weight is a natural number.                                           *)
LEMMA WeightIsNat == ASSUME NEW s \in Seq(Parts) PROVE Weight(s) \in Nat
<1>1. Len(s) \in 0 .. Len(s)
  OBVIOUS
<1> QED BY <1>1, WeightSteps

(* A part more has its characters more.                                    *)
LEMMA WeightAppends ==
  ASSUME NEW s \in Seq(Parts), NEW x \in Parts
  PROVE  /\ Weight(<<>>) = 0 /\ Weight(s) \in Nat /\ Chars[x] \in Nat
         /\ Weight(Append(s, x)) = Weight(s) + Chars[x]
<1> DEFINE t == Append(s, x)
<1>1. Len(s) \in Nat /\ t \in Seq(Parts) /\ Len(t) = Len(s) + 1
      /\ t[Len(t)] = x /\ \A k \in 1 .. Len(s) : t[k] = s[k]
  OBVIOUS
<1>2. PICK f \in [0 .. Len(s) -> Nat] :
         /\ Weight(s) = f[Len(s)] /\ f[0] = 0
         /\ \A k \in 1 .. Len(s) : f[k] = f[k - 1] + Chars[s[k]]
  BY WeightSteps
<1> HIDE DEF t
<1>3. PICK g \in [0 .. Len(t) -> Nat] :
         /\ Weight(t) = g[Len(t)] /\ g[0] = 0
         /\ \A k \in 1 .. Len(t) : g[k] = g[k - 1] + Chars[t[k]]
  BY <1>1, WeightSteps
<1>4. \A k \in 0 .. Len(s) : f[k] = g[k]
  <2>1. ASSUME NEW k \in 1 .. Len(s), f[k - 1] = g[k - 1] PROVE f[k] = g[k]
    <3>1. k \in 1 .. Len(t) /\ t[k] = s[k]
      BY <1>1
    <3> QED BY <1>2, <1>3, <2>1, <3>1
  <2>2. StepAlike(f, g, Len(s))
    BY <1>2, <1>3, <2>1 DEF StepAlike
  <2> QED BY <1>1, <2>2, Alike
<1>5. Weight(t) = Weight(s) + Chars[x]
  <2>1. Len(t) \in 1 .. Len(t) /\ Len(t) - 1 = Len(s) /\ Len(s) \in 0 .. Len(s)
    BY <1>1
  <2>2. g[Len(t)] = g[Len(t) - 1] + Chars[t[Len(t)]]
    BY <1>3, <2>1
  <2> QED BY <1>1, <1>2, <1>3, <1>4, <2>1, <2>2
<1>6. Weight(<<>>) = 0
  <2>1. ASSUME NEW e \in Seq(Parts), Len(e) = 0 PROVE Weight(e) = 0
    BY <2>1, WeightSteps
  <2>2. <<>> \in Seq(Parts) /\ Len(<<>>) = 0
    OBVIOUS
  <2> QED BY <2>1, <2>2
<1>7. Weight(s) \in Nat /\ Chars[x] \in Nat
  <2>1. Len(s) \in 0 .. Len(s)
    BY <1>1
  <2>2. Weight(s) \in Nat
    BY <1>2, <2>1
  <2>3. Chars[x] \in Nat
    BY StackTracesAssumption
  <2> QED BY <2>2, <2>3
<1> QED BY <1>5, <1>6, <1>7 DEF t

(* max, by the number of characters.                                       *)
LEMMA HeavierIsMax ==
  ASSUME NEW s \in Seq(Parts), NEW t \in Seq(Parts)
  PROVE  /\ Heavier(s, t) \in {s, t}
         /\ Weight(s) <= Weight(Heavier(s, t)) /\ Weight(t) <= Weight(Heavier(s, t))
<1>1. Weight(s) \in Nat /\ Weight(t) \in Nat
  BY WeightSteps
<1> QED BY <1>1 DEF Heavier

-----------------------------------------------------------------------------
(* A row of the matrix, cell by cell.                                      *)
LEMMA RowSteps ==
  ASSUME NEW b \in Seq(Parts), NEW x \in Parts, NEW above \in [0 .. Len(b) -> Seq(Parts)]
  PROVE  /\ Row(above, x, b) \in [0 .. Len(b) -> Seq(Parts)]
         /\ Row(above, x, b)[0] = <<>>
         /\ \A j \in 1 .. Len(b) :
              Row(above, x, b)[j] = IF x = b[j] THEN Append(above[j - 1], x)
                                    ELSE Heavier(above[j], Row(above, x, b)[j - 1])
<1> DEFINE step == [j \in 1 .. Len(b) |->
                      [v \in Seq(Parts) |-> IF x = b[j] THEN Append(above[j - 1], x)
                                            ELSE Heavier(above[j], v)]]
           Is(f) == f = [j \in 0 .. Len(b) |->
                           IF j = 0 THEN <<>>
                           ELSE IF x = b[j] THEN Append(above[j - 1], x)
                           ELSE Heavier(above[j], f[j - 1])]
           F == CHOOSE f : Is(f)
<1>1. ASSUME NEW j \in 1 .. Len(b) PROVE step[j] \in [Seq(Parts) -> Seq(Parts)]
  <2>1. above[j] \in Seq(Parts) /\ above[j - 1] \in Seq(Parts)
    OBVIOUS
  <2>2. Append(above[j - 1], x) \in Seq(Parts)
    BY <2>1
  <2>3. \A v \in Seq(Parts) : Heavier(above[j], v) \in Seq(Parts)
    BY <2>1, HeavierIsMax
  <2> QED BY <2>2, <2>3
<1>2. Len(b) \in Nat /\ <<>> \in Seq(Parts)
  OBVIOUS
<1>3. PICK f \in [0 .. Len(b) -> Seq(Parts)] : Steps(f, <<>>, step, Len(b))
  <2> HIDE DEF step
  <2> QED BY <1>1, <1>2, Recursion
<1>4. \A j \in 1 .. Len(b) : f[j] = IF x = b[j] THEN Append(above[j - 1], x)
                                    ELSE Heavier(above[j], f[j - 1])
  <2> TAKE j \in 1 .. Len(b)
  <2>1. j - 1 \in 0 .. Len(b) /\ j \in 0 .. Len(b) /\ j # 0
    BY <1>2
  <2>2. f[j - 1] \in Seq(Parts)
    BY <2>1
  <2>3. f[j] = step[j][f[j - 1]]
    BY <1>3, <2>1 DEF Steps
  <2> QED BY <2>2, <2>3
<1>5. f[0] = <<>>
  BY <1>2, <1>3 DEF Steps
<1>6. Is(f)
  <2>1. f = [j \in 0 .. Len(b) |-> f[j]]
    OBVIOUS
  <2>2. \A j \in 0 .. Len(b) : f[j] = IF j = 0 THEN <<>>
                                      ELSE IF x = b[j] THEN Append(above[j - 1], x)
                                      ELSE Heavier(above[j], f[j - 1])
    <3>1. \A j \in 0 .. Len(b) : j # 0 => j \in 1 .. Len(b)
      OBVIOUS
    <3> QED BY <1>4, <1>5, <3>1
  <2> QED BY <2>1, <2>2, Zenon
<1>7. Is(F)
  BY <1>6, Zenon
<1>8. Row(above, x, b) = F
  BY Zenon DEF Row
<1> HIDE DEF F
<1>9. F[0] = <<>>
  BY <1>2, <1>7
<1>10. \A j \in 1 .. Len(b) : F[j] = IF x = b[j] THEN Append(above[j - 1], x)
                                     ELSE Heavier(above[j], F[j - 1])
  <2> TAKE j \in 1 .. Len(b)
  <2>1. j \in 0 .. Len(b) /\ j # 0
    BY <1>2
  <2> QED BY <1>7, <2>1
<1>11. \A j \in 0 .. Len(b) : F[j] = f[j]
  <2>1. ASSUME NEW j \in 1 .. Len(b), F[j - 1] = f[j - 1] PROVE F[j] = f[j]
    BY <1>4, <1>10, <2>1
  <2>2. StepAlike(F, f, Len(b))
    BY <1>5, <1>9, <2>1 DEF StepAlike
  <2> QED BY <1>2, <2>2, Alike
<1>12. F \in [0 .. Len(b) -> Seq(Parts)]
  BY <1>7, <1>11
<1> QED BY <1>8, <1>9, <1>10, <1>12

(* The matrix, row by row.                                                 *)
LEMMA LcsSteps ==
  ASSUME NEW a \in Seq(Parts), NEW b \in Seq(Parts)
  PROVE  \E M \in [0 .. Len(a) -> [0 .. Len(b) -> Seq(Parts)]] :
           /\ Lcs(a, b) = M[Len(a)][Len(b)]
           /\ M[0] = [j \in 0 .. Len(b) |-> <<>>]
           /\ \A i \in 1 .. Len(a) : M[i] = Row(M[i - 1], a[i], b)
<1> DEFINE Rows == [0 .. Len(b) -> Seq(Parts)]
           none == [j \in 0 .. Len(b) |-> <<>>]
           step == [i \in 1 .. Len(a) |-> [v \in Rows |-> Row(v, a[i], b)]]
           Is(f) == f = [i \in 0 .. Len(a) |->
                           IF i = 0 THEN [j \in 0 .. Len(b) |-> <<>>]
                           ELSE Row(f[i - 1], a[i], b)]
           F == CHOOSE f : Is(f)
<1>1. ASSUME NEW i \in 1 .. Len(a) PROVE step[i] \in [Rows -> Rows]
  <2>1. \A v \in Rows : Row(v, a[i], b) \in Rows
    BY RowSteps
  <2> HIDE DEF Rows
  <2> QED BY <2>1
<1>2. Len(a) \in Nat /\ none \in Rows
  OBVIOUS
<1>3. PICK f \in [0 .. Len(a) -> Rows] : Steps(f, none, step, Len(a))
  <2> HIDE DEF step, none, Rows
  <2> QED BY <1>1, <1>2, Recursion
<1>4. \A i \in 1 .. Len(a) : f[i] = Row(f[i - 1], a[i], b)
  <2> TAKE i \in 1 .. Len(a)
  <2> HIDE DEF Rows
  <2>1. f[i - 1] \in Rows /\ i \in 0 .. Len(a) /\ i # 0
    OBVIOUS
  <2>2. f[i] = step[i][f[i - 1]]
    BY <1>3, <2>1 DEF Steps
  <2> QED BY <2>1, <2>2
<1>5. f[0] = none
  <2> HIDE DEF none, step
  <2> QED BY <1>2, <1>3 DEF Steps
<1>6. Is(f)
  <2>1. f = [i \in 0 .. Len(a) |-> f[i]]
    OBVIOUS
  <2>2. \A i \in 0 .. Len(a) : f[i] = IF i = 0 THEN [j \in 0 .. Len(b) |-> <<>>]
                                      ELSE Row(f[i - 1], a[i], b)
    <3>1. \A i \in 0 .. Len(a) : i # 0 => i \in 1 .. Len(a)
      OBVIOUS
    <3> QED BY <1>4, <1>5, <3>1
  <2> QED BY <2>1, <2>2, Zenon
<1>7. Is(F)
  BY <1>6, Zenon
<1>8. Lcs(a, b) = F[Len(a)][Len(b)]
  BY Zenon DEF Lcs
<1> HIDE DEF F
<1>9. F[0] = none
  BY <1>2, <1>7
<1>10. ASSUME NEW i \in 1 .. Len(a), F[i - 1] = f[i - 1] PROVE F[i] = f[i]
  <2>1. i \in 0 .. Len(a) /\ i # 0
    BY <1>2
  <2>2. F[i] = Row(F[i - 1], a[i], b)
    BY <1>7, <2>1
  <2> QED BY <1>4, <1>10, <2>2
<1>11. F[Len(a)] = f[Len(a)]
  <2> HIDE DEF none
  <2>1. Len(a) \in 0 .. Len(a)
    BY <1>2
  <2>2. StepAlike(F, f, Len(a))
    BY <1>5, <1>9, <1>10 DEF StepAlike
  <2> QED BY <1>2, <2>1, <2>2, Alike
<1> QED BY <1>4, <1>5, <1>8, <1>11
-----------------------------------------------------------------------------
(* There is no room for more parts than there are.                         *)
LEMMA EmbeddingsFit ==
  ASSUME NEW n \in Nat, NEW m \in Nat, NEW e \in Embeddings(n, m)
  PROVE  n <= m
<1>1. e \in [1 .. n -> 1 .. m] /\ \A k, l \in 1 .. n : k < l => e[k] < e[l]
  BY DEF Embeddings
<1>2. e \in Injection(1 .. n, 1 .. m)
  <2>1. ASSUME NEW k \in 1 .. n, NEW l \in 1 .. n, e[k] = e[l] PROVE k = l
    <3>1. e[k] \in Int /\ e[l] \in Int
      BY <1>1
    <3>2. ~ (e[k] < e[l]) /\ ~ (e[l] < e[k])
      BY <2>1, <3>1
    <3> QED BY <1>1, <3>2
  <2> QED BY <1>1, <2>1 DEF Injection, IsInjective
<1>3. /\ IsFiniteSet(1 .. n) /\ Cardinality(1 .. n) = n
      /\ IsFiniteSet(1 .. m) /\ Cardinality(1 .. m) = m
  BY FS_Interval
<1>4. Cardinality(1 .. n) <= Cardinality(1 .. m)
  BY <1>2, <1>3, FS_Injection
<1> QED BY <1>3, <1>4
-----------------------------------------------------------------------------
(* x is found, part after part, in the first i parts of a.                 *)
FoundBy(e, x, a) == \A k \in 1 .. Len(x) : x[k] = a[e[k]]
FoundIn(x, a, i) == \E e \in Embeddings(Len(x), i) : FoundBy(e, x, a)

(* That is what it means to be a subsequence.                              *)
LEMMA SubsequencesAreFound ==
  ASSUME NEW s \in Seq(Parts), NEW x
  PROVE  x \in Subsequences(s) <=> x \in Seq(Parts) /\ FoundIn(x, s, Len(s))
<1>1. ASSUME NEW n \in Nat, NEW e \in Embeddings(n, Len(s))
      PROVE  /\ DOMAIN e = 1 .. n /\ \A k \in 1 .. n : e[k] \in 1 .. Len(s)
             /\ [k \in DOMAIN e |-> s[e[k]]] \in Seq(Parts)
             /\ Len([k \in DOMAIN e |-> s[e[k]]]) = n
  BY DEF Embeddings
<1>2. ASSUME x \in Subsequences(s) PROVE x \in Seq(Parts) /\ FoundIn(x, s, Len(s))
  <2>0. PICK n \in 0 .. Len(s) : \E e \in Embeddings(n, Len(s)) : x = [k \in DOMAIN e |-> s[e[k]]]
    BY <1>2 DEF Subsequences
  <2>1. PICK e \in Embeddings(n, Len(s)) : x = [k \in DOMAIN e |-> s[e[k]]]
    BY <2>0
  <2>2. x \in Seq(Parts) /\ Len(x) = n /\ n \in Nat /\ DOMAIN e = 1 .. n
    BY <1>1, <2>1
  <2>3. FoundBy(e, x, s)
    BY <2>1, <2>2 DEF FoundBy
  <2> QED BY <2>1, <2>2, <2>3 DEF FoundIn
<1>3. ASSUME x \in Seq(Parts), FoundIn(x, s, Len(s)) PROVE x \in Subsequences(s)
  <2>1. PICK e \in Embeddings(Len(x), Len(s)) : FoundBy(e, x, s)
    BY <1>3 DEF FoundIn
  <2>2. Len(x) \in Nat /\ x = [k \in 1 .. Len(x) |-> x[k]]
    BY <1>3
  <2>3. DOMAIN e = 1 .. Len(x)
    BY <1>1, <2>2
  <2>4. x = [k \in DOMAIN e |-> s[e[k]]]
    BY <2>1, <2>2, <2>3 DEF FoundBy
  <2>5. Len(x) \in 0 .. Len(s)
    BY <2>1, <2>2, EmbeddingsFit
  <2> QED BY <2>1, <2>4, <2>5 DEF Subsequences
<1> QED BY <1>2, <1>3

(* What is found early is found in more parts.                             *)
LEMMA FoundInMore ==
  ASSUME NEW x \in Seq(Parts), NEW a, NEW i \in Nat, NEW j \in Nat, i <= j, FoundIn(x, a, i)
  PROVE  FoundIn(x, a, j)
<1>1. PICK e \in Embeddings(Len(x), i) : FoundBy(e, x, a)
  BY DEF FoundIn
<1>2. e \in Embeddings(Len(x), j)
  BY DEF Embeddings
<1> QED BY <1>1, <1>2 DEF FoundIn

(* The next part may be appended.                                          *)
LEMMA FoundWithNext ==
  ASSUME NEW x \in Seq(Parts), NEW a \in Seq(Parts), NEW i \in 1 .. Len(a),
         FoundIn(x, a, i - 1)
  PROVE  FoundIn(Append(x, a[i]), a, i)
<1> DEFINE y == Append(x, a[i])
<1>1. PICK e \in Embeddings(Len(x), i - 1) : FoundBy(e, x, a)
  BY DEF FoundIn
<1>2. /\ Len(x) \in Nat /\ i \in Nat /\ Len(y) = Len(x) + 1
      /\ y[Len(y)] = a[i] /\ \A k \in 1 .. Len(x) : y[k] = x[k]
  OBVIOUS
<1>3. /\ e \in [1 .. Len(x) -> 1 .. i - 1]
      /\ \A k, l \in 1 .. Len(x) : k < l => e[k] < e[l]
  BY <1>1 DEF Embeddings
<1> HIDE DEF y
<1> DEFINE f == [k \in 1 .. Len(y) |-> IF k = Len(y) THEN i ELSE e[k]]
<1>4. f \in [1 .. Len(y) -> 1 .. i]
  BY <1>2, <1>3
<1>5. ASSUME NEW k \in 1 .. Len(y), NEW l \in 1 .. Len(y), k < l PROVE f[k] < f[l]
  <2>1. k \in 1 .. Len(x) /\ k # Len(y)
    BY <1>2, <1>5
  <2>2. e[k] \in 1 .. i - 1 /\ f[k] = e[k]
    BY <1>3, <2>1
  <2>3. CASE l = Len(y)
    BY <1>2, <2>2, <2>3
  <2>4. CASE l # Len(y)
    <3>1. l \in 1 .. Len(x)
      BY <1>2, <2>4
    <3>2. f[l] = e[l] /\ e[k] < e[l]
      BY <1>3, <1>5, <2>1, <2>4, <3>1
    <3> QED BY <2>2, <3>2
  <2> QED BY <2>3, <2>4
<1>6. f \in Embeddings(Len(y), i)
  <2> HIDE DEF f
  <2> QED BY <1>4, <1>5 DEF Embeddings
<1>7. FoundBy(f, y, a)
  BY <1>1, <1>2 DEF FoundBy
<1> QED BY <1>6, <1>7 DEF FoundIn, y

(* A list that is not empty, without its last part.                        *)
LEMMA WithoutLast ==
  ASSUME NEW x \in Seq(Parts), x # <<>>
  PROVE  \E y \in Seq(Parts), p \in Parts : x = Append(y, p)
<1> WITNESS SubSeq(x, 1, Len(x) - 1) \in Seq(Parts), x[Len(x)] \in Parts
<1> QED OBVIOUS

(* What ends in p is found without p before p is reached, and with p only  *)
(* where p is.                                                             *)
LEMMA FoundWithoutLast ==
  ASSUME NEW y \in Seq(Parts), NEW p \in Parts, NEW a \in Seq(Parts), NEW i \in 1 .. Len(a),
         FoundIn(Append(y, p), a, i)
  PROVE  /\ FoundIn(y, a, i - 1)
         /\ p # a[i] => FoundIn(Append(y, p), a, i - 1)
<1> DEFINE x == Append(y, p)
<1>1. PICK e \in Embeddings(Len(x), i) : FoundBy(e, x, a)
  BY DEF FoundIn
<1>2. /\ Len(y) \in Nat /\ i \in Nat /\ Len(x) = Len(y) + 1 /\ x \in Seq(Parts)
      /\ x[Len(x)] = p /\ \A k \in 1 .. Len(y) : x[k] = y[k]
  OBVIOUS
<1> HIDE DEF x
<1>3. /\ e \in [1 .. Len(x) -> 1 .. i]
      /\ \A k, l \in 1 .. Len(x) : k < l => e[k] < e[l]
      /\ Len(x) \in 1 .. Len(x) /\ e[Len(x)] \in 1 .. i
  BY <1>1, <1>2 DEF Embeddings
<1>4. FoundIn(y, a, i - 1)
  <2> DEFINE f == [k \in 1 .. Len(y) |-> e[k]]
  <2>1. ASSUME NEW k \in 1 .. Len(y) PROVE f[k] \in 1 .. i - 1
    <3>1. k \in 1 .. Len(x) /\ k < Len(x)
      BY <1>2
    <3>2. e[k] < e[Len(x)] /\ e[k] \in 1 .. i
      BY <1>3, <3>1
    <3> QED BY <1>2, <1>3, <3>2
  <2>2. f \in [1 .. Len(y) -> 1 .. i - 1]
    BY <2>1
  <2>3. \A k, l \in 1 .. Len(y) : k < l => f[k] < f[l]
    BY <1>2, <1>3
  <2>4. f \in Embeddings(Len(y), i - 1)
    <3> HIDE DEF f
    <3> QED BY <2>2, <2>3 DEF Embeddings
  <2>5. FoundBy(f, y, a)
    BY <1>1, <1>2 DEF FoundBy
  <2> QED BY <2>4, <2>5 DEF FoundIn
<1>5. ASSUME p # a[i] PROVE FoundIn(x, a, i - 1)
  <2>1. e[Len(x)] # i
    BY <1>1, <1>2, <1>3, <1>5 DEF FoundBy
  <2>2. ASSUME NEW k \in 1 .. Len(x) PROVE e[k] \in 1 .. i - 1
    <3>1. e[k] \in 1 .. i
      BY <1>3
    <3>2. CASE k = Len(x)
      BY <1>2, <2>1, <3>1, <3>2
    <3>3. CASE k # Len(x)
      <4>1. k < Len(x)
        BY <1>2, <3>3
      <4>2. e[k] < e[Len(x)]
        BY <1>3, <4>1
      <4> QED BY <1>2, <1>3, <3>1, <4>2
    <3> QED BY <3>2, <3>3
  <2>3. e \in Embeddings(Len(x), i - 1)
    BY <1>3, <2>2 DEF Embeddings
  <2> QED BY <1>1, <2>3 DEF FoundIn
<1> QED BY <1>4, <1>5 DEF x
(* Nothing at all is found everywhere, and nothing else in no parts.       *)
LEMMA NothingIsFound ==
  ASSUME NEW x \in Seq(Parts), NEW a, NEW i \in Nat
  PROVE  /\ x = <<>> => FoundIn(x, a, i)
         /\ i = 0 /\ FoundIn(x, a, i) => x = <<>>
<1>1. ASSUME x = <<>> PROVE FoundIn(x, a, i)
  <2>1. Len(x) = 0
    BY <1>1
  <2> DEFINE e == [k \in 1 .. 0 |-> 1]
  <2>2. e \in Embeddings(Len(x), i) /\ FoundBy(e, x, a)
    BY <2>1 DEF Embeddings, FoundBy
  <2> QED BY <2>2 DEF FoundIn
<1>2. ASSUME i = 0, FoundIn(x, a, i) PROVE x = <<>>
  <2>1. Len(x) \in Nat /\ Len(x) <= 0
    BY <1>2, EmbeddingsFit DEF FoundIn
  <2> QED BY <2>1
<1> QED BY <1>1, <1>2

(* c is found in i parts of a and in j parts of b, and nothing that is has *)
(* more characters.                                                        *)
Common(x, a, i, b, j) == FoundIn(x, a, i) /\ FoundIn(x, b, j)
Heaviest(c, a, i, b, j) ==
  /\ c \in Seq(Parts) /\ Common(c, a, i, b, j)
  /\ \A x \in Seq(Parts) : Common(x, a, i, b, j) => Weight(x) <= Weight(c)

(* A cell of equal parts.                                                  *)
LEMMA EqualParts ==
  ASSUME NEW a \in Seq(Parts), NEW b \in Seq(Parts),
         NEW i \in 1 .. Len(a), NEW j \in 1 .. Len(b), a[i] = b[j],
         NEW c, Heaviest(c, a, i - 1, b, j - 1)
  PROVE  Heaviest(Append(c, a[i]), a, i, b, j)
<1> DEFINE d == Append(c, a[i])
<1>1. c \in Seq(Parts) /\ a[i] \in Parts /\ d \in Seq(Parts)
  BY DEF Heaviest
<1>2. Common(d, a, i, b, j)
  BY <1>1, FoundWithNext DEF Heaviest, Common
<1>3. Weight(c) \in Nat /\ Chars[a[i]] \in Nat /\ Weight(d) = Weight(c) + Chars[a[i]]
  BY <1>1, WeightAppends
<1> HIDE DEF d
<1>4. Weight(c) <= Weight(d) /\ Weight(d) \in Nat
  BY ONLY <1>3
<1>5. ASSUME NEW x \in Seq(Parts), Common(x, a, i, b, j) PROVE Weight(x) <= Weight(d)
  <2>1. CASE x = <<>>
    BY <1>4, <2>1, WeightAppends
  <2>2. CASE x # <<>>
    <3>1. PICK y \in Seq(Parts), p \in Parts : x = Append(y, p)
      BY <2>2, WithoutLast
    <3>2. /\ Common(y, a, i - 1, b, j - 1)
          /\ p # a[i] => Common(x, a, i - 1, b, j - 1)
      BY <1>5, <3>1, FoundWithoutLast DEF Common
    <3>3. Weight(y) \in Nat /\ Weight(x) = Weight(y) + Chars[p] /\ Chars[p] \in Nat
      BY <3>1, WeightAppends
    <3>4. CASE p = a[i]
      <4>1. Weight(y) <= Weight(c)
        BY <3>2 DEF Heaviest
      <4> QED BY ONLY <1>3, <3>3, <3>4, <4>1
    <3>5. CASE p # a[i]
      <4>1. Weight(x) <= Weight(c)
        BY <3>2, <3>5 DEF Heaviest
      <4>2. Weight(x) \in Nat
        BY <3>3
      <4> QED BY ONLY <1>3, <1>4, <4>1, <4>2
    <3> QED BY <3>4, <3>5
  <2> QED BY <2>1, <2>2
<1> QED BY <1>1, <1>2, <1>5 DEF Heaviest, d

(* A cell of different parts.                                              *)
LEMMA DifferentParts ==
  ASSUME NEW a \in Seq(Parts), NEW b \in Seq(Parts),
         NEW i \in 1 .. Len(a), NEW j \in 1 .. Len(b), a[i] # b[j],
         NEW c, Heaviest(c, a, i - 1, b, j),
         NEW d, Heaviest(d, a, i, b, j - 1)
  PROVE  Heaviest(Heavier(c, d), a, i, b, j)
<1> DEFINE h == Heavier(c, d)
<1>1. c \in Seq(Parts) /\ d \in Seq(Parts)
  BY DEF Heaviest
<1>2. /\ h \in {c, d} /\ Weight(c) <= Weight(h) /\ Weight(d) <= Weight(h)
      /\ Weight(c) \in Nat /\ Weight(d) \in Nat
  <2>1. h \in {c, d} /\ Weight(c) <= Weight(h) /\ Weight(d) <= Weight(h)
    BY <1>1, HeavierIsMax
  <2>2. Weight(c) \in Nat /\ Weight(d) \in Nat
    BY <1>1, WeightIsNat
  <2> HIDE DEF h
  <2> QED BY <2>1, <2>2
<1> HIDE DEF h
<1>3. /\ i \in Nat /\ j \in Nat /\ i - 1 \in Nat /\ j - 1 \in Nat /\ i - 1 <= i /\ j - 1 <= j
  OBVIOUS
<1>4. Common(c, a, i, b, j) /\ Common(d, a, i, b, j)
  <2>1. FoundIn(c, a, i) /\ FoundIn(c, b, j)
    <3>1. FoundIn(c, a, i - 1) /\ FoundIn(c, b, j)
      BY DEF Heaviest, Common
    <3> QED BY <1>1, <1>3, <3>1, FoundInMore
  <2>2. FoundIn(d, a, i) /\ FoundIn(d, b, j)
    <3>1. FoundIn(d, a, i) /\ FoundIn(d, b, j - 1)
      BY DEF Heaviest, Common
    <3> QED BY <1>1, <1>3, <3>1, FoundInMore
  <2> QED BY <2>1, <2>2 DEF Common
<1>5. ASSUME NEW x \in Seq(Parts), Common(x, a, i, b, j) PROVE Weight(x) <= Weight(h)
  <2>1. Weight(x) \in Nat /\ Weight(h) \in Nat
    BY <1>1, <1>2, WeightIsNat
  <2>2. Common(x, a, i - 1, b, j) \/ Common(x, a, i, b, j - 1)
    <3>1. CASE x = <<>>
      BY <1>3, <1>5, <3>1, NothingIsFound DEF Common
    <3>2. CASE x # <<>>
      <4>1. PICK y \in Seq(Parts), p \in Parts : x = Append(y, p)
        BY <3>2, WithoutLast
      <4>2. p # a[i] => FoundIn(x, a, i - 1)
        BY <1>5, <4>1, FoundWithoutLast DEF Common
      <4>3. p # b[j] => FoundIn(x, b, j - 1)
        BY <1>5, <4>1, FoundWithoutLast DEF Common
      <4> QED BY <1>5, <4>2, <4>3 DEF Common
    <3> QED BY <3>1, <3>2
  <2>3. Weight(x) <= Weight(c) \/ Weight(x) <= Weight(d)
    BY <2>2 DEF Heaviest
  <2> QED BY <1>2, <2>1, <2>3
<1> QED BY <1>1, <1>2, <1>4, <1>5 DEF Heaviest, h

(* Each cell of the matrix, by the cells above and to the left of it.      *)
LEMMA LcsIsHeaviest ==
  ASSUME NEW a \in Seq(Parts), NEW b \in Seq(Parts)
  PROVE  Heaviest(Lcs(a, b), a, Len(a), b, Len(b))
<1> DEFINE m == Len(a)
           n == Len(b)
<1>1. PICK M \in [0 .. m -> [0 .. n -> Seq(Parts)]] :
        /\ Lcs(a, b) = M[m][n]
        /\ M[0] = [j \in 0 .. n |-> <<>>]
        /\ \A i \in 1 .. m : M[i] = Row(M[i - 1], a[i], b)
  BY LcsSteps
<1>2. m \in Nat /\ n \in Nat
  OBVIOUS
<1> DEFINE Right(i, j) == Heaviest(M[i][j], a, i, b, j)
           Bad == {k \in Nat : \E i \in 0 .. m, j \in 0 .. n : k = i + j /\ ~ Right(i, j)}
<1>3. SUFFICES ASSUME Bad # {} PROVE FALSE
  <2>1. m \in 0 .. m /\ n \in 0 .. n /\ m + n \in Nat
    BY <1>2
  <2>2. Bad = {} => Right(m, n)
    BY <2>1
  <2> QED BY <1>1, <2>2
<1>4. PICK k \in Bad : \A l \in Bad : k <= l
  <2>1. Bad \subseteq Nat
    OBVIOUS
  <2> HIDE DEF Bad
  <2> QED BY <1>3, <2>1, Least
<1>5. PICK i \in 0 .. m, j \in 0 .. n : k = i + j /\ ~ Right(i, j)
  BY <1>4
<1>6. \A p \in 0 .. m, q \in 0 .. n : p + q < i + j => Right(p, q)
  <2> TAKE p \in 0 .. m, q \in 0 .. n
  <2> HAVE p + q < i + j
  <2>1. p + q \notin Bad
    <3>1. k = i + j /\ i \in Int /\ j \in Int /\ p \in Int /\ q \in Int
      BY <1>2, <1>5
    <3> HIDE DEF Bad
    <3> QED BY <1>4, <3>1
  <2>2. p + q \in Nat
    BY <1>2
  <2> HIDE DEF Right
  <2> QED BY <2>1, <2>2
<1> HIDE DEF Bad
<1>7. CASE i = 0 \/ j = 0
  <2>1. M[i][j] = <<>>
    <3>1. CASE i = 0
      BY <1>1, <3>1
    <3>2. CASE i # 0
      <4>0. i \in 1 .. m /\ i - 1 \in 0 .. m /\ j = 0
        BY <1>2, <1>7, <3>2
      <4>1. a[i] \in Parts /\ M[i - 1] \in [0 .. n -> Seq(Parts)]
        <5>1. a[i] \in Parts
          BY <4>0
        <5>2. M[i - 1] \in [0 .. n -> Seq(Parts)]
          BY <4>0
        <5> QED BY <5>1, <5>2
      <4>2. Row(M[i - 1], a[i], b)[0] = <<>>
        BY <4>1, RowSteps
      <4> QED BY <1>1, <4>0, <4>2
    <3> QED BY <3>1, <3>2
  <2>2. <<>> \in Seq(Parts) /\ i \in Nat /\ j \in Nat
    BY <1>2
  <2>3. Common(<<>>, a, i, b, j)
    BY <2>2, NothingIsFound DEF Common
  <2>4. ASSUME NEW x \in Seq(Parts), Common(x, a, i, b, j) PROVE Weight(x) <= Weight(<<>>)
    <3>1. x = <<>>
      <4>1. FoundIn(x, a, i) /\ FoundIn(x, b, j)
        BY <2>4 DEF Common
      <4>2. i = 0 => x = <<>>
        BY <2>2, <4>1, NothingIsFound
      <4>3. j = 0 => x = <<>>
        BY <2>2, <4>1, NothingIsFound
      <4> QED BY <1>7, <4>2, <4>3
    <3>2. Weight(x) \in Nat
      BY WeightIsNat
    <3> QED BY <3>1, <3>2
  <2> QED BY <1>5, <2>1, <2>2, <2>3, <2>4 DEF Heaviest
<1>8. CASE i # 0 /\ j # 0
  <2>1. /\ i \in 1 .. m /\ j \in 1 .. n /\ i - 1 \in 0 .. m /\ j - 1 \in 0 .. n
        /\ (i - 1) + (j - 1) < i + j /\ (i - 1) + j < i + j /\ i + (j - 1) < i + j
    BY <1>2, <1>8
  <2>2. Right(i - 1, j - 1) /\ Right(i - 1, j) /\ Right(i, j - 1)
    <3> HIDE DEF Right
    <3> QED BY <1>6, <2>1
  <2>3. /\ M[i] = Row(M[i - 1], a[i], b)
        /\ M[i][j] = IF a[i] = b[j] THEN Append(M[i - 1][j - 1], a[i])
                     ELSE Heavier(M[i - 1][j], M[i][j - 1])
    <3>1. a[i] \in Parts
      BY <2>1
    <3>2. M[i - 1] \in [0 .. n -> Seq(Parts)]
      BY <2>1
    <3>3. M[i] = Row(M[i - 1], a[i], b)
      BY <1>1, <2>1
    <3>4. Row(M[i - 1], a[i], b)[j]
            = IF a[i] = b[j] THEN Append(M[i - 1][j - 1], a[i])
              ELSE Heavier(M[i - 1][j], Row(M[i - 1], a[i], b)[j - 1])
      BY <2>1, <3>1, <3>2, RowSteps
    <3> HIDE DEF m, n
    <3> QED BY <3>3, <3>4
  <2>4. CASE a[i] = b[j]
    BY <1>5, <2>1, <2>2, <2>3, <2>4, EqualParts
  <2>5. CASE a[i] # b[j]
    BY <1>5, <2>1, <2>2, <2>3, <2>5, DifferentParts
  <2> QED BY <2>4, <2>5
<1> QED BY <1>7, <1>8

-----------------------------------------------------------------------------
(* Tops and bottoms.  How long the parts in common are.                    *)
LEMMA TopsAgree ==
  ASSUME NEW a \in Seq(Parts), NEW b \in Seq(Parts)
  PROVE  \E k \in Nat :
           /\ k <= Len(a) /\ k <= Len(b) /\ Tops(a, b) = SubSeq(a, 1, k)
           /\ \A i \in 1 .. k : a[i] = b[i]
           /\ k < Len(a) /\ k < Len(b) => a[k + 1] # b[k + 1]
<1> DEFINE shorter == IF Len(a) < Len(b) THEN Len(a) ELSE Len(b)
           differ == {i \in 1 .. shorter : a[i] # b[i]}
           First(i) == i \in differ /\ \A j \in differ : i <= j
           first == CHOOSE i \in differ : \A j \in differ : i <= j
           k == IF differ = {} THEN shorter ELSE first - 1
<1>1. Len(a) \in Nat /\ Len(b) \in Nat /\ shorter \in Nat
      /\ shorter <= Len(a) /\ shorter <= Len(b)
      /\ (shorter = Len(a) \/ shorter = Len(b))
  OBVIOUS
<1>2. Tops(a, b) = SubSeq(a, 1, k)
  BY DEF Tops
<1> HIDE DEF shorter
<1>3. CASE differ = {}
  <2>1. k = shorter
    BY <1>3
  <2>2. \A i \in 1 .. shorter : a[i] = b[i]
    BY <1>3
  <2> HIDE DEF k, differ
  <2>3. ~ (k < Len(a) /\ k < Len(b))
    BY <1>1, <2>1
  <2> QED BY <1>1, <1>2, <2>1, <2>2, <2>3
<1>4. CASE differ # {}
  <2>1. differ \subseteq Nat
    BY <1>1
  <2>2. \E i \in differ : \A j \in differ : i <= j
    <3> HIDE DEF differ
    <3> QED BY <1>4, <2>1, Least
  <2>3. first \in differ /\ \A j \in differ : first <= j
    <3> HIDE DEF differ
    <3> QED BY <2>2
  <2>4. k = first - 1
    BY <1>4
  <2> HIDE DEF first, k
  <2>5. first \in 1 .. shorter /\ a[first] # b[first] /\ k \in Nat /\ k + 1 = first
    BY <1>1, <2>3, <2>4
  <2>6. ASSUME NEW i \in 1 .. k PROVE a[i] = b[i]
    <3>1. i \in 1 .. shorter /\ ~ (first <= i)
      BY <1>1, <2>4, <2>5
    <3>2. i \notin differ
      <4> HIDE DEF differ
      <4> QED BY <2>3, <3>1
    <3> QED BY <3>1, <3>2
  <2>7. k <= Len(a) /\ k <= Len(b)
    BY <1>1, <2>5
  <2> HIDE DEF differ
  <2> QED BY <1>2, <2>5, <2>6, <2>7
<1> QED BY <1>3, <1>4

(* A common prefix of two lists.                                           *)
LEMMA PrefixesInCommon ==
  ASSUME NEW a \in Seq(Parts), NEW b \in Seq(Parts), NEW p
  PROVE  p \in CommonPrefixes({a, b}) <=>
           \E l \in Nat : /\ l <= Len(a) /\ l <= Len(b) /\ p = SubSeq(a, 1, l)
                          /\ \A i \in 1 .. l : a[i] = b[i]
<1>0. Len(a) \in Nat /\ Len(b) \in Nat
  OBVIOUS
<1>1. ASSUME NEW s \in Seq(Parts), NEW l \in Nat, l <= Len(s)
      PROVE  /\ SubSeq(s, 1, l) \in Seq(Parts) /\ Len(SubSeq(s, 1, l)) = l
             /\ \A i \in 1 .. l : SubSeq(s, 1, l)[i] = s[i]
  BY <1>1
<1>2. ASSUME NEW l \in Nat, l <= Len(a), l <= Len(b)
      PROVE  SubSeq(a, 1, l) = SubSeq(b, 1, l) <=> \A i \in 1 .. l : a[i] = b[i]
  <2> DEFINE x == SubSeq(a, 1, l)
             y == SubSeq(b, 1, l)
  <2>1. /\ x \in Seq(Parts) /\ Len(x) = l /\ \A i \in 1 .. l : x[i] = a[i]
        /\ y \in Seq(Parts) /\ Len(y) = l /\ \A i \in 1 .. l : y[i] = b[i]
    BY <1>1, <1>2
  <2> HIDE DEF x, y
  <2>2. x = y <=> \A i \in 1 .. l : x[i] = y[i]
    BY <2>1, SeqEqual
  <2>3. x = y <=> \A i \in 1 .. l : a[i] = b[i]
    BY <2>1, <2>2
  <2> QED BY <2>3 DEF x, y
<1>3. ASSUME NEW s \in Seq(Parts), NEW t \in Seq(Parts), NEW l \in Nat, l <= Len(s)
      PROVE  IsPrefix(SubSeq(s, 1, l), t) <=> l <= Len(t) /\ SubSeq(s, 1, l) = SubSeq(t, 1, l)
  <2> DEFINE x == SubSeq(s, 1, l)
  <2>1. Len(x) = l /\ x \in Seq(Parts)
    BY <1>1, <1>3
  <2> HIDE DEF x
  <2>2. SubSeq(x, 1, Len(x)) = x
    BY <2>1
  <2>3. IsPrefix(x, t) <=> l <= Len(t) /\ x = SubSeq(t, 1, l)
    BY <2>1, <2>2 DEF IsPrefix
  <2> QED BY <2>3 DEF x
<1>4. ASSUME p \in CommonPrefixes({a, b})
      PROVE  \E l \in Nat : /\ l <= Len(a) /\ l <= Len(b) /\ p = SubSeq(a, 1, l)
                            /\ \A i \in 1 .. l : a[i] = b[i]
  <2>1. (p \in Prefixes(a) \/ p \in Prefixes(b)) /\ IsPrefix(p, a) /\ IsPrefix(p, b)
    BY <1>4 DEF CommonPrefixes
  <2>2. CASE p \in Prefixes(a)
    <3>1. PICK l \in 0 .. Len(a) : p = SubSeq(a, 1, l)
      BY <2>2 DEF Prefixes
    <3>2. l \in Nat /\ l <= Len(a)
      BY <1>0
    <3>3. l <= Len(b) /\ p = SubSeq(b, 1, l)
      BY <1>3, <2>1, <3>1, <3>2
    <3> QED BY <1>2, <3>1, <3>2, <3>3
  <2>3. CASE p \in Prefixes(b)
    <3>1. PICK l \in 0 .. Len(b) : p = SubSeq(b, 1, l)
      BY <2>3 DEF Prefixes
    <3>2. l \in Nat /\ l <= Len(b)
      BY <1>0
    <3>3. l <= Len(a) /\ p = SubSeq(a, 1, l)
      BY <1>3, <2>1, <3>1, <3>2
    <3> QED BY <1>2, <3>1, <3>2, <3>3
  <2> QED BY <2>1, <2>2, <2>3
<1>5. ASSUME NEW l \in Nat, l <= Len(a), l <= Len(b), p = SubSeq(a, 1, l),
             \A i \in 1 .. l : a[i] = b[i]
      PROVE  p \in CommonPrefixes({a, b})
  <2>1. p \in Prefixes(a)
    BY <1>0, <1>5 DEF Prefixes
  <2>2. p = SubSeq(b, 1, l)
    BY <1>2, <1>5
  <2>3. IsPrefix(p, a) /\ IsPrefix(p, b)
    BY <1>3, <1>5, <2>2
  <2> QED BY <2>1, <2>3 DEF CommonPrefixes
<1> QED BY <1>4, <1>5

(* What the loop over both lists collects is their longest common prefix.  *)
LEMMA TopsAreLongest ==
  ASSUME NEW a \in Seq(Parts), NEW b \in Seq(Parts)
  PROVE  Tops(a, b) = LongestCommonPrefix({a, b})
<1> DEFINE C == CommonPrefixes({a, b})
           top == Tops(a, b)
           L == LongestCommonPrefix({a, b})
<1>1. PICK k \in Nat :
        /\ k <= Len(a) /\ k <= Len(b) /\ top = SubSeq(a, 1, k)
        /\ \A i \in 1 .. k : a[i] = b[i]
        /\ k < Len(a) /\ k < Len(b) => a[k + 1] # b[k + 1]
  BY TopsAgree
<1>2. top \in C /\ Len(top) = k
  <2>1. Len(SubSeq(a, 1, k)) = k
    BY <1>1
  <2> QED BY <1>1, <2>1, PrefixesInCommon
<1>3. ASSUME NEW p \in C
      PROVE  \E l \in Nat : l <= k /\ p = SubSeq(a, 1, l) /\ Len(p) = l
  <2>1. PICK l \in Nat : /\ l <= Len(a) /\ l <= Len(b) /\ p = SubSeq(a, 1, l)
                         /\ \A i \in 1 .. l : a[i] = b[i]
    BY PrefixesInCommon
  <2>2. Len(p) = l
    BY <2>1
  <2>3. ASSUME k < l PROVE FALSE
    <3>1. k + 1 \in 1 .. l /\ k < Len(a) /\ k < Len(b)
      BY <2>1, <2>3
    <3> QED BY <1>1, <2>1, <3>1
  <2> QED BY <2>1, <2>2, <2>3
<1> HIDE DEF C, top
<1>4. top \in C /\ \A other \in C : Len(other) <= Len(top)
  BY <1>2, <1>3
<1>5. L \in C /\ \A other \in C : Len(other) <= Len(L)
  BY <1>4, Zenon DEF LongestCommonPrefix, C
<1> HIDE DEF L
<1>6. Len(top) <= Len(L)
  BY <1>4, <1>5
<1>7. PICK l \in Nat : l <= k /\ L = SubSeq(a, 1, l) /\ Len(L) = l
  BY <1>3, <1>5
<1>8. l = k
  BY <1>2, <1>6, <1>7
<1> QED BY <1>1, <1>7, <1>8 DEF top, L

(* A list that is reversed twice is the list.                              *)
LEMMA ReversedTwice ==
  ASSUME NEW s \in Seq(Parts)
  PROVE  Reverse(s) \in Seq(Parts) /\ Reverse(Reverse(s)) = s
<1> DEFINE r == Reverse(s)
<1>1. Len(s) \in Nat /\ \A i \in 1 .. Len(s) : s[i] \in Parts
  OBVIOUS
<1>2. r = [i \in 1 .. Len(s) |-> s[(Len(s) - i) + 1]]
  BY DEF Reverse
<1>3. \A i \in 1 .. Len(s) : (Len(s) - i) + 1 \in 1 .. Len(s)
  BY <1>1
<1>4. r \in Seq(Parts) /\ Len(r) = Len(s)
  BY <1>1, <1>2, <1>3
<1>5. Reverse(r) = [i \in 1 .. Len(s) |-> r[(Len(s) - i) + 1]]
  BY <1>4 DEF Reverse
<1>6. \A i \in 1 .. Len(s) : r[(Len(s) - i) + 1] = s[i]
  BY <1>1, <1>2, <1>3
<1>7. s = [i \in 1 .. Len(s) |-> s[i]]
  OBVIOUS
<1> QED BY <1>4, <1>5, <1>6, <1>7

-----------------------------------------------------------------------------
(* What is in the two lists.                                               *)
Lists ==
  /\ pc = "compare" => left \in Traces /\ right \in Traces
  /\ pc = "compared" =>
       \E a \in Traces, b \in Traces :
         left = Reverse(a) /\ right = Reverse(b) /\ result = Compare(a, b)

(* A program that compares does not read reports, and the other way round. *)
LEMMA ListsHold == Lists /\ [Next]_vars => Lists'
<1> SUFFICES ASSUME Lists, [Next]_vars PROVE Lists'
  OBVIOUS
<1>1. CASE CompareTraces
  BY <1>1 DEF CompareTraces, Lists
<1>2. CASE UNCHANGED vars
  BY <1>2 DEF vars, compare, Lists
<1>3. CASE (\E l \in Logs : Call(l)) \/ Download \/ NoMorePrefix
  <2>1. pc' \in {"download", "extract"}
    BY <1>3 DEF Call, Download, NoMorePrefix
  <2> QED BY <2>1 DEF Lists
<1>4. CASE Extract \/ ExtractMore \/ ExtractRaises
  <2>1. pc' \in {"find", "extracting", "idle"}
    BY <1>4 DEF Extract, ExtractMore, ExtractRaises
  <2> QED BY <2>1 DEF Lists
<1>5. CASE (\E cases \in Reports : Find(cases)) \/ RemoveDir \/ Wipe \/ ParseReport \/ Kill
  <2>1. pc' \in {"rmdir", "wipe", "parse", "idle"}
    BY <1>5 DEF Find, Then, RemoveDir, Wipe, ParseReport, Kill
  <2> QED BY <2>1 DEF Lists
<1> QED BY <1>1, <1>2, <1>3, <1>4, <1>5 DEF Next

(* The two lists, at every moment.                                         *)
LEMMA ListsInvariant == Spec => []Lists
<1>1. Init => Lists
  BY DEF Init, Lists
<1> QED BY <1>1, ListsHold, PTL DEF Spec

(* The comparison of two traces is right, for traces of any length.        *)
THEOREM ComparisonsAreRight == Spec => []ComparisonIsRight
<1>1. Lists => ComparisonIsRight
  <2> SUFFICES ASSUME Lists, pc = "compared" PROVE ComparisonIsRight
    BY DEF ComparisonIsRight
  <2>1. PICK a \in Traces, b \in Traces :
          left = Reverse(a) /\ right = Reverse(b) /\ result = Compare(a, b)
    BY DEF Lists
  <2>2. a \in Seq(Parts) /\ b \in Seq(Parts)
    BY CorrelationAssumption
  <2>3. /\ Reverse(left) = a /\ Reverse(right) = b
        /\ left \in Seq(Parts) /\ right \in Seq(Parts)
    BY <2>1, <2>2, ReversedTwice
  <2>4. result.top = LongestCommonPrefix({a, b})
    BY <2>1, <2>2, TopsAreLongest DEF Compare
  <2>5. result.bottom = LongestCommonPrefix({left, right})
    BY <2>1, <2>3, TopsAreLongest DEF Compare
  <2>6. Heaviest(result.lcs, a, Len(a), b, Len(b))
    BY <2>1, <2>2, LcsIsHeaviest DEF Compare
  <2>7. \A x : x \in Subsequences(a) \cap Subsequences(b)
                 <=> x \in Seq(Parts) /\ Common(x, a, Len(a), b, Len(b))
    BY <2>2, SubsequencesAreFound DEF Common
  <2>8. /\ result.lcs \in Subsequences(a) \cap Subsequences(b)
        /\ \A s \in Subsequences(a) \cap Subsequences(b) : Weight(s) <= Weight(result.lcs)
    BY <2>6, <2>7 DEF Heaviest
  <2> QED BY <2>3, <2>4, <2>5, <2>8 DEF ComparisonIsRight
<1> QED BY <1>1, ListsInvariant, PTL
=============================================================================
