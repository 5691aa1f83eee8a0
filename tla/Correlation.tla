----------------------------- MODULE Correlation -----------------------------
(***************************************************************************)
(* Programs that look for known failures: get_stack_trace of               *)
(* correlate_flaky_aws.py with its cache of downloaded and extracted logs, *)
(* and compare_stack_traces.py.                                            *)
(*                                                                         *)
(* correlate_flaky_aws.py is called again and again, for the report or for *)
(* the trace, with or without cleanup_after, and may be killed at any      *)
(* step; the cache stays.  Every log of the bucket has one report of the   *)
(* test.  boto3 renames a download when it is complete; tarfile extracts   *)
(* file by file, and a file block by block.                                *)
(***************************************************************************)
EXTENDS StackTraces

CONSTANTS Logs,      \* flaky_log_ids of a project
          NumPrefixes, \* Len(AWS_PREFIX_DIR_TO_CHECK)
          Reports,   \* testcases of the test in a report, as sequences
          Traces,    \* traces given to compare_stack_traces
          Absent     \* no directory, no archive

Texts == [at : BOOLEAN, frames : Seq(Frames)]
Cases == [attempts : Seq(Texts), errors : Seq(Texts), failures : Seq(Texts), err : Seq(Texts)]

ASSUME CorrelationAssumption ==
  /\ NumPrefixes \in Nat \ {0}
  /\ Absent \notin 1 .. NumPrefixes
  /\ Absent \notin [from : 1 .. NumPrefixes, report : {"none", "cut", "whole"}]
  /\ Reports \subseteq Seq(Cases)
  /\ Traces \subseteq Seq(Parts) \ {<<>>}

VARIABLES bucket,   \* per log: the prefixes it is found under
          pc,       \* of the program
          log, cleanup, abstract,   \* arguments of the call
          try,      \* prefix to be tried next
          tgz,      \* per log: prefix the archive in the cache is from
          dir,      \* per log: the directory next to the archive
          answer,   \* what the call has read or returned
          misled,   \* history: logs and prefixes they failed to come from
          cut,      \* history: logs whose extraction or removal broke off
          left, right, result     \* lists compared, and what came out

cache   == <<tgz, dir>>
past    == <<misled, cut>>
compare == <<left, right, result>>
args    == <<log, cleanup, abstract>>
vars    == <<bucket, pc, args, try, cache, answer, past, compare>>

(* How much of the report of the test is in a directory.                   *)
Dirs == {Absent} \cup [from : 1 .. NumPrefixes, report : {"none", "cut", "whole"}]

NoAnswer == [outcome |-> "none", from |-> Absent, whole |-> TRUE,
             report |-> <<>>, trace |-> <<>>]
Raised == [NoAnswer EXCEPT !.outcome = "raised"]

TypeOK ==
  /\ bucket \in [Logs -> SUBSET (1 .. NumPrefixes)]
  /\ pc \in {"idle", "download", "extract", "extracting", "find", "rmdir", "wipe", "parse",
             "compare", "compared"}
  /\ log \in Logs /\ cleanup \in BOOLEAN /\ abstract \in BOOLEAN
  /\ try \in 1 .. NumPrefixes + 1
  /\ tgz \in [Logs -> 1 .. NumPrefixes \cup {Absent}]
  /\ dir \in [Logs -> Dirs]
  /\ misled \subseteq Logs \X (1 .. NumPrefixes) /\ cut \subseteq Logs

Init ==
  /\ log \in Logs /\ cleanup = FALSE /\ abstract = FALSE /\ try = 1
  /\ tgz = [l \in Logs |-> Absent] /\ dir = [l \in Logs |-> Absent]
  /\ answer = NoAnswer
  /\ misled = {} /\ cut = {}
  /\ \/ pc = "idle" /\ bucket \in [Logs -> SUBSET (1 .. NumPrefixes)]
        /\ left = <<>> /\ right = <<>>
     \/ pc = "compare" /\ bucket = [l \in Logs |-> {}]
        /\ left \in Traces /\ right \in Traces
  /\ result = [top |-> <<>>, bottom |-> <<>>, lcs |-> <<>>]

-----------------------------------------------------------------------------
(* aws_tgz_getter                                                          *)

(* What befell a log is forgotten when nothing of it is in the cache.      *)
Call(l) ==
  /\ pc = "idle"
  /\ log' = l /\ cleanup' \in BOOLEAN /\ abstract' \in BOOLEAN /\ try' = 1
  /\ answer' = NoAnswer
  /\ pc' = IF tgz[l] = Absent THEN "download" ELSE "extract"
  /\ misled' = IF tgz[l] = Absent /\ dir[l] = Absent THEN {m \in misled : m[1] # l} ELSE misled
  /\ UNCHANGED <<bucket, cache, cut, compare>>

(* Slip: no break.                                                         *)
DownloadAll ==
  /\ pc = "download" /\ try <= NumPrefixes
  /\ \/ /\ try \in bucket[log]
        /\ tgz' = [tgz EXCEPT ![log] = try] /\ UNCHANGED misled
     \/ /\ misled' = IF try \in bucket[log] THEN misled \cup {<<log, try>>} ELSE misled
        /\ UNCHANGED tgz
  /\ try' = try + 1 /\ UNCHANGED pc
  /\ UNCHANGED <<bucket, args, dir, answer, cut, compare>>

(* One prefix after the other, until a download succeeds.  It may fail     *)
(* although the log is there; the next prefix is tried all the same.       *)
Download ==
  /\ pc = "download" /\ try <= NumPrefixes
  /\ \/ /\ try \in bucket[log]
        /\ tgz' = [tgz EXCEPT ![log] = try]
        /\ pc' = "extract" /\ UNCHANGED <<try, misled>>
     \/ /\ misled' = IF try \in bucket[log] THEN misled \cup {<<log, try>>} ELSE misled
        /\ try' = try + 1 /\ UNCHANGED <<pc, tgz>>
  /\ UNCHANGED <<bucket, args, dir, answer, cut, compare>>

NoMorePrefix ==
  /\ pc = "download" /\ try > NumPrefixes
  /\ pc' = "extract"
  /\ UNCHANGED <<bucket, args, try, cache, answer, past, compare>>

-----------------------------------------------------------------------------
(* get_test_result_xml                                                     *)

(* A directory that is there is taken for the whole archive; without       *)
(* directory and archive, tarfile.open raises.                             *)
Extract ==
  /\ pc = "extract"
  /\ \/ /\ dir[log] # Absent
        /\ pc' = "find" /\ UNCHANGED <<dir, cut, answer>>
     \/ /\ dir[log] = Absent /\ tgz[log] # Absent
        /\ pc' = "extracting" /\ cut' = cut \ {log}
        /\ dir' = [dir EXCEPT ![log] = [from |-> tgz[log], report |-> "none"]]
        /\ UNCHANGED answer
     \/ /\ dir[log] = Absent /\ tgz[log] = Absent
        /\ pc' = "idle" /\ answer' = Raised /\ UNCHANGED <<dir, cut>>
  /\ UNCHANGED <<bucket, args, try, tgz, misled, compare>>

(* Slip: an error of tarfile is printed, and what there is is searched.    *)
ExtractMoreQuietly ==
  /\ pc = "extracting"
  /\ \/ dir[log].report = "none" /\ dir' = [dir EXCEPT ![log].report = "cut"] /\ UNCHANGED pc
     \/ dir[log].report = "cut" /\ dir' = [dir EXCEPT ![log].report = "whole"] /\ pc' = "find"
     \/ pc' = "find" /\ UNCHANGED dir
  /\ UNCHANGED <<bucket, args, try, tgz, answer, past, compare>>

ExtractMore ==
  /\ pc = "extracting"
  /\ \/ dir[log].report = "none" /\ dir' = [dir EXCEPT ![log].report = "cut"] /\ UNCHANGED pc
     \/ dir[log].report = "cut" /\ dir' = [dir EXCEPT ![log].report = "whole"] /\ pc' = "find"
  /\ UNCHANGED <<bucket, args, try, tgz, answer, past, compare>>

(* extractall raises (the disk is full, say); what it has written stays.   *)
ExtractRaises ==
  /\ pc = "extracting" /\ pc' = "idle"
  /\ cut' = cut \cup {log} /\ answer' = Raised
  /\ UNCHANGED <<bucket, args, try, cache, misled, compare>>

(* After the report is read, and cleaned up behind.                        *)
Then == IF abstract THEN "parse" ELSE "idle"

(* Without a report FileNotFoundError is raised; half a report is read     *)
(* like a whole one.                                                       *)
Find(cases) ==
  /\ pc = "find"
  /\ \/ /\ dir[log].report = "none"
        /\ pc' = "idle" /\ answer' = Raised
     \/ /\ dir[log].report # "none"
        /\ pc' = IF cleanup THEN "rmdir" ELSE Then
        /\ answer' = [NoAnswer EXCEPT
                        !.outcome = "text", !.from = dir[log].from,
                        !.whole = (dir[log].report = "whole"), !.report = cases]
  /\ UNCHANGED <<bucket, args, try, cache, past, compare>>

RemoveDir ==
  /\ pc = "rmdir" /\ pc' = "wipe"
  /\ dir' = [dir EXCEPT ![log] = Absent]
  /\ UNCHANGED <<bucket, args, try, tgz, answer, past, compare>>

(* rmtree(aws_report_dir, project): project is taken for ignore_errors, so *)
(* the cache of every project goes.                                        *)
Wipe ==
  /\ pc = "wipe" /\ pc' = Then
  /\ tgz' = [l \in Logs |-> Absent] /\ dir' = [l \in Logs |-> Absent]
  /\ UNCHANGED <<bucket, args, try, answer, past, compare>>

(* parse_failure_trace_from_xml_str, which raises for half a report.       *)
ParseReport ==
  /\ pc = "parse" /\ pc' = "idle"
  /\ answer' = IF answer.whole
               THEN [answer EXCEPT !.outcome = "trace", !.trace = Parse(answer.report)]
               ELSE Raised
  /\ UNCHANGED <<bucket, args, try, cache, past, compare>>

(* The program is killed.  What was being extracted or removed is left as  *)
(* it is at that moment.                                                   *)
Kill ==
  /\ pc \notin {"idle", "compare", "compared"}
  /\ pc' = "idle" /\ answer' = NoAnswer
  /\ CASE pc = "extracting" -> cut' = cut \cup {log} /\ UNCHANGED cache
       [] pc = "rmdir" ->
            /\ cut' = cut \cup {log} /\ UNCHANGED tgz
            /\ dir' \in {dir, [dir EXCEPT ![log].report = "none"]}
       [] pc = "wipe" ->
            /\ tgz' \in {[l \in Logs |-> IF l \in gone THEN Absent ELSE tgz[l]] : gone \in SUBSET Logs}
            /\ \E gone \in SUBSET Logs, broken \in SUBSET {l \in Logs : dir[l] # Absent} :
                 /\ dir' = [l \in Logs |-> IF l \in broken THEN [dir[l] EXCEPT !.report = "none"]
                                           ELSE IF l \in gone THEN Absent ELSE dir[l]]
                 /\ cut' = cut \cup broken
       [] OTHER -> UNCHANGED <<cache, cut>>
  /\ UNCHANGED <<bucket, args, try, misled, compare>>

-----------------------------------------------------------------------------
(* compare_stack_traces, which leaves the lists reversed.                  *)
CompareTraces ==
  /\ pc = "compare" /\ pc' = "compared"
  /\ result' = Compare(left, right)
  /\ left' = Reverse(left) /\ right' = Reverse(right)
  /\ UNCHANGED <<bucket, args, try, cache, answer, past>>

-----------------------------------------------------------------------------
Next ==
  \/ \E l \in Logs : Call(l)
  \/ Download \/ NoMorePrefix \/ Extract \/ ExtractMore \/ ExtractRaises
  \/ \E cases \in Reports : Find(cases)
  \/ RemoveDir \/ Wipe \/ ParseReport \/ Kill
  \/ CompareTraces

Spec == Init /\ [][Next]_vars

-----------------------------------------------------------------------------
(* "Order matters here" (correlate_flaky_aws.py:25): through calls, kills   *)
(* and clean-ups, and from broken directories too, a report or a trace is  *)
(* of a prefix that has the log, and the only prefixes with the log passed *)
(* over for it are those whose download failed since the log was last gone *)
(* from the cache (the code cannot tell this from a log that is not there, *)
(* and an archive that came in its place stays).                           *)
FirstPrefixAnswers ==
  answer.from # Absent =>
    /\ answer.from \in bucket[log]
    /\ \A p \in bucket[log] : p < answer.from => <<log, p>> \in misled

(* A call raises only if no archive was had or if an extraction or removal *)
(* of the log broke off since its directory was made; half a report is     *)
(* returned after such a break alone, and never made a trace of.           *)
OnlyBreaksSpoil ==
  pc = "idle" =>
    /\ answer.outcome = "raised" => log \in cut \/ tgz[log] = Absent
    /\ ~ answer.whole => log \in cut /\ answer.outcome = "text"

ProjectLines(text) ==
  IF ~ text.at /\ text.frames = <<>> THEN <<Message>>
  ELSE SelectSeq(text.frames, LAMBDA frame : frame \in Own)


(* Ways to find n parts one after the other among m.                       *)
Embeddings(n, m) == {e \in [1 .. n -> 1 .. m] : \A k, l \in 1 .. n : k < l => e[k] < e[l]}

Subsequences(s) ==
  {[k \in DOMAIN e |-> s[e[k]]] : e \in UNION {Embeddings(n, Len(s)) : n \in 0 .. Len(s)}}

(* What compare_stack_traces says of two traces: the longest common top    *)
(* and bottom, and a common subsequence with as many characters as any.    *)
ComparisonIsRight ==
  pc = "compared" =>
    LET a == Reverse(left) b == Reverse(right)
        common == Subsequences(a) \cap Subsequences(b)
    IN  /\ result.top = LongestCommonPrefix({a, b})
        /\ result.bottom = LongestCommonPrefix({left, right})
        /\ result.lcs \in common
        /\ \A s \in common : Weight(s) <= Weight(result.lcs)
=============================================================================
