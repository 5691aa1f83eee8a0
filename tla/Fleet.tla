-------------------------------- MODULE Fleet --------------------------------
(***************************************************************************)
(* A study on many machines: install_flake_rake_to_node.py copies          *)
(* FlakeRake to the nodes, parallel_sleep.py lets GNU parallel give every  *)
(* row of the testMethodsFile to do_remote_experiment.py on some node, and *)
(* accumulate_csv_report_from_s3.py merges what the nodes put into S3.     *)
(*                                                                         *)
(* A node keeps its home directory from one job to the next: the clone in  *)
(* experiment/ and the records in the module of the test.                  *)
(* A job may end with an error between any two steps (an exception, a      *)
(* reboot, a lost connection); parallel then tries it again, on any node.  *)
(* A run of the driver is one step here (see FindFlakySleeps).  Rows of    *)
(* the testMethodsFile are of one project, where leftovers are closest.    *)
(* The three report types are merged alike; the model has one.  That the   *)
(* clone is at the commit asked for is not checked, and not modelled.      *)
(*                                                                         *)
(* An operator whose comment begins with "Slip" is a plausible bug; no     *)
(* action uses it.                                                         *)
(***************************************************************************)
EXTENDS Integers, Sequences, FiniteSets, Functions

CONSTANTS Nodes,    \* lines of the nodes_file
          Tests,    \* rows of the testMethodsFile
          MaxTries, \* --retries
          MaxRows,  \* bound on the rows of a report
          Leftover, \* tests whose zips a run before left in tmp-aws
          Header,   \* first line of every report
          Nobody    \* no test

ASSUME FleetAssumption ==
  /\ Nodes # {}
  /\ MaxTries \in Nat \ {0}
  /\ MaxRows \in Nat \ {0}
  /\ Leftover \subseteq Tests
  /\ Nobody \notin Tests

VARIABLES phase,        \* of the experimenter's scripts
          installing,   \* per node: where its installer thread is
          code, deps,   \* nodes that have FlakeRake, and its dependencies
          job, at,      \* per node: the test it works on and the next step
          cloned,       \* nodes with a clone in experiment/
          records,      \* per node: rows in sleepy-records of that clone
          tries, settled,  \* GNU parallel, per test
          s3,           \* per test: rows in the uploaded zip; <<>> for none
          log,          \* has the log of parallel been uploaded?
          tmp,          \* tmp-aws, per test; kept from the run before, perhaps
          left,         \* zips os.walk has yet to come to
          merged,       \* lines of the merged report
          interrupted   \* has a merge been broken off before?

install == <<installing, code, deps>>
home    == <<cloned, records>>
queue   == <<tries, settled, log>>
merge   == <<tmp, left, merged, interrupted>>
vars    == <<phase, install, job, at, home, queue, s3, merge>>

Row(t, run, i) == [test |-> t, run |-> run, idx |-> i]
Report(t, run, n) == [i \in 1 .. n |-> Row(t, run, i)]
Rows == {Row(t, r, i) : t \in Tests, r \in {"now", "before"}, i \in 1 .. MaxRows}

(* The header line is no row: it has column names where a row has numbers. *)
ASSUME HeaderAssumption == Header \notin Rows

Steps == {"clean", "clone", "driver", "upload"}

TypeOK ==
  /\ phase \in {"install", "check", "parallel", "sync", "merge", "merged", "done", "failed"}
  /\ installing \in [Nodes -> {"copy", "deps", "no"}]
  /\ code \subseteq Nodes /\ deps \subseteq code /\ cloned \subseteq Nodes
  /\ job \in [Nodes -> Tests \cup {Nobody}]
  /\ at \in [Nodes -> Steps]
  /\ records \in [Nodes -> Seq(Rows)]
  /\ tries \in [Tests -> 0 .. MaxTries]
  /\ settled \in [Tests -> {"no", "done", "failed"}]
  /\ log \in BOOLEAN /\ interrupted \in BOOLEAN
  /\ s3 \in [Tests -> Seq(Rows)] /\ tmp \in [Tests -> Seq(Rows)]
  /\ left \subseteq Tests
  /\ merged \in Seq(Rows \cup {Header})

(* FlakeRake may be on a node from before, and so may zips in tmp-aws: of  *)
(* a run that was not cleaned up after, under the names this one will use. *)
Init ==
  /\ phase = "install"
  /\ installing = [n \in Nodes |-> "copy"]
  /\ code \in SUBSET Nodes /\ deps = code
  /\ job = [n \in Nodes |-> Nobody] /\ at = [n \in Nodes |-> "clean"]
  /\ cloned = {} /\ records = [n \in Nodes |-> <<>>]
  /\ tries = [t \in Tests |-> 0] /\ settled = [t \in Tests |-> "no"]
  /\ s3 = [t \in Tests |-> <<>>] /\ log = FALSE
  /\ tmp = [t \in Tests |-> IF t \in Leftover THEN Report(t, "before", 1) ELSE <<>>]
  /\ left = {} /\ merged = <<>> /\ interrupted = FALSE

-----------------------------------------------------------------------------
(* install_flake_rake_to_node.py: a thread per node.  What goes wrong is   *)
(* printed, and the installation goes on with what is on the node.         *)

CopyFlakeRake(n) ==
  /\ phase = "install" /\ installing[n] = "copy"
  /\ code' \in {code, code \cup {n}}
  /\ \E noInstall \in BOOLEAN :
       installing' = [installing EXCEPT ![n] = IF noInstall THEN "no" ELSE "deps"]
  /\ UNCHANGED <<phase, deps, job, at, home, queue, s3, merge>>

InstallFlakeRake(n) ==
  /\ phase = "install" /\ installing[n] = "deps"
  /\ deps' \in {deps, deps \cup ({n} \cap code)}
  /\ installing' = [installing EXCEPT ![n] = "no"]
  /\ UNCHANGED <<phase, code, job, at, home, queue, s3, merge>>

Installed ==
  /\ phase = "install" /\ \A n \in Nodes : installing[n] = "no"
  /\ phase' = "check"
  /\ UNCHANGED <<install, job, at, home, queue, s3, merge>>

(* parallel_sleep.py tries ssh on every node and stops if one fails.       *)
CheckNodes ==
  /\ phase = "check"
  /\ phase' \in {"parallel", "failed"}
  /\ UNCHANGED <<install, job, at, home, queue, s3, merge>>

-----------------------------------------------------------------------------
(* GNU parallel with -j1: one job per node, in any order (--shuf).         *)

(* Slip: tries are not counted.                                            *)
StartJobUncounted(n, t) ==
  /\ phase = "parallel" /\ job[n] = Nobody
  /\ settled[t] = "no" /\ \A m \in Nodes : job[m] # t
  /\ job' = [job EXCEPT ![n] = t] /\ at' = [at EXCEPT ![n] = "clean"]
  /\ UNCHANGED <<phase, install, home, queue, s3, merge>>

StartJob(n, t) ==
  /\ phase = "parallel" /\ job[n] = Nobody
  /\ settled[t] = "no" /\ \A m \in Nodes : job[m] # t
  /\ job' = [job EXCEPT ![n] = t] /\ at' = [at EXCEPT ![n] = "clean"]
  /\ tries' = [tries EXCEPT ![t] = @ + 1]
  /\ UNCHANGED <<phase, install, home, settled, log, s3, merge>>

(* A job exits with an error, after which it is tried again or given up.   *)
(* A driver that stops in the middle leaves the rows it has flushed, and   *)
(* the connection may break when the upload is through.                    *)
FailWith(n, outcome) ==
  /\ job[n] # Nobody
  /\ job' = [job EXCEPT ![n] = Nobody]
  /\ settled' = [settled EXCEPT ![job[n]] = outcome]
  /\ \/ UNCHANGED <<records, s3>>
     \/ /\ at[n] = "driver" /\ UNCHANGED s3
        /\ \E k \in 1 .. MaxRows : records' = [records EXCEPT ![n] = @ \o Report(job[n], "now", k)]
     \/ /\ at[n] = "upload" /\ UNCHANGED records
        /\ s3' = [s3 EXCEPT ![job[n]] = records[n]]
  /\ UNCHANGED <<phase, install, at, cloned, tries, log, merge>>

JobFails(n) == FailWith(n, IF tries[job[n]] = MaxTries THEN "failed" ELSE "no")

Works(n, step) == job[n] # Nobody /\ at[n] = step /\ n \in deps
GoesTo(n, step) ==
  /\ at' = [at EXCEPT ![n] = step]
  /\ UNCHANGED <<phase, install, job, queue, s3, merge>>

-----------------------------------------------------------------------------
(* do_remote_experiment.py, step by step.                                  *)

(* Slip: the directory is created if need be, but not emptied.             *)
CleanKeeps(n) ==
  /\ Works(n, "clean") /\ GoesTo(n, "clone")
  /\ UNCHANGED home

(* experiment/ and .m2 are removed (mkdir raises if that fails), and       *)
(* FlakeRake is installed into the new .m2.                                *)
Clean(n) ==
  /\ Works(n, "clean") /\ GoesTo(n, "clone")
  /\ cloned' = cloned \ {n}
  /\ records' = [records EXCEPT ![n] = <<>>]

(* git clone is not checked.                                               *)
Clone(n) ==
  /\ Works(n, "clone") /\ GoesTo(n, "driver")
  /\ cloned' \in {cloned, cloned \cup {n}}
  /\ UNCHANGED records

(* get_module_path: the paths that match the test class are Booleans here, *)
(* true if there is a /src in the path.  The position of /src in the first *)
(* path that has one cuts off the first path of all.                       *)
ModulePath(paths) ==
  CASE \A i \in DOMAIN paths : ~ paths[i] -> "exception"
    [] OTHER -> IF paths[1] THEN "module" ELSE "garbled"

PathLists == UNION {[1 .. k -> BOOLEAN] : k \in 0 .. 2}

(* git checkout has no directory to run in if the clone failed, and the    *)
(* driver none if the path is garbled: both raise (see JobFails).  A       *)
(* driver that exits with 0 has reported one row or more.                  *)
RunDriver(n, paths) ==
  /\ Works(n, "driver") /\ n \in cloned /\ GoesTo(n, "upload")
  /\ ModulePath(paths) = "module"
  /\ \E k \in 1 .. MaxRows : records' = [records EXCEPT ![n] = @ \o Report(job[n], "now", k)]
  /\ UNCHANGED cloned

(* Slip: a failed upload is printed, like other errors, and not raised.    *)
UploadQuietly(n) ==
  /\ Works(n, "upload")
  /\ s3' \in {s3, [s3 EXCEPT ![job[n]] = records[n]]}
  /\ settled' = [settled EXCEPT ![job[n]] = "done"]
  /\ job' = [job EXCEPT ![n] = Nobody]
  /\ UNCHANGED <<phase, install, at, home, tries, log, merge>>

(* The old zip is removed, a new one made of the records and uploaded.     *)
(* The key is made of run, project, commit and test.                       *)
Upload(n) ==
  /\ Works(n, "upload")
  /\ s3' = [s3 EXCEPT ![job[n]] = records[n]]
  /\ settled' = [settled EXCEPT ![job[n]] = "done"]
  /\ job' = [job EXCEPT ![n] = Nobody]
  /\ UNCHANGED <<phase, install, at, home, tries, log, merge>>

(* parallel exits with an error if a job did for the last time, and then   *)
(* its log is not uploaded.                                                *)
ParallelEnds ==
  /\ phase = "parallel" /\ \A t \in Tests : settled[t] # "no"
  /\ log' = \A t \in Tests : settled[t] = "done"
  /\ phase' = "sync"
  /\ UNCHANGED <<install, job, at, home, tries, settled, s3, merge>>

-----------------------------------------------------------------------------
(* accumulate_csv_report_from_s3.py.                                       *)

Zips(dir) == {t \in Tests : dir[t] # <<>>}

(* "About to remove" is printed, but tmp-aws is not removed: aws sync adds *)
(* to what is there.                                                       *)
Sync ==
  /\ phase = "sync"
  /\ \/ /\ tmp' = [t \in Tests |-> IF s3[t] # <<>> THEN s3[t] ELSE tmp[t]]
        /\ left' = Zips(tmp')
        /\ phase' = "merge"
     \/ phase' = "failed" /\ UNCHANGED <<tmp, left>>
  /\ merged' = <<>>
  /\ UNCHANGED <<install, job, at, home, queue, s3, interrupted>>

(* Slip: past_header is never set, so every header is written.             *)
KeptAll(lines, wroteHeader) == lines

(* The lines of a report that are written.  past_header is of one report,  *)
(* wrote_header of all: in the first report it is the second line that is  *)
(* taken for the header.                                                   *)
Kept(lines, wroteHeader) ==
  IF wroteHeader THEN Tail(lines) ELSE <<lines[1]>> \o SubSeq(lines, 3, Len(lines))

MergeReport(t) ==
  /\ phase = "merge" /\ t \in left
  /\ merged' = merged \o Kept(<<Header>> \o tmp[t], merged # <<>>)
  /\ left' = left \ {t}
  /\ UNCHANGED <<phase, install, job, at, home, queue, s3, tmp, interrupted>>

(* The script is killed and called again.                                  *)
Interrupt ==
  /\ phase = "merge" /\ ~ interrupted
  /\ interrupted' = TRUE /\ phase' = "sync" /\ left' = {}
  /\ UNCHANGED <<install, job, at, home, queue, s3, tmp, merged>>

Merged ==
  /\ phase = "merge" /\ left = {}
  /\ phase' = "merged"
  /\ UNCHANGED <<install, job, at, home, queue, s3, merge>>

(* tmp-aws is removed, unless --no_cleanup was given.                      *)
CleanUp ==
  /\ phase = "merged" /\ phase' = "done"
  /\ \/ tmp' = [t \in Tests |-> <<>>]
     \/ UNCHANGED tmp
  /\ UNCHANGED <<install, job, at, home, queue, s3, left, merged, interrupted>>

-----------------------------------------------------------------------------
Experiment(n) ==
  \/ Clean(n) \/ Clone(n) \/ \E paths \in PathLists : RunDriver(n, paths)
  \/ Upload(n) \/ JobFails(n)

Next ==
  \/ \E n \in Nodes : CopyFlakeRake(n) \/ InstallFlakeRake(n) \/ Experiment(n)
  \/ \E n \in Nodes, t \in Tests : StartJob(n, t)
  \/ Installed \/ CheckNodes \/ ParallelEnds
  \/ Sync \/ \E t \in Tests : MergeReport(t)
  \/ Interrupt \/ Merged \/ CleanUp

Spec == Init /\ [][Next]_vars

(* Every script and every node goes on working.                            *)
FairSpec ==
  /\ Spec
  /\ WF_vars(Installed \/ CheckNodes \/ ParallelEnds \/ Sync \/ Merged \/ CleanUp
             \/ (\E t \in Tests : MergeReport(t)) \/ \E n \in Nodes, t \in Tests : StartJob(n, t))
  /\ \A n \in Nodes : WF_vars(CopyFlakeRake(n) \/ InstallFlakeRake(n)) /\ WF_vars(Experiment(n))

-----------------------------------------------------------------------------
(* The key of a zip names a test: what is in it was measured in this run   *)
(* for that test, by one run of the driver from its first row on, although *)
(* nodes, clones and zip files serve one test after the other.             *)
FiledUnderTheirTest ==
  \A t \in Tests :
    s3[t] # <<>> => \E k \in 1 .. MaxRows : s3[t] = Report(t, "now", k)

(* parallel takes the exit code for the result: when it says that a job    *)
(* was done, its results are there to be merged.                           *)
DoneIsUploaded ==
  \A t \in Tests : settled[t] = "done" => s3[t] # <<>>

(* The merged report has the header once, no row twice, also when the      *)
(* merge was broken off and repeated, and lacks one row at most: the first *)
(* of the report that is read first.                                       *)
MergedOnce ==
  phase = "merged" =>
    LET rows == UNION {Range(tmp[t]) : t \in Tests}
        lost == rows \ Range(merged)
    IN  /\ IsInjective(merged)
        /\ rows # {} => merged[1] = Header
        /\ Cardinality(lost) <= 1
        /\ \A r \in lost : r.idx = 1

(* However often jobs fail, the study ends: every test has a result or was *)
(* tried MaxTries times.                                                   *)
Ends == <>(phase \in {"done", "failed"})
=============================================================================
