----------------------------- MODULE MinimalLines -----------------------------
(***************************************************************************)
(* minimal_lines_helper of findFlakySleeps.py: from the list of lines at   *)
(* which one thread may be put to sleep, the lists that make the test fail *)
(* in a majority of runs, halved (BISECTION) or taken line by line         *)
(* (ONEBYONE).  Every list the search tries is a contiguous block of the   *)
(* initial list, so a block stands for the file of lines handed to do_run. *)
(*                                                                         *)
(* The batches of runs are those of StableBatch; here they are interleaved *)
(* with the search, and do_run may also raise: TimeoutError when the time  *)
(* for the test method is used up, anything else when its clean-up fails.  *)
(***************************************************************************)
EXTENDS StableBatch, Sequences

CONSTANTS NumLines,  \* len(initialList)
          Bisection, OneByOne,
          Methods    \* the minimizing methods the helper may be called with

ASSUME NumLinesAssumption == NumLines \in Nat \ {0}

ASSUME MethodsAssumption == Methods \subseteq {Bisection, OneByOne} /\ Bisection # OneByOne

VARIABLES mmethod,    \* minimizing method, an argument of the helper
          phase,      \* where the helper is
          work,       \* work_to_do, a stack whose top is its last element
          node,       \* the block whose batch is running, or ran last
          nodeCount,  \* node_count
          assoc,      \* failure_to_sleepy_lines, with the node of each entry
          tracked,    \* the rows track_node adds to the exploration report
          report      \* the list of (failure, lines) pairs returned

helperVars == <<mmethod, phase, work, node, nodeCount, assoc, tracked, report>>
vars == <<batchVars, helperVars>>

Block == {b \in [lo : 1 .. NumLines, hi : 1 .. NumLines] : b.lo <= b.hi}

AllLines == [lo |-> 1, hi |-> NumLines]

Size(b) == b.hi - b.lo + 1

(* failure and lines of a batch; its node number is the id of the row. *)
Entry == [failure : Logged \cup {NoFail}, lines : Block, node : Nat]

ThisEntry == [failure |-> failureLog, lines |-> node, node |-> nodeCount]

Phases == {"called", "root", "pick", "node", "done", "partial", "timeout", "aborted"}

TypeOK ==
  /\ BatchTypeOK
  /\ mmethod \in Methods
  /\ phase \in Phases
  /\ work \in Seq(Block)
  /\ node \in Block
  /\ nodeCount \in Nat
  /\ assoc \in SUBSET Entry
  /\ tracked \in SUBSET Entry
  /\ report \in SUBSET Entry

-----------------------------------------------------------------------------

(* Slips: the middle one line early; halves that share a line; a single    *)
(* line "halved" into itself.                                              *)
MiddleEarly(b) == b.lo + Size(b) \div 2 - 1

Middle(b) == b.lo + Size(b) \div 2

HalvesOverlap(b) ==
  IF Size(b) > 1
  THEN << [lo |-> b.lo, hi |-> Middle(b)], [lo |-> Middle(b), hi |-> b.hi] >>
  ELSE <<>>

HalvesOfOneLine(b) ==
  IF Size(b) > 1
  THEN << [lo |-> b.lo, hi |-> Middle(b) - 1], [lo |-> Middle(b), hi |-> b.hi] >>
  ELSE << b >>

Halves(b) ==
  IF Size(b) > 1
  THEN << [lo |-> b.lo, hi |-> Middle(b) - 1], [lo |-> Middle(b), hi |-> b.hi] >>
  ELSE <<>>

SingleLines(b) == [i \in 1 .. Size(b) |-> [lo |-> b.lo + i - 1, hi |-> b.lo + i - 1]]

(* add_work_children *)
Children(b) == IF mmethod = Bisection THEN Halves(b) ELSE SingleLines(b)

(* Slip: ties are dropped.                                                 *)
MinimalNoTies(entries) ==
  {a \in entries :
     \A b \in entries \ {a} : b.failure = a.failure => Size(a.lines) < Size(b.lines)}

(* The pairs returned: per failure, its shortest lists. *)
Minimal(entries) ==
  {a \in entries :
     \A b \in entries : b.failure = a.failure => Size(a.lines) <= Size(b.lines)}

-----------------------------------------------------------------------------

Init ==
  /\ run = 0
  /\ fails = 0
  /\ failureLog \in Logged \cup {NoFail}
  /\ seen = [f \in Logged |-> 0]
  /\ mmethod \in Methods
  /\ phase = "called"
  /\ work = <<>>
  /\ node = AllLines
  /\ nodeCount = 0
  /\ assoc = {}
  /\ tracked = {}
  /\ report = {}

StartRoot ==
  /\ phase = "called"
  /\ phase' = "root"
  /\ BeginBatch
  /\ UNCHANGED <<mmethod, work, node, nodeCount, assoc, tracked, report>>

RunRoot == phase = "root" /\ DoRun /\ UNCHANGED helperVars

(* The initial list fails: it is recorded and cut up, whatever the failure. *)
RootStable ==
  /\ phase = "root"
  /\ Stable
  /\ phase' = "pick"
  /\ tracked' = tracked \cup {ThisEntry}
  /\ assoc' = {ThisEntry}
  /\ work' = Children(AllLines)
  /\ UNCHANGED <<mmethod, batchVars, node, nodeCount, report>>

(* "Could not fail": nothing is reported, but the batch is tracked. *)
RootUnstable ==
  /\ phase = "root"
  /\ Hopeless
  /\ phase' = "done"
  /\ tracked' = tracked \cup {ThisEntry}
  /\ UNCHANGED <<mmethod, batchVars, work, node, nodeCount, assoc, report>>

StartNode ==
  /\ phase = "pick"
  /\ work # <<>>
  /\ phase' = "node"
  /\ nodeCount' = nodeCount + 1
  /\ node' = work[Len(work)]
  /\ work' = SubSeq(work, 1, Len(work) - 1)
  /\ BeginBatch
  /\ UNCHANGED <<mmethod, assoc, tracked, report>>

RunNode == phase = "node" /\ DoRun /\ UNCHANGED helperVars

(* Slips: a failure that is known already is not looked into; a hang is    *)
(* cut up like any failure.                                                *)
NodeStableKnownFailure ==
  /\ phase = "node"
  /\ Stable
  /\ phase' = "pick"
  /\ assoc' = assoc \cup {ThisEntry}
  /\ work' = IF /\ failureLog # Timeout /\ mmethod = Bisection
                /\ \A a \in assoc : a.failure # failureLog
             THEN work \o Children(node)
             ELSE work
  /\ tracked' = tracked \cup {ThisEntry}
  /\ UNCHANGED <<mmethod, batchVars, node, nodeCount, report>>

NodeStableCutsHangs ==
  /\ phase = "node"
  /\ Stable
  /\ phase' = "pick"
  /\ assoc' = assoc \cup {ThisEntry}
  /\ work' = work \o Children(node)
  /\ tracked' = tracked \cup {ThisEntry}
  /\ UNCHANGED <<mmethod, batchVars, node, nodeCount, report>>

(* A block that hangs the test, or that line by line search reached, is    *)
(* not cut up further.                                                     *)
NodeStable ==
  /\ phase = "node"
  /\ Stable
  /\ phase' = "pick"
  /\ assoc' = assoc \cup {ThisEntry}
  /\ work' = IF failureLog # Timeout /\ mmethod = Bisection
             THEN work \o Children(node)
             ELSE work
  /\ tracked' = tracked \cup {ThisEntry}
  /\ UNCHANGED <<mmethod, batchVars, node, nodeCount, report>>

(* Slip: a block with some failed runs is given no verdict.                *)
NodeUnstableNoFail ==
  /\ phase = "node"
  /\ Hopeless
  /\ failureLog = NoFail
  /\ phase' = "pick"
  /\ tracked' = tracked \cup {ThisEntry}
  /\ UNCHANGED <<mmethod, batchVars, work, node, nodeCount, assoc, report>>

NodeUnstable ==
  /\ phase = "node"
  /\ Hopeless
  /\ phase' = "pick"
  /\ tracked' = tracked \cup {ThisEntry}
  /\ UNCHANGED <<mmethod, batchVars, work, node, nodeCount, assoc, report>>

Finish ==
  /\ phase = "pick"
  /\ work = <<>>
  /\ phase' = "done"
  /\ report' = Minimal(assoc)
  /\ UNCHANGED <<mmethod, batchVars, work, node, nodeCount, assoc, tracked>>

(* do_run raises TimeoutError.  The root batch is outside the try block... *)
RootOutOfTime ==
  /\ phase = "root"
  /\ Undecided
  /\ phase' = "timeout"
  /\ UNCHANGED <<mmethod, batchVars, work, node, nodeCount, assoc, tracked, report>>

(* ... and the loop gives "partial results".                               *)
(* Slip: the results found so far are dropped.                             *)
NodeOutOfTimeDropsResults ==
  /\ phase = "node"
  /\ Undecided
  /\ phase' = "partial"
  /\ UNCHANGED <<mmethod, batchVars, work, node, nodeCount, assoc, tracked, report>>

NodeOutOfTime ==
  /\ phase = "node"
  /\ Undecided
  /\ phase' = "partial"
  /\ report' = Minimal(assoc)
  /\ UNCHANGED <<mmethod, batchVars, work, node, nodeCount, assoc, tracked>>

(* do_run raises anything else, e.g. FileNotFoundError when the JVM died   *)
(* before it created shaToStackTrace.csv: nothing on the way catches it.   *)
Abort ==
  /\ phase \in {"root", "node"}
  /\ Undecided
  /\ phase' = "aborted"
  /\ UNCHANGED <<mmethod, batchVars, work, node, nodeCount, assoc, tracked, report>>

Next ==
  \/ StartRoot \/ RunRoot \/ RootStable \/ RootUnstable
  \/ StartNode \/ RunNode \/ NodeStable \/ NodeUnstable
  \/ Finish \/ RootOutOfTime \/ NodeOutOfTime \/ Abort

Spec == Init /\ [][Next]_vars

(* The driver is one thread, and subprocess.run bounds every run by a      *)
(* timeout: it always gets to its next step.                               *)
FairSpec == Spec /\ WF_vars(Next)

-----------------------------------------------------------------------------
Within(b, c)   == c.lo <= b.lo /\ b.hi <= c.hi
Disjoint(b, c) == b.hi < c.lo \/ c.hi < b.lo

(* Only line by line search over a single line tries the same list twice.  *)
NoRepeats == mmethod = Bisection \/ NumLines > 1

(* An entry whose lines add_work_children cuts up: the initial list, or a  *)
(* list bisection confirmed with anything but a hang.                      *)
IsCut(e) == e.node = 0 \/ (mmethod = Bisection /\ e.failure # Timeout)

(* The lists that still have to be tried, or whose batch was cut short.    *)
Pending ==
  {work[i] : i \in DOMAIN work}
    \cup (IF phase \in {"pick", "done"} THEN {} ELSE {node})

(* No list of lines is run in two batches (each costs up to Runs JVMs):    *)
(* halves never overlap, and a popped list never comes back.               *)
NeverRetried ==
  NoRepeats =>
    /\ \A r, s \in tracked : r.lines = s.lines => r = s
    /\ \A i, j \in DOMAIN work : i # j => Disjoint(work[i], work[j])
    /\ \A i \in DOMAIN work, r \in tracked : work[i] # r.lines

(* The search gives up on nothing that might be smaller: when it ends with *)
(* an empty stack, every line of every list that failed and was longer     *)
(* than one line has been tried as part of a shorter list (unless the list *)
(* hung, or line by line search got to it).                                *)
NothingSkipped ==
  phase = "done" =>
    \A a \in assoc : IsCut(a) /\ Size(a.lines) > 1 =>
      \A l \in a.lines.lo .. a.lines.hi :
        \E r \in tracked :
          /\ Within(r.lines, a.lines)
          /\ Size(r.lines) < Size(a.lines)
          /\ l \in r.lines.lo .. r.lines.hi

IsChild(b, c) == \E i \in DOMAIN Children(c) : Children(c)[i] = b

(* Every list tried after the initial one was cut from a list that is      *)
(* confirmed by then, and never from one that hung the test ("skipping     *)
(* minimal analysis due to deadlock", line 495) nor from one that line by  *)
(* line search got to, whatever happened to the stack in between.          *)
OnlyFailuresAreCut ==
  \A b \in {r.lines : r \in {t \in tracked : t.node # 0}}
             \cup {work[i] : i \in DOMAIN work} :
    \E a \in assoc : IsCut(a) /\ IsChild(b, a.lines)

(* Whenever results are returned, whole or partial, every failure that was *)
(* found is reported, only with lists a stable batch of its own confirmed, *)
(* and no list that was found for it is shorter; and no entry says NoFail. *)
ReportIsMinimal ==
  phase \in {"done", "partial"} =>
    /\ report \subseteq assoc
    /\ \A a \in assoc :
         /\ a.failure \in Logged
         /\ \E p \in report : p.failure = a.failure
         /\ \A p \in report :
              p.failure = a.failure => Size(p.lines) <= Size(a.lines)

(* The search may be called with a failure.log that a search of another    *)
(* thread left; none of its lists is ever filed under that failure.        *)
FailureIsOfTheBatch == phase # "called" => LogIsOfThisBatch

(* The number of batches one thread can cost, root included.               *)
NodeBound ==
  nodeCount <= IF mmethod = Bisection THEN 2 * NumLines - 2 ELSE NumLines

(* The helper always comes back to its caller, by a result or an exception.*)
Termination == <>(phase \in {"done", "partial", "timeout", "aborted"})

(* The helper implements the search over blocks of SleepSearch: a running  *)
(* batch is one block waiting, and entries forget their node.              *)
Findings(entries) == {[failure |-> e.failure, lines |-> e.lines] : e \in entries}

Status ==
  CASE phase = "done" -> "complete"
    [] phase = "partial" -> "partial"
    [] phase \in {"timeout", "aborted"} -> "abandoned"
    [] OTHER -> "searching"

Search == INSTANCE SleepSearch WITH
  Kinds   <- Logged,
  pending <- Pending,
  found   <- Findings(assoc),
  result  <- Findings(report),
  status  <- Status

ImplementsSearch == Search!SearchSpec
=============================================================================
