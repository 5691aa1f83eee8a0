-------------------------- MODULE MinimalLinesProofs --------------------------
(***************************************************************************)
(* The safety properties of StableBatch and MinimalLines, and that         *)
(* MinimalLines implements SleepSearch, for every length of the list of    *)
(* lines, every number of runs, every set of failures and both methods.    *)
(***************************************************************************)
EXTENDS MinimalLines, WellFoundedInduction, TLAPS

-----------------------------------------------------------------------------
(* The batch.  BatchIInv is its inductive invariant: besides the types,    *)
(* the log of a batch names one of its own failures, and no failure was    *)
(* seen more often than runs failed (which keeps the counters within       *)
(* 0 .. Runs).                                                             *)

BatchIInv ==
  /\ BatchTypeOK
  /\ LogIsOfThisBatch
  /\ \A f \in Logged : seen[f] <= fails

(* The majority test is monotone, so its value after the last run is known *)
(* as soon as Stable or Hopeless holds, and not before; this is plain      *)
(* arithmetic on the counters.                                             *)
LEMMA VerdictArithmetic ==
  ASSUME run \in 0 .. Runs, fails \in 0 .. run
  PROVE  /\ VerdictForced
         /\ Undecided => run < Runs
  <1> USE RunsAssumption DEF IsStableRatio, Stable, Hopeless, Undecided
  <1> DEFINE Outcomes == {fails + k : k \in 0 .. (Runs - run)}
  <1>1. fails \in Outcomes /\ fails + (Runs - run) \in Outcomes
    <2>1. 0 \in 0 .. (Runs - run) /\ Runs - run \in 0 .. (Runs - run)
      OBVIOUS
    <2>2. fails = fails + 0
      OBVIOUS
    <2> QED
      BY <2>1, <2>2
  <1>2. \A k \in Outcomes :
          k \in Nat /\ fails <= k /\ k <= fails + (Runs - run)
    OBVIOUS
  <1>3. Stable <=> \A k \in Outcomes : IsStableRatio(k)
    <2>1. ASSUME Stable, NEW k \in Outcomes
          PROVE  IsStableRatio(k)
      <3>1. k \in Nat /\ fails <= k
        BY <1>2
      <3> QED
        BY <2>1, <3>1
    <2> QED
      BY <1>1, <2>1
  <1>4. Hopeless <=> \A k \in Outcomes : ~ IsStableRatio(k)
    <2>1. ASSUME Hopeless, NEW k \in Outcomes
          PROVE  ~ IsStableRatio(k)
      <3>1. k \in Nat /\ k <= fails + (Runs - run)
        BY <1>2
      <3> QED
        BY <2>1, <3>1
    <2> QED
      BY <1>1, <2>1
  <1>5. run = Runs => ~ Undecided
    OBVIOUS
  <1> QED
    BY <1>3, <1>4, <1>5 DEF VerdictForced

(* A fresh batch satisfies the invariant, whatever the batch before left.  *)
LEMMA FreshBatch == BatchInit => BatchIInv
  BY RunsAssumption, FailuresAssumption
  DEF BatchInit, BatchIInv, BatchTypeOK, LogIsOfThisBatch, Logged

(* A batch starts with its counters and the log empty.                     *)
LEMMA BeginBatchInv == BeginBatch => BatchIInv'
  BY RunsAssumption, FailuresAssumption
  DEF BeginBatch, BatchIInv, BatchTypeOK, LogIsOfThisBatch, Logged

(* One more run keeps the invariant: in each of the four ways it can end.  *)
LEMMA DoRunInv == BatchIInv /\ DoRun => BatchIInv'
  <1> SUFFICES ASSUME BatchIInv, DoRun
               PROVE  BatchIInv'
    OBVIOUS
  <1> USE RunsAssumption, FailuresAssumption
  <1>1. run \in Nat /\ run < Runs /\ fails \in 0 .. run
    <2>1. Undecided
      BY DEF DoRun, RunPasses, RunFails, RunTimesOut, RunDiesUnlogged, RunEndsIn
    <2> QED
      BY <2>1, VerdictArithmetic DEF BatchIInv, BatchTypeOK
  <1>2. CASE RunPasses
    BY <1>1, <1>2 DEF RunPasses, BatchIInv, BatchTypeOK, LogIsOfThisBatch
  <1>3. ASSUME NEW f \in Logged, RunEndsIn(f),
               failureLog' \in Logged, failureLog' = f \/ seen[failureLog'] > 0
        PROVE  BatchIInv'
    <2>1. /\ run' \in 0 .. Runs /\ fails' \in 0 .. run' /\ fails' = fails + 1
          /\ DOMAIN seen' = Logged
          /\ \A g \in Logged : seen'[g] \in Nat /\ seen[g] <= seen'[g] /\ seen'[g] <= fails'
          /\ seen'[f] > 0
      BY <1>1, <1>3 DEF RunEndsIn, BatchIInv, BatchTypeOK
    <2>2. seen' \in [Logged -> 0 .. Runs]
      <3>1. \A g \in Logged : seen'[g] \in 0 .. Runs
        BY <2>1
      <3>2. seen' = [g \in Logged |-> seen'[g]]
        BY <1>3 DEF RunEndsIn, BatchIInv, BatchTypeOK
      <3> QED
        BY <3>1, <3>2
    <2>3. seen'[failureLog'] > 0
      BY <1>3, <2>1 DEF BatchIInv, BatchTypeOK
    <2>4. failureLog' # NoFail
      BY <1>3 DEF Logged
    <2> QED
      BY <1>1, <1>3, <2>1, <2>2, <2>3, <2>4
      DEF BatchIInv, BatchTypeOK, LogIsOfThisBatch
  <1>4. ASSUME NEW f \in Failures, RunFails(f)
        PROVE  BatchIInv'
    BY <1>3, <1>4 DEF RunFails, Logged
  <1>5. CASE RunTimesOut
    BY <1>3, <1>5 DEF RunTimesOut, Logged
  <1>6. CASE RunDiesUnlogged
    <2>1. failureLog' \in Logged /\ (failureLog' = Unlogged \/ seen[failureLog'] > 0)
      BY <1>6 DEF RunDiesUnlogged, BatchIInv, BatchTypeOK, LogIsOfThisBatch, Logged
    <2> QED
      BY <1>3, <1>6, <2>1 DEF RunDiesUnlogged, Logged
  <1> QED
    BY <1>2, <1>4, <1>5, <1>6 DEF DoRun

(* The invariant of the batch.                                             *)
THEOREM BatchInvariant == BatchSpec => []BatchIInv
  <1>1. BatchIInv /\ [BatchNext]_batchVars => BatchIInv'
    <2> SUFFICES ASSUME BatchIInv, [BatchNext]_batchVars
                 PROVE  BatchIInv'
      OBVIOUS
    <2>1. CASE BatchNext
      BY <2>1, DoRunInv, BeginBatchInv DEF BatchNext
    <2>2. CASE UNCHANGED batchVars
      BY <2>2 DEF batchVars, BatchIInv, BatchTypeOK, LogIsOfThisBatch
    <2> QED
      BY <2>1, <2>2
  <1> QED
    BY FreshBatch, <1>1, PTL DEF BatchSpec

(* Stopping a batch early never changes its verdict, for every Runs.       *)
THEOREM EarlyVerdicts == BatchSpec => []VerdictForced
  <1>1. BatchIInv => VerdictForced
    BY VerdictArithmetic DEF BatchIInv, BatchTypeOK
  <1> QED
    BY <1>1, BatchInvariant, PTL

(* The failure a batch reports is one of its own.                          *)
THEOREM LogsAreFresh == BatchSpec => []LogIsOfThisBatch
  BY BatchInvariant, PTL DEF BatchIInv

USE RunsAssumption, FailuresAssumption, NumLinesAssumption, MethodsAssumption

-----------------------------------------------------------------------------
(* Cutting up a block.                                                     *)

(* The initial list is a block and holds every other.                      *)
LEMMA AllLinesIsBlock == AllLines \in Block /\ \A b \in Block : Within(b, AllLines)
  BY DEF AllLines, Block, Within

(* The halves of a list are smaller, disjoint, and lose no line.           *)
LEMMA HalvesSplit ==
  ASSUME NEW b \in Block
  PROVE  /\ Halves(b) \in Seq(Block)
         /\ \A i \in DOMAIN Halves(b) :
              Within(Halves(b)[i], b) /\ Size(Halves(b)[i]) < Size(b)
         /\ \A i, j \in DOMAIN Halves(b) :
              i # j => Disjoint(Halves(b)[i], Halves(b)[j])
         /\ Size(b) > 1 =>
              \A l \in b.lo .. b.hi : \E i \in DOMAIN Halves(b) :
                l \in Halves(b)[i].lo .. Halves(b)[i].hi
  <1> DEFINE left  == [lo |-> b.lo, hi |-> Middle(b) - 1]
             right == [lo |-> Middle(b), hi |-> b.hi]
  <1>1. CASE Size(b) > 1
    <2>1. /\ b.lo \in 1 .. NumLines /\ b.hi \in 1 .. NumLines
          /\ b.lo < Middle(b) /\ Middle(b) <= b.hi /\ Middle(b) \in Int
      BY <1>1 DEF Block, Size, Middle
    <2>2. left \in Block /\ right \in Block
      BY <2>1 DEF Block
    <2>3. Halves(b) = <<left, right>>
      BY <1>1 DEF Halves
    <2>4. Within(left, b) /\ Within(right, b) /\ Disjoint(left, right) /\ Disjoint(right, left)
      BY <2>1 DEF Within, Disjoint
    <2>5. Size(left) < Size(b) /\ Size(right) < Size(b)
      BY <2>1 DEF Size
    <2>6. \A l \in b.lo .. b.hi : l \in left.lo .. left.hi \/ l \in right.lo .. right.hi
      BY <2>1
    <2>7. DOMAIN Halves(b) = {1, 2} /\ Halves(b)[1] = left /\ Halves(b)[2] = right
      BY <2>3
    <2> HIDE DEF left, right
    <2> QED
      BY <2>2, <2>3, <2>4, <2>5, <2>6, <2>7
  <1>2. CASE ~ (Size(b) > 1)
    BY <1>2 DEF Halves
  <1> QED
    BY <1>1, <1>2

(* The single lines of a list are disjoint and lose no line.               *)
LEMMA SingleLinesSplit ==
  ASSUME NEW b \in Block
  PROVE  /\ SingleLines(b) \in Seq(Block)
         /\ \A i \in DOMAIN SingleLines(b) :
              Within(SingleLines(b)[i], b) /\ Size(SingleLines(b)[i]) = 1
         /\ \A i, j \in DOMAIN SingleLines(b) :
              i # j => Disjoint(SingleLines(b)[i], SingleLines(b)[j])
         /\ \A l \in b.lo .. b.hi : \E i \in DOMAIN SingleLines(b) :
              l \in SingleLines(b)[i].lo .. SingleLines(b)[i].hi
  <1>1. b.lo \in Nat /\ b.hi \in Nat /\ Size(b) \in Nat /\ Size(b) = b.hi - b.lo + 1
    BY DEF Block, Size
  <1>2. DOMAIN SingleLines(b) = 1 .. Size(b)
    BY DEF SingleLines
  <1>3. ASSUME NEW i \in 1 .. Size(b)
        PROVE  /\ SingleLines(b)[i] = [lo |-> b.lo + i - 1, hi |-> b.lo + i - 1]
               /\ SingleLines(b)[i] \in Block
               /\ SingleLines(b)[i].lo = b.lo + i - 1
               /\ SingleLines(b)[i].hi = b.lo + i - 1
    <2>1. SingleLines(b)[i] = [lo |-> b.lo + i - 1, hi |-> b.lo + i - 1]
      BY DEF SingleLines
    <2>2. b.lo + i - 1 \in 1 .. NumLines
      BY <1>1 DEF Block
    <2> QED
      BY <2>1, <2>2 DEF Block
  <1>4. SingleLines(b) \in Seq(Block)
    BY <1>1, <1>2, <1>3 DEF SingleLines
  <1>5. ASSUME NEW i \in 1 .. Size(b)
        PROVE  Within(SingleLines(b)[i], b) /\ Size(SingleLines(b)[i]) = 1
    <2>1. /\ SingleLines(b)[i].lo = b.lo + i - 1
          /\ SingleLines(b)[i].hi = b.lo + i - 1
      BY <1>3
    <2> QED
      BY <1>1, <2>1 DEF Within, Size
  <1>6. ASSUME NEW i \in 1 .. Size(b), NEW j \in 1 .. Size(b), i # j
        PROVE  Disjoint(SingleLines(b)[i], SingleLines(b)[j])
    <2>1. /\ SingleLines(b)[i].lo = b.lo + i - 1
          /\ SingleLines(b)[i].hi = b.lo + i - 1
          /\ SingleLines(b)[j].lo = b.lo + j - 1
          /\ SingleLines(b)[j].hi = b.lo + j - 1
      BY <1>3
    <2> QED
      BY <1>1, <1>6, <2>1 DEF Disjoint
  <1>7. ASSUME NEW l \in b.lo .. b.hi
        PROVE  \E i \in 1 .. Size(b) :
                 l \in SingleLines(b)[i].lo .. SingleLines(b)[i].hi
    <2>1. l - b.lo + 1 \in 1 .. Size(b)
      BY <1>1
    <2>2. SingleLines(b)[l - b.lo + 1]
            = [lo |-> b.lo + (l - b.lo + 1) - 1, hi |-> b.lo + (l - b.lo + 1) - 1]
      BY <1>3, <2>1
    <2>3. l \in Int /\ b.lo + (l - b.lo + 1) - 1 = l
      BY <1>1
    <2>4. SingleLines(b)[l - b.lo + 1] = [lo |-> l, hi |-> l]
      BY <2>2, <2>3
    <2>5. l \in SingleLines(b)[l - b.lo + 1].lo .. SingleLines(b)[l - b.lo + 1].hi
      BY <2>3, <2>4
    <2> QED
      BY <2>1, <2>5
  <1> QED
    BY <1>2, <1>4, <1>5, <1>6, <1>7

(* What the search relies on: the children of a block are pieces of it,    *)
(* share no line, and together have all its lines.                         *)
LEMMA ChildrenSplit ==
  ASSUME NEW b \in Block
  PROVE  /\ Children(b) \in Seq(Block)
         /\ \A i \in DOMAIN Children(b) :
              /\ Within(Children(b)[i], b)
              /\ Size(b) > 1 \/ mmethod = Bisection => Size(Children(b)[i]) < Size(b)
         /\ \A i, j \in DOMAIN Children(b) :
              i # j => Disjoint(Children(b)[i], Children(b)[j])
         /\ Size(b) > 1 =>
              \A l \in b.lo .. b.hi : \E i \in DOMAIN Children(b) :
                l \in Children(b)[i].lo .. Children(b)[i].hi
  <1>1. CASE mmethod = Bisection
    BY <1>1, HalvesSplit DEF Children
  <1>2. CASE mmethod # Bisection
    <2>1. Children(b) = SingleLines(b)
      BY <1>2 DEF Children
    <2>2. ASSUME NEW i \in DOMAIN SingleLines(b), Size(b) > 1
          PROVE  Size(SingleLines(b)[i]) < Size(b)
      <3>1. Size(SingleLines(b)[i]) = 1
        BY SingleLinesSplit
      <3> QED
        BY <2>2, <3>1
    <2> QED
      BY <1>2, <2>1, <2>2, SingleLinesSplit
  <1> QED
    BY <1>1, <1>2
-----------------------------------------------------------------------------
(* The inductive invariant.                                                *)

(* The root batch comes first, and the helper returns with an empty stack. *)
Control ==
  /\ phase \in {"called", "root", "timeout"} =>
       /\ work = <<>> /\ node = AllLines /\ nodeCount = 0
       /\ assoc = {} /\ tracked = {} /\ report = {}
  /\ phase = "done" => work = <<>>
  /\ phase = "node" => nodeCount > 0
  /\ phase # "called" => BatchIInv

(* Every confirmed list was tracked, with a failure that was logged.       *)
Rows ==
  /\ assoc \subseteq tracked
  /\ \A a \in assoc : a.failure \in Logged
  /\ phase \in {"done", "partial"} => report = Minimal(assoc)

(* A list still to be tried shares no line with a list tried before, or is *)
(* a proper part of it: this is what keeps NeverRetried.                   *)
Apart(b, c) == Disjoint(b, c) \/ (Within(b, c) /\ Size(b) < Size(c))

Apartness ==
  /\ \A i, j \in DOMAIN work : i # j => Disjoint(work[i], work[j])
  /\ phase = "node" => \A i \in DOMAIN work : Disjoint(work[i], node)
  /\ NoRepeats =>
       /\ \A i \in DOMAIN work, r \in tracked : Apart(work[i], r.lines)
       /\ phase = "node" => \A r \in tracked : Apart(node, r.lines)
       /\ \A r, s \in tracked : r.lines = s.lines => r = s

(* A list is tried because a is cut up.                                    *)
CutFrom(b, a) ==
  /\ IsCut(a)
  /\ IsChild(b, a.lines)
  /\ Within(b, a.lines)
  /\ Size(b) < Size(a.lines) \/ ~ NoRepeats

Parents ==
  /\ \A i \in DOMAIN work : \E a \in assoc : CutFrom(work[i], a)
  /\ phase = "node" => \E a \in assoc : CutFrom(node, a)
  /\ \A r \in tracked : r.node # 0 => \E a \in assoc : CutFrom(r.lines, a)

(* Every line of a list that is cut up is in a shorter list that was       *)
(* tried, is being tried, or waits on the stack.                           *)
Piece(b, a, l) ==
  Within(b, a.lines) /\ Size(b) < Size(a.lines) /\ l \in b.lo .. b.hi

Coverage ==
  phase \notin {"partial", "aborted"} =>
    \A a \in assoc : IsCut(a) /\ Size(a.lines) > 1 =>
      \A l \in a.lines.lo .. a.lines.hi :
        \/ \E r \in tracked : Piece(r.lines, a, l)
        \/ \E i \in DOMAIN work : Piece(work[i], a, l)
        \/ phase = "node" /\ Piece(node, a, l)

IInv ==
  /\ TypeOK
  /\ Control
  /\ Rows
  /\ Apartness
  /\ Parents
  /\ Coverage

(* The state before the first batch.                                       *)
LEMMA InitInv == Init => IInv
  <1> SUFFICES ASSUME Init
               PROVE  IInv
    OBVIOUS
  <1>1. TypeOK
    BY AllLinesIsBlock DEF Init, TypeOK, BatchTypeOK, Phases
  <1>2. Control /\ Rows /\ Apartness /\ Parents /\ Coverage
    BY DEF Init, Control, Rows, Apartness, Parents, Coverage
  <1> QED
    BY <1>1, <1>2 DEF IInv

(* Runs of a batch leave the search alone.                                 *)
LEMMA RunInv ==
  ASSUME IInv, phase \in {"root", "node"}, DoRun, UNCHANGED helperVars
  PROVE  IInv'
  <1>1. BatchIInv'
    BY DoRunInv DEF IInv, Control
  <1>2. TypeOK'
    BY <1>1 DEF IInv, TypeOK, BatchIInv, helperVars
  <1>3. Control'
    BY <1>1 DEF IInv, Control, helperVars
  <1>4. (Rows /\ Apartness /\ Parents /\ Coverage)'
    BY DEF IInv, helperVars, Rows, Apartness, Parents, Coverage, NoRepeats, CutFrom, IsCut, IsChild, Children
  <1> QED
    BY <1>2, <1>3, <1>4 DEF IInv

(* The batch over all lines starts.                                        *)
LEMMA StartRootInv == ASSUME IInv, StartRoot PROVE IInv'
  <1>1. BatchIInv'
    BY BeginBatchInv DEF StartRoot
  <1>2. TypeOK'
    BY <1>1 DEF IInv, TypeOK, BatchIInv, StartRoot, Phases
  <1>3. Control'
    BY <1>1 DEF IInv, Control, StartRoot
  <1>4. (Rows /\ Apartness /\ Parents /\ Coverage)'
    BY DEF IInv, Control, StartRoot, Rows, Apartness, Parents, Coverage
  <1> QED
    BY <1>2, <1>3, <1>4 DEF IInv

(* What a decided batch puts into the tables.                              *)
LEMMA EntryFacts ==
  ASSUME IInv, phase \in {"root", "node"}
  PROVE  /\ ThisEntry \in Entry
         /\ ThisEntry.lines = node
         /\ ThisEntry.failure = failureLog
         /\ ThisEntry.node = nodeCount
         /\ Stable => ThisEntry.failure \in Logged
  <1>1. /\ node \in Block /\ nodeCount \in Nat
        /\ failureLog \in Logged \cup {NoFail} /\ fails \in Nat
        /\ LogIsOfThisBatch
    BY DEF IInv, TypeOK, BatchTypeOK, Control, BatchIInv
  <1>2. Stable => failureLog \in Logged
    BY <1>1 DEF LogIsOfThisBatch, Stable, IsStableRatio
  <1> QED
    BY <1>1, <1>2 DEF ThisEntry, Entry

(* All lines fail stably: the list is confirmed and cut up.                *)
LEMMA RootStableInv == ASSUME IInv, RootStable PROVE IInv'
  <1> DEFINE kids == Children(AllLines)
  <1>1. /\ assoc' = {ThisEntry} /\ tracked' = {ThisEntry} /\ work' = kids
        /\ phase' = "pick" /\ phase = "root"
        /\ node' = AllLines /\ node = AllLines /\ nodeCount' = 0 /\ nodeCount = 0 /\ report' = {}
        /\ mmethod' = mmethod
    BY DEF RootStable, IInv, Control
  <1>2. /\ ThisEntry \in Entry /\ ThisEntry.lines = AllLines
        /\ ThisEntry.failure \in Logged /\ ThisEntry.node = 0
    BY EntryFacts, <1>1 DEF RootStable
  <1>3. /\ kids \in Seq(Block)
        /\ \A i \in DOMAIN kids : Within(kids[i], AllLines)
        /\ NoRepeats => \A i \in DOMAIN kids : Size(kids[i]) < Size(AllLines)
        /\ \A i, j \in DOMAIN kids : i # j => Disjoint(kids[i], kids[j])
        /\ Size(AllLines) > 1 =>
             \A l \in AllLines.lo .. AllLines.hi : \E i \in DOMAIN kids :
               l \in kids[i].lo .. kids[i].hi
        /\ Size(AllLines) > 1 => \A i \in DOMAIN kids : Size(kids[i]) < Size(AllLines)
    <2>1. AllLines \in Block
      BY AllLinesIsBlock
    <2>2. NumLines > 1 => Size(AllLines) > 1
      BY DEF Size, AllLines
    <2> QED
      BY <2>1, <2>2, ChildrenSplit DEF NoRepeats
  <1>4. TypeOK' /\ Control'
    BY <1>1, <1>2, <1>3, AllLinesIsBlock
    DEF IInv, TypeOK, BatchTypeOK, Control, BatchIInv, RootStable, batchVars, Phases,
        LogIsOfThisBatch
  <1>5. Rows'
    BY <1>1, <1>2 DEF Rows
  <1> HIDE DEF kids
  <1>6. Apartness'
    BY <1>1, <1>2, <1>3 DEF Apartness, Apart, NoRepeats
  <1>7. Parents'
    <2>1. ASSUME NEW i \in DOMAIN kids PROVE CutFrom(kids[i], ThisEntry)
      <3>1. IsChild(kids[i], AllLines)
        BY DEF IsChild, kids
      <3> QED
        BY <1>2, <1>3, <3>1 DEF CutFrom, IsCut
    <2> QED
      BY <1>1, <1>2, <2>1 DEF Parents, CutFrom, IsCut, NoRepeats, IsChild, Children
  <1>8. Coverage'
    BY <1>1, <1>2, <1>3 DEF Coverage, Piece
  <1> QED
    BY <1>4, <1>5, <1>6, <1>7, <1>8 DEF IInv

(* All lines do not fail stably: the search is over.                       *)
LEMMA RootUnstableInv == ASSUME IInv, RootUnstable PROVE IInv'
  <1>1. /\ assoc' = {} /\ tracked' = {ThisEntry} /\ work' = <<>> /\ phase' = "done"
        /\ node' = AllLines /\ nodeCount' = 0 /\ report' = {}
        /\ phase = "root" /\ nodeCount = 0 /\ mmethod' = mmethod
    BY DEF RootUnstable, IInv, Control
  <1>2. ThisEntry \in Entry /\ ThisEntry.node = 0
    BY EntryFacts, <1>1
  <1>3. TypeOK' /\ Control'
    BY <1>1, <1>2, AllLinesIsBlock
    DEF IInv, TypeOK, BatchTypeOK, Control, BatchIInv, RootUnstable, batchVars, Phases,
        LogIsOfThisBatch
  <1>4. (Rows /\ Apartness /\ Parents /\ Coverage)'
    BY <1>1, <1>2 DEF Rows, Apartness, Parents, Coverage, Minimal
  <1> QED
    BY <1>3, <1>4 DEF IInv

(* A list is popped; what waits loses it and nothing else.                 *)
LEMMA StartNodeInv == ASSUME IInv, StartNode PROVE IInv'
  <1> DEFINE top == Len(work)
  <1>1. /\ phase = "pick" /\ phase' = "node" /\ nodeCount' = nodeCount + 1
        /\ nodeCount \in Nat /\ UNCHANGED <<mmethod, assoc, tracked, report>>
        /\ work \in Seq(Block) /\ work # <<>>
    BY DEF StartNode, IInv, TypeOK
  <1>2. /\ top \in DOMAIN work /\ node' = work[top] /\ work[top] \in Block
        /\ DOMAIN work' = DOMAIN work \ {top}
        /\ \A i \in DOMAIN work' : work'[i] = work[i]
        /\ work' \in Seq(Block)
    BY <1>1 DEF StartNode
  <1>3. BatchIInv'
    BY BeginBatchInv DEF StartNode
  <1>4. TypeOK' /\ Control'
    BY <1>1, <1>2, <1>3 DEF IInv, TypeOK, Control, BatchIInv, Phases
  <1> HIDE DEF top
  <1>5. Rows'
    BY <1>1 DEF IInv, Rows
  <1>6. Apartness'
    BY <1>1, <1>2 DEF IInv, Apartness, NoRepeats
  <1>7. Parents'
    <2>1. /\ \A i \in DOMAIN work' : \E a \in assoc : CutFrom(work'[i], a)
          /\ \E a \in assoc : CutFrom(node', a)
          /\ \A r \in tracked : r.node # 0 => \E a \in assoc : CutFrom(r.lines, a)
      BY <1>1, <1>2 DEF IInv, Parents
    <2> QED
      BY <1>1, <2>1 DEF Parents, CutFrom, IsCut, NoRepeats, IsChild, Children
  <1>8. Coverage'
    <2>1. ASSUME NEW a \in assoc, IsCut(a), Size(a.lines) > 1,
                 NEW l \in a.lines.lo .. a.lines.hi
          PROVE  \/ \E r \in tracked : Piece(r.lines, a, l)
                 \/ \E i \in DOMAIN work' : Piece(work'[i], a, l)
                 \/ Piece(node', a, l)
      <3>1. \/ \E r \in tracked : Piece(r.lines, a, l)
            \/ \E i \in DOMAIN work : Piece(work[i], a, l)
        BY <1>1, <2>1 DEF IInv, Coverage
      <3> QED
        BY <1>2, <3>1
    <2> QED
      BY <1>1, <2>1 DEF Coverage, IsCut
  <1> QED
    BY <1>4, <1>5, <1>6, <1>7, <1>8 DEF IInv

(* A decided batch of the loop: its list becomes a row, and nothing else   *)
(* about the tables changes unless the list was confirmed.                 *)
LEMMA BlocksOverlap == ASSUME NEW b \in Block PROVE ~ Disjoint(b, b)
  BY DEF Block, Disjoint

(* The popped list was never tried before.                                 *)
LEMMA RowIsNew ==
  ASSUME IInv, phase = "node", NoRepeats, NEW r \in tracked
  PROVE  r.lines # node
  <1>1. Apart(node, r.lines) /\ node \in Block
    BY DEF IInv, Apartness, TypeOK
  <1> QED
    BY <1>1, BlocksOverlap DEF Apart, Block, Size

(* A list that does not fail stably is dropped.                            *)
LEMMA NodeUnstableInv == ASSUME IInv, NodeUnstable PROVE IInv'
  <1>1. /\ phase = "node" /\ phase' = "pick" /\ tracked' = tracked \cup {ThisEntry}
        /\ UNCHANGED <<mmethod, batchVars, work, node, nodeCount, assoc, report>>
    BY DEF NodeUnstable
  <1>2. /\ ThisEntry \in Entry /\ ThisEntry.lines = node /\ ThisEntry.node = nodeCount
        /\ nodeCount > 0
    BY EntryFacts, <1>1 DEF IInv, Control
  <1>3. TypeOK' /\ Control'
    BY <1>1, <1>2
    DEF IInv, TypeOK, BatchTypeOK, Control, BatchIInv, batchVars, Phases, LogIsOfThisBatch
  <1>4. Rows'
    BY <1>1 DEF IInv, Rows
  <1>5. Apartness'
    <2>1. NoRepeats => \A r \in tracked : r.lines # ThisEntry.lines
      BY <1>1, <1>2, RowIsNew
    <2>2. ASSUME NEW b, NEW c, Disjoint(b, c) PROVE Apart(b, c)
      BY <2>2 DEF Apart
    <2> QED
      BY <1>1, <1>2, <2>1, <2>2 DEF IInv, Apartness, NoRepeats
  <1>6. Parents'
    BY <1>1, <1>2 DEF IInv, Parents, CutFrom, IsCut, NoRepeats, IsChild, Children
  <1>7. Coverage'
    <2>1. ASSUME NEW a \in assoc, IsCut(a), Size(a.lines) > 1,
                 NEW l \in a.lines.lo .. a.lines.hi
          PROVE  \/ \E r \in tracked' : Piece(r.lines, a, l)
                 \/ \E i \in DOMAIN work : Piece(work[i], a, l)
      <3>1. \/ \E r \in tracked : Piece(r.lines, a, l)
            \/ \E i \in DOMAIN work : Piece(work[i], a, l)
            \/ Piece(ThisEntry.lines, a, l)
        BY <1>1, <1>2, <2>1 DEF IInv, Coverage
      <3> QED
        BY <1>1, <3>1
    <2> QED
      BY <1>1, <2>1 DEF Coverage, IsCut
  <1> QED
    BY <1>3, <1>4, <1>5, <1>6, <1>7 DEF IInv

(* The search reports, at its end or when time is up.                      *)
LEMMA FinishInv ==
  ASSUME IInv, Finish \/ NodeOutOfTime
  PROVE  IInv'
  <1>1. /\ UNCHANGED <<mmethod, batchVars, work, node, nodeCount, assoc, tracked>>
        /\ report' = Minimal(assoc)
        /\ \/ phase = "pick" /\ phase' = "done" /\ work = <<>>
           \/ phase = "node" /\ phase' = "partial"
    BY DEF Finish, NodeOutOfTime
  <1>2. TypeOK' /\ Control'
    BY <1>1
    DEF IInv, TypeOK, BatchTypeOK, Control, BatchIInv, batchVars, Phases, LogIsOfThisBatch,
        Minimal
  <1>3. (Rows /\ Apartness /\ Parents)'
    BY <1>1 DEF IInv, Rows, Apartness, Parents, Minimal, NoRepeats, CutFrom, IsCut, IsChild, Children
  <1>4. Coverage'
    BY <1>1 DEF IInv, Coverage, IsCut
  <1> QED
    BY <1>2, <1>3, <1>4 DEF IInv

(* An exception leaves the tables alone.                                   *)
LEMMA RaiseInv ==
  ASSUME IInv, RootOutOfTime \/ Abort
  PROVE  IInv'
  <1>1. /\ UNCHANGED <<mmethod, batchVars, work, node, nodeCount, assoc, tracked, report>>
        /\ \/ phase = "root" /\ phase' = "timeout"
           \/ phase \in {"root", "node"} /\ phase' = "aborted"
    BY DEF RootOutOfTime, Abort
  <1>2. TypeOK' /\ Control'
    BY <1>1
    DEF IInv, TypeOK, BatchTypeOK, Control, BatchIInv, batchVars, Phases, LogIsOfThisBatch
  <1>3. (Rows /\ Apartness /\ Parents)'
    BY <1>1 DEF IInv, Rows, Apartness, Parents, NoRepeats, CutFrom, IsCut, IsChild, Children
  <1>4. Coverage'
    <2>1. CASE phase' = "timeout"
      BY <1>1, <2>1 DEF IInv, Control, Coverage
    <2>2. CASE phase' = "aborted"
      BY <2>2 DEF Coverage
    <2> QED
      BY <1>1, <2>1, <2>2
  <1> QED
    BY <1>2, <1>3, <1>4 DEF IInv

(* Where the elements of s \o t come from.                                 *)
LEMMA Concatenation ==
  ASSUME NEW S, NEW s \in Seq(S), NEW t \in Seq(S)
  PROVE  /\ \A i \in DOMAIN s : i \in DOMAIN (s \o t) /\ (s \o t)[i] = s[i]
         /\ \A k \in DOMAIN t :
              Len(s) + k \in DOMAIN (s \o t) /\ (s \o t)[Len(s) + k] = t[k]
         /\ \A i \in DOMAIN (s \o t) :
              \/ i \in DOMAIN s
              \/ /\ i \notin DOMAIN s
                 /\ \E k \in DOMAIN t : i = Len(s) + k /\ (s \o t)[i] = t[k]
         /\ s \o t \in Seq(S)
  <1>1. /\ DOMAIN s = 1 .. Len(s) /\ DOMAIN t = 1 .. Len(t)
        /\ DOMAIN (s \o t) = 1 .. (Len(s) + Len(t))
        /\ Len(s) \in Nat /\ Len(t) \in Nat
    OBVIOUS
  <1>2. \A k \in DOMAIN t :
          Len(s) + k \in DOMAIN (s \o t) /\ (s \o t)[Len(s) + k] = t[k]
    BY <1>1
  <1>3. ASSUME NEW i \in DOMAIN (s \o t), i \notin DOMAIN s
        PROVE  \E k \in DOMAIN t : i = Len(s) + k /\ (s \o t)[i] = t[k]
    <2>1. i - Len(s) \in DOMAIN t /\ i = Len(s) + (i - Len(s))
      BY <1>1, <1>3
    <2> QED
      BY <1>2, <2>1
  <1> QED
    BY <1>1, <1>2, <1>3

(* Disjointness and order of blocks, passed down to a piece.               *)
LEMMA PieceOfApart ==
  ASSUME NEW b \in Block, NEW c \in Block, NEW d \in Block,
         Within(c, b), Size(c) < Size(b), Apart(b, d)
  PROVE  Apart(c, d)
  <1>1. CASE Disjoint(b, d)
    BY <1>1 DEF Apart, Disjoint, Within, Block
  <1>2. CASE Within(b, d) /\ Size(b) < Size(d)
    BY <1>2 DEF Apart, Within, Size, Block
  <1> QED
    BY <1>1, <1>2 DEF Apart

(* A confirmed list of the loop: bisection puts its children on the stack, *)
(* unless the test hung.                                                   *)
LEMMA NodeStableInv == ASSUME IInv, NodeStable PROVE IInv'
  <1> DEFINE cut == failureLog # Timeout /\ mmethod = Bisection
             kids == IF cut THEN Children(node) ELSE <<>>
  <1>1. /\ phase = "node" /\ phase' = "pick"
        /\ tracked' = tracked \cup {ThisEntry} /\ assoc' = assoc \cup {ThisEntry}
        /\ UNCHANGED <<mmethod, batchVars, node, nodeCount, report>>
        /\ work \in Seq(Block) /\ node \in Block
    BY DEF NodeStable, IInv, TypeOK
  <1>2. /\ ThisEntry \in Entry /\ ThisEntry.lines = node /\ ThisEntry.node = nodeCount
        /\ ThisEntry.failure = failureLog /\ failureLog \in Logged /\ nodeCount > 0
        /\ IsCut(ThisEntry) <=> cut
    BY EntryFacts, <1>1 DEF IInv, Control, TypeOK, NodeStable, IsCut
  <1>3. /\ kids \in Seq(Block)
        /\ \A i \in DOMAIN kids : Within(kids[i], node) /\ Size(kids[i]) < Size(node)
        /\ \A i, j \in DOMAIN kids : i # j => Disjoint(kids[i], kids[j])
        /\ cut /\ Size(node) > 1 =>
             \A l \in node.lo .. node.hi : \E i \in DOMAIN kids :
               l \in kids[i].lo .. kids[i].hi
        /\ DOMAIN kids # {} => cut
    <2>1. CASE cut
      <3>1. kids = Children(node) /\ mmethod = Bisection
        BY <2>1
      <3>2. /\ Children(node) \in Seq(Block)
            /\ \A i \in DOMAIN Children(node) :
                 /\ Within(Children(node)[i], node)
                 /\ Size(Children(node)[i]) < Size(node)
            /\ \A i, j \in DOMAIN Children(node) :
                 i # j => Disjoint(Children(node)[i], Children(node)[j])
            /\ Size(node) > 1 =>
                 \A l \in node.lo .. node.hi : \E i \in DOMAIN Children(node) :
                   l \in Children(node)[i].lo .. Children(node)[i].hi
        BY <1>1, <3>1, ChildrenSplit
      <3> HIDE DEF kids, cut
      <3> QED
        BY <2>1, <3>1, <3>2
    <2>2. CASE ~ cut
      <3>1. kids = <<>> /\ DOMAIN kids = {} /\ kids \in Seq(Block)
        BY <2>2
      <3> HIDE DEF kids, cut
      <3> QED
        BY <2>2, <3>1
    <2> QED
      BY <2>1, <2>2
  <1>4. work' = work \o kids
    BY <1>1 DEF NodeStable
  <1> HIDE DEF cut, kids
  <1>5. /\ \A i \in DOMAIN work : i \in DOMAIN work' /\ work'[i] = work[i]
        /\ \A k \in DOMAIN kids :
             Len(work) + k \in DOMAIN work' /\ work'[Len(work) + k] = kids[k]
        /\ \A i \in DOMAIN work' :
             \/ i \in DOMAIN work
             \/ /\ i \notin DOMAIN work
                /\ \E k \in DOMAIN kids : i = Len(work) + k /\ work'[i] = kids[k]
        /\ work' \in Seq(Block)
    BY <1>1, <1>3, <1>4, Concatenation
  <1>6. TypeOK' /\ Control'
    BY <1>1, <1>2, <1>5
    DEF IInv, TypeOK, BatchTypeOK, Control, BatchIInv, batchVars, Phases, LogIsOfThisBatch
  <1>7. Rows'
    BY <1>1, <1>2 DEF IInv, Rows
  <1>8. Apartness'
    <2>1. /\ \A i, j \in DOMAIN work : i # j => Disjoint(work[i], work[j])
          /\ \A i \in DOMAIN work : Disjoint(work[i], node) /\ work[i] \in Block
          /\ \A r \in tracked : r.lines \in Block
          /\ NoRepeats =>
               /\ \A i \in DOMAIN work, r \in tracked : Apart(work[i], r.lines)
               /\ \A r \in tracked : Apart(node, r.lines)
               /\ \A r, s \in tracked : r.lines = s.lines => r = s
      BY <1>1 DEF IInv, Apartness, TypeOK, Entry
    <2>2. \A k \in DOMAIN kids : kids[k] \in Block
      BY <1>3
    <2>3. ASSUME NEW i \in DOMAIN work, NEW k \in DOMAIN kids
          PROVE  Disjoint(work[i], kids[k]) /\ Disjoint(kids[k], work[i])
      <3>1. Disjoint(work[i], node) /\ Within(kids[k], node)
        BY <1>3, <2>1
      <3> QED
        BY <1>1, <2>1, <2>2, <3>1 DEF Disjoint, Within, Block
    <2>4. ASSUME NoRepeats, NEW k \in DOMAIN kids, NEW r \in tracked'
          PROVE  Apart(kids[k], r.lines)
      <3>1. Within(kids[k], node) /\ Size(kids[k]) < Size(node)
        BY <1>3
      <3>2. CASE r = ThisEntry
        BY <1>2, <3>1, <3>2 DEF Apart
      <3>3. CASE r \in tracked
        BY <1>1, <2>1, <2>2, <2>4, <3>1, <3>3, PieceOfApart
      <3> QED
        BY <1>1, <3>2, <3>3
    <2>5. NoRepeats => \A i \in DOMAIN work, r \in tracked' : Apart(work[i], r.lines)
      BY <1>1, <1>2, <2>1 DEF Apart
    <2>6. \A i, j \in DOMAIN work' : i # j => Disjoint(work'[i], work'[j])
      <3> SUFFICES ASSUME NEW i \in DOMAIN work', NEW j \in DOMAIN work', i # j
                   PROVE  Disjoint(work'[i], work'[j])
        OBVIOUS
      <3>1. CASE i \in DOMAIN work /\ j \in DOMAIN work
        BY <1>5, <2>1, <3>1
      <3>2. CASE i \in DOMAIN work /\ j \notin DOMAIN work
        BY <1>5, <2>3, <3>2
      <3>3. CASE i \notin DOMAIN work /\ j \in DOMAIN work
        BY <1>5, <2>3, <3>3
      <3>4. CASE i \notin DOMAIN work /\ j \notin DOMAIN work
        BY <1>3, <1>5, <3>4
      <3> QED
        BY <3>1, <3>2, <3>3, <3>4
    <2>7. NoRepeats => \A i \in DOMAIN work', r \in tracked' : Apart(work'[i], r.lines)
      BY <1>5, <2>4, <2>5
    <2>8. NoRepeats => \A r, s \in tracked' : r.lines = s.lines => r = s
      BY <1>1, <1>2, <2>1, RowIsNew
    <2> QED
      BY <1>1, <2>6, <2>7, <2>8 DEF Apartness, NoRepeats
  <1>9. Parents'
    <2>1. ASSUME NEW k \in DOMAIN kids
          PROVE  CutFrom(kids[k], ThisEntry)
      <3>1. cut
        BY <1>3
      <3>2. kids = Children(node)
        BY <3>1 DEF kids
      <3>3. IsChild(kids[k], node)
        BY <3>2 DEF IsChild
      <3> QED
        BY <1>2, <1>3, <3>1, <3>3 DEF CutFrom
    <2>2. \A i \in DOMAIN work' : \E a \in assoc' : CutFrom(work'[i], a)
      BY <1>1, <1>5, <2>1 DEF IInv, Parents
    <2>3. \A r \in tracked' : r.node # 0 => \E a \in assoc' : CutFrom(r.lines, a)
      BY <1>1, <1>2 DEF IInv, Parents
    <2> QED
      BY <1>1, <2>2, <2>3 DEF Parents, CutFrom, IsCut, NoRepeats, IsChild, Children
  <1>10. Coverage'
    <2>1. ASSUME NEW a \in assoc', IsCut(a), Size(a.lines) > 1,
                 NEW l \in a.lines.lo .. a.lines.hi
          PROVE  \/ \E r \in tracked' : Piece(r.lines, a, l)
                 \/ \E i \in DOMAIN work' : Piece(work'[i], a, l)
      <3>1. CASE a \in assoc
        <4>1. \/ \E r \in tracked : Piece(r.lines, a, l)
              \/ \E i \in DOMAIN work : Piece(work[i], a, l)
              \/ Piece(ThisEntry.lines, a, l)
          BY <1>1, <1>2, <2>1, <3>1 DEF IInv, Coverage
        <4> QED
          BY <1>1, <1>5, <4>1
      <3>2. CASE a = ThisEntry
        <4>1. cut /\ Size(node) > 1 /\ l \in node.lo .. node.hi
          BY <1>2, <2>1, <3>2
        <4>2. PICK k \in DOMAIN kids : l \in kids[k].lo .. kids[k].hi
          BY <1>3, <4>1
        <4>3. Piece(kids[k], a, l)
          BY <1>2, <1>3, <3>2, <4>2 DEF Piece
        <4> QED
          BY <1>5, <4>3
      <3> QED
        BY <1>1, <2>1, <3>1, <3>2
    <2> QED
      BY <1>1, <2>1 DEF Coverage, IsCut
  <1> QED
    BY <1>6, <1>7, <1>8, <1>9, <1>10 DEF IInv

(* Nothing changes.                                                        *)
LEMMA StutterInv == ASSUME IInv, UNCHANGED vars PROVE IInv'
  <1>1. TypeOK' /\ Control'
    BY DEF IInv, TypeOK, BatchTypeOK, Control, BatchIInv, LogIsOfThisBatch, vars, batchVars,
           helperVars
  <1>2. (Rows /\ Apartness /\ Parents /\ Coverage)'
    BY DEF IInv, Rows, Apartness, Parents, Coverage, vars, helperVars, NoRepeats, CutFrom, IsCut, IsChild, Children
  <1> QED
    BY <1>1, <1>2 DEF IInv

(* The inductive invariant holds in every reachable state.                 *)
THEOREM Invariant == Spec => []IInv
  <1>1. IInv /\ [Next]_vars => IInv'
    <2> SUFFICES ASSUME IInv, [Next]_vars
                 PROVE  IInv'
      OBVIOUS
    <2>1. CASE RunRoot \/ RunNode
      BY <2>1, RunInv DEF RunRoot, RunNode
    <2>2. CASE StartRoot
      BY <2>2, StartRootInv
    <2>3. CASE RootStable
      BY <2>3, RootStableInv
    <2>4. CASE RootUnstable
      BY <2>4, RootUnstableInv
    <2>5. CASE StartNode
      BY <2>5, StartNodeInv
    <2>6. CASE NodeStable
      BY <2>6, NodeStableInv
    <2>7. CASE NodeUnstable
      BY <2>7, NodeUnstableInv
    <2>8. CASE Finish \/ NodeOutOfTime
      BY <2>8, FinishInv
    <2>9. CASE RootOutOfTime \/ Abort
      BY <2>9, RaiseInv
    <2>10. CASE UNCHANGED vars
      BY <2>10, StutterInv
    <2> QED
      BY <2>1, <2>2, <2>3, <2>4, <2>5, <2>6, <2>7, <2>8, <2>9, <2>10 DEF Next
  <1> QED
    BY InitInv, <1>1, PTL DEF Spec

(* Types: in particular every list handed to do_run is non-empty and part  *)
(* of the initial list.                                                    *)
THEOREM TypeCorrect == Spec => []TypeOK
  BY Invariant, PTL DEF IInv

(* A list is filed under a failure that one of its own runs ended in.      *)
THEOREM FailuresAreOfTheBatch == Spec => []FailureIsOfTheBatch
  <1>1. IInv => FailureIsOfTheBatch
    BY DEF IInv, Control, BatchIInv, FailureIsOfTheBatch
  <1> QED
    BY Invariant, <1>1, PTL

(* No two batches of one search run the same lines.                        *)
THEOREM NoListIsRetried == Spec => []NeverRetried
  <1>1. IInv => NeverRetried
    <2> SUFFICES ASSUME IInv, NoRepeats
                 PROVE  NeverRetried
      BY DEF NeverRetried
    <2>1. ASSUME NEW i \in DOMAIN work, NEW r \in tracked
          PROVE  work[i] # r.lines
      <3>1. work[i] \in Block /\ Apart(work[i], r.lines)
        BY DEF IInv, TypeOK, Apartness
      <3> QED
        BY <3>1, BlocksOverlap DEF Apart, Block, Size
    <2> QED
      BY <2>1 DEF IInv, Apartness, NeverRetried
  <1> QED
    BY Invariant, <1>1, PTL

(* A search that runs to its end has cut every confirmed list as far as    *)
(* its method cuts.                                                        *)
THEOREM NoLineIsSkipped == Spec => []NothingSkipped
  <1>1. IInv => NothingSkipped
    <2> SUFFICES ASSUME IInv, phase = "done",
                        NEW a \in assoc, IsCut(a), Size(a.lines) > 1,
                        NEW l \in a.lines.lo .. a.lines.hi
                 PROVE  \E r \in tracked : Piece(r.lines, a, l)
      BY DEF NothingSkipped, Piece
    <2>1. work = <<>>
      BY DEF IInv, Control
    <2> QED
      BY <2>1 DEF IInv, Coverage
  <1> QED
    BY Invariant, <1>1, PTL

(* Only pieces of confirmed lists are tried, and none of a list that hung. *)
THEOREM OnlyConfirmedListsAreCut == Spec => []OnlyFailuresAreCut
  <1>1. IInv => OnlyFailuresAreCut
    BY DEF IInv, Parents, CutFrom, OnlyFailuresAreCut
  <1> QED
    BY Invariant, <1>1, PTL

-----------------------------------------------------------------------------
(* The report.                                                             *)

(* A set of naturals has a least element.                                  *)
LEMMA LeastElement ==
  ASSUME NEW T, T \subseteq Nat, T # {}
  PROVE  \E m \in T : \A k \in T : m <= k
  <1> DEFINE R == OpToRel(<, Nat)
  <1>1. \A x, y \in Nat : x < y => <<x, y>> \in R
    BY DEF OpToRel
  <1> HIDE DEF R
  <1>2. IsWellFoundedOn(R, Nat)
    BY NatLessThanWellFounded DEF R
  <1>3. \E x \in T : \A y \in T : ~ (<<y, x>> \in R)
    BY <1>2, WFMin
  <1>4. PICK m \in T : \A k \in T : ~ (<<k, m>> \in R)
    BY <1>3
  <1>5. ASSUME NEW k \in T PROVE m <= k
    <2>1. m \in Nat /\ k \in Nat /\ ~ (k < m)
      BY <1>1, <1>4
    <2> QED
      BY <2>1
  <1> QED
    BY <1>5

(* Every failure found has a row in the report.                            *)
LEMMA MinimalCovers ==
  ASSUME NEW es \in SUBSET Entry, NEW a \in es
  PROVE  \E p \in Minimal(es) : p.failure = a.failure
  <1> DEFINE same  == {e \in es : e.failure = a.failure}
             sizes == {Size(e.lines) : e \in same}
  <1>1. ASSUME NEW e \in es PROVE Size(e.lines) \in Nat
    BY DEF Entry, Block, Size
  <1>2. sizes \subseteq Nat /\ sizes # {}
    BY <1>1
  <1>3. PICK m \in sizes : \A k \in sizes : m <= k
    <2> HIDE DEF sizes
    <2> QED
      BY <1>2, LeastElement
  <1>4. PICK p \in same : m = Size(p.lines)
    BY <1>3
  <1>5. \A e \in es : e.failure = p.failure => Size(p.lines) <= Size(e.lines)
    BY <1>3, <1>4
  <1> QED
    BY <1>4, <1>5 DEF Minimal

(* Whole or partial, the report has every failure found, with its shortest *)
(* confirmed lists, and no other.                                          *)
THEOREM ReportsAreMinimal == Spec => []ReportIsMinimal
  <1>1. IInv => ReportIsMinimal
    <2> SUFFICES ASSUME IInv, phase \in {"done", "partial"}
                 PROVE  ReportIsMinimal
      BY DEF ReportIsMinimal
    <2>1. /\ report = Minimal(assoc) /\ assoc \in SUBSET Entry
          /\ \A a \in assoc : a.failure \in Logged
      BY DEF IInv, Rows, TypeOK
    <2>2. \A a \in assoc : \E p \in report : p.failure = a.failure
      BY <2>1, MinimalCovers
    <2>3. \A a \in assoc : \A p \in report :
            p.failure = a.failure => Size(p.lines) <= Size(a.lines)
      BY <2>1 DEF Minimal
    <2> QED
      BY <2>1, <2>2, <2>3 DEF ReportIsMinimal, Minimal
  <1> QED
    BY Invariant, <1>1, PTL

-----------------------------------------------------------------------------
(* The number of batches.                                                  *)

(* Bisection pushes the front half before the back half and pops from the  *)
(* end, so what waits is, from the bottom up, a prefix of the initial list *)
(* cut into consecutive blocks, and the list being tried comes next.       *)
PrefixLines == IF work = <<>> THEN 0 ELSE work[Len(work)].hi

StackIsPrefix ==
  /\ work # <<>> => work[1].lo = 1
  /\ \A i \in DOMAIN work : i <= work[i].hi
  /\ \A i, j \in DOMAIN work : j = i + 1 => work[j].lo = work[i].hi + 1
  /\ phase = "node" => node.lo = PrefixLines + 1

(* A block of n lines costs its own batch and at most 2n - 2 below it: the *)
(* batches so far and those the stack can still cost stay within 2n - 2.   *)
BisectionBudget ==
  /\ phase = "pick" =>
       nodeCount + 2 * PrefixLines - Len(work) <= 2 * NumLines - 2
  /\ phase = "node" =>
       nodeCount + 2 * PrefixLines - Len(work) + 2 * Size(node) - 2 <= 2 * NumLines - 2

Budget ==
  /\ NodeBound
  /\ mmethod = Bisection => StackIsPrefix /\ BisectionBudget
  /\ mmethod = OneByOne /\ phase # "called" => nodeCount + Len(work) <= NumLines

(* What waits is no more lists than lines.                                 *)
LEMMA PrefixIsLong ==
  ASSUME work \in Seq(Block), StackIsPrefix
  PROVE  PrefixLines \in Nat /\ Len(work) <= PrefixLines /\ PrefixLines <= NumLines
  <1>1. CASE work = <<>>
    BY <1>1 DEF PrefixLines
  <1>2. CASE work # <<>>
    <2>1. Len(work) \in DOMAIN work /\ work[Len(work)] \in Block /\ Len(work) \in Nat
      BY <1>2
    <2>2. Len(work) <= work[Len(work)].hi
      BY <2>1 DEF StackIsPrefix
    <2>3. PrefixLines = work[Len(work)].hi
      BY <1>2 DEF PrefixLines
    <2> QED
      BY <2>1, <2>2, <2>3 DEF Block
  <1> QED
    BY <1>1, <1>2

(* What is pushed continues the prefix, in order: nothing, or two halves.  *)
LEMMA PushKeepsPrefix ==
  ASSUME NEW s \in Seq(Block), NEW b \in Block,
         s # <<>> => s[1].lo = 1,
         \A i \in DOMAIN s : i <= s[i].hi,
         \A i, j \in DOMAIN s : j = i + 1 => s[j].lo = s[i].hi + 1,
         b.lo = (IF s = <<>> THEN 0 ELSE s[Len(s)].hi) + 1,
         Size(b) > 1
  PROVE  LET w == s \o Halves(b)
         IN  /\ w \in Seq(Block) /\ Len(w) = Len(s) + 2 /\ w # <<>>
             /\ w[1].lo = 1
             /\ \A i \in DOMAIN w : i <= w[i].hi
             /\ \A i, j \in DOMAIN w : j = i + 1 => w[j].lo = w[i].hi + 1
             /\ w[Len(w)].hi = b.hi
  <1> DEFINE left  == [lo |-> b.lo, hi |-> Middle(b) - 1]
             right == [lo |-> Middle(b), hi |-> b.hi]
             w     == s \o Halves(b)
             n     == Len(s)
             last  == IF s = <<>> THEN 0 ELSE s[Len(s)].hi
  <1>1. /\ b.lo \in 1 .. NumLines /\ b.hi \in 1 .. NumLines
        /\ b.lo < Middle(b) /\ Middle(b) <= b.hi /\ Middle(b) \in Int
    BY DEF Block, Size, Middle
  <1>2. left \in Block /\ right \in Block /\ Halves(b) = <<left, right>>
    BY <1>1 DEF Block, Halves
  <1>3. /\ n \in Nat /\ DOMAIN s = 1 .. n /\ DOMAIN w = 1 .. (n + 2)
        /\ w \in Seq(Block) /\ Len(w) = n + 2
        /\ \A i \in 1 .. n : w[i] = s[i]
        /\ w[n + 1] = left /\ w[n + 2] = right
    <2> HIDE DEF left, right
    <2> QED
      BY <1>2
  <1>4. last \in Nat /\ n <= last /\ b.lo = last + 1 /\ (n = 0 => last = 0)
    <2>1. CASE s = <<>>
      BY <2>1
    <2>2. CASE s # <<>>
      <3>1. n \in DOMAIN s /\ s[n] \in Block /\ n > 0
        BY <2>2
      <3>2. last = s[n].hi /\ n <= s[n].hi
        BY <2>2, <3>1
      <3> QED
        BY <3>1, <3>2 DEF Block
    <2> QED
      BY <2>1, <2>2
  <1>5. left.lo = last + 1 /\ left.hi = Middle(b) - 1 /\ right.lo = Middle(b) /\ right.hi = b.hi
    BY <1>4
  <1>6. n > 0 => s[n].hi = last /\ s[1].lo = 1 /\ 1 \in 1 .. n
    BY <1>3
  <1> HIDE DEF left, right, w, last
  <1>7. \A i \in DOMAIN w : i <= w[i].hi
    <2> SUFFICES ASSUME NEW i \in 1 .. (n + 2) PROVE i <= w[i].hi
      BY <1>3
    <2>1. CASE i \in 1 .. n
      BY <2>1, <1>3
    <2>2. CASE i = n + 1
      BY <2>2, <1>1, <1>3, <1>4, <1>5
    <2>3. CASE i = n + 2
      BY <2>3, <1>1, <1>3, <1>4, <1>5
    <2> QED
      BY <1>3, <2>1, <2>2, <2>3
  <1>8. \A i, j \in DOMAIN w : j = i + 1 => w[j].lo = w[i].hi + 1
    <2> SUFFICES ASSUME NEW i \in 1 .. (n + 2), i + 1 \in 1 .. (n + 2)
                 PROVE  w[i + 1].lo = w[i].hi + 1
      BY <1>3
    <2>1. CASE i + 1 \in 1 .. n
      <3>1. i \in 1 .. n
        BY <2>1
      <3> QED
        BY <2>1, <3>1, <1>3
    <2>2. CASE i = n
      <3>1. w[i] = s[n] /\ w[i + 1] = left
        BY <2>2, <1>3
      <3> QED
        BY <3>1, <2>2, <1>3, <1>5, <1>6
    <2>3. CASE i = n + 1
      <3>1. w[i] = left /\ w[i + 1] = right
        BY <2>3, <1>3
      <3> QED
        BY <3>1, <1>1, <1>5
    <2>4. i + 1 \in 1 .. n \/ i = n \/ i = n + 1
      <3>1. n \in Nat
        BY <1>3
      <3> HIDE DEF n
      <3> QED
        BY <3>1
    <2> QED
      BY <2>1, <2>2, <2>3, <2>4
  <1>9. w[1].lo = 1
    <2>1. CASE n = 0
      BY <2>1, <1>3, <1>4, <1>5
    <2>2. CASE n > 0
      BY <2>2, <1>3, <1>6
    <2> QED
      BY <1>3, <2>1, <2>2
  <1>10. w[Len(w)].hi = b.hi /\ w # <<>>
    BY <1>3, <1>5
  <1> QED
    BY <1>3, <1>7, <1>8, <1>9, <1>10 DEF w

(* The initial list is cut up.                                             *)
LEMMA RootStableBudget == ASSUME IInv, RootStable PROVE Budget'
  <1>1. /\ work' = Children(AllLines) /\ nodeCount' = 0 /\ nodeCount = 0
        /\ phase' = "pick" /\ mmethod' = mmethod /\ work = <<>> /\ node = AllLines
    BY DEF RootStable, IInv, Control
  <1>2. AllLines \in Block /\ AllLines.lo = 1 /\ AllLines.hi = NumLines /\ Size(AllLines) = NumLines
    BY AllLinesIsBlock DEF AllLines, Size
  <1>3. NodeBound'
    BY <1>1 DEF NodeBound
  <1>4. ASSUME mmethod = Bisection PROVE (StackIsPrefix /\ BisectionBudget)'
    <2>1. work' = work \o Halves(node)
      <3>1. Halves(AllLines) \in Seq(Block)
        BY <1>2, HalvesSplit
      <3> QED
        BY <1>1, <1>4, <3>1 DEF Children
    <2>2. CASE NumLines > 1
      <3>1. /\ Len(work') = 2 /\ work' # <<>>
            /\ work'[1].lo = 1
            /\ \A i \in DOMAIN work' : i <= work'[i].hi
            /\ \A i, j \in DOMAIN work' : j = i + 1 => work'[j].lo = work'[i].hi + 1
            /\ work'[Len(work')].hi = NumLines
        <4>1. /\ work # <<>> => work[1].lo = 1
              /\ \A i \in DOMAIN work : i <= work[i].hi
              /\ \A i, j \in DOMAIN work : j = i + 1 => work[j].lo = work[i].hi + 1
              /\ node.lo = (IF work = <<>> THEN 0 ELSE work[Len(work)].hi) + 1
          BY <1>1, <1>2
        <4>2. work \in Seq(Block) /\ node \in Block /\ Size(node) > 1
          BY <1>1, <1>2, <2>2
        <4>3. /\ Len(work') = Len(work) + 2 /\ work' # <<>>
              /\ work'[1].lo = 1
              /\ \A i \in DOMAIN work' : i <= work'[i].hi
              /\ \A i, j \in DOMAIN work' : j = i + 1 => work'[j].lo = work'[i].hi + 1
              /\ work'[Len(work')].hi = node.hi
          BY <2>1, <4>1, <4>2, PushKeepsPrefix
        <4> QED
          BY <1>1, <1>2, <4>3
      <3>2. PrefixLines' = NumLines
        BY <3>1 DEF PrefixLines
      <3> QED
        BY <1>1, <3>1, <3>2 DEF StackIsPrefix, BisectionBudget
    <2>3. CASE NumLines = 1
      <3>1. work' = <<>>
        BY <1>1, <1>2, <2>1, <2>3 DEF Halves
      <3> QED
        BY <1>1, <2>3, <3>1 DEF StackIsPrefix, BisectionBudget, PrefixLines
    <2> QED
      BY <2>2, <2>3
  <1>5. ASSUME mmethod = OneByOne PROVE nodeCount' + Len(work') <= NumLines
    <2>1. work' = SingleLines(AllLines)
      BY <1>1, <1>5 DEF Children
    <2>2. Len(work') = NumLines
      BY <1>2, <2>1 DEF SingleLines
    <2> QED
      BY <1>1, <2>2
  <1> QED
    BY <1>1, <1>3, <1>4, <1>5 DEF Budget

(* A list is popped: its lines leave the prefix, its batches the budget.   *)
LEMMA StartNodeBudget == ASSUME IInv, Budget, StartNode PROVE Budget'
  <1> DEFINE top == Len(work)
  <1>1. /\ phase = "pick" /\ phase' = "node" /\ nodeCount' = nodeCount + 1
        /\ nodeCount \in Nat /\ mmethod' = mmethod /\ mmethod \in {Bisection, OneByOne}
        /\ work \in Seq(Block) /\ work # <<>>
    BY DEF StartNode, IInv, TypeOK
  <1>2. /\ top \in Nat \ {0} /\ node' = work[top] /\ work[top] \in Block
        /\ Len(work') = top - 1 /\ DOMAIN work' = 1 .. (top - 1) /\ DOMAIN work = 1 .. top
        /\ \A i \in 1 .. (top - 1) : work'[i] = work[i]
        /\ work' \in Seq(Block)
    <2>1. top \in Nat \ {0} /\ DOMAIN work = 1 .. top /\ top \in DOMAIN work
      BY <1>1
    <2>2. node' = work[top] /\ work' = SubSeq(work, 1, top - 1)
      BY DEF StartNode
    <2>3. /\ work' \in Seq(Block) /\ Len(work') = top - 1
          /\ \A i \in 1 .. (top - 1) : work'[i] = work[i]
      BY <1>1, <2>1, <2>2
    <2> HIDE DEF top
    <2> QED
      BY <1>1, <2>1, <2>2, <2>3
  <1> HIDE DEF top
  <1>3. ASSUME mmethod = Bisection PROVE (StackIsPrefix /\ BisectionBudget)' /\ NodeBound'
    <2>1. /\ work[1].lo = 1
          /\ \A i \in 1 .. top : i <= work[i].hi
          /\ \A i, j \in 1 .. top : j = i + 1 => work[j].lo = work[i].hi + 1
          /\ nodeCount + 2 * work[top].hi - top <= 2 * NumLines - 2
      BY <1>1, <1>2, <1>3 DEF Budget, StackIsPrefix, BisectionBudget, PrefixLines, top
    <2>2. node'.lo = PrefixLines' + 1 /\ PrefixLines' \in Nat /\ top - 1 <= PrefixLines'
      <3>1. CASE top = 1
        <4>1. work' = <<>>
          BY <1>2, <3>1
        <4> QED
          BY <1>2, <2>1, <3>1, <4>1 DEF PrefixLines
      <3>2. CASE top > 1
        <4>1. PrefixLines' = work[top - 1].hi
          BY <1>2, <3>2 DEF PrefixLines
        <4>2. top - 1 \in 1 .. top /\ top \in 1 .. top /\ top = (top - 1) + 1
          BY <1>2, <3>2
        <4>3. work[top - 1] \in Block
          BY <1>1, <1>2, <4>2
        <4> QED
          BY <1>2, <2>1, <4>1, <4>2, <4>3 DEF Block
      <3> QED
        BY <1>2, <3>1, <3>2
    <2>3. StackIsPrefix'
      <3>1. work' # <<>> => work'[1].lo = 1
        BY <1>2, <2>1
      <3> QED
        BY <1>2, <2>1, <2>2, <3>1 DEF StackIsPrefix
    <2>4. Size(node') = node'.hi - node'.lo + 1 /\ node'.hi \in Nat /\ node'.lo \in Nat
          /\ node'.lo <= node'.hi /\ node'.hi = work[top].hi
      BY <1>2 DEF Block, Size
    <2>5. nodeCount' + 2 * PrefixLines' - Len(work') + 2 * Size(node') - 2 <= 2 * NumLines - 2
      <3>1. Size(node') = work[top].hi - PrefixLines' /\ work[top].hi \in Nat
        BY <2>2, <2>4
      <3>2. nodeCount \in Nat /\ top \in Nat /\ PrefixLines' \in Nat
        BY <1>1, <1>2, <2>2
      <3>3. (nodeCount + 1) + 2 * PrefixLines' - (top - 1) + 2 * (work[top].hi - PrefixLines') - 2
              = nodeCount + 2 * work[top].hi - top
        BY ONLY <3>1, <3>2
      <3> QED
        BY <1>1, <1>2, <2>1, <3>1, <3>3
    <2>6. BisectionBudget'
      BY <1>1, <2>5 DEF BisectionBudget
    <2>7. NodeBound'
      <3>1. nodeCount + 1 <= nodeCount + 2 * work[top].hi - top
        BY <1>1, <1>2, <2>2, <2>4
      <3>2. nodeCount' <= 2 * NumLines - 2
        BY <1>1, <1>2, <2>1, <2>4, <3>1
      <3> QED
        BY <1>1, <1>3, <3>2 DEF NodeBound
    <2> QED
      BY <2>3, <2>6, <2>7
  <1>4. ASSUME mmethod = OneByOne PROVE nodeCount' + Len(work') <= NumLines /\ NodeBound'
    <2>1. nodeCount + top <= NumLines
      BY <1>1, <1>4 DEF Budget, top
    <2>2. nodeCount' + Len(work') <= NumLines
      BY <1>1, <1>2, <2>1
    <2> QED
      BY <1>1, <1>2, <1>4, <2>2 DEF NodeBound
  <1> QED
    BY <1>1, <1>3, <1>4 DEF Budget

(* A decided list frees its budget, or spends it on its two halves.        *)
LEMMA NodeDecidedBudget ==
  ASSUME IInv, Budget, NodeStable \/ NodeUnstable
  PROVE  Budget'
  <1>1. /\ phase = "node" /\ phase' = "pick" /\ nodeCount' = nodeCount /\ nodeCount \in Nat
        /\ mmethod' = mmethod /\ work \in Seq(Block) /\ node \in Block
        /\ mmethod \in {Bisection, OneByOne}
        /\ \/ work' = work
           \/ work' = work \o Halves(node) /\ mmethod = Bisection
    BY DEF NodeStable, NodeUnstable, IInv, TypeOK, Children
  <1>2. NodeBound'
    BY <1>1 DEF Budget, NodeBound
  <1>3. ASSUME mmethod = Bisection PROVE (StackIsPrefix /\ BisectionBudget)'
    <2>1. /\ StackIsPrefix /\ node.lo = PrefixLines + 1
          /\ nodeCount + 2 * PrefixLines - Len(work) + 2 * Size(node) - 2 <= 2 * NumLines - 2
          /\ PrefixLines \in Nat /\ Len(work) \in Nat
      BY <1>1, <1>3, PrefixIsLong DEF Budget, StackIsPrefix, BisectionBudget
    <2>2. /\ Size(node) = node.hi - node.lo + 1 /\ Size(node) \in Nat \ {0}
          /\ node.hi \in Nat /\ node.lo \in Nat
      BY <1>1 DEF Block, Size
    <2>3. CASE work' = work
      <3>1. StackIsPrefix' /\ PrefixLines' = PrefixLines
        BY <1>1, <2>1, <2>3 DEF StackIsPrefix, PrefixLines
      <3> QED
        BY <1>1, <2>1, <2>2, <2>3, <3>1 DEF BisectionBudget
    <2>4. CASE work' = work \o Halves(node) /\ Size(node) > 1
      <3>1. /\ Len(work') = Len(work) + 2 /\ work' # <<>>
            /\ work'[1].lo = 1
            /\ \A i \in DOMAIN work' : i <= work'[i].hi
            /\ \A i, j \in DOMAIN work' : j = i + 1 => work'[j].lo = work'[i].hi + 1
            /\ work'[Len(work')].hi = node.hi
        <4>1. /\ work # <<>> => work[1].lo = 1
              /\ \A i \in DOMAIN work : i <= work[i].hi
              /\ \A i, j \in DOMAIN work : j = i + 1 => work[j].lo = work[i].hi + 1
              /\ node.lo = (IF work = <<>> THEN 0 ELSE work[Len(work)].hi) + 1
          BY <2>1 DEF StackIsPrefix, PrefixLines
        <4> QED
          BY <1>1, <2>4, <4>1, PushKeepsPrefix
      <3>2. PrefixLines' = node.hi
        BY <3>1 DEF PrefixLines
      <3>3. StackIsPrefix'
        BY <1>1, <3>1 DEF StackIsPrefix
      <3>4. nodeCount' + 2 * PrefixLines' - Len(work') <= 2 * NumLines - 2
        <4>1. Size(node) = node.hi - PrefixLines
          BY <2>1, <2>2
        <4>2. PrefixLines \in Nat /\ node.hi \in Nat /\ nodeCount \in Nat /\ Len(work) \in Nat
          BY <1>1, <2>1, <2>2
        <4>3. nodeCount + 2 * node.hi - (Len(work) + 2)
                = nodeCount + 2 * PrefixLines - Len(work) + 2 * (node.hi - PrefixLines) - 2
          <5> DEFINE c == nodeCount
                     p == PrefixLines
                     h == node.hi
                     n == Len(work)
          <5>1. c \in Nat /\ p \in Nat /\ h \in Nat /\ n \in Nat
            BY <4>2
          <5> HIDE DEF c, p, h, n
          <5>2. c + 2 * h - (n + 2) = c + 2 * p - n + 2 * (h - p) - 2
            BY ONLY <5>1
          <5> QED
            BY ONLY <5>2 DEF c, p, h, n
        <4> QED
          BY <1>1, <2>1, <3>1, <3>2, <4>1, <4>3
      <3> QED
        BY <1>1, <3>3, <3>4 DEF BisectionBudget
    <2>5. CASE work' = work \o Halves(node) /\ ~ (Size(node) > 1)
      <3>1. work' = work
        BY <1>1, <2>5 DEF Halves
      <3> QED
        BY <2>3, <3>1
    <2> QED
      BY <1>1, <2>3, <2>4, <2>5
  <1>4. ASSUME mmethod = OneByOne PROVE nodeCount' + Len(work') <= NumLines
    BY <1>1, <1>4, MethodsAssumption DEF Budget
  <1> QED
    BY <1>1, <1>2, <1>3, <1>4 DEF Budget

(* A step that leaves the stack, the list being tried and the number of    *)
(* batches alone, and does not bring the search back to the stack.         *)
LEMMA OtherStepBudget ==
  ASSUME IInv, Budget, UNCHANGED <<mmethod, work, node, nodeCount>>,
         phase' = phase \/ phase' \notin {"pick", "node"},
         phase # "called" \/ (work = <<>> /\ nodeCount = 0)
  PROVE  Budget'
  <1>1. NodeBound'
    BY DEF Budget, NodeBound
  <1>2. mmethod = Bisection => (StackIsPrefix /\ BisectionBudget)'
    BY DEF Budget, StackIsPrefix, BisectionBudget, PrefixLines
  <1>3. mmethod = OneByOne /\ phase' # "called" => nodeCount' + Len(work') <= NumLines
    BY DEF Budget
  <1> QED
    BY <1>1, <1>2, <1>3 DEF Budget

(* One thread costs at most 2n - 2 batches after the first in bisection,   *)
(* and n in line by line search, for every list of n lines and whatever    *)
(* the runs answer.                                                        *)
THEOREM BatchesAreBounded == Spec => []NodeBound
  <1>1. Init => Budget
    <2> SUFFICES ASSUME Init
                 PROVE  Budget
      OBVIOUS
    <2>1. work = <<>> /\ nodeCount = 0 /\ phase = "called"
      BY DEF Init
    <2> QED
      BY <2>1 DEF Budget, NodeBound, StackIsPrefix, BisectionBudget
  <1>2. IInv /\ Budget /\ [Next]_vars => Budget'
    <2> SUFFICES ASSUME IInv, Budget, [Next]_vars
                 PROVE  Budget'
      OBVIOUS
    <2>1. CASE RootStable
      BY <2>1, RootStableBudget
    <2>2. CASE StartNode
      BY <2>2, StartNodeBudget
    <2>3. CASE NodeStable \/ NodeUnstable
      BY <2>3, NodeDecidedBudget
    <2>4. CASE StartRoot \/ RunRoot \/ RunNode \/ RootUnstable \/ Finish \/ RootOutOfTime
               \/ NodeOutOfTime \/ Abort \/ UNCHANGED vars
      <3>1. /\ UNCHANGED <<mmethod, work, node, nodeCount>>
            /\ (phase' = phase \/ phase' \notin {"pick", "node"})
        BY <2>4
        DEF StartRoot, RunRoot, RunNode, RootUnstable, Finish, RootOutOfTime, NodeOutOfTime,
            Abort, vars, helperVars
      <3>2. phase # "called" \/ (work = <<>> /\ nodeCount = 0)
        BY DEF IInv, Control
      <3> QED
        BY <3>1, <3>2, OtherStepBudget
    <2> QED
      BY <2>1, <2>2, <2>3, <2>4 DEF Next
  <1>3. Budget => NodeBound
    BY DEF Budget
  <1> QED
    BY Invariant, <1>1, <1>2, <1>3, PTL DEF Spec

-----------------------------------------------------------------------------
(* MinimalLines implements SleepSearch: starting a batch and running it    *)
(* are stuttering steps, and each decision about a block is one step of    *)
(* the search over blocks.                                                 *)

USE DEF Search!Block, Block, Search!AllLines, AllLines, Search!Size, Size,
        Search!Within, Within

(* A block is its two bounds, which are in the list.                       *)
LEMMA BlockFacts ==
  ASSUME NEW b \in Block
  PROVE  /\ b.lo \in Nat /\ b.hi \in Nat /\ NumLines \in Nat
         /\ 1 <= b.lo /\ b.lo <= b.hi /\ b.hi <= NumLines
         /\ b = [lo |-> b.lo, hi |-> b.hi]
  OBVIOUS

(* The children of a block are its pieces after some cuts, except that one *)
(* line alone is either left (bisection) or itself its only piece.         *)
LEMMA ChildrenArePieces ==
  ASSUME NEW b \in Block, Size(b) > 1
  PROVE  \E cuts \in SUBSET (b.lo .. b.hi - 1) :
           /\ cuts # {}
           /\ {Children(b)[i] : i \in DOMAIN Children(b)} = Search!Pieces(b, cuts)
  <1>1. CASE mmethod = Bisection
    <2> DEFINE left  == [lo |-> b.lo, hi |-> Middle(b) - 1]
               right == [lo |-> Middle(b), hi |-> b.hi]
               cuts  == {Middle(b) - 1}
    <2>1. b.lo < Middle(b) /\ Middle(b) <= b.hi /\ Middle(b) \in Nat
      BY DEF Middle
    <2>2. Children(b) = <<left, right>>
      BY <1>1 DEF Children, Halves
    <2>3. left \in Search!Pieces(b, cuts) /\ right \in Search!Pieces(b, cuts)
      <3>1. left \in Search!Block /\ right \in Search!Block
        BY <2>1, BlockFacts
      <3>2. \A l \in left.lo .. left.hi - 1 : l # Middle(b) - 1
        BY <2>1, BlockFacts
      <3>3. \A l \in right.lo .. right.hi - 1 : l # Middle(b) - 1
        BY <2>1, BlockFacts
      <3>4. Search!Within(left, b) /\ Search!Within(right, b)
        BY <2>1, BlockFacts
      <3>5. right.lo - 1 \in cuts /\ left.hi \in cuts /\ left.lo = b.lo /\ right.hi = b.hi
        OBVIOUS
      <3> HIDE DEF left, right
      <3> QED
        BY <3>1, <3>2, <3>3, <3>4, <3>5 DEF Search!Pieces
    <2>4. ASSUME NEW c \in Search!Pieces(b, cuts)
          PROVE  c = left \/ c = right
      <3>1. /\ c \in [lo : 1 .. NumLines, hi : 1 .. NumLines]
            /\ b.lo <= c.lo /\ c.lo <= c.hi /\ c.hi <= b.hi
            /\ c.lo = b.lo \/ c.lo = Middle(b)
            /\ c.hi = b.hi \/ c.hi = Middle(b) - 1
            /\ ~ (Middle(b) - 1 \in c.lo .. c.hi - 1)
        BY <2>1, <2>4 DEF Search!Pieces
      <3>2. \/ c.lo = b.lo /\ c.hi = Middle(b) - 1
            \/ c.lo = Middle(b) /\ c.hi = b.hi
        BY <2>1, <3>1
      <3> QED
        BY <3>1, <3>2
    <2>5. {Children(b)[i] : i \in DOMAIN Children(b)} = {left, right}
      <3> HIDE DEF left, right
      <3> QED
        BY <2>2
    <2>6. cuts \in SUBSET (b.lo .. b.hi - 1) /\ cuts # {}
      BY <2>1
    <2> HIDE DEF left, right, cuts
    <2> QED
      BY <2>3, <2>4, <2>5, <2>6
  <1>2. CASE mmethod # Bisection
    <2> DEFINE cuts == b.lo .. b.hi - 1
               kids == SingleLines(b)
    <2>1. Children(b) = kids /\ DOMAIN kids = 1 .. Size(b)
      BY <1>2 DEF Children, SingleLines
    <2>2. ASSUME NEW i \in 1 .. Size(b)
          PROVE  kids[i] \in Search!Pieces(b, cuts)
      <3>1. kids[i] = [lo |-> b.lo + i - 1, hi |-> b.lo + i - 1]
        BY DEF SingleLines
      <3>2. b.lo + i - 1 \in 1 .. NumLines /\ b.lo <= b.lo + i - 1 /\ b.lo + i - 1 <= b.hi
        BY BlockFacts
      <3>3. kids[i] \in Block /\ kids[i].lo = b.lo + i - 1 /\ kids[i].hi = b.lo + i - 1
        BY <3>1, <3>2
      <3> QED
        BY <3>2, <3>3 DEF Search!Pieces
    <2>3. ASSUME NEW c \in Search!Pieces(b, cuts)
          PROVE  \E i \in 1 .. Size(b) : c = kids[i]
      <3>1. /\ c \in [lo : 1 .. NumLines, hi : 1 .. NumLines]
            /\ b.lo <= c.lo /\ c.lo <= c.hi /\ c.hi <= b.hi
            /\ \A l \in c.lo .. c.hi - 1 : l \notin cuts
        BY <2>3 DEF Search!Pieces
      <3>2. c.hi = c.lo
        <4> SUFFICES ASSUME c.lo < c.hi
                     PROVE  FALSE
          BY <3>1
        <4>1. c.lo \in c.lo .. c.hi - 1 /\ c.lo \in cuts
          BY <3>1
        <4> QED
          BY <3>1, <4>1
      <3>3. c.lo - b.lo + 1 \in 1 .. Size(b)
        BY <3>1
      <3>4. kids[c.lo - b.lo + 1] = [lo |-> c.lo, hi |-> c.lo]
        <4>1. b.lo + (c.lo - b.lo + 1) - 1 = c.lo
          BY <3>1
        <4> QED
          BY <3>3, <4>1 DEF SingleLines
      <3> QED
        BY <3>1, <3>2, <3>3, <3>4
    <2>4. cuts \in SUBSET (b.lo .. b.hi - 1) /\ cuts # {}
      OBVIOUS
    <2> HIDE DEF cuts, kids
    <2> QED
      BY <2>1, <2>2, <2>3, <2>4
  <1> QED
    BY <1>1, <1>2

(* What the children of the initial list are when it has one line.         *)
LEMMA OnlyLine ==
  ASSUME Size(AllLines) = 1
  PROVE  /\ mmethod = Bisection => Children(AllLines) = <<>>
         /\ mmethod # Bisection => Children(AllLines) = <<AllLines>>
         /\ Search!Pieces(AllLines, {}) = {AllLines}
  <1>1. NumLines = 1
    OBVIOUS
  <1>2. mmethod = Bisection => Children(AllLines) = <<>>
    BY DEF Children, Halves
  <1>3. SingleLines(AllLines) = <<AllLines>>
    BY <1>1 DEF SingleLines
  <1>4. Search!Pieces(AllLines, {}) = {AllLines}
    BY <1>1 DEF Search!Pieces
  <1> QED
    BY <1>2, <1>3, <1>4 DEF Children

(* Forgetting the node of an entry does not change what is minimal.        *)
LEMMA FindingsOfMinimal ==
  ASSUME NEW es
  PROVE  Findings(Minimal(es)) = Search!Smallest(Findings(es))
  <1> DEFINE F(a) == [failure |-> a.failure, lines |-> a.lines]
  <1>1. \A a : F(a).failure = a.failure /\ F(a).lines = a.lines
    OBVIOUS
  <1>2. Findings(es) = {F(a) : a \in es} /\ Findings(Minimal(es)) = {F(a) : a \in Minimal(es)}
    BY DEF Findings
  <1> HIDE DEF F
  <1>3. ASSUME NEW a \in Minimal(es)
        PROVE  F(a) \in Search!Smallest(Findings(es))
    <2>1. /\ a \in es
          /\ \A b \in es : b.failure = a.failure => Size(a.lines) <= Size(b.lines)
      BY DEF Minimal
    <2>2. ASSUME NEW y \in Findings(es), y.failure = F(a).failure
          PROVE  Search!Size(F(a).lines) <= Search!Size(y.lines)
      <3>1. PICK b \in es : y = F(b)
        BY <1>2
      <3>2. b.failure = a.failure
        BY <1>1, <2>2, <3>1
      <3> QED
        BY <1>1, <2>1, <3>1, <3>2
    <2> QED
      BY <1>2, <2>1, <2>2 DEF Search!Smallest
  <1>4. ASSUME NEW x \in Search!Smallest(Findings(es))
        PROVE  \E a \in Minimal(es) : x = F(a)
    <2>1. /\ x \in Findings(es)
          /\ \A y \in Findings(es) :
               y.failure = x.failure => Search!Size(x.lines) <= Search!Size(y.lines)
      BY DEF Search!Smallest
    <2>2. PICK a \in es : x = F(a)
      BY <1>2, <2>1
    <2>3. ASSUME NEW b \in es, b.failure = a.failure
          PROVE  Size(a.lines) <= Size(b.lines)
      <3>1. F(b) \in Findings(es) /\ F(b).failure = x.failure
        BY <1>1, <1>2, <2>2, <2>3
      <3>2. Search!Size(x.lines) <= Search!Size(F(b).lines)
        BY <2>1, <3>1
      <3> QED
        BY <1>1, <2>2, <3>2
    <2> QED
      BY <2>2, <2>3 DEF Minimal
  <1> QED
    BY <1>2, <1>3, <1>4

-----------------------------------------------------------------------------
(* The simulation.                                                         *)

Stutter == UNCHANGED Search!searchVars

(* The initial states are mapped to initial states.                        *)
LEMMA InitMaps == Init => Search!SearchInit
  BY DEF Init, Search!SearchInit, Pending, Status, Findings

(* Starting and running a batch are stutters.                              *)
LEMMA QuietSteps ==
  ASSUME IInv, StartRoot \/ RunRoot \/ RunNode \/ UNCHANGED vars
  PROVE  Stutter
  <1>1. /\ UNCHANGED <<work, node, assoc, report>>
        /\ phase' = phase \/ (phase = "called" /\ phase' = "root")
    BY DEF StartRoot, RunRoot, RunNode, vars, helperVars
  <1>2. Pending' = Pending
    BY <1>1 DEF Pending
  <1>3. Status' = Status
    BY <1>1 DEF Status
  <1>4. Findings(assoc)' = Findings(assoc) /\ Findings(report)' = Findings(report)
    BY <1>1 DEF Findings
  <1> QED
    BY <1>2, <1>3, <1>4 DEF Stutter, Search!searchVars

(* Popping a list is a stutter: it stays pending.                          *)
LEMMA StartNodeMaps == ASSUME IInv, StartNode PROVE Stutter
  <1>1. /\ UNCHANGED <<assoc, report>> /\ phase = "pick" /\ phase' = "node"
        /\ work \in Seq(Block) /\ work # <<>>
        /\ node' = work[Len(work)] /\ work' = SubSeq(work, 1, Len(work) - 1)
    BY DEF StartNode, IInv, TypeOK
  <1>2. Pending' = Pending
    <2>1. /\ Len(work) \in DOMAIN work
          /\ DOMAIN work' = DOMAIN work \ {Len(work)}
          /\ \A i \in DOMAIN work' : work'[i] = work[i]
      BY <1>1
    <2>2. Pending = {work[i] : i \in DOMAIN work}
      BY <1>1 DEF Pending
    <2>3. Pending' = {work'[i] : i \in DOMAIN work'} \cup {node'}
      BY <1>1 DEF Pending
    <2> QED
      BY <1>1, <2>1, <2>2, <2>3
  <1>3. Status' = Status
    BY <1>1 DEF Status
  <1>4. Findings(assoc)' = Findings(assoc) /\ Findings(report)' = Findings(report)
    BY <1>1 DEF Findings
  <1> QED
    BY <1>2, <1>3, <1>4 DEF Stutter, Search!searchVars

(* What every decision has in common: the block decided is pending.        *)
LEMMA FoundGrows ==
  ASSUME IInv, phase \in {"root", "node"}, assoc' = assoc \cup {ThisEntry}
  PROVE  Findings(assoc)'
           = Findings(assoc) \cup {[failure |-> failureLog, lines |-> node]}
  BY EntryFacts DEF Findings

(* Confirming all lines is a step of the abstract search.                  *)
LEMMA RootStableMaps ==
  ASSUME IInv, RootStable
  PROVE  Search!SearchNext
  <1>1. /\ phase = "root" /\ phase' = "pick" /\ node = AllLines
        /\ assoc = {} /\ work = <<>> /\ work' = Children(AllLines) /\ report' = report
        /\ assoc' = assoc \cup {ThisEntry}
        /\ Pending = {AllLines}
        /\ Pending' = {Children(AllLines)[i] : i \in DOMAIN Children(AllLines)}
        /\ AllLines \in Block
    BY AllLinesIsBlock DEF RootStable, IInv, Control, Pending
  <1>2. failureLog \in Logged
    BY EntryFacts, <1>1 DEF RootStable
  <1>3. Search!Confirm(AllLines, failureLog)
    BY <1>1, FoundGrows DEF Search!Confirm, Status
  <1>4. \/ Search!Leave(AllLines)
        \/ \E cuts \in SUBSET (AllLines.lo .. AllLines.hi - 1) :
             Search!CutUp(AllLines, cuts)
    <2>1. CASE Size(AllLines) > 1
      <3>1. PICK cuts \in SUBSET (AllLines.lo .. AllLines.hi - 1) :
              cuts # {} /\ Pending' = Search!Pieces(AllLines, cuts)
        <4> HIDE DEF Size, AllLines, Block
        <4> QED
          BY <1>1, <2>1, ChildrenArePieces
      <3> QED
        BY <1>1, <3>1 DEF Search!CutUp
    <2>2. CASE ~ (Size(AllLines) > 1)
      <3>1. Size(AllLines) = 1 /\ Search!Size(Search!AllLines) = 1
        BY <2>2
      <3>2. CASE mmethod = Bisection
        <4>1. Pending' = {}
          BY <1>1, <3>1, <3>2, OnlyLine
        <4> QED
          BY <1>1, <3>1, <4>1 DEF Search!Leave
      <3>3. CASE mmethod # Bisection
        <4>1. Pending' = {AllLines}
          <5> HIDE DEF AllLines, Size
          <5>1. Children(AllLines) = <<AllLines>>
            BY <3>1, <3>3, OnlyLine
          <5> QED
            BY <1>1, <5>1
        <4> QED
          BY <1>1, <3>1, <4>1, OnlyLine DEF Search!CutUp
      <3> QED
        BY <3>2, <3>3
    <2> QED
      BY <2>1, <2>2
  <1> QED
    BY <1>1, <1>2, <1>3, <1>4 DEF Search!SearchNext

(* So is dropping them.                                                    *)
LEMMA RootUnstableMaps ==
  ASSUME IInv, RootUnstable
  PROVE  Search!SearchNext
  <1>1. /\ phase = "root" /\ phase' = "done" /\ node = AllLines
        /\ assoc = {} /\ work = <<>> /\ UNCHANGED <<work, assoc, report>>
    BY DEF RootUnstable, IInv, Control
  <1>2. Search!RejectAll
    BY <1>1 DEF Search!RejectAll, Pending, Status, Findings
  <1> QED
    BY <1>2 DEF Search!SearchNext

(* In the loop, a decided block was pending once, and its pieces are new.  *)
LEMMA NodeDecided ==
  ASSUME IInv, phase = "node", phase' = "pick", node' = node,
         NEW kids \in Seq(Block), work' = work \o kids
  PROVE  /\ node \in Pending
         /\ Pending' = (Pending \ {node}) \cup {kids[i] : i \in DOMAIN kids}
  <1>1. /\ work \in Seq(Block) /\ node \in Block
        /\ \A i \in DOMAIN work : work[i] # node
    <2>1. /\ work \in Seq(Block) /\ node \in Block
          /\ \A i \in DOMAIN work : Disjoint(work[i], node)
      BY DEF IInv, TypeOK, Apartness
    <2> QED
      BY <2>1, BlocksOverlap
  <1>2. Pending = {work[i] : i \in DOMAIN work} \cup {node}
    BY DEF Pending
  <1>3. Pending' = {work'[i] : i \in DOMAIN work'}
    BY DEF Pending
  <1>4. {work'[i] : i \in DOMAIN work'}
          = {work[i] : i \in DOMAIN work} \cup {kids[i] : i \in DOMAIN kids}
    <2>1. /\ \A i \in DOMAIN work : i \in DOMAIN work' /\ work'[i] = work[i]
          /\ \A k \in DOMAIN kids :
               Len(work) + k \in DOMAIN work' /\ work'[Len(work) + k] = kids[k]
          /\ \A i \in DOMAIN work' :
               i \in DOMAIN work \/ \E k \in DOMAIN kids : work'[i] = kids[k]
      <3> HIDE DEF Block
      <3> QED
        BY <1>1, Concatenation
    <2> DEFINE W == work
               V == work'
    <2>2. \A i \in DOMAIN W : \E j \in DOMAIN V : V[j] = W[i]
      BY <2>1
    <2>3. \A k \in DOMAIN kids : \E j \in DOMAIN V : V[j] = kids[k]
      BY <2>1
    <2>4. \A j \in DOMAIN V :
            (\E i \in DOMAIN W : V[j] = W[i]) \/ (\E k \in DOMAIN kids : V[j] = kids[k])
      BY <2>1
    <2> HIDE DEF W, V
    <2>5. {V[i] : i \in DOMAIN V} = {W[i] : i \in DOMAIN W} \cup {kids[i] : i \in DOMAIN kids}
      BY <2>2, <2>3, <2>4
    <2> QED
      BY <2>5 DEF W, V
  <1> QED
    BY <1>1, <1>2, <1>3, <1>4

(* Pushing nothing.                                                        *)
LEMMA NothingAdded ==
  <<>> \in Seq(Block) /\ \A s : s \cup {<<>>[i] : i \in DOMAIN <<>>} = s
  <1>1. DOMAIN <<>> = {}
    OBVIOUS
  <1> QED
    BY <1>1

(* Confirming a popped list is a step of the abstract search.              *)
LEMMA NodeStableMaps ==
  ASSUME IInv, NodeStable
  PROVE  Search!SearchNext
  <1>1. /\ phase = "node" /\ phase' = "pick" /\ node' = node /\ report' = report
        /\ assoc' = assoc \cup {ThisEntry} /\ work \in Seq(Block) /\ node \in Block
    BY DEF NodeStable, IInv, TypeOK
  <1>2. failureLog \in Logged
    BY EntryFacts, <1>1 DEF NodeStable
  <1>3. node \in Pending
    BY <1>1 DEF Pending
  <1>4. Search!Confirm(node, failureLog)
    BY <1>1, <1>3, FoundGrows DEF Search!Confirm, Status
  <1>5. CASE failureLog # Timeout /\ mmethod = Bisection /\ Size(node) > 1
    <2>1. work' = work \o Children(node) /\ Children(node) \in Seq(Block)
      BY <1>1, <1>5, ChildrenSplit DEF NodeStable
    <2>2. Pending' = (Pending \ {node})
                       \cup {Children(node)[i] : i \in DOMAIN Children(node)}
      BY <1>1, <2>1, NodeDecided
    <2>3. PICK cuts \in SUBSET (node.lo .. node.hi - 1) :
            /\ cuts # {}
            /\ {Children(node)[i] : i \in DOMAIN Children(node)} = Search!Pieces(node, cuts)
      BY <1>1, <1>5, ChildrenArePieces
    <2>4. Search!CutUp(node, cuts)
      BY <2>2, <2>3 DEF Search!CutUp
    <2> QED
      BY <1>2, <1>3, <1>4, <2>4 DEF Search!SearchNext
  <1>6. CASE ~ (failureLog # Timeout /\ mmethod = Bisection /\ Size(node) > 1)
    <2>1. work' = work \o <<>>
      <3>1. CASE failureLog # Timeout /\ mmethod = Bisection
        BY <1>1, <1>6, <3>1 DEF NodeStable, Children, Halves
      <3>2. CASE ~ (failureLog # Timeout /\ mmethod = Bisection)
        BY <1>1, <3>2 DEF NodeStable
      <3> QED
        BY <3>1, <3>2
    <2>2. Pending' = Pending \ {node}
      BY <1>1, <2>1, NothingAdded, NodeDecided
    <2>3. Size(node) = 1 \/ node # AllLines
      <3>1. CASE mmethod = Bisection
        <4>1. PICK a \in assoc : CutFrom(node, a)
          BY <1>1 DEF IInv, Parents
        <4>2. a.lines \in Block
          BY <4>1 DEF IInv, TypeOK, Entry
        <4>3. Within(node, a.lines) /\ Size(node) < Size(a.lines)
          BY <3>1, <4>1 DEF CutFrom, NoRepeats
        <4> QED
          BY <4>2, <4>3
      <3>2. CASE mmethod # Bisection
        <4>1. PICK a \in assoc : CutFrom(node, a)
          BY <1>1 DEF IInv, Parents
        <4>2. a.lines \in Block
          BY <4>1 DEF IInv, TypeOK, Entry
        <4>3. CASE NumLines > 1
          <5>1. Size(node) < Size(a.lines)
            BY <4>1, <4>3 DEF CutFrom, NoRepeats
          <5> QED
            BY <4>2, <5>1
        <4>4. CASE ~ (NumLines > 1)
          BY <1>1, <4>4
        <4> QED
          BY <4>3, <4>4
      <3> QED
        BY <3>1, <3>2
    <2>4. Search!Leave(node)
      BY <2>2, <2>3 DEF Search!Leave
    <2> QED
      BY <1>2, <1>3, <1>4, <2>4 DEF Search!SearchNext
  <1> QED
    BY <1>5, <1>6

(* So is dropping it.                                                      *)
LEMMA NodeUnstableMaps ==
  ASSUME IInv, NodeUnstable
  PROVE  Search!SearchNext
  <1>1. /\ phase = "node" /\ phase' = "pick" /\ UNCHANGED <<node, work, assoc, report>>
        /\ work \in Seq(Block)
    BY DEF NodeUnstable, IInv, TypeOK
  <1>2. node \in Pending /\ Pending' = Pending \ {node}
    <2>1. work' = work \o <<>>
      BY <1>1
    <2> QED
      BY <1>1, <2>1, NothingAdded, NodeDecided
  <1>3. Search!Reject(node)
    BY <1>1, <1>2 DEF Search!Reject, Status, Findings
  <1> QED
    BY <1>2, <1>3 DEF Search!SearchNext

(* The report, whole or partial, is the abstract one.                      *)
LEMMA FinishMaps ==
  ASSUME IInv, Finish \/ NodeOutOfTime
  PROVE  Search!SearchNext
  <1>1. UNCHANGED <<work, node, assoc>> /\ report' = Minimal(assoc)
    BY DEF Finish, NodeOutOfTime
  <1>2. Findings(report)' = Search!Smallest(Findings(assoc))
    BY <1>1, FindingsOfMinimal DEF Findings
  <1>3. Findings(assoc)' = Findings(assoc)
    BY <1>1 DEF Findings
  <1>4. CASE Finish
    <2>1. phase = "pick" /\ phase' = "done" /\ work = <<>> /\ work' = <<>>
      BY <1>4 DEF Finish
    <2>2. Search!Complete
      BY <1>2, <1>3, <2>1 DEF Search!Complete, Status, Pending
    <2> QED
      BY <2>2 DEF Search!SearchNext
  <1>5. CASE NodeOutOfTime
    <2>1. phase = "node" /\ phase' = "partial"
      BY <1>5 DEF NodeOutOfTime
    <2>2. Findings(assoc) # {}
      BY <2>1 DEF IInv, Parents, Findings
    <2>3. Search!CutShort
      BY <1>1, <1>2, <1>3, <2>1, <2>2 DEF Search!CutShort, Status, Pending
    <2> QED
      BY <2>3 DEF Search!SearchNext
  <1> QED
    BY <1>4, <1>5

(* An exception abandons the abstract search.                              *)
LEMMA RaiseMaps ==
  ASSUME IInv, RootOutOfTime \/ Abort
  PROVE  Search!SearchNext
  <1>1. /\ UNCHANGED <<work, node, assoc, report>>
        /\ phase \in {"root", "node"} /\ phase' \in {"timeout", "aborted"}
    BY DEF RootOutOfTime, Abort
  <1>2. Search!Abandon
    BY <1>1 DEF Search!Abandon, Status, Pending, Findings
  <1> QED
    BY <1>2 DEF Search!SearchNext

(* Every behaviour of the helper is, seen from its caller, a search over   *)
(* blocks: for every number of lines and runs, and both methods.           *)
THEOREM Refinement == Spec => ImplementsSearch
  <1>1. IInv /\ [Next]_vars => [Search!SearchNext]_Search!searchVars
    <2> SUFFICES ASSUME IInv, [Next]_vars
                 PROVE  Search!SearchNext \/ Stutter
      BY DEF Stutter
    <2>1. CASE StartRoot \/ RunRoot \/ RunNode \/ UNCHANGED vars
      BY <2>1, QuietSteps
    <2>2. CASE RootStable
      BY <2>2, RootStableMaps
    <2>3. CASE RootUnstable
      BY <2>3, RootUnstableMaps
    <2>4. CASE StartNode
      BY <2>4, StartNodeMaps
    <2>5. CASE NodeStable
      BY <2>5, NodeStableMaps
    <2>6. CASE NodeUnstable
      BY <2>6, NodeUnstableMaps
    <2>7. CASE Finish \/ NodeOutOfTime
      BY <2>7, FinishMaps
    <2>8. CASE RootOutOfTime \/ Abort
      BY <2>8, RaiseMaps
    <2> QED
      BY <2>1, <2>2, <2>3, <2>4, <2>5, <2>6, <2>7, <2>8 DEF Next
  <1> QED
    BY InitMaps, <1>1, Invariant, PTL DEF Spec, ImplementsSearch, Search!SearchSpec
=============================================================================
