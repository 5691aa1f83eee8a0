----------------------------- MODULE SleepSearch -----------------------------
(***************************************************************************)
(* What minimal_lines_helper promises its caller, without batches, files,  *)
(* stack order or the choice of pieces: a search over blocks of sleepy     *)
(* lines that                                                              *)
(*   - tries a block only if a confirmed block contains it,                *)
(*   - never has two overlapping blocks waiting,                           *)
(*   - may give up on a confirmed block only if it is a single line or not *)
(*     the whole list,                                                     *)
(*   - reports, for each failure found so far, its smallest blocks.        *)
(***************************************************************************)
EXTENDS Naturals

CONSTANTS NumLines,  \* length of the list of sleepy lines of the thread
          Kinds      \* the failures a block can be confirmed with

VARIABLES pending,   \* blocks not tried yet
          found,     \* confirmed blocks: [failure, lines]
          status,    \* "searching", "complete", "partial" or "abandoned"
          result     \* the findings returned to the caller

searchVars == <<pending, found, status, result>>

(* A block is a contiguous, non-empty part of the list of lines. *)
Block == {b \in [lo : 1 .. NumLines, hi : 1 .. NumLines] : b.lo <= b.hi}

AllLines == [lo |-> 1, hi |-> NumLines]

Size(b)        == b.hi - b.lo + 1
Within(b, c)   == c.lo <= b.lo /\ b.hi <= c.hi

(* The pieces of a block cut after the given lines: they share no line and *)
(* lose none.                                                              *)
Pieces(b, cuts) ==
  {c \in Block :
     /\ Within(c, b)
     /\ c.lo = b.lo \/ c.lo - 1 \in cuts
     /\ c.hi = b.hi \/ c.hi \in cuts
     /\ \A l \in c.lo .. c.hi - 1 : l \notin cuts}

(* The findings no smaller finding of the same failure supersedes. *)
Smallest(fs) ==
  {a \in fs : \A b \in fs : b.failure = a.failure => Size(a.lines) <= Size(b.lines)}

SearchInit ==
  /\ pending = {AllLines}
  /\ found = {}
  /\ status = "searching"
  /\ result = {}

Confirm(b, f) ==
  /\ status = "searching"
  /\ b \in pending
  /\ found' = found \cup {[failure |-> f, lines |-> b]}
  /\ UNCHANGED <<status, result>>

CutUp(b, cuts) ==
  /\ cuts # {} \/ (b = AllLines /\ Size(b) = 1)
  /\ pending' = (pending \ {b}) \cup Pieces(b, cuts)

(* A confirmed block of one line, or one that is not worth cutting up.     *)
Leave(b) ==
  /\ Size(b) = 1 \/ b # AllLines
  /\ pending' = pending \ {b}

Reject(b) ==
  /\ status = "searching"
  /\ b \in pending
  /\ pending' = pending \ {b}
  /\ UNCHANGED <<found, status, result>>

(* The whole list does not fail: there is nothing to look for. *)
RejectAll ==
  /\ status = "searching"
  /\ found = {}
  /\ pending = {AllLines}
  /\ pending' = {}
  /\ status' = "complete"
  /\ UNCHANGED <<found, result>>

Complete ==
  /\ status = "searching"
  /\ pending = {}
  /\ status' = "complete"
  /\ result' = Smallest(found)
  /\ UNCHANGED <<pending, found>>

CutShort ==
  /\ status = "searching"
  /\ found # {}
  /\ status' = "partial"
  /\ result' = Smallest(found)
  /\ UNCHANGED <<pending, found>>

Abandon ==
  /\ status = "searching"
  /\ status' = "abandoned"
  /\ UNCHANGED <<pending, found, result>>

SearchNext ==
  \/ \E b \in pending :
       \/ \E f \in Kinds :
            /\ Confirm(b, f)
            /\ Leave(b) \/ \E cuts \in SUBSET (b.lo .. b.hi - 1) : CutUp(b, cuts)
       \/ Reject(b)
  \/ RejectAll
  \/ Complete
  \/ CutShort
  \/ Abandon

SearchSpec == SearchInit /\ [][SearchNext]_searchVars
=============================================================================
