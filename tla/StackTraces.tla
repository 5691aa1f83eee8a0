----------------------------- MODULE StackTraces -----------------------------
(***************************************************************************)
(* What the scripts make of failures as text: the trace of a test in a     *)
(* Surefire report (correlate_flaky_aws.py), and what two traces have in   *)
(* common (compare_stack_traces.py).                                       *)
(*                                                                         *)
(* A printed stack frame is an element of Frames.  A text has a message    *)
(* and all the frames in it, those of its causes among them; text.at tells *)
(* whether "at " occurs in the message.  A trace is the sequence of its    *)
(* parts, which the scripts join and split at blanks.                      *)
(*                                                                         *)
(* An operator whose comment begins with "Slip" is a plausible bug; no     *)
(* other one uses it.                                                      *)
(***************************************************************************)
EXTENDS Integers, Sequences, SequencesExt

CONSTANTS Frames,    \* lines "at class.method(file:line)"
          Prefixed,  \* those that begin with the package prefix of the
                     \* test, which may be any prefix (one test has its own)
          Maven,     \* those that begin with org.apache.maven
          Message,   \* a message, as a part of a trace
          Chars      \* the length of every part

Parts == Frames \cup {Message}

ASSUME StackTracesAssumption ==
  /\ Prefixed \subseteq Frames /\ Maven \subseteq Frames
  /\ Message \notin Frames
  /\ Chars \in [Parts -> Nat]

Own == Prefixed \ Maven

(* The frames that are in S, in their order.                               *)
Keep(frames, S) ==
  LET kept[k \in 0 .. Len(frames)] ==
        IF k = 0 THEN <<>>
        ELSE IF frames[k] \in S THEN Append(kept[k - 1], frames[k])
        ELSE kept[k - 1]
  IN  kept[Len(frames)]

-----------------------------------------------------------------------------
(* get_fail_line_generator: the frames of the project, or all of a text in *)
(* which "at " does not occur.                                             *)
FailLines(text) ==
  IF ~ text.at /\ text.frames = <<>> THEN <<Message>>
  ELSE Keep(text.frames, Own)


(* parse_failure_trace_from_xml_str, for one testcase of the test: the     *)
(* first of its attempts, errors and failures, else what it printed.       *)
CaseLines(lines, case) ==
  LET texts == case.attempts \o case.errors \o case.failures
      more  == IF texts = <<>> THEN lines ELSE lines \o FailLines(texts[1])
  IN  IF more # <<>> THEN more
      ELSE FlattenSeq([i \in DOMAIN case.err |-> FailLines(case.err[i])])

(* A test may have several testcases in a report (it is run again).        *)
Parse(cases) == FoldLeft(CaseLines, <<>>, cases)

-----------------------------------------------------------------------------
(* compare_stack_traces_tops                                               *)
Tops(a, b) ==
  LET shorter == IF Len(a) < Len(b) THEN Len(a) ELSE Len(b)
      differ  == {i \in 1 .. shorter : a[i] # b[i]}
  IN  SubSeq(a, 1, IF differ = {} THEN shorter
                   ELSE (CHOOSE i \in differ : \A j \in differ : i <= j) - 1)

(* The length of a list of parts, each of which list() takes apart.        *)
Weight(parts) ==
  LET chars[k \in 0 .. Len(parts)] ==
        IF k = 0 THEN 0 ELSE chars[k - 1] + Chars[parts[k]]
  IN  chars[Len(parts)]

(* Slip: parts are counted, not characters.                                *)
HeavierByParts(a, b) == IF Len(b) > Len(a) THEN b ELSE a

(* max(a, b, key=len): the first one, if they are equal.                   *)
Heavier(a, b) == IF Weight(b) > Weight(a) THEN b ELSE a

(* lcs: a row of the matrix, from the row above.  Cells outside of it are  *)
(* still [] when they are read (index -1 is the last row or column).       *)
Row(above, x, b) ==
  LET cell[j \in 0 .. Len(b)] ==
        IF j = 0 THEN <<>>
        ELSE IF x = b[j] THEN Append(above[j - 1], x)
        ELSE Heavier(above[j], cell[j - 1])
  IN  cell

Lcs(a, b) ==
  LET matrix[i \in 0 .. Len(a)] ==
        IF i = 0 THEN [j \in 0 .. Len(b) |-> <<>>] ELSE Row(matrix[i - 1], a[i], b)
  IN  matrix[Len(a)][Len(b)]

(* compare_stack_traces: both lists are reversed in place before the       *)
(* bottoms are compared.                                                   *)
Compare(a, b) ==
  [top |-> Tops(a, b), bottom |-> Tops(Reverse(a), Reverse(b)), lcs |-> Lcs(a, b)]
=============================================================================
