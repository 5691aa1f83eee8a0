-------------------------- MODULE ReproductionProofs --------------------------
(***************************************************************************)
(* What the reports of a reproduction promise, for every number of rows    *)
(* and of runs and every kind of failure: which samples are in them, and   *)
(* which runs stand behind the failures they name.                         *)
(***************************************************************************)
EXTENDS Reproduction, FiniteSetTheorems, SequenceTheorems, TLAPS

All == Logged \cup {NoFail}

Times(lines, r) == Cardinality(SamplesOf(lines, r))

(* One of the first k runs failed with f; for NoFail, none of them failed. *)
Explains(runs, k, f) ==
  IF f = NoFail THEN \A j \in 1 .. k : runs[j] = NoFail
                ELSE \E j \in 1 .. k : runs[j] = f

(* A line and the runs of its row up to the one it was written for.        *)
Explained(l) ==
  /\ 1 .. l.idx + 1 \subseteq DOMAIN ended[l.row]
  /\ Explains(ended[l.row], l.idx + 1, l.failure)

(* The row at hand is one that can be reproduced.                          *)
RowInv ==
  /\ phase \in {"start", "setup", "sample", "collect"} => row \in InputRows
  /\ phase = "start" /\ ~ split => row = 1
  /\ phase \in {"start", "setup", "sample", "collect"} /\ split => kinds[row] # "NoFail"
  /\ phase \in {"next", "collect"} => split
  /\ phase = "done" /\ split => row = NumRows + 1

(* Failures come from runs of this row: internal/ was emptied for it.      *)
SampleInv ==
  phase = "sample" =>
    /\ Len(samples) = Len(ended[row])
    /\ Explains(ended[row], Len(samples), failureLog)
    /\ \A k \in DOMAIN samples : Explains(ended[row], k, samples[k])

(* What the driver's report holds: of one row, or of the rows so far.      *)
ReportInv ==
  /\ phase \in {"setup", "sample"} =>
       IF split THEN report = <<Header>>
       ELSE /\ \A k \in DOMAIN report : report[k] # Header => report[k].row < row
            /\ \A r \in InputRows : Times(report, r) = IF r < row THEN Runs ELSE 0
  /\ phase = "done" /\ ~ split => \A r \in InputRows : Times(report, r) = Runs
  /\ phase = "collect" => \A r \in InputRows : Times(report, r) = IF r = row THEN Runs ELSE 0

(* What the accumulator holds: the rows so far, and, when the program was  *)
(* called again, what the call before had put there.                       *)
Collected(r, n) ==
  IF kinds[r] = "NoFail" THEN n = 0
  ELSE IF again THEN IF r < row THEN n \in {Runs, 2 * Runs} ELSE n \in {0, Runs}
  ELSE n = IF r < row THEN Runs ELSE 0

AccumInv == split => \A r \in InputRows : Collected(r, Times(accum, r))

LinesInv ==
  /\ SamplesComeTogether
  /\ \A k \in DOMAIN report : report[k] # Header => Explained(report[k])

RInv == TypeOK /\ RowInv /\ SampleInv /\ ReportInv /\ AccumInv /\ LinesInv

-----------------------------------------------------------------------------
(* Two sequences, one after the other.                                     *)
LEMMA Appends ==
  ASSUME NEW T, NEW a \in Seq(T), NEW b \in Seq(T)
  PROVE  LET c == a \o b
             m == Len(a)
             n == Len(b)
         IN  /\ c \in Seq(T) /\ m \in Nat /\ n \in Nat /\ Len(c) = m + n
             /\ DOMAIN c = 1 .. m + n /\ DOMAIN a = 1 .. m /\ DOMAIN b = 1 .. n
             /\ \A j \in 1 .. m : c[j] = a[j] /\ j \in 1 .. m + n
             /\ \A i \in 1 .. n : c[m + i] = b[i] /\ m + i \in 1 .. m + n
             /\ \A j \in 1 .. m + n : j \in 1 .. m \/ (j - m \in 1 .. n /\ c[j] = b[j - m])
OBVIOUS

(* The fields of a line.                                                   *)
LEMMA LineFields ==
  ASSUME NEW l \in FileLines, l # Header
  PROVE  l \in SampleLines /\ l.row \in InputRows /\ l.idx \in 0 .. Runs - 1 /\ l.failure \in All
BY DEF FileLines, SampleLines, Line, All

(* A file that another one is appended to keeps its samples together.      *)
LEMMA TogetherAppended ==
  ASSUME NEW a \in Seq(FileLines), NEW b \in Seq(FileLines), ComeTogether(a), ComeTogether(b)
  PROVE  ComeTogether(a \o b)
<1> DEFINE c == a \o b
           m == Len(a)
           n == Len(b)
<1>1. /\ m \in Nat /\ n \in Nat
      /\ DOMAIN c = 1 .. m + n /\ DOMAIN a = 1 .. m /\ DOMAIN b = 1 .. n
      /\ \A j \in 1 .. m : c[j] = a[j] /\ j \in 1 .. m + n
      /\ \A i \in 1 .. n : c[m + i] = b[i] /\ m + i \in 1 .. m + n
      /\ \A j \in 1 .. m + n : j \in 1 .. m \/ (j - m \in 1 .. n /\ c[j] = b[j - m])
  BY Appends
<1> HIDE DEF c, m, n
<1> SUFFICES ASSUME NEW k \in 1 .. m + n, c[k] # Header, NEW i \in 0 .. Runs - 1
             PROVE  LET p == k - c[k].idx + i
                    IN  p \in 1 .. m + n /\ c[p] # Header /\ c[p].row = c[k].row /\ c[p].idx = i
  BY <1>1 DEF ComeTogether, c
<1>2. CASE k \in 1 .. m
  <2> DEFINE p == k - a[k].idx + i
  <2>1. p \in 1 .. m /\ a[p] # Header /\ a[p].row = a[k].row /\ a[p].idx = i
    BY <1>1, <1>2 DEF ComeTogether
  <2> HIDE DEF p
  <2>2. c[k] = a[k] /\ c[p] = a[p] /\ p \in 1 .. m + n
    BY <1>1, <1>2, <2>1
  <2> QED BY <2>1, <2>2 DEF p
<1>3. CASE k \notin 1 .. m
  <2> DEFINE q == k - m
             p == q - b[q].idx + i
  <2>1. q \in 1 .. n /\ c[k] = b[q]
    BY <1>1, <1>3
  <2>2. p \in 1 .. n /\ b[p] # Header /\ b[p].row = b[q].row /\ b[p].idx = i
    BY <1>1, <2>1 DEF ComeTogether
  <2>3. b[q].idx \in Int
    <3>1. b[q] \in FileLines
      BY <2>1 DEF n
    <3>2. b[q].idx \in 0 .. Runs - 1
      BY <2>1, <3>1, LineFields
    <3> QED BY <3>2
  <2> DEFINE d == b[q].idx
  <2>4. m + p = k - c[k].idx + i
    <3>1. c[k].idx = d /\ d \in Int /\ p = (k - m) - d + i
      BY <2>1, <2>3
    <3> HIDE DEF p, d
    <3> QED BY <1>1, <3>1
  <2> HIDE DEF p, q, d
  <2>5. c[m + p] = b[p] /\ m + p \in 1 .. m + n
    BY <1>1, <2>2
  <2> QED BY <2>1, <2>2, <2>4, <2>5
<1> QED BY <1>2, <1>3

(* The lines of one row and of another file add up.                        *)
LEMMA TimesAppended ==
  ASSUME NEW a \in Seq(FileLines), NEW b \in Seq(FileLines), NEW r
  PROVE  /\ Times(a \o b, r) = Times(a, r) + Times(b, r)
         /\ Times(a, r) \in Nat /\ Times(b, r) \in Nat
<1> DEFINE c == a \o b
           m == Len(a)
           n == Len(b)
           A == SamplesOf(a, r)
           B == SamplesOf(b, r)
           C == SamplesOf(c, r)
           S == {m + i : i \in B}
<1>1. /\ m \in Nat /\ n \in Nat
      /\ DOMAIN c = 1 .. m + n /\ DOMAIN a = 1 .. m /\ DOMAIN b = 1 .. n
      /\ \A j \in 1 .. m : c[j] = a[j] /\ j \in 1 .. m + n
      /\ \A i \in 1 .. n : c[m + i] = b[i] /\ m + i \in 1 .. m + n
      /\ \A j \in 1 .. m + n : j \in 1 .. m \/ (j - m \in 1 .. n /\ c[j] = b[j - m])
  BY Appends
<1>2. A = {k \in 1 .. m : a[k] # Header /\ a[k].row = r}
  BY <1>1 DEF SamplesOf
<1>3. B = {k \in 1 .. n : b[k] # Header /\ b[k].row = r}
  BY <1>1 DEF SamplesOf
<1>4. C = {k \in 1 .. m + n : c[k] # Header /\ c[k].row = r}
  BY <1>1 DEF SamplesOf
<1> HIDE DEF c, m, n, A, B, C
<1>5. IsFiniteSet(A) /\ IsFiniteSet(B)
  <2>1. IsFiniteSet(1 .. m) /\ IsFiniteSet(1 .. n)
    BY <1>1, FS_Interval
  <2>2. A \in SUBSET (1 .. m) /\ B \in SUBSET (1 .. n)
    BY <1>2, <1>3
  <2> QED BY <2>1, <2>2, FS_Subset
<1>6. IsFiniteSet(S) /\ Cardinality(S) = Cardinality(B)
  <2> DEFINE f == [i \in B |-> m + i]
  <2>1. \A i \in B : i \in Nat
    BY <1>1, <1>3
  <2>2. f \in [B -> S] /\ \A s \in S : \E i \in B : f[i] = s
    OBVIOUS
  <2>3. \A i, j \in B : f[i] = f[j] => i = j
    <3> SUFFICES ASSUME NEW i \in B, NEW j \in B, f[i] = f[j] PROVE i = j
      OBVIOUS
    <3>1. i \in Nat /\ j \in Nat /\ m + i = m + j
      BY <2>1
    <3> QED BY <1>1, <3>1
  <2>4. f \in Bijection(B, S)
    BY <2>2, <2>3 DEF Bijection, Injection, Surjection, IsInjective
  <2>5. ExistsBijection(B, S)
    BY <2>4 DEF ExistsBijection
  <2> QED BY <1>5, <2>5, FS_Bijection
<1>7. C = A \cup S
  <2>1. \A k \in A \cup S : k \in C
    BY <1>1, <1>2, <1>3, <1>4
  <2>2. ASSUME NEW k \in C PROVE k \in A \cup S
    <3>1. k \in 1 .. m + n /\ c[k] # Header /\ c[k].row = r
      BY <1>4
    <3>2. CASE k \in 1 .. m
      BY <1>1, <1>2, <3>1, <3>2
    <3>3. CASE k \notin 1 .. m
      <4>1. k - m \in B
        BY <1>1, <1>3, <3>1, <3>3
      <4>2. k = m + (k - m)
        BY <1>1, <3>1
      <4> QED BY <4>1, <4>2
    <3> QED BY <3>2, <3>3
  <2> HIDE DEF S
  <2> QED BY <2>1, <2>2
<1>8. A \cap S = {}
  <2>1. \A i \in B : m + i \notin 1 .. m
    BY <1>1, <1>3
  <2> QED BY <1>2, <2>1
<1> HIDE DEF S
<1>9. Cardinality(C) = Cardinality(A) + Cardinality(B)
  <2>1. Cardinality(A \cup S) = Cardinality(A) + Cardinality(S) - Cardinality(A \cap S)
    BY <1>5, <1>6, FS_Union, Zenon
  <2>2. Cardinality(A \cap S) = 0
    BY <1>8, FS_EmptySet
  <2>3. Cardinality(A) \in Nat /\ Cardinality(B) \in Nat
    BY <1>5, FS_CardinalityType
  <2> QED BY <1>6, <1>7, <2>1, <2>2, <2>3
<1>10. Cardinality(A) \in Nat /\ Cardinality(B) \in Nat
  BY <1>5, FS_CardinalityType
<1> QED BY <1>9, <1>10 DEF Times, A, B, C, c

(* What is written of a row: a line for each of its samples.               *)
LEMMA BlockLines ==
  ASSUME NEW r \in InputRows, NEW s \in Seq(All), Len(s) = Runs
  PROVE  LET B == Block(r, s)
         IN  /\ B \in Seq(FileLines) /\ DOMAIN B = 1 .. Runs
             /\ \A i \in 1 .. Runs : /\ B[i] # Header
                                     /\ B[i].row = r /\ B[i].idx = i - 1 /\ B[i].failure = s[i]
             /\ ComeTogether(B)
             /\ \A q \in InputRows : Times(B, q) = IF q = r THEN Runs ELSE 0
<1> DEFINE B == Block(r, s)
<1> USE ReproductionAssumption, HeaderAssumption
<1>1. DOMAIN s = 1 .. Runs /\ B = [i \in 1 .. Runs |-> Line(r, i - 1, s[i])]
  BY DEF Block
<1>2. \A i \in 1 .. Runs : B[i] = Line(r, i - 1, s[i]) /\ s[i] \in All /\ i - 1 \in 0 .. Runs - 1
  BY <1>1
<1> HIDE DEF B
<1>3. \A i \in 1 .. Runs : B[i] \in SampleLines
  BY <1>2 DEF SampleLines, All
<1>4. \A i \in 1 .. Runs : /\ B[i] # Header
                           /\ B[i].row = r /\ B[i].idx = i - 1 /\ B[i].failure = s[i]
  <2> SUFFICES ASSUME NEW i \in 1 .. Runs
               PROVE  /\ B[i] # Header
                      /\ B[i].row = r /\ B[i].idx = i - 1 /\ B[i].failure = s[i]
    OBVIOUS
  <2>1. B[i] # Header
    BY <1>3
  <2>2. B[i] = [row |-> r, idx |-> i - 1, failure |-> s[i]]
    BY <1>2 DEF Line
  <2> QED BY ONLY <2>1, <2>2
<1>5. B \in Seq(FileLines)
  <2>1. B \in [1 .. Runs -> FileLines]
    BY <1>1, <1>3 DEF FileLines
  <2> QED BY <2>1
<1>6. ComeTogether(B)
  <2> SUFFICES ASSUME NEW k \in DOMAIN B, NEW i \in 0 .. Runs - 1
               PROVE  LET p == k - B[k].idx + i
                      IN  p \in DOMAIN B /\ B[p] # Header /\ B[p].row = B[k].row /\ B[p].idx = i
    BY DEF ComeTogether
  <2>0. DOMAIN B = 1 .. Runs
    BY <1>1
  <2>1. k - B[k].idx + i = i + 1 /\ i + 1 \in 1 .. Runs /\ (i + 1) - 1 = i
    BY <1>4, <2>0
  <2> DEFINE p == i + 1
  <2>2. p \in 1 .. Runs /\ p - 1 = i
    BY <2>1
  <2> HIDE DEF p
  <2>3. B[p] # Header /\ B[p].row = r /\ B[p].idx = i
    BY <1>4, <2>2
  <2> QED BY <1>4, <2>0, <2>1, <2>2, <2>3 DEF p
<1>7. ASSUME NEW q \in InputRows PROVE Times(B, q) = IF q = r THEN Runs ELSE 0
  <2>1. Cardinality(1 .. Runs) = Runs
    BY FS_Interval
  <2>2. SamplesOf(B, q) = IF q = r THEN 1 .. Runs ELSE {}
    BY <1>1, <1>4 DEF SamplesOf
  <2> QED BY <2>1, <2>2, FS_EmptySet DEF Times
<1> QED BY <1>1, <1>4, <1>5, <1>6, <1>7 DEF B

(* A file of the header alone, or with nothing in it.                      *)
LEMMA NoSamples ==
  ASSUME NEW lines \in Seq(FileLines), \A k \in DOMAIN lines : lines[k] = Header
  PROVE  ComeTogether(lines) /\ \A r : Times(lines, r) = 0
<1>1. ComeTogether(lines)
  BY DEF ComeTogether
<1>2. \A r : SamplesOf(lines, r) = {}
  BY DEF SamplesOf
<1> QED BY <1>1, <1>2, FS_EmptySet DEF Times

-----------------------------------------------------------------------------
(* Nothing has been done yet.                                              *)
LEMMA Initially == Init => RInv
<1> SUFFICES ASSUME Init PROVE RInv
  OBVIOUS
<1> USE ReproductionAssumption
<1>1. TypeOK
  <2>1. <<>> \in Seq(FileLines) /\ <<>> \in Seq(Logged \cup {NoFail}) /\ Len(<<>>) = 0
    OBVIOUS
  <2>2. row \in 1 .. NumRows + 1 /\ Len(samples) <= Runs
    BY <2>1 DEF Init
  <2>3. phase \in {"next", "start", "setup", "sample", "collect", "done", "crashed"}
    BY DEF Init
  <2>4. ended \in [InputRows -> Seq(Logged \cup {NoFail})]
    BY <2>1 DEF Init
  <2> QED BY <2>1, <2>2, <2>3, <2>4 DEF Init, TypeOK
<1>2. RowInv
  <2>1. row = 1 /\ 1 \in InputRows
    BY DEF Init, InputRows
  <2>2. phase = IF split THEN "next" ELSE "start"
    BY DEF Init
  <2> QED BY <2>1, <2>2 DEF RowInv
<1>3. SampleInv /\ ReportInv
  <2>1. phase \in {"next", "start"}
    BY DEF Init
  <2> QED BY <2>1 DEF SampleInv, ReportInv
<1>4. ComeTogether(<<>>) /\ \A r : Times(<<>>, r) = 0
  <2>1. <<>> \in Seq(FileLines) /\ DOMAIN <<>> = {}
    OBVIOUS
  <2> QED BY <2>1, NoSamples
<1>5. AccumInv
  <2>1. \A r \in InputRows : r >= 1
    BY DEF InputRows
  <2>2. accum = <<>> /\ row = 1 /\ again = FALSE
    BY DEF Init
  <2>3. ASSUME NEW r \in InputRows PROVE Collected(r, Times(accum, r))
    <3>1. ~ (r < row) /\ Times(accum, r) = 0
      BY <1>4, <2>1, <2>2 DEF InputRows
    <3>2. CASE kinds[r] = "NoFail"
      BY <3>1, <3>2 DEF Collected
    <3>3. CASE kinds[r] # "NoFail"
      BY <2>2, <3>1, <3>3 DEF Collected
    <3> QED BY <3>2, <3>3
  <2> QED BY <2>3 DEF AccumInv
<1>6. LinesInv
  BY <1>4 DEF Init, LinesInv, SamplesComeTogether
<1> QED BY <1>1, <1>2, <1>3, <1>5, <1>6 DEF RInv

-----------------------------------------------------------------------------
(* The steps of reproduce_reports.py.                                      *)

(* Files that stay as they are, with the runs behind them.                 *)
LEMMA LinesStay ==
  ASSUME LinesInv, UNCHANGED <<report, accum, ended>>
  PROVE  LinesInv'
BY DEF LinesInv, SamplesComeTogether, ComeTogether, Explained, Explains

(* The accumulator while the program is at the same row.                   *)
LEMMA AccumStays ==
  ASSUME AccumInv, UNCHANGED <<input, accum, row, again>>
  PROVE  AccumInv'
BY DEF AccumInv, Collected, input, Times, SamplesOf

(* A row without a failure has nothing in the accumulator, and gets none.  *)
LEMMA SkipKeeps == ASSUME RInv, Skip PROVE RInv'
<1> USE ReproductionAssumption DEF Skip, input, files, RInv
<1>1. row \in 1 .. NumRows + 1 /\ row + 1 \in 1 .. NumRows + 1
  BY DEF TypeOK
<1>2. TypeOK'
  BY <1>1 DEF TypeOK
<1>3. RowInv' /\ SampleInv' /\ ReportInv'
  BY DEF RowInv, SampleInv, ReportInv
<1>4. ASSUME split, NEW r \in InputRows PROVE Collected(r, Times(accum, r))'
  <2> DEFINE n == Times(accum, r)
  <2>1. Collected(r, n)
    BY <1>4 DEF AccumInv
  <2>2. n' = n
    BY DEF Times, SamplesOf
  <2>3. kinds[r] # "NoFail" => (r < row <=> r < row')
    BY <1>1 DEF InputRows
  <2>4. UNCHANGED <<kinds, again>>
    OBVIOUS
  <2> HIDE DEF n
  <2> QED BY ONLY <2>1, <2>2, <2>3, <2>4 DEF Collected, n
<1>5. AccumInv'
  BY <1>4 DEF AccumInv
<1> QED BY <1>2, <1>3, <1>5, LinesStay

(* The driver is started for a row with a failure.                         *)
LEMMA PrepareKeeps == ASSUME RInv, Prepare PROVE RInv'
<1> USE ReproductionAssumption DEF Prepare, input, files, RInv
<1>1. TypeOK'
  BY DEF TypeOK
<1>2. RowInv'
  <2>1. row \in InputRows /\ split
    BY DEF TypeOK, InputRows, RowInv
  <2> QED BY <2>1 DEF RowInv
<1>3. SampleInv' /\ ReportInv'
  BY DEF SampleInv, ReportInv
<1> QED BY <1>1, <1>2, <1>3, LinesStay, AccumStays

(* The samples of one row are added to the accumulator.                    *)
LEMMA CollectKeeps == ASSUME RInv, Collect PROVE RInv'
<1> USE ReproductionAssumption DEF RInv
<1>1. /\ split /\ phase = "collect" /\ phase' = "next" /\ row' = row + 1
      /\ accum' = accum \o report
      /\ UNCHANGED <<kinds, split, failureLog, samples, report, final, again, ended>>
      /\ row \in InputRows /\ kinds[row] # "NoFail"
  BY DEF Collect, RowInv, input
<1>2. accum \in Seq(FileLines) /\ report \in Seq(FileLines)
  BY DEF TypeOK
<1>3. accum' \in Seq(FileLines)
  BY <1>1, <1>2
<1>4. row' \in 1 .. NumRows + 1
  BY <1>1 DEF InputRows
<1>5. TypeOK'
  BY <1>1, <1>3, <1>4 DEF TypeOK
<1>6. RowInv' /\ SampleInv' /\ ReportInv'
  BY <1>1 DEF RowInv, SampleInv, ReportInv
<1>7. ASSUME NEW r \in InputRows PROVE Collected(r, Times(accum, r))'
  <2> DEFINE n == Times(accum, r)
             m == Times(report, r)
  <2>1. n' = n + m /\ n \in Nat /\ m \in Nat
    <3>1. Times(accum \o report, r) = n + m /\ n \in Nat /\ m \in Nat
      BY <1>2, TimesAppended
    <3>2. Times(accum, r)' = Times(accum \o report, r)
      BY <1>1 DEF Times, SamplesOf
    <3> QED BY <3>1, <3>2
  <2>2. m = IF r = row THEN Runs ELSE 0
    BY <1>1 DEF ReportInv
  <2>3. Collected(r, n)
    BY <1>1 DEF AccumInv
  <2>4. kinds' = kinds /\ again' = again /\ row' = row + 1 /\ kinds[row] # "NoFail"
    BY <1>1
  <2>5. row \in Nat /\ r \in Nat /\ Runs \in Nat
    BY <1>1 DEF InputRows
  <2> HIDE DEF n, m
  <2>6. CASE r = row
    <3>1. ~ (r < row) /\ r < row' /\ n' = n + Runs /\ kinds[r] # "NoFail"
      BY <2>1, <2>2, <2>4, <2>5, <2>6
    <3>2. IF again THEN n \in {0, Runs} ELSE n = 0
      BY <2>3, <3>1 DEF Collected
    <3>3. IF again THEN n' \in {Runs, 2 * Runs} ELSE n' = Runs
      BY <2>5, <3>1, <3>2
    <3> QED BY ONLY <2>4, <3>1, <3>3 DEF Collected, n
  <2>7. CASE r # row
    <3>1. (r < row <=> r < row') /\ n' = n
      BY <2>1, <2>2, <2>4, <2>5, <2>7
    <3> QED BY ONLY <2>3, <2>4, <3>1 DEF Collected, n
  <2> QED BY <2>6, <2>7
<1>8. AccumInv'
  BY <1>7 DEF AccumInv
<1>9. LinesInv'
  <2>1. ComeTogether(accum \o report)
    BY <1>2, TogetherAppended DEF LinesInv, SamplesComeTogether
  <2>2. ComeTogether(accum)' /\ ComeTogether(report)'
    <3> DEFINE c == accum \o report
    <3>1. ComeTogether(c) /\ ComeTogether(report) /\ accum' = c /\ report' = report
      BY <1>1, <2>1 DEF LinesInv, SamplesComeTogether
    <3> HIDE DEF c
    <3>2. ComeTogether(accum)'
      BY ONLY <3>1 DEF ComeTogether
    <3>3. ComeTogether(report)'
      BY ONLY <3>1 DEF ComeTogether
    <3> QED BY <3>2, <3>3
  <2>3. \A k \in DOMAIN report' : report'[k] # Header => Explained(report[k])'
    BY <1>1 DEF LinesInv, Explained, Explains
  <2> QED BY <2>2, <2>3 DEF LinesInv, SamplesComeTogether
<1> QED BY <1>5, <1>6, <1>8, <1>9

(* At the end there is a file to open, or the program raises.              *)
LEMMA RemoveHeadersKeeps == ASSUME RInv, RemoveHeaders PROVE RInv'
<1> USE ReproductionAssumption DEF RInv
<1>1. /\ split /\ phase = "next" /\ phase' \in {"crashed", "done"} /\ row > NumRows
      /\ final' = final \/ (accum # <<>> /\ final' = <<accum[1]>>)
      /\ UNCHANGED <<input, row, failureLog, samples, report, accum, again, ended>>
  BY DEF RemoveHeaders, RowInv
<1>2. final' \in Seq(FileLines)
  <2>1. accum \in Seq(FileLines) /\ final \in Seq(FileLines)
    BY DEF TypeOK
  <2>2. CASE accum # <<>> /\ final' = <<accum[1]>>
    <3>1. accum[1] \in FileLines
      BY <2>1, <2>2
    <3> QED BY <2>2, <3>1
  <2> QED BY <1>1, <2>1, <2>2
<1>3. TypeOK'
  BY <1>1, <1>2 DEF TypeOK, input
<1>4. RowInv'
  <2>1. row = NumRows + 1
    BY <1>1 DEF TypeOK
  <2> QED BY <1>1, <2>1 DEF RowInv, input
<1>5. SampleInv' /\ ReportInv'
  BY <1>1 DEF SampleInv, ReportInv, input
<1> QED BY <1>1, <1>3, <1>4, <1>5, LinesStay, AccumStays

-----------------------------------------------------------------------------
(* The steps of the driver.                                                *)

(* Runs of the row at hand stand behind none of the lines yet.             *)
LEMMA OtherRowsStay ==
  ASSUME RInv, UNCHANGED <<report, accum>>,
         \A k \in DOMAIN report : report[k] # Header => report[k].row # row,
         \A r \in InputRows : r # row => ended'[r] = ended[r]
  PROVE  LinesInv'
<1>1. ComeTogether(report)' /\ ComeTogether(accum)'
  BY DEF RInv, LinesInv, SamplesComeTogether, ComeTogether
<1>2. ASSUME NEW k \in DOMAIN report, report[k] # Header PROVE Explained(report[k])'
  <2> DEFINE l == report[k]
  <2>1. l \in FileLines
    BY DEF RInv, TypeOK
  <2>2. l.row \in InputRows
    BY <1>2, <2>1, LineFields
  <2>3. ended'[l.row] = ended[l.row]
    BY <1>2, <2>2
  <2>4. Explained(l) /\ l' = l
    BY <1>2 DEF RInv, LinesInv
  <2> HIDE DEF l
  <2> QED BY <2>3, <2>4 DEF Explained, Explains, l
<1> QED BY <1>1, <1>2 DEF LinesInv, SamplesComeTogether

(* A report begins with its header.                                        *)
LEMMA HeaderAlone ==
  /\ <<Header>> \in Seq(FileLines) /\ \A k \in DOMAIN <<Header>> : <<Header>>[k] = Header
  /\ ComeTogether(<<Header>>) /\ \A r : Times(<<Header>>, r) = 0
<1>1. <<Header>> \in Seq(FileLines) /\ \A k \in DOMAIN <<Header>> : <<Header>>[k] = Header
  BY DEF FileLines
<1> QED BY <1>1, NoSamples

(* The report is begun anew.                                               *)
LEMMA StartDriverKeeps == ASSUME RInv, StartDriver PROVE RInv'
<1> USE ReproductionAssumption DEF RInv
<1>1. /\ phase = "start" /\ phase' \in {"setup", "crashed"} /\ failureLog' = NoFail
      /\ phase' = "setup" => report' = <<Header>>
      /\ report' \in {<<Header>>, report}
      /\ UNCHANGED <<input, row, samples, accum, final, again, ended>>
  BY DEF StartDriver, CreateDirs, Install
<1>2. row \in InputRows /\ (split => kinds[row] # "NoFail") /\ (~ split => row = 1)
  BY <1>1 DEF RowInv
<1>3. TypeOK'
  <2>1. report' \in Seq(FileLines)
    BY <1>1, HeaderAlone DEF TypeOK
  <2> QED BY <1>1, <2>1 DEF TypeOK, input
<1>4. RowInv' /\ SampleInv'
  BY <1>1, <1>2 DEF RowInv, SampleInv, input
<1>5. ReportInv'
  <2> SUFFICES ASSUME phase' = "setup", ~ split
               PROVE  /\ \A k \in DOMAIN report' : report'[k] = Header
                      /\ \A r \in InputRows : Times(report, r)' = 0 /\ ~ (r < row')
    BY <1>1 DEF ReportInv, input
  <2>1. \A r : Times(report, r)' = Times(<<Header>>, r)
    BY <1>1 DEF Times, SamplesOf
  <2>2. \A r \in InputRows : ~ (r < row')
    BY <1>1, <1>2 DEF InputRows
  <2> QED BY <1>1, <2>1, <2>2, HeaderAlone
<1>6. LinesInv'
  <2>1. CASE report' = report
    BY <1>1, <2>1, LinesStay
  <2>2. CASE report' = <<Header>>
    <3>1. ComeTogether(report)'
      BY <2>2, HeaderAlone DEF ComeTogether
    <3>2. ComeTogether(accum)'
      BY <1>1 DEF LinesInv, SamplesComeTogether, ComeTogether
    <3>3. \A k \in DOMAIN report' : report'[k] = Header
      BY <2>2, HeaderAlone
    <3> QED BY <3>1, <3>2, <3>3 DEF LinesInv, SamplesComeTogether
  <2> QED BY <1>1, <2>1, <2>2
<1> QED BY <1>1, <1>3, <1>4, <1>5, <1>6, AccumStays

(* While a row is at hand its lines are not in the report.                 *)
LEMMA RowIsNew ==
  ASSUME RInv, phase \in {"setup", "sample"}
  PROVE  /\ row \in InputRows
         /\ \A k \in DOMAIN report : report[k] # Header => report[k].row # row
<1>1. row \in InputRows
  BY DEF RInv, RowInv
<1>2. CASE split
  <2>1. report = <<Header>>
    BY <1>2 DEF RInv, ReportInv
  <2>2. \A k \in DOMAIN report : report[k] = Header
    BY <2>1, HeaderAlone
  <2> QED BY <1>1, <2>2
<1>3. CASE ~ split
  <2>1. \A k \in DOMAIN report : report[k] # Header => report[k].row < row
    BY <1>3 DEF RInv, ReportInv
  <2>2. ~ (row < row)
    BY <1>1, ReproductionAssumption DEF InputRows
  <2> QED BY <1>1, <2>1, <2>2, Zenon
<1> QED BY <1>2, <1>3

(* Before the samples of a row nothing is left of the row before.          *)
LEMMA SetupKeeps == ASSUME RInv, Setup PROVE RInv'
<1> USE ReproductionAssumption DEF RInv
<1>1. /\ phase = "setup" /\ phase' \in {"sample", "crashed"}
      /\ failureLog' = NoFail /\ samples' = <<>> /\ ended' = [ended EXCEPT ![row] = <<>>]
      /\ UNCHANGED <<input, row, files, again>>
  BY DEF Setup
<1>2. /\ row \in InputRows
      /\ \A k \in DOMAIN report : report[k] # Header => report[k].row # row
  BY <1>1, RowIsNew
<1>3. ended'[row] = <<>> /\ \A r \in InputRows : r # row => ended'[r] = ended[r]
  BY <1>1, <1>2 DEF TypeOK
<1>4. TypeOK'
  <2>1. <<>> \in Seq(Logged \cup {NoFail}) /\ Len(<<>>) <= Runs
    OBVIOUS
  <2>2. ended' \in [InputRows -> Seq(Logged \cup {NoFail})]
    BY <1>1, <2>1 DEF TypeOK
  <2> QED BY <1>1, <2>1, <2>2 DEF TypeOK, input, files
<1>5. RowInv'
  BY <1>1 DEF RowInv, input
<1>6. SampleInv'
  BY <1>1, <1>3 DEF SampleInv, Explains
<1>7. ReportInv'
  BY <1>1 DEF ReportInv, input, files, Times, SamplesOf
<1>8. LinesInv'
  BY <1>1, <1>2, <1>3, OtherRowsStay DEF files
<1> QED BY <1>1, <1>4, <1>5, <1>6, <1>7, <1>8, AccumStays DEF files

(* What has been explained by some runs is by these and another one.       *)
LEMMA MoreRuns ==
  ASSUME NEW e \in Seq(All), NEW f \in All, NEW k \in 0 .. Len(e), NEW g, Explains(e, k, g)
  PROVE  Explains(Append(e, f), k, g)
<1>1. \A j \in 1 .. k : Append(e, f)[j] = e[j]
  OBVIOUS
<1> QED BY <1>1 DEF Explains

(* failure.log after a run names this run's failure or an earlier one's.   *)
LEMMA LogIsExplained ==
  ASSUME NEW e \in Seq(All), NEW f \in All, Explains(e, Len(e), failureLog)
  PROVE  Explains(Append(e, f), Len(e) + 1, LogAfter(f))
<1> DEFINE n == Len(e)
           d == Append(e, f)
           g == LogAfter(f)
<1>1. n \in Nat /\ d[n + 1] = f /\ \A j \in 1 .. n : d[j] = e[j]
  OBVIOUS
<1>2. 1 .. n + 1 = (1 .. n) \cup {n + 1}
  BY <1>1
<1>3. g = failureLog \/ (g = f /\ f # NoFail)
  BY DEF LogAfter
<1>4. f # NoFail => g # NoFail
  BY ReproductionAssumption DEF LogAfter
<1>5. Explains(e, n, failureLog)
  OBVIOUS
<1> HIDE DEF n, d, g
<1> DEFINE J == 1 .. n
           K == 1 .. n + 1
<1>6. K = J \cup {n + 1}
  BY <1>2
<1>7. \A j \in J : d[j] = e[j]
  BY <1>1
<1>8. IF failureLog = NoFail THEN \A j \in J : e[j] = NoFail
                             ELSE \E j \in J : e[j] = failureLog
  BY <1>5 DEF Explains
<1>9. d[n + 1] = f
  BY <1>1
<1> HIDE DEF J, K
<1>10. IF g = NoFail THEN \A j \in K : d[j] = NoFail ELSE \E j \in K : d[j] = g
  BY <1>3, <1>4, <1>6, <1>7, <1>8, <1>9
<1> QED BY <1>10 DEF Explains, K, n, d, g

(* One more sample.                                                        *)
LEMMA SampleKeeps ==
  ASSUME RInv, NEW f \in All, Sample(f)
  PROVE  RInv'
<1> USE ReproductionAssumption DEF RInv
<1> DEFINE e == ended[row]
           g == LogAfter(f)
           n == Len(samples)
<1>1. /\ phase = "sample" /\ phase' = "sample" /\ n < Runs
      /\ failureLog' = g /\ samples' = Append(samples, g)
      /\ ended' = [ended EXCEPT ![row] = Append(e, f)]
      /\ UNCHANGED <<input, row, files, again>>
  BY DEF Sample
<1>2. /\ row \in InputRows
      /\ \A k \in DOMAIN report : report[k] # Header => report[k].row # row
  BY <1>1, RowIsNew
<1>3. ended'[row] = Append(e, f) /\ \A r \in InputRows : r # row => ended'[r] = ended[r]
  BY <1>1, <1>2 DEF TypeOK
<1>4. e \in Seq(All) /\ samples \in Seq(All) /\ failureLog \in All
  BY <1>2 DEF TypeOK, All
<1>5. g \in All
  BY <1>4 DEF LogAfter
<1>6. TypeOK'
  <2>1. Append(samples, g) \in Seq(All) /\ Len(Append(samples, g)) <= Runs
    BY <1>1, <1>4, <1>5
  <2>2. Append(e, f) \in Seq(All)
    BY <1>4
  <2>3. ended' \in [InputRows -> Seq(All)]
    BY <1>1, <2>2 DEF TypeOK, All
  <2> HIDE DEF g, e
  <2> QED BY <1>1, <1>5, <2>1, <2>3 DEF TypeOK, input, files, All
<1>7. RowInv'
  BY <1>1 DEF RowInv, input
<1>8. SampleInv'
  <2>1. /\ Len(e) = n /\ n \in Nat /\ Explains(e, n, failureLog)
        /\ \A k \in DOMAIN samples : Explains(e, k, samples[k])
    BY <1>1, <1>4 DEF SampleInv
  <2>2. Explains(Append(e, f), n + 1, g)
    BY <1>4, <2>1, LogIsExplained
  <2>3. /\ Len(samples') = n + 1 /\ DOMAIN samples' = 1 .. n + 1
        /\ samples'[n + 1] = g /\ \A k \in 1 .. n : samples'[k] = samples[k]
        /\ DOMAIN samples = 1 .. n
    BY <1>1, <1>4, <1>5
  <2>4. Len(ended'[row]) = n + 1
    BY <1>3, <1>4, <2>1
  <2>5. ASSUME NEW k \in DOMAIN samples' PROVE Explains(ended'[row], k, samples'[k])
    <3>1. CASE k \in 1 .. n
      <4>1. Explains(e, k, samples[k]) /\ k \in 0 .. Len(e)
        BY <2>1, <2>3, <3>1
      <4> HIDE DEF e
      <4>2. Explains(Append(e, f), k, samples[k])
        BY <1>4, <4>1, MoreRuns
      <4> QED BY <1>3, <2>3, <3>1, <4>2
    <3>2. CASE k \notin 1 .. n
      <4>1. k = n + 1
        BY <2>1, <2>3, <2>5, <3>2
      <4> HIDE DEF e, g, n
      <4> QED BY <1>3, <2>2, <2>3, <4>1
    <3> QED BY <3>1, <3>2
  <2> HIDE DEF e, g, n
  <2> QED BY <1>1, <1>3, <2>2, <2>3, <2>4, <2>5 DEF SampleInv
<1>9. ReportInv'
  BY <1>1 DEF ReportInv, input, files, Times, SamplesOf
<1>10. LinesInv'
  BY <1>1, <1>2, <1>3, OtherRowsStay DEF files
<1> QED BY <1>1, <1>6, <1>7, <1>8, <1>9, <1>10, AccumStays DEF files

(* Nothing is written of a row whose runs are broken off.                  *)
LEMMA SampleRaisesKeeps == ASSUME RInv, SampleRaises PROVE RInv'
<1> USE ReproductionAssumption DEF RInv
<1>1. phase' = "crashed" /\ UNCHANGED <<input, row, failureLog, samples, files, again, ended>>
  BY DEF SampleRaises
<1>2. TypeOK' /\ RowInv' /\ SampleInv' /\ ReportInv'
  BY <1>1 DEF TypeOK, RowInv, SampleInv, ReportInv, input, files
<1> QED BY <1>1, <1>2, LinesStay, AccumStays DEF files

(* All samples of a row, in one go.                                        *)
LEMMA WriteRowsKeeps == ASSUME RInv, WriteRows PROVE RInv'
<1> USE ReproductionAssumption DEF RInv
<1> DEFINE B == Block(row, samples)
<1>1. /\ phase = "sample" /\ Len(samples) = Runs
      /\ report' = report \o B
      /\ UNCHANGED <<kinds, split, failureLog, samples, accum, final, again, ended>>
  BY DEF WriteRows, input
<1>2. \/ split /\ phase' = "collect" /\ row' = row
      \/ ~ split /\ row = NumRows /\ phase' = "done" /\ row' = row
      \/ ~ split /\ row # NumRows /\ phase' = "setup" /\ row' = row + 1
  BY DEF WriteRows
<1>3. /\ row \in InputRows
      /\ \A k \in DOMAIN report : report[k] # Header => report[k].row # row
  BY <1>1, RowIsNew
<1>4. samples \in Seq(All) /\ report \in Seq(FileLines)
  BY DEF TypeOK, All
<1>5. /\ B \in Seq(FileLines) /\ DOMAIN B = 1 .. Runs
      /\ \A i \in 1 .. Runs : /\ B[i] # Header
                              /\ B[i].row = row /\ B[i].idx = i - 1 /\ B[i].failure = samples[i]
      /\ ComeTogether(B)
      /\ \A q \in InputRows : Times(B, q) = IF q = row THEN Runs ELSE 0
  BY <1>1, <1>3, <1>4, BlockLines
<1> HIDE DEF B
<1>6. row \in 1 .. NumRows /\ row' \in 1 .. NumRows + 1 /\ (phase' = "setup" => row' \in 1 .. NumRows)
  BY <1>2, <1>3 DEF InputRows
<1>7. TypeOK'
  <2>1. report' \in Seq(FileLines)
    BY <1>1, <1>4, <1>5
  <2>2. phase' \in {"collect", "done", "setup"}
    BY <1>2
  <2> QED BY <1>1, <1>6, <2>1, <2>2 DEF TypeOK
<1>8. RowInv'
  <2>1. split => kinds[row] # "NoFail"
    BY <1>1 DEF RowInv
  <2> QED BY <1>1, <1>2, <1>6, <2>1 DEF RowInv, InputRows
<1>9. SampleInv'
  BY <1>2 DEF SampleInv
<1> DEFINE m == Len(report)
<1>10. /\ m \in Nat /\ DOMAIN report' = 1 .. m + Len(B) /\ DOMAIN report = 1 .. m
       /\ \A j \in 1 .. m : report'[j] = report[j]
       /\ \A j \in 1 .. m + Len(B) : j \in 1 .. m \/ (j - m \in DOMAIN B /\ report'[j] = B[j - m])
  BY <1>1, <1>4, <1>5, Appends
<1> HIDE DEF m
<1>11. \A r \in InputRows :
         Times(report, r)' = Times(report, r) + (IF r = row THEN Runs ELSE 0)
  <2> SUFFICES ASSUME NEW r \in InputRows
               PROVE  Times(report, r)' = Times(report, r) + (IF r = row THEN Runs ELSE 0)
    OBVIOUS
  <2>1. Times(report, r)' = Times(report \o B, r)
    BY <1>1 DEF Times, SamplesOf
  <2>2. Times(report \o B, r) = Times(report, r) + Times(B, r)
    BY <1>4, <1>5, TimesAppended
  <2> QED BY <1>5, <2>1, <2>2
<1>12. ReportInv'
  <2>1. CASE split
    <3>1. \A r : Times(report, r) = 0
      BY <1>1, <2>1, HeaderAlone DEF ReportInv
    <3>2. \A r \in InputRows : Times(report, r)' = IF r = row THEN Runs ELSE 0
      BY <1>11, <3>1
    <3> QED BY <1>1, <1>2, <2>1, <3>2 DEF ReportInv
  <2>2. CASE ~ split
    <3>1. /\ \A k \in DOMAIN report : report[k] # Header => report[k].row < row
          /\ \A r \in InputRows : Times(report, r) = IF r < row THEN Runs ELSE 0
      BY <1>1, <2>2 DEF ReportInv
    <3>2. ASSUME NEW r \in InputRows
          PROVE  Times(report, r)' = IF r < row + 1 THEN Runs ELSE 0
      <4>1. r \in Nat /\ row \in Nat
        BY <1>3 DEF InputRows
      <4> QED BY <1>11, <3>1, <4>1
    <3>3. CASE phase' = "done"
      <4>1. \A r \in InputRows : r < row + 1
        BY <1>2, <3>3 DEF InputRows
      <4> QED BY <1>1, <3>2, <3>3, <4>1 DEF ReportInv
    <3>4. CASE phase' = "setup"
      <4>1. row' = row + 1
        BY <1>2, <3>4
      <4>2. ASSUME NEW k \in DOMAIN report', report'[k] # Header PROVE report'[k].row < row'
        <5>1. CASE k \in 1 .. m
          <6> DEFINE l == report[k]
          <6>1. l.row < row /\ l = report'[k]
            BY <1>10, <3>1, <4>2, <5>1
          <6>2. l \in FileLines /\ l # Header
            BY <1>4, <1>10, <4>2, <5>1
          <6> HIDE DEF l
          <6>3. l.row \in InputRows
            BY <6>2, LineFields
          <6> QED BY <1>6, <4>1, <6>1, <6>3 DEF InputRows
        <5>2. CASE k \notin 1 .. m
          <6>1. report'[k].row = row
            BY <1>5, <1>10, <4>2, <5>2
          <6> QED BY <1>6, <4>1, <6>1
        <5> QED BY <5>1, <5>2
      <4> QED BY <1>1, <2>2, <3>2, <3>4, <4>1, <4>2 DEF ReportInv
    <3> QED BY <1>2, <2>2, <3>3, <3>4
  <2> QED BY <2>1, <2>2
<1>13. AccumInv'
  <2> SUFFICES ASSUME split PROVE AccumInv'
    BY <1>1 DEF AccumInv
  <2> QED BY <1>1, <1>2, AccumStays DEF input
<1>14. LinesInv'
  <2>1. ComeTogether(report)' /\ ComeTogether(accum)'
    <3> DEFINE c == report \o B
    <3>1. ComeTogether(c) /\ ComeTogether(accum) /\ report' = c /\ accum' = accum
      BY <1>1, <1>4, <1>5, TogetherAppended DEF LinesInv, SamplesComeTogether
    <3> HIDE DEF c
    <3>2. ComeTogether(report)'
      BY ONLY <3>1 DEF ComeTogether
    <3>3. ComeTogether(accum)'
      BY ONLY <3>1 DEF ComeTogether
    <3> QED BY <3>2, <3>3
  <2>2. ASSUME NEW i \in 1 .. Runs PROVE Explained(B[i])
    <3> DEFINE e == ended[row]
               l == B[i]
    <3>1. l.row = row /\ l.idx + 1 = i /\ l.failure = samples[i]
      BY <1>5
    <3>2. e \in Seq(All) /\ Len(e) = Runs /\ DOMAIN samples = 1 .. Runs
      BY <1>1, <1>3, <1>4 DEF TypeOK, All, SampleInv
    <3>3. Explains(e, i, samples[i])
      BY <1>1, <3>2 DEF SampleInv
    <3>4. 1 .. i \subseteq DOMAIN e
      BY <3>2
    <3> HIDE DEF l, e
    <3> QED BY <3>1, <3>3, <3>4 DEF Explained, l, e
  <2>3. ASSUME NEW k \in DOMAIN report', report'[k] # Header PROVE Explained(report'[k])
    <3>1. CASE k \in 1 .. m
      BY <1>10, <2>3, <3>1 DEF LinesInv
    <3>2. CASE k \notin 1 .. m
      BY <1>5, <1>10, <2>2, <2>3, <3>2
    <3> QED BY <3>1, <3>2
  <2>4. ASSUME NEW k \in DOMAIN report', report'[k] # Header PROVE Explained(report[k])'
    BY <1>1, <2>3, <2>4 DEF Explained, Explains
  <2> QED BY <2>1, <2>4 DEF LinesInv, SamplesComeTogether
<1> QED BY <1>7, <1>8, <1>9, <1>12, <1>13, <1>14

-----------------------------------------------------------------------------
(* The whole program.                                                      *)

(* What the first call left in the accumulator is what the second finds.   *)
LEMMA RestartKeeps == ASSUME RInv, Restart PROVE RInv'
<1> USE ReproductionAssumption DEF RInv
<1>1. /\ phase = "crashed" /\ ~ again /\ again' = TRUE /\ row' = 1
      /\ phase' = IF split THEN "next" ELSE "start"
      /\ UNCHANGED <<kinds, split, failureLog, samples, report, accum, final, ended>>
  BY DEF Restart, input, files
<1>2. row' \in 1 .. NumRows + 1 /\ row' \in InputRows
  BY <1>1 DEF InputRows
<1>3. TypeOK'
  BY <1>1, <1>2 DEF TypeOK
<1>4. RowInv'
  BY <1>1, <1>2 DEF RowInv
<1>5. SampleInv' /\ ReportInv'
  BY <1>1 DEF SampleInv, ReportInv
<1>6. ASSUME split, NEW r \in InputRows PROVE Collected(r, Times(accum, r))'
  <2> DEFINE n == Times(accum, r)
  <2>1. Collected(r, n)
    BY <1>6 DEF AccumInv
  <2>2. n' = n
    BY <1>1 DEF Times, SamplesOf
  <2>3. ~ (r < row')
    BY <1>1 DEF InputRows
  <2> HIDE DEF n
  <2>4. kinds[r] # "NoFail" => n \in {0, Runs}
    BY <1>1, <2>1 DEF Collected
  <2>5. kinds[r] = "NoFail" => n = 0
    BY <2>1 DEF Collected
  <2>6. kinds' = kinds /\ again'
    BY <1>1
  <2> QED BY ONLY <2>2, <2>3, <2>4, <2>5, <2>6 DEF Collected, n
<1>7. AccumInv'
  BY <1>1, <1>6 DEF AccumInv
<1> QED BY <1>1, <1>3, <1>4, <1>5, <1>7, LinesStay

(* Every step keeps the invariant.                                         *)
LEMMA StepsKeep == RInv /\ [Next]_vars => RInv'
<1> SUFFICES ASSUME RInv, [Next]_vars PROVE RInv'
  OBVIOUS
<1>1. ASSUME NEW f \in Logged \cup {NoFail}, Sample(f) PROVE RInv'
  BY <1>1, SampleKeeps DEF All
<1>2. CASE UNCHANGED vars
  <2>1. TypeOK' /\ RowInv' /\ SampleInv' /\ ReportInv'
    BY <1>2 DEF RInv, TypeOK, RowInv, SampleInv, ReportInv, vars, input, files
  <2> QED BY <1>2, <2>1, LinesStay, AccumStays DEF RInv, vars, files
<1> QED BY <1>1, <1>2, SkipKeeps, PrepareKeeps, CollectKeeps, RemoveHeadersKeeps, StartDriverKeeps,
           SetupKeeps, SampleRaisesKeeps, WriteRowsKeeps, RestartKeeps DEF Next

(* The inductive invariant: what the files hold at every row.              *)
THEOREM ReproductionInvariant == Spec => []RInv
BY Initially, StepsKeep, PTL DEF Spec

(* Every variable keeps its type; no row has more than Runs samples.       *)
THEOREM ReproductionTypes == Spec => []TypeOK
<1>1. RInv => TypeOK
  BY DEF RInv
<1> QED BY <1>1, ReproductionInvariant, PTL

(* A row is in a report with all of its samples or with none, in the       *)
(* accumulator too, wherever a driver or a call of the program broke off.  *)
THEOREM RowsAreWrittenWhole == Spec => []SamplesComeTogether
<1>1. RInv => SamplesComeTogether
  BY DEF RInv, LinesInv
<1> QED BY <1>1, ReproductionInvariant, PTL

(* No sample is given a failure that only the runs of another row had.     *)
THEOREM FailuresStayInTheirRow == Spec => []FailuresAreOfTheirRow
<1>1. RInv => FailuresAreOfTheirRow
  BY DEF RInv, LinesInv, Explained, Explains, FailuresAreOfTheirRow
<1> QED BY <1>1, ReproductionInvariant, PTL

(* A reproduction that ends has Runs samples of every row with a failure,  *)
(* or twice as many when it had to be called again.                        *)
THEOREM NoRowIsMissing == Spec => []EveryRowReproduced
<1>1. RInv => EveryRowReproduced
  <2> SUFFICES ASSUME RInv, phase = "done" PROVE EveryRowReproduced
    BY DEF EveryRowReproduced
  <2> USE DEF RInv
  <2>1. CASE split
    <3>1. ASSUME NEW r \in InputRows
          PROVE  /\ kinds[r] = "NoFail" => Times(accum, r) = 0
                 /\ kinds[r] # "NoFail" =>
                      Times(accum, r) \in {Runs} \cup (IF again THEN {2 * Runs} ELSE {})
      <4>1. r < row
        BY <2>1, ReproductionAssumption DEF RowInv, InputRows
      <4>2. Collected(r, Times(accum, r))
        BY <2>1 DEF AccumInv
      <4> QED BY <4>1, <4>2 DEF Collected
    <3> QED BY <2>1, <3>1 DEF EveryRowReproduced, Times
  <2>2. CASE ~ split
    <3>1. \A r \in InputRows : Times(report, r) = Runs
      BY <2>2 DEF ReportInv
    <3> QED BY <2>2, <3>1 DEF EveryRowReproduced, Times
  <2> QED BY <2>1, <2>2
<1> QED BY <1>1, ReproductionInvariant, PTL
=============================================================================
