------------------------- MODULE ConfigLoader_proofs --------------------------
(***************************************************************************)
(* Proofs about ConfigLoader, for any keys and texts and files of any      *)
(* length: what load() returns is what the lines it has read assign.       *)
(***************************************************************************)
EXTENDS ConfigLoader, SequenceTheorems, TLAPS

\* The table that the lines read so far make.
Table == [k \in {j \in Keys : Assigning(j) # {}} |->
            ParseValue(file[Max(Assigning(k))].text)]

TypeOK ==
  /\ file \in Seq(Lines)
  /\ pos \in 0..Len(file)
  /\ phase \in {"before", "reading", "returned", "thrown"}
  /\ touched \in BOOLEAN

LoadInv ==
  /\ TypeOK
  /\ phase = "before" => pos = 0
  /\ phase # "returned" => ~touched
  /\ phase # "thrown" => \A i \in 1..pos : ~Malformed(file[i])
  /\ phase = "thrown" /\ pos > 0 =>
       Malformed(file[pos]) /\ \A i \in 1..pos - 1 : ~Malformed(file[i])
  /\ phase # "thrown" /\ ~touched => values = Table

(* The largest element of a set of numbers is the one that bounds it.      *)
LEMMA MaxIs ==
  ASSUME NEW S \in SUBSET Nat, NEW m \in S, \A n \in S : n <= m PROVE Max(S) = m
<1>1. \A n \in S : m >= n
  OBVIOUS
<1>2. Max(S) \in S /\ \A n \in S : Max(S) >= n
  BY <1>1 DEF Max
<1>3. Max(S) \in Nat /\ m \in Nat /\ Max(S) >= m /\ Max(S) <= m
  BY <1>2
<1> QED
  BY <1>3

(* Nothing has been read at first.                                         *)
LEMMA InitLoad == Init => LoadInv
<1> SUFFICES ASSUME Init PROVE LoadInv
  OBVIOUS
<1>1. file \in Seq(Lines) /\ Len(file) \in Nat
  BY SeqDef, LenProperties DEF Init
<1>2. \A k : Assigning(k) = {}
  BY DEF Init, Assigning
<1>3. values = Table
  BY <1>2 DEF Init, NoValues, Table
<1>4. TypeOK
  <2>1. pos = 0 /\ 0 \in 0..Len(file)
    BY <1>1 DEF Init
  <2>2. phase = "before" /\ touched = FALSE
    BY DEF Init
  <2> QED
    BY <1>1, <2>1, <2>2 DEF TypeOK
<1> QED
  BY <1>3, <1>4 DEF Init, LoadInv

(* What the next line is.                                                  *)
LEMMA NextLineIs ==
  ASSUME TypeOK, NextLine
  PROVE  /\ Line \in Lines /\ Line = file[pos + 1]
         /\ pos \in Nat /\ pos' = pos + 1 /\ pos' \in 0..Len(file) /\ file' = file
         /\ \A i \in 1..pos' : i \in 1..pos \/ i = pos + 1
<1>1. Len(file) \in Nat
  BY LenProperties DEF TypeOK
<1>2. pos + 1 \in 1..Len(file)
  BY <1>1 DEF TypeOK, NextLine
<1> QED
  BY <1>1, <1>2, ElementOfSeq DEF TypeOK, NextLine, Line

(* A line that is neither ignored nor malformed assigns a value to a key.  *)
LEMMA AssignmentIs ==
  ASSUME NEW line \in Lines, ~Ignored(line), ~Malformed(line)
  PROVE  line.kind = "pair" /\ line.key \in Keys /\ line.text \in Texts
  BY DEF Lines, Other, Pair, Ignored, Malformed

(* An ignored line assigns nothing.                                        *)
LEMMA IgnoreKeepsTable ==
  ASSUME TypeOK, IgnoreLine PROVE Table' = Table
<1>1. ASSUME NEW k PROVE Assigning(k)' = Assigning(k)
  BY NextLineIs DEF IgnoreLine, Ignored, Assigning
<1> QED
  BY <1>1, NextLineIs DEF IgnoreLine, Table

(* A line that assigns is the last that does so to its key.                *)
LEMMA SetFillsTable ==
  ASSUME TypeOK, values = Table, SetFromLine PROVE values' = Table'
<1>1. /\ Line.kind = "pair" /\ Line.key \in Keys
      /\ Line = file[pos + 1] /\ pos \in Nat /\ pos' = pos + 1 /\ file' = file
  BY NextLineIs, AssignmentIs DEF SetFromLine
<1> PICK key \in Keys : key = Line.key
  BY <1>1
<1> PICK text : text = Line.text
  OBVIOUS
<1>2. ASSUME NEW k \in Keys
      PROVE  Assigning(k)' = IF k = key THEN Assigning(k) \cup {pos + 1} ELSE Assigning(k)
  BY <1>1 DEF Assigning
<1>3. Max(Assigning(key)') = pos + 1
  <2>1. /\ Assigning(key)' \in SUBSET Nat /\ pos + 1 \in Assigning(key)'
        /\ \A n \in Assigning(key)' : n <= pos + 1
    BY <1>1, <1>2 DEF Assigning
  <2> QED
    BY <2>1, MaxIs
<1>4. values' = [x \in DOMAIN values \cup {key} |->
                   IF x = key THEN ParseValue(text) ELSE values[x]]
  BY DEF SetFromLine, With
<1>5. /\ DOMAIN values = {j \in Keys : Assigning(j) # {}}
      /\ \A k \in DOMAIN values : values[k] = ParseValue(file[Max(Assigning(k))].text)
  BY DEF Table
<1>6. DOMAIN values \cup {key} = {j \in Keys : Assigning(j)' # {}}
  BY <1>2, <1>5
<1>7. ASSUME NEW k \in DOMAIN values \cup {key}
      PROVE  (IF k = key THEN ParseValue(text) ELSE values[k])
               = ParseValue(file'[Max(Assigning(k)')].text)
  <2>1. CASE k = key
    BY <1>1, <1>3, <2>1
  <2>2. CASE k # key
    BY <1>1, <1>2, <1>5, <2>2
  <2> QED
    BY <2>1, <2>2
<1> QED
  BY <1>4, <1>6, <1>7 DEF Table

(* Every step keeps the table and stops at the first line that is not      *)
(* well formed.                                                            *)
LEMMA NextLoad == LoadInv /\ [Next]_vars => LoadInv'
<1> SUFFICES ASSUME LoadInv, [Next]_vars PROVE LoadInv'
  OBVIOUS
<1>0. TypeOK /\ Len(file) \in Nat
  BY LenProperties DEF LoadInv, TypeOK
<1>1. ASSUME UNCHANGED <<file, pos>> PROVE Table' = Table
  BY <1>1 DEF Table, Assigning
<1>2. CASE UNCHANGED vars
  BY <1>1, <1>2 DEF vars, LoadInv, TypeOK
<1>3. CASE Open \/ StopReading
  BY <1>1, <1>3 DEF Open, StopReading, LoadInv, TypeOK
<1>4. CASE OpenFails
  BY <1>4 DEF OpenFails, LoadInv, TypeOK
<1>5. CASE IgnoreLine
  <2>1. Table' = Table /\ ~Malformed(Line)
    BY <1>0, <1>5, IgnoreKeepsTable DEF IgnoreLine, Ignored, Malformed
  <2>2. /\ Line = file[pos + 1] /\ pos \in Nat
        /\ pos' = pos + 1 /\ pos' \in 0..Len(file) /\ file' = file
        /\ \A i \in 1..pos' : i \in 1..pos \/ i = pos + 1
        /\ phase = "reading" /\ UNCHANGED <<phase, values, touched>>
    BY <1>0, <1>5, NextLineIs DEF IgnoreLine, NextLine
  <2> QED
    BY <2>1, <2>2 DEF LoadInv, TypeOK
<1>6. CASE RejectLine
  <2>1. /\ Line = file[pos + 1] /\ pos \in Nat
        /\ pos' = pos + 1 /\ pos' \in 0..Len(file) /\ file' = file
        /\ Malformed(Line) /\ phase = "reading" /\ phase' = "thrown" /\ touched' = touched
    BY <1>0, <1>6, NextLineIs DEF RejectLine, NextLine
  <2> QED
    BY <2>1 DEF LoadInv, TypeOK
<1>7. CASE SetFromLine
  <2>1. /\ Line = file[pos + 1] /\ pos \in Nat
        /\ pos' = pos + 1 /\ pos' \in 0..Len(file) /\ file' = file
        /\ \A i \in 1..pos' : i \in 1..pos \/ i = pos + 1
        /\ ~Malformed(Line) /\ phase = "reading" /\ UNCHANGED <<phase, touched>>
    BY <1>0, <1>7, NextLineIs DEF SetFromLine, NextLine
  <2>2. values' = Table'
    BY <1>0, <1>7, <2>1, SetFillsTable DEF LoadInv
  <2> QED
    BY <2>1, <2>2 DEF LoadInv, TypeOK
<1>8. ASSUME NEW k \in Keys, NEW v \in Values, CallerSets(k, v) PROVE LoadInv'
  BY <1>8 DEF CallerSets, LoadInv, TypeOK
<1>9. CASE CallerClears
  BY <1>9 DEF CallerClears, LoadInv, TypeOK
<1> QED
  BY <1>2, <1>3, <1>4, <1>5, <1>6, <1>7, <1>8, <1>9 DEF Next, Done

(* What has been read and what it has made, at all times.                  *)
THEOREM LoadInvHolds == Spec => []LoadInv
  BY InitLoad, NextLoad, PTL DEF Spec

(* load() returns the keys that the lines assign, each with the value of   *)
(* the last line that does.                                                *)
THEOREM LoadReturnsLastAssignments == Spec => []LastAssignmentWins
<1>1. LoadInv => LastAssignmentWins
  BY DEF LoadInv, LastAssignmentWins, Table
<1> QED
  BY <1>1, LoadInvHolds, PTL

(* load() stops at the first malformed line and at no other.               *)
THEOREM LoadSkipsNoError == Spec => []ErrorsAreNotSkipped
<1>1. LoadInv => ErrorsAreNotSkipped
  BY DEF LoadInv, ErrorsAreNotSkipped
<1> QED
  BY <1>1, LoadInvHolds, PTL
=============================================================================
