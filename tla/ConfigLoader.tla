----------------------------- MODULE ConfigLoader ------------------------------
(***************************************************************************)
(* The configuration of PacketForge: ConfigLoader::load reads a file line  *)
(* by line into a Config, which the caller then reads and may change       *)
(* (src/config/*.cpp of src/PacketForge_V1).                               *)
(*                                                                         *)
(* A line is a record: what trim() and the search for '=' make of it, and, *)
(* for a pair, its key and the text of its value, both trimmed and maybe   *)
(* empty.                                                                  *)
(***************************************************************************)
EXTENDS Naturals, Sequences, FiniteSetsExt

CONSTANTS
  Keys,         \* the keys that are not empty
  Texts,        \* the value texts that are not empty
  Booleans,     \* those that are true or false
  Integers64,   \* those stoll() reads to their end
  Overflows,    \* those that are numerals stoll() has no long long for
  Empty,        \* the empty key or text
  MaxLines      \* bound: the lines of a file

ASSUME TextAssumption ==
  /\ Booleans \cup Integers64 \cup Overflows \subseteq Texts
  /\ Booleans \cap Integers64 = {}
  /\ Overflows \cap (Booleans \cup Integers64) = {}
  /\ Empty \notin Keys \cup Texts

VARIABLES
  file,     \* the lines of the file
  pos,      \* how many of them getline() has returned
  phase,    \* "before", "reading", "returned" or "thrown"
  values,   \* values_ of the Config: from keys to values
  touched   \* has the caller changed the Config since load() returned?

vars == <<file, pos, phase, values, touched>>

Pair(k, t) == [kind |-> "pair", key |-> k, text |-> t]
Other(kind) == [kind |-> kind, key |-> Empty, text |-> Empty]

Lines == {Other("blank"), Other("comment"), Other("no_separator")}
           \cup {Pair(k, t) : k \in Keys \cup {Empty}, t \in Texts \cup {Empty}}

\* parseValue: true and false, then what stoll() reads to its end; whatever it
\* throws at, out_of_range included, is a string.
ParseValue(t) ==
  [type |-> IF t \in Booleans THEN "boolean"
            ELSE IF t \in Integers64 THEN "integer" ELSE "string",
   text |-> t]

Values == {ParseValue(t) : t \in Texts}

NoValues == [k \in {} |-> Empty]

Init ==
  /\ file \in UNION {[1..n -> Lines] : n \in 0..MaxLines}
  /\ pos = 0
  /\ phase = "before"
  /\ values = NoValues
  /\ touched = FALSE

-----------------------------------------------------------------------------
Open ==
  /\ phase = "before"
  /\ phase' = "reading"
  /\ UNCHANGED <<file, pos, values, touched>>

OpenFails ==
  /\ phase = "before"
  /\ phase' = "thrown"
  /\ UNCHANGED <<file, pos, values, touched>>

Line == file[pos + 1]

\* getline() returns the next line.
NextLine ==
  /\ phase = "reading"
  /\ pos < Len(file)
  /\ pos' = pos + 1
  /\ UNCHANGED <<file, touched>>

Ignored(line) == line.kind \in {"blank", "comment"}

Malformed(line) ==
  \/ line.kind = "no_separator"
  \/ line.kind = "pair" /\ Empty \in {line.key, line.text}

IgnoreLine ==
  /\ NextLine
  /\ Ignored(Line)
  /\ UNCHANGED <<phase, values>>

\* Fault: a malformed line is skipped.
SkipLine ==
  /\ NextLine
  /\ Malformed(Line)
  /\ UNCHANGED <<phase, values>>

\* load() throws, and the Config it was filling is gone.
RejectLine ==
  /\ NextLine
  /\ Malformed(Line)
  /\ phase' = "thrown"
  /\ values' = NoValues

\* Config::set: values_[key] = value.
With(k, v) == [x \in DOMAIN values \cup {k} |-> IF x = k THEN v ELSE values[x]]

\* Fault: insert() instead, which keeps a value that is there.
SetOnce ==
  /\ NextLine
  /\ ~Ignored(Line) /\ ~Malformed(Line)
  /\ values' = IF Line.key \in DOMAIN values THEN values
               ELSE With(Line.key, ParseValue(Line.text))
  /\ UNCHANGED phase

SetFromLine ==
  /\ NextLine
  /\ ~Ignored(Line) /\ ~Malformed(Line)
  /\ values' = With(Line.key, ParseValue(Line.text))
  /\ UNCHANGED phase

\* getline() returns no line: at the end of the file, and also when reading
\* fails, which load() does not tell from the end.
StopReading ==
  /\ phase = "reading"
  /\ phase' = "returned"
  /\ UNCHANGED <<file, pos, values, touched>>

\* The caller's Config::set and Config::clear.
CallerSets(k, v) ==
  /\ phase = "returned"
  /\ values' = With(k, v)
  /\ touched' = TRUE
  /\ UNCHANGED <<file, pos, phase>>

CallerClears ==
  /\ phase = "returned"
  /\ values' = NoValues
  /\ touched' = TRUE
  /\ UNCHANGED <<file, pos, phase>>

Done == phase = "thrown" /\ UNCHANGED vars

Next ==
  \/ Open \/ OpenFails
  \/ IgnoreLine \/ RejectLine \/ SetFromLine \/ StopReading
  \/ \E k \in Keys, v \in Values : CallerSets(k, v)
  \/ CallerClears \/ Done

Spec == Init /\ [][Next]_vars

-----------------------------------------------------------------------------
(* Properties.                                                             *)

\* The places, among the lines read, of the lines that assign k.
Assigning(k) == {i \in 1..pos : file[i].kind = "pair" /\ file[i].key = k}

\* What load() returns has exactly the keys that the lines read assign, each
\* with the value of the last of these lines (Phase 6 Configuration Framework,
\* section 24), whatever stands between them.
LastAssignmentWins ==
  phase \in {"reading", "returned"} /\ ~touched =>
    values = [k \in {j \in Keys : Assigning(j) # {}} |->
                ParseValue(file[Max(Assigning(k))].text)]

\* load() returns only if every line read is well formed, and throws, once the
\* file is open, only at the first one that is not.
ErrorsAreNotSkipped ==
  /\ phase \in {"reading", "returned"} => \A i \in 1..pos : ~Malformed(file[i])
  /\ phase = "thrown" /\ pos > 0 =>
       Malformed(file[pos]) /\ \A i \in 1..pos - 1 : ~Malformed(file[i])

\* A numeral that is too large is an error, not a value (Phase 6 Configuration
\* Framework, section 23).
OverflowIsAnError ==
  phase = "returned" => \A i \in 1..pos : file[i].text \notin Overflows
=============================================================================
