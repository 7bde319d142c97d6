---------------------------- MODULE ThreeWayMerge ----------------------------
(***************************************************************************)
(* The line-based three-way merge of mergeWorkspaceText: the edits of the  *)
(* current file and of the candidate, each found against the base by a     *)
(* longest common subsequence, are both applied unless they overlap.       *)
(*                                                                         *)
(* A text is a sequence of lines, a line a sequence of words and whether   *)
(* it ends with a newline; only the last line of a text may lack one.      *)
(***************************************************************************)
EXTENDS Naturals, Sequences, FiniteSets, SequencesExt, FiniteSetsExt

CONSTANT MaxCells       \* MAX_LCS_CELLS

ASSUME MaxCellsAssumption == MaxCells \in Nat

Refused == [ ok |-> FALSE, content |-> <<>> ]
Merged(content) == [ ok |-> TRUE, content |-> content ]

\* table[i, j]: the length of a longest common subsequence of what follows.
Table(base, target) ==
    LET table[i \in 1..Len(base) + 1, j \in 1..Len(target) + 1] ==
            IF i > Len(base) \/ j > Len(target) THEN 0
            ELSE IF base[i] = target[j] THEN table[i + 1, j + 1] + 1
            ELSE Max({table[i + 1, j], table[i, j + 1]})
    IN  table

\* The walk of diffHunks: a common line is kept; where the rest can be matched as
\* well after inserting, a line is inserted before one is dropped.
Walk(base, target) ==
    LET table == Table(base, target)
        Inserts(i, j) == j <= Len(target) /\ (i > Len(base) \/ table[i, j + 1] >= table[i + 1, j])
        walk[at \in (1..Len(base) + 1) \X (1..Len(target) + 1)] ==
            LET i == at[1]
                j == at[2]
            IN  IF i > Len(base) /\ j > Len(target) THEN <<>>
                ELSE IF i <= Len(base) /\ j <= Len(target) /\ base[i] = target[j]
                THEN <<"keep">> \o walk[<<i + 1, j + 1>>]
                ELSE IF Inserts(i, j) THEN <<"insert">> \o walk[<<i, j + 1>>]
                ELSE <<"drop">> \o walk[<<i + 1, j>>]
    IN  walk[<<1, 1>>]

\* A hunk is a stretch of the walk without a kept line: it replaces the lines
\* start+1..end of the base.
Hunks(base, target) ==
    LET walk == Walk(base, target)
        Count(k, kinds) == Cardinality({m \in 1..k : walk[m] \in kinds})
        Edit(k) == walk[k] # "keep"
        Hunk(k, m) == [ start |-> Count(k - 1, {"keep", "drop"}), end |-> Count(m, {"keep", "drop"}),
                        replacement |-> SubSeq(target, Count(k - 1, {"keep", "insert"}) + 1, Count(m, {"keep", "insert"})) ]
        Stretch(k, m) == /\ k <= m
                         /\ \A i \in k..m : Edit(i)
                         /\ k = 1 \/ ~Edit(k - 1)
                         /\ m = Len(walk) \/ ~Edit(m + 1)
        stretches == {km \in (DOMAIN walk) \X (DOMAIN walk) : Stretch(km[1], km[2])}
    IN  {Hunk(km[1], km[2]) : km \in stretches}

\* Mutant: insertions of the other side are not looked at.
Overlaps_OneWay(g, h) ==
    LET Insertion(k) == k.start = k.end
    IN  CASE Insertion(g) /\ Insertion(h) -> g.start = h.start
          [] Insertion(g) /\ ~Insertion(h) -> h.start <= g.start /\ g.start < h.end
          [] OTHER -> Max({g.start, h.start}) < Min({g.end, h.end})

\* Mutant: insertions overlap nothing.
Overlaps_Stretches(g, h) == Max({g.start, h.start}) < Min({g.end, h.end})

\* An insertion at the start of a replaced stretch overlaps it, one at its end does not.
Overlaps(g, h) ==
    LET Insertion(k) == k.start = k.end
    IN  CASE Insertion(g) /\ Insertion(h) -> g.start = h.start
          [] Insertion(g) /\ ~Insertion(h) -> h.start <= g.start /\ g.start < h.end
          [] ~Insertion(g) /\ Insertion(h) -> g.start <= h.start /\ h.start < g.end
          [] OTHER -> Max({g.start, h.start}) < Min({g.end, h.end})

\* The base with the hunks put in their places.
Splice(base, hunks) ==
    LET rest[i \in 0..Len(base)] ==
            LET at == {h \in hunks : h.start = i}
                Line(j) == IF j = Len(base) THEN <<>> ELSE <<base[j + 1]>> \o rest[j + 1]
            IN  IF at = {} THEN Line(i)
                ELSE LET h == CHOOSE h \in at : TRUE
                     IN  h.replacement \o (IF h.end = i THEN Line(i) ELSE rest[h.end])
    IN  rest[0]

\* join(''): a line without a newline runs into the next one.
Join(lines) ==
    LET RunsInto(text) == text # <<>> /\ ~Last(text).newline
        joined[n \in 0..Len(lines)] ==
            IF n = 0 THEN <<>>
            ELSE LET text == joined[n - 1]
                     line == lines[n]
                 IN  IF RunsInto(text)
                     THEN Append(Front(text), [ words |-> Last(text).words \o line.words, newline |-> line.newline ])
                     ELSE Append(text, line)
    IN  joined[Len(lines)]

TooLarge(base, text) == (Len(base) + 1) * (Len(text) + 1) > MaxCells

mergeWorkspaceText(base, current, candidate) ==
    LET ours == Hunks(base, current)
        theirs == Hunks(base, candidate)
    IN  IF current = candidate \/ candidate = base THEN Merged(current)
        ELSE IF current = base THEN Merged(candidate)
        ELSE IF TooLarge(base, current) \/ TooLarge(base, candidate) THEN Refused
        ELSE IF \E h \in theirs \ ours, g \in ours : Overlaps(g, h) THEN Refused
        ELSE Merged(Join(Splice(base, ours \cup theirs)))

-----------------------------------------------------------------------------
\* How often a line occurs in a text.
Times(text, line) == Cardinality({i \in DOMAIN text : text[i] = line})
=============================================================================
