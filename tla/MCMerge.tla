------------------------------- MODULE MCMerge -------------------------------
(***************************************************************************)
(* mergeWorkspaceText on every base, current text and candidate of a few   *)
(* lines, the last line with or without a newline.                         *)
(***************************************************************************)
EXTENDS ThreeWayMerge

CONSTANTS
    Words,          \* what a line can say
    MaxLines        \* lines of a text

ASSUME MaxLinesAssumption == MaxLines \in Nat

VARIABLES base, current, candidate, result
vars == <<base, current, candidate, result>>

Whole == UNION {[1..n -> {[ words |-> <<w>>, newline |-> TRUE ] : w \in Words}] : n \in 0..MaxLines}
Texts == Whole \cup {[t EXCEPT ![Len(t)].newline = FALSE] : t \in Whole \ {<<>>}}

Pending == [ ok |-> FALSE, content |-> <<"pending">> ]

Init ==
    /\ base \in Texts
    /\ current \in Texts
    /\ candidate \in Texts
    /\ result = Pending

Merge ==
    /\ result = Pending
    /\ result' = mergeWorkspaceText(base, current, candidate)
    /\ UNCHANGED <<base, current, candidate>>

Spec == Init /\ [][Merge]_vars

-----------------------------------------------------------------------------
Done == result # Pending

\* Whether two texts merge and what comes of it does not depend on which of
\* them is in the workspace: the order in which two Sessions write back decides
\* nothing (sameHunk, overlaps, the order of the splices).
SidesAgree == Done => mergeWorkspaceText(base, candidate, current) = result

RunsOn == \E i \in DOMAIN result.content : Len(result.content[i].words) > 1

\* A merge loses no line and invents none: each line occurs as often as the base
\* with what either side added and without what either side removed, counting
\* an edit both made once.  Except where a line without a newline runs into
\* the next one.
EditsAdd ==
    Done /\ result.ok /\ ~RunsOn =>
        LET shared == Hunks(base, current) \cap Hunks(base, candidate)
            Gain(line) == Times(Splice(base, shared), line)
        IN  \A line \in ToSet(base) \cup ToSet(current) \cup ToSet(candidate) :
                Times(result.content, line) + Gain(line) = Times(current, line) + Times(candidate, line)
=============================================================================
