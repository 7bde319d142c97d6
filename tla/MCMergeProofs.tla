---------------------------- MODULE MCMergeProofs ----------------------------
(***************************************************************************)
(* What MCMerge checks on texts of a few lines, for texts of any length,   *)
(* any words and any bound on the cells of the table.                      *)
(***************************************************************************)
EXTENDS MCMerge, MergeProofs

Merging == mergeWorkspaceText(base, current, candidate)

MergeInv ==
    /\ base \in Texts /\ current \in Texts /\ candidate \in Texts
    /\ result \in {Pending, Merging}

\* The texts are sequences of lines that say something.
LEMMA TextsAreWorded == Texts \subseteq Seq(Worded(Words))
<1> DEFINE Said == {[ words |-> <<w>>, newline |-> TRUE ] : w \in Words}
           S == Worded(Words)
<1>1. ASSUME NEW line \in Said PROVE line \in S /\ [line EXCEPT !.newline = FALSE] \in S
  <2>1. PICK w \in Words : line = [ words |-> <<w>>, newline |-> TRUE ]
    OBVIOUS
  <2>2. <<w>> \in Seq(Words) /\ <<w>> # <<>>
    OBVIOUS
  <2>3. line \in LinesFrom(Words) /\ line.words # <<>>
    BY <2>1, <2>2 DEF LinesFrom
  <2> DEFINE last == [line EXCEPT !.newline = FALSE]
  <2>4. last \in LinesFrom(Words) /\ last.words = line.words
    <3> HIDE DEF Said
    <3> QED BY ONLY <2>3 DEF LinesFrom
  <2> QED BY <2>3, <2>4 DEF Worded
<1>2. ASSUME NEW t \in Whole PROVE t \in Seq(Said)
  <2>1. PICK n \in 0..MaxLines : t \in [1..n -> Said]
    BY DEF Whole
  <2>2. n \in Nat
    BY MaxLinesAssumption
  <2> HIDE DEF Said
  <2> QED BY <2>1, <2>2, SeqDef
<1> HIDE DEF S
<1>3. ASSUME NEW t \in Whole PROVE t \in Seq(S)
  <2>1. Said \subseteq S
    BY <1>1
  <2> HIDE DEF Said
  <2> QED BY <1>2, <2>1
<1>4. ASSUME NEW t \in Whole, t # <<>> PROVE [t EXCEPT ![Len(t)].newline = FALSE] \in Seq(S)
  <2> DEFINE n == Len(t)
             u == [t EXCEPT ![n].newline = FALSE]
  <2>1. t \in Seq(Said)
    BY <1>2
  <2>2. n \in Nat /\ n \in 1..n /\ t \in [1..n -> Said] /\ DOMAIN t = 1..n
    <3> HIDE DEF Said
    <3> QED BY <1>4, <2>1
  <2>3. ASSUME NEW i \in 1..n PROVE u[i] \in S
    <3>1. t[i] \in Said
      BY <2>2
    <3>2. u[i] = IF i = n THEN [t[i] EXCEPT !.newline = FALSE] ELSE t[i]
      <4> HIDE DEF Said, n
      <4> QED BY <2>2
    <3> HIDE DEF Said, u, n
    <3> QED BY <1>1, <3>1, <3>2
  <2>4. DOMAIN u = 1..n /\ u = [i \in 1..n |-> u[i]]
    <3> HIDE DEF Said, n
    <3> QED BY <2>2
  <2>5. u \in [1..n -> S]
    <3> HIDE DEF u
    <3> QED BY <2>3, <2>4
  <2> HIDE DEF u, n
  <2>6. u \in Seq(S)
    BY <2>2, <2>5, SeqDef
  <2> QED BY <2>6 DEF u, n
<1> HIDE DEF Said
<1> QED BY <1>3, <1>4 DEF Texts, S

\* A text is merged once, and every text is one of the run's.
THEOREM MergeInvariance == Spec => []MergeInv
<1>1. Init => MergeInv
  BY DEF Init, MergeInv
<1>2. MergeInv /\ [Merge]_vars => MergeInv'
  <2>1. CASE Merge
    BY <2>1 DEF MergeInv, Merge, Merging
  <2>2. CASE UNCHANGED vars
    BY <2>2 DEF MergeInv, Merging, vars
  <2> QED BY <2>1, <2>2
<1> QED BY <1>1, <1>2, PTL DEF Spec

\* Which of two Sessions writes back first decides nothing (MergeSymmetric).
THEOREM SidesAgreeAlways == Spec => []SidesAgree
<1>1. MergeInv => SidesAgree
  <2> SUFFICES ASSUME MergeInv, Done PROVE mergeWorkspaceText(base, candidate, current) = result
    BY DEF SidesAgree
  <2>1. base \in Seq(Worded(Words)) /\ current \in Seq(Worded(Words)) /\ candidate \in Seq(Worded(Words))
    BY TextsAreWorded DEF MergeInv
  <2>2. result = mergeWorkspaceText(base, current, candidate)
    BY DEF MergeInv, Done, Merging
  <2> QED BY <2>1, <2>2, MergeSymmetric
<1> QED BY <1>1, MergeInvariance, PTL

\* A merge loses no line and invents none (MergeAdds).
THEOREM EditsAddAlways == Spec => []EditsAdd
<1>1. MergeInv => EditsAdd
  <2> SUFFICES ASSUME MergeInv, Done, result.ok, ~RunsOn, NEW line
               PROVE  Times(result.content, line) + Times(Splice(base, Shared(base, current, candidate)), line) =
                          Times(current, line) + Times(candidate, line)
    BY DEF EditsAdd, Shared
  <2>1. base \in Seq(Worded(Words)) /\ current \in Seq(Worded(Words)) /\ candidate \in Seq(Worded(Words))
    BY TextsAreWorded DEF MergeInv
  <2>2. result = Merging
    BY DEF MergeInv, Done
  <2>3. ~HasRun(Merging.content)
    <3>1. Worded(Words) \subseteq LinesFrom(Words)
      BY DEF Worded
    <3>2. base \in Seq(LinesFrom(Words)) /\ current \in Seq(LinesFrom(Words)) /\ candidate \in Seq(LinesFrom(Words))
      BY <2>1, <3>1
    <3>3. Merging \in MergeResults(LinesFrom(Words))
      BY <3>2, MergeType DEF Merging
    <3>4. Merging.content \in Seq(LinesFrom(Words))
      BY <3>3 DEF MergeResults
    <3>5. DOMAIN Merging.content = 1..Len(Merging.content)
      BY <3>4, LenProperties
    <3> QED BY <2>2, <3>5 DEF RunsOn, HasRun
  <2> QED BY <2>1, <2>2, <2>3, MergeAdds DEF Merging
<1> QED BY <1>1, MergeInvariance, PTL
=============================================================================
