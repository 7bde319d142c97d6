---------------------------- MODULE MCWriteback ----------------------------
(***************************************************************************)
(* Two Sessions started from the same files: they change different lines   *)
(* of A and both create B, and one deletes C.                              *)
(***************************************************************************)
EXTENDS WorkspaceWriteback

Line(word) == [ words |-> <<word>>, newline |-> TRUE ]
Text(words) == [i \in DOMAIN words |-> Line(words[i])]

MCBaseline == [ A |-> File(Text(<<"a1", "a2">>)), B |-> Missing, C |-> File(Text(<<"c1">>)) ]

Change(op, path, words) ==
    [ op |-> op, path |-> path, text |-> Text(words), expected |-> MCBaseline[path], based |-> op = "update" ]

MCChangeSets ==
    [ r1 |-> <<Change("update", "A", <<"r1", "a2">>), Change("create", "B", <<"n1">>), Change("delete", "C", <<>>)>>,
      r2 |-> <<Change("update", "A", <<"a1", "r2">>), Change("create", "B", <<"n2">>)>> ]

MCUserLines == {Line("u1")}
=============================================================================
