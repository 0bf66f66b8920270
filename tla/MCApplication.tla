--------------------------- MODULE MCApplication ---------------------------
(* Small instances of Application for TLC.                                 *)
EXTENDS Application, TLC

CONSTANTS o1, o2, o3

MCOids == {o1, o2, o3}
MCSubtree == {o1, o2}
MCInitial == {o1, o3}
MCAnswers == {<<>>, <<o3, o1>>, <<o1, o2>>}
=============================================================================
