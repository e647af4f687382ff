------------------------------ MODULE MCAlert ------------------------------
(* Small instances of Alert.                                               *)
EXTENDS Alert

Def(for, repeat) == [For |-> for, RepeatInterval |-> repeat]
SomeTasks == {Def(0, 2), Def(2, 0), Def(2, 1), Def(3, 2)}
OneTask == {Def(2, 0)}
=============================================================================
