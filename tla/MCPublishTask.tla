--------------------------- MODULE MCPublishTask ----------------------------
(* PublishTask on small instances. *)
EXTENDS PublishTask

SomeBudgets == {-1, 0, 1, 4, 9, Never}
SomeExpiries == {0, 1, 5, 12, Never}
=============================================================================
