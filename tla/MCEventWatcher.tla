--------------------------- MODULE MCEventWatcher ---------------------------
(* EventWatcher on small instances. *)
EXTENDS EventWatcher

OneOfEach == {"watch_attempted", "watch_task_status_changed"}
=============================================================================
