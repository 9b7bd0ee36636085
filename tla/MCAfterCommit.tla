--------------------------- MODULE MCAfterCommit ---------------------------
(* AfterCommit for TLC: operations that are audited and then announced. *)
EXTENDS AfterCommit

MCTasks == <<"write_audit_log_task", "send_notification_task">>

=============================================================================
