------------------------------ MODULE TaskStore ------------------------------
(***************************************************************************)
(* The tasks table as TaskService writes it.  Each call of the service is  *)
(* a transaction of its own, or joins its caller's, with a persistence     *)
(* context of its own (spring.jpa.open-in-view=false): it loads the row,   *)
(* sets a field, and at commit Hibernate issues an UPDATE only if the row  *)
(* differs from what was loaded.  Rows carry no version.                   *)
(***************************************************************************)

TaskStatus == {"PENDING", "ANALYZED", "IN_PROGRESS", "COMPLETED",
               "ROLLED_BACK", "FAILED"}

\* The statuses at which executeTask refuses to run a task (again).
Final == {"COMPLETED", "FAILED"}

\* updateTaskStatus at commit, in a transaction that loaded the status "loaded".
Written(statuses, t, loaded, status) ==
    IF loaded = status THEN statuses ELSE [statuses EXCEPT ![t] = status]
=============================================================================
