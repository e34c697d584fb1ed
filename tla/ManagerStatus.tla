----------------------------- MODULE ManagerStatus -----------------------------
(***************************************************************************)
(* What the status of a WorkerManager says (c++/src/WorkerManager.cpp,     *)
(* change_status): a word for its two flags, and "End" once it is stopped. *)
(***************************************************************************)

ManagerStatuses == {"Initialised", "Wait for data", "Processing", "Wait for processing", "End"}

StatusOf(stopdata, processdata) ==
    CASE stopdata /\ processdata = 0 -> "Initialised"
      [] stopdata /\ processdata = 1 -> "Wait for data"
      [] ~stopdata /\ processdata = 1 -> "Processing"
      [] ~stopdata /\ processdata = 0 -> "Wait for processing"
=============================================================================
