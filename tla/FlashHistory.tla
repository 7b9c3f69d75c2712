----------------------------- MODULE FlashHistory -----------------------------
(***************************************************************************)
(* The boot controller with a history: whether, since the last reset, the  *)
(* Flash has failed in the very commit that was to clear an update marker. *)
(***************************************************************************)
EXTENDS BootController

VARIABLE clearing_failed

RecordFailure ==
    clearing_failed' =
        \/ CommitFails /\ call \in {"recover", "abort_update"}
        \/ clearing_failed /\ ~ (phase' = "recover" /\ phase # "recover")

HistoryInit ==
    /\ Init
    /\ clearing_failed = FALSE

HistorySpec == HistoryInit /\ [][Next /\ RecordFailure]_<<vars, clearing_failed>>

FairHistorySpec == HistorySpec /\ Fairness

(* A RECEIVING marker exists only while a transfer is under way or being    *)
(* cleaned up: no abort, timeout, failed erase, chunk, flush, verification  *)
(* or commit, and no power loss, leaves one behind that would make the      *)
(* device refuse the next update.  The one exception is a Flash error in    *)
(* the commit that clears it, whose result is dropped.                      *)
MarkerFollowsTransfer ==
    ~clearing_failed /\ Idle /\ Status.update_state = "RECEIVING" => state = "RECEIVING"
=============================================================================
