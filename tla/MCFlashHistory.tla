---------------------------- MODULE MCFlashHistory ----------------------------
(***************************************************************************)
(* TLC parameters for FlashHistory: those of MCBootController.             *)
(***************************************************************************)
EXTENDS FlashHistory, MCBootController

HistoryView == <<View, clearing_failed>>
=============================================================================
