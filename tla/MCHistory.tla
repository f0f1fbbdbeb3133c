----------------------------- MODULE MCHistory -----------------------------
(***************************************************************************)
(* The instances of MCResolvit, with the history of what was stored.       *)
(***************************************************************************)
EXTENDS MCResolvit, AnswerHistory
=============================================================================
