----------------------------- MODULE MCReplyJobs ----------------------------
(***************************************************************************)
(* Small instances of ReplyJobs for TLC.                                   *)
(***************************************************************************)
EXTENDS ReplyJobs, TLC

Symmetry == Permutations(Messages) \cup Permutations(Workers)
=============================================================================
