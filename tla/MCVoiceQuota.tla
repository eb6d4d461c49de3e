---------------------------- MODULE MCVoiceQuota ----------------------------
(***************************************************************************)
(* Small instances of VoiceQuota for TLC.                                  *)
(***************************************************************************)
EXTENDS VoiceQuota, TLC

Symmetry == Permutations(Calls) \cup Permutations(Legs) \cup Permutations(Periods)

\* A bound for the runs about money only: media sessions and the bridge's
\* signal decide when a call settles, which quota_lifecycle explores, and not
\* what it is billed.
MoneyOnly == \A c \in Calls : session[c] = "none" /\ ~settlement[c].bridge
=============================================================================
