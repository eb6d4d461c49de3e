---------------------------- MODULE MCSmsInbound ----------------------------
(***************************************************************************)
(* Small instances of SmsInbound for TLC.                                  *)
(***************************************************************************)
EXTENDS SmsInbound, TLC

CONSTANTS m1, m2, m3, ann, bob

SameSender == [m \in Messages |-> ann]
TwoSenders == [m \in Messages |-> IF m = m3 THEN bob ELSE ann]

\* Sound although From is not symmetric: senders are only compared for
\* equality, and either all texts have one sender or each has its own.
Symmetry == Permutations(Messages) \cup Permutations(Workers) \cup Permutations(Handlers)
=============================================================================
