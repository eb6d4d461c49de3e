----------------------------- MODULE MCAiFlowRun ----------------------------
(***************************************************************************)
(* Small instances of AiFlowRun for TLC.                                   *)
(***************************************************************************)
EXTENDS AiFlowRun, TLC

\* Two waits in a row; a call and a text after it; a gate and a wait behind it;
\* a gated text after a wait; a lead offered to the team, then waited for.
SomePlans == {<<"wait", "wait">>, <<"call", "text">>, <<"gate", "wait">>,
              <<"wait", "gate", "text">>, <<"route", "wait">>}
=============================================================================
