------------------------ MODULE MCEmbeddedSession ------------------------
(***************************************************************************)
(* The setups of the embedded session that the runs cover.  A result that  *)
(* ends a loop drops the auto-test planned beside it (README, section 4),  *)
(* so loops and auto-tests are apart.  Turns fail in every way in both;    *)
(* which failures meet which inputs is limited by the number of states.    *)
(***************************************************************************)
EXTENDS EmbeddedSession

LoopSetup ==
    [auto_test |-> FALSE, inputs |-> InputKinds, failures |-> {"denied", "turn"}, scheduled |-> 0]

UnendedLoopSetup ==
    [auto_test |-> FALSE, inputs |-> {"loop_start", "cancel"}, failures |-> {"unended"},
     scheduled |-> 0]

AutoTestSetup ==
    [auto_test |-> TRUE, inputs |-> {"prompt", "cancel"}, failures |-> FailureKinds, scheduled |-> 0]

ScheduleSetup ==
    [auto_test |-> TRUE, inputs |-> {"prompt"}, failures |-> {"denied"}, scheduled |-> 1]

LoopsAndAutoTests == {LoopSetup, UnendedLoopSetup, AutoTestSetup, ScheduleSetup}

OnlyLoops ==
    {[auto_test |-> FALSE, inputs |-> {"prompt", "loop_start"}, failures |-> {}, scheduled |-> 0]}

OnlyAutoTests ==
    {[auto_test |-> TRUE, inputs |-> {"prompt"}, failures |-> {"turn"}, scheduled |-> 1]}

=============================================================================
