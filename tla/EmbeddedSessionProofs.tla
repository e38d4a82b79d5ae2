------------------------- MODULE EmbeddedSessionProofs -------------------------
(***************************************************************************)
(* Proofs about EmbeddedSession, for every setup, any number of inputs and *)
(* schedules, any loop limit and any bound of the drain.                   *)
(*                                                                         *)
(* A success dispatches what it plans, and the controller hears of the     *)
(* dispatch: the follow-up is then refused and gone, or runs.  A failure   *)
(* leaves what it plans.  No other step touches the pending follow-up      *)
(* (ResultFollowUp).  Only the correlation of a prompt with its follow-up  *)
(* asks for a hypothesis, Separate: finish_loop drops the auto-test        *)
(* planned beside a loop, whose prompt starts all the same.                *)
(***************************************************************************)
EXTENDS EmbeddedSession, SequenceTheorems, TLAPS

------------------------------------------------------------------------------
(* The setups. *)

CanLoop(s) == "loop_start" \in s.inputs

\* Loops and auto-tests are not both used: no loop finishes over an auto-test just planned.
Separate(s) == ~(s.auto_test /\ CanLoop(s))

------------------------------------------------------------------------------
(* The controller. *)

LoopKnown(c) == c.active_loop_id # None => c.loops[c.active_loop_id] # None

\* An auto-test is planned only where they are on, and guarded as long as it is pending.
AutoTestGuarded(s) ==
    s.pending_follow_up # None /\ s.pending_follow_up.source = "AutoTest" =>
        s.auto_test_enabled /\ s.auto_test_in_progress

CoreSane(s, auto) ==
    /\ s \in CoreState
    /\ s.busy <=> s.pending_prompt # None
    /\ s.auto_test_enabled <=> auto
    /\ AutoTestGuarded(s)

\* A controller that may have a loop its reducer has forgotten.
Half(c, auto) ==
    /\ c \in ControllerState
    /\ LoopKnown(c)
    /\ CoreSane(c.core, auto)
    /\ c.auto_test_enabled <=> c.core.auto_test_enabled
    /\ c.auto_test_in_progress <=> c.core.auto_test_in_progress

Sane(c, auto) ==
    /\ Half(c, auto)
    /\ c.core.active_loop # None <=> c.active_loop_id # None

\* The pending prompt is the one of the pending follow-up.
Waits(s) ==
    /\ s.pending_follow_up # None
    /\ s.pending_follow_up.stage = "AwaitingPromptCompletion"
    /\ s.pending_prompt # None
    /\ s.pending_prompt.originating = s.pending_follow_up.effect_id

\* A prompt that was started for a follow-up has it.
Correlated(s) ==
    s.pending_prompt # None /\ s.pending_prompt.originating # None => Waits(s)

\* The follow-up pending in t, if any, is the one pending in s.
SameFollowUp(s, t) ==
    t.pending_follow_up # None =>
        /\ s.pending_follow_up # None
        /\ t.pending_follow_up.effect_id = s.pending_follow_up.effect_id
        /\ t.pending_follow_up.source = s.pending_follow_up.source

------------------------------------------------------------------------------
(* The operations of the controller. *)

\* apply_core_state makes the mirrors follow, and keeps the loop of the engine.
LEMMA ApplyIs ==
    ASSUME NEW c, NEW auto \in BOOLEAN, Half(c, auto), NEW s, CoreSane(s, auto)
    PROVE  LET d == apply_core_state(c, s)
           IN  Half(d, auto) /\ d.core = s /\ d.active_loop_id = c.active_loop_id
<1> DEFINE d == apply_core_state(c, s)
<1> USE DEF apply_core_state
<1>1. /\ s \in CoreState /\ s.busy \in BOOLEAN /\ s.disabled_tools \in ToolSets
      /\ s.auto_test_enabled \in BOOLEAN /\ s.auto_test_command \in Commands \cup {None}
      /\ s.auto_test_in_progress \in BOOLEAN
  BY DEF CoreSane, CoreState
<1>2. c \in ControllerState /\ LoopKnown(c)
  BY DEF Half
<1>3. d \in ControllerState
  BY <1>1, <1>2 DEF ControllerState
<1>4. /\ d.core = s /\ d.auto_test_enabled = s.auto_test_enabled
      /\ d.auto_test_in_progress = s.auto_test_in_progress
      /\ d.active_loop_id = c.active_loop_id /\ d.loops = c.loops
  BY <1>2 DEF ControllerState
<1> HIDE DEF d
<1>5. LoopKnown(d)
  BY <1>2, <1>4 DEF LoopKnown
<1> QED BY <1>3, <1>4, <1>5 DEF Half, d

\* finish_loop drops the loop everywhere, and the pending follow-up.
LEMMA FinishLoopIs ==
    ASSUME NEW c, NEW auto \in BOOLEAN, Half(c, auto)
    PROVE  LET d == finish_loop(c)
           IN  /\ Sane(d, auto)
               /\ d.active_loop_id = None
               /\ d.core = [c.core EXCEPT !.active_loop = None, !.pending_follow_up = None]
<1> DEFINE d == finish_loop(c)
           s == [c.core EXCEPT !.active_loop = None, !.pending_follow_up = None]
<1>1. c \in ControllerState /\ c.core \in CoreState /\ CoreSane(c.core, auto)
  BY DEF Half, ControllerState
<1>2. d.core = s /\ s \in CoreState
  BY <1>1 DEF ControllerState, CoreState, finish_loop
<1>3. d.active_loop_id = None /\ d.loops \in Loops
  BY <1>1 DEF ControllerState, finish_loop, has_active_loop, remove, Loops
<1>4. d \in ControllerState
  BY <1>1, <1>2, <1>3 DEF ControllerState, finish_loop
<1>5. /\ d.auto_test_enabled = c.auto_test_enabled
      /\ d.auto_test_in_progress = c.auto_test_in_progress
      /\ s.busy = c.core.busy /\ s.pending_prompt = c.core.pending_prompt
      /\ s.auto_test_enabled = c.core.auto_test_enabled
      /\ s.auto_test_in_progress = c.core.auto_test_in_progress
      /\ s.active_loop = None /\ s.pending_follow_up = None
  BY <1>1 DEF ControllerState, CoreState, finish_loop
<1> HIDE DEF d, s
<1>6. CoreSane(s, auto)
  BY <1>1, <1>2, <1>5 DEF CoreSane, AutoTestGuarded
<1>7. Sane(d, auto)
  BY <1>2, <1>3, <1>4, <1>5, <1>6 DEF Half, Sane, LoopKnown
<1> QED BY <1>2, <1>3, <1>7 DEF d, s

\* What a new core state may be for the controller to stay sane with its loop.
LEMMA StoreIs ==
    ASSUME NEW c, NEW auto \in BOOLEAN, Sane(c, auto), NEW s, CoreSane(s, auto),
           s.active_loop # None <=> c.core.active_loop # None
    PROVE  LET d == apply_core_state(c, s)
           IN  Sane(d, auto) /\ d.core = s /\ d.active_loop_id = c.active_loop_id
BY ApplyIs DEF Sane

\* Effect ids are numbers, also where they saturate.
LEMMA IdTyped ==
    ASSUME NEW s \in CoreState
    PROVE  allocate_effect_id(s) \in EffectIds
BY CoreAssumption DEF CoreState, EffectIds, allocate_effect_id

\* A prompt is accepted when none is pending, and else changes nothing.
LEMMA StartPromptIs ==
    ASSUME NEW c, NEW auto \in BOOLEAN, Sane(c, auto), NEW o \in EffectIds \cup {None}
    PROVE  LET d == start_prompt(c, o)
           IN  /\ Sane(d, auto)
               /\ d.active_loop_id = c.active_loop_id
               /\ d.core.pending_follow_up = c.core.pending_follow_up
               /\ d.core.auto_test_in_progress = c.core.auto_test_in_progress
               /\ d.core.pending_prompt # None
               /\ c.core.pending_prompt = None => d.core.pending_prompt.originating = o
               /\ c.core.pending_prompt # None => d = c
               /\ prompt_start_accepted(c) <=> c.core.pending_prompt = None
<1> DEFINE s == c.core
           id == allocate_effect_id(s)
           prompt == [effect_id |-> id, originating |-> o]
           t == [s EXCEPT !.next_effect_id = id, !.busy = TRUE, !.pending_prompt = prompt]
<1>1. CoreSane(s, auto) /\ s \in CoreState /\ s.busy \in BOOLEAN /\ (s.busy <=> s.pending_prompt # None)
  BY DEF Sane, Half, CoreSane, CoreState
<1>2. prompt_start_accepted(c) <=> s.pending_prompt = None
  BY <1>1 DEF prompt_start_accepted, reduce_prompt_requested, transitioned, rejection
<1>3. CASE s.pending_prompt # None
  <2>1. start_prompt(c, o) = c
    BY <1>1, <1>3 DEF start_prompt, reduce_prompt_requested, rejection
  <2> QED BY <1>2, <1>3, <2>1
<1>4. CASE s.pending_prompt = None
  <2>1. start_prompt(c, o) = apply_core_state(c, t)
    BY <1>1, <1>4 DEF start_prompt, reduce_prompt_requested, transitioned
  <2>2. id \in EffectIds
    BY <1>1, IdTyped
  <2> HIDE DEF id
  <2>3. prompt \in PendingPromptState /\ prompt # None /\ prompt.originating = o
    BY <2>2, NoneAssumption DEF PendingPromptState
  <2> HIDE DEF prompt
  <2>4. /\ t \in CoreState /\ t.pending_prompt = prompt /\ t.busy = TRUE
        /\ t.pending_follow_up = s.pending_follow_up /\ t.active_loop = s.active_loop
        /\ t.auto_test_enabled = s.auto_test_enabled
        /\ t.auto_test_in_progress = s.auto_test_in_progress
    BY <1>1, <2>2, <2>3 DEF CoreState
  <2> HIDE DEF t
  <2>5. CoreSane(t, auto)
    BY <1>1, <2>3, <2>4 DEF CoreSane, AutoTestGuarded
  <2>6. Sane(apply_core_state(c, t), auto) /\ apply_core_state(c, t).core = t
        /\ apply_core_state(c, t).active_loop_id = c.active_loop_id
    BY <2>4, <2>5, StoreIs
  <2> QED BY <1>2, <1>4, <2>1, <2>3, <2>4, <2>6
<1> QED BY <1>3, <1>4

\* The pending prompt is completed; an ordinary one that fails ends the loop.
LEMMA CompletionIs ==
    ASSUME NEW c, NEW auto \in BOOLEAN, Sane(c, auto), c.core.pending_prompt # None, NEW status
    PROVE  LET d == apply_prompt_completion(c, c.core.pending_prompt.effect_id, status)
           IN  /\ Sane(d, auto)
               /\ d.core.pending_prompt = None
               /\ d.core.auto_test_in_progress = c.core.auto_test_in_progress
               /\ \/ /\ d.core.pending_follow_up = c.core.pending_follow_up
                     /\ d.active_loop_id = c.active_loop_id
                  \/ /\ d.core.pending_follow_up = None /\ d.active_loop_id = None
                     /\ c.core.pending_prompt.originating = None
<1> DEFINE s == c.core
           pending == s.pending_prompt
           r == reduce_prompt_completed(s, pending.effect_id, status)
           cleared == [s EXCEPT !.busy = FALSE, !.pending_prompt = None]
           ended == [cleared EXCEPT !.active_loop = None, !.pending_follow_up = None]
           d == apply_prompt_completion(c, pending.effect_id, status)
           fails == pending.originating = None /\ status # "Succeeded" /\ s.active_loop # None
<1>1. CoreSane(s, auto) /\ s \in CoreState /\ Half(c, auto)
      /\ (s.active_loop # None <=> c.active_loop_id # None)
  BY DEF Sane, Half, CoreSane
<1>2. /\ cleared \in CoreState /\ cleared.busy = FALSE /\ cleared.pending_prompt = None
      /\ cleared.pending_follow_up = s.pending_follow_up /\ cleared.active_loop = s.active_loop
      /\ cleared.auto_test_enabled = s.auto_test_enabled
      /\ cleared.auto_test_in_progress = s.auto_test_in_progress
  BY <1>1 DEF CoreState
<1>3. /\ ended \in CoreState /\ ended.busy = FALSE /\ ended.pending_prompt = None
      /\ ended.pending_follow_up = None /\ ended.active_loop = None
      /\ ended.auto_test_enabled = s.auto_test_enabled
      /\ ended.auto_test_in_progress = s.auto_test_in_progress
  BY <1>1 DEF CoreState
<1>4. /\ ~fails => r.ok /\ r.state = cleared /\ r.effects = {BusyChanged(FALSE)}
      /\ fails => r.ok /\ r.state = ended /\ r.effects = {BusyChanged(FALSE), LoopStateChanged(None)}
  BY DEF reduce_prompt_completed, transitioned
<1>5. LoopStateChanged(None) # BusyChanged(FALSE)
  BY DEF LoopStateChanged, BusyChanged
<1> HIDE DEF cleared, ended, r
<1>6. CoreSane(cleared, auto) /\ CoreSane(ended, auto)
  BY <1>1, <1>2, <1>3 DEF CoreSane, AutoTestGuarded
<1>7. CASE ~fails
  <2>1. d = apply_core_state(c, cleared)
    BY <1>4, <1>5, <1>7 DEF apply_prompt_completion, execute_prompt_completion_effects, r
  <2>2. Sane(d, auto) /\ d.core = cleared /\ d.active_loop_id = c.active_loop_id
    BY <1>2, <1>6, <2>1, StoreIs
  <2> HIDE DEF d
  <2> QED BY <1>1, <1>2, <1>7, <2>2 DEF d
<1>8. CASE fails
  <2> DEFINE e == apply_core_state(c, ended)
  <2>1. Half(e, auto) /\ e.core = ended /\ e.active_loop_id = c.active_loop_id
    BY <1>1, <1>6, ApplyIs
  <2> HIDE DEF e
  <2>2. d = finish_loop(e)
    BY <1>1, <1>4, <1>5, <1>8, <2>1
       DEF apply_prompt_completion, execute_prompt_completion_effects, has_active_loop, r, e
  <2>3. /\ Sane(d, auto) /\ d.active_loop_id = None
        /\ d.core = [ended EXCEPT !.active_loop = None, !.pending_follow_up = None]
    BY <2>1, <2>2, FinishLoopIs
  <2>4. d.core.pending_prompt = None /\ d.core.pending_follow_up = None
        /\ d.core.auto_test_in_progress = s.auto_test_in_progress
    BY <1>3, <2>3 DEF CoreState
  <2> HIDE DEF d
  <2> QED BY <1>8, <2>3, <2>4 DEF d
<1> QED BY <1>7, <1>8

\* finish_embedded_prompt leaves no prompt.
LEMMA FinishPromptIs ==
    ASSUME NEW c, NEW auto \in BOOLEAN, Sane(c, auto), NEW status
    PROVE  LET d == finish_embedded_prompt(c, status)
           IN  /\ Sane(d, auto)
               /\ d.core.pending_prompt = None
               /\ d.core.auto_test_in_progress = c.core.auto_test_in_progress
               /\ d.core.pending_follow_up \in {c.core.pending_follow_up, None}
               /\ d.active_loop_id \in {c.active_loop_id, None}
<1>1. CASE c.core.pending_prompt = None
  BY <1>1 DEF finish_embedded_prompt
<1>2. CASE c.core.pending_prompt # None
  <2> DEFINE d == apply_prompt_completion(c, c.core.pending_prompt.effect_id, status)
  <2>1. /\ Sane(d, auto)
        /\ d.core.pending_prompt = None
        /\ d.core.auto_test_in_progress = c.core.auto_test_in_progress
        /\ \/ /\ d.core.pending_follow_up = c.core.pending_follow_up
              /\ d.active_loop_id = c.active_loop_id
           \/ /\ d.core.pending_follow_up = None /\ d.active_loop_id = None
    BY <1>2, CompletionIs, ZenonT(40)
  <2>2. finish_embedded_prompt(c, status) = d
    BY <1>2 DEF finish_embedded_prompt
  <2> HIDE DEF d
  <2> QED BY <2>1, <2>2
<1> QED BY <1>1, <1>2

\* A follow-up that fails is gone.
LEMMA FailureIs ==
    ASSUME NEW c, NEW auto \in BOOLEAN, Sane(c, auto), c.core.pending_follow_up # None
    PROVE  LET r == FollowUpFails(c.core)
               d == execute_follow_up_failure_effects(apply_core_state(c, r.state), r.effects)
           IN  /\ Sane(d, auto)
               /\ d.core.pending_follow_up = None
               /\ d.core.pending_prompt = c.core.pending_prompt
               /\ d.active_loop_id \in {c.active_loop_id, None}
<1> DEFINE s == c.core
           source == s.pending_follow_up.source
           ends == source = "LoopContinuation" /\ s.active_loop # None
           r == FollowUpFails(s)
           t == r.state
           e == apply_core_state(c, t)
           d == execute_follow_up_failure_effects(e, r.effects)
<1>1. CoreSane(s, auto) /\ s \in CoreState /\ Half(c, auto)
      /\ (s.active_loop # None <=> c.active_loop_id # None)
  BY DEF Sane, Half, CoreSane
<1>2. /\ t = [[s EXCEPT !.pending_follow_up = None] EXCEPT
                 !.auto_test_in_progress = @ /\ source # "AutoTest",
                 !.active_loop = IF ends THEN None ELSE @]
      /\ r.effects = IF ends THEN {LoopStateChanged(None)} ELSE {}
  BY DEF FollowUpFails, WithoutFollowUp, transitioned
<1>3. /\ t \in CoreState /\ t.pending_follow_up = None
      /\ t.pending_prompt = s.pending_prompt /\ t.busy = s.busy
      /\ t.auto_test_enabled = s.auto_test_enabled
      /\ t.active_loop = IF ends THEN None ELSE s.active_loop
  BY <1>1, <1>2 DEF CoreState
<1> HIDE DEF t, r
<1>4. CoreSane(t, auto)
  BY <1>1, <1>3 DEF CoreSane, AutoTestGuarded
<1>5. Half(e, auto) /\ e.core = t /\ e.active_loop_id = c.active_loop_id
  BY <1>1, <1>4, ApplyIs
<1> HIDE DEF e
<1>6. CASE ends
  <2>1. d = finish_loop(e)
    BY <1>2, <1>6 DEF execute_follow_up_failure_effects
  <2>2. /\ Sane(d, auto) /\ d.active_loop_id = None
        /\ d.core = [t EXCEPT !.active_loop = None, !.pending_follow_up = None]
    BY <1>5, <2>1, FinishLoopIs
  <2>3. d.core.pending_follow_up = None /\ d.core.pending_prompt = s.pending_prompt
    BY <1>3, <2>2 DEF CoreState
  <2> QED BY <2>2, <2>3 DEF d, e, r, t
<1>7. CASE ~ends
  <2>1. d = e
    BY <1>2, <1>7 DEF execute_follow_up_failure_effects
  <2>2. Sane(d, auto)
    BY <1>1, <1>3, <1>5, <1>7, <2>1 DEF Sane
  <2> QED BY <1>3, <1>5, <2>1, <2>2 DEF d, e, r, t
<1> QED BY <1>6, <1>7

\* What the acknowledgement of dispatch id makes of c.
Acked(c, d, id, accepted) ==
    LET ready == /\ c.core.pending_follow_up # None
                 /\ c.core.pending_follow_up.effect_id = id
                 /\ c.core.pending_follow_up.stage = "AwaitingDispatchAcknowledgement"
    IN  /\ d.core.pending_prompt = c.core.pending_prompt
        /\ d.active_loop_id \in {c.active_loop_id, None}
        /\ ~ready => d = c
        /\ ready /\ ~accepted => d.core.pending_follow_up = None
        /\ ready /\ accepted =>
              /\ d.core.pending_follow_up # None
              /\ d.core.pending_follow_up.effect_id = id
              /\ d.core.pending_follow_up.source = c.core.pending_follow_up.source
              /\ d.core.pending_follow_up.stage = "AwaitingPromptCompletion"

LEMMA AckIs ==
    ASSUME NEW c, NEW auto \in BOOLEAN, Sane(c, auto), NEW id \in EffectIds, NEW accepted \in BOOLEAN
    PROVE  LET d == ack_follow_up_dispatch(c, id, accepted)
           IN  Sane(d, auto) /\ Acked(c, d, id, accepted)
<1> DEFINE s == c.core
           pending == s.pending_follow_up
           ready == /\ pending # None /\ pending.effect_id = id
                    /\ pending.stage = "AwaitingDispatchAcknowledgement"
           r == reduce_follow_up_dispatch_acknowledged(s, id, accepted)
           t == [s EXCEPT !.pending_follow_up.stage = "AwaitingPromptCompletion"]
           d == ack_follow_up_dispatch(c, id, accepted)
<1>1. CoreSane(s, auto) /\ s \in CoreState
  BY DEF Sane, Half, CoreSane
<1>2. CASE ~ready
  <2>1. ~r.ok
    BY <1>2 DEF reduce_follow_up_dispatch_acknowledged, rejection
  <2>2. d = c
    BY <2>1 DEF ack_follow_up_dispatch
  <2> QED BY <1>2, <2>2 DEF Acked
<1>3. CASE ready /\ ~accepted
  <2>1. r = FollowUpFails(s) /\ r.ok
    BY <1>3 DEF reduce_follow_up_dispatch_acknowledged, FollowUpFails, transitioned
  <2>2. d = execute_follow_up_failure_effects(apply_core_state(c, r.state), r.effects)
    BY <2>1 DEF ack_follow_up_dispatch
  <2> HIDE DEF d, r
  <2> QED BY <1>3, <2>1, <2>2, FailureIs DEF d, Acked
<1>4. CASE ready /\ accepted
  <2>1. r.ok /\ r.state = t /\ r.effects = {}
    BY <1>4 DEF reduce_follow_up_dispatch_acknowledged, transitioned
  <2>2. pending \in PendingFollowUpState
    BY <1>1, <1>4 DEF CoreState
  <2> DEFINE f == [pending EXCEPT !.stage = "AwaitingPromptCompletion"]
  <2>3. f \in PendingFollowUpState /\ f.effect_id = id /\ f.stage = "AwaitingPromptCompletion"
        /\ f.source = pending.source /\ f # None
    BY <1>4, <2>2, NoneAssumption DEF PendingFollowUpState, Stages
  <2>4. t = [s EXCEPT !.pending_follow_up = f]
    BY <1>1 DEF CoreState
  <2> HIDE DEF f
  <2>5. /\ t \in CoreState /\ t.pending_follow_up = f /\ t.pending_prompt = s.pending_prompt
        /\ t.busy = s.busy /\ t.auto_test_enabled = s.auto_test_enabled
        /\ t.auto_test_in_progress = s.auto_test_in_progress /\ t.active_loop = s.active_loop
    BY <1>1, <2>3, <2>4 DEF CoreState
  <2> HIDE DEF t
  <2>6. CoreSane(t, auto)
    BY <1>1, <1>4, <2>3, <2>5 DEF CoreSane, AutoTestGuarded
  <2>7. Sane(apply_core_state(c, t), auto) /\ apply_core_state(c, t).core = t
        /\ apply_core_state(c, t).active_loop_id = c.active_loop_id
    BY <2>5, <2>6, StoreIs
  <2>8. d = apply_core_state(c, t)
    BY <2>1 DEF ack_follow_up_dispatch, execute_follow_up_failure_effects
  <2> HIDE DEF d
  <2> QED BY <1>4, <2>3, <2>5, <2>7, <2>8 DEF d, Acked
<1> QED BY <1>2, <1>3, <1>4

\* The completion of a follow-up, after its prompt's.
Done(c, id, status) ==
    LET outcome == reduce_loop_follow_up_completed(c.core, id, status)
    IN  execute_follow_up_failure_effects(apply_core_state(c, outcome.state), outcome.effects)

Expects(s, id) ==
    /\ s.pending_follow_up # None
    /\ s.pending_follow_up.effect_id = id
    /\ s.pending_follow_up.stage = "AwaitingPromptCompletion"

LEMMA FollowUpDoneIs ==
    ASSUME NEW c, NEW auto \in BOOLEAN, Sane(c, auto), NEW id, NEW status
    PROVE  /\ Sane(Done(c, id, status), auto)
           /\ Done(c, id, status).core.pending_prompt = c.core.pending_prompt
           /\ Done(c, id, status).active_loop_id \in {c.active_loop_id, None}
           /\ Done(c, id, status).core.pending_follow_up \in {c.core.pending_follow_up, None}
           /\ Expects(c.core, id) => Done(c, id, status).core.pending_follow_up = None
           /\ status = "Succeeded" =>
                 Done(c, id, status).core.auto_test_in_progress = c.core.auto_test_in_progress
<1> DEFINE s == c.core
           pending == s.pending_follow_up
           waits == Expects(s, id)
           r == reduce_loop_follow_up_completed(s, id, status)
           t == [s EXCEPT !.pending_follow_up = None]
           d == Done(c, id, status)
<1>1. CoreSane(s, auto) /\ s \in CoreState
  BY DEF Sane, Half, CoreSane
<1>2. CASE ~waits
  <2>1. ~r.ok /\ r.state = s /\ r.effects = {}
    BY <1>2 DEF reduce_loop_follow_up_completed, rejection, Expects
  <2>2. d = apply_core_state(c, s)
    BY <2>1 DEF execute_follow_up_failure_effects, Done
  <2>3. Sane(d, auto) /\ d.core = s /\ d.active_loop_id = c.active_loop_id
    BY <1>1, <2>2, StoreIs
  <2> HIDE DEF d
  <2> QED BY <1>2, <2>3 DEF d
<1>3. CASE waits /\ status # "Succeeded"
  <2>1. r = FollowUpFails(s) /\ r.ok
    BY <1>3 DEF reduce_loop_follow_up_completed, FollowUpFails, transitioned, Expects
  <2>2. d = execute_follow_up_failure_effects(apply_core_state(c, r.state), r.effects)
    BY DEF Done
  <2> HIDE DEF r, d
  <2> QED BY <1>3, <2>1, <2>2, FailureIs DEF d, Expects
<1>4. CASE waits /\ status = "Succeeded"
  <2>1. r.ok /\ r.state = t /\ r.effects = {}
    BY <1>4 DEF reduce_loop_follow_up_completed, WithoutFollowUp, transitioned, Expects
  <2>2. /\ t \in CoreState /\ t.pending_follow_up = None /\ t.pending_prompt = s.pending_prompt
        /\ t.busy = s.busy /\ t.auto_test_enabled = s.auto_test_enabled
        /\ t.auto_test_in_progress = s.auto_test_in_progress /\ t.active_loop = s.active_loop
    BY <1>1 DEF CoreState
  <2> HIDE DEF t
  <2>3. CoreSane(t, auto)
    BY <1>1, <2>2 DEF CoreSane, AutoTestGuarded
  <2>4. d = apply_core_state(c, t)
    BY <2>1 DEF execute_follow_up_failure_effects, Done
  <2>5. Sane(d, auto) /\ d.core = t /\ d.active_loop_id = c.active_loop_id
    BY <2>2, <2>3, <2>4, StoreIs
  <2> HIDE DEF d
  <2> QED BY <1>4, <2>2, <2>5 DEF d
<1> QED BY <1>2, <1>3, <1>4

\* complete_dispatched_follow_up retires prompt and follow-up together.
LEMMA CompleteFollowUpIs ==
    ASSUME NEW c, NEW auto \in BOOLEAN, Sane(c, auto), NEW id \in EffectIds,
           NEW status \in {"Succeeded", "Failed"}
    PROVE  LET d == complete_dispatched_follow_up(c, id, status)
           IN  /\ Sane(d, auto)
               /\ d.active_loop_id \in {c.active_loop_id, None}
               /\ d.core.pending_follow_up \in {c.core.pending_follow_up, None}
               /\ status = "Succeeded" =>
                     d.core.auto_test_in_progress = c.core.auto_test_in_progress
               /\ Waits(c.core) /\ c.core.pending_follow_up.effect_id = id =>
                     d.core.pending_prompt = None
<1> DEFINE s == c.core
           d == complete_dispatched_follow_up(c, id, status)
           e == apply_prompt_completion(c, s.pending_prompt.effect_id, status)
           f == Done(e, id, status)
           preflight == reduce_loop_follow_up_completed(s, id, status)
           due == preflight.ok /\ s.pending_prompt # None /\ s.pending_prompt.originating = id
<1>1. \/ ~due /\ d = c
      \/ due /\ d = f
  BY DEF complete_dispatched_follow_up, Done
<1>2. preflight.ok <=> Expects(s, id)
  BY DEF reduce_loop_follow_up_completed, rejection, transitioned, FollowUpFails, Expects
<1>3. Waits(s) /\ s.pending_follow_up.effect_id = id <=> due
  BY <1>2 DEF Waits, Expects
<1>4. CASE ~due
  BY <1>1, <1>3, <1>4
<1>5. CASE due
  <2>1. id # None
    BY NoneAssumption
  <2>2. /\ Sane(e, auto) /\ e.core.pending_prompt = None
        /\ e.core.auto_test_in_progress = s.auto_test_in_progress
        /\ e.core.pending_follow_up = s.pending_follow_up
        /\ e.active_loop_id = c.active_loop_id
    BY <1>5, <2>1, CompletionIs
  <2>3. Expects(e.core, id)
    BY <1>2, <1>5, <2>2 DEF Expects
  <2> HIDE DEF e, preflight
  <2>4. /\ Sane(f, auto) /\ f.core.pending_prompt = e.core.pending_prompt
        /\ f.active_loop_id \in {e.active_loop_id, None}
        /\ f.core.pending_follow_up = None
        /\ status = "Succeeded" => f.core.auto_test_in_progress = e.core.auto_test_in_progress
    BY <2>2, <2>3, FollowUpDoneIs
  <2> HIDE DEF f, d
  <2> QED BY <1>1, <1>5, <2>2, <2>4 DEF d
<1> QED BY <1>4, <1>5

\* What the engine records about the loop that runs changes nothing else.
LEMMA UpdateLoopIs ==
    ASSUME NEW c, NEW auto \in BOOLEAN, Sane(c, auto), c.active_loop_id # None, NEW l \in LoopState
    PROVE  LET d == [c EXCEPT !.loops = [c.loops EXCEPT ![c.active_loop_id] = l]]
           IN  /\ Sane(d, auto)
               /\ d.core = c.core /\ d.active_loop_id = c.active_loop_id
<1> DEFINE id == c.active_loop_id
           ls == [c.loops EXCEPT ![id] = l]
           d == [c EXCEPT !.loops = ls]
<1>1. c \in ControllerState /\ id \in LoopIds /\ c.loops \in Loops
  BY DEF Sane, Half, ControllerState
<1>2. ls \in Loops /\ ls[id] = l /\ l # None
  BY <1>1, LoopAssumption DEF Loops
<1> HIDE DEF ls
<1>3. /\ d \in ControllerState /\ d.loops = ls
      /\ d.core = c.core /\ d.active_loop_id = c.active_loop_id
      /\ d.auto_test_enabled = c.auto_test_enabled
      /\ d.auto_test_in_progress = c.auto_test_in_progress
  BY <1>1, <1>2 DEF ControllerState
<1> HIDE DEF d
<1>4. Sane(d, auto)
  BY <1>2, <1>3 DEF Sane, Half, LoopKnown
<1> QED BY <1>3, <1>4 DEF d, ls

\* The loop of the controller is registered with the engine.
LEMMA LoopRegistered ==
    ASSUME NEW c, NEW auto, Sane(c, auto), c.active_loop_id # None
    PROVE  c.active_loop_id \in LoopIds /\ c.loops[c.active_loop_id] \in LoopState
BY DEF Sane, Half, LoopKnown, ControllerState, Loops

LEMMA SignalIs ==
    ASSUME NEW c, NEW auto \in BOOLEAN, Sane(c, auto)
    PROVE  LET d == signal_loop_break(c)
           IN  Sane(d, auto) /\ d.core = c.core /\ d.active_loop_id = c.active_loop_id
<1>1. CASE ~has_active_loop(c)
  BY <1>1 DEF signal_loop_break
<1>2. CASE has_active_loop(c)
  <2> DEFINE l == [c.loops[c.active_loop_id] EXCEPT !.break_signalled = TRUE]
  <2>1. l \in LoopState
    BY <1>2, LoopRegistered DEF has_active_loop, LoopState
  <2>2. signal_loop_break(c) = [c EXCEPT !.loops = [c.loops EXCEPT ![c.active_loop_id] = l]]
    BY <1>2 DEF signal_loop_break, signal_break, Sane, Half, ControllerState
  <2> HIDE DEF l
  <2> QED BY <1>2, <2>1, <2>2, UpdateLoopIs DEF has_active_loop
<1> QED BY <1>1, <1>2

\* A loop is registered and known to reducer, controller and engine.
LEMMA StartLoopIs ==
    ASSUME NEW c, NEW auto \in BOOLEAN, Sane(c, auto), NEW m \in Nat
    PROVE  LET d == start_loop(c, m)
           IN  /\ Sane(d, auto)
               /\ d.core.pending_prompt = c.core.pending_prompt
               /\ d.core.pending_follow_up = c.core.pending_follow_up
               /\ d.core.auto_test_in_progress = c.core.auto_test_in_progress
<1> DEFINE id == CHOOSE i \in FreeLoopIds(c.loops) : TRUE
           loop == NewLoop(id, m)
           entry == [current_iteration |-> 0, max_iterations |-> m, break_signalled |-> FALSE]
           s == [c.core EXCEPT !.active_loop = loop]
           ls == [c.loops EXCEPT ![id] = entry]
           d == [c EXCEPT !.loops = ls, !.active_loop_id = id, !.core.active_loop = loop]
<1>1. CASE ~CanRegister(c)
  BY <1>1 DEF start_loop
<1>2. CASE CanRegister(c)
  <2>1. start_loop(c, m) = d
    BY <1>2 DEF start_loop, register
  <2>2. id \in LoopIds
    BY <1>2 DEF CanRegister, FreeLoopIds
  <2> HIDE DEF id
  <2>3. loop \in ActiveLoopState /\ loop # None /\ id # None
    BY <2>2, NoneAssumption DEF NewLoop, ActiveLoopState
  <2> HIDE DEF loop
  <2>4. entry \in LoopState /\ entry # None
    <3>1. 0 \in Nat /\ FALSE \in BOOLEAN
      OBVIOUS
    <3>2. entry \in LoopState
      BY <3>1, Zenon DEF LoopState
    <3> QED BY <3>2, LoopAssumption
  <2> HIDE DEF entry
  <2>5. c \in ControllerState /\ CoreSane(c.core, auto) /\ c.core \in CoreState /\ c.loops \in Loops
    BY DEF Sane, Half, CoreSane, ControllerState
  <2>6. ls \in Loops /\ ls[id] # None
    BY <2>2, <2>4, <2>5 DEF Loops
  <2> HIDE DEF ls
  <2>7. /\ s \in CoreState /\ s.active_loop = loop /\ s.busy = c.core.busy
        /\ s.pending_prompt = c.core.pending_prompt
        /\ s.pending_follow_up = c.core.pending_follow_up
        /\ s.auto_test_enabled = c.core.auto_test_enabled
        /\ s.auto_test_in_progress = c.core.auto_test_in_progress
    BY <2>3, <2>5 DEF CoreState
  <2>8. d = [c EXCEPT !.loops = ls, !.active_loop_id = id, !.core = s]
    BY <2>5 DEF ControllerState
  <2> HIDE DEF s, d
  <2>9. /\ d \in ControllerState /\ d.loops = ls /\ d.active_loop_id = id /\ d.core = s
        /\ d.auto_test_enabled = c.auto_test_enabled
        /\ d.auto_test_in_progress = c.auto_test_in_progress
    BY <2>2, <2>5, <2>6, <2>7, <2>8 DEF ControllerState
  <2>10. CoreSane(s, auto)
    BY <2>5, <2>7 DEF CoreSane, AutoTestGuarded
  <2>11. Sane(d, auto)
    BY <2>3, <2>6, <2>7, <2>9, <2>10 DEF Sane, Half, LoopKnown
  <2> QED BY <2>1, <2>7, <2>9, <2>11
<1> QED BY <1>1, <1>2

\* sync_loop_status starts a loop only for a display, and finishes one only without.
LEMMA SyncIs ==
    ASSUME NEW c, NEW auto \in BOOLEAN, Sane(c, auto), NEW limit \in Nat \cup {None}
    PROVE  LET d == sync_loop_status(c, limit)
           IN  /\ Sane(d, auto)
               /\ d.core.pending_prompt = c.core.pending_prompt
               /\ d.core.pending_follow_up \in {c.core.pending_follow_up, None}
               /\ d.core.auto_test_in_progress = c.core.auto_test_in_progress
               /\ limit = None => d.active_loop_id = None
<1>1. CASE limit # None /\ ~has_active_loop(c)
  BY <1>1, StartLoopIs DEF sync_loop_status
<1>2. CASE limit = None /\ has_active_loop(c)
  <2> DEFINE d == finish_loop(c)
  <2>1. Half(c, auto) /\ c.core \in CoreState
    BY DEF Sane, Half, CoreSane
  <2>2. /\ Sane(d, auto) /\ d.active_loop_id = None
        /\ d.core = [c.core EXCEPT !.active_loop = None, !.pending_follow_up = None]
    BY <2>1, FinishLoopIs
  <2> HIDE DEF d
  <2>3. /\ d.core.pending_prompt = c.core.pending_prompt
        /\ d.core.pending_follow_up = None
        /\ d.core.auto_test_in_progress = c.core.auto_test_in_progress
    BY <2>1, <2>2 DEF CoreState
  <2>4. sync_loop_status(c, limit) = d
    BY <1>2 DEF sync_loop_status, d
  <2> QED BY <2>2, <2>3, <2>4
<1>3. CASE ~(limit # None /\ ~has_active_loop(c)) /\ ~(limit = None /\ has_active_loop(c))
  BY <1>3 DEF sync_loop_status, has_active_loop
<1> QED BY <1>1, <1>2, <1>3

\* The engine counts an iteration, and the loop it reports is the one that runs, or none.
LEMMA ObserveIs ==
    ASSUME NEW c, NEW auto \in BOOLEAN, Sane(c, auto), NEW matched
    PROVE  LET o == observe_post_prompt_loop_state(c, matched)
           IN  /\ Sane(o.ctl, auto)
               /\ o.ctl.core = c.core /\ o.ctl.active_loop_id = c.active_loop_id
               /\ o.active_loop \in ActiveLoopState \cup {None}
               /\ \/ ~o.finished /\ (o.active_loop # None <=> c.active_loop_id # None)
                  \/ o.finished /\ o.active_loop = None /\ c.active_loop_id # None
<1> DEFINE o == observe_post_prompt_loop_state(c, matched)
<1>1. CASE ~has_active_loop(c)
  BY <1>1 DEF observe_post_prompt_loop_state, has_active_loop
<1>2. CASE has_active_loop(c)
  <2> DEFINE id == c.active_loop_id
             l == [c.loops[id] EXCEPT !.current_iteration = c.loops[id].current_iteration + 1]
             loops == record_iteration(c.loops, id)
             d == [c EXCEPT !.loops = loops]
             previous == c.core.active_loop
             al == [loop_id |-> id,
                    current_iteration |-> loops[id].current_iteration,
                    max_iterations |-> IF previous = None THEN 0 ELSE previous.max_iterations]
  <2>1. l \in LoopState /\ id \in LoopIds
    BY <1>2, LoopRegistered DEF has_active_loop, LoopState
  <2>2. loops = [c.loops EXCEPT ![id] = l]
    BY DEF record_iteration
  <2>3. Sane(d, auto) /\ d.core = c.core /\ d.active_loop_id = id
    BY <1>2, <2>1, <2>2, UpdateLoopIs DEF has_active_loop
  <2>4. previous \in ActiveLoopState
    BY <1>2 DEF Sane, Half, CoreSane, has_active_loop, CoreState
  <2>5. loops[id] \in LoopState
    BY <2>1, <2>2 DEF Sane, Half, ControllerState, Loops
  <2>6. al \in ActiveLoopState /\ al # None
    BY <2>1, <2>4, <2>5, NoneAssumption DEF ActiveLoopState, LoopState
  <2>7. \/ o = [ctl |-> d, active_loop |-> None, finished |-> TRUE]
        \/ o = [ctl |-> d, active_loop |-> al, finished |-> FALSE]
    BY <1>2 DEF observe_post_prompt_loop_state
  <2> HIDE DEF o, d, al
  <2>8. CASE o = [ctl |-> d, active_loop |-> None, finished |-> TRUE]
    BY <1>2, <2>8, <2>3 DEF o, has_active_loop
  <2>9. CASE o = [ctl |-> d, active_loop |-> al, finished |-> FALSE]
    <3>1. o.ctl = d /\ o.active_loop = al /\ ~o.finished
      BY <2>9
    <3> QED BY <1>2, <3>1, <2>3, <2>6 DEF o, has_active_loop
  <2> QED BY <2>7, <2>8, <2>9
<1> QED BY <1>1, <1>2

\* The post-prompt evaluation of controller c for the loop the engine reports.
Evaluated(c, loop, queued) ==
    reduce_post_prompt_evaluation(c.core, PostPromptEvaluation(c, loop, queued))

\* What an evaluation plans from core state s: nothing, the replay of the queued prompt or one
\* new follow-up, the last two only when no follow-up is pending.
Plans(action, s, t, loop, queued) ==
    \/ /\ action.kind = "None"
       /\ t.pending_follow_up = s.pending_follow_up
    \/ /\ action.kind = "ReplayQueuedPrompt"
       /\ queued
       /\ s.pending_follow_up = None /\ t.pending_follow_up = None
    \/ /\ action.kind = "ContinueLoop"
       /\ action.id \in EffectIds
       /\ loop # None /\ s.pending_follow_up = None
       /\ t.pending_follow_up = NewFollowUp(action.id, "LoopContinuation")
    \/ /\ action.kind = "RunAutoTest"
       /\ action.id \in EffectIds
       /\ loop = None /\ s.pending_follow_up = None
       /\ s.auto_test_enabled /\ ~s.auto_test_in_progress
       /\ t.pending_follow_up = NewFollowUp(action.id, "AutoTest")

LEMMA EffectsDistinct ==
    ASSUME NEW loop, NEW id, NEW src
    PROVE  /\ LoopStateChanged(loop) # ReplayQueuedPrompt
           /\ LoopStateChanged(loop) # RunLoopFollowUp(id, src)
           /\ ReplayQueuedPrompt # RunLoopFollowUp(id, src)
           /\ RunLoopFollowUp(id, "LoopContinuation") # RunLoopFollowUp(id, "AutoTest")
           /\ LoopStateChanged(loop) = LoopStateChanged(None) <=> loop = None
BY DEF LoopStateChanged, ReplayQueuedPrompt, RunLoopFollowUp

LEMMA NewFollowUpTyped ==
    ASSUME NEW id \in EffectIds, NEW source \in Sources
    PROVE  /\ NewFollowUp(id, source) \in PendingFollowUpState
           /\ NewFollowUp(id, source) # None
           /\ NewFollowUp(id, source).effect_id = id
           /\ NewFollowUp(id, source).source = source
           /\ NewFollowUp(id, source).stage = "AwaitingDispatchAcknowledgement"
BY NoneAssumption DEF NewFollowUp, PendingFollowUpState, Stages

LEMMA EvaluationIs ==
    ASSUME NEW c, NEW auto \in BOOLEAN, Half(c, auto),
           NEW loop \in ActiveLoopState \cup {None}, NEW queued \in BOOLEAN
    PROVE  LET r == Evaluated(c, loop, queued)
           IN  /\ CoreSane(r.state, auto)
               /\ r.state.active_loop = loop
               /\ r.state.pending_prompt = c.core.pending_prompt
               /\ LoopStateChanged(None) \in r.effects <=> loop = None /\ c.core.active_loop # None
               /\ Plans(PostPromptAction(r), c.core, r.state, loop, queued)
<1> DEFINE s == c.core
           r == Evaluated(c, loop, queued)
           id == allocate_effect_id(s)
           o == [s EXCEPT !.active_loop = loop,
                          !.pending_follow_up = s.pending_follow_up,
                          !.auto_test_enabled = c.auto_test_enabled,
                          !.auto_test_command = c.auto_test_command,
                          !.auto_test_in_progress = c.auto_test_in_progress]
           changed == IF s.active_loop # loop THEN {LoopStateChanged(loop)} ELSE {}
           planned(source) == [o EXCEPT !.next_effect_id = id,
                                        !.pending_follow_up = NewFollowUp(id, source)]
           tested == [planned("AutoTest") EXCEPT !.auto_test_in_progress = TRUE]
           rested == [o EXCEPT !.auto_test_in_progress = FALSE]
<1>1. /\ c \in ControllerState /\ s \in CoreState /\ CoreSane(s, auto)
      /\ c.auto_test_enabled \in BOOLEAN /\ s.auto_test_enabled \in BOOLEAN
      /\ c.auto_test_in_progress \in BOOLEAN /\ s.auto_test_in_progress \in BOOLEAN
      /\ c.auto_test_enabled = s.auto_test_enabled
      /\ c.auto_test_in_progress = s.auto_test_in_progress
      /\ c.auto_test_command \in Commands \cup {None}
  BY DEF Half, CoreSane, ControllerState, CoreState
<1>2. id \in EffectIds
  BY <1>1, IdTyped
<1> HIDE DEF id
<1>3. /\ o \in CoreState /\ o.active_loop = loop /\ o.pending_prompt = s.pending_prompt
      /\ o.busy = s.busy /\ o.pending_follow_up = s.pending_follow_up
      /\ o.auto_test_enabled = s.auto_test_enabled
      /\ o.auto_test_in_progress = s.auto_test_in_progress
      /\ o.auto_test_command = c.auto_test_command
  BY <1>1 DEF CoreState
<1>4. \/ /\ o.pending_follow_up # None
         /\ r = transitioned(o, changed)
      \/ /\ o.pending_follow_up = None /\ queued
         /\ r = transitioned(o, changed \cup {ReplayQueuedPrompt})
      \/ /\ o.pending_follow_up = None /\ loop # None
         /\ r = transitioned(planned("LoopContinuation"),
                             changed \cup {RunLoopFollowUp(id, "LoopContinuation")})
      \/ /\ o.pending_follow_up = None /\ loop = None
         /\ o.auto_test_enabled /\ ~o.auto_test_in_progress
         /\ r = transitioned(tested, changed \cup {RunLoopFollowUp(id, "AutoTest")})
      \/ /\ o.pending_follow_up = None /\ loop = None
         /\ r = transitioned(rested, changed)
  BY <1>3 DEF Evaluated, reduce_post_prompt_evaluation, PostPromptEvaluation, id
<1> HIDE DEF r, o
<1>5. /\ LoopStateChanged(loop) # ReplayQueuedPrompt
      /\ \A i, src : LoopStateChanged(loop) # RunLoopFollowUp(i, src)
      /\ \A i, src : ReplayQueuedPrompt # RunLoopFollowUp(i, src)
      /\ \A i : RunLoopFollowUp(i, "LoopContinuation") # RunLoopFollowUp(i, "AutoTest")
      /\ LoopStateChanged(loop) = LoopStateChanged(None) <=> loop = None
      /\ LoopStateChanged(None) # ReplayQueuedPrompt
      /\ \A i, src : LoopStateChanged(None) # RunLoopFollowUp(i, src)
  BY EffectsDistinct
<1>6. LoopStateChanged(None) \in changed <=> loop = None /\ s.active_loop # None
  BY <1>5
<1>7. ReplayQueuedPrompt \notin changed /\ \A i, src : RunLoopFollowUp(i, src) \notin changed
  BY <1>5
<1> HIDE DEF changed
<1>8. CASE r = transitioned(o, changed)
           /\ (o.pending_follow_up # None)
  <2>1. r.state = o /\ r.effects = changed
    BY <1>8 DEF transitioned
  <2>2. PostPromptAction(r).kind = "None"
    BY <1>7, <2>1 DEF PostPromptAction
  <2>3. CoreSane(o, auto)
    BY <1>1, <1>3 DEF CoreSane, AutoTestGuarded
  <2> QED BY <1>3, <1>6, <2>1, <2>2, <2>3 DEF Plans, r
<1>9. CASE /\ o.pending_follow_up = None /\ queued
           /\ r = transitioned(o, changed \cup {ReplayQueuedPrompt})
  <2>1. r.state = o /\ r.effects = changed \cup {ReplayQueuedPrompt}
    BY <1>9 DEF transitioned
  <2>2. PostPromptAction(r).kind = "ReplayQueuedPrompt"
    BY <2>1 DEF PostPromptAction
  <2>3. CoreSane(o, auto)
    BY <1>1, <1>3 DEF CoreSane, AutoTestGuarded
  <2>4. LoopStateChanged(None) \in r.effects <=> LoopStateChanged(None) \in changed
    BY <1>5, <2>1
  <2> QED BY <1>3, <1>6, <1>9, <2>1, <2>2, <2>3, <2>4 DEF Plans, r
<1>10. CASE /\ o.pending_follow_up = None /\ loop # None
            /\ r = transitioned(planned("LoopContinuation"),
                                changed \cup {RunLoopFollowUp(id, "LoopContinuation")})
  <2> DEFINE f == NewFollowUp(id, "LoopContinuation")
             t == [o EXCEPT !.next_effect_id = id, !.pending_follow_up = f]
  <2>1. r.state = t /\ r.effects = changed \cup {RunLoopFollowUp(id, "LoopContinuation")}
    BY <1>10 DEF transitioned
  <2>2. f \in PendingFollowUpState /\ f # None /\ f.source = "LoopContinuation"
    BY <1>2, NewFollowUpTyped DEF Sources
  <2> HIDE DEF f
  <2>3. /\ t \in CoreState /\ t.active_loop = loop /\ t.pending_prompt = s.pending_prompt
        /\ t.busy = s.busy /\ t.pending_follow_up = f /\ t.next_effect_id = id
        /\ t.auto_test_enabled = s.auto_test_enabled
    BY <1>2, <1>3, <2>2 DEF CoreState
  <2> HIDE DEF t
  <2>4. PostPromptAction(r) = [kind |-> "ContinueLoop", id |-> id]
    BY <1>5, <1>7, <2>1, <2>3 DEF PostPromptAction
  <2>5. CoreSane(t, auto)
    BY <1>1, <2>2, <2>3 DEF CoreSane, AutoTestGuarded
  <2>6. LoopStateChanged(None) \in r.effects <=> LoopStateChanged(None) \in changed
    BY <1>5, <2>1
  <2> QED BY <1>2, <1>3, <1>6, <1>10, <2>1, <2>3, <2>4, <2>5, <2>6 DEF Plans, r, f
<1>11. CASE /\ o.pending_follow_up = None /\ loop = None
            /\ o.auto_test_enabled /\ ~o.auto_test_in_progress
            /\ r = transitioned(tested, changed \cup {RunLoopFollowUp(id, "AutoTest")})
  <2> DEFINE f == NewFollowUp(id, "AutoTest")
             t == [[o EXCEPT !.next_effect_id = id, !.pending_follow_up = f]
                        EXCEPT !.auto_test_in_progress = TRUE]
  <2>1. r.state = t /\ r.effects = changed \cup {RunLoopFollowUp(id, "AutoTest")}
    BY <1>11 DEF transitioned
  <2>2. f \in PendingFollowUpState /\ f # None /\ f.source = "AutoTest"
    BY <1>2, NewFollowUpTyped DEF Sources
  <2> HIDE DEF f
  <2>3. /\ t \in CoreState /\ t.active_loop = loop /\ t.pending_prompt = s.pending_prompt
        /\ t.busy = s.busy /\ t.pending_follow_up = f /\ t.next_effect_id = id
        /\ t.auto_test_enabled = s.auto_test_enabled /\ t.auto_test_in_progress = TRUE
    BY <1>2, <1>3, <2>2 DEF CoreState
  <2> HIDE DEF t
  <2>4. PostPromptAction(r) = [kind |-> "RunAutoTest", id |-> id]
    BY <1>5, <1>7, <2>1, <2>3 DEF PostPromptAction
  <2>5. CoreSane(t, auto)
    BY <1>1, <1>3, <1>11, <2>2, <2>3 DEF CoreSane, AutoTestGuarded
  <2>6. LoopStateChanged(None) \in r.effects <=> LoopStateChanged(None) \in changed
    BY <1>5, <2>1
  <2> QED BY <1>1, <1>2, <1>3, <1>6, <1>11, <2>1, <2>3, <2>4, <2>5, <2>6 DEF Plans, r, f
<1>12. CASE /\ o.pending_follow_up = None /\ loop = None
            /\ r = transitioned(rested, changed)
  <2>1. r.state = rested /\ r.effects = changed
    BY <1>12 DEF transitioned
  <2>2. PostPromptAction(r).kind = "None"
    BY <1>7, <2>1 DEF PostPromptAction
  <2>3. /\ rested \in CoreState /\ rested.active_loop = loop /\ rested.busy = s.busy
        /\ rested.pending_prompt = s.pending_prompt /\ rested.pending_follow_up = None
        /\ rested.auto_test_enabled = s.auto_test_enabled
    BY <1>3, <1>12 DEF CoreState
  <2> HIDE DEF rested
  <2>4. CoreSane(rested, auto)
    BY <1>1, <2>3 DEF CoreSane, AutoTestGuarded
  <2> QED BY <1>3, <1>6, <1>12, <2>1, <2>2, <2>3, <2>4 DEF Plans, r
<1> QED BY <1>4, <1>8, <1>9, <1>10, <1>11, <1>12

\* check_post_prompt ends a loop that is over, and with it whatever was planned; else it plans
\* for the loop that runs.
LEMMA PostIs ==
    ASSUME NEW c, NEW auto \in BOOLEAN, Sane(c, auto), NEW queued \in BOOLEAN, NEW matched
    PROVE  LET p == check_post_prompt(c, queued, matched)
           IN  /\ Sane(p.ctl, auto)
               /\ p.ctl.core.pending_prompt = c.core.pending_prompt
               /\ \/ /\ c.active_loop_id # None /\ p.ctl.active_loop_id = None
                     /\ p.ctl.core.pending_follow_up = None
                     /\ \E t : Plans(p.action, c.core, t, None, queued)
                  \/ /\ p.ctl.active_loop_id = c.active_loop_id
                     /\ Plans(p.action, c.core, p.ctl.core, c.active_loop_id, queued)
<1> DEFINE o == observe_post_prompt_loop_state(c, matched)
           r == Evaluated(c, o.active_loop, queued)
           d == apply_core_state(o.ctl, r.state)
           p == check_post_prompt(c, queued, matched)
           e == execute_post_prompt_effects(d, r.effects, o.finished)
<1>1. /\ Sane(o.ctl, auto) /\ o.ctl.core = c.core /\ o.ctl.active_loop_id = c.active_loop_id
      /\ o.active_loop \in ActiveLoopState \cup {None}
      /\ \/ ~o.finished /\ (o.active_loop # None <=> c.active_loop_id # None)
         \/ o.finished /\ o.active_loop = None /\ c.active_loop_id # None
  BY ObserveIs
<1>2. p.ctl = e /\ p.action = PostPromptAction(r)
  BY DEF check_post_prompt, Evaluated
<1> HIDE DEF o, p
<1>3. Half(c, auto) /\ Half(o.ctl, auto) /\ (c.core.active_loop # None <=> c.active_loop_id # None)
  BY <1>1 DEF Sane
<1>4. /\ CoreSane(r.state, auto) /\ r.state.active_loop = o.active_loop
      /\ r.state.pending_prompt = c.core.pending_prompt
      /\ LoopStateChanged(None) \in r.effects <=> o.active_loop = None /\ c.core.active_loop # None
      /\ Plans(PostPromptAction(r), c.core, r.state, o.active_loop, queued)
  BY <1>1, <1>3, EvaluationIs
<1> HIDE DEF r
<1>5. Half(d, auto) /\ d.core = r.state /\ d.active_loop_id = c.active_loop_id
  BY <1>1, <1>3, <1>4, ApplyIs
<1> HIDE DEF d
<1>6. CASE o.finished
  <2>1. e = finish_loop(d)
    BY <1>1, <1>3, <1>4, <1>6 DEF execute_post_prompt_effects
  <2>2. /\ Sane(e, auto) /\ e.active_loop_id = None
        /\ e.core = [r.state EXCEPT !.active_loop = None, !.pending_follow_up = None]
    BY <1>5, <2>1, FinishLoopIs
  <2>3. e.core.pending_prompt = c.core.pending_prompt /\ e.core.pending_follow_up = None
    BY <1>4, <2>2 DEF CoreSane, CoreState
  <2>4. \E t : Plans(p.action, c.core, t, None, queued)
    BY <1>1, <1>2, <1>4, <1>6
  <2> HIDE DEF e
  <2> QED BY <1>1, <1>2, <1>6, <2>2, <2>3, <2>4 DEF p
<1>7. CASE ~o.finished
  <2>1. e = d
    BY <1>7 DEF execute_post_prompt_effects
  <2>2. Sane(e, auto)
    BY <1>1, <1>4, <1>5, <1>7, <2>1 DEF Sane
  <2>3. Plans(p.action, c.core, d.core, c.active_loop_id, queued)
    BY <1>1, <1>2, <1>4, <1>5, <1>7 DEF Plans
  <2> HIDE DEF e
  <2> QED BY <1>2, <1>4, <1>5, <2>1, <2>2, <2>3 DEF p
<1> QED BY <1>6, <1>7

\* A dispatch that nothing stands in the way of either starts the prompt or drops the follow-up;
\* one that something stands in the way of drops it.
LEMMA DispatchIs ==
    ASSUME NEW c, NEW auto \in BOOLEAN, Sane(c, auto), NEW a, NEW id \in EffectIds,
           NEW loops \in BOOLEAN
    PROVE  LET d == dispatch_controller_follow_up(c, a, id, loops)
           IN  /\ Sane(d, auto)
               /\ d.active_loop_id \in {c.active_loop_id, None}
               /\ /\ c.core.pending_prompt = None
                  /\ \E src \in Sources : c.core.pending_follow_up = NewFollowUp(id, src)
                  => Correlated(d.core)
               /\ SameFollowUp(c.core, d.core)
               /\ /\ \E src \in Sources : c.core.pending_follow_up = NewFollowUp(id, src)
                  /\ d.core.pending_follow_up # None
                  => d.core.pending_follow_up.stage = "AwaitingPromptCompletion"
<1> DEFINE d == dispatch_controller_follow_up(c, a, id, loops)
           e == start_prompt(c, id)
           accepted == prompt_start_accepted(c)
           planned == \E src \in Sources : c.core.pending_follow_up = NewFollowUp(id, src)
<1>1. planned => /\ c.core.pending_follow_up # None /\ c.core.pending_follow_up.effect_id = id
                 /\ c.core.pending_follow_up.stage = "AwaitingDispatchAcknowledgement"
  BY NewFollowUpTyped
<1> HIDE DEF planned
<1>2. CASE DispatchAllowed(a, loops)
  <2>1. d = ack_follow_up_dispatch(e, id, accepted)
    BY <1>2 DEF dispatch_controller_follow_up
  <2>2. /\ Sane(e, auto) /\ e.active_loop_id = c.active_loop_id
        /\ e.core.pending_follow_up = c.core.pending_follow_up
        /\ e.core.pending_prompt # None
        /\ c.core.pending_prompt = None => e.core.pending_prompt.originating = id
        /\ accepted <=> c.core.pending_prompt = None
    BY StartPromptIs
  <2>3. accepted \in BOOLEAN
    BY DEF prompt_start_accepted, reduce_prompt_requested, transitioned, rejection
  <2> HIDE DEF e, accepted, d
  <2> DEFINE h == ack_follow_up_dispatch(e, id, accepted)
  <2>4. Sane(h, auto) /\ Acked(e, h, id, accepted)
    BY <2>2, <2>3, AckIs
  <2>5. d = h
    BY <2>1
  <2> HIDE DEF h
  <2>6. c.core.pending_prompt = None /\ planned => Correlated(h.core)
    BY <1>1, <2>2, <2>4 DEF Waits, Correlated, Acked
  <2>7. SameFollowUp(c.core, h.core)
    BY <2>2, <2>4 DEF SameFollowUp, Acked
  <2>8. planned /\ h.core.pending_follow_up # None
            => h.core.pending_follow_up.stage = "AwaitingPromptCompletion"
    BY <1>1, <2>2, <2>4 DEF Acked
  <2> QED BY <2>2, <2>4, <2>5, <2>6, <2>7, <2>8 DEF d, planned, Acked
<1>3. CASE ~DispatchAllowed(a, loops)
  <2>1. d = ack_follow_up_dispatch(c, id, FALSE)
    BY <1>3 DEF dispatch_controller_follow_up
  <2> HIDE DEF d
  <2> DEFINE no == FALSE
  <2>2. no \in BOOLEAN /\ ~no /\ d = ack_follow_up_dispatch(c, id, no)
    BY <2>1
  <2> HIDE DEF no
  <2>3. Sane(d, auto) /\ Acked(c, d, id, no)
    BY <2>2, AckIs
  <2>4. SameFollowUp(c.core, d.core)
    BY <2>2, <2>3 DEF SameFollowUp, Acked
  <2>5. planned => d.core.pending_follow_up = None
    BY <1>1, <2>2, <2>3 DEF Acked
  <2> QED BY <2>3, <2>4, <2>5 DEF d, planned, Correlated, Acked
<1> QED BY <1>2, <1>3

\* An event of the agent at most makes a prompt known that nobody had announced.
LEMMA EventIs ==
    ASSUME NEW c, NEW auto \in BOOLEAN, Sane(c, auto), NEW event
    PROVE  LET d == process_agent_event(c, event, TRUE)
           IN  /\ Sane(d, auto)
               /\ d.active_loop_id = c.active_loop_id
               /\ d.core.pending_follow_up = c.core.pending_follow_up
               /\ \/ d.core.pending_prompt = c.core.pending_prompt
                  \/ /\ c.core.pending_prompt = None
                     /\ d.core.pending_prompt # None /\ d.core.pending_prompt.originating = None
<1> DEFINE d == process_agent_event(c, event, TRUE)
<1>1. \/ c.core.pending_prompt = None /\ d = start_prompt(c, None)
      \/ d = signal_loop_break(c)
      \/ d = c
  BY DEF process_agent_event
<1> HIDE DEF d
<1>2. CASE c.core.pending_prompt = None /\ d = start_prompt(c, None)
  <2>1. /\ Sane(d, auto) /\ d.active_loop_id = c.active_loop_id
        /\ d.core.pending_follow_up = c.core.pending_follow_up
        /\ d.core.pending_prompt # None /\ d.core.pending_prompt.originating = None
    BY <1>2, StartPromptIs
  <2> QED BY <1>2, <2>1 DEF d
<1>3. CASE d = signal_loop_break(c)
  BY <1>3, SignalIs DEF d
<1>4. CASE d = c
  BY <1>4 DEF d
<1> QED BY <1>1, <1>2, <1>3, <1>4

------------------------------------------------------------------------------
(* The inductive invariant. *)

\* Only what the user may type is queued.
QueuedTyped == app.queued_prompt \in (setup.inputs \ {"cancel"}) \cup {None}

\* Without /loop there is no loop, neither shown nor running.
NoLoopUnasked ==
    ~CanLoop(setup) => app.loop_status = None /\ ctl.active_loop_id = None

IInv ==
    /\ TypeOK
    /\ Sane(ctl, setup.auto_test)
    /\ QueuedTyped
    /\ NoLoopUnasked
    /\ Separate(setup) => Correlated(core)

------------------------------------------------------------------------------
(* The commands under way. *)

LEMMA SendsIs ==
    ASSUME NEW from \in Senders
    PROVE  Sends(from) \in Seq(Cmds)
<1>1. <<"ResetCancel">> \in Cmds /\ Prompt(from) \in Cmds
  BY DEF Cmds
<1> QED BY <1>1 DEF Sends

LEMMA ControlIs ==
    <<>> \in Seq(Cmds) /\ <<<<"Abort">>>> \in Seq(Cmds) /\ <<<<"SetModel">>>> \in Seq(Cmds)
<1>1. <<"Abort">> \in Cmds /\ <<"SetModel">> \in Cmds
  BY DEF Cmds
<1> QED BY <1>1

LEMMA ConcatIs ==
    ASSUME NEW cs \in Seq(Cmds), NEW ds \in Seq(Cmds)
    PROVE  cs \o ds \in Seq(Cmds)
OBVIOUS

------------------------------------------------------------------------------
(* The agent task. *)

\* What the agent's steps leave alone keeps all of the invariant but its part in it.
LEMMA AgentKeeps ==
    ASSUME IInv, TypeOK', UNCHANGED runnerVars
    PROVE  IInv'
<1>1. setup' = setup /\ ctl' = ctl /\ app' = app
  BY DEF runnerVars
<1> QED BY <1>1 DEF IInv, QueuedTyped, NoLoopUnasked, core

LEMMA PhasesDistinct ==
    ASSUME IInv
    PROVE  /\ agent.phase \in {"idle", "accepted", "started", "running", "signalled", "ended"}
           /\ agent.cancelled \in BOOLEAN
           /\ agent = [phase |-> agent.phase, cancelled |-> agent.cancelled]
           /\ setup \in Setup /\ cmds \in Seq(Cmds) /\ results \in Seq(BOOLEAN)
BY EmbeddedAssumption DEF IInv, TypeOK

LEMMA AgentTakes ==
    ASSUME IInv, AgentTakesPrompt \/ AgentTakesControl \/ AgentInterrupted
    PROVE  IInv'
<1>1. /\ cmds # <<>> /\ cmds' = Tail(cmds) /\ results' = results /\ events' = events
      /\ UNCHANGED runnerVars
  BY DEF AgentTakesPrompt, AgentTakesControl, AgentInterrupted
<1>2. cmds' \in Seq(Cmds)
  BY <1>1, PhasesDistinct
<1>3. agent' \in [phase : {"idle", "accepted", "started", "running", "signalled", "ended"},
                  cancelled : BOOLEAN]
  <2>1. CASE AgentTakesPrompt
    BY <2>1 DEF AgentTakesPrompt
  <2>2. CASE AgentTakesControl
    <3> DEFINE x == CASE Head(cmds) = <<"Abort">> -> TRUE
                      [] Head(cmds) = <<"ResetCancel">> -> FALSE
                      [] OTHER -> agent.cancelled
    <3>1. x \in BOOLEAN
      BY PhasesDistinct
    <3>2. agent' = [agent EXCEPT !.cancelled = x]
      BY <2>2 DEF AgentTakesControl
    <3> HIDE DEF x
    <3> QED BY <3>1, <3>2 DEF IInv, TypeOK
  <2>3. CASE AgentInterrupted
    BY <2>3 DEF AgentInterrupted, IInv, TypeOK
  <2> QED BY <2>1, <2>2, <2>3
<1>4. TypeOK'
  BY <1>1, <1>2, <1>3 DEF IInv, TypeOK, runnerVars
<1> QED BY <1>1, <1>4, AgentKeeps

LEMMA AgentEmits ==
    ASSUME IInv, AgentStarts \/ AgentRuns \/ AgentSignalsLoopSuccess \/ AgentEnds
    PROVE  IInv'
<1>1. PICK event \in {"AgentStart", "BeforeAgentStart", "signal_loop_success", "AgentEnd"},
           phase \in {"started", "running", "signalled", "ended"} :
            events' = Append(events, event) /\ agent' = [agent EXCEPT !.phase = phase]
  BY PhasesDistinct DEF AgentStarts, AgentRuns, AgentSignalsLoopSuccess, AgentEnds, Emit
<1>2. cmds' = cmds /\ results' = results /\ UNCHANGED runnerVars
  BY DEF AgentStarts, AgentRuns, AgentSignalsLoopSuccess, AgentEnds
<1>3. TypeOK'
  <2>1. agent' \in [phase : {"idle", "accepted", "started", "running", "signalled", "ended"},
                    cancelled : BOOLEAN]
    BY <1>1, PhasesDistinct
  <2>2. events' \in Seq({"AgentStart", "BeforeAgentStart", "signal_loop_success", "AgentEnd"})
    BY <1>1 DEF IInv, TypeOK
  <2> QED BY <1>2, <2>1, <2>2 DEF IInv, TypeOK, runnerVars
<1> QED BY <1>2, <1>3, AgentKeeps

LEMMA AgentDone ==
    ASSUME IInv, NEW ok \in BOOLEAN, PromptDone(ok), UNCHANGED <<runnerVars, cmds, events>>
    PROVE  IInv'
<1>1. results' = Append(results, ok) /\ agent' = [agent EXCEPT !.phase = "idle"]
      /\ results \in Seq(BOOLEAN)
  BY PhasesDistinct DEF PromptDone
<1>2. agent' \in [phase : {"idle", "accepted", "started", "running", "signalled", "ended"},
                  cancelled : BOOLEAN]
  BY <1>1, PhasesDistinct
<1>3. results' \in Seq(BOOLEAN)
  BY <1>1
<1>4. TypeOK'
  BY <1>2, <1>3 DEF IInv, TypeOK, runnerVars
<1>5. UNCHANGED runnerVars
  OBVIOUS
<1> QED BY <1>4, <1>5, AgentKeeps

LEMMA AgentStep ==
    ASSUME IInv, AgentNext
    PROVE  IInv'
<1>1. CASE AgentTakesPrompt \/ AgentTakesControl \/ AgentInterrupted
  BY <1>1, AgentTakes
<1>2. CASE AgentStarts \/ AgentRuns \/ AgentSignalsLoopSuccess \/ AgentEnds
  BY <1>2, AgentEmits
<1>3. CASE AgentDenied \/ AgentFailsUnended \/ AgentReports
  <2>1. PICK ok \in BOOLEAN : PromptDone(ok) /\ UNCHANGED <<runnerVars, cmds, events>>
    BY <1>3 DEF AgentDenied, AgentFailsUnended, AgentReports
  <2> QED BY <2>1, AgentDone
<1> QED BY <1>1, <1>2, <1>3 DEF AgentNext

------------------------------------------------------------------------------
(* What the user types. *)

AppState ==
    [streaming : BOOLEAN, queued_prompt : InputKinds \cup {None},
     loop_status : LoopDisplay \cup {None}]

\* What an input does to the TUI, n counting the prompts of its loop.
Handles(a, e, kind) ==
    /\ e.app \in AppState /\ e.cmds \in Seq(Cmds) /\ e.loop_run \in Nat
    /\ kind # "loop_start" /\ a.loop_status = None => e.app.loop_status = None

LEMMA DisplayIs ==
    ASSUME NEW a \in AppState, NEW x \in LoopDisplay \cup {None}
    PROVE  LET b == [a EXCEPT !.loop_status = x]
           IN  b \in AppState /\ b.loop_status = x /\ b.queued_prompt = a.queued_prompt
BY DEF AppState

LEMMA EffectIs ==
    ASSUME NEW a, NEW c, NEW n
    PROVE  Effect(a, c, n).app = a /\ Effect(a, c, n).cmds = c /\ Effect(a, c, n).loop_run = n
BY DEF Effect

LEMMA InputIs ==
    ASSUME NEW a \in AppState, NEW kind \in InputKinds \ {"cancel"}, NEW n \in Nat
    PROVE  LET e == handle_input(a, kind, n)
           IN  Handles(a, e, kind) /\ e.app.queued_prompt = a.queued_prompt
<1> DEFINE e == handle_input(a, kind, n)
<1>1. CASE kind = "prompt"
  <2>1. e = Effect(a, Sends("user"), n)
    BY <1>1 DEF handle_input
  <2> QED BY <1>1, <2>1, EffectIs, SendsIs DEF Handles, Senders
<1>2. CASE kind = "set_model"
  <2>1. e = Effect(a, <<<<"SetModel">>>>, n)
    BY <1>2 DEF handle_input
  <2>2. e.app = a /\ e.cmds = <<<<"SetModel">>>> /\ e.loop_run = n
    BY <2>1, EffectIs
  <2>3. e.cmds \in Seq(Cmds)
    BY <2>2, ControlIs
  <2> HIDE DEF e
  <2> QED BY <1>2, <2>2, <2>3 DEF Handles, e
<1>3. CASE kind = "loop_start"
  <2> DEFINE x == [active |-> TRUE, max_iterations |-> LoopLimit]
             b == [a EXCEPT !.loop_status = x]
  <2>1. CASE a.loop_status # None
    <3>1. e = Effect(a, <<>>, n)
      BY <1>3, <2>1 DEF handle_input
    <3>2. e.app = a /\ e.cmds = <<>> /\ e.loop_run = n
      BY <3>1, EffectIs
    <3>3. e.cmds \in Seq(Cmds)
      BY <3>2, ControlIs
    <3> HIDE DEF e
    <3> QED BY <1>3, <3>2, <3>3 DEF Handles, e
  <2>2. CASE a.loop_status = None
    <3>1. e = Effect(b, Sends("loop"), 1)
      BY <1>3, <2>2 DEF handle_input
    <3>2. x \in LoopDisplay /\ x # None
      <4>1. TRUE \in BOOLEAN /\ LoopLimit \in Nat
        BY EmbeddedAssumption
      <4>2. x \in LoopDisplay
        BY <4>1, Zenon DEF LoopDisplay
      <4> QED BY <4>2, EmbeddedAssumption
    <3> HIDE DEF x
    <3>3. b \in AppState /\ b.loop_status # None /\ b.queued_prompt = a.queued_prompt
      BY <3>2, DisplayIs
    <3> HIDE DEF b
    <3> QED BY <1>3, <2>2, <3>1, <3>3, EffectIs, SendsIs DEF Handles, Senders
  <2> QED BY <2>1, <2>2
<1>4. CASE kind = "loop_stop"
  <2> DEFINE b == [a EXCEPT !.loop_status = None]
  <2>1. e = Effect(b, <<>>, n)
    BY <1>4 DEF handle_input
  <2>2. b \in AppState /\ b.loop_status = None /\ b.queued_prompt = a.queued_prompt
    BY DisplayIs
  <2> HIDE DEF b
  <2>3. e.app = b /\ e.cmds = <<>> /\ e.loop_run = n
    BY <2>1, EffectIs
  <2>4. e.cmds \in Seq(Cmds)
    BY <2>3, ControlIs
  <2> HIDE DEF e
  <2> QED BY <1>4, <2>2, <2>3, <2>4 DEF Handles, e
<1>5. CASE kind = "loop_pause"
  <2>1. CASE a.loop_status = None
    <3>1. e = Effect(a, <<>>, n)
      BY <1>5, <2>1 DEF handle_input
    <3>2. e.app = a /\ e.cmds = <<>> /\ e.loop_run = n
      BY <3>1, EffectIs
    <3>3. e.cmds \in Seq(Cmds)
      BY <3>2, ControlIs
    <3> HIDE DEF e
    <3> QED BY <1>5, <3>2, <3>3 DEF Handles, e
  <2>2. CASE a.loop_status # None
    <3> DEFINE x == [a.loop_status EXCEPT !.active = FALSE]
               y == [a.loop_status EXCEPT !.active = TRUE]
               b == [a EXCEPT !.loop_status = x]
               d == [a EXCEPT !.loop_status = y]
    <3>1. \/ e = Effect(b, <<>>, n)
          \/ e = Effect(d, Sends("loop"), n + 1)
      BY <1>5, <2>2 DEF handle_input, AppState
    <3>2. a.loop_status \in LoopDisplay
      BY <2>2 DEF AppState
    <3>3. x \in LoopDisplay /\ y \in LoopDisplay
      BY <3>2 DEF LoopDisplay
    <3> HIDE DEF x, y
    <3>4. /\ b \in AppState /\ b.queued_prompt = a.queued_prompt
          /\ d \in AppState /\ d.queued_prompt = a.queued_prompt
      BY <3>3, DisplayIs
    <3> HIDE DEF b, d, e
    <3>5. Sends("loop") \in Seq(Cmds) /\ <<>> \in Seq(Cmds) /\ n + 1 \in Nat
      BY SendsIs, ControlIs DEF Senders
    <3>6. \/ e.app = b /\ e.cmds = <<>> /\ e.loop_run = n
          \/ e.app = d /\ e.cmds = Sends("loop") /\ e.loop_run = n + 1
      BY <3>1 DEF Effect
    <3>7. e.app \in AppState /\ e.app.queued_prompt = a.queued_prompt
      BY <3>4, <3>6
    <3>8. e.cmds \in Seq(Cmds) /\ e.loop_run \in Nat
      BY <3>5, <3>6
    <3> HIDE DEF e
    <3> QED BY <1>5, <2>2, <3>7, <3>8 DEF Handles, e
  <2> QED BY <2>1, <2>2
<1> QED BY <1>1, <1>2, <1>3, <1>4, <1>5 DEF InputKinds

LEMMA SubmitIs ==
    ASSUME NEW a \in AppState, NEW kind \in InputKinds, NEW n \in Nat
    PROVE  LET e == handle_submit(a, kind, n)
           IN  /\ Handles(a, e, kind)
               /\ \/ e.app.queued_prompt = a.queued_prompt
                  \/ kind # "cancel" /\ e.app.queued_prompt = kind
<1> DEFINE e == handle_submit(a, kind, n)
           b == [a EXCEPT !.queued_prompt = kind]
<1>1. CASE kind = "cancel" /\ a.streaming
  <2>1. e = Effect(a, <<<<"Abort">>>>, n)
    BY <1>1 DEF handle_submit
  <2>2. e.app = a /\ e.cmds = <<<<"Abort">>>> /\ e.loop_run = n
    BY <2>1, EffectIs
  <2>3. e.cmds \in Seq(Cmds)
    BY <2>2, ControlIs
  <2> HIDE DEF e
  <2> QED BY <2>2, <2>3 DEF Handles, e
<1>2. CASE kind = "cancel" /\ ~a.streaming
  <2>1. e = Effect(a, <<>>, n)
    BY <1>2 DEF handle_submit
  <2>2. e.app = a /\ e.cmds = <<>> /\ e.loop_run = n
    BY <2>1, EffectIs
  <2>3. e.cmds \in Seq(Cmds)
    BY <2>2, ControlIs
  <2> HIDE DEF e
  <2> QED BY <2>2, <2>3 DEF Handles, e
<1>3. CASE kind # "cancel" /\ a.streaming
  <2>1. e = Effect(b, <<<<"Abort">>>>, n)
    BY <1>3 DEF handle_submit
  <2>2. b \in AppState /\ b.loop_status = a.loop_status /\ b.queued_prompt = kind
    BY DEF AppState
  <2> HIDE DEF b
  <2>3. e.app = b /\ e.cmds = <<<<"Abort">>>> /\ e.loop_run = n
    BY <2>1, EffectIs
  <2>4. e.cmds \in Seq(Cmds)
    BY <2>3, ControlIs
  <2> HIDE DEF e
  <2> QED BY <1>3, <2>2, <2>3, <2>4 DEF Handles, e
<1>4. CASE kind # "cancel" /\ ~a.streaming
  <2>1. e = handle_input(a, kind, n)
    BY <1>4 DEF handle_submit
  <2> QED BY <1>4, <2>1, InputIs
<1> QED BY <1>1, <1>2, <1>3, <1>4

------------------------------------------------------------------------------
(* Steps of the event loop that take no result. *)

LEMMA StateTyped ==
    ASSUME IInv
    PROVE  /\ app \in AppState /\ cmds \in Seq(Cmds) /\ results \in Seq(BOOLEAN) /\ loop_run \in Nat
           /\ setup \in Setups /\ setup \in Setup /\ setup.auto_test \in BOOLEAN
           /\ setup.inputs \subseteq InputKinds /\ setup.scheduled \in Nat
           /\ Sane(ctl, setup.auto_test)
<1>1. setup \in Setup
  BY EmbeddedAssumption DEF IInv, TypeOK
<1> QED BY <1>1 DEF IInv, TypeOK, AppState, Setup

LEMMA DrainStep ==
    ASSUME IInv, DrainAgentEvent
    PROVE  IInv'
<1> DEFINE x == CASE Head(events) = "AgentStart" -> TRUE
                  [] Head(events) = "AgentEnd" -> FALSE
                  [] OTHER -> app.streaming
<1>1. /\ events # <<>> /\ drained < MaxDrain /\ events' = Tail(events) /\ drained' = drained + 1
      /\ app' = [app EXCEPT !.streaming = x]
      /\ ctl' = process_agent_event(ctl, Head(events), TRUE)
      /\ UNCHANGED <<setup, pc, cmds, results, agent, inputs, fired, loop_run>>
  BY DEF DrainAgentEvent
<1>2. x \in BOOLEAN
  BY StateTyped DEF AppState
<1> HIDE DEF x
<1>3. /\ app' \in AppState /\ app'.loop_status = app.loop_status
      /\ app'.queued_prompt = app.queued_prompt
  BY <1>1, <1>2, StateTyped DEF AppState
<1>4. /\ Sane(ctl', setup.auto_test)
      /\ ctl'.active_loop_id = ctl.active_loop_id
      /\ core'.pending_follow_up = core.pending_follow_up
      /\ \/ core'.pending_prompt = core.pending_prompt
         \/ /\ core.pending_prompt = None
            /\ core'.pending_prompt # None /\ core'.pending_prompt.originating = None
  <2> DEFINE d == process_agent_event(ctl, Head(events), TRUE)
  <2>1. /\ Sane(d, setup.auto_test)
        /\ d.active_loop_id = ctl.active_loop_id
        /\ d.core.pending_follow_up = ctl.core.pending_follow_up
        /\ \/ d.core.pending_prompt = ctl.core.pending_prompt
           \/ /\ ctl.core.pending_prompt = None
              /\ d.core.pending_prompt # None /\ d.core.pending_prompt.originating = None
    BY StateTyped, EventIs
  <2>2. ctl' = d
    BY <1>1
  <2> HIDE DEF d
  <2> QED BY <2>1, <2>2 DEF core
<1>5. TypeOK'
  <2>1. drained' \in 0..MaxDrain
    BY <1>1, EmbeddedAssumption DEF IInv, TypeOK
  <2>2. events' \in Seq({"AgentStart", "BeforeAgentStart", "signal_loop_success", "AgentEnd"})
    BY <1>1 DEF IInv, TypeOK
  <2>3. ctl' \in ControllerState
    BY <1>4 DEF Sane, Half
  <2> QED BY <1>1, <1>3, <2>1, <2>2, <2>3 DEF IInv, TypeOK, AppState
<1>6. QueuedTyped' /\ NoLoopUnasked'
  BY <1>1, <1>3, <1>4 DEF IInv, QueuedTyped, NoLoopUnasked
<1>7. Correlated(core) => Correlated(core')
  BY <1>4 DEF Correlated, Waits
<1> QED BY <1>1, <1>4, <1>5, <1>6, <1>7 DEF IInv

\* A step that leaves the controller alone keeps what is said of it.
LEMMA ControllerKept ==
    ASSUME IInv, TypeOK', ctl' = ctl, setup' = setup,
           QueuedTyped', ~CanLoop(setup) => app'.loop_status = None
    PROVE  IInv'
BY DEF IInv, NoLoopUnasked, core

LEMMA ScheduleStep ==
    ASSUME IInv, DrainScheduleEvents
    PROVE  IInv'
<1>1. /\ pc' = "results" /\ drained' = 0
      /\ UNCHANGED <<setup, ctl, app, events, results, agent, inputs, loop_run>>
      /\ \/ UNCHANGED <<cmds, fired>>
         \/ /\ fired < setup.scheduled /\ fired' = fired + 1
            /\ cmds' = Append(cmds, Prompt("schedule"))
  BY DEF DrainScheduleEvents
<1>2. cmds' \in Seq(Cmds)
  <2>1. Prompt("schedule") \in Cmds
    BY DEF Cmds, Senders
  <2> HIDE DEF Prompt
  <2> QED BY <1>1, <2>1, StateTyped
<1>3. fired' \in 0..setup.scheduled /\ drained' \in 0..MaxDrain
  BY <1>1, StateTyped, EmbeddedAssumption DEF IInv, TypeOK
<1>4. TypeOK'
  BY <1>1, <1>2, <1>3 DEF IInv, TypeOK
<1>5. QueuedTyped' /\ (~CanLoop(setup) => app'.loop_status = None)
  BY <1>1 DEF IInv, QueuedTyped, NoLoopUnasked
<1> QED BY <1>1, <1>4, <1>5, ControllerKept

LEMMA InputStep ==
    ASSUME IInv, HandleTerminalEvent
    PROVE  IInv'
<1>1. PICK kind \in setup.inputs :
            /\ app' = handle_submit(app, kind, loop_run).app
            /\ cmds' = cmds \o handle_submit(app, kind, loop_run).cmds
            /\ loop_run' = handle_submit(app, kind, loop_run).loop_run
  BY DEF HandleTerminalEvent
<1>2. /\ inputs < MaxInputs /\ inputs' = inputs + 1
      /\ UNCHANGED <<setup, ctl, pc, drained, events, results, agent, fired>>
  BY DEF HandleTerminalEvent
<1> DEFINE e == handle_submit(app, kind, loop_run)
<1>3. kind \in InputKinds
  BY StateTyped
<1>4. /\ Handles(app, e, kind)
      /\ e.app.queued_prompt = app.queued_prompt \/ (kind # "cancel" /\ e.app.queued_prompt = kind)
  BY <1>3, StateTyped, SubmitIs
<1> HIDE DEF e
<1>5. app' = e.app /\ cmds' = cmds \o e.cmds /\ loop_run' = e.loop_run
  BY <1>1 DEF e
<1>6. TypeOK'
  <2>1. cmds' \in Seq(Cmds)
    BY <1>4, <1>5, StateTyped, ConcatIs DEF Handles
  <2>2. app' \in AppState /\ loop_run' \in Nat
    BY <1>4, <1>5 DEF Handles
  <2>3. inputs' \in 0..MaxInputs
    BY <1>2, EmbeddedAssumption DEF IInv, TypeOK
  <2> QED BY <1>2, <2>1, <2>2, <2>3 DEF IInv, TypeOK, AppState
<1>7. QueuedTyped'
  BY <1>2, <1>4, <1>5 DEF IInv, QueuedTyped
<1>8. ~CanLoop(setup) => app'.loop_status = None
  BY <1>4, <1>5 DEF IInv, NoLoopUnasked, Handles, CanLoop
<1> QED BY <1>2, <1>6, <1>7, <1>8, ControllerKept

LEMMA PhaseStep ==
    ASSUME IInv, HandleTaskResultsDone \/ HandleTerminalEventsDone
    PROVE  IInv'
<1>1. /\ pc' \in {"events", "input"}
      /\ UNCHANGED <<setup, ctl, app, drained, cmds, events, results, agent, inputs, fired, loop_run>>
  BY DEF HandleTaskResultsDone, HandleTerminalEventsDone
<1>2. TypeOK'
  BY <1>1 DEF IInv, TypeOK
<1>3. QueuedTyped' /\ (~CanLoop(setup) => app'.loop_status = None)
  BY <1>1 DEF IInv, QueuedTyped, NoLoopUnasked
<1> QED BY <1>1, <1>2, <1>3, ControllerKept

------------------------------------------------------------------------------
(* Task results: the stages of HandlePromptDone. *)

FollowUp == pending_dispatched_follow_up_id(ctl)

Status(ok) == IF ok THEN "Succeeded" ELSE "Failed"

Limit == IF app.loop_status = None THEN None ELSE app.loop_status.max_iterations

Completed(ok) ==
    IF FollowUp # None
    THEN complete_dispatched_follow_up(ctl, FollowUp, Status(ok))
    ELSE finish_embedded_prompt(ctl, Status(ok))

Synced(ok) ==
    IF ok /\ FollowUp = None THEN sync_loop_status(Completed(ok), Limit) ELSE Completed(ok)

Shown(ok) == IF has_active_loop(Synced(ok)) THEN app ELSE [app EXCEPT !.loop_status = None]

Queued == app.queued_prompt # None

Post(ok, matched) == check_post_prompt(Synced(ok), Queued, matched)

Replayed(ok) == handle_input([Shown(ok) EXCEPT !.queued_prompt = None], app.queued_prompt, loop_run)

Replays(ok, matched) ==
    /\ Post(ok, matched).action.kind = "ReplayQueuedPrompt"
    /\ ctl' = Post(ok, matched).ctl
    /\ app' = Replayed(ok).app
    /\ cmds' = cmds \o Replayed(ok).cmds
    /\ loop_run' = Replayed(ok).loop_run

Dispatches(ok, matched, loops) ==
    /\ ok
    /\ Post(ok, matched).action.kind = IF loops THEN "ContinueLoop" ELSE "RunAutoTest"
    /\ ctl' = dispatch_controller_follow_up(Post(ok, matched).ctl, Shown(ok),
                                            Post(ok, matched).action.id, loops)
    /\ app' = Shown(ok)
    /\ IF DispatchAllowed(Shown(ok), loops)
       THEN /\ cmds' = cmds \o Sends("follow_up")
            /\ loop_run' = IF loops THEN loop_run + 1 ELSE loop_run
       ELSE UNCHANGED <<cmds, loop_run>>

Rests(ok, matched) ==
    /\ Post(ok, matched).action.kind # "ReplayQueuedPrompt"
    /\ ok => Post(ok, matched).action.kind \notin {"ContinueLoop", "RunAutoTest"}
    /\ ctl' = Post(ok, matched).ctl
    /\ app' = Shown(ok)
    /\ UNCHANGED <<cmds, loop_run>>

LEMMA PromptDoneSplits ==
    ASSUME NEW ok \in BOOLEAN, NEW matched, HandlePromptDone(ok, matched)
    PROVE  \/ Replays(ok, matched)
           \/ \E loops \in BOOLEAN : Dispatches(ok, matched, loops)
           \/ Rests(ok, matched)
<1> DEFINE k == Post(ok, matched).action.kind
           loops == k = "ContinueLoop"
<1>1. CASE k = "ReplayQueuedPrompt"
  BY <1>1 DEF HandlePromptDone, Replays, Post, Synced, Completed, Shown, Replayed, Queued,
              FollowUp, Limit, Status
<1>2. CASE k # "ReplayQueuedPrompt" /\ ok /\ k \in {"ContinueLoop", "RunAutoTest"}
  <2>1. loops \in BOOLEAN
    OBVIOUS
  <2>2. Dispatches(ok, matched, loops)
    BY <1>2 DEF HandlePromptDone, Dispatches, Post, Synced, Completed, Shown, Queued,
                FollowUp, Limit, Status
  <2> HIDE DEF loops
  <2> QED BY <2>1, <2>2
<1>3. CASE k # "ReplayQueuedPrompt" /\ ~(ok /\ k \in {"ContinueLoop", "RunAutoTest"})
  BY <1>3 DEF HandlePromptDone, Rests, Post, Synced, Completed, Shown, Queued,
              FollowUp, Limit, Status
<1> QED BY <1>1, <1>2, <1>3

\* A result completes the prompt that is pending, and with it its follow-up; a success leaves the
\* guard of the auto-tests as it is.
LEMMA CompletedIs ==
    ASSUME IInv, NEW ok \in BOOLEAN
    PROVE  /\ Sane(Completed(ok), setup.auto_test)
           /\ Completed(ok).active_loop_id \in {ctl.active_loop_id, None}
           /\ Completed(ok).core.pending_follow_up \in {core.pending_follow_up, None}
           /\ ok => Completed(ok).core.auto_test_in_progress = core.auto_test_in_progress
           /\ Correlated(core) => Completed(ok).core.pending_prompt = None
<1>1. /\ Sane(ctl, setup.auto_test) /\ setup.auto_test \in BOOLEAN
      /\ core \in CoreState
  BY StateTyped DEF Sane, Half, CoreSane, core
<1>2. FollowUp = IF core.pending_prompt = None THEN None ELSE core.pending_prompt.originating
  BY DEF FollowUp, pending_dispatched_follow_up_id, core
<1>3. Status(ok) \in {"Succeeded", "Failed"} /\ (ok <=> Status(ok) = "Succeeded")
  BY DEF Status
<1>4. CASE FollowUp # None
  <2>1. FollowUp \in EffectIds
    BY <1>1, <1>2, <1>4 DEF CoreState, PendingPromptState
  <2>2. Correlated(core) => Waits(core) /\ core.pending_follow_up.effect_id = FollowUp
    BY <1>2, <1>4 DEF Correlated, Waits
  <2>3. Completed(ok) = complete_dispatched_follow_up(ctl, FollowUp, Status(ok))
    BY <1>4 DEF Completed
  <2> DEFINE d == Completed(ok)
  <2> HIDE DEF d
  <2>4. /\ Sane(d, setup.auto_test)
        /\ d.active_loop_id \in {ctl.active_loop_id, None}
        /\ d.core.pending_follow_up \in {core.pending_follow_up, None}
        /\ ok => d.core.auto_test_in_progress = core.auto_test_in_progress
        /\ Waits(core) /\ core.pending_follow_up.effect_id = FollowUp
               => d.core.pending_prompt = None
    BY <1>1, <1>3, <2>1, <2>3, CompleteFollowUpIs DEF d, core
  <2> QED BY <2>2, <2>4 DEF d
<1>5. CASE FollowUp = None
  <2>1. Completed(ok) = finish_embedded_prompt(ctl, Status(ok))
    BY <1>5 DEF Completed
  <2> QED BY <1>1, <1>3, <2>1, FinishPromptIs DEF core
<1> QED BY <1>4, <1>5

\* The TUI's loop is synced only after a success, and shown as long as one runs.
LEMMA SyncedIs ==
    ASSUME IInv, NEW ok \in BOOLEAN
    PROVE  /\ Sane(Synced(ok), setup.auto_test)
           /\ Synced(ok).core.pending_follow_up \in {core.pending_follow_up, None}
           /\ ok => Synced(ok).core.auto_test_in_progress = core.auto_test_in_progress
           /\ Correlated(core) => Synced(ok).core.pending_prompt = None
           /\ ~CanLoop(setup) => ~has_active_loop(Synced(ok))
           /\ Shown(ok) \in AppState /\ Shown(ok).queued_prompt = app.queued_prompt
           /\ Shown(ok).loop_status = IF has_active_loop(Synced(ok)) THEN app.loop_status ELSE None
<1> DEFINE d == Completed(ok)
           e == Synced(ok)
<1>1. /\ Sane(d, setup.auto_test)
      /\ d.active_loop_id \in {ctl.active_loop_id, None}
      /\ d.core.pending_follow_up \in {core.pending_follow_up, None}
      /\ ok => d.core.auto_test_in_progress = core.auto_test_in_progress
      /\ Correlated(core) => d.core.pending_prompt = None
  BY CompletedIs
<1>2. app \in AppState /\ setup.auto_test \in BOOLEAN
  BY StateTyped
<1>3. Limit \in Nat \cup {None} /\ (Limit = None <=> app.loop_status = None)
  BY <1>2, NoneAssumption DEF Limit, AppState, LoopDisplay, EffectIds
<1>4. \/ ok /\ e = sync_loop_status(d, Limit)
      \/ e = d
  BY DEF Synced
<1> HIDE DEF d
<1>5. /\ Sane(e, setup.auto_test)
      /\ e.core.pending_prompt = d.core.pending_prompt
      /\ e.core.pending_follow_up \in {d.core.pending_follow_up, None}
      /\ e.core.auto_test_in_progress = d.core.auto_test_in_progress
      /\ \/ Limit = None => e.active_loop_id = None
         \/ e.active_loop_id = d.active_loop_id
  BY <1>1, <1>2, <1>3, <1>4, SyncIs
<1> HIDE DEF e
<1>6. ~CanLoop(setup) => ~has_active_loop(e)
  BY <1>1, <1>3, <1>5 DEF IInv, NoLoopUnasked, has_active_loop
<1>7. /\ Shown(ok) \in AppState /\ Shown(ok).queued_prompt = app.queued_prompt
      /\ Shown(ok).loop_status = IF has_active_loop(e) THEN app.loop_status ELSE None
  BY <1>2, DisplayIs DEF Shown, e
<1> QED BY <1>1, <1>5, <1>6, <1>7 DEF e

LEMMA PlannedIs ==
    ASSUME IInv, NEW ok \in BOOLEAN, NEW matched
    PROVE  LET c == Synced(ok)
               p == Post(ok, matched)
           IN  /\ Sane(p.ctl, setup.auto_test)
               /\ p.ctl.core.pending_prompt = c.core.pending_prompt
               /\ has_active_loop(p.ctl) => has_active_loop(c)
               /\ p.action.kind = "ReplayQueuedPrompt" => app.queued_prompt # None
               /\ p.action.kind = "ContinueLoop" =>
                     /\ p.action.id \in EffectIds /\ has_active_loop(c)
                     /\ p.ctl.core.pending_follow_up = NewFollowUp(p.action.id, "LoopContinuation")
               /\ p.action.kind = "RunAutoTest" =>
                     /\ p.action.id \in EffectIds /\ setup.auto_test
                     /\ ~c.core.auto_test_in_progress
                     /\ p.ctl.core.pending_follow_up \in {None, NewFollowUp(p.action.id, "AutoTest")}
                     /\ ~has_active_loop(c) => p.ctl.core.pending_follow_up # None
               /\ p.action.kind \notin {"ContinueLoop", "RunAutoTest"} =>
                     p.ctl.core.pending_follow_up \in {None, c.core.pending_follow_up}
<1> DEFINE c == Synced(ok)
           p == Post(ok, matched)
<1>1. Sane(c, setup.auto_test) /\ setup.auto_test \in BOOLEAN /\ Queued \in BOOLEAN
  BY SyncedIs, StateTyped DEF Queued
<1>2. p = check_post_prompt(c, Queued, matched)
  BY DEF Post
<1> HIDE DEF c, p
<1>3. /\ Sane(p.ctl, setup.auto_test)
      /\ p.ctl.core.pending_prompt = c.core.pending_prompt
      /\ \/ /\ c.active_loop_id # None /\ p.ctl.active_loop_id = None
            /\ p.ctl.core.pending_follow_up = None
            /\ \E t : Plans(p.action, c.core, t, None, Queued)
         \/ /\ p.ctl.active_loop_id = c.active_loop_id
            /\ Plans(p.action, c.core, p.ctl.core, c.active_loop_id, Queued)
  BY <1>1, <1>2, PostIs
<1>4. c.core.auto_test_enabled => setup.auto_test
  BY <1>1 DEF Sane, Half, CoreSane
<1>5. CASE /\ c.active_loop_id # None /\ p.ctl.active_loop_id = None
           /\ p.ctl.core.pending_follow_up = None
           /\ \E t : Plans(p.action, c.core, t, None, Queued)
  <2>1. PICK t : Plans(p.action, c.core, t, None, Queued)
    BY <1>5
  <2> QED BY <1>3, <1>4, <1>5, <2>1 DEF Plans, has_active_loop, Queued, c, p
<1>6. CASE /\ p.ctl.active_loop_id = c.active_loop_id
           /\ Plans(p.action, c.core, p.ctl.core, c.active_loop_id, Queued)
  <2>1. p.action.kind = "RunAutoTest" => NewFollowUp(p.action.id, "AutoTest") # None
    BY <1>6, NewFollowUpTyped DEF Plans, Sources
  <2> QED BY <1>3, <1>4, <1>6, <2>1 DEF Plans, has_active_loop, Queued, c, p
<1> QED BY <1>3, <1>5, <1>6

\* What a result makes of the controller.
LEMMA ResultController ==
    ASSUME IInv, NEW ok \in BOOLEAN, NEW matched, HandlePromptDone(ok, matched)
    PROVE  /\ Sane(ctl', setup.auto_test)
           /\ has_active_loop(ctl') => has_active_loop(Synced(ok))
           /\ Separate(setup) => Correlated(ctl'.core)
<1> DEFINE c == Synced(ok)
           p == Post(ok, matched)
<1>1. /\ Sane(c, setup.auto_test)
      /\ Correlated(core) => c.core.pending_prompt = None
      /\ ~CanLoop(setup) => ~has_active_loop(c)
  BY SyncedIs
<1>2. /\ Sane(p.ctl, setup.auto_test)
      /\ p.ctl.core.pending_prompt = c.core.pending_prompt
      /\ has_active_loop(p.ctl) => has_active_loop(c)
      /\ p.action.kind = "ContinueLoop" =>
            /\ p.action.id \in EffectIds
            /\ p.ctl.core.pending_follow_up = NewFollowUp(p.action.id, "LoopContinuation")
      /\ p.action.kind = "RunAutoTest" =>
            /\ p.action.id \in EffectIds /\ setup.auto_test
            /\ p.ctl.core.pending_follow_up \in {None, NewFollowUp(p.action.id, "AutoTest")}
            /\ ~has_active_loop(c) => p.ctl.core.pending_follow_up # None
  BY PlannedIs
<1>3. /\ setup.auto_test \in BOOLEAN
      /\ Separate(setup) => Correlated(core) /\ (setup.auto_test => ~CanLoop(setup))
  BY StateTyped DEF IInv, Separate
<1> HIDE DEF c, p
<1>4. CASE ctl' = p.ctl
  BY <1>1, <1>2, <1>3, <1>4 DEF Correlated, c
<1>5. ASSUME NEW loops \in BOOLEAN, Dispatches(ok, matched, loops)
      PROVE  /\ Sane(ctl', setup.auto_test)
             /\ has_active_loop(ctl') => has_active_loop(c)
             /\ Separate(setup) => Correlated(ctl'.core)
  <2> DEFINE d == dispatch_controller_follow_up(p.ctl, Shown(ok), p.action.id, loops)
             planned == \E src \in Sources : p.ctl.core.pending_follow_up = NewFollowUp(p.action.id, src)
  <2>1. ctl' = d /\ p.action.kind = IF loops THEN "ContinueLoop" ELSE "RunAutoTest"
    BY <1>5 DEF Dispatches, p
  <2>2. p.action.id \in EffectIds
    BY <1>2, <2>1
  <2>3. Separate(setup) => p.ctl.core.pending_prompt = None /\ planned
    BY <1>1, <1>2, <1>3, <2>1 DEF Sources
  <2> HIDE DEF planned, d
  <2>4. /\ Sane(d, setup.auto_test)
        /\ d.active_loop_id \in {p.ctl.active_loop_id, None}
        /\ p.ctl.core.pending_prompt = None /\ planned => Correlated(d.core)
    BY <1>2, <1>3, <2>2, DispatchIs DEF d, planned
  <2> QED BY <1>2, <2>1, <2>3, <2>4 DEF has_active_loop
<1> QED BY <1>4, <1>5, PromptDoneSplits DEF Replays, Rests, c, p

\* What it makes of the TUI and the commands.
LEMMA ResultApp ==
    ASSUME IInv, NEW ok \in BOOLEAN, NEW matched, HandlePromptDone(ok, matched)
    PROVE  /\ app' \in AppState /\ cmds' \in Seq(Cmds) /\ loop_run' \in Nat
           /\ app'.queued_prompt \in {app.queued_prompt, None}
           /\ ~CanLoop(setup) => app'.loop_status = None
<1> DEFINE a == Shown(ok)
           b == [a EXCEPT !.queued_prompt = None]
<1>1. /\ a \in AppState /\ a.queued_prompt = app.queued_prompt
      /\ ~CanLoop(setup) => a.loop_status = None
  BY SyncedIs
<1>2. cmds \in Seq(Cmds) /\ loop_run \in Nat
  BY StateTyped
<1> HIDE DEF a
<1>3. CASE Replays(ok, matched)
  <2>1. app.queued_prompt # None
    BY <1>3, PlannedIs DEF Replays
  <2>2. /\ app.queued_prompt \in setup.inputs \ {"cancel"}
        /\ app.queued_prompt \in InputKinds \ {"cancel"}
    BY <2>1, StateTyped DEF IInv, QueuedTyped
  <2>3. b \in AppState /\ b.queued_prompt = None /\ b.loop_status = a.loop_status
    BY <1>1 DEF AppState
  <2> HIDE DEF b
  <2>4. Handles(b, Replayed(ok), app.queued_prompt) /\ Replayed(ok).app.queued_prompt = None
    BY <1>2, <2>2, <2>3, InputIs DEF Replayed, b, a
  <2>5. app' = Replayed(ok).app /\ cmds' = cmds \o Replayed(ok).cmds /\ loop_run' = Replayed(ok).loop_run
    BY <1>3 DEF Replays
  <2>6. cmds' \in Seq(Cmds)
    BY <1>2, <2>4, <2>5, ConcatIs DEF Handles
  <2>7. ~CanLoop(setup) => app.queued_prompt # "loop_start"
    BY <2>2 DEF CanLoop
  <2> QED BY <1>1, <2>3, <2>4, <2>5, <2>6, <2>7 DEF Handles
<1>4. CASE Rests(ok, matched)
  BY <1>1, <1>2, <1>4 DEF Rests, a
<1>5. ASSUME NEW loops \in BOOLEAN, Dispatches(ok, matched, loops)
      PROVE  app' = a /\ cmds' \in Seq(Cmds) /\ loop_run' \in Nat
  <2>1. "follow_up" \in Senders
    BY DEF Senders
  <2>2. cmds \o Sends("follow_up") \in Seq(Cmds)
    BY <1>2, <2>1, SendsIs, ConcatIs
  <2>3. app' = a
    BY <1>5 DEF Dispatches, a
  <2>4. cmds' \in {cmds, cmds \o Sends("follow_up")} /\ loop_run' \in {loop_run, loop_run + 1}
    BY <1>5 DEF Dispatches
  <2>5. cmds' \in Seq(Cmds)
    BY <1>2, <2>2, <2>4
  <2>6. loop_run' \in Nat
    BY <1>2, <2>4
  <2> QED BY <2>3, <2>5, <2>6
<1> QED BY <1>1, <1>3, <1>4, <1>5, PromptDoneSplits

LEMMA ResultStep ==
    ASSUME IInv, HandleTaskResult
    PROVE  IInv'
<1> DEFINE ok == Head(results)
<1>1. /\ results # <<>> /\ results' = Tail(results)
      /\ UNCHANGED <<setup, pc, drained, events, agent, inputs, fired>>
  BY DEF HandleTaskResult
<1>2. PICK matched \in BOOLEAN : HandlePromptDone(ok, matched)
  BY DEF HandleTaskResult
<1>3. ok \in BOOLEAN /\ results' \in Seq(BOOLEAN)
  BY <1>1, StateTyped
<1> HIDE DEF ok
<1>4. /\ Sane(ctl', setup.auto_test)
      /\ has_active_loop(ctl') => has_active_loop(Synced(ok))
      /\ Separate(setup) => Correlated(core')
  BY <1>2, <1>3, ResultController DEF core
<1>5. /\ app' \in AppState /\ cmds' \in Seq(Cmds) /\ loop_run' \in Nat
      /\ app'.queued_prompt \in {app.queued_prompt, None}
      /\ ~CanLoop(setup) => app'.loop_status = None
  BY <1>2, <1>3, ResultApp
<1>6. TypeOK'
  <2>1. ctl' \in ControllerState
    BY <1>4 DEF Sane, Half
  <2> QED BY <1>1, <1>3, <1>5, <2>1 DEF IInv, TypeOK, AppState
<1>7. QueuedTyped' /\ NoLoopUnasked'
  BY <1>1, <1>3, <1>4, <1>5, SyncedIs DEF IInv, QueuedTyped, NoLoopUnasked, has_active_loop
<1> QED BY <1>1, <1>4, <1>6, <1>7 DEF IInv

------------------------------------------------------------------------------
(* The theorems. *)

LEMMA InitInvariant ==
    ASSUME Init
    PROVE  IInv
<1> DEFINE command == IF setup.auto_test THEN CHOOSE c \in Commands : TRUE ELSE None
           s == InitialCore("Off", setup.auto_test, command)
           c == NewController("Off", setup.auto_test, command)
<1>1. /\ setup \in Setups /\ setup \in Setup /\ setup.auto_test \in BOOLEAN /\ setup.scheduled \in Nat
      /\ ctl = c
      /\ app = [streaming |-> FALSE, queued_prompt |-> None, loop_status |-> None]
      /\ pc = "events" /\ drained = 0
      /\ cmds = <<>> /\ events = <<>> /\ results = <<>>
      /\ agent = [phase |-> "idle", cancelled |-> FALSE]
      /\ inputs = 0 /\ fired = 0 /\ loop_run = 0
  BY EmbeddedAssumption DEF Init, Setup
<1>2. command \in Commands \cup {None}
  BY EmbeddedAssumption
<1> HIDE DEF command
<1>3. s \in CoreState /\ FALSE \in BOOLEAN
  BY <1>1, <1>2, CoreAssumption DEF InitialCore, CoreState, ThinkingLevels, EffectIds
<1>4. /\ s.busy = FALSE /\ s.pending_prompt = None /\ s.pending_follow_up = None
      /\ s.active_loop = None /\ s.auto_test_enabled = setup.auto_test
      /\ s.auto_test_in_progress = FALSE
  BY DEF InitialCore
<1>5. [id \in LoopIds |-> None] \in Loops
  BY DEF Loops
<1>6. /\ c = [core |-> s, busy |-> FALSE, disabled_tools |-> NoTools,
              auto_test_enabled |-> setup.auto_test, auto_test_command |-> command,
              auto_test_in_progress |-> FALSE, active_loop_id |-> None,
              loops |-> [id \in LoopIds |-> None]]
  BY DEF NewController
<1> HIDE DEF s, c
<1>7. c \in ControllerState
  BY <1>1, <1>2, <1>3, <1>5, <1>6, CoreAssumption DEF ControllerState
<1>8. /\ c.core = s /\ c.active_loop_id = None
      /\ c.auto_test_enabled = setup.auto_test /\ c.auto_test_in_progress = FALSE
  BY <1>6
<1>9. CoreSane(s, setup.auto_test)
  BY <1>3, <1>4 DEF CoreSane, AutoTestGuarded
<1>10. Sane(ctl, setup.auto_test)
  BY <1>1, <1>4, <1>7, <1>8, <1>9 DEF Sane, Half, LoopKnown
<1>11. app \in AppState /\ app.queued_prompt = None /\ app.loop_status = None
  BY <1>1 DEF AppState
<1>12. agent \in [phase : {"idle", "accepted", "started", "running", "signalled", "ended"},
                  cancelled : BOOLEAN]
  BY <1>1
<1>13. TypeOK
  BY <1>1, <1>7, <1>11, <1>12, EmbeddedAssumption DEF TypeOK, AppState
<1>14. QueuedTyped /\ NoLoopUnasked
  BY <1>1, <1>8, <1>11 DEF QueuedTyped, NoLoopUnasked
<1>15. Correlated(core)
  BY <1>1, <1>4, <1>8 DEF Correlated, core
<1> QED BY <1>10, <1>13, <1>14, <1>15 DEF IInv

LEMMA NextInvariant ==
    ASSUME IInv, [Next]_vars
    PROVE  IInv'
<1>1. CASE AgentNext
  BY <1>1, AgentStep
<1>2. CASE RunnerNext
  BY <1>2, DrainStep, ScheduleStep, InputStep, PhaseStep, ResultStep DEF RunnerNext
<1>3. CASE UNCHANGED vars
  <2>1. TypeOK'
    BY <1>3 DEF IInv, TypeOK, vars
  <2>2. QueuedTyped' /\ setup' = setup /\ ctl' = ctl
        /\ (~CanLoop(setup) => app'.loop_status = None)
    BY <1>3 DEF IInv, QueuedTyped, NoLoopUnasked, vars
  <2> QED BY <2>1, <2>2, ControllerKept
<1> QED BY <1>1, <1>2, <1>3 DEF Next

\* The inductive invariant, for every setup.
THEOREM Invariant == Spec => []IInv
<1>1. Init => IInv
  BY InitInvariant
<1>2. IInv /\ [Next]_vars => IInv'
  BY NextInvariant
<1> QED BY <1>1, <1>2, PTL DEF Spec

\* TypeOK, for every setup: the drain is bounded and the channels carry what their types allow,
\* also where loops, auto-tests and failing turns meet.
THEOREM TypeCorrect == Spec => []TypeOK
<1>1. IInv => TypeOK
  BY DEF IInv
<1> QED BY <1>1, Invariant, PTL

\* A follow-up whose prompt is pending stays correlated as long as loops and auto-tests are not
\* both used, whatever fails and whatever the user types: no completion of handle_task_results
\* meets a prompt whose follow-up is gone.
THEOREM CorrelatedCorrect ==
    ASSUME \A s \in Setups : Separate(s)
    PROVE  Spec => []DispatchedFollowUpStaysCorrelated
<1>1. IInv => DispatchedFollowUpStaysCorrelated
  <2> SUFFICES ASSUME IInv, pending_dispatched_follow_up_id(ctl) # None
               PROVE  /\ core.pending_follow_up # None
                      /\ core.pending_follow_up.effect_id = pending_dispatched_follow_up_id(ctl)
    BY DEF DispatchedFollowUpStaysCorrelated
  <2>1. Separate(setup)
    BY StateTyped
  <2>2. Correlated(core)
    BY <2>1 DEF IInv
  <2> QED BY <2>2 DEF Correlated, Waits, pending_dispatched_follow_up_id, core
<1> QED BY <1>1, Invariant, PTL

\* What a result makes of the pending follow-up: it stays or goes, a failure leaves one that waits
\* for a dispatch, a success has one that runs.  That one is an auto-test only if no auto-test was
\* in progress.
LEMMA ResultFollowUp ==
    ASSUME IInv, NEW ok \in BOOLEAN, NEW matched, HandlePromptDone(ok, matched)
    PROVE  LET f == ctl'.core.pending_follow_up
           IN  \/ f \in {core.pending_follow_up, None}
               \/ ~ok /\ f # None /\ f.stage = "AwaitingDispatchAcknowledgement"
               \/ /\ ok /\ f # None /\ f.stage = "AwaitingPromptCompletion"
                  /\ f.source = "AutoTest" => ~core.auto_test_in_progress
<1> DEFINE c == Synced(ok)
           p == Post(ok, matched)
           id == p.action.id
           f == ctl'.core.pending_follow_up
<1>1. /\ c.core.pending_follow_up \in {core.pending_follow_up, None}
      /\ ok => c.core.auto_test_in_progress = core.auto_test_in_progress
  BY SyncedIs
<1>2. /\ Sane(p.ctl, setup.auto_test)
      /\ p.action.kind = "ContinueLoop" =>
            /\ id \in EffectIds
            /\ p.ctl.core.pending_follow_up = NewFollowUp(id, "LoopContinuation")
      /\ p.action.kind = "RunAutoTest" =>
            /\ id \in EffectIds /\ ~c.core.auto_test_in_progress
            /\ p.ctl.core.pending_follow_up \in {None, NewFollowUp(id, "AutoTest")}
      /\ p.action.kind \notin {"ContinueLoop", "RunAutoTest"} =>
            p.ctl.core.pending_follow_up \in {None, c.core.pending_follow_up}
  BY PlannedIs
<1>3. \A source \in Sources : id \in EffectIds =>
            /\ NewFollowUp(id, source) # None
            /\ NewFollowUp(id, source).source = source
            /\ NewFollowUp(id, source).stage = "AwaitingDispatchAcknowledgement"
  BY NewFollowUpTyped
<1>4. setup.auto_test \in BOOLEAN
  BY StateTyped
<1> HIDE DEF c, p
<1>5. CASE ctl' = p.ctl /\ p.action.kind \notin {"ContinueLoop", "RunAutoTest"}
  BY <1>1, <1>2, <1>5
<1>6. CASE ctl' = p.ctl /\ ~ok /\ p.action.kind \in {"ContinueLoop", "RunAutoTest"}
  BY <1>2, <1>3, <1>6 DEF Sources
<1>7. ASSUME NEW loops \in BOOLEAN, Dispatches(ok, matched, loops), f # None
      PROVE  /\ ok /\ f.stage = "AwaitingPromptCompletion"
             /\ f.source = "AutoTest" => ~core.auto_test_in_progress
  <2> DEFINE d == dispatch_controller_follow_up(p.ctl, Shown(ok), id, loops)
             g == p.ctl.core.pending_follow_up
  <2>1. ok /\ ctl' = d /\ p.action.kind = IF loops THEN "ContinueLoop" ELSE "RunAutoTest"
    BY <1>7 DEF Dispatches, p
  <2>2. id \in EffectIds
    BY <1>2, <2>1
  <2>3. /\ SameFollowUp(p.ctl.core, d.core)
        /\ (\E src \in Sources : g = NewFollowUp(id, src)) /\ d.core.pending_follow_up # None
               => d.core.pending_follow_up.stage = "AwaitingPromptCompletion"
    BY <1>2, <1>4, <2>2, DispatchIs
  <2> HIDE DEF d
  <2>4. g # None /\ f.source = g.source
    BY <1>7, <2>1, <2>3 DEF SameFollowUp
  <2>5. g = NewFollowUp(id, IF loops THEN "LoopContinuation" ELSE "AutoTest")
    BY <1>2, <2>1, <2>4
  <2>6. f.stage = "AwaitingPromptCompletion"
    BY <1>7, <2>1, <2>3, <2>5 DEF Sources
  <2>7. f.source = "AutoTest" => ~loops
    BY <1>3, <2>2, <2>4, <2>5 DEF Sources
  <2> QED BY <1>1, <1>2, <2>1, <2>6, <2>7
<1>8. \/ ctl' = p.ctl /\ p.action.kind \notin {"ContinueLoop", "RunAutoTest"}
      \/ ctl' = p.ctl /\ ~ok /\ p.action.kind \in {"ContinueLoop", "RunAutoTest"}
      \/ \E loops \in BOOLEAN : Dispatches(ok, matched, loops)
  BY PromptDoneSplits DEF Replays, Rests, p
<1> QED BY <1>5, <1>6, <1>7, <1>8

\* Nothing but a result touches the pending follow-up.
LEMMA FollowUpKept ==
    ASSUME IInv, Next, ~HandleTaskResult
    PROVE  core'.pending_follow_up = core.pending_follow_up
<1>1. CASE DrainAgentEvent
  <2>1. ctl' = process_agent_event(ctl, Head(events), TRUE)
    BY <1>1 DEF DrainAgentEvent
  <2> QED BY <2>1, StateTyped, EventIs DEF core
<1>2. CASE ~DrainAgentEvent
  <2>1. ctl' = ctl
    BY <1>2 DEF Next, AgentNext, RunnerNext, AgentTakesPrompt, AgentTakesControl,
                AgentInterrupted, AgentDenied, AgentStarts, AgentFailsUnended, AgentRuns,
                AgentSignalsLoopSuccess, AgentEnds, AgentReports, runnerVars,
                DrainScheduleEvents, HandleTaskResultsDone, HandleTerminalEvent,
                HandleTerminalEventsDone
  <2> QED BY <2>1 DEF core
<1> QED BY <1>1, <1>2

\* The step of a result, for the theorems below.
LEMMA FollowUpSteps ==
    ASSUME IInv, Next
    PROVE  LET f == core'.pending_follow_up
           IN  \/ f \in {core.pending_follow_up, None}
               \/ /\ results # <<>> /\ ~Head(results) /\ results' = Tail(results)
                  /\ f # None /\ f.stage = "AwaitingDispatchAcknowledgement"
               \/ /\ f # None /\ f.stage = "AwaitingPromptCompletion"
                  /\ f.source = "AutoTest" => ~core.auto_test_in_progress
<1>1. CASE HandleTaskResult
  <2> DEFINE ok == Head(results)
  <2>1. results # <<>> /\ results' = Tail(results)
    BY <1>1 DEF HandleTaskResult
  <2>2. PICK matched \in BOOLEAN : HandlePromptDone(ok, matched)
    BY <1>1 DEF HandleTaskResult
  <2>3. ok \in BOOLEAN
    BY <2>1, StateTyped
  <2> HIDE DEF ok
  <2>4. LET f == ctl'.core.pending_follow_up
        IN  \/ f \in {core.pending_follow_up, None}
            \/ ~ok /\ f # None /\ f.stage = "AwaitingDispatchAcknowledgement"
            \/ /\ ok /\ f # None /\ f.stage = "AwaitingPromptCompletion"
               /\ f.source = "AutoTest" => ~core.auto_test_in_progress
    BY <2>2, <2>3, ResultFollowUp
  <2>5. core'.pending_follow_up = ctl'.core.pending_follow_up
    BY DEF core
  <2> QED BY <2>1, <2>4, <2>5 DEF ok
<1>2. CASE ~HandleTaskResult
  BY <1>2, FollowUpKept
<1> QED BY <1>1, <1>2

\* For every setup, the step that leaves a follow-up without a dispatch is the result of a failed
\* turn: a success of handle_task_results dispatches what it plans, and a dispatch that is refused
\* is acknowledged as such (dispatch_controller_follow_up).
THEOREM DispatchedCorrect == Spec => OnlyFailureLeavesFollowUp
<1> DEFINE A == FollowUpLeft' =>
                    \/ core'.pending_follow_up = core.pending_follow_up
                    \/ results # <<>> /\ ~Head(results) /\ results' = Tail(results)
<1>1. IInv /\ [Next]_vars => [A]_vars
  <2> SUFFICES ASSUME IInv, Next, FollowUpLeft'
               PROVE  \/ core'.pending_follow_up = core.pending_follow_up
                      \/ results # <<>> /\ ~Head(results) /\ results' = Tail(results)
    OBVIOUS
  <2> QED BY FollowUpSteps DEF FollowUpLeft
<1>2. Spec => [][A]_vars
  BY <1>1, Invariant, PTL DEF Spec
<1> QED BY <1>2 DEF OnlyFailureLeavesFollowUp

\* For every setup, an auto-test that follows an auto-test is one that a failed turn leaves without
\* a dispatch: a success finds the guard up (auto_test_in_progress), whatever loops, prompts and
\* failures there were before.
THEOREM AutoTestCorrect == Spec => AutoTestNeverFeedsItself
<1> DEFINE A == /\ core.pending_follow_up # None /\ core.pending_follow_up.source = "AutoTest"
                /\ core'.pending_follow_up # None /\ core'.pending_follow_up.source = "AutoTest"
                /\ core'.pending_follow_up.effect_id # core.pending_follow_up.effect_id
                => FollowUpLeft' /\ ~Head(results)
<1>1. IInv /\ [Next]_vars => [A]_vars
  <2> SUFFICES ASSUME IInv, Next,
                      core.pending_follow_up # None, core.pending_follow_up.source = "AutoTest",
                      core'.pending_follow_up # None, core'.pending_follow_up.source = "AutoTest",
                      core'.pending_follow_up.effect_id # core.pending_follow_up.effect_id
               PROVE  FollowUpLeft' /\ ~Head(results)
    OBVIOUS
  <2>1. core.auto_test_in_progress
    BY StateTyped DEF Sane, Half, CoreSane, AutoTestGuarded, core
  <2> QED BY <2>1, FollowUpSteps DEF FollowUpLeft
<1>2. Spec => [][A]_vars
  BY <1>1, Invariant, PTL DEF Spec
<1> QED BY <1>2 DEF AutoTestNeverFeedsItself

=============================================================================
