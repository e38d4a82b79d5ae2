----------------------- MODULE SessionControllerProofs -----------------------
(***************************************************************************)
(* Proofs about SessionController.  The inductive invariant is split by    *)
(* what an operation may assume while it runs.  CoreOK is what every       *)
(* reducer step keeps; Steady adds the mirrors and the loop engine; Linked *)
(* ties the reducer's loop to the controller's.  Several operations break  *)
(* Linked half way (the reducer forgets a loop before the controller       *)
(* does) and finish_loop restores it from Steady alone.                    *)
(***************************************************************************)
EXTENDS SessionController, TLAPS

------------------------------------------------------------------------------
(* The inductive invariant. *)

CoreTyped(s) == s \in CoreState /\ s.next_effect_id <= MaxEffectId

CoreBusy(s) == s.busy <=> s.pending_prompt # None

PromptIssued(s) ==
    s.pending_prompt # None => s.pending_prompt.effect_id \in 1..s.next_effect_id

FollowUpIssued(s) ==
    s.pending_follow_up # None => s.pending_follow_up.effect_id \in 1..s.next_effect_id

IdsDiffer(s) ==
    s.pending_prompt # None /\ s.pending_follow_up # None
        => s.pending_prompt.effect_id # s.pending_follow_up.effect_id

CoreOK(s) ==
    /\ CoreTyped(s)
    /\ CoreBusy(s)
    /\ PromptIssued(s)
    /\ FollowUpIssued(s)
    /\ IdsDiffer(s)
    /\ s.pending_tool_filter = None

Mirrored(c) ==
    /\ c.busy = c.core.busy
    /\ c.disabled_tools = c.core.disabled_tools
    /\ c.auto_test_in_progress = c.core.auto_test_in_progress

EngineExact(c) == \A id \in LoopIds : c.loops[id] # None <=> id = c.active_loop_id

Steady(c) ==
    /\ c \in ControllerState
    /\ CoreOK(c.core)
    /\ Mirrored(c)
    /\ EngineExact(c)

LoopLinked(s, id) ==
    /\ s.active_loop # None <=> id # None
    /\ s.active_loop # None => s.active_loop.loop_id = id

FollowUpHasLoop(s) ==
    s.pending_follow_up # None /\ s.pending_follow_up.source = "LoopContinuation"
        => s.active_loop # None

Linked(c) == LoopLinked(c.core, c.active_loop_id) /\ FollowUpHasLoop(c.core)

Good(c) == Steady(c) /\ Linked(c)

IInv == Good(ctl) /\ has_agent \in BOOLEAN

(* The steps of PendingWork, as relations between two core states. *)

Accepts(s, t) ==
    /\ s.pending_prompt = None /\ t.pending_prompt # None
    /\ t.next_effect_id = s.next_effect_id + 1
    /\ t.pending_prompt.effect_id = t.next_effect_id
    /\ t.pending_follow_up = s.pending_follow_up

Plans(s, t) ==
    /\ s.pending_follow_up = None /\ t.pending_follow_up # None
    /\ t.next_effect_id = s.next_effect_id + 1
    /\ t.pending_follow_up.effect_id = t.next_effect_id
    /\ t.pending_follow_up.stage = "AwaitingDispatchAcknowledgement"
    /\ t.pending_prompt = s.pending_prompt

Dispatches(s, t) ==
    /\ s.pending_follow_up # None /\ t.pending_follow_up # None
    /\ s.pending_follow_up.stage = "AwaitingDispatchAcknowledgement"
    /\ t.pending_follow_up.stage = "AwaitingPromptCompletion"
    /\ t.pending_follow_up.effect_id = s.pending_follow_up.effect_id
    /\ t.pending_prompt = s.pending_prompt
    /\ t.next_effect_id = s.next_effect_id

Spends(s, t) ==
    /\ t.next_effect_id = s.next_effect_id + 1
    /\ t.pending_prompt = s.pending_prompt
    /\ t.pending_follow_up = s.pending_follow_up

Retires(s, t) ==
    /\ t.pending_prompt \in {s.pending_prompt, None}
    /\ t.pending_follow_up \in {s.pending_follow_up, None}
    /\ t.next_effect_id = s.next_effect_id

WorkStep(s, t) ==
    Accepts(s, t) \/ Plans(s, t) \/ Dispatches(s, t) \/ Spends(s, t) \/ Retires(s, t)

------------------------------------------------------------------------------
(* The controller's helpers. *)

\* Storing a core state refreshes every mirror: apply_core_state keeps the
\* engine and the loop id and follows the new core in everything else.
LEMMA ApplyAnyState ==
    ASSUME NEW c, c \in ControllerState, EngineExact(c), NEW s, CoreOK(s)
    PROVE  /\ Steady(apply_core_state(c, s))
           /\ apply_core_state(c, s).core = s
           /\ apply_core_state(c, s).active_loop_id = c.active_loop_id
           /\ apply_core_state(c, s).loops = c.loops
<1> USE DEF apply_core_state
<1>0. /\ s \in CoreState
      /\ s.busy \in BOOLEAN
      /\ s.disabled_tools \in ToolSets
      /\ s.auto_test_enabled \in BOOLEAN
      /\ s.auto_test_command \in Commands \cup {None}
      /\ s.auto_test_in_progress \in BOOLEAN
  BY DEF CoreOK, CoreTyped, CoreState
<1>1. apply_core_state(c, s) \in ControllerState
  BY <1>0 DEF ControllerState
<1>2. apply_core_state(c, s).core = s
  BY DEF ControllerState
<1>3. /\ apply_core_state(c, s).active_loop_id = c.active_loop_id
      /\ apply_core_state(c, s).loops = c.loops
  BY DEF ControllerState
<1>4. Mirrored(apply_core_state(c, s))
  BY DEF ControllerState, Mirrored
<1>5. EngineExact(apply_core_state(c, s))
  BY <1>3 DEF EngineExact
<1> QED BY <1>1, <1>2, <1>3, <1>4, <1>5 DEF Steady

\* The same for a controller that is Steady.
LEMMA ApplyCoreState ==
    ASSUME NEW c, Steady(c), NEW s, CoreOK(s)
    PROVE  /\ Steady(apply_core_state(c, s))
           /\ apply_core_state(c, s).core = s
           /\ apply_core_state(c, s).active_loop_id = c.active_loop_id
           /\ apply_core_state(c, s).loops = c.loops
BY ApplyAnyState DEF Steady

\* finish_loop makes the three views of a loop agree again, whatever the
\* reducer believed before.
LEMMA FinishLoop ==
    ASSUME NEW c, Steady(c)
    PROVE  /\ Good(finish_loop(c))
           /\ finish_loop(c).core = [c.core EXCEPT !.active_loop = None, !.pending_follow_up = None]
<1> DEFINE d == finish_loop(c)
           s == [c.core EXCEPT !.active_loop = None, !.pending_follow_up = None]
<1>1. d.core = s
  BY DEF Steady, ControllerState, CoreState, finish_loop
<1>2. CoreTyped(s)
  BY ZenonT(40) DEF Steady, CoreOK, CoreTyped, CoreState
<1>3. CoreBusy(s) /\ PromptIssued(s) /\ s.pending_tool_filter = None
  BY DEF Steady, CoreOK, CoreTyped, CoreState, CoreBusy, PromptIssued
<1>4. FollowUpIssued(s) /\ IdsDiffer(s)
  BY DEF Steady, CoreOK, CoreTyped, CoreState, FollowUpIssued, IdsDiffer
<1>5. d.active_loop_id = None /\ d.loops \in Loops
  BY DEF Steady, ControllerState, finish_loop, has_active_loop, remove, Loops
<1>6. d \in ControllerState
  BY <1>5, <1>2, <1>1 DEF Steady, ControllerState, finish_loop, CoreTyped
<1>7. Mirrored(d)
  BY DEF Steady, ControllerState, CoreState, finish_loop, Mirrored
<1>8. EngineExact(d)
  BY NoneAssumption, <1>5
     DEF Steady, ControllerState, finish_loop, has_active_loop, remove, Loops, EngineExact
<1>9. Linked(d)
  BY <1>1, <1>5 DEF Linked, LoopLinked, FollowUpHasLoop, Steady, ControllerState, CoreState
<1> QED BY <1>1, <1>2, <1>3, <1>4, <1>6, <1>7, <1>8, <1>9 DEF Good, Steady, CoreOK

------------------------------------------------------------------------------
(* The reducer. *)

\* Below the bound a fresh id is the successor of the last one: the counter
\* does not saturate, so the id was never handed out before.
LEMMA FreshId ==
    ASSUME NEW s, CoreTyped(s), s.next_effect_id < MaxEffectId
    PROVE  /\ allocate_effect_id(s) = s.next_effect_id + 1
           /\ allocate_effect_id(s) \in EffectIds
           /\ allocate_effect_id(s) <= MaxEffectId
BY CoreAssumption, ControllerAssumption
   DEF CoreTyped, CoreState, EffectIds, allocate_effect_id

\* reduce_prompt_requested keeps CoreOK and leaves loop and follow-up alone.
LEMMA PromptRequested ==
    ASSUME NEW s, CoreOK(s), s.next_effect_id < MaxEffectId,
           NEW o \in EffectIds \cup {None}
    PROVE  LET t == reduce_prompt_requested(s, o).state
           IN  /\ CoreOK(t)
               /\ t.active_loop = s.active_loop
               /\ t.pending_follow_up = s.pending_follow_up
               /\ WorkStep(s, t)
<1> DEFINE id == allocate_effect_id(s)
           t == [s EXCEPT !.next_effect_id = id,
                          !.busy = TRUE,
                          !.pending_prompt = [effect_id |-> id, originating |-> o]]
<1>0. /\ id = s.next_effect_id + 1
      /\ id \in EffectIds
      /\ id <= MaxEffectId
  BY FreshId DEF CoreOK
<1>1. CASE s.busy
  BY <1>1 DEF reduce_prompt_requested, rejection, WorkStep, Retires
<1>2. CASE ~s.busy
  <2> HIDE DEF id
  <2>1. reduce_prompt_requested(s, o).state = t
    BY <1>2 DEF reduce_prompt_requested, transitioned, id
  <2>2. t.pending_prompt = [effect_id |-> id, originating |-> o]
    BY DEF CoreOK, CoreTyped, CoreState
  <2>3. t.pending_prompt \in PendingPromptState
    BY <2>2, <1>0 DEF PendingPromptState
  <2>4. CoreTyped(t)
    BY <2>3, <1>0 DEF CoreOK, CoreTyped, CoreState
  <2>5. CoreBusy(t)
    BY <2>3, NoneAssumption DEF CoreOK, CoreTyped, CoreState, CoreBusy
  <2>6. PromptIssued(t)
    BY <2>2, <1>0 DEF CoreOK, CoreTyped, CoreState, PromptIssued, EffectIds
  <2>7. FollowUpIssued(t)
    BY <1>0 DEF CoreOK, CoreTyped, CoreState, FollowUpIssued, EffectIds
  <2>8. IdsDiffer(t)
    BY <2>2, <1>0 DEF CoreOK, CoreTyped, CoreState, FollowUpIssued, IdsDiffer, EffectIds
  <2>9. /\ t.pending_tool_filter = None
        /\ t.active_loop = s.active_loop
        /\ t.pending_follow_up = s.pending_follow_up
    BY DEF CoreOK, CoreTyped, CoreState
  <2>10. Accepts(s, t)
    BY <1>0, <1>2, <2>2, <2>3, NoneAssumption DEF CoreOK, CoreBusy, CoreTyped, CoreState, Accepts
  <2> QED BY <2>1, <2>4, <2>5, <2>6, <2>7, <2>8, <2>9, <2>10 DEF CoreOK, WorkStep
<1> QED BY <1>1, <1>2

\* reduce_prompt_completed keeps CoreOK; it leaves loop and follow-up alone
\* unless it reports the end of the loop.
LEMMA PromptCompleted ==
    ASSUME NEW s, CoreOK(s), NEW id, NEW status
    PROVE  LET r == reduce_prompt_completed(s, id, status)
           IN  /\ CoreOK(r.state)
               /\ Retires(s, r.state)
               /\ \/ /\ r.state.active_loop = s.active_loop
                     /\ r.state.pending_follow_up = s.pending_follow_up
                     /\ LoopStateChanged(None) \notin r.effects
                  \/ /\ LoopStateChanged(None) \in r.effects
                     /\ s.active_loop # None
                     /\ r.state.active_loop = None
                     /\ r.state.pending_follow_up = None
<1> DEFINE r == reduce_prompt_completed(s, id, status)
           cleared == [s EXCEPT !.busy = FALSE, !.pending_prompt = None]
           ended == [cleared EXCEPT !.active_loop = None, !.pending_follow_up = None]
<1>1. CoreOK(cleared)
  <2>1. CoreTyped(cleared)
    BY DEF CoreOK, CoreTyped, CoreState
  <2>2. CoreBusy(cleared) /\ PromptIssued(cleared) /\ IdsDiffer(cleared)
    BY DEF CoreOK, CoreTyped, CoreState, CoreBusy, PromptIssued, IdsDiffer
  <2>3. FollowUpIssued(cleared) /\ cleared.pending_tool_filter = None
    BY DEF CoreOK, CoreTyped, CoreState, FollowUpIssued
  <2> QED BY <2>1, <2>2, <2>3 DEF CoreOK
<1>2. CoreOK(ended) /\ ended.active_loop = None /\ ended.pending_follow_up = None
  <2>1. CoreTyped(ended) /\ ended.active_loop = None /\ ended.pending_follow_up = None
    BY ZenonT(40) DEF CoreOK, CoreTyped, CoreState
  <2>2. CoreBusy(ended) /\ PromptIssued(ended) /\ IdsDiffer(ended)
    BY DEF CoreOK, CoreTyped, CoreState, CoreBusy, PromptIssued, IdsDiffer
  <2>3. FollowUpIssued(ended) /\ ended.pending_tool_filter = None
    BY DEF CoreOK, CoreTyped, CoreState, FollowUpIssued
  <2> QED BY <2>1, <2>2, <2>3 DEF CoreOK
<1>3. /\ cleared.active_loop = s.active_loop
      /\ cleared.pending_follow_up = s.pending_follow_up
  BY DEF CoreOK, CoreTyped, CoreState
<1>4. \/ r.state = s /\ r.effects = {}
      \/ r.state = cleared /\ r.effects = {BusyChanged(FALSE)}
      \/ /\ r.state = ended /\ r.effects = {BusyChanged(FALSE), LoopStateChanged(None)}
         /\ s.active_loop # None
  BY DEF reduce_prompt_completed, transitioned, rejection
<1>5. LoopStateChanged(None) # BusyChanged(FALSE)
  BY DEF LoopStateChanged, BusyChanged
<1>6. Retires(s, s) /\ Retires(s, cleared) /\ Retires(s, ended)
  BY DEF CoreOK, CoreTyped, CoreState, Retires
<1> HIDE DEF r, cleared, ended
<1> QED BY <1>1, <1>2, <1>3, <1>4, <1>5, <1>6 DEF r

\* A follow-up planned under a fresh id keeps CoreOK.
LEMMA PlanFollowUp ==
    ASSUME NEW s, CoreOK(s), s.next_effect_id < MaxEffectId, s.pending_follow_up = None,
           NEW source \in Sources,
           NEW t, CoreTyped(t),
           t.next_effect_id = s.next_effect_id + 1,
           t.pending_follow_up = NewFollowUp(t.next_effect_id, source),
           t.busy = s.busy, t.pending_prompt = s.pending_prompt, t.pending_tool_filter = None
    PROVE  CoreOK(t) /\ Plans(s, t) /\ t.pending_follow_up.source = source
<1>1. /\ t.pending_follow_up \in PendingFollowUpState
      /\ t.pending_follow_up # None
      /\ t.pending_follow_up.effect_id = t.next_effect_id
      /\ t.pending_follow_up.source = source
      /\ t.pending_follow_up.stage = "AwaitingDispatchAcknowledgement"
  BY NoneAssumption
     DEF NewFollowUp, PendingFollowUpState, CoreTyped, CoreState, EffectIds, Stages
<1>2. CoreBusy(t) /\ FollowUpIssued(t)
  BY <1>1 DEF CoreOK, CoreBusy, FollowUpIssued, CoreTyped, CoreState, EffectIds
<1>3. PromptIssued(t) /\ IdsDiffer(t)
  BY <1>1 DEF CoreOK, PromptIssued, IdsDiffer, CoreTyped, CoreState, EffectIds
<1>4. Plans(s, t)
  BY <1>1 DEF Plans
<1> QED BY <1>1, <1>2, <1>3, <1>4 DEF CoreOK

\* reduce_post_prompt_evaluation keeps CoreOK, takes over the loop the loop
\* engine reported, plans a continuation only of a loop, and reports a loop
\* that is gone exactly when it believed in one.
LEMMA PostPromptEvaluated ==
    ASSUME NEW s, CoreOK(s), s.next_effect_id < MaxEffectId,
           NEW e,
           e.active_loop \in ActiveLoopState \cup {None},
           e.pending_follow_up = s.pending_follow_up,
           e.auto_test_enabled \in BOOLEAN,
           e.auto_test_command \in Commands \cup {None},
           e.auto_test_in_progress \in BOOLEAN
    PROVE  LET r == reduce_post_prompt_evaluation(s, e)
               t == r.state
           IN  /\ CoreOK(t)
               /\ t.active_loop = e.active_loop
               /\ \/ t.pending_follow_up = s.pending_follow_up /\ Retires(s, t)
                  \/ /\ Plans(s, t)
                     /\ t.pending_follow_up.source = "LoopContinuation" => e.active_loop # None
               /\ s.active_loop # None /\ e.active_loop = None
                    => LoopStateChanged(None) \in r.effects
<1> DEFINE r == reduce_post_prompt_evaluation(s, e)
           o == [s EXCEPT !.active_loop = e.active_loop,
                          !.pending_follow_up = e.pending_follow_up,
                          !.auto_test_enabled = e.auto_test_enabled,
                          !.auto_test_command = e.auto_test_command,
                          !.auto_test_in_progress = e.auto_test_in_progress]
           q == [o EXCEPT !.auto_test_in_progress = FALSE]
           id == allocate_effect_id(s)
           f(source) == [o EXCEPT !.next_effect_id = id,
                                  !.pending_follow_up = NewFollowUp(id, source)]
           g == [f("AutoTest") EXCEPT !.auto_test_in_progress = TRUE]
<1>1. CoreOK(o) /\ o.active_loop = e.active_loop /\ o.pending_follow_up = s.pending_follow_up
      /\ Retires(s, o)
  <2>1. CoreTyped(o) /\ o.active_loop = e.active_loop /\ o.pending_follow_up = s.pending_follow_up
    BY DEF CoreOK, CoreTyped, CoreState
  <2>2. CoreBusy(o) /\ PromptIssued(o) /\ o.pending_tool_filter = None
    BY DEF CoreOK, CoreTyped, CoreState, CoreBusy, PromptIssued
  <2>3. FollowUpIssued(o) /\ IdsDiffer(o)
    BY DEF CoreOK, CoreTyped, CoreState, FollowUpIssued, IdsDiffer
  <2>4. Retires(s, o)
    BY DEF CoreOK, CoreTyped, CoreState, Retires
  <2> QED BY <2>1, <2>2, <2>3, <2>4 DEF CoreOK
<1>2. CoreOK(q) /\ q.active_loop = e.active_loop /\ q.pending_follow_up = s.pending_follow_up
      /\ Retires(s, q)
  <2> HIDE DEF o
  <2>1. CoreTyped(q) /\ q.active_loop = e.active_loop /\ q.pending_follow_up = s.pending_follow_up
    BY ZenonT(40), <1>1 DEF CoreOK, CoreTyped, CoreState
  <2>2. CoreBusy(q) /\ PromptIssued(q) /\ q.pending_tool_filter = None
    BY <1>1 DEF CoreOK, CoreTyped, CoreState, CoreBusy, PromptIssued
  <2>3. FollowUpIssued(q) /\ IdsDiffer(q)
    BY <1>1 DEF CoreOK, CoreTyped, CoreState, FollowUpIssued, IdsDiffer
  <2>4. Retires(s, q)
    BY <1>1 DEF CoreOK, CoreTyped, CoreState, Retires
  <2> QED BY <2>1, <2>2, <2>3, <2>4 DEF CoreOK
<1>3. /\ id = s.next_effect_id + 1
      /\ id \in EffectIds
      /\ id <= MaxEffectId
  BY FreshId DEF CoreOK
<1>4. ASSUME NEW source \in Sources
      PROVE  NewFollowUp(id, source) \in PendingFollowUpState
  BY <1>3 DEF NewFollowUp, PendingFollowUpState, Stages
<1>5. ASSUME s.pending_follow_up = None, NEW source \in Sources
      PROVE  CoreOK(f(source)) /\ Plans(s, f(source)) /\ f(source).pending_follow_up.source = source
             /\ f(source).active_loop = e.active_loop
  <2> HIDE DEF id
  <2>1. CoreTyped(f(source)) /\ f(source).active_loop = e.active_loop
    BY ZenonT(40), <1>3, <1>4 DEF CoreOK, CoreTyped, CoreState
  <2>2. /\ f(source).next_effect_id = id
        /\ f(source).pending_follow_up = NewFollowUp(id, source)
        /\ f(source).busy = s.busy
        /\ f(source).pending_prompt = s.pending_prompt
        /\ f(source).pending_tool_filter = None
    BY DEF CoreOK, CoreTyped, CoreState
  <2> HIDE DEF f
  <2> QED BY <1>3, <1>5, <2>1, <2>2, PlanFollowUp
<1>6. ASSUME s.pending_follow_up = None
      PROVE  CoreOK(g) /\ Plans(s, g) /\ g.pending_follow_up.source = "AutoTest"
             /\ g.active_loop = e.active_loop
  <2> HIDE DEF id
  <2>0. "AutoTest" \in Sources
    BY DEF Sources
  <2>1. CoreTyped(g) /\ g.active_loop = e.active_loop
    BY ZenonT(40), <1>3, <1>4, <2>0 DEF CoreOK, CoreTyped, CoreState
  <2>2. /\ g.next_effect_id = id
        /\ g.pending_follow_up = NewFollowUp(id, "AutoTest")
        /\ g.busy = s.busy
        /\ g.pending_prompt = s.pending_prompt
        /\ g.pending_tool_filter = None
    BY DEF CoreOK, CoreTyped, CoreState
  <2> HIDE DEF g
  <2> QED BY <1>3, <1>6, <2>0, <2>1, <2>2, PlanFollowUp
<1>7. \/ r.state = o \/ r.state = q
      \/ r.state = f("LoopContinuation") /\ s.pending_follow_up = None /\ e.active_loop # None
      \/ r.state = g /\ s.pending_follow_up = None
  BY <1>1 DEF reduce_post_prompt_evaluation, transitioned
<1>8. s.active_loop # None /\ e.active_loop = None => LoopStateChanged(None) \in r.effects
  BY <1>1 DEF reduce_post_prompt_evaluation, transitioned
<1>9. "LoopContinuation" \in Sources /\ "LoopContinuation" # "AutoTest"
  BY DEF Sources
<1> HIDE DEF r, o, q, f, g
<1> QED BY <1>1, <1>2, <1>5, <1>6, <1>7, <1>8, <1>9 DEF r

\* A core state that differs in nothing but its follow-up (which is gone), its
\* loop and its auto-test flag still satisfies CoreOK.
LEMMA DropFollowUp ==
    ASSUME NEW s, CoreOK(s), NEW loop \in ActiveLoopState \cup {None}, NEW flag \in BOOLEAN
    PROVE  LET t == [s EXCEPT !.pending_follow_up = None,
                              !.auto_test_in_progress = flag, !.active_loop = loop]
           IN  CoreOK(t) /\ Retires(s, t) /\ t.pending_follow_up = None /\ t.active_loop = loop
<1> DEFINE t == [s EXCEPT !.pending_follow_up = None,
                          !.auto_test_in_progress = flag, !.active_loop = loop]
<1>1. CoreTyped(t) /\ t.pending_follow_up = None /\ t.active_loop = loop
  BY ZenonT(40) DEF CoreOK, CoreTyped, CoreState
<1>2. CoreBusy(t) /\ PromptIssued(t) /\ t.pending_tool_filter = None
  BY DEF CoreOK, CoreTyped, CoreState, CoreBusy, PromptIssued
<1>3. FollowUpIssued(t) /\ IdsDiffer(t)
  BY <1>1 DEF FollowUpIssued, IdsDiffer
<1>4. Retires(s, t)
  BY DEF CoreOK, CoreTyped, CoreState, Retires
<1> QED BY <1>1, <1>2, <1>3, <1>4 DEF CoreOK

\* A failed follow-up is dropped, and the loop it continued is reported gone.
LEMMA FollowUpFailed ==
    ASSUME NEW s, CoreOK(s), s.pending_follow_up # None
    PROVE  LET r == FollowUpFails(s)
           IN  /\ CoreOK(r.state)
               /\ Retires(s, r.state)
               /\ r.state.pending_follow_up = None
               /\ \/ r.state.active_loop = s.active_loop
                  \/ LoopStateChanged(None) \in r.effects
<1> DEFINE source == s.pending_follow_up.source
           ends == source = "LoopContinuation" /\ s.active_loop # None
           loop == IF ends THEN None ELSE s.active_loop
           flag == s.auto_test_in_progress /\ source # "AutoTest"
           t == [s EXCEPT !.pending_follow_up = None,
                          !.auto_test_in_progress = flag, !.active_loop = loop]
<1>1. loop \in ActiveLoopState \cup {None} /\ flag \in BOOLEAN
  BY DEF CoreOK, CoreTyped, CoreState
<1>2. FollowUpFails(s).state = t
  BY DEF FollowUpFails, transitioned, WithoutFollowUp, CoreOK, CoreTyped, CoreState
<1>3. ends => LoopStateChanged(None) \in FollowUpFails(s).effects
  BY DEF FollowUpFails, transitioned
<1>4. ~ends => loop = s.active_loop
  OBVIOUS
<1> HIDE DEF loop, flag, ends
<1>5. CoreOK(t) /\ Retires(s, t) /\ t.pending_follow_up = None /\ t.active_loop = loop
  BY ZenonT(40), <1>1, DropFollowUp
<1> QED BY <1>2, <1>3, <1>4, <1>5

\* reduce_follow_up_dispatch_acknowledged keeps CoreOK: it moves the follow-up
\* to its second stage, drops it, or rejects the acknowledgement.
LEMMA DispatchAcknowledged ==
    ASSUME NEW s, CoreOK(s), NEW id, NEW accepted
    PROVE  LET r == reduce_follow_up_dispatch_acknowledged(s, id, accepted)
               t == r.state
           IN  /\ CoreOK(t)
               /\ \/ t = s /\ LoopStateChanged(None) \notin r.effects
                  \/ /\ Dispatches(s, t) /\ LoopStateChanged(None) \notin r.effects
                     /\ t.active_loop = s.active_loop
                     /\ t.pending_follow_up.source = s.pending_follow_up.source
                  \/ /\ Retires(s, t)
                     /\ t.pending_follow_up = None
                     /\ t.active_loop = s.active_loop \/ LoopStateChanged(None) \in r.effects
<1> DEFINE r == reduce_follow_up_dispatch_acknowledged(s, id, accepted)
           d == [s EXCEPT !.pending_follow_up.stage = "AwaitingPromptCompletion"]
           pending == s.pending_follow_up
           Taken == pending # None /\ pending.stage = "AwaitingDispatchAcknowledgement"
<1>1. \/ r.state = s /\ r.effects = {}
      \/ r.state = d /\ r.effects = {} /\ Taken
      \/ r = FollowUpFails(s) /\ pending # None
  BY DEF reduce_follow_up_dispatch_acknowledged, transitioned, rejection
<1>2. ASSUME Taken
      PROVE  CoreOK(d) /\ Dispatches(s, d) /\ d.active_loop = s.active_loop
             /\ d.pending_follow_up.source = s.pending_follow_up.source
  <2>0. pending \in PendingFollowUpState
    BY <1>2 DEF CoreOK, CoreTyped, CoreState
  <2>1. /\ d = [s EXCEPT !.pending_follow_up = [pending EXCEPT !.stage = "AwaitingPromptCompletion"]]
        /\ d.pending_follow_up = [pending EXCEPT !.stage = "AwaitingPromptCompletion"]
    BY DEF CoreOK, CoreTyped, CoreState
  <2>2. /\ d.pending_follow_up \in PendingFollowUpState
        /\ d.pending_follow_up.effect_id = pending.effect_id
        /\ d.pending_follow_up.source = pending.source
        /\ d.pending_follow_up.stage = "AwaitingPromptCompletion"
    BY <2>0, <2>1 DEF PendingFollowUpState, Stages
  <2>3. d.pending_follow_up # None
    BY <2>2, NoneAssumption
  <2>4. CoreTyped(d) /\ d.active_loop = s.active_loop
    BY <2>1, <2>2 DEF CoreOK, CoreTyped, CoreState
  <2>5. CoreBusy(d) /\ PromptIssued(d) /\ d.pending_tool_filter = None
        /\ d.pending_prompt = s.pending_prompt /\ d.next_effect_id = s.next_effect_id
    BY DEF CoreOK, CoreTyped, CoreState, CoreBusy, PromptIssued
  <2> HIDE DEF d
  <2>6. FollowUpIssued(d) /\ IdsDiffer(d)
    BY <1>2, <2>2, <2>5 DEF CoreOK, FollowUpIssued, IdsDiffer
  <2>7. Dispatches(s, d)
    BY <1>2, <2>2, <2>3, <2>5 DEF Dispatches
  <2> QED BY <2>2, <2>4, <2>5, <2>6, <2>7 DEF CoreOK
<1> HIDE DEF r, d, Taken
<1> QED BY <1>1, <1>2, FollowUpFailed DEF r

\* reduce_loop_follow_up_completed keeps CoreOK: it drops the follow-up or
\* rejects the completion.
LEMMA FollowUpCompleted ==
    ASSUME NEW s, CoreOK(s), NEW id, NEW status
    PROVE  LET r == reduce_loop_follow_up_completed(s, id, status)
               t == r.state
           IN  /\ CoreOK(t)
               /\ Retires(s, t)
               /\ \/ t = s /\ LoopStateChanged(None) \notin r.effects
                  \/ /\ t.pending_follow_up = None
                     /\ t.active_loop = s.active_loop \/ LoopStateChanged(None) \in r.effects
<1> DEFINE r == reduce_loop_follow_up_completed(s, id, status)
           w == WithoutFollowUp(s)
<1>1. \/ r.state = s /\ r.effects = {}
      \/ r.state = w /\ r.effects = {}
      \/ r = FollowUpFails(s) /\ s.pending_follow_up # None
  BY DEF reduce_loop_follow_up_completed, transitioned, rejection
<1>2. CoreOK(w) /\ Retires(s, w) /\ w.pending_follow_up = None /\ w.active_loop = s.active_loop
  <2>1. CoreTyped(w) /\ w.pending_follow_up = None /\ w.active_loop = s.active_loop
    BY DEF CoreOK, CoreTyped, CoreState, WithoutFollowUp
  <2>2. CoreBusy(w) /\ PromptIssued(w) /\ w.pending_tool_filter = None
    BY DEF CoreOK, CoreTyped, CoreState, CoreBusy, PromptIssued, WithoutFollowUp
  <2>3. FollowUpIssued(w) /\ IdsDiffer(w)
    BY <2>1 DEF FollowUpIssued, IdsDiffer
  <2>4. Retires(s, w)
    BY DEF CoreOK, CoreTyped, CoreState, Retires, WithoutFollowUp
  <2> QED BY <2>1, <2>2, <2>3, <2>4 DEF CoreOK
<1>3. Retires(s, s)
  BY DEF Retires
<1> HIDE DEF r, w
<1> QED BY <1>1, <1>2, <1>3, FollowUpFailed DEF r

------------------------------------------------------------------------------
(* The operations of the controller. *)

Keeps(c, d) == Good(d) /\ WorkStep(c.core, d.core)

\* Doing nothing keeps everything.
LEMMA KeepsSame ==
    ASSUME NEW c, Good(c)
    PROVE  Keeps(c, c)
BY DEF Keeps, WorkStep, Retires

\* Retiring work twice retires it; dropping the follow-up (as finish_loop does)
\* after planning one has only spent an id.
LEMMA RetiresTwice ==
    ASSUME NEW s, NEW t, NEW u, Retires(t, u)
    PROVE  /\ Retires(s, t) => Retires(s, u)
           /\ Plans(s, t) /\ u.pending_prompt = t.pending_prompt /\ u.pending_follow_up = None
                => Spends(s, u)
BY DEF Retires, Plans, Spends

\* A reducer step that leaves the loop and the source of the follow-up alone
\* may be stored as it is.
LEMMA StoreCore ==
    ASSUME NEW c, Good(c), NEW s, CoreOK(s),
           s.active_loop = c.core.active_loop,
           \/ s.pending_follow_up = None
           \/ /\ c.core.pending_follow_up # None
              /\ s.pending_follow_up.source = c.core.pending_follow_up.source
    PROVE  Good(apply_core_state(c, s)) /\ apply_core_state(c, s).core = s
<1>1. /\ Steady(apply_core_state(c, s))
      /\ apply_core_state(c, s).core = s
      /\ apply_core_state(c, s).active_loop_id = c.active_loop_id
  BY ApplyCoreState DEF Good
<1>2. Linked(apply_core_state(c, s))
  BY <1>1 DEF Good, Linked, LoopLinked, FollowUpHasLoop
<1> QED BY <1>1, <1>2 DEF Good

\* finish_loop after a reducer step retires what the step left pending.
LEMMA StoreAndFinish ==
    ASSUME NEW c, Steady(c), NEW s, CoreOK(s)
    PROVE  LET d == finish_loop(apply_core_state(c, s))
           IN  Good(d) /\ Retires(s, d.core)
               /\ d.core.pending_prompt = s.pending_prompt /\ d.core.pending_follow_up = None
<1> DEFINE d == finish_loop(apply_core_state(c, s))
<1>1. Steady(apply_core_state(c, s)) /\ apply_core_state(c, s).core = s
  BY ApplyCoreState
<1>2. Good(d) /\ d.core = [s EXCEPT !.active_loop = None, !.pending_follow_up = None]
  BY <1>1, FinishLoop
<1>3. /\ d.core.pending_prompt = s.pending_prompt
      /\ d.core.pending_follow_up = None
      /\ d.core.next_effect_id = s.next_effect_id
  BY <1>2 DEF CoreOK, CoreTyped, CoreState
<1> QED BY <1>2, <1>3 DEF Retires

\* Every way to start a prompt.
LEMMA StartPromptKeeps ==
    ASSUME NEW c, Good(c), c.core.next_effect_id < MaxEffectId, NEW o \in EffectIds \cup {None}
    PROVE  Keeps(c, start_prompt(c, o))
<1> DEFINE t == reduce_prompt_requested(c.core, o).state
<1>1. /\ CoreOK(t)
      /\ t.active_loop = c.core.active_loop
      /\ t.pending_follow_up = c.core.pending_follow_up
      /\ WorkStep(c.core, t)
  BY PromptRequested DEF Good, Steady
<1>2. start_prompt(c, o) = c \/ start_prompt(c, o) = apply_core_state(c, t)
  BY DEF start_prompt
<1> HIDE DEF t
<1>3. Good(apply_core_state(c, t)) /\ apply_core_state(c, t).core = t
  BY <1>1, StoreCore
<1> QED BY <1>1, <1>2, <1>3, KeepsSame DEF Keeps

\* A prompt completion, with the end of the loop a failed prompt brings.
LEMMA PromptCompletionKeeps ==
    ASSUME NEW c, Good(c), NEW id, NEW status
    PROVE  /\ Good(apply_prompt_completion(c, id, status))
           /\ Retires(c.core, apply_prompt_completion(c, id, status).core)
<1> DEFINE r == reduce_prompt_completed(c.core, id, status)
           t == r.state
           d == apply_core_state(c, t)
<1>0. Steady(c) /\ CoreOK(c.core) /\ Retires(c.core, c.core)
  BY DEF Good, Steady, Retires
<1>1. /\ CoreOK(t)
      /\ Retires(c.core, t)
      /\ \/ /\ t.active_loop = c.core.active_loop
            /\ t.pending_follow_up = c.core.pending_follow_up
            /\ LoopStateChanged(None) \notin r.effects
         \/ /\ LoopStateChanged(None) \in r.effects
            /\ c.core.active_loop # None
  BY <1>0, PromptCompleted
<1>2. \/ apply_prompt_completion(c, id, status) = c
      \/ apply_prompt_completion(c, id, status) = execute_prompt_completion_effects(d, r.effects)
  BY DEF apply_prompt_completion
<1>3. d.active_loop_id = c.active_loop_id
  BY <1>0, <1>1, ApplyCoreState
<1> HIDE DEF r
<1>4. CASE LoopStateChanged(None) \in r.effects
  <2>1. c.active_loop_id # None
    BY <1>1, <1>4, <1>1 DEF Good, Linked, LoopLinked
  <2>2. execute_prompt_completion_effects(d, r.effects) = finish_loop(d)
    BY <1>3, <1>4, <2>1 DEF execute_prompt_completion_effects, has_active_loop
  <2>3. Good(finish_loop(d)) /\ Retires(t, finish_loop(d).core)
    BY <1>0, <1>1, StoreAndFinish
  <2>4. Retires(c.core, finish_loop(d).core)
    BY <1>1, <2>3, RetiresTwice
  <2> QED BY <1>0, <1>2, <2>2, <2>3, <2>4
<1>5. CASE LoopStateChanged(None) \notin r.effects
  <2>1. execute_prompt_completion_effects(d, r.effects) = d
    BY <1>5 DEF execute_prompt_completion_effects
  <2>2. Good(d) /\ d.core = t
    BY <1>1, <1>5, StoreCore
  <2> QED BY <1>0, <1>1, <1>2, <2>1, <2>2
<1> QED BY <1>4, <1>5

\* Storing the outcome of an acknowledgement or a completion of a follow-up,
\* with the end of the loop a failed continuation brings.
LEMMA FollowUpEffectsKeep ==
    ASSUME NEW c, Good(c), NEW t, NEW effects, CoreOK(t),
           \/ /\ LoopStateChanged(None) \notin effects
              /\ t.active_loop = c.core.active_loop
              /\ t.pending_follow_up # None =>
                    /\ c.core.pending_follow_up # None
                    /\ t.pending_follow_up.source = c.core.pending_follow_up.source
           \/ /\ t.pending_follow_up = None
              /\ t.active_loop = c.core.active_loop \/ LoopStateChanged(None) \in effects
    PROVE  LET d == execute_follow_up_failure_effects(apply_core_state(c, t), effects)
           IN  Good(d) /\ (d.core = t \/ (Retires(t, d.core) /\ LoopStateChanged(None) \in effects))
<1>1. CASE LoopStateChanged(None) \in effects
  BY <1>1, StoreAndFinish DEF Good, execute_follow_up_failure_effects
<1>2. CASE LoopStateChanged(None) \notin effects
  BY <1>2, StoreCore DEF execute_follow_up_failure_effects
<1> QED BY <1>1, <1>2

\* Acknowledging the dispatch of a follow-up, accepted or rejected.
LEMMA AckKeeps ==
    ASSUME NEW c, Good(c), NEW id, NEW accepted
    PROVE  Keeps(c, ack_follow_up_dispatch(c, id, accepted))
<1> DEFINE r == reduce_follow_up_dispatch_acknowledged(c.core, id, accepted)
           t == r.state
           d == execute_follow_up_failure_effects(apply_core_state(c, t), r.effects)
<1>1. /\ CoreOK(t)
      /\ \/ t = c.core /\ LoopStateChanged(None) \notin r.effects
         \/ /\ Dispatches(c.core, t) /\ LoopStateChanged(None) \notin r.effects
            /\ t.active_loop = c.core.active_loop
            /\ t.pending_follow_up.source = c.core.pending_follow_up.source
         \/ /\ Retires(c.core, t)
            /\ t.pending_follow_up = None
            /\ t.active_loop = c.core.active_loop \/ LoopStateChanged(None) \in r.effects
  BY DispatchAcknowledged DEF Good, Steady
<1>2. ack_follow_up_dispatch(c, id, accepted) = c \/ ack_follow_up_dispatch(c, id, accepted) = d
  BY DEF ack_follow_up_dispatch
<1> HIDE DEF r
<1>3. Good(d) /\ (d.core = t \/ (Retires(t, d.core) /\ LoopStateChanged(None) \in r.effects))
  BY <1>1, FollowUpEffectsKeep DEF Dispatches
<1>4. WorkStep(c.core, d.core)
  <2>1. Retires(c.core, c.core)
    BY DEF Retires
  <2> QED BY <1>1, <1>3, <2>1, RetiresTwice DEF WorkStep
<1> QED BY <1>2, <1>3, <1>4, KeepsSame DEF Keeps

\* Completing a dispatched follow-up: first its prompt, if that is still
\* pending, then the follow-up itself.
LEMMA CompleteFollowUpKeeps ==
    ASSUME NEW c, Good(c), NEW id, NEW status
    PROVE  Keeps(c, complete_dispatched_follow_up(c, id, status))
<1> DEFINE r(d) == reduce_loop_follow_up_completed(d.core, id, status)
           done(d) == execute_follow_up_failure_effects(apply_core_state(d, r(d).state), r(d).effects)
<1>1. ASSUME NEW d, Good(d)
      PROVE  Good(done(d)) /\ Retires(d.core, done(d).core)
  <2>1. /\ CoreOK(r(d).state)
        /\ Retires(d.core, r(d).state)
        /\ \/ r(d).state = d.core /\ LoopStateChanged(None) \notin r(d).effects
           \/ /\ r(d).state.pending_follow_up = None
              /\ \/ r(d).state.active_loop = d.core.active_loop
                 \/ LoopStateChanged(None) \in r(d).effects
    BY <1>1, FollowUpCompleted DEF Good, Steady
  <2> HIDE DEF r
  <2>2. Good(done(d)) /\ (done(d).core = r(d).state \/ Retires(r(d).state, done(d).core))
    BY <1>1, <2>1, FollowUpEffectsKeep
  <2> QED BY <2>1, <2>2, RetiresTwice
<1> DEFINE p == apply_prompt_completion(c, c.core.pending_prompt.effect_id, status)
<1>2. \/ complete_dispatched_follow_up(c, id, status) = c
      \/ complete_dispatched_follow_up(c, id, status) = done(c)
      \/ complete_dispatched_follow_up(c, id, status) = done(p)
  BY DEF complete_dispatched_follow_up
<1> HIDE DEF done
<1>3. Good(p) /\ Retires(c.core, p.core)
  BY PromptCompletionKeeps
<1> HIDE DEF p
<1>4. Good(done(p)) /\ Retires(c.core, done(p).core)
  BY <1>1, <1>3, RetiresTwice
<1> QED BY <1>1, <1>2, <1>4, KeepsSame DEF Keeps, WorkStep

\* What the loop engine records about the loop the controller runs changes
\* nothing else.
LEMMA UpdateLoop ==
    ASSUME NEW c, Steady(c), c.active_loop_id # None, NEW l \in LoopState
    PROVE  LET d == [c EXCEPT !.loops = [c.loops EXCEPT ![c.active_loop_id] = l]]
           IN  /\ Steady(d)
               /\ d.core = c.core /\ d.active_loop_id = c.active_loop_id
               /\ d.loops[c.active_loop_id] = l
               /\ d.auto_test_enabled = c.auto_test_enabled
               /\ d.auto_test_command = c.auto_test_command
               /\ d.auto_test_in_progress = c.auto_test_in_progress
<1> DEFINE d == [c EXCEPT !.loops = [c.loops EXCEPT ![c.active_loop_id] = l]]
<1>0. c.active_loop_id \in LoopIds /\ c.loops \in Loops
  BY DEF Steady, ControllerState
<1>1. [c.loops EXCEPT ![c.active_loop_id] = l] \in Loops
  BY <1>0 DEF Loops
<1>2. d \in ControllerState
  BY <1>1 DEF Steady, ControllerState
<1>3. /\ d.core = c.core /\ d.active_loop_id = c.active_loop_id
      /\ d.auto_test_enabled = c.auto_test_enabled
      /\ d.auto_test_command = c.auto_test_command
      /\ d.auto_test_in_progress = c.auto_test_in_progress
      /\ d.loops = [c.loops EXCEPT ![c.active_loop_id] = l]
  BY DEF Steady, ControllerState
<1>4. Mirrored(d)
  BY DEF Steady, ControllerState, Mirrored
<1>5. d.loops[c.active_loop_id] = l
  BY <1>0, <1>3 DEF Loops
<1>6. EngineExact(d)
  BY <1>0, <1>3, LoopAssumption DEF Steady, EngineExact, Loops
<1> HIDE DEF d
<1> QED BY <1>2, <1>3, <1>4, <1>5, <1>6 DEF Steady, d

\* The loop of the controller is registered with the engine.
LEMMA LoopRegistered ==
    ASSUME NEW c, Steady(c), c.active_loop_id # None
    PROVE  c.active_loop_id \in LoopIds /\ c.loops[c.active_loop_id] \in LoopState
BY DEF Steady, ControllerState, EngineExact, Loops

\* A break signalled by a tool is noted for the loop that runs, if one does.
LEMMA SignalBreakKeeps ==
    ASSUME NEW c, Good(c)
    PROVE  Keeps(c, signal_loop_break(c))
<1>1. CASE ~has_active_loop(c)
  BY <1>1, KeepsSame DEF signal_loop_break
<1>2. CASE has_active_loop(c)
  <2> DEFINE l == [c.loops[c.active_loop_id] EXCEPT !.break_signalled = TRUE]
             d == [c EXCEPT !.loops = [c.loops EXCEPT ![c.active_loop_id] = l]]
  <2>1. l \in LoopState
    BY <1>2, LoopRegistered DEF Good, has_active_loop, LoopState
  <2>2. signal_loop_break(c) = d
    BY <1>2 DEF signal_loop_break, signal_break, Good, Steady, ControllerState
  <2> HIDE DEF l
  <2>3. Steady(d) /\ d.core = c.core /\ d.active_loop_id = c.active_loop_id
    BY <1>2, <2>1, UpdateLoop DEF Good, has_active_loop
  <2>4. Good(d)
    BY <2>3 DEF Good, Linked
  <2> QED BY <2>2, <2>3, <2>4 DEF Keeps, WorkStep, Retires
<1> QED BY <1>1, <1>2

\* Observing the loop after a prompt: the controller stays Steady, the loop it
\* reports is the one it runs, and it is over only if there was one.
LEMMA ObserveLoop ==
    ASSUME NEW c, Good(c), NEW matched
    PROVE  LET o == observe_post_prompt_loop_state(c, matched)
           IN  /\ Steady(o.ctl)
               /\ o.ctl.core = c.core /\ o.ctl.active_loop_id = c.active_loop_id
               /\ o.active_loop \in ActiveLoopState \cup {None}
               /\ \/ ~o.finished /\ LoopLinked(o, c.active_loop_id)
                  \/ o.finished /\ o.active_loop = None /\ c.core.active_loop # None
<1> DEFINE o == observe_post_prompt_loop_state(c, matched)
<1>1. CASE ~has_active_loop(c)
  BY <1>1 DEF observe_post_prompt_loop_state, has_active_loop, LoopLinked, Good
<1>2. CASE has_active_loop(c)
  <2> DEFINE id == c.active_loop_id
             l == [c.loops[id] EXCEPT !.current_iteration = c.loops[id].current_iteration + 1]
             loops == record_iteration(c.loops, id)
             d == [c EXCEPT !.loops = loops]
             previous == c.core.active_loop
             al == [loop_id |-> id,
                    current_iteration |-> loops[id].current_iteration,
                    max_iterations |-> IF previous = None THEN 0 ELSE previous.max_iterations]
  <2>1. l \in LoopState /\ id \in LoopIds
    BY <1>2, LoopRegistered DEF Good, has_active_loop, LoopState
  <2>2. loops = [c.loops EXCEPT ![id] = l]
    BY DEF record_iteration
  <2>3. Steady(d) /\ d.core = c.core /\ d.active_loop_id = id /\ d.loops[id] = l
    BY <1>2, <2>1, <2>2, UpdateLoop DEF Good, has_active_loop
  <2>4. previous \in ActiveLoopState
    BY <1>2 DEF Good, Linked, LoopLinked, has_active_loop, Steady, ControllerState, CoreState
  <2>5. loops[id] \in LoopState
    BY <2>1, <2>2 DEF Good, Steady, ControllerState, Loops
  <2>6. al \in ActiveLoopState /\ al.loop_id = id
    BY <2>1, <2>4, <2>5 DEF ActiveLoopState, LoopState
  <2>7. \/ o = [ctl |-> d, active_loop |-> None, finished |-> TRUE]
        \/ o = [ctl |-> d, active_loop |-> al, finished |-> FALSE]
    BY <1>2 DEF observe_post_prompt_loop_state
  <2>8. c.core.active_loop # None /\ id # None /\ al # None
    BY <1>2, <2>6, NoneAssumption DEF Good, Linked, LoopLinked, has_active_loop
  <2> HIDE DEF o, d, al
  <2>9. CASE o = [ctl |-> d, active_loop |-> None, finished |-> TRUE]
    BY <2>9, <2>3, <2>8 DEF o
  <2>10. CASE o = [ctl |-> d, active_loop |-> al, finished |-> FALSE]
    <3>1. o.ctl = d /\ o.active_loop = al /\ ~o.finished
      BY <2>10
    <3> QED BY <3>1, <2>3, <2>6, <2>8 DEF o, LoopLinked
  <2> QED BY <2>7, <2>9, <2>10
<1> QED BY <1>1, <1>2

\* check_post_prompt: the reducer may plan a follow-up, and a finished loop is
\* forgotten with whatever was planned.
LEMMA CheckPostPromptKeeps ==
    ASSUME NEW c, Good(c), c.core.next_effect_id < MaxEffectId, NEW queued, NEW matched
    PROVE  Keeps(c, check_post_prompt(c, queued, matched).ctl)
<1> DEFINE o == observe_post_prompt_loop_state(c, matched)
           e == PostPromptEvaluation(c, o.active_loop, queued)
           r == reduce_post_prompt_evaluation(c.core, e)
           t == r.state
           d == apply_core_state(o.ctl, t)
<1>1. /\ Steady(o.ctl)
      /\ o.ctl.core = c.core /\ o.ctl.active_loop_id = c.active_loop_id
      /\ o.active_loop \in ActiveLoopState \cup {None}
      /\ \/ ~o.finished /\ LoopLinked(o, c.active_loop_id)
         \/ o.finished /\ o.active_loop = None /\ c.core.active_loop # None
  BY ObserveLoop
<1> HIDE DEF o
<1>2. /\ e.active_loop = o.active_loop
      /\ e.pending_follow_up = c.core.pending_follow_up
      /\ e.auto_test_enabled \in BOOLEAN
      /\ e.auto_test_command \in Commands \cup {None}
      /\ e.auto_test_in_progress \in BOOLEAN
  BY DEF PostPromptEvaluation, Good, Steady, ControllerState
<1> HIDE DEF e
<1>3. /\ CoreOK(t)
      /\ t.active_loop = o.active_loop
      /\ \/ t.pending_follow_up = c.core.pending_follow_up /\ Retires(c.core, t)
         \/ /\ Plans(c.core, t)
            /\ t.pending_follow_up.source = "LoopContinuation" => o.active_loop # None
      /\ c.core.active_loop # None /\ o.active_loop = None
            => LoopStateChanged(None) \in r.effects
  <2>1. CoreOK(c.core)
    BY DEF Good, Steady
  <2> QED BY <1>1, <1>2, <2>1, PostPromptEvaluated
<1>4. check_post_prompt(c, queued, matched).ctl
        = execute_post_prompt_effects(d, r.effects, o.finished)
  BY DEF check_post_prompt, o, e
<1> HIDE DEF r
<1>5. Steady(d) /\ d.core = t /\ d.active_loop_id = c.active_loop_id
  BY <1>1, <1>3, ApplyCoreState
<1>6. CASE o.finished
  <2>1. execute_post_prompt_effects(d, r.effects, o.finished) = finish_loop(d)
    BY <1>1, <1>3, <1>6 DEF execute_post_prompt_effects
  <2>2. Good(finish_loop(d)) /\ Retires(t, finish_loop(d).core)
        /\ finish_loop(d).core.pending_prompt = t.pending_prompt
        /\ finish_loop(d).core.pending_follow_up = None
    BY <1>1, <1>3, StoreAndFinish
  <2>3. WorkStep(c.core, finish_loop(d).core)
    BY <1>3, <2>2, RetiresTwice DEF WorkStep
  <2> QED BY <1>4, <2>1, <2>2, <2>3 DEF Keeps
<1>7. CASE ~o.finished
  <2>1. execute_post_prompt_effects(d, r.effects, o.finished) = d
    BY <1>7 DEF execute_post_prompt_effects
  <2>2. LoopLinked(t, c.active_loop_id)
    BY <1>1, <1>3, <1>7 DEF LoopLinked
  <2>3. FollowUpHasLoop(t)
    BY <1>1, <1>3, <1>7 DEF Good, Linked, FollowUpHasLoop, LoopLinked
  <2>4. Good(d)
    BY <1>5, <2>2, <2>3 DEF Good, Linked
  <2>5. WorkStep(c.core, d.core)
    BY <1>3, <1>5 DEF WorkStep
  <2> QED BY <1>4, <2>1, <2>4, <2>5 DEF Keeps
<1> QED BY <1>6, <1>7

\* A change of the reducer's loop alone, as three operations make it.
LEMMA SetCoreLoop ==
    ASSUME NEW c, Steady(c), NEW loop \in ActiveLoopState \cup {None}
    PROVE  LET d == [c EXCEPT !.core.active_loop = loop]
           IN  /\ Steady(d)
               /\ d.core = [c.core EXCEPT !.active_loop = loop]
               /\ d.core.active_loop = loop
               /\ d.core.pending_follow_up = c.core.pending_follow_up
               /\ d.active_loop_id = c.active_loop_id
               /\ Retires(c.core, d.core)
<1> DEFINE s == [c.core EXCEPT !.active_loop = loop]
           d == [c EXCEPT !.core.active_loop = loop]
<1>1. d.core = s /\ d.active_loop_id = c.active_loop_id /\ d.loops = c.loops
  BY DEF Steady, ControllerState
<1>2. CoreTyped(s) /\ s.active_loop = loop /\ s.pending_follow_up = c.core.pending_follow_up
  BY DEF Steady, CoreOK, CoreTyped, CoreState
<1>3. CoreBusy(s) /\ PromptIssued(s) /\ s.pending_tool_filter = None
  BY DEF Steady, CoreOK, CoreTyped, CoreState, CoreBusy, PromptIssued
<1>4. FollowUpIssued(s) /\ IdsDiffer(s)
  BY DEF Steady, CoreOK, CoreTyped, CoreState, FollowUpIssued, IdsDiffer
<1>5. d \in ControllerState
  BY <1>2 DEF Steady, ControllerState, CoreTyped
<1>6. Mirrored(d)
  BY DEF Steady, CoreOK, CoreTyped, CoreState, ControllerState, Mirrored
<1>7. EngineExact(d)
  BY <1>1 DEF Steady, EngineExact
<1>8. Retires(c.core, s)
  BY DEF Steady, CoreOK, CoreTyped, CoreState, Retires
<1> HIDE DEF d
<1> QED BY <1>1, <1>2, <1>3, <1>4, <1>5, <1>6, <1>7, <1>8 DEF Steady, CoreOK, d

\* Daemon mode continues a loop, or finishes it, without the reducer.
LEMMA MaybeContinueKeeps ==
    ASSUME NEW c, Good(c), NEW matched
    PROVE  Keeps(c, maybe_continue_loop(c, matched))
<1> DEFINE o == observe_post_prompt_loop_state(c, matched)
<1>1. /\ Steady(o.ctl)
      /\ o.ctl.core = c.core /\ o.ctl.active_loop_id = c.active_loop_id
      /\ o.active_loop \in ActiveLoopState \cup {None}
      /\ \/ ~o.finished /\ LoopLinked(o, c.active_loop_id)
         \/ o.finished /\ o.active_loop = None /\ c.core.active_loop # None
  BY ObserveLoop
<1>2. maybe_continue_loop(c, matched) = IF o.finished THEN finish_loop(o.ctl)
                                        ELSE [o.ctl EXCEPT !.core.active_loop = o.active_loop]
  BY DEF maybe_continue_loop
<1> HIDE DEF o
<1>3. CASE o.finished
  <2>1. /\ Good(finish_loop(o.ctl))
        /\ finish_loop(o.ctl).core = [c.core EXCEPT !.active_loop = None, !.pending_follow_up = None]
    BY ZenonT(40), <1>1, FinishLoop
  <2>2. Retires(c.core, finish_loop(o.ctl).core)
    BY <2>1 DEF Good, Steady, CoreOK, CoreTyped, CoreState, Retires
  <2> QED BY <1>2, <1>3, <2>1, <2>2 DEF Keeps, WorkStep
<1>4. CASE ~o.finished
  <2> DEFINE d == [o.ctl EXCEPT !.core.active_loop = o.active_loop]
  <2>1. /\ Steady(d) /\ d.core.active_loop = o.active_loop
        /\ d.core.pending_follow_up = c.core.pending_follow_up
        /\ d.active_loop_id = c.active_loop_id
        /\ Retires(c.core, d.core)
    BY <1>1, SetCoreLoop
  <2> HIDE DEF d
  <2>2. LoopLinked(d.core, d.active_loop_id)
    BY <1>1, <1>4, <2>1 DEF LoopLinked
  <2>3. FollowUpHasLoop(d.core)
    BY <1>1, <1>4, <2>1 DEF Good, Linked, FollowUpHasLoop, LoopLinked
  <2> QED BY <1>2, <1>4, <2>1, <2>2, <2>3 DEF Keeps, WorkStep, Good, Linked, d
<1> QED BY <1>3, <1>4

\* Registering a loop when the controller runs none, whatever the reducer
\* believes, makes the three views of the loop agree.
LEMMA StartLoopGood ==
    ASSUME NEW c, Steady(c), c.active_loop_id = None, CanRegister(c), NEW m \in Nat
    PROVE  LET d == start_loop(c, m)
           IN  Good(d) /\ Retires(c.core, d.core)
<1> DEFINE id == CHOOSE i \in FreeLoopIds(c.loops) : TRUE
           loop == NewLoop(id, m)
           entry == [current_iteration |-> 0, max_iterations |-> m, break_signalled |-> FALSE]
           b == [c EXCEPT !.core.active_loop = loop]
           ls == [c.loops EXCEPT ![id] = entry]
           d == [c EXCEPT !.loops = ls, !.active_loop_id = id, !.core.active_loop = loop]
<1>1. start_loop(c, m) = d
  BY DEF start_loop, register
<1>2. id \in LoopIds /\ c.loops[id] = None
  BY DEF CanRegister, FreeLoopIds
<1> HIDE DEF id
<1>3. loop \in ActiveLoopState /\ loop.loop_id = id /\ loop # None
  BY <1>2, NoneAssumption DEF NewLoop, ActiveLoopState
<1> HIDE DEF loop
<1>4. /\ Steady(b) /\ b.core.active_loop = loop
      /\ Retires(c.core, b.core)
  BY <1>3, SetCoreLoop
<1>5. entry \in LoopState /\ entry # None
  <2>1. 0 \in Nat /\ FALSE \in BOOLEAN
    OBVIOUS
  <2>2. entry \in LoopState
    BY <2>1, Zenon DEF LoopState
  <2> QED BY <2>2, LoopAssumption
<1> HIDE DEF entry
<1>6. ls \in Loops /\ ls[id] # None /\ \A i \in LoopIds : i # id => ls[i] = c.loops[i]
  BY <1>2, <1>5 DEF Steady, ControllerState, Loops
<1> HIDE DEF ls
<1>7. d.core = b.core /\ d.active_loop_id = id /\ d.loops = ls
  BY DEF Steady, ControllerState
<1>8. b.core \in CoreState
  BY <1>4 DEF Steady, ControllerState
<1>9. d \in ControllerState
  BY <1>2, <1>6, <1>7, <1>8 DEF Steady, ControllerState
<1>10. Mirrored(d)
  BY DEF Steady, ControllerState, CoreState, Mirrored
<1>11. EngineExact(d)
  BY <1>2, <1>6, <1>7, NoneAssumption DEF Steady, EngineExact
<1> HIDE DEF d, b
<1>12. Linked(d)
  BY <1>2, <1>3, <1>4, <1>7, NoneAssumption DEF Linked, LoopLinked, FollowUpHasLoop
<1> QED BY <1>1, <1>4, <1>7, <1>9, <1>10, <1>11, <1>12 DEF Good, Steady

\* Forgetting the loop keeps everything else.
LEMMA FinishLoopKeeps ==
    ASSUME NEW c, Good(c)
    PROVE  Keeps(c, finish_loop(c))
<1>1. /\ Good(finish_loop(c))
      /\ finish_loop(c).core = [c.core EXCEPT !.active_loop = None, !.pending_follow_up = None]
  BY FinishLoop DEF Good
<1>2. Retires(c.core, finish_loop(c).core)
  BY <1>1 DEF Good, Steady, CoreOK, CoreTyped, CoreState, Retires
<1> QED BY <1>1, <1>2 DEF Keeps, WorkStep

\* The host's loop is started or forgotten to match the host.
LEMMA SyncLoopKeeps ==
    ASSUME NEW c, Good(c), NEW status, status # None => status \in Nat
    PROVE  Keeps(c, sync_loop_status(c, status))
<1>1. CASE status # None /\ ~has_active_loop(c)
  <2>1. CASE CanRegister(c)
    <3>1. Good(start_loop(c, status)) /\ Retires(c.core, start_loop(c, status).core)
      BY <1>1, <2>1, StartLoopGood DEF Good, has_active_loop
    <3> QED BY <1>1, <3>1 DEF sync_loop_status, Keeps, WorkStep
  <2>2. CASE ~CanRegister(c)
    BY <1>1, <2>2, KeepsSame DEF sync_loop_status, start_loop
  <2> QED BY <2>1, <2>2
<1>2. CASE ~(status # None /\ ~has_active_loop(c))
  BY <1>2, KeepsSame, FinishLoopKeeps DEF sync_loop_status
<1> QED BY <1>1, <1>2

\* StartLoop: the reducer accepts, then the loop is registered or the reducer
\* is told to forget it.
LEMMA HandleStartLoopKeeps ==
    ASSUME NEW c, Good(c), NEW m \in Nat
    PROVE  Keeps(c, handle_start_loop(c, m))
<1> DEFINE s == c.core
           loop == NewLoop(SessionLoop, m)
           t == [s EXCEPT !.active_loop = loop]
           d == apply_core_state(c, t)
           Accepted == s.pending_follow_up = None /\ s.active_loop = None
<1>1. \/ handle_start_loop(c, m) = c
      \/ Accepted /\ handle_start_loop(c, m) = execute_start_loop_effects(d, m)
  BY DEF handle_start_loop, reduce_start_loop, transitioned, rejection
<1>2. ASSUME Accepted
      PROVE  Keeps(c, execute_start_loop_effects(d, m))
  <2>1. loop \in ActiveLoopState
    BY DEF NewLoop, ActiveLoopState
  <2> HIDE DEF loop
  <2>2. CoreOK(t) /\ t.pending_follow_up = None /\ Retires(s, t)
    <3>1. CoreTyped(t) /\ t.pending_follow_up = None
      BY <1>2, <2>1 DEF Good, Steady, CoreOK, CoreTyped, CoreState
    <3>2. CoreBusy(t) /\ PromptIssued(t) /\ t.pending_tool_filter = None
      BY DEF Good, Steady, CoreOK, CoreTyped, CoreState, CoreBusy, PromptIssued
    <3>3. FollowUpIssued(t) /\ IdsDiffer(t)
      BY <3>1 DEF FollowUpIssued, IdsDiffer
    <3>4. Retires(s, t)
      BY DEF Good, Steady, CoreOK, CoreTyped, CoreState, Retires
    <3> QED BY <3>1, <3>2, <3>3, <3>4 DEF CoreOK
  <2> HIDE DEF t
  <2>3. Steady(d) /\ d.core = t /\ d.active_loop_id = None
    BY <1>2, <2>2, ApplyCoreState DEF Good, Linked, LoopLinked
  <2> HIDE DEF d
  <2>4. CASE CanRegister(d)
    <3>1. Good(start_loop(d, m)) /\ Retires(t, start_loop(d, m).core)
      BY <2>3, <2>4, StartLoopGood
    <3> QED BY <2>2, <2>4, <3>1, RetiresTwice DEF execute_start_loop_effects, Keeps, WorkStep
  <2>5. CASE ~CanRegister(d)
    <3> DEFINE f == [d EXCEPT !.core.active_loop = None]
    <3>1. execute_start_loop_effects(d, m) = f
      BY <2>5 DEF execute_start_loop_effects, start_loop
    <3>2. /\ Steady(f)
          /\ f.core.active_loop = None
          /\ f.core.pending_follow_up = None
          /\ f.active_loop_id = None
          /\ Retires(t, f.core)
      BY <2>2, <2>3, SetCoreLoop
    <3> HIDE DEF f
    <3>3. Good(f)
      BY <3>2 DEF Good, Linked, LoopLinked, FollowUpHasLoop
    <3> QED BY <2>2, <3>1, <3>2, <3>3, RetiresTwice DEF Keeps, WorkStep
  <2> QED BY <2>4, <2>5
<1> QED BY <1>1, <1>2, KeepsSame

\* StopLoop: accepted only without a pending follow-up.
LEMMA HandleStopLoopKeeps ==
    ASSUME NEW c, Good(c)
    PROVE  Keeps(c, handle_stop_loop(c))
<1> DEFINE s == c.core
           t == [s EXCEPT !.active_loop = None]
           d == finish_loop(apply_core_state(c, t))
<1>1. handle_stop_loop(c) = c \/ handle_stop_loop(c) = d
  BY DEF handle_stop_loop, stop_loop, reduce_stop_loop, transitioned, rejection
<1>2. CoreOK(t) /\ Retires(s, t)
  <2>1. CoreTyped(t)
    BY DEF Good, Steady, CoreOK, CoreTyped, CoreState
  <2>2. CoreBusy(t) /\ PromptIssued(t) /\ t.pending_tool_filter = None
    BY DEF Good, Steady, CoreOK, CoreTyped, CoreState, CoreBusy, PromptIssued
  <2>3. FollowUpIssued(t) /\ IdsDiffer(t)
    BY DEF Good, Steady, CoreOK, CoreTyped, CoreState, FollowUpIssued, IdsDiffer
  <2>4. Retires(s, t)
    BY DEF Good, Steady, CoreOK, CoreTyped, CoreState, Retires
  <2> QED BY <2>1, <2>2, <2>3, <2>4 DEF CoreOK
<1> HIDE DEF t
<1>3. Good(d) /\ Retires(t, d.core)
  BY <1>2, StoreAndFinish DEF Good
<1> QED BY <1>1, <1>2, <1>3, KeepsSame, RetiresTwice DEF Keeps, WorkStep

\* Setting the thinking level, or rejecting an unknown one.
LEMMA SetThinkingKeeps ==
    ASSUME NEW c, Good(c), NEW level \in ThinkingLevels \cup {None}
    PROVE  /\ Keeps(c, handle_set_thinking_level(c, level))
           /\ level # None
                => Keeps(c, apply_core_state(c, reduce_set_thinking_level(c.core, level).state))
<1> DEFINE s == c.core
           t == [s EXCEPT !.thinking_level = level]
<1>1. CASE level = None
  BY <1>1, KeepsSame DEF handle_set_thinking_level, reduce_set_thinking_level, rejection
<1>2. CASE level # None
  <2>1. /\ handle_set_thinking_level(c, level) = apply_core_state(c, t)
        /\ reduce_set_thinking_level(s, level).state = t
    BY <1>2 DEF handle_set_thinking_level, reduce_set_thinking_level, transitioned
  <2>2. /\ CoreTyped(t) /\ t.active_loop = s.active_loop
        /\ t.pending_follow_up = s.pending_follow_up
    BY <1>2 DEF Good, Steady, CoreOK, CoreTyped, CoreState
  <2>3. CoreBusy(t) /\ PromptIssued(t) /\ t.pending_tool_filter = None
    BY DEF Good, Steady, CoreOK, CoreTyped, CoreState, CoreBusy, PromptIssued
  <2>4. FollowUpIssued(t) /\ IdsDiffer(t)
    BY DEF Good, Steady, CoreOK, CoreTyped, CoreState, FollowUpIssued, IdsDiffer
  <2>5. Retires(s, t)
    BY DEF Good, Steady, CoreOK, CoreTyped, CoreState, Retires
  <2> HIDE DEF t
  <2>6. Good(apply_core_state(c, t)) /\ apply_core_state(c, t).core = t
    BY <2>2, <2>3, <2>4, StoreCore DEF CoreOK
  <2> QED BY <2>1, <2>5, <2>6 DEF Keeps, WorkStep
<1> QED BY <1>1, <1>2

\* Cycling the thinking level never meets an unknown one.
LEMMA CycleThinkingKeeps ==
    ASSUME NEW c, Good(c)
    PROVE  Keeps(c, handle_cycle_thinking_level(c))
<1> DEFINE level == next_level(c.core.thinking_level)
<1>1. level \in ThinkingLevels
  BY DEF next_level, ThinkingLevels, Good, Steady, ControllerState, CoreState
<1> HIDE DEF level
<1>2. level # None
  BY <1>1, ControllerAssumption
<1> QED BY <1>1, <1>2, SetThinkingKeeps
        DEF handle_cycle_thinking_level, reduce_cycle_thinking_level, level

\* SetDisabledTools asks the reducer, applies the filter and reports it within
\* one command: an id is spent and no filter stays pending.
LEMMA SetDisabledToolsKeeps ==
    ASSUME NEW c, Good(c), c.core.next_effect_id < MaxEffectId, NEW tools \in ToolSets
    PROVE  Keeps(c, handle_set_disabled_tools(c, tools))
<1> DEFINE s == c.core
           id == allocate_effect_id(s)
           filter == [effect_id |-> id, requested |-> tools]
           t == [s EXCEPT !.next_effect_id = id, !.disabled_tools = tools,
                          !.pending_tool_filter = filter]
           u == [t EXCEPT !.pending_tool_filter = None]
           d == apply_core_state(c, t)
<1>0. s \in CoreState /\ CoreOK(s) /\ c \in ControllerState
  BY DEF Good, Steady, CoreOK, CoreTyped
<1>1. /\ id = s.next_effect_id + 1
      /\ id \in EffectIds
      /\ id <= MaxEffectId
  BY <1>0, FreshId DEF CoreOK
<1>2. filter \in PendingToolFilterState /\ filter # None
      /\ filter.effect_id = id /\ filter.requested = tools
  BY <1>1, NoneAssumption DEF PendingToolFilterState
<1>3. handle_set_disabled_tools(c, tools) = apply_tool_filter_feedback(d, t.pending_tool_filter.effect_id, tools)
  BY <1>0 DEF handle_set_disabled_tools, reduce_set_disabled_tools, transitioned, CoreOK
<1> HIDE DEF id, filter
<1>4. t.pending_tool_filter = filter
  BY <1>0 DEF CoreState
<1>5. d.core = t
  BY <1>0 DEF apply_core_state, ControllerState
<1>6. handle_set_disabled_tools(c, tools) = apply_core_state(d, u)
  <2> HIDE DEF t, d
  <2>1. /\ reduce_tool_filter_applied(t, id, tools).ok
        /\ reduce_tool_filter_applied(t, id, tools).state = u
    BY <1>2, <1>4 DEF reduce_tool_filter_applied, transitioned
  <2> QED BY <1>2, <1>3, <1>4, <1>5, <2>1 DEF apply_tool_filter_feedback
<1>7. /\ d \in ControllerState
      /\ d.active_loop_id = c.active_loop_id /\ d.loops = c.loops
      /\ EngineExact(d)
  <2>1. t \in CoreState
    BY <1>0, <1>1, <1>2 DEF CoreState
  <2> HIDE DEF t
  <2>2. d \in ControllerState
    BY <1>0, <2>1 DEF apply_core_state, ControllerState, CoreState
  <2>3. d.active_loop_id = c.active_loop_id /\ d.loops = c.loops
    BY <1>0 DEF apply_core_state, ControllerState
  <2> HIDE DEF d
  <2> QED BY <2>2, <2>3 DEF EngineExact, Good, Steady
<1>8. /\ CoreTyped(u) /\ u.pending_tool_filter = None
      /\ u.active_loop = s.active_loop /\ u.pending_follow_up = s.pending_follow_up
      /\ u.next_effect_id = id
  BY <1>0, <1>1 DEF CoreTyped, CoreState
<1>9. CoreBusy(u) /\ PromptIssued(u)
  BY <1>0, <1>1 DEF CoreOK, CoreState, CoreBusy, PromptIssued, EffectIds
<1>10. FollowUpIssued(u) /\ IdsDiffer(u)
  BY <1>0, <1>1 DEF CoreOK, CoreState, FollowUpIssued, IdsDiffer, EffectIds
<1>11. Spends(s, u)
  BY <1>0, <1>1 DEF CoreState, Spends
<1> HIDE DEF u, d
<1>12. /\ Steady(apply_core_state(d, u))
       /\ apply_core_state(d, u).core = u
       /\ apply_core_state(d, u).active_loop_id = c.active_loop_id
  BY <1>7, <1>8, <1>9, <1>10, ApplyAnyState DEF CoreOK
<1>13. Linked(apply_core_state(d, u))
  BY <1>8, <1>12 DEF Good, Linked, LoopLinked, FollowUpHasLoop
<1> QED BY <1>6, <1>11, <1>12, <1>13 DEF Keeps, WorkStep, Good

\* Abort retires the prompt with the busy flags of core and controller.
LEMMA AbortKeeps ==
    ASSUME NEW c, Good(c)
    PROVE  Keeps(c, abort_prompt(c))
<1> DEFINE d == abort_prompt(c)
<1> USE DEF abort_prompt
<1>0. c \in ControllerState /\ c.core \in CoreState
  BY DEF Good, Steady, ControllerState
<1>1. CoreTyped(d.core) /\ d \in ControllerState
  <2>1. CoreTyped(d.core)
    BY ZenonT(40), <1>0 DEF Good, Steady, CoreOK, CoreTyped, ControllerState, CoreState
  <2>2. d \in ControllerState
    BY <1>0, <2>1 DEF CoreTyped, ControllerState
  <2> QED BY <2>1, <2>2
<1>2. CoreBusy(d.core) /\ PromptIssued(d.core) /\ d.core.pending_tool_filter = None
  BY <1>0 DEF Good, Steady, CoreOK, ControllerState, CoreState, CoreBusy, PromptIssued
<1>3. FollowUpIssued(d.core) /\ IdsDiffer(d.core)
  BY <1>0 DEF Good, Steady, CoreOK, ControllerState, CoreState, FollowUpIssued, IdsDiffer
<1>4. Mirrored(d)
  BY <1>0 DEF Good, Steady, ControllerState, CoreState, Mirrored
<1>5. EngineExact(d)
  BY <1>0 DEF Good, Steady, ControllerState, EngineExact
<1>6. Linked(d)
  BY <1>0 DEF Good, ControllerState, CoreState, Linked, LoopLinked, FollowUpHasLoop
<1>7. Retires(c.core, d.core)
  BY <1>0 DEF ControllerState, CoreState, Retires
<1> QED BY <1>1, <1>2, <1>3, <1>4, <1>5, <1>6, <1>7 DEF Keeps, Good, Steady, CoreOK, WorkStep

\* The auto-test guard is set in core and controller.
LEMMA MaybeAutoTestKeeps ==
    ASSUME NEW c, Good(c)
    PROVE  Keeps(c, maybe_auto_test(c))
<1> DEFINE d == maybe_auto_test(c)
<1> USE DEF maybe_auto_test
<1>0. c \in ControllerState /\ c.core \in CoreState
  BY DEF Good, Steady, ControllerState
<1>1. CoreTyped(d.core) /\ d \in ControllerState
  <2>1. CoreTyped(d.core)
    BY ZenonT(40), <1>0 DEF Good, Steady, CoreOK, CoreTyped, ControllerState, CoreState
  <2>2. d \in ControllerState
    BY <1>0, <2>1 DEF CoreTyped, ControllerState
  <2> QED BY <2>1, <2>2
<1>2. CoreBusy(d.core) /\ PromptIssued(d.core) /\ d.core.pending_tool_filter = None
  BY <1>0 DEF Good, Steady, CoreOK, ControllerState, CoreState, CoreBusy, PromptIssued
<1>3. FollowUpIssued(d.core) /\ IdsDiffer(d.core)
  BY <1>0 DEF Good, Steady, CoreOK, ControllerState, CoreState, FollowUpIssued, IdsDiffer
<1>4. Mirrored(d)
  BY <1>0 DEF Good, Steady, ControllerState, CoreState, Mirrored
<1>5. EngineExact(d)
  BY <1>0 DEF Good, Steady, ControllerState, EngineExact
<1>6. Linked(d)
  BY <1>0 DEF Good, ControllerState, CoreState, Linked, LoopLinked, FollowUpHasLoop
<1>7. Retires(c.core, d.core)
  BY <1>0 DEF ControllerState, CoreState, Retires
<1> QED BY <1>1, <1>2, <1>3, <1>4, <1>5, <1>6, <1>7 DEF Keeps, Good, Steady, CoreOK, WorkStep

\* The auto-test guard is cleared in core and controller.
LEMMA ClearAutoTestKeeps ==
    ASSUME NEW c, Good(c)
    PROVE  Keeps(c, clear_auto_test(c))
<1> DEFINE d == clear_auto_test(c)
<1> USE DEF clear_auto_test
<1>0. c \in ControllerState /\ c.core \in CoreState
  BY DEF Good, Steady, ControllerState
<1>1. CoreTyped(d.core) /\ d \in ControllerState
  <2>1. CoreTyped(d.core)
    BY ZenonT(40), <1>0 DEF Good, Steady, CoreOK, CoreTyped, ControllerState, CoreState
  <2>2. d \in ControllerState
    BY <1>0, <2>1 DEF CoreTyped, ControllerState
  <2> QED BY <2>1, <2>2
<1>2. CoreBusy(d.core) /\ PromptIssued(d.core) /\ d.core.pending_tool_filter = None
  BY <1>0 DEF Good, Steady, CoreOK, ControllerState, CoreState, CoreBusy, PromptIssued
<1>3. FollowUpIssued(d.core) /\ IdsDiffer(d.core)
  BY <1>0 DEF Good, Steady, CoreOK, ControllerState, CoreState, FollowUpIssued, IdsDiffer
<1>4. Mirrored(d)
  BY <1>0 DEF Good, Steady, ControllerState, CoreState, Mirrored
<1>5. EngineExact(d)
  BY <1>0 DEF Good, Steady, ControllerState, EngineExact
<1>6. Linked(d)
  BY <1>0 DEF Good, ControllerState, CoreState, Linked, LoopLinked, FollowUpHasLoop
<1>7. Retires(c.core, d.core)
  BY <1>0 DEF ControllerState, CoreState, Retires
<1> QED BY <1>1, <1>2, <1>3, <1>4, <1>5, <1>6, <1>7 DEF Keeps, Good, Steady, CoreOK, WorkStep

\* The auto-test settings change in core and controller.
LEMMA SetAutoTestKeeps ==
    ASSUME NEW c, Good(c),
           NEW enabled \in BOOLEAN, NEW command \in Commands \cup {None}
    PROVE  Keeps(c, set_auto_test(c, enabled, command))
<1> DEFINE d == set_auto_test(c, enabled, command)
<1> USE DEF set_auto_test
<1>0. c \in ControllerState /\ c.core \in CoreState
  BY DEF Good, Steady, ControllerState
<1>1. CoreTyped(d.core) /\ d \in ControllerState
  <2>1. CoreTyped(d.core)
    BY ZenonT(40), <1>0 DEF Good, Steady, CoreOK, CoreTyped, ControllerState, CoreState
  <2>2. d \in ControllerState
    BY <1>0, <2>1 DEF CoreTyped, ControllerState
  <2> QED BY <2>1, <2>2
<1>2. CoreBusy(d.core) /\ PromptIssued(d.core) /\ d.core.pending_tool_filter = None
  BY <1>0 DEF Good, Steady, CoreOK, ControllerState, CoreState, CoreBusy, PromptIssued
<1>3. FollowUpIssued(d.core) /\ IdsDiffer(d.core)
  BY <1>0 DEF Good, Steady, CoreOK, ControllerState, CoreState, FollowUpIssued, IdsDiffer
<1>4. Mirrored(d)
  BY <1>0 DEF Good, Steady, ControllerState, CoreState, Mirrored
<1>5. EngineExact(d)
  BY <1>0 DEF Good, Steady, ControllerState, EngineExact
<1>6. Linked(d)
  BY <1>0 DEF Good, ControllerState, CoreState, Linked, LoopLinked, FollowUpHasLoop
<1>7. Retires(c.core, d.core)
  BY <1>0 DEF ControllerState, CoreState, Retires
<1> QED BY <1>1, <1>2, <1>3, <1>4, <1>5, <1>6, <1>7 DEF Keeps, Good, Steady, CoreOK, WorkStep

\* /autotest changes the mirrors of the settings alone.
LEMMA SlashAutoTestKeeps ==
    ASSUME NEW c, Good(c), NEW args \in Commands \cup {None}
    PROVE  Keeps(c, slash_autotest(c, args))
<1> DEFINE d == slash_autotest(c, args)
<1> USE DEF slash_autotest
<1>0. c \in ControllerState /\ c.core \in CoreState
  BY DEF Good, Steady, ControllerState
<1>1. CoreTyped(d.core) /\ d \in ControllerState
  <2>1. CoreTyped(d.core)
    BY <1>0 DEF Good, Steady, CoreOK, CoreTyped, ControllerState, CoreState
  <2>2. d \in ControllerState
    BY <1>0, <2>1 DEF CoreTyped, ControllerState
  <2> QED BY <2>1, <2>2
<1>2. CoreBusy(d.core) /\ PromptIssued(d.core) /\ d.core.pending_tool_filter = None
  BY <1>0 DEF Good, Steady, CoreOK, ControllerState, CoreState, CoreBusy, PromptIssued
<1>3. FollowUpIssued(d.core) /\ IdsDiffer(d.core)
  BY <1>0 DEF Good, Steady, CoreOK, ControllerState, CoreState, FollowUpIssued, IdsDiffer
<1>4. Mirrored(d)
  BY <1>0 DEF Good, Steady, ControllerState, CoreState, Mirrored
<1>5. EngineExact(d)
  BY <1>0 DEF Good, Steady, ControllerState, EngineExact
<1>6. Linked(d)
  BY <1>0 DEF Good, ControllerState, CoreState, Linked, LoopLinked, FollowUpHasLoop
<1>7. Retires(c.core, d.core)
  BY <1>0 DEF ControllerState, CoreState, Retires
<1> QED BY <1>1, <1>2, <1>3, <1>4, <1>5, <1>6, <1>7 DEF Keeps, Good, Steady, CoreOK, WorkStep

\* An agent event starts a prompt, signals a break or changes nothing.
LEMMA AgentEventKeeps ==
    ASSUME NEW c, Good(c), c.core.next_effect_id < MaxEffectId, NEW event, NEW embedded
    PROVE  Keeps(c, process_agent_event(c, event, embedded))
<1>1. /\ Keeps(c, start_prompt(c, None))
      /\ Keeps(c, signal_loop_break(c))
      /\ Keeps(c, c)
  BY StartPromptKeeps, SignalBreakKeeps, KeepsSame
<1> QED BY <1>1 DEF process_agent_event

------------------------------------------------------------------------------
(* The inductive invariant holds, and every step is a step of PendingWork. *)

\* new and new_embedded make a controller that satisfies the invariant.
LEMMA InitIInv == Init => IInv
<1> SUFFICES ASSUME Init PROVE IInv
  OBVIOUS
<1> PICK level \in ThinkingLevels, enabled \in BOOLEAN, command \in Commands \cup {None} :
            ctl = NewController(level, enabled, command)
  BY DEF Init
<1> DEFINE s == InitialCore(level, enabled, command)
<1>1. CoreTyped(s)
  BY CoreAssumption, ControllerAssumption DEF CoreTyped, CoreState, InitialCore, EffectIds
<1>2. CoreOK(s)
  BY <1>1 DEF CoreOK, CoreBusy, PromptIssued, FollowUpIssued, IdsDiffer, InitialCore
<1>3. ctl.core = s /\ ctl.active_loop_id = None /\ ctl.loops = [id \in LoopIds |-> None]
  BY DEF NewController
<1>4. ctl.loops \in Loops
  BY <1>3 DEF Loops
<1>5. ctl \in ControllerState
  BY <1>1, <1>4, CoreAssumption DEF NewController, ControllerState, CoreTyped
<1>6. Mirrored(ctl)
  BY DEF Mirrored, NewController, InitialCore
<1>7. EngineExact(ctl)
  BY <1>3, NoneAssumption DEF EngineExact
<1>8. Linked(ctl)
  BY <1>3 DEF Linked, LoopLinked, FollowUpHasLoop, InitialCore
<1> QED BY <1>2, <1>3, <1>5, <1>6, <1>7, <1>8 DEF IInv, Good, Steady, Init

\* Every operation keeps the invariant and is a step of PendingWork.
LEMMA StepKeeps ==
    ASSUME IInv, Next
    PROVE  Keeps(ctl, ctl') /\ has_agent' = has_agent
<1> USE DEF IInv, Becomes, MayAllocate, core
<1>0. /\ core.next_effect_id \in Nat
      /\ \A id \in IssuedIds : id \in EffectIds
  BY DEF Good, Steady, ControllerState, CoreState, EffectIds, IssuedIds
<1>1. ASSUME NEW o \in IssuedIds \cup {None}, StartPromptRequest(o)
      PROVE  Keeps(ctl, ctl') /\ has_agent' = has_agent
  <2>1. o \in EffectIds \cup {None}
    BY <1>0
  <2> QED BY <1>1, <2>1, StartPromptKeeps DEF StartPromptRequest
<1>2. ASSUME NEW id \in IssuedIds, NEW status \in Completions, CompletePrompt(id, status)
      PROVE  Keeps(ctl, ctl') /\ has_agent' = has_agent
  BY <1>2, PromptCompletionKeeps DEF CompletePrompt, Keeps, WorkStep
<1>3. ASSUME NEW status \in Completions, FinishEmbeddedPrompt(status)
      PROVE  Keeps(ctl, ctl') /\ has_agent' = has_agent
  <2>1. Keeps(ctl, finish_embedded_prompt(ctl, status))
    BY KeepsSame, PromptCompletionKeeps DEF finish_embedded_prompt, Keeps, WorkStep
  <2> QED BY <1>3, <2>1 DEF FinishEmbeddedPrompt
<1>4. ASSUME NEW event, FeedEvent(event)
      PROVE  Keeps(ctl, ctl') /\ has_agent' = has_agent
  BY <1>4, AgentEventKeeps DEF FeedEvent
<1>5. ASSUME NEW queued, NEW matched, CheckPostPrompt(queued, matched)
      PROVE  Keeps(ctl, ctl') /\ has_agent' = has_agent
  BY <1>5, CheckPostPromptKeeps DEF CheckPostPrompt
<1>6. ASSUME NEW id, NEW accepted, AckFollowUpDispatch(id, accepted)
      PROVE  Keeps(ctl, ctl') /\ has_agent' = has_agent
  BY <1>6, AckKeeps DEF AckFollowUpDispatch
<1>7. ASSUME NEW id, NEW status, CompleteDispatchedFollowUp(id, status)
      PROVE  Keeps(ctl, ctl') /\ has_agent' = has_agent
  BY <1>7, CompleteFollowUpKeeps DEF CompleteDispatchedFollowUp
<1>8. ASSUME NEW status \in 1..MaxIterations \cup {None}, SyncLoopStatus(status)
      PROVE  Keeps(ctl, ctl') /\ has_agent' = has_agent
  <2>1. status # None => status \in Nat
    BY ControllerAssumption
  <2> QED BY <1>8, <2>1, SyncLoopKeeps DEF SyncLoopStatus
<1>9. ASSUME MaybeAutoTest \/ ClearAutoTest \/ Abort
      PROVE  Keeps(ctl, ctl') /\ has_agent' = has_agent
  BY <1>9, MaybeAutoTestKeeps, ClearAutoTestKeeps, AbortKeeps DEF MaybeAutoTest, ClearAutoTest, Abort
<1>10. ASSUME NEW matched, MaybeContinueLoop(matched)
       PROVE  Keeps(ctl, ctl') /\ has_agent' = has_agent
  BY <1>10, MaybeContinueKeeps DEF MaybeContinueLoop
<1>11. ASSUME NEW enabled \in BOOLEAN, NEW command \in Commands \cup {None},
              SetAutoTest(enabled, command)
       PROVE  Keeps(ctl, ctl') /\ has_agent' = has_agent
  <2>1. ctl.auto_test_command \in Commands \cup {None}
    BY DEF Good, Steady, ControllerState
  <2>2. Keeps(ctl, SetAutoTestCommand(ctl, enabled, command))
    BY <2>1, SetAutoTestKeeps DEF SetAutoTestCommand
  <2>3. Keeps(ctl, set_auto_test(ctl, enabled, command))
    BY SetAutoTestKeeps
  <2> QED BY <1>11, <2>2, <2>3 DEF SetAutoTest
<1>12. ASSUME NEW args \in Commands \cup {None}, SlashAutoTest(args)
       PROVE  Keeps(ctl, ctl') /\ has_agent' = has_agent
  BY <1>12, SlashAutoTestKeeps DEF SlashAutoTest
<1>13. ASSUME NEW level \in ThinkingLevels \cup {None}, SetThinkingLevel(level)
       PROVE  Keeps(ctl, ctl') /\ has_agent' = has_agent
  BY <1>13, SetThinkingKeeps DEF SetThinkingLevel
<1>14. ASSUME CycleThinkingLevel \/ StopLoop
       PROVE  Keeps(ctl, ctl') /\ has_agent' = has_agent
  BY <1>14, CycleThinkingKeeps, HandleStopLoopKeeps DEF CycleThinkingLevel, StopLoop
<1>15. ASSUME NEW tools \in ToolSets, SetDisabledTools(tools)
       PROVE  Keeps(ctl, ctl') /\ has_agent' = has_agent
  BY <1>15, SetDisabledToolsKeeps DEF SetDisabledTools
<1>16. ASSUME NEW m \in 1..MaxIterations, StartLoop(m)
       PROVE  Keeps(ctl, ctl') /\ has_agent' = has_agent
  <2>1. m \in Nat
    BY ControllerAssumption
  <2> QED BY <1>16, <2>1, HandleStartLoopKeeps DEF StartLoop
<1> QED BY <1>1, <1>2, <1>3, <1>4, <1>5, <1>6, <1>7, <1>8, <1>9, <1>10, <1>11, <1>12, <1>13,
           <1>14, <1>15, <1>16
        DEF Next

\* The inductive invariant holds in every reachable state of the controller.
THEOREM Invariant == Spec => []IInv
<1>1. Init => IInv
  BY InitIInv
<1>2. IInv /\ [Next]_vars => IInv'
  <2>1. ASSUME IInv, Next PROVE IInv'
    BY <2>1, StepKeeps DEF Keeps, IInv
  <2>2. ASSUME IInv, UNCHANGED vars PROVE IInv'
    BY <2>2 DEF vars, IInv
  <2> QED BY <2>1, <2>2
<1> QED BY <1>1, <1>2, PTL DEF Spec

\* Every reachable controller state has its type and respects the bound on ids.
THEOREM TypeCorrect == Spec => []TypeOK
<1>1. IInv => TypeOK
  BY DEF IInv, Good, Steady, CoreOK, CoreTyped, TypeOK, core
<1> QED BY <1>1, Invariant, PTL

\* A session is busy exactly while a prompt is pending, in any order of calls.
THEOREM BusyCorrect == Spec => []BusyIffPromptPending
<1>1. IInv => BusyIffPromptPending
  BY DEF IInv, Good, Steady, CoreOK, CoreBusy, Mirrored, BusyIffPromptPending, core
<1> QED BY <1>1, Invariant, PTL

\* The mirrors never drift from the core state.
THEOREM MirrorsCorrect == Spec => []MirrorsFollowCore
<1>1. IInv => MirrorsFollowCore
  BY DEF IInv, Good, Steady, Mirrored, MirrorsFollowCore, core
<1> QED BY <1>1, Invariant, PTL

\* Reducer, controller and loop engine agree on the loop: no registration leaks.
THEOREM LoopsCorrect == Spec => []LoopRegistrationExact
<1>1. IInv => LoopRegistrationExact
  BY DEF IInv, Good, Steady, Linked, LoopLinked, EngineExact, LoopRegistrationExact,
         has_active_loop, core
<1> QED BY <1>1, Invariant, PTL

\* A continuation is never pending without its loop.
THEOREM FollowUpsCorrect == Spec => []LoopFollowUpHasLoop
<1>1. IInv => LoopFollowUpHasLoop
  BY DEF IInv, Good, Linked, FollowUpHasLoop, LoopFollowUpHasLoop, core
<1> QED BY <1>1, Invariant, PTL

\* Pending prompt and follow-up carry issued ids, and never the same one.
THEOREM IdsCorrect == Spec => []PendingIdsCorrelate
<1>1. IInv => PendingIdsCorrelate
  BY DEF IInv, Good, Steady, CoreOK, PromptIssued, FollowUpIssued, IdsDiffer,
         PendingIdsCorrelate, IssuedIds, core
<1> QED BY <1>1, Invariant, PTL

\* Feedback with an id of no pending work changes nothing, and the completion of a follow-up leaves
\* the prompt of somebody else alone: the controller returns early (apply_prompt_completion,
\* ack_follow_up_dispatch, the preflight of complete_dispatched_follow_up).
THEOREM FeedbackCorrect == Spec => FeedbackCorrelates
<1>1. ASSUME NEW id \in IssuedIds, NEW status \in Completions, NEW accepted \in BOOLEAN,
             vars' # vars
      PROVE  /\ CompletePrompt(id, status) => id = PromptId
             /\ AckFollowUpDispatch(id, accepted) => id = FollowUpId
             /\ CompleteDispatchedFollowUp(id, status) => id = FollowUpId /\ PromptOf(id)
  <2>1. ASSUME NEW c, Becomes(c) PROVE c # ctl
    BY <1>1, <2>1 DEF Becomes, vars
  <2>2. CompletePrompt(id, status) => id = PromptId
    <3>1. ASSUME id # PromptId PROVE apply_prompt_completion(ctl, id, status) = ctl
      BY <3>1 DEF apply_prompt_completion, reduce_prompt_completed, rejection, PromptId, core
    <3> QED BY <2>1, <3>1 DEF CompletePrompt
  <2>3. AckFollowUpDispatch(id, accepted) => id = FollowUpId
    <3>1. ASSUME id # FollowUpId PROVE ack_follow_up_dispatch(ctl, id, accepted) = ctl
      BY <3>1 DEF ack_follow_up_dispatch, reduce_follow_up_dispatch_acknowledged, rejection,
                  FollowUpId, core
    <3> QED BY <2>1, <3>1 DEF AckFollowUpDispatch
  <2>4. CompleteDispatchedFollowUp(id, status) => id = FollowUpId /\ PromptOf(id)
    <3>1. ASSUME id # FollowUpId PROVE complete_dispatched_follow_up(ctl, id, status) = ctl
      BY <3>1 DEF complete_dispatched_follow_up, reduce_loop_follow_up_completed, rejection,
                  FollowUpId, core
    <3>2. ASSUME ~PromptOf(id) PROVE complete_dispatched_follow_up(ctl, id, status) = ctl
      BY <3>2 DEF complete_dispatched_follow_up, PromptOf, core
    <3> QED BY <2>1, <3>1, <3>2 DEF CompleteDispatchedFollowUp
  <2> QED BY <2>2, <2>3, <2>4
<1>2. [FeedbackKnown]_vars
  BY <1>1 DEF FeedbackKnown
<1> QED BY <1>2, PTL DEF FeedbackCorrelates

\* No tool filter is pending between two operations.
THEOREM ToolFilterCorrect == Spec => []NoToolFilterPending
<1>1. IInv => NoToolFilterPending
  BY DEF IInv, Good, Steady, CoreOK, NoToolFilterPending, core
<1> QED BY <1>1, Invariant, PTL

------------------------------------------------------------------------------
(* Refinement. *)

\* A controller step that is a WorkStep is a step of PendingWork, or a stutter.
LEMMA WorkStepRefines ==
    ASSUME IInv, WorkStep(core, core')
    PROVE  [Work!Next]_(Work!workVars)
<1> USE DEF PromptId, FollowUpId, FollowUpDispatched
<1>1. CASE Accepts(core, core')
  <2>1. Work!AcceptPrompt
    BY <1>1 DEF Accepts, Work!AcceptPrompt
  <2> QED BY <2>1 DEF Work!Next
<1>2. CASE Plans(core, core')
  <2>1. Work!PlanFollowUp
    BY <1>2 DEF Plans, Work!PlanFollowUp
  <2> QED BY <2>1 DEF Work!Next
<1>3. CASE Dispatches(core, core')
  <2>1. FollowUpId # None
    BY <1>3, NoneAssumption
       DEF Dispatches, IInv, Good, Steady, CoreOK, CoreTyped, CoreState, PendingFollowUpState, core
  <2>2. Work!DispatchFollowUp
    BY <1>3, <2>1 DEF Dispatches, Work!DispatchFollowUp
  <2> QED BY <2>2 DEF Work!Next
<1>4. CASE Spends(core, core')
  <2>1. Work!SpendId
    BY <1>4 DEF Spends, Work!SpendId
  <2> QED BY <2>1 DEF Work!Next
<1>5. CASE Retires(core, core')
  <2>1. Work!Retire
    BY <1>5 DEF Retires, Work!Retire
  <2> QED BY <2>1 DEF Work!Next
<1> QED BY <1>1, <1>2, <1>3, <1>4, <1>5 DEF WorkStep

\* The controller, called in any order, implements PendingWork: pending work is
\* never overwritten and never reuses an id.
THEOREM Refinement == Spec => ImplementsPendingWork
<1>1. Init => Work!Init
  BY DEF Init, NewController, InitialCore, Work!Init, PromptId, FollowUpId, FollowUpDispatched, core
<1>2. IInv /\ [Next]_vars => [Work!Next]_(Work!workVars)
  <2>1. ASSUME IInv, Next PROVE [Work!Next]_(Work!workVars)
    BY <2>1, StepKeeps, WorkStepRefines DEF Keeps, core
  <2>2. ASSUME IInv, UNCHANGED vars PROVE [Work!Next]_(Work!workVars)
    BY <2>2 DEF vars, Work!workVars, PromptId, FollowUpId, FollowUpDispatched, core
  <2> QED BY <2>1, <2>2
<1> QED BY <1>1, <1>2, Invariant, PTL DEF Spec, Work!Spec, ImplementsPendingWork

=============================================================================
