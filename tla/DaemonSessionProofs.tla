-------------------------- MODULE DaemonSessionProofs --------------------------
(***************************************************************************)
(* Proofs about DaemonSession, for any number of commands and clients.     *)
(*                                                                         *)
(* The state of the controller is a function of where the actor is: busy   *)
(* while a prompt runs (or once the agent is lost), with the auto-test     *)
(* guard exactly while an auto-test runs.  Every operation is shown to     *)
(* move it from one such state to another.  Commands stay in order because *)
(* the history, the kept commands and the channel, one after the other,    *)
(* are always the commands sent, in the order they were sent.              *)
(***************************************************************************)
EXTENDS DaemonSession, SequenceTheorems, TLAPS

------------------------------------------------------------------------------
(* The inductive invariant. *)

\* A registered loop is in the engine.
LoopKnown(c) == c.active_loop_id # None => c.loops[c.active_loop_id] # None

\* A controller, and the reducer it mirrors, in a given state.
Ctl(c, busy, testing) ==
    /\ c \in ControllerState
    /\ LoopKnown(c)
    /\ c.core.pending_tool_filter = None
    /\ c.busy <=> busy
    /\ c.core.busy <=> busy
    /\ c.core.pending_prompt # None <=> busy
    /\ c.auto_test_in_progress <=> testing
    /\ c.core.auto_test_in_progress <=> testing

Testing == actor.phase = "auto_test"

ControllerFollows == Ctl(ctl, Prompting \/ ~agent.present, Testing)

\* A prompt runs with the agent in it, and its future is alive as long as the actor waits for it.
PromptHasTurn ==
    /\ Prompting => agent.present
    /\ turn.phase # "none" <=> Prompting

Sorted(s) == \A i, j \in DOMAIN s : i < j => s[i] < s[j]
Before(s, t) == \A i \in DOMAIN s, j \in DOMAIN t : s[i] < t[j]
In(n, s) == \E i \in DOMAIN s : s[i] = n

QueuesInOrder ==
    /\ Sorted(handled) /\ Sorted(pending) /\ Sorted(cmd_rx)
    /\ Before(handled, pending) /\ Before(handled, cmd_rx) /\ Before(pending, cmd_rx)

\* Only an Abort is taken from the queues without being handled in its turn.
NoneLost ==
    \A n \in 1..Len(sent) :
        sent[n] # "Abort" => In(n, handled) \/ In(n, pending) \/ In(n, cmd_rx)

IInv ==
    /\ TypeOK
    /\ ControllerFollows
    /\ PromptHasTurn
    /\ NothingUnsavedWhenStopped
    /\ QueuesInOrder
    /\ NoneLost

------------------------------------------------------------------------------
(* The operations of the controller. *)

\* A core state whose busy flag goes with its prompt.
CoreIs(s, busy, testing) ==
    /\ s \in CoreState
    /\ s.pending_tool_filter = None
    /\ s.busy <=> busy
    /\ s.pending_prompt # None <=> busy
    /\ s.auto_test_in_progress <=> testing

\* apply_core_state makes the controller follow the reducer.
LEMMA ApplyIs ==
    ASSUME NEW c, c \in ControllerState, LoopKnown(c),
           NEW s, NEW busy \in BOOLEAN, NEW testing \in BOOLEAN, CoreIs(s, busy, testing)
    PROVE  Ctl(apply_core_state(c, s), busy, testing) /\ apply_core_state(c, s).core = s
<1> DEFINE d == apply_core_state(c, s)
<1> USE DEF apply_core_state
<1>1. /\ s \in CoreState /\ s.busy \in BOOLEAN /\ s.disabled_tools \in ToolSets
      /\ s.auto_test_enabled \in BOOLEAN /\ s.auto_test_command \in Commands \cup {None}
      /\ s.auto_test_in_progress \in BOOLEAN
  BY DEF CoreIs, CoreState
<1>2. d \in ControllerState
  BY <1>1 DEF ControllerState
<1>3. /\ d.core = s /\ d.busy = s.busy /\ d.auto_test_in_progress = s.auto_test_in_progress
      /\ d.active_loop_id = c.active_loop_id /\ d.loops = c.loops
  BY DEF ControllerState
<1> HIDE DEF d
<1>4. LoopKnown(d)
  BY <1>3 DEF LoopKnown
<1> QED BY <1>2, <1>3, <1>4 DEF Ctl, CoreIs, d

\* The core of a controller.
LEMMA CoreOfCtl ==
    ASSUME NEW c, NEW busy \in BOOLEAN, NEW testing \in BOOLEAN, Ctl(c, busy, testing)
    PROVE  CoreIs(c.core, busy, testing) /\ c \in ControllerState /\ LoopKnown(c)
BY DEF Ctl, CoreIs, ControllerState

\* Effect ids are numbers, also where they saturate.
LEMMA IdTyped ==
    ASSUME NEW s \in CoreState
    PROVE  allocate_effect_id(s) \in EffectIds
BY CoreAssumption DEF CoreState, EffectIds, allocate_effect_id

\* An idle controller accepts a prompt.
LEMMA StartPromptIs ==
    ASSUME NEW c, NEW testing \in BOOLEAN, Ctl(c, FALSE, testing)
    PROVE  Ctl(start_prompt(c, None), TRUE, testing)
<1> DEFINE s == c.core
           id == allocate_effect_id(s)
           prompt == [effect_id |-> id, originating |-> None]
           t == [s EXCEPT !.next_effect_id = id, !.busy = TRUE, !.pending_prompt = prompt]
<1>1. CoreIs(s, FALSE, testing) /\ c \in ControllerState /\ LoopKnown(c)
  BY CoreOfCtl
<1>2. start_prompt(c, None) = apply_core_state(c, t)
  BY <1>1 DEF start_prompt, reduce_prompt_requested, transitioned, CoreIs
<1>3. id \in EffectIds
  BY <1>1, IdTyped DEF CoreIs
<1> HIDE DEF id
<1>4. prompt \in PendingPromptState /\ prompt # None
  BY <1>3, NoneAssumption DEF PendingPromptState
<1> HIDE DEF prompt
<1>5. CoreIs(t, TRUE, testing)
  BY <1>1, <1>3, <1>4 DEF CoreIs, CoreState
<1> HIDE DEF t
<1> QED BY <1>1, <1>2, <1>5, ApplyIs

\* finish_loop changes neither flag.
LEMMA FinishLoopIs ==
    ASSUME NEW c, NEW busy \in BOOLEAN, NEW testing \in BOOLEAN, Ctl(c, busy, testing)
    PROVE  Ctl(finish_loop(c), busy, testing)
<1> DEFINE d == finish_loop(c)
           s == [c.core EXCEPT !.active_loop = None, !.pending_follow_up = None]
<1>1. c \in ControllerState /\ c.core \in CoreState
  BY DEF Ctl, ControllerState
<1>2. d.core = s /\ s \in CoreState
  BY <1>1 DEF ControllerState, CoreState, finish_loop
<1>3. d.active_loop_id = None /\ d.loops \in Loops
  BY <1>1 DEF ControllerState, finish_loop, has_active_loop, remove, Loops
<1>4. d \in ControllerState
  BY <1>1, <1>2, <1>3 DEF ControllerState, finish_loop
<1>5. /\ d.busy = c.busy /\ d.auto_test_in_progress = c.auto_test_in_progress
      /\ s.pending_tool_filter = c.core.pending_tool_filter /\ s.busy = c.core.busy
      /\ s.pending_prompt = c.core.pending_prompt
      /\ s.auto_test_in_progress = c.core.auto_test_in_progress
  BY <1>1 DEF ControllerState, CoreState, finish_loop
<1> HIDE DEF d, s
<1> QED BY <1>2, <1>3, <1>4, <1>5 DEF Ctl, LoopKnown, d

\* The pending prompt is completed, with whatever status.
LEMMA CompletionIs ==
    ASSUME NEW c, NEW testing \in BOOLEAN, Ctl(c, TRUE, testing), NEW status
    PROVE  Ctl(apply_prompt_completion(c, c.core.pending_prompt.effect_id, status), FALSE, testing)
<1> DEFINE s == c.core
           r == reduce_prompt_completed(s, s.pending_prompt.effect_id, status)
           cleared == [s EXCEPT !.busy = FALSE, !.pending_prompt = None]
           ended == [cleared EXCEPT !.active_loop = None, !.pending_follow_up = None]
<1>1. CoreIs(s, TRUE, testing) /\ c \in ControllerState /\ LoopKnown(c)
  BY CoreOfCtl
<1>2. r.ok /\ r.state \in {cleared, ended}
  BY <1>1 DEF reduce_prompt_completed, transitioned, CoreIs
<1>3. CoreIs(cleared, FALSE, testing)
  BY <1>1 DEF CoreIs, CoreState
<1>4. CoreIs(ended, FALSE, testing)
  BY ZenonT(40), <1>1 DEF CoreIs, CoreState
<1> HIDE DEF cleared, ended
<1>5. Ctl(apply_core_state(c, r.state), FALSE, testing)
  BY <1>1, <1>2, <1>3, <1>4, ApplyIs
<1>6. \/ apply_prompt_completion(c, s.pending_prompt.effect_id, status) = apply_core_state(c, r.state)
      \/ apply_prompt_completion(c, s.pending_prompt.effect_id, status)
            = finish_loop(apply_core_state(c, r.state))
  BY <1>2 DEF apply_prompt_completion, execute_prompt_completion_effects
<1> HIDE DEF r
<1> QED BY <1>5, <1>6, FinishLoopIs

\* Operations that change fields of the controller and its core, without the reducer.
LEMMA FieldsIs ==
    ASSUME NEW c, NEW busy \in BOOLEAN, NEW testing \in BOOLEAN, Ctl(c, busy, testing),
           NEW command \in Commands
    PROVE  /\ Ctl(maybe_auto_test(c), busy, TRUE)
           /\ Ctl(clear_auto_test(c), busy, FALSE)
           /\ Ctl(abort_prompt(c), FALSE, testing)
           /\ Ctl(SetAutoTestCommand(c, TRUE, command), busy, testing)
           /\ Ctl(slash_autotest(c, None), busy, testing)
<1>1. c \in ControllerState /\ c.core \in CoreState /\ LoopKnown(c)
  BY DEF Ctl, ControllerState
<1>2. Ctl(maybe_auto_test(c), busy, TRUE)
  <2> DEFINE d == maybe_auto_test(c)
  <2>1. d.core \in CoreState
    BY <1>1 DEF ControllerState, CoreState, maybe_auto_test
  <2>2. d \in ControllerState /\ LoopKnown(d)
    BY <1>1, <2>1 DEF ControllerState, maybe_auto_test, LoopKnown
  <2> QED BY <1>1, <2>2 DEF Ctl, ControllerState, CoreState, maybe_auto_test
<1>3. Ctl(clear_auto_test(c), busy, FALSE)
  <2> DEFINE d == clear_auto_test(c)
  <2>1. d.core \in CoreState
    BY <1>1 DEF ControllerState, CoreState, clear_auto_test
  <2>2. d \in ControllerState /\ LoopKnown(d)
    BY <1>1, <2>1 DEF ControllerState, clear_auto_test, LoopKnown
  <2> QED BY <1>1, <2>2 DEF Ctl, ControllerState, CoreState, clear_auto_test
<1>4. Ctl(abort_prompt(c), FALSE, testing)
  <2> DEFINE d == abort_prompt(c)
  <2>1. d.core \in CoreState
    BY <1>1 DEF ControllerState, CoreState, abort_prompt
  <2>2. d \in ControllerState /\ LoopKnown(d)
    BY <1>1, <2>1 DEF ControllerState, abort_prompt, LoopKnown
  <2> QED BY <1>1, <2>2 DEF Ctl, ControllerState, CoreState, abort_prompt
<1>5. Ctl(SetAutoTestCommand(c, TRUE, command), busy, testing)
  <2> DEFINE d == set_auto_test(c, TRUE, command)
  <2>1. d.core \in CoreState
    BY <1>1 DEF ControllerState, CoreState, set_auto_test
  <2>2. d \in ControllerState /\ LoopKnown(d)
    BY <1>1, <2>1 DEF ControllerState, set_auto_test, LoopKnown
  <2>3. Ctl(d, busy, testing)
    BY ZenonT(40), <1>1, <2>2 DEF Ctl, ControllerState, CoreState, set_auto_test
  <2>4. SetAutoTestCommand(c, TRUE, command) = d
    BY NoneAssumption DEF SetAutoTestCommand
  <2> QED BY <2>3, <2>4
<1>6. Ctl(slash_autotest(c, None), busy, testing)
  <2> DEFINE d == slash_autotest(c, None)
  <2>1. d \in ControllerState /\ LoopKnown(d) /\ d.core = c.core
    BY <1>1 DEF ControllerState, slash_autotest, LoopKnown
  <2> QED BY <1>1, <2>1 DEF Ctl, ControllerState, slash_autotest
<1> QED BY <1>2, <1>3, <1>4, <1>5, <1>6

\* SetDisabledTools sends the tools to the reducer and its feedback back, at once.
LEMMA DisabledToolsIs ==
    ASSUME NEW c, NEW busy \in BOOLEAN, NEW testing \in BOOLEAN, Ctl(c, busy, testing),
           NEW tools \in ToolSets
    PROVE  Ctl(handle_set_disabled_tools(c, tools), busy, testing)
<1> DEFINE s == c.core
           id == allocate_effect_id(s)
           filter == [effect_id |-> id, requested |-> tools]
           t == [s EXCEPT !.next_effect_id = id, !.disabled_tools = tools,
                          !.pending_tool_filter = filter]
           u == [t EXCEPT !.pending_tool_filter = None]
           d == apply_core_state(c, t)
<1>1. CoreIs(s, busy, testing) /\ s \in CoreState /\ c \in ControllerState /\ LoopKnown(c)
  BY CoreOfCtl DEF CoreIs
<1>2. id \in EffectIds
  BY <1>1, IdTyped
<1>3. handle_set_disabled_tools(c, tools) = apply_tool_filter_feedback(d, t.pending_tool_filter.effect_id, tools)
  BY <1>1 DEF handle_set_disabled_tools, reduce_set_disabled_tools, transitioned, CoreIs
<1> HIDE DEF id
<1>4. filter \in PendingToolFilterState /\ filter # None
      /\ filter.effect_id = id /\ filter.requested = tools
  BY <1>2, NoneAssumption DEF PendingToolFilterState
<1> HIDE DEF filter
<1>5. t.pending_tool_filter = filter /\ t \in CoreState
  BY <1>1, <1>2, <1>4 DEF CoreState
<1>6. CoreIs(u, busy, testing)
  BY <1>1, <1>2 DEF CoreIs, CoreState
<1>7. d.core = t /\ d.active_loop_id = c.active_loop_id /\ d.loops = c.loops
  BY <1>1 DEF apply_core_state, ControllerState
<1> HIDE DEF t
<1>8. d \in ControllerState
  BY <1>1, <1>5 DEF apply_core_state, ControllerState, CoreState
<1> HIDE DEF d
<1>9. handle_set_disabled_tools(c, tools) = apply_core_state(d, u)
  <2>1. /\ reduce_tool_filter_applied(t, id, tools).ok
        /\ reduce_tool_filter_applied(t, id, tools).state = u
    BY <1>4, <1>5 DEF reduce_tool_filter_applied, transitioned
  <2> QED BY <1>3, <1>4, <1>5, <1>7, <2>1 DEF apply_tool_filter_feedback
<1>10. LoopKnown(d)
  BY <1>1, <1>7 DEF LoopKnown
<1> HIDE DEF u
<1> QED BY <1>6, <1>8, <1>9, <1>10, ApplyIs

\* Another loop in the reducer changes neither flag.
LEMMA SetLoopIs ==
    ASSUME NEW c, NEW busy \in BOOLEAN, NEW testing \in BOOLEAN, Ctl(c, busy, testing),
           NEW loop \in ActiveLoopState \cup {None}
    PROVE  /\ CoreIs([c.core EXCEPT !.active_loop = loop], busy, testing)
           /\ Ctl([c EXCEPT !.core.active_loop = loop], busy, testing)
<1>1. CoreIs(c.core, busy, testing) /\ c \in ControllerState /\ LoopKnown(c)
  BY CoreOfCtl
<1>2. CoreIs([c.core EXCEPT !.active_loop = loop], busy, testing)
  BY <1>1 DEF CoreIs, CoreState
<1> DEFINE d == [c EXCEPT !.core.active_loop = loop]
           s == [c.core EXCEPT !.active_loop = loop]
<1>3. d.core = s /\ s \in CoreState
  BY <1>1, <1>2 DEF ControllerState, CoreIs
<1>4. d = [c EXCEPT !.core = s]
  BY <1>1 DEF ControllerState
<1> HIDE DEF s
<1>5. d \in ControllerState
  BY <1>1, <1>3, <1>4 DEF ControllerState
<1>6. /\ d.busy = c.busy /\ d.auto_test_in_progress = c.auto_test_in_progress
      /\ d.active_loop_id = c.active_loop_id /\ d.loops = c.loops
  BY <1>1 DEF ControllerState
<1> HIDE DEF d
<1>7. Ctl(d, busy, testing)
  BY <1>1, <1>2, <1>3, <1>5, <1>6 DEF Ctl, CoreIs, LoopKnown, s
<1> QED BY <1>2, <1>7 DEF d

\* Registering a loop, or finding the engine full, changes neither flag.
LEMMA StartLoopIs ==
    ASSUME NEW c, NEW busy \in BOOLEAN, NEW testing \in BOOLEAN, Ctl(c, busy, testing), NEW m \in Nat
    PROVE  Ctl(start_loop(c, m), busy, testing)
<1> DEFINE id == CHOOSE i \in FreeLoopIds(c.loops) : TRUE
           loop == NewLoop(id, m)
           entry == [current_iteration |-> 0, max_iterations |-> m, break_signalled |-> FALSE]
           b == [c EXCEPT !.core.active_loop = loop]
           ls == [c.loops EXCEPT ![id] = entry]
           d == [c EXCEPT !.loops = ls, !.active_loop_id = id, !.core.active_loop = loop]
<1>1. CASE ~CanRegister(c)
  BY <1>1 DEF start_loop
<1>2. CASE CanRegister(c)
  <2>1. start_loop(c, m) = d
    BY <1>2 DEF start_loop, register
  <2>2. id \in LoopIds
    BY <1>2 DEF CanRegister, FreeLoopIds
  <2> HIDE DEF id
  <2>3. loop \in ActiveLoopState
    BY <2>2 DEF NewLoop, ActiveLoopState
  <2> HIDE DEF loop
  <2>4. Ctl(b, busy, testing)
    BY <2>3, SetLoopIs
  <2>5. entry \in LoopState
    <3>1. 0 \in Nat /\ FALSE \in BOOLEAN
      OBVIOUS
    <3> QED BY <3>1, Zenon DEF LoopState
  <2>6. entry # None
    BY <2>5, LoopAssumption
  <2> HIDE DEF entry
  <2>7. c \in ControllerState
    BY DEF Ctl
  <2>8. ls \in Loops /\ ls[id] # None
    BY <2>2, <2>5, <2>6, <2>7 DEF ControllerState, Loops
  <2> HIDE DEF ls
  <2>9. d.core = b.core /\ d.active_loop_id = id /\ d.loops = ls /\ b.core \in CoreState
    BY <2>4, <2>7 DEF Ctl, ControllerState
  <2>10. d \in ControllerState
    BY <2>2, <2>7, <2>8, <2>9 DEF ControllerState
  <2>11. d.busy = b.busy /\ d.auto_test_in_progress = b.auto_test_in_progress
    BY <2>7 DEF ControllerState
  <2> HIDE DEF d, b
  <2> QED BY <2>1, <2>4, <2>8, <2>9, <2>10, <2>11 DEF Ctl, LoopKnown
<1> QED BY <1>1, <1>2

\* The commands StartLoop and StopLoop.
LEMMA LoopCommandsIs ==
    ASSUME NEW c, NEW busy \in BOOLEAN, NEW testing \in BOOLEAN, Ctl(c, busy, testing), NEW m \in Nat
    PROVE  /\ Ctl(handle_start_loop(c, m), busy, testing)
           /\ Ctl(handle_stop_loop(c), busy, testing)
<1>1. c \in ControllerState /\ LoopKnown(c)
  BY CoreOfCtl
<1>2. Ctl(handle_start_loop(c, m), busy, testing)
  <2> DEFINE loop == NewLoop(SessionLoop, m)
             t == [c.core EXCEPT !.active_loop = loop]
             d == apply_core_state(c, t)
  <2>1. loop \in ActiveLoopState
    BY DEF NewLoop, ActiveLoopState
  <2>2. handle_start_loop(c, m) = c \/ handle_start_loop(c, m) = execute_start_loop_effects(d, m)
    BY DEF handle_start_loop, reduce_start_loop, transitioned, rejection
  <2> HIDE DEF loop
  <2>3. CoreIs(t, busy, testing)
    BY <2>1, SetLoopIs
  <2> HIDE DEF t
  <2>4. Ctl(d, busy, testing)
    BY <1>1, <2>3, ApplyIs
  <2> HIDE DEF d
  <2>5. Ctl(start_loop(d, m), busy, testing)
    BY <2>4, StartLoopIs
  <2>6. Ctl([start_loop(d, m) EXCEPT !.core.active_loop = None], busy, testing)
    BY <2>5, SetLoopIs
  <2> QED BY <2>2, <2>5, <2>6 DEF execute_start_loop_effects
<1>3. Ctl(handle_stop_loop(c), busy, testing)
  <2> DEFINE t == [c.core EXCEPT !.active_loop = None]
             d == apply_core_state(c, t)
  <2>1. handle_stop_loop(c) = c \/ handle_stop_loop(c) = finish_loop(d)
    BY DEF handle_stop_loop, stop_loop, reduce_stop_loop, transitioned, rejection
  <2>2. CoreIs(t, busy, testing)
    BY SetLoopIs
  <2> HIDE DEF t
  <2>3. Ctl(d, busy, testing)
    BY <1>1, <2>2, ApplyIs
  <2> QED BY <2>1, <2>3, FinishLoopIs
<1> QED BY <1>2, <1>3

\* The agent's report that the loop has reached its goal.
LEMMA SignalIs ==
    ASSUME NEW c, NEW busy \in BOOLEAN, NEW testing \in BOOLEAN, Ctl(c, busy, testing)
    PROVE  Ctl(process_agent_event(c, "signal_loop_success", FALSE), busy, testing)
<1> DEFINE id == c.active_loop_id
           entry == [c.loops[id] EXCEPT !.break_signalled = TRUE]
           ls == [c.loops EXCEPT ![id] = entry]
           d == [c EXCEPT !.loops = ls]
<1>1. process_agent_event(c, "signal_loop_success", FALSE) = signal_loop_break(c)
  BY DEF process_agent_event
<1>2. c \in ControllerState /\ LoopKnown(c)
  BY CoreOfCtl
<1>3. CASE ~has_active_loop(c)
  BY <1>1, <1>3 DEF signal_loop_break
<1>4. CASE has_active_loop(c)
  <2>1. signal_loop_break(c) = d
    BY <1>4 DEF signal_loop_break, signal_break
  <2>2. id \in LoopIds /\ c.loops \in Loops /\ c.loops[id] \in LoopState
    BY <1>2, <1>4 DEF has_active_loop, ControllerState, LoopKnown, Loops
  <2>3. entry \in LoopState
    BY <2>2 DEF LoopState
  <2>4. entry # None
    BY <2>3, LoopAssumption
  <2> HIDE DEF entry
  <2>5. ls \in Loops /\ ls[id] # None
    BY <2>2, <2>3, <2>4 DEF Loops
  <2> HIDE DEF ls
  <2>6. /\ d \in ControllerState /\ d.loops = ls /\ d.active_loop_id = id
        /\ d.core = c.core /\ d.busy = c.busy /\ d.auto_test_in_progress = c.auto_test_in_progress
    BY <1>2, <2>5 DEF ControllerState
  <2> HIDE DEF d
  <2> QED BY <1>1, <2>1, <2>5, <2>6 DEF Ctl, LoopKnown
<1> QED BY <1>3, <1>4

------------------------------------------------------------------------------
(* The actor, the agent and the turn. *)

Actors == [phase : {"select", "command", "auto_test", "stopped"}, ends : BOOLEAN]
Agents == [present : BOOLEAN, cancelled : BOOLEAN, asks_first : BOOLEAN, unsaved : BOOLEAN]
Turns == [phase : {"none", "accepted", "running", "confirm"}, ask : Nat]

Control ==
    /\ actor \in Actors /\ agent \in Agents /\ turn \in Turns
    /\ ControllerFollows /\ PromptHasTurn /\ NothingUnsavedWhenStopped

\* What shutdown leaves alone, and what it does not.
LEMMA ShutdownIs ==
    ASSUME NEW a \in Agents
    PROVE  /\ shutdown(a) \in Agents /\ shutdown(a).present = a.present
           /\ shutdown(a).present => ~shutdown(a).unsaved
BY DEF Agents, shutdown

\* A command is over, with the controller idle unless its agent is lost.
LEMMA EndCommandHolds ==
    ASSUME NEW c, NEW a \in Agents, NEW ends \in BOOLEAN,
           Ctl(c, ~a.present, FALSE), EndCommand(c, a, ends)
    PROVE  Control'
<1>1. /\ actor' \in Actors /\ actor'.phase = (IF ends THEN "stopped" ELSE "select")
      /\ turn' \in Turns /\ turn'.phase = "none" /\ ctl' = c
  BY DEF EndCommand, Actors, Turns, NoTurn
<1>2. agent' \in Agents /\ agent'.present = a.present
  BY ShutdownIs DEF EndCommand
<1>3. ~Prompting' /\ ~Testing'
  BY <1>1 DEF Prompting, Testing
<1>4. ControllerFollows'
  <2>1. a.present \in BOOLEAN /\ (Prompting \/ ~agent.present)' = (~a.present) /\ Testing' = FALSE
    BY <1>2, <1>3 DEF Agents
  <2> QED BY <1>1, <2>1 DEF ControllerFollows
<1>5. PromptHasTurn'
  BY <1>1, <1>3 DEF PromptHasTurn
<1>6. NothingUnsavedWhenStopped'
  BY <1>1, ShutdownIs DEF NothingUnsavedWhenStopped, EndCommand
<1> QED BY <1>1, <1>2, <1>4, <1>5, <1>6 DEF Control

\* A prompt starts in an idle controller that has its agent.
LEMMA BeginPromptHolds ==
    ASSUME NEW c, NEW phase \in {"command", "auto_test"}, NEW ends \in BOOLEAN,
           Ctl(c, FALSE, phase = "auto_test"), BeginPrompt(c, phase, ends),
           agent' \in Agents, agent'.present
    PROVE  Control'
<1> DEFINE testing == phase = "auto_test"
<1>1. /\ actor' \in Actors /\ actor'.phase = phase
      /\ turn' \in Turns /\ turn'.phase = "accepted" /\ ctl' = start_prompt(c, None)
  BY DEF BeginPrompt, Actors, Turns
<1>2. testing \in BOOLEAN /\ Ctl(c, FALSE, testing)
  OBVIOUS
<1>3. Ctl(start_prompt(c, None), TRUE, testing)
  <2> HIDE DEF testing
  <2> QED BY <1>2, StartPromptIs
<1>4. Prompting' /\ Testing' = testing
  BY <1>1 DEF Prompting, Testing
<1>5. ControllerFollows'
  <2>1. (Prompting \/ ~agent.present)' = TRUE
    BY <1>4
  <2> HIDE DEF testing
  <2> QED BY <1>1, <1>3, <1>4, <2>1 DEF ControllerFollows
<1>6. PromptHasTurn'
  BY <1>1, <1>4 DEF PromptHasTurn
<1>7. NothingUnsavedWhenStopped'
  BY <1>1 DEF NothingUnsavedWhenStopped
<1> QED BY <1>1, <1>5, <1>6, <1>7 DEF Control

\* The auto-test command of the settings is a command.
LEMMA AutoTestCommandTyped == AutoTestCommand \in Commands
BY DaemonAssumption DEF AutoTestCommand

\* After a command the auto-test starts or its guard is taken back.
LEMMA PostPromptHolds ==
    ASSUME NEW c, NEW a \in Agents, NEW ends \in BOOLEAN,
           Ctl(c, ~a.present, FALSE), PostPromptActions(c, a, ends)
    PROVE  Control'
<1> DEFINE lost == ~a.present
<1>1. lost \in BOOLEAN /\ (c.busy <=> lost) /\ a.present \in BOOLEAN
  BY DEF Ctl, Agents
<1>2. Ctl(clear_auto_test(c), lost, FALSE) /\ Ctl(maybe_auto_test(c), lost, TRUE)
  <2> HIDE DEF lost
  <2>1. Ctl(c, lost, FALSE)
    BY DEF lost
  <2> QED BY <1>1, <2>1, FieldsIs, AutoTestCommandTyped
<1>3. CASE c.busy
  BY <1>3, EndCommandHolds DEF PostPromptActions
<1>4. CASE ~c.busy /\ maybe_auto_test_due(c)
  <2>1. lost = FALSE /\ a.present
    BY <1>1, <1>4
  <2>2. BeginPrompt(maybe_auto_test(c), "auto_test", ends) /\ agent' = a
    BY <1>4 DEF PostPromptActions
  <2>3. Ctl(maybe_auto_test(c), FALSE, TRUE)
    BY <1>2, <2>1
  <2>4. ("auto_test" = "auto_test") = TRUE /\ "auto_test" \in {"command", "auto_test"}
    OBVIOUS
  <2> QED BY <2>1, <2>2, <2>3, <2>4, BeginPromptHolds
<1>5. CASE ~c.busy /\ ~maybe_auto_test_due(c)
  <2>1. EndCommand(clear_auto_test(c), a, ends)
    BY <1>5 DEF PostPromptActions
  <2> QED BY <1>2, <2>1, EndCommandHolds
<1> QED BY <1>3, <1>4, <1>5

\* The prompt is over, or dropped with the agent.
LEMMA PromptReturnsHolds ==
    ASSUME Control, Prompting, NEW c, NEW a \in Agents,
           Ctl(c, ~a.present, Testing), PromptReturns(c, a)
    PROVE  Control'
<1> DEFINE lost == ~a.present
<1>1. lost \in BOOLEAN /\ Testing \in BOOLEAN /\ actor.ends \in BOOLEAN
  BY DEF Control, Actors, Testing
<1>2. CASE actor.phase = "command"
  <2>1. Testing = FALSE
    BY <1>2 DEF Testing
  <2>2. PostPromptActions(c, a, FALSE)
    BY <1>2 DEF PromptReturns
  <2>3. Ctl(c, ~a.present, FALSE)
    BY <2>1
  <2> QED BY <2>2, <2>3, PostPromptHolds
<1>3. CASE actor.phase # "command"
  <2>1. EndCommand(clear_auto_test(c), a, actor.ends)
    BY <1>3 DEF PromptReturns
  <2>2. Ctl(clear_auto_test(c), lost, FALSE)
    <3>1. Ctl(c, lost, Testing)
      OBVIOUS
    <3> HIDE DEF lost
    <3> QED BY <1>1, <3>1, FieldsIs, AutoTestCommandTyped
  <2> QED BY <1>1, <2>1, <2>2, EndCommandHolds
<1> QED BY <1>2, <1>3

\* A command that is no prompt keeps the controller idle.
LEMMA ControlledIs ==
    ASSUME NEW c, NEW kind, Ctl(c, FALSE, FALSE)
    PROVE  Ctl(Controlled(c, kind), FALSE, FALSE)
<1>1. AutoTestCommand \in Commands /\ NoTools \in ToolSets /\ 2 \in Nat
  BY AutoTestCommandTyped, CoreAssumption
<1>2. /\ Ctl(abort_prompt(c), FALSE, FALSE)
      /\ Ctl(SetAutoTestCommand(c, TRUE, AutoTestCommand), FALSE, FALSE)
      /\ Ctl(slash_autotest(c, None), FALSE, FALSE)
  BY <1>1, FieldsIs
<1>3. Ctl(handle_set_disabled_tools(c, NoTools), FALSE, FALSE)
  BY <1>1, DisabledToolsIs
<1>4. Ctl(handle_start_loop(c, 2), FALSE, FALSE) /\ Ctl(handle_stop_loop(c), FALSE, FALSE)
  BY <1>1, LoopCommandsIs
<1> QED BY <1>2, <1>3, <1>4, Zenon DEF Controlled

\* The agent stays where it is, whatever the command does to its token and tools.
LEMMA ControlledAgentIs ==
    ASSUME NEW a \in Agents, NEW kind
    PROVE  ControlledAgent(a, kind) \in Agents /\ ControlledAgent(a, kind).present = a.present
BY DEF ControlledAgent, Agents

\* A command handled between prompts.
LEMMA HandleCommandHolds ==
    ASSUME Control, actor.phase = "select", NEW n, HandleCommand(n)
    PROVE  Control'
<1> DEFINE kind == sent[n]
           ends == kind = "Disconnect"
<1>1. agent \in Agents /\ agent.present \in BOOLEAN
  BY DEF Control, Agents
<1>2. Ctl(ctl, ~agent.present, FALSE)
  <2>1. (Prompting \/ ~agent.present) = (~agent.present) /\ Testing = FALSE
    BY DEF Prompting, Testing
  <2> QED BY <2>1 DEF Control, ControllerFollows
<1>3. CASE kind = "GetPlugins"
  <2>1. EndCommand(ctl, agent, FALSE)
    BY <1>3 DEF HandleCommand
  <2> QED BY <1>1, <1>2, <2>1, EndCommandHolds
<1>4. CASE kind # "GetPlugins" /\ ~agent.present
  <2>1. PostPromptActions(ctl, agent, ends)
    BY <1>4 DEF HandleCommand
  <2> HIDE DEF ends
  <2>2. ends \in BOOLEAN
    BY DEF ends
  <2> QED BY <1>1, <1>2, <2>1, <2>2, PostPromptHolds
<1>5. CASE kind = "Prompt" /\ agent.present
  <2>1. BeginPrompt(ctl, "command", FALSE) /\ agent' = agent
    BY <1>5 DEF HandleCommand
  <2>2. (~agent.present) = FALSE /\ ("command" = "auto_test") = FALSE
    BY <1>5
  <2>3. Ctl(ctl, FALSE, "command" = "auto_test")
    BY <1>2, <2>2
  <2> QED BY <1>1, <1>5, <2>1, <2>3, BeginPromptHolds
<1>6. CASE kind \notin {"GetPlugins", "Prompt"} /\ agent.present
  <2> DEFINE c == Controlled(ctl, kind)
             a == ControlledAgent(agent, kind)
  <2>1. PostPromptActions(c, a, ends)
    BY <1>6 DEF HandleCommand
  <2>2. (~agent.present) = FALSE
    BY <1>6
  <2>3. Ctl(c, FALSE, FALSE)
    BY <1>2, <2>2, ControlledIs
  <2>4. a \in Agents /\ a.present = agent.present
    BY <1>1, ControlledAgentIs
  <2> HIDE DEF c, a, ends
  <2>5. ends \in BOOLEAN
    BY DEF ends
  <2>6. Ctl(c, ~a.present, FALSE)
    BY <2>2, <2>3, <2>4
  <2> QED BY <2>1, <2>4, <2>5, <2>6, PostPromptHolds
<1> QED BY <1>3, <1>4, <1>5, <1>6

\* The completion of the prompt that runs.
LEMMA CompletesHolds ==
    ASSUME Control, Prompting, NEW status, NEW a \in Agents, a.present, Completes(status, a)
    PROVE  Control'
<1> DEFINE c == apply_prompt_completion(ctl, core.pending_prompt.effect_id, status)
<1>1. Ctl(ctl, TRUE, Testing) /\ Testing \in BOOLEAN
  <2>1. (Prompting \/ ~agent.present) = TRUE
    OBVIOUS
  <2> QED BY <2>1 DEF Control, ControllerFollows, Testing
<1>2. Ctl(c, FALSE, Testing)
  BY <1>1, CompletionIs DEF core
<1>3. PromptReturns(c, a)
  BY DEF Completes
<1> HIDE DEF c
<1>4. (~a.present) = FALSE
  OBVIOUS
<1>5. Ctl(c, ~a.present, Testing)
  BY <1>2, <1>4
<1> QED BY <1>3, <1>5, PromptReturnsHolds

\* A step that leaves the actor and the controller alone and the agent in its place.
LEMMA QuietHolds ==
    ASSUME Control, UNCHANGED <<ctl, actor>>, agent' \in Agents, turn' \in Turns,
           agent'.present = agent.present,
           turn'.phase # "none" <=> turn.phase # "none",
           actor.phase = "stopped" => agent'.unsaved = agent.unsaved
    PROVE  Control'
<1>1. Prompting' = Prompting /\ Testing' = Testing
  BY DEF Prompting, Testing
<1>2. ControllerFollows'
  <2>1. (Prompting \/ ~agent.present)' = (Prompting \/ ~agent.present)
    BY <1>1
  <2> QED BY <1>1, <2>1 DEF Control, ControllerFollows
<1>3. PromptHasTurn'
  BY <1>1 DEF Control, PromptHasTurn
<1>4. NothingUnsavedWhenStopped'
  BY DEF Control, NothingUnsavedWhenStopped
<1> QED BY <1>2, <1>3, <1>4 DEF Control

\* Every step keeps the actor, the controller, the agent and the turn in agreement.
LEMMA ControlStep ==
    ASSUME Control, Next
    PROVE  Control'
<1> USE DEF Control
<1>1. CASE UNCHANGED <<ctl, actor, agent, turn>>
  BY <1>1, QuietHolds
<1>2. CASE HandlePendingCommand \/ HandleNextCommand
  BY <1>2, HandleCommandHolds DEF HandlePendingCommand, HandleNextCommand, Selecting
<1>3. CASE HandleSignal \/ HandleClosedChannel
  <2>1. Stop /\ actor.phase = "select"
    BY <1>3 DEF HandleSignal, HandleClosedChannel, Selecting
  <2>2. agent' \in Agents /\ agent'.present = agent.present /\ (agent'.present => ~agent'.unsaved)
    BY <2>1, ShutdownIs DEF Stop
  <2>3. actor' \in Actors /\ actor'.phase = "stopped" /\ turn' = turn /\ ctl' = ctl
    BY <2>1 DEF Stop, Actors
  <2>4. ~Prompting /\ ~Prompting' /\ Testing' = FALSE /\ Testing = FALSE
    BY <2>1, <2>3 DEF Prompting, Testing
  <2>5. ControllerFollows'
    <3>1. (Prompting \/ ~agent.present)' = (Prompting \/ ~agent.present)
      BY <2>2, <2>4
    <3> QED BY <2>3, <2>4, <3>1 DEF ControllerFollows
  <2> QED BY <2>2, <2>3, <2>4, <2>5 DEF PromptHasTurn, NothingUnsavedWhenStopped
<1>4. CASE Tick \/ HandleInterrupt
  <2>1. /\ agent' \in Agents /\ agent'.present = agent.present /\ agent'.unsaved = agent.unsaved
    BY <1>4 DEF Tick, HandleInterrupt, Agents
  <2> QED BY <1>4, <2>1, QuietHolds DEF Tick, HandleInterrupt
<1>5. CASE HandleClosedDuringPrompt
  <2> DEFINE a == [agent EXCEPT !.cancelled = TRUE, !.present = FALSE]
  <2>1. a \in Agents /\ a.present = FALSE /\ Prompting /\ PromptReturns(ctl, a)
    BY <1>5 DEF Agents, HandleClosedDuringPrompt
  <2> HIDE DEF a
  <2>2. (Prompting \/ ~agent.present) = TRUE /\ (~a.present) = TRUE
    BY <2>1
  <2>3. Ctl(ctl, ~a.present, Testing)
    BY <2>2 DEF ControllerFollows
  <2> QED BY <2>1, <2>3, PromptReturnsHolds
<1>6. CASE TurnDenied
  <2>1. Prompting /\ agent.present
    BY <1>6 DEF TurnDenied, PromptHasTurn
  <2> QED BY <1>6, <2>1, CompletesHolds DEF TurnDenied
<1>7. CASE TurnBegins
  <2>1. Prompting
    BY <1>7 DEF TurnBegins, PromptHasTurn
  <2>2. /\ agent' \in Agents /\ agent'.present = agent.present
        /\ turn' \in Turns /\ turn'.phase # "none" /\ turn.phase # "none"
    BY <1>7 DEF TurnBegins, Agents, Turns
  <2>3. actor.phase # "stopped"
    BY <2>1 DEF Prompting
  <2> QED BY <1>7, <2>2, <2>3, QuietHolds DEF TurnBegins
<1>8. CASE TurnSignalsLoopSuccess
  <2>1. UNCHANGED <<actor, agent, turn>>
        /\ ctl' = process_agent_event(ctl, "signal_loop_success", FALSE)
    BY <1>8 DEF TurnSignalsLoopSuccess
  <2>2. Prompting' = Prompting /\ Testing' = Testing
    BY <2>1 DEF Prompting, Testing
  <2>3. ControllerFollows'
    <3> DEFINE busy == Prompting \/ ~agent.present
    <3>1. busy' = busy /\ busy \in BOOLEAN /\ Testing \in BOOLEAN
      BY <2>1, <2>2 DEF Testing
    <3>2. Ctl(ctl, busy, Testing)
      BY DEF ControllerFollows
    <3>3. Ctl(ctl', busy, Testing)
      <4> HIDE DEF busy
      <4> QED BY <2>1, <3>1, <3>2, SignalIs
    <3> QED BY <2>2, <3>1, <3>3 DEF ControllerFollows
  <2> QED BY <2>1, <2>2, <2>3 DEF PromptHasTurn, NothingUnsavedWhenStopped
<1>9. CASE TurnAsksConfirmation \/ BridgeEnds
  <2>1. turn' \in Turns /\ (turn'.phase # "none" <=> turn.phase # "none")
    <3>1. CASE TurnAsksConfirmation
      <4>1. turn' = [phase |-> "confirm", ask |-> turn.ask + 1] /\ turn.phase = "running"
        BY <3>1 DEF TurnAsksConfirmation, Turns
      <4> QED BY <4>1 DEF Turns
    <3>2. CASE BridgeEnds
      <4>1. turn' = turn \/ (turn.phase = "confirm" /\ turn' = [turn EXCEPT !.phase = "running"])
        BY <3>2 DEF BridgeEnds
      <4> QED BY <4>1 DEF Turns
    <3> QED BY <1>9, <3>1, <3>2
  <2> QED BY <1>9, <2>1, QuietHolds DEF TurnAsksConfirmation, BridgeEnds
<1>10. CASE TurnEnds
  <2>1. Prompting /\ agent.present
    BY <1>10 DEF TurnEnds, PromptHasTurn
  <2>2. PICK status, a : /\ Completes(status, a)
                         /\ a \in Agents /\ a.present = agent.present
    <3>1. \A b \in BOOLEAN : LET a == [agent EXCEPT !.unsaved = b]
                             IN  a \in Agents /\ a.present = agent.present
      BY DEF Agents
    <3>2. CASE Completes(IF agent.cancelled THEN "Cancelled" ELSE "Succeeded",
                         [agent EXCEPT !.unsaved = FALSE])
      BY <3>1, <3>2
    <3>3. CASE \E saved \in BOOLEAN : Completes("Failed", [agent EXCEPT !.unsaved = ~saved])
      <4>1. PICK saved \in BOOLEAN : Completes("Failed", [agent EXCEPT !.unsaved = ~saved])
        BY <3>3
      <4>2. (~saved) \in BOOLEAN
        OBVIOUS
      <4> QED BY <3>1, <4>1, <4>2
    <3> QED BY <1>10, <3>2, <3>3 DEF TurnEnds
  <2> QED BY <2>1, <2>2, CompletesHolds
<1> QED
  BY <1>1, <1>2, <1>3, <1>4, <1>5, <1>6, <1>7, <1>8, <1>9, <1>10
  DEF Next, ClientNext, ActorNext, TurnNext, SendCommand, CloseChannel, SendSignal,
      HandleConfirmRequest

------------------------------------------------------------------------------
(* The queues of commands. *)

Queued ==
    /\ sent \in Seq(Kinds) /\ handled \in Seq(1..Len(sent))
    /\ cmd_rx \in Seq(1..Len(sent)) /\ pending \in Seq(1..Len(sent))
    /\ QueuesInOrder /\ NoneLost

\* The first element of a queue, and the others.
LEMMA TailIs ==
    ASSUME NEW S, NEW t \in Seq(S), t # <<>>
    PROVE  /\ Len(t) \in Nat \ {0} /\ Head(t) = t[1] /\ Head(t) \in S
           /\ DOMAIN t = 1..Len(t) /\ DOMAIN Tail(t) = 1..(Len(t) - 1)
           /\ Tail(t) \in Seq(S)
           /\ \A i \in 1..Len(t) : t[i] \in S
           /\ \A i \in 1..(Len(t) - 1) : Tail(t)[i] = t[i + 1]
OBVIOUS

\* A queue with one more element.
LEMMA AppendIs ==
    ASSUME NEW S, NEW s \in Seq(S), NEW n \in S
    PROVE  /\ Append(s, n) \in Seq(S)
           /\ Len(s) \in Nat /\ DOMAIN s = 1..Len(s) /\ DOMAIN Append(s, n) = 1..(Len(s) + 1)
           /\ \A i \in 1..Len(s) : Append(s, n)[i] = s[i] /\ s[i] \in S
           /\ Append(s, n)[Len(s) + 1] = n
OBVIOUS

\* The first element of t goes to the end of s: nothing is lost or changes places,
\* among the two or with respect to a third.
LEMMA MoveIs ==
    ASSUME NEW m \in Nat, NEW s \in Seq(1..m), NEW t \in Seq(1..m), t # <<>>,
           Sorted(s), Sorted(t), Before(s, t)
    PROVE  LET s1 == Append(s, Head(t))
               t1 == Tail(t)
           IN  /\ s1 \in Seq(1..m) /\ t1 \in Seq(1..m)
               /\ Sorted(s1) /\ Sorted(t1) /\ Before(s1, t1) /\ Before(s, t1)
               /\ \A n : In(n, s) \/ In(n, t) => In(n, s1) \/ In(n, t1)
               /\ \A n : In(n, t) => In(n, t1) \/ n = Head(t)
               /\ \A u \in Seq(1..m) :
                     /\ Before(u, t) => Before(u, t1)
                     /\ Before(u, s) /\ Before(u, t) => Before(u, s1)
                     /\ Before(s, u) /\ Before(t, u) => Before(s1, u)
                     /\ Before(t, u) => Before(t1, u)
<1> DEFINE h == Head(t)
           s1 == Append(s, h)
           t1 == Tail(t)
           k == Len(s)
           l == Len(t)
<1>1. /\ l \in Nat \ {0} /\ h = t[1] /\ h \in 1..m /\ DOMAIN t = 1..l
      /\ DOMAIN t1 = 1..(l - 1) /\ t1 \in Seq(1..m)
      /\ \A i \in 1..l : t[i] \in 1..m
      /\ \A i \in 1..(l - 1) : t1[i] = t[i + 1]
  BY TailIs
<1> HIDE DEF h, t1, l
<1>2. /\ s1 \in Seq(1..m) /\ k \in Nat /\ DOMAIN s = 1..k /\ DOMAIN s1 = 1..(k + 1)
      /\ \A i \in 1..k : s1[i] = s[i] /\ s[i] \in 1..m
      /\ s1[k + 1] = h
  BY <1>1, AppendIs
<1> HIDE DEF s1, k
<1>3. /\ \A i \in 1..k : s[i] \in Nat
      /\ \A i \in 1..l : t[i] \in Nat
  BY <1>1, <1>2
<1>4. /\ \A j \in DOMAIN t1 : j + 1 \in 1..l /\ t1[j] = t[j + 1] /\ h < t1[j] /\ t1[j] \in Nat
      /\ 1 \in DOMAIN t
  <2>1. 1 \in 1..l
    BY <1>1
  <2>2. \A j \in 1..(l - 1) : j + 1 \in 1..l /\ 1 < j + 1
    BY <1>1
  <2>3. \A i \in 1..l : 1 < i => h < t[i]
    BY <1>1, <2>1 DEF Sorted
  <2> QED BY <1>1, <1>3, <2>1, <2>2, <2>3
<1>5. \A i \in DOMAIN s1 : (i \in 1..k /\ s1[i] = s[i]) \/ (i = k + 1 /\ s1[i] = h)
  BY <1>2
<1>6. \A i \in 1..k : s[i] < h
  <2>1. \A i \in DOMAIN s : s[i] < t[1]
    BY <1>4, Zenon DEF Before
  <2> QED BY <1>1, <1>2, <2>1
<1>7. Sorted(s1)
  <2> SUFFICES ASSUME NEW i \in DOMAIN s1, NEW j \in DOMAIN s1, i < j
               PROVE  s1[i] < s1[j]
    BY DEF Sorted
  <2>1. i \in 1..k /\ s1[i] = s[i]
    BY <1>2
  <2> QED BY <1>2, <1>5, <1>6, <2>1 DEF Sorted
<1>8. Sorted(t1)
  BY SMTT(30), <1>1, <1>4 DEF Sorted
<1>9. Before(s, t1)
  BY <1>1, <1>4 DEF Before
<1>10. Before(s1, t1)
  BY <1>2, <1>4, <1>5, <1>9 DEF Before
<1>11. \A n : In(n, t) => In(n, t1) \/ n = h
  <2> SUFFICES ASSUME NEW i \in 1..l PROVE In(t[i], t1) \/ t[i] = h
    BY <1>1 DEF In
  <2>1. CASE i = 1
    BY <1>1, <2>1
  <2>2. CASE i # 1
    <3>1. i - 1 \in 1..(l - 1) /\ (i - 1) + 1 = i
      BY <1>1, <2>2
    <3> QED BY <1>1, <3>1 DEF In
  <2> QED BY <2>1, <2>2
<1>12. \A n : In(n, s) \/ In(n, t) => In(n, s1) \/ In(n, t1)
  <2>1. (\A i \in DOMAIN s : i \in DOMAIN s1 /\ s1[i] = s[i]) /\ k + 1 \in DOMAIN s1
    BY <1>2
  <2>2. (\A n : In(n, s) => In(n, s1)) /\ In(h, s1)
    BY <1>2, <2>1 DEF In
  <2> QED BY <1>11, <2>2
<1>13. ASSUME NEW u \in Seq(1..m)
       PROVE  /\ Before(u, t) => Before(u, t1)
              /\ Before(u, s) /\ Before(u, t) => Before(u, s1)
              /\ Before(s, u) /\ Before(t, u) => Before(s1, u)
              /\ Before(t, u) => Before(t1, u)
  BY <1>1, <1>2, <1>4, <1>5 DEF Before
<1> QED BY <1>1, <1>2, <1>7, <1>8, <1>9, <1>10, <1>11, <1>12, <1>13 DEF h, t1, s1

\* Every step keeps the commands in order and loses none but an Abort.
LEMMA QueuesStep ==
    ASSUME Queued, Next
    PROVE  Queued'
<1> DEFINE m == Len(sent)
<1>1. m \in Nat /\ handled \in Seq(1..m) /\ pending \in Seq(1..m) /\ cmd_rx \in Seq(1..m)
  BY DEF Queued
<1>2. CASE UNCHANGED <<sent, handled, cmd_rx, pending>>
  BY <1>2 DEF Queued, QueuesInOrder, NoneLost, Sorted, Before, In
<1>3. CASE SendCommand
  <2> DEFINE r1 == Append(cmd_rx, m + 1)
  <2>1. PICK kind \in Kinds : sent' = Append(sent, kind)
    BY <1>3 DEF SendCommand
  <2>2. handled' = handled /\ pending' = pending /\ cmd_rx' = r1
    BY <1>3 DEF SendCommand
  <2>3. /\ sent' \in Seq(Kinds) /\ Len(sent') = m + 1
        /\ \A n \in 1..m : sent'[n] = sent[n]
    BY <2>1 DEF Queued
  <2> HIDE DEF m
  <2>4. handled \in Seq(1..(m + 1)) /\ pending \in Seq(1..(m + 1)) /\ cmd_rx \in Seq(1..(m + 1))
    <3>1. \A s \in Seq(1..m) : s \in Seq(1..(m + 1))
      <4>1. 1..m \subseteq 1..(m + 1)
        BY <1>1
      <4> QED BY <4>1, SeqMonotonic
    <3> QED BY <1>1, <3>1
  <2>5. /\ r1 \in Seq(1..(m + 1)) /\ Len(cmd_rx) \in Nat /\ DOMAIN cmd_rx = 1..Len(cmd_rx)
        /\ DOMAIN r1 = 1..(Len(cmd_rx) + 1)
        /\ \A i \in 1..Len(cmd_rx) : r1[i] = cmd_rx[i]
        /\ r1[Len(cmd_rx) + 1] = m + 1
    <3>1. m + 1 \in 1..(m + 1)
      BY <1>1
    <3> QED BY <2>4, <3>1, AppendIs
  <2> HIDE DEF r1
  <2>6. \A s \in Seq(1..m) : \A i \in DOMAIN s : s[i] \in Nat /\ s[i] < m + 1
    BY <1>1
  <2>7. Sorted(r1)
    <3> SUFFICES ASSUME NEW i \in DOMAIN r1, NEW j \in DOMAIN r1, i < j
                 PROVE  r1[i] < r1[j]
      BY DEF Sorted
    <3>1. i \in DOMAIN cmd_rx /\ r1[i] = cmd_rx[i]
      BY <2>5
    <3>2. CASE j \in DOMAIN cmd_rx
      BY <2>5, <3>1, <3>2 DEF Queued, QueuesInOrder, Sorted
    <3>3. CASE j = Len(cmd_rx) + 1
      BY <1>1, <2>5, <2>6, <3>1, <3>3
    <3> QED BY <2>5, <3>2, <3>3
  <2>8. \A s \in Seq(1..m) : Before(s, cmd_rx) => Before(s, r1)
    <3> SUFFICES ASSUME NEW s \in Seq(1..m), Before(s, cmd_rx),
                        NEW i \in DOMAIN s, NEW j \in DOMAIN r1
                 PROVE  s[i] < r1[j]
      BY DEF Before
    <3>1. CASE j \in DOMAIN cmd_rx
      BY <2>5, <3>1 DEF Before
    <3>2. CASE j = Len(cmd_rx) + 1
      BY <2>5, <2>6, <3>2
    <3> QED BY <2>5, <3>1, <3>2
  <2>9. QueuesInOrder'
    BY <1>1, <2>2, <2>7, <2>8 DEF Queued, QueuesInOrder, Sorted, Before
  <2>10. NoneLost'
    <3>1. \A n \in 1..(m + 1) : n \in 1..m \/ n = m + 1
      BY <1>1
    <3>2. In(m + 1, r1) /\ \A n : In(n, cmd_rx) => In(n, r1)
      BY <2>5 DEF In
    <3>3. \A n \in 1..m : sent'[n] # "Abort" => In(n, handled) \/ In(n, pending) \/ In(n, r1)
      BY <2>3, <3>2 DEF Queued, NoneLost, m
    <3>4. \A n \in 1..(m + 1) :
            sent'[n] # "Abort" => In(n, handled) \/ In(n, pending) \/ In(n, r1)
      BY <3>1, <3>2, <3>3
    <3> QED BY <2>2, <2>3, <3>4 DEF NoneLost, In
  <2> QED BY <2>2, <2>3, <2>4, <2>5, <2>9, <2>10 DEF Queued
<1>4. CASE HandlePendingCommand
  <2>1. /\ sent' = sent /\ cmd_rx' = cmd_rx /\ pending # <<>>
        /\ handled' = Append(handled, Head(pending)) /\ pending' = Tail(pending)
    BY <1>4 DEF HandlePendingCommand, HandleCommand
  <2>2. /\ Sorted(handled) /\ Sorted(pending) /\ Sorted(cmd_rx)
        /\ Before(handled, pending) /\ Before(handled, cmd_rx) /\ Before(pending, cmd_rx)
    BY DEF Queued, QueuesInOrder
  <2> HIDE DEF m
  <2>3. /\ handled' \in Seq(1..m) /\ pending' \in Seq(1..m)
        /\ Sorted(handled') /\ Sorted(pending') /\ Before(handled', pending')
        /\ Before(handled', cmd_rx) /\ Before(pending', cmd_rx)
        /\ \A n : In(n, handled) \/ In(n, pending) => In(n, handled') \/ In(n, pending')
    BY <1>1, <2>1, <2>2, MoveIs
  <2>4. QueuesInOrder'
    BY <2>1, <2>2, <2>3 DEF QueuesInOrder, Sorted, Before
  <2>5. NoneLost'
    BY <2>1, <2>3 DEF Queued, NoneLost, In
  <2> QED BY <1>1, <2>1, <2>3, <2>4, <2>5 DEF Queued, m
<1>5. CASE HandleNextCommand
  <2>1. /\ sent' = sent /\ pending' = pending /\ pending = <<>> /\ cmd_rx # <<>>
        /\ handled' = Append(handled, Head(cmd_rx)) /\ cmd_rx' = Tail(cmd_rx)
    BY <1>5 DEF HandleNextCommand, HandleCommand, Selecting
  <2>2. Sorted(handled) /\ Sorted(pending) /\ Sorted(cmd_rx) /\ Before(handled, cmd_rx)
    BY DEF Queued, QueuesInOrder
  <2> HIDE DEF m
  <2>3. /\ handled' \in Seq(1..m) /\ cmd_rx' \in Seq(1..m)
        /\ Sorted(handled') /\ Sorted(cmd_rx') /\ Before(handled', cmd_rx')
        /\ \A n : In(n, handled) \/ In(n, cmd_rx) => In(n, handled') \/ In(n, cmd_rx')
    BY <1>1, <2>1, <2>2, MoveIs
  <2>4. Before(handled', pending) /\ Before(pending, cmd_rx')
    BY <2>1 DEF Before
  <2>5. QueuesInOrder'
    BY <2>1, <2>2, <2>3, <2>4 DEF QueuesInOrder, Sorted, Before
  <2>6. NoneLost'
    BY <2>1, <2>3 DEF Queued, NoneLost, In
  <2> QED BY <1>1, <2>1, <2>3, <2>5, <2>6 DEF Queued, m
<1>6. CASE HandleInterrupt
  <2> DEFINE p1 == Append(pending, Head(cmd_rx))
             r1 == Tail(cmd_rx)
  <2>1. /\ sent' = sent /\ handled' = handled /\ cmd_rx # <<>> /\ cmd_rx' = r1
        /\ \/ sent[Head(cmd_rx)] = "Abort" /\ pending' = pending
           \/ pending' = p1
    BY <1>6 DEF HandleInterrupt
  <2>2. /\ Sorted(handled) /\ Sorted(pending) /\ Sorted(cmd_rx)
        /\ Before(handled, pending) /\ Before(handled, cmd_rx) /\ Before(pending, cmd_rx)
    BY DEF Queued, QueuesInOrder
  <2>3. NoneLost
    BY DEF Queued
  <2> HIDE DEF m
  <2>4. /\ p1 \in Seq(1..m) /\ r1 \in Seq(1..m) /\ Sorted(p1) /\ Sorted(r1)
        /\ Before(p1, r1) /\ Before(pending, r1) /\ Before(handled, p1) /\ Before(handled, r1)
        /\ \A n : In(n, pending) \/ In(n, cmd_rx) => In(n, p1) \/ In(n, r1)
        /\ \A n : In(n, cmd_rx) => In(n, r1) \/ n = Head(cmd_rx)
    BY <1>1, <2>1, <2>2, MoveIs
  <2> HIDE DEF p1, r1
  <2>5. CASE sent[Head(cmd_rx)] = "Abort" /\ pending' = pending
    <3>1. QueuesInOrder'
      BY <2>1, <2>2, <2>4, <2>5 DEF QueuesInOrder, Sorted, Before
    <3>2. \A n \in 1..m : sent[n] # "Abort" => In(n, handled) \/ In(n, pending) \/ In(n, r1)
      BY <2>3, <2>4, <2>5 DEF NoneLost, m
    <3>3. NoneLost'
      BY <2>1, <2>5, <3>2 DEF NoneLost, In, m
    <3> QED BY <1>1, <2>1, <2>4, <2>5, <3>1, <3>3 DEF Queued, m
  <2>6. CASE pending' = p1
    <3>1. QueuesInOrder'
      BY <2>1, <2>2, <2>4, <2>6 DEF QueuesInOrder, Sorted, Before
    <3>2. \A n \in 1..m : sent[n] # "Abort" => In(n, handled) \/ In(n, p1) \/ In(n, r1)
      BY <2>3, <2>4 DEF NoneLost, m
    <3>3. NoneLost'
      BY <2>1, <2>6, <3>2 DEF NoneLost, In, m
    <3> QED BY <1>1, <2>1, <2>4, <2>6, <3>1, <3>3 DEF Queued, m
  <2> QED BY <2>1, <2>5, <2>6
<1> QED
  BY <1>2, <1>3, <1>4, <1>5, <1>6
  DEF Next, ClientNext, ActorNext, TurnNext, CloseChannel, SendSignal, HandleSignal,
      HandleClosedChannel, Stop, HandleConfirmRequest, Tick, HandleClosedDuringPrompt,
      TurnDenied, TurnBegins, TurnSignalsLoopSuccess, TurnAsksConfirmation, TurnEnds,
      BridgeEnds, Completes, clientVars

------------------------------------------------------------------------------
(* The confirmation store and its bridges. *)

Confirms ==
    /\ open \in BOOLEAN /\ signal \in BOOLEAN
    /\ asks \in Seq(Nat) /\ store \in [pending : SUBSET Nat, next_id : Nat]
    /\ bridges \subseteq Nat \X Nat
    /\ \A id \in store.pending : id < store.next_id

\* Every step keeps the ids the store waits for below the next one.
LEMMA ConfirmsStep ==
    ASSUME Confirms, turn \in Turns, Next
    PROVE  Confirms'
<1> USE DEF Confirms
<1>1. CASE UNCHANGED <<open, signal, asks, store, bridges>>
  BY <1>1
<1>2. CASE CloseChannel \/ SendSignal
  BY <1>2 DEF CloseChannel, SendSignal, confirmVars
<1>3. CASE HandlePendingCommand \/ HandleNextCommand
  <2>1. UNCHANGED <<open, signal, asks, bridges>> /\ (store' = store \/ store' = respond(store, 1))
    BY <1>3 DEF HandlePendingCommand, HandleNextCommand, HandleCommand
  <2>2. CASE store' = respond(store, 1)
    <3>1. /\ store' \in [pending : SUBSET Nat, next_id : Nat] /\ store'.next_id = store.next_id
          /\ store'.pending \subseteq store.pending
      BY <2>2 DEF respond
    <3> QED BY <2>1, <3>1
  <2> QED BY <2>1, <2>2
<1>4. CASE HandleConfirmRequest
  <2>1. /\ UNCHANGED <<open, signal>> /\ asks # <<>> /\ asks' = Tail(asks)
        /\ store' = register_confirm(store)
        /\ bridges' = bridges \cup {<<store.next_id, Head(asks)>>}
    BY <1>4 DEF HandleConfirmRequest, clientVars
  <2>2. asks' \in Seq(Nat) /\ Head(asks) \in Nat
    BY <2>1, TailIs
  <2>3. bridges' \subseteq Nat \X Nat
    BY <2>1, <2>2
  <2>4. store' = [pending |-> store.pending \cup {store.next_id}, next_id |-> store.next_id + 1]
    BY <2>1 DEF register_confirm
  <2> QED BY <2>1, <2>2, <2>3, <2>4
<1>5. CASE TurnAsksConfirmation
  <2>1. UNCHANGED <<open, signal, store, bridges>> /\ asks' = Append(asks, turn.ask + 1)
    BY <1>5 DEF TurnAsksConfirmation, clientVars
  <2>2. turn.ask + 1 \in Nat
    BY DEF Turns
  <2>3. asks' \in Seq(Nat)
    BY <2>1, <2>2, AppendIs
  <2> QED BY <2>1, <2>3
<1>6. CASE BridgeEnds
  <2>1. UNCHANGED <<open, signal, asks, store>> /\ bridges' \subseteq bridges
    BY <1>6 DEF BridgeEnds, clientVars
  <2> QED BY <2>1
<1> QED
  BY <1>1, <1>2, <1>3, <1>4, <1>5, <1>6
  DEF Next, ClientNext, ActorNext, TurnNext, SendCommand, HandleSignal,
      HandleClosedChannel, Stop, Tick, HandleInterrupt, HandleClosedDuringPrompt,
      TurnDenied, TurnBegins, TurnSignalsLoopSuccess, TurnEnds, Completes, clientVars, confirmVars

------------------------------------------------------------------------------
(* The invariant and what it gives. *)

\* The inductive invariant is the three parts.
LEMMA Parts == IInv <=> Control /\ Queued /\ Confirms
<1>1. ControllerFollows => ctl \in ControllerState
  BY DEF ControllerFollows, Ctl
<1> QED
  BY <1>1 DEF IInv, TypeOK, Control, Queued, Confirms, Actors, Agents, Turns

\* The inductive invariant holds initially.
LEMMA InitHolds == Init => IInv
<1> SUFFICES ASSUME Init PROVE IInv
  OBVIOUS
<1> DEFINE command == IF AutoTestOn THEN AutoTestCommand ELSE None
<1>1. ctl = NewController("Off", AutoTestOn, command)
  BY DEF Init
<1>2. command \in Commands \cup {None} /\ AutoTestOn \in BOOLEAN
  BY AutoTestCommandTyped, DaemonAssumption
<1>3. Ctl(ctl, FALSE, FALSE)
  <2> HIDE DEF command
  <2> USE CoreAssumption, LoopAssumption, NoneAssumption
  <2>1. InitialCore("Off", AutoTestOn, command) \in CoreState
    BY <1>2 DEF InitialCore, CoreState, EffectIds, ThinkingLevels
  <2> QED BY <1>1, <1>2, <2>1 DEF NewController, ControllerState, Ctl, LoopKnown, InitialCore, Loops
<1>4. ~Prompting /\ Testing = FALSE /\ agent.present /\ (Prompting \/ ~agent.present) = FALSE
  BY DEF Init, Prompting, Testing
<1>5. Control
  BY <1>3, <1>4 DEF Init, Control, ControllerFollows, PromptHasTurn, NothingUnsavedWhenStopped,
     Actors, Agents, Turns, NoTurn
<1>6. Queued
  BY DEF Init, Queued, QueuesInOrder, NoneLost, Sorted, Before, In
<1>7. Confirms
  <2>1. asks = <<>> /\ store = [pending |-> {}, next_id |-> 1] /\ bridges = {}
    BY DEF Init
  <2>2. store \in [pending : SUBSET Nat, next_id : Nat] /\ \A id \in store.pending : id < store.next_id
    BY <2>1
  <2>3. open \in BOOLEAN /\ signal \in BOOLEAN
    BY DEF Init
  <2>4. asks \in Seq(Nat) /\ bridges \subseteq Nat \X Nat
    BY <2>1
  <2> QED BY <2>2, <2>3, <2>4 DEF Confirms
<1> QED BY <1>5, <1>6, <1>7, Parts

\* Every step preserves the inductive invariant.
LEMMA StepHolds == IInv /\ [Next]_vars => IInv'
<1> SUFFICES ASSUME IInv, [Next]_vars PROVE IInv'
  OBVIOUS
<1>1. Control /\ Queued /\ Confirms /\ turn \in Turns
  BY Parts DEF Control
<1>2. CASE Next
  <2>1. Control'
    BY <1>1, <1>2, ControlStep
  <2>2. Queued'
    BY <1>1, <1>2, QueuesStep
  <2>3. Confirms'
    BY <1>1, <1>2, ConfirmsStep
  <2> QED BY <2>1, <2>2, <2>3, Parts, PTL
<1>3. CASE UNCHANGED vars
  BY <1>3
  DEF vars, IInv, TypeOK, ControllerFollows, PromptHasTurn, NothingUnsavedWhenStopped,
      QueuesInOrder, NoneLost, Prompting, Testing, Sorted, Before, In
<1> QED BY <1>2, <1>3

\* The inductive invariant is an invariant of the specification.
THEOREM Invariant == Spec => []IInv
BY InitHolds, StepHolds, PTL DEF Spec

\* For any number of commands, every variable keeps its type, and the confirmation
\* store hands out no id that it waits for.
THEOREM TypeCorrect == Spec => []TypeOK
<1>1. IInv => TypeOK
  BY DEF IInv
<1> QED BY <1>1, Invariant, PTL

\* No command of a client, and no end of a prompt, leaves the controller of a daemon
\* session busy: it is busy while a prompt runs and after it lost its agent, only.
THEOREM BusyCorrect == Spec => []BusyIffPrompting
<1>1. IInv => BusyIffPrompting
  BY DEF IInv, ControllerFollows, Ctl, BusyIffPrompting
<1> QED BY <1>1, Invariant, PTL

\* The guard that maybe_auto_test sets is always taken back before the actor listens
\* to the next command.
THEOREM AutoTestCorrect == Spec => []AutoTestGuardCleared
<1>1. IInv => AutoTestGuardCleared
  BY DEF IInv, ControllerFollows, Ctl, AutoTestGuardCleared, Testing, core
<1> QED BY <1>1, Invariant, PTL

\* The actor handles every command but an Abort exactly once and in the order sent,
\* however prompts and the commands that come during them interleave.
THEOREM OrderCorrect == Spec => []CommandsInOrder
<1>1. IInv => CommandsInOrder
  <2> SUFFICES ASSUME IInv PROVE CommandsInOrder
    OBVIOUS
  <2>1. Sorted(handled) /\ Before(handled, pending) /\ Before(handled, cmd_rx)
    BY DEF IInv, QueuesInOrder
  <2>2. /\ Len(sent) \in Nat /\ handled \in Seq(1..Len(sent))
        /\ pending \in Seq(1..Len(sent)) /\ cmd_rx \in Seq(1..Len(sent))
    BY DEF IInv, TypeOK
  <2>3. ASSUME NEW j \in DOMAIN handled, NEW n \in 1..(handled[j] - 1), sent[n] # "Abort"
        PROVE  \E i \in DOMAIN handled : handled[i] = n
    <3>1. handled[j] \in 1..Len(sent) /\ n \in 1..Len(sent) /\ n < handled[j]
      BY <2>2
    <3>2. In(n, handled) \/ In(n, pending) \/ In(n, cmd_rx)
      BY <2>3, <3>1 DEF IInv, NoneLost
    <3>3. ~In(n, pending) /\ ~In(n, cmd_rx)
      BY <2>1, <2>2, <3>1 DEF Before, In
    <3> QED BY <3>2, <3>3 DEF In
  <2> QED BY <2>1, <2>3 DEF CommandsInOrder, Sorted
<1> QED BY <1>1, Invariant, PTL

\* A session that stops while it has its agent has saved everything.
THEOREM SavedCorrect == Spec => []NothingUnsavedWhenStopped
<1>1. IInv => NothingUnsavedWhenStopped
  BY DEF IInv
<1> QED BY <1>1, Invariant, PTL

=============================================================================
