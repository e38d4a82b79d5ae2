------------------------- MODULE StdioPluginProofs -------------------------
(***************************************************************************)
(* Proofs about StdioPlugin, for any number of runs, calls and restarts.   *)
(*                                                                         *)
(* Tasks of several runs are alive at once, and each writes the manager's  *)
(* state in many sections.  The state shown is right all the same because  *)
(* a task writes it only while it is the registered run, or as its last    *)
(* act when none is; the live state is right because whoever leaves an     *)
(* open connection clears what it wrote, whether still registered or not.  *)
(***************************************************************************)
EXTENDS StdioPlugin, TLAPS

-----------------------------------------------------------------------------
(* The inductive invariant.                                                *)

\* A task that ends knows the state to end with, and one that shuts down the state it was told.
EndsWithState ==
    \A r \in Runs : /\ task[r].pc = "final" => task[r].arg \in {"Loaded", "Disabled", "Error"}
                    /\ task[r].pc = "closing" => task[r].arg \in {"Loaded", "Disabled"}

\* The user's start has a run id left: the bound is checked before the stop.
StartHasId == user = "start" => next_run_id \in Runs

IInv ==
    /\ TypeOK
    /\ EndsWithState
    /\ StartHasId
    /\ StateMatchesSupervisor
    /\ ToolsOfOpenConnection

-----------------------------------------------------------------------------
(* What a step does to the task of its run.                                *)

\* The task of r goes to pc, with a new is_ready_seen and argument; the others stay.
TaskTo(r, pc, ready, arg) ==
    /\ task' \in [Runs -> Supervising]
    /\ \A q \in Runs \ {r} : task'[q] = task[q]
    /\ task'[r].pc = pc /\ task'[r].ready = ready /\ task'[r].arg = arg

LEMMA GotoGoes ==
    ASSUME TypeOK, NEW r \in Runs,
           NEW STATE pc, pc \in {"none", "launch", "open", "frame", "closing", "backoff", "final", "done"},
           NEW STATE fails, fails \in 0..(RestartLimit - 1), NEW STATE ready, ready \in BOOLEAN,
           NEW STATE arg, arg \in {"none", "ready", "live", "Loaded", "Disabled", "Error"},
           Goto(r, pc, fails, ready, arg)
    PROVE  TaskTo(r, pc, ready, arg)
<1>1. task \in [Runs -> Supervising]
  BY DEF TypeOK
<1> QED BY <1>1 DEF Goto, TaskTo, Supervising

\* After an unexpected exit the task waits for its restart, or gives up.
LEMMA ExitGoes ==
    ASSUME TypeOK, NEW r \in Runs, NEW STATE ready, ready \in BOOLEAN, UnexpectedExit(r, ready)
    PROVE  \/ /\ TaskTo(r, "backoff", FALSE, "none")
              /\ UNCHANGED supervisor /\ pstate' = IF MaySet(r) THEN "Backoff" ELSE pstate
           \/ TaskTo(r, "final", FALSE, "Error") /\ RemoveSupervisor(r) /\ UNCHANGED pstate
<1> DEFINE fails == IF ready THEN 0 ELSE task[r].fails + 1
           giveUp == ~ready /\ Exhausted(fails)
<1>1. task \in [Runs -> Supervising] /\ RestartLimit \in Nat \ {0}
  BY PluginAssumption DEF TypeOK
<1>2. task[r].fails \in 0..(RestartLimit - 1)
  BY <1>1 DEF Supervising
<1>3. (giveUp \/ fails \in 0..(RestartLimit - 1)) /\ 0 \in 0..(RestartLimit - 1)
  BY <1>1, <1>2 DEF Exhausted
<1>4. /\ IF giveUp THEN Goto(r, "final", 0, FALSE, "Error") ELSE Goto(r, "backoff", fails, FALSE, "none")
      /\ IF giveUp THEN RemoveSupervisor(r) /\ UNCHANGED pstate
                   ELSE pstate' = (IF MaySet(r) THEN "Backoff" ELSE pstate) /\ UNCHANGED supervisor
  BY DEF UnexpectedExit
<1> HIDE DEF fails, giveUp
<1>5. CASE giveUp
  BY <1>3, <1>4, <1>5, GotoGoes
<1>6. CASE ~giveUp
  BY <1>3, <1>4, <1>6, GotoGoes
<1> QED BY <1>5, <1>6

\* How the other actions move the task of their run.
LEMMA TaskGoes ==
    ASSUME TypeOK, NEW r \in Runs
    PROVE  /\ Launch(r) => TaskTo(r, "open", task[r].ready, "none")
           /\ Top(r) => TaskTo(r, "launch", task[r].ready, "none")
           /\ Finish(r) => TaskTo(r, "done", FALSE, "none")
           /\ HearReady(r) => TaskTo(r, "frame", task[r].ready, "ready")
           /\ HearLive(r) => TaskTo(r, "frame", task[r].ready, "live")
           /\ ApplyReady(r) => TaskTo(r, "open", TRUE, "none")
           /\ ApplyLive(r) => TaskTo(r, "open", task[r].ready, "none")
           /\ \A target \in {"Loaded", "Disabled"} :
                 /\ OpenShutdown(r, target) => TaskTo(r, "closing", FALSE, target)
                 /\ Stopped(r, target) => TaskTo(r, "final", FALSE, target)
<1>1. /\ task[r].fails \in 0..(RestartLimit - 1) /\ task[r].ready \in BOOLEAN
      /\ 0 \in 0..(RestartLimit - 1)
  BY PluginAssumption DEF TypeOK, Supervising
<1> QED BY <1>1, GotoGoes
        DEF Launch, Top, Finish, HearReady, HearLive, ApplyReady, ApplyLive, OpenShutdown, Stopped

\* The commands in a channel.
LEMMA CommandFacts ==
    ASSUME TypeOK, NEW r \in Runs
    PROVE  /\ commands[r] \in Seq(Commands)
           /\ commands[r] # <<>> => Head(commands[r]) \in Commands /\ Tail(commands[r]) \in Seq(Commands)
           /\ \A c \in Commands : c.kind = "shutdown" => c.target \in {"Loaded", "Disabled"}
           /\ \A c \in Commands : c.kind = "invoke" => c.id \in Calls
<1>1. commands \in [Runs -> Seq(Commands)]
  BY DEF TypeOK
<1>2. \A c \in Commands : c.kind = "shutdown" => c.target \in {"Loaded", "Disabled"}
  BY DEF Commands, Invoke, Drop, Shutdown
<1>3. \A c \in Commands : c.kind = "invoke" => c.id \in Calls
  BY DEF Commands, Invoke, Drop, Shutdown
<1>4. commands[r] # <<>> => Head(commands[r]) \in Commands /\ Tail(commands[r]) \in Seq(Commands)
  BY <1>1
<1> QED BY <1>1, <1>2, <1>3, <1>4

\* What the channels hold after a send.
LEMMA SendFacts ==
    ASSUME TypeOK, NEW c \in Commands
    PROVE  /\ \A r \in Runs : Send(r, <<c>>) \in [Runs -> Seq(Commands)]
           /\ SendCurrent(<<c>>) \in [Runs -> Seq(Commands)]
<1>1. commands \in [Runs -> Seq(Commands)] /\ supervisor \in Runs \cup {NoRun}
  BY DEF TypeOK
<1>2. ASSUME NEW r \in Runs PROVE Send(r, <<c>>) \in [Runs -> Seq(Commands)]
  <2>1. commands[r] \o <<c>> \in Seq(Commands)
    BY <1>1
  <2> QED BY <1>1, <2>1 DEF Send
<1> QED BY <1>1, <1>2 DEF SendCurrent

-----------------------------------------------------------------------------
(* The types, part by part.                                                *)

TasksTyped == task \in [Runs -> Supervising] /\ EndsWithState

ManagerTyped ==
    /\ pstate \in States
    /\ supervisor \in Runs \cup {NoRun}
    /\ live \in [run : Runs \cup {NoRun}, tool : BOOLEAN]
    /\ next_run_id \in 1..(MaxRuns + 1)
    /\ user \in {"idle", "start", "gone"}
    /\ StartHasId

ChannelsTyped ==
    /\ commands \in [Runs -> Seq(Commands)]
    /\ pending \in [Runs -> SUBSET Calls]
    /\ child \in [Runs -> {"none", "running", "exited"}]
    /\ event \subseteq Calls

CallsTyped ==
    /\ call \in [Calls -> ToolCalls]
    /\ \A c \in Calls : call[c].at \in {"checked", "waiting", "cancelling"} => call[c].run \in Runs

\* They make up the type invariant and the facts that go with it.
LEMMA TypeParts ==
    TypeOK /\ EndsWithState /\ StartHasId <=> TasksTyped /\ ManagerTyped /\ ChannelsTyped /\ CallsTyped
BY DEF TypeOK, TasksTyped, ManagerTyped, ChannelsTyped, CallsTyped

\* Tasks keep their types, and end with a state.
LEMMA TasksStep ==
    ASSUME TypeOK, EndsWithState, StartHasId, Next
    PROVE  TasksTyped'
<1>1. CASE UNCHANGED <<task>>
  BY <1>1, TypeParts DEF TasksTyped, EndsWithState
<1>2. ASSUME NEW r \in Runs, Launch(r) PROVE TasksTyped'
  <2>1. TaskTo(r, "open", task[r].ready, "none")
    BY <1>2, TaskGoes
  <2> QED BY <2>1 DEF TaskTo, TasksTyped, EndsWithState
<1>3. ASSUME NEW r \in Runs, LaunchFails(r) PROVE TasksTyped'
  <2>1. TaskTo(r, "backoff", FALSE, "none") \/ TaskTo(r, "final", FALSE, "Error")
    BY <1>3, ExitGoes DEF LaunchFails
  <2> QED BY <2>1 DEF TaskTo, TasksTyped, EndsWithState
<1>4. ASSUME NEW r \in Runs, NEW target \in {"Loaded", "Disabled"}, OpenShutdown(r, target)
      PROVE  TasksTyped'
  <2>1. TaskTo(r, "closing", FALSE, target)
    BY <1>4, TaskGoes
  <2> QED BY <2>1 DEF TaskTo, TasksTyped, EndsWithState
<1>5. ASSUME NEW r \in Runs, Closed(r) PROVE TasksTyped'
  <2>1. task[r].arg \in {"Loaded", "Disabled"}
    BY <1>5 DEF Closed, At, EndsWithState
  <2>2. TaskTo(r, "final", FALSE, task[r].arg)
    BY <1>5, <2>1, TaskGoes DEF Closed
  <2> QED BY <2>1, <2>2 DEF TaskTo, TasksTyped, EndsWithState
<1>6. ASSUME NEW r \in Runs, ApplyReady(r) PROVE TasksTyped'
  <2>1. TaskTo(r, "open", TRUE, "none")
    BY <1>6, TaskGoes
  <2> QED BY <2>1 DEF TaskTo, TasksTyped, EndsWithState
<1>7. ASSUME NEW r \in Runs, ApplyLive(r) PROVE TasksTyped'
  <2>1. TaskTo(r, "open", task[r].ready, "none")
    BY <1>7, TaskGoes
  <2> QED BY <2>1 DEF TaskTo, TasksTyped, EndsWithState
<1>8. ASSUME NEW r \in Runs, ExitSeen(r) PROVE TasksTyped'
  <2>1. TaskTo(r, "backoff", FALSE, "none") \/ TaskTo(r, "final", FALSE, "Error")
    BY <1>8, ExitGoes DEF ExitSeen, TypeOK, Supervising
  <2> QED BY <2>1 DEF TaskTo, TasksTyped, EndsWithState
<1>9. ASSUME NEW r \in Runs, BackoffCommand(r) PROVE TasksTyped'
  <2>1. CASE Top(r)
    <3>1. TaskTo(r, "launch", task[r].ready, "none")
      BY <2>1, TaskGoes
    <3> QED BY <3>1 DEF TaskTo, TasksTyped, EndsWithState
  <2>2. CASE ~Top(r)
    <3>1. PICK target \in {"Loaded", "Disabled"} : Stopped(r, target)
      BY <1>9, <2>2, CommandFacts DEF BackoffCommand
    <3>2. TaskTo(r, "final", FALSE, target)
      BY <3>1, TaskGoes
    <3> QED BY <3>2 DEF TaskTo, TasksTyped, EndsWithState
  <2> QED BY <2>1, <2>2
<1>10. ASSUME NEW r \in Runs, BackoffOver(r) PROVE TasksTyped'
  <2>1. TaskTo(r, "launch", task[r].ready, "none")
    BY <1>10, TaskGoes DEF BackoffOver
  <2> QED BY <2>1 DEF TaskTo, TasksTyped, EndsWithState
<1>11. ASSUME NEW r \in Runs, Finish(r) PROVE TasksTyped'
  <2>1. TaskTo(r, "done", FALSE, "none")
    BY <1>11, TaskGoes
  <2> QED BY <2>1 DEF TaskTo, TasksTyped, EndsWithState
<1>12. ASSUME NEW r \in Runs, HearProtocolError(r) PROVE TasksTyped'
  <2>1. TaskTo(r, "backoff", FALSE, "none") \/ TaskTo(r, "final", FALSE, "Error")
    BY <1>12, ExitGoes DEF HearProtocolError
  <2> QED BY <2>1 DEF TaskTo, TasksTyped, EndsWithState
<1>13. ASSUME NEW r \in Runs, HearReady(r) PROVE TasksTyped'
  <2>1. TaskTo(r, "frame", task[r].ready, "ready")
    BY <1>13, TaskGoes
  <2> QED BY <2>1 DEF TaskTo, TasksTyped, EndsWithState
<1>14. ASSUME NEW r \in Runs, HearLive(r) PROVE TasksTyped'
  <2>1. TaskTo(r, "frame", task[r].ready, "live")
    BY <1>14, TaskGoes
  <2> QED BY <2>1 DEF TaskTo, TasksTyped, EndsWithState
<1>15. ASSUME start_stdio_plugin PROVE TasksTyped'
  <2>1. CASE UNCHANGED task
    BY <2>1, TypeParts DEF TasksTyped, EndsWithState
  <2>2. CASE Goto(next_run_id, "launch", 0, FALSE, "none")
    <3>1. next_run_id \in Runs /\ 0 \in 0..(RestartLimit - 1)
      BY <1>15, PluginAssumption DEF start_stdio_plugin, StartHasId
    <3>2. TaskTo(next_run_id, "launch", FALSE, "none")
      BY <2>2, <3>1, GotoGoes
    <3> QED BY <3>1, <3>2 DEF TaskTo, TasksTyped, EndsWithState
  <2> QED BY <1>15, <2>1, <2>2 DEF start_stdio_plugin
<1> QED
  BY <1>1, <1>2, <1>3, <1>4, <1>5, <1>6, <1>7, <1>8, <1>9, <1>10, <1>11, <1>12, <1>13, <1>14,
     <1>15
     DEF Next, TaskStep, ProcessStep, CallStep, OpenInvoke, OpenDrop, GraceExpires, ChildExits,
         HearAnswer, disable, enable, reload, shutdown_plugin_runtime, CheckCall, SendInvoke,
         Receive, finish_cancelled_stdio_call, CancelCall, TimeOut, Return, manager

\* The manager keeps its types, and a start has a run id.
LEMMA ManagerStep ==
    ASSUME TypeOK, EndsWithState, StartHasId, Next
    PROVE  ManagerTyped'
<1> USE DEF ManagerTyped
<1>0. ManagerTyped
  BY TypeParts
<1>1. CASE UNCHANGED <<pstate, supervisor, live, next_run_id, user>>
  BY <1>0, <1>1 DEF StartHasId
<1>2. ASSUME NEW r \in Runs, LaunchFails(r) PROVE ManagerTyped'
  BY <1>0, <1>2
     DEF LaunchFails, UnexpectedExit, RemoveSupervisor, ClearLive, NoLive, StartHasId, States
<1>3. ASSUME NEW r \in Runs, Closed(r) PROVE ManagerTyped'
  BY <1>0, <1>3 DEF Closed, Stopped, RemoveSupervisor, ClearLive, NoLive, StartHasId
<1>4. ASSUME NEW r \in Runs, ApplyReady(r) PROVE ManagerTyped'
  BY <1>0, <1>4 DEF ApplyReady, States, StartHasId
<1>5. ASSUME NEW r \in Runs, ApplyLive(r) PROVE ManagerTyped'
  <2>1. PICK tool \in BOOLEAN : live' = [live_state_for_run(r) EXCEPT !.tool = tool]
    <3>1. live_state_for_run(r).tool \in BOOLEAN
      BY <1>0 DEF live_state_for_run
    <3> QED BY <1>5, <3>1 DEF ApplyLive
  <2> QED BY <1>0, <1>5, <2>1 DEF ApplyLive, live_state_for_run, StartHasId
<1>6. ASSUME NEW r \in Runs, ExitSeen(r) PROVE ManagerTyped'
  BY <1>0, <1>6
     DEF ExitSeen, UnexpectedExit, RemoveSupervisor, ClearLive, NoLive, StartHasId, States
<1>7. ASSUME NEW r \in Runs, BackoffCommand(r) PROVE ManagerTyped'
  <2>1. UNCHANGED <<next_run_id, user>>
    BY <1>7 DEF BackoffCommand
  <2>2. ASSUME NEW target, Stopped(r, target) PROVE ManagerTyped'
    BY <1>0, <2>1, <2>2 DEF Stopped, RemoveSupervisor, ClearLive, NoLive, StartHasId
  <2>3. CASE Top(r) /\ UNCHANGED <<supervisor, live>>
    BY <1>0, <2>1, <2>3 DEF Top, StartHasId, States
  <2> QED BY <1>7, <2>2, <2>3 DEF BackoffCommand
<1>8. ASSUME NEW r \in Runs, BackoffOver(r) PROVE ManagerTyped'
  BY <1>0, <1>8 DEF BackoffOver, Top, StartHasId, States
<1>9. ASSUME NEW r \in Runs, Finish(r) PROVE ManagerTyped'
  BY <1>0, <1>9 DEF Finish, At, EndsWithState, StartHasId, States
<1>10. ASSUME NEW r \in Runs, HearProtocolError(r) PROVE ManagerTyped'
  BY <1>0, <1>10
     DEF HearProtocolError, UnexpectedExit, RemoveSupervisor, ClearLive, NoLive, StartHasId,
         States
<1>11. ASSUME disable PROVE ManagerTyped'
  BY <1>0, <1>11, PluginAssumption DEF disable, stop_stdio_plugin, NoLive, StartHasId, States, Runs
<1>12. ASSUME enable PROVE ManagerTyped'
  BY <1>0, <1>12, PluginAssumption DEF enable, StartHasId, States, Runs
<1>13. ASSUME reload PROVE ManagerTyped'
  BY <1>0, <1>13, PluginAssumption DEF reload, stop_stdio_plugin, NoLive, StartHasId, States, Runs
<1>14. ASSUME start_stdio_plugin PROVE ManagerTyped'
  <2>1. next_run_id \in Runs /\ next_run_id + 1 \in 1..(MaxRuns + 1)
    BY <1>14, PluginAssumption DEF start_stdio_plugin, StartHasId, Runs
  <2>2. CASE UNCHANGED manager
    BY <1>0, <1>14, <2>2 DEF start_stdio_plugin, manager, StartHasId
  <2>3. CASE /\ pstate' = "Starting" /\ live' = NoLive
             /\ supervisor' = next_run_id /\ next_run_id' = next_run_id + 1
    BY <1>0, <1>14, <2>1, <2>3 DEF start_stdio_plugin, NoLive, StartHasId, States
  <2> QED BY <1>14, <2>2, <2>3 DEF start_stdio_plugin
<1>15. ASSUME shutdown_plugin_runtime PROVE ManagerTyped'
  BY <1>0, <1>15 DEF shutdown_plugin_runtime, manager, StartHasId
<1> QED
  BY <1>1, <1>2, <1>3, <1>4, <1>5, <1>6, <1>7, <1>8, <1>9, <1>10, <1>11, <1>12, <1>13, <1>14,
     <1>15
     DEF Next, TaskStep, ProcessStep, CallStep, Launch, OpenInvoke, OpenDrop, OpenShutdown,
         GraceExpires, ChildExits, HearAnswer, HearReady, HearLive, CheckCall, SendInvoke,
         Receive, finish_cancelled_stdio_call, CancelCall, TimeOut, Return, manager

\* Channels hold commands, and what waits for an answer is a call.
LEMMA ChannelsStep ==
    ASSUME TypeOK, EndsWithState, Next
    PROVE  ChannelsTyped'
<1> USE DEF ChannelsTyped
<1>0. ChannelsTyped
  BY DEF TypeOK
<1>1. CASE UNCHANGED <<commands, pending, child, event>>
  BY <1>0, <1>1
<1>2. ASSUME NEW r \in Runs, Launch(r) PROVE ChannelsTyped'
  BY <1>0, <1>2 DEF Launch
<1>3. ASSUME NEW r \in Runs, NEW i \in Calls, OpenInvoke(r, i) PROVE ChannelsTyped'
  <2>1. commands' \in [Runs -> Seq(Commands)] /\ UNCHANGED child
    BY <1>0, <1>3, CommandFacts DEF OpenInvoke, OpenCommand
  <2>2. CASE task[r].ready
    <3> DEFINE more == pending[r] \cup {i}
    <3>1. more \in SUBSET Calls
      BY <1>0
    <3>2. pending' = [pending EXCEPT ![r] = more] /\ UNCHANGED event
      BY <1>3, <2>2 DEF OpenInvoke
    <3> HIDE DEF more
    <3> QED BY <1>0, <2>1, <3>1, <3>2
  <2>3. CASE ~task[r].ready
    BY <1>0, <1>3, <2>1, <2>3 DEF OpenInvoke
  <2> QED BY <2>2, <2>3
<1>4. ASSUME NEW r \in Runs, NEW i \in Calls, OpenDrop(r, i) PROVE ChannelsTyped'
  BY <1>0, <1>4, CommandFacts DEF OpenDrop, OpenCommand
<1>5. ASSUME NEW r \in Runs, NEW target \in {"Loaded", "Disabled"}, OpenShutdown(r, target)
      PROVE  ChannelsTyped'
  BY <1>0, <1>5, CommandFacts DEF OpenShutdown, OpenCommand
<1>6. ASSUME NEW r \in Runs, GraceExpires(r) PROVE ChannelsTyped'
  BY <1>0, <1>6 DEF GraceExpires
<1>7. ASSUME NEW r \in Runs, Closed(r) PROVE ChannelsTyped'
  BY <1>0, <1>7 DEF Closed, Disconnect
<1>8. ASSUME NEW r \in Runs, ExitSeen(r) PROVE ChannelsTyped'
  BY <1>0, <1>8 DEF ExitSeen, Disconnect
<1>9. ASSUME NEW r \in Runs, BackoffCommand(r) PROVE ChannelsTyped'
  BY <1>0, <1>9, CommandFacts DEF BackoffCommand
<1>10. ASSUME NEW r \in Runs, Finish(r) PROVE ChannelsTyped'
  BY <1>0, <1>10 DEF Finish
<1>11. ASSUME NEW r \in Runs, ChildExits(r) PROVE ChannelsTyped'
  BY <1>0, <1>11 DEF ChildExits
<1>12. ASSUME NEW r \in Runs, HearProtocolError(r) PROVE ChannelsTyped'
  BY <1>0, <1>12 DEF HearProtocolError
<1>13. ASSUME NEW r \in Runs, NEW c \in Calls, HearAnswer(r, c) PROVE ChannelsTyped'
  BY <1>0, <1>13 DEF HearAnswer
<1>14. ASSUME disable PROVE ChannelsTyped'
  <2>1. Shutdown("Disabled") \in Commands
    BY DEF Commands
  <2>2. commands' \in [Runs -> Seq(Commands)]
    BY <1>14, <2>1, SendFacts DEF disable, stop_stdio_plugin
  <2> QED BY <1>0, <1>14, <2>2 DEF disable
<1>15. ASSUME reload PROVE ChannelsTyped'
  <2>1. Shutdown("Loaded") \in Commands
    BY DEF Commands
  <2>2. commands' \in [Runs -> Seq(Commands)]
    BY <1>15, <2>1, SendFacts DEF reload, stop_stdio_plugin
  <2> QED BY <1>0, <1>15, <2>2 DEF reload
<1>16. ASSUME shutdown_plugin_runtime PROVE ChannelsTyped'
  <2>1. Shutdown("Loaded") \in Commands
    BY DEF Commands
  <2>2. commands' \in [Runs -> Seq(Commands)]
    BY <1>16, <2>1, SendFacts DEF shutdown_plugin_runtime
  <2> QED BY <1>0, <1>16, <2>2 DEF shutdown_plugin_runtime
<1>17. ASSUME NEW c \in Calls, SendInvoke(c) PROVE ChannelsTyped'
  <2>1. Invoke(c) \in Commands
    BY DEF Commands
  <2>2. commands' \in [Runs -> Seq(Commands)]
    BY <1>17, <2>1, SendFacts DEF SendInvoke, TypeOK
  <2> QED BY <1>0, <1>17, <2>2 DEF SendInvoke
<1>18. ASSUME NEW c \in Calls, Receive(c) PROVE ChannelsTyped'
  BY <1>0, <1>18 DEF Receive, Return
<1>19. ASSUME NEW c \in Calls, finish_cancelled_stdio_call(c) PROVE ChannelsTyped'
  <2>1. Drop(c) \in Commands
    BY DEF Commands
  <2>2. commands' \in [Runs -> Seq(Commands)]
    BY <1>19, <2>1, SendFacts DEF finish_cancelled_stdio_call
  <2> QED BY <1>0, <1>19, <2>2 DEF finish_cancelled_stdio_call, Return
<1>20. ASSUME NEW c \in Calls, TimeOut(c) PROVE ChannelsTyped'
  <2>1. Drop(c) \in Commands
    BY DEF Commands
  <2>2. commands' \in [Runs -> Seq(Commands)]
    BY <1>20, <2>1, SendFacts DEF TimeOut
  <2> QED BY <1>0, <1>20, <2>2 DEF TimeOut, Return
<1> QED
  BY <1>1, <1>2, <1>3, <1>4, <1>5, <1>6, <1>7, <1>8, <1>9, <1>10, <1>11, <1>12, <1>13, <1>14,
     <1>15, <1>16, <1>17, <1>18, <1>19, <1>20
     DEF Next, TaskStep, ProcessStep, CallStep, LaunchFails, ApplyReady, ApplyLive, BackoffOver,
         HearReady, HearLive, enable, start_stdio_plugin, CheckCall, CancelCall, manager

\* A call under way has a run.
LEMMA CallsStep ==
    ASSUME TypeOK, EndsWithState, Next
    PROVE  CallsTyped'
<1> USE DEF CallsTyped
<1>0. CallsTyped
  BY DEF TypeOK
<1>1. CASE UNCHANGED <<call>>
  BY <1>0, <1>1
<1>2. ASSUME NEW c \in Calls, CheckCall(c) PROVE CallsTyped'
  BY <1>0, <1>2 DEF CheckCall, ToolCalls, TypeOK
<1>3. ASSUME NEW c \in Calls, SendInvoke(c) PROVE CallsTyped'
  BY <1>0, <1>3 DEF SendInvoke, ToolCalls
<1>4. ASSUME NEW c \in Calls, Receive(c) PROVE CallsTyped'
  BY <1>0, <1>4 DEF Receive, ToolCalls, Return
<1>5. ASSUME NEW c \in Calls, finish_cancelled_stdio_call(c) PROVE CallsTyped'
  BY <1>0, <1>5 DEF finish_cancelled_stdio_call, ToolCalls, Return
<1>6. ASSUME NEW c \in Calls, CancelCall(c) PROVE CallsTyped'
  BY <1>0, <1>6 DEF CancelCall, ToolCalls
<1>7. ASSUME NEW c \in Calls, TimeOut(c) PROVE CallsTyped'
  BY <1>0, <1>7 DEF TimeOut, ToolCalls, Return
<1> QED
  BY <1>1, <1>2, <1>3, <1>4, <1>5, <1>6, <1>7
     DEF Next, TaskStep, ProcessStep, CallStep, Launch, LaunchFails, OpenInvoke, OpenDrop,
         OpenShutdown, GraceExpires, Closed, ApplyReady, ApplyLive, ExitSeen, BackoffCommand,
         BackoffOver, Finish, ChildExits, HearProtocolError, HearAnswer, HearReady, HearLive,
         disable, enable, reload, start_stdio_plugin, shutdown_plugin_runtime, manager

-----------------------------------------------------------------------------
(* The state shown is the supervisor's.                                    *)

\* A run that leaves the map leaves its state to its last section; one that is not in it changes nothing.
LEMMA RemovedShown ==
    ASSUME TypeOK, StateMatchesSupervisor, NEW r \in Runs, NEW STATE arg,
           TaskTo(r, "final", FALSE, arg), RemoveSupervisor(r), UNCHANGED pstate
    PROVE  StateMatchesSupervisor'
<1>1. At(r, "final")'
  BY DEF TaskTo, At
<1>2. supervisor \in Runs \cup {NoRun} /\ NoRun \notin Runs
  BY DEF TypeOK, NoRun, Runs
<1>3. CASE supervisor \in {r, NoRun}
  BY <1>1, <1>2, <1>3 DEF RemoveSupervisor, IsCurrent, StateMatchesSupervisor
<1>4. CASE supervisor \notin {r, NoRun}
  <2>1. supervisor' = supervisor /\ task'[supervisor] = task[supervisor]
    BY <1>2, <1>4 DEF RemoveSupervisor, IsCurrent, TaskTo
  <2> QED BY <1>4, <2>1 DEF StateMatchesSupervisor, Open, At
<1> QED BY <1>3, <1>4

\* A run that waits for its restart shows that, if it is the registered one.
LEMMA BackoffShown ==
    ASSUME TypeOK, StateMatchesSupervisor, NEW r \in Runs, task[r].pc # "final",
           TaskTo(r, "backoff", FALSE, "none"), UNCHANGED supervisor,
           pstate' = IF MaySet(r) THEN "Backoff" ELSE pstate
    PROVE  StateMatchesSupervisor'
<1>1. supervisor \in Runs \cup {NoRun} /\ NoRun \notin Runs
  BY DEF TypeOK, NoRun, Runs
<1>2. CASE supervisor = r
  BY <1>1, <1>2 DEF MaySet, IsCurrent, TaskTo, StateMatchesSupervisor, At
<1>3. CASE supervisor = NoRun
  BY <1>1, <1>3 DEF MaySet, IsCurrent, TaskTo, StateMatchesSupervisor, At
<1>4. CASE supervisor \notin {r, NoRun}
  <2>1. supervisor' = supervisor /\ task'[supervisor] = task[supervisor] /\ UNCHANGED pstate
    BY <1>1, <1>4 DEF MaySet, IsCurrent, TaskTo
  <2> QED BY <1>4, <2>1 DEF StateMatchesSupervisor, Open, At
<1> QED BY <1>2, <1>3, <1>4

\* So does a run that starts its process again.
LEMMA StartingShown ==
    ASSUME TypeOK, StateMatchesSupervisor, NEW r \in Runs, At(r, "backoff"),
           TaskTo(r, "launch", task[r].ready, "none"), UNCHANGED supervisor,
           pstate' = IF MaySet(r) THEN "Starting" ELSE pstate
    PROVE  StateMatchesSupervisor'
<1>1. supervisor \in Runs \cup {NoRun} /\ NoRun \notin Runs
  BY DEF TypeOK, NoRun, Runs
<1>2. CASE supervisor = r
  BY <1>1, <1>2 DEF MaySet, IsCurrent, TaskTo, StateMatchesSupervisor, At
<1>3. CASE supervisor = NoRun
  BY <1>1, <1>3 DEF MaySet, IsCurrent, TaskTo, StateMatchesSupervisor, At
<1>4. CASE supervisor \notin {r, NoRun}
  <2>1. supervisor' = supervisor /\ task'[supervisor] = task[supervisor] /\ UNCHANGED pstate
    BY <1>1, <1>4 DEF MaySet, IsCurrent, TaskTo
  <2> QED BY <1>4, <2>1 DEF StateMatchesSupervisor, Open, At
<1> QED BY <1>2, <1>3, <1>4

\* The state shown goes with the registered run.
LEMMA StateStep ==
    ASSUME TypeOK, EndsWithState, StartHasId, StateMatchesSupervisor, Next
    PROVE  StateMatchesSupervisor'
<1> USE DEF StateMatchesSupervisor, Open, At
<1>1. CASE UNCHANGED <<pstate, supervisor, task>>
  BY <1>1
<1>2. ASSUME NEW r \in Runs, Launch(r) PROVE StateMatchesSupervisor'
  <2>1. TaskTo(r, "open", task[r].ready, "none")
    BY <1>2, TaskGoes
  <2> QED BY <1>2, <2>1
          DEF Launch, manager, TaskTo, MaySet, IsCurrent, TypeOK, NoRun, Runs
<1>3. ASSUME NEW r \in Runs, LaunchFails(r) PROVE StateMatchesSupervisor'
  <2>1. \/ /\ TaskTo(r, "backoff", FALSE, "none")
           /\ UNCHANGED supervisor /\ pstate' = IF MaySet(r) THEN "Backoff" ELSE pstate
        \/ TaskTo(r, "final", FALSE, "Error") /\ RemoveSupervisor(r) /\ UNCHANGED pstate
    BY <1>3, ExitGoes DEF LaunchFails
  <2> QED BY <1>3, <2>1, BackoffShown, RemovedShown DEF LaunchFails
<1>4. ASSUME NEW r \in Runs, NEW target \in {"Loaded", "Disabled"}, OpenShutdown(r, target)
      PROVE  StateMatchesSupervisor'
  <2>1. TaskTo(r, "closing", FALSE, target)
    BY <1>4, TaskGoes
  <2> QED BY <1>4, <2>1
          DEF OpenShutdown, OpenCommand, manager, TaskTo, MaySet, IsCurrent, TypeOK, NoRun, Runs
<1>5. ASSUME NEW r \in Runs, Closed(r) PROVE StateMatchesSupervisor'
  <2>1. task[r].arg \in {"Loaded", "Disabled"}
    BY <1>5 DEF Closed, EndsWithState
  <2>2. TaskTo(r, "final", FALSE, task[r].arg) /\ RemoveSupervisor(r) /\ UNCHANGED pstate
    BY <1>5, <2>1, TaskGoes DEF Closed, Stopped
  <2> QED BY <1>5, <2>2, RemovedShown DEF Closed
<1>6. ASSUME NEW r \in Runs, ApplyReady(r) PROVE StateMatchesSupervisor'
  <2>1. TaskTo(r, "open", TRUE, "none")
    BY <1>6, TaskGoes
  <2> QED BY <1>6, <2>1
          DEF ApplyReady, manager, TaskTo, MaySet, IsCurrent, TypeOK, NoRun, Runs
<1>7. ASSUME NEW r \in Runs, ApplyLive(r) PROVE StateMatchesSupervisor'
  <2>1. TaskTo(r, "open", task[r].ready, "none")
    BY <1>7, TaskGoes
  <2> QED BY <1>7, <2>1
          DEF ApplyLive, manager, TaskTo, MaySet, IsCurrent, TypeOK, NoRun, Runs
<1>8. ASSUME NEW r \in Runs, ExitSeen(r) PROVE StateMatchesSupervisor'
  <2>0. task[r].ready \in BOOLEAN
    BY DEF TypeOK, Supervising
  <2>1. \/ /\ TaskTo(r, "backoff", FALSE, "none")
           /\ UNCHANGED supervisor /\ pstate' = IF MaySet(r) THEN "Backoff" ELSE pstate
        \/ TaskTo(r, "final", FALSE, "Error") /\ RemoveSupervisor(r) /\ UNCHANGED pstate
    BY <1>8, <2>0, ExitGoes DEF ExitSeen
  <2> QED BY <1>8, <2>1, BackoffShown, RemovedShown DEF ExitSeen
<1>9. ASSUME NEW r \in Runs, BackoffCommand(r) PROVE StateMatchesSupervisor'
  <2>1. CASE Top(r) /\ UNCHANGED supervisor
    <3>1. /\ TaskTo(r, "launch", task[r].ready, "none")
          /\ pstate' = IF MaySet(r) THEN "Starting" ELSE pstate
      BY <2>1, TaskGoes DEF Top
    <3> QED BY <1>9, <2>1, <3>1, StartingShown DEF BackoffCommand
  <2>2. CASE ~(Top(r) /\ UNCHANGED supervisor)
    <3>1. PICK target \in {"Loaded", "Disabled"} : Stopped(r, target)
      BY <1>9, <2>2, CommandFacts DEF BackoffCommand
    <3>2. TaskTo(r, "final", FALSE, target) /\ RemoveSupervisor(r) /\ UNCHANGED pstate
      BY <3>1, TaskGoes DEF Stopped
    <3> QED BY <1>9, <3>2, RemovedShown DEF BackoffCommand
  <2> QED BY <2>1, <2>2
<1>10. ASSUME NEW r \in Runs, BackoffOver(r) PROVE StateMatchesSupervisor'
  <2>1. /\ TaskTo(r, "launch", task[r].ready, "none") /\ UNCHANGED supervisor
        /\ pstate' = IF MaySet(r) THEN "Starting" ELSE pstate
    BY <1>10, TaskGoes DEF BackoffOver, Top
  <2> QED BY <1>10, <2>1, StartingShown DEF BackoffOver
<1>11. ASSUME NEW r \in Runs, Finish(r) PROVE StateMatchesSupervisor'
  <2>1. TaskTo(r, "done", FALSE, "none") /\ task[r].arg \in {"Loaded", "Disabled", "Error"}
    BY <1>11, TaskGoes DEF Finish, At, EndsWithState
  <2>2. CASE supervisor = NoRun
    BY <1>11, <2>1, <2>2 DEF Finish, MayFinish
  <2>3. CASE supervisor # NoRun
    BY <1>11, <2>1, <2>3 DEF Finish, MayFinish, TaskTo, TypeOK
  <2> QED BY <2>2, <2>3
<1>12. ASSUME NEW r \in Runs, HearProtocolError(r) PROVE StateMatchesSupervisor'
  <2>1. \/ /\ TaskTo(r, "backoff", FALSE, "none")
           /\ UNCHANGED supervisor /\ pstate' = IF MaySet(r) THEN "Backoff" ELSE pstate
        \/ TaskTo(r, "final", FALSE, "Error") /\ RemoveSupervisor(r) /\ UNCHANGED pstate
    BY <1>12, ExitGoes DEF HearProtocolError
  <2> QED BY <1>12, <2>1, BackoffShown, RemovedShown DEF HearProtocolError, Listens
<1>13. ASSUME NEW r \in Runs, HearReady(r) PROVE StateMatchesSupervisor'
  <2>1. TaskTo(r, "frame", task[r].ready, "ready")
    BY <1>13, TaskGoes
  <2> QED BY <1>13, <2>1
          DEF HearReady, Listens, manager, TaskTo, MaySet, IsCurrent, TypeOK, NoRun, Runs
<1>14. ASSUME NEW r \in Runs, HearLive(r) PROVE StateMatchesSupervisor'
  <2>1. TaskTo(r, "frame", task[r].ready, "live")
    BY <1>14, TaskGoes
  <2> QED BY <1>14, <2>1
          DEF HearLive, Listens, manager, TaskTo, MaySet, IsCurrent, TypeOK, NoRun, Runs
<1>15. ASSUME disable PROVE StateMatchesSupervisor'
  BY <1>15 DEF disable, stop_stdio_plugin
<1>16. ASSUME enable PROVE StateMatchesSupervisor'
  BY <1>16 DEF enable
<1>17. ASSUME reload PROVE StateMatchesSupervisor'
  BY <1>17 DEF reload, stop_stdio_plugin
<1>18. ASSUME start_stdio_plugin PROVE StateMatchesSupervisor'
  <2>1. CASE UNCHANGED <<manager, task>>
    BY <2>1 DEF manager
  <2>2. CASE /\ Goto(next_run_id, "launch", 0, FALSE, "none")
             /\ pstate' = "Starting" /\ supervisor' = next_run_id
    <3>1. next_run_id \in Runs /\ 0 \in 0..(RestartLimit - 1) /\ next_run_id # NoRun
      BY <1>18, PluginAssumption DEF start_stdio_plugin, StartHasId, Runs, NoRun
    <3>2. TaskTo(next_run_id, "launch", FALSE, "none")
      BY <2>2, <3>1, GotoGoes
    <3> QED BY <2>2, <3>1, <3>2 DEF TaskTo
  <2> QED BY <1>18, <2>1, <2>2 DEF start_stdio_plugin
<1> QED
  BY <1>1, <1>2, <1>3, <1>4, <1>5, <1>6, <1>7, <1>8, <1>9, <1>10, <1>11, <1>12, <1>13, <1>14,
     <1>15, <1>16, <1>17, <1>18
     DEF Next, TaskStep, ProcessStep, CallStep, OpenInvoke, OpenDrop, GraceExpires, ChildExits,
         HearAnswer, shutdown_plugin_runtime, CheckCall, SendInvoke, Receive,
         finish_cancelled_stdio_call, CancelCall, TimeOut, Return, manager

-----------------------------------------------------------------------------
(* Tools belong to open connections.                                       *)

\* A connection that stays open keeps its tools.
LEMMA OpenKept ==
    ASSUME TypeOK, ToolsOfOpenConnection, NEW r \in Runs, NEW STATE ready, NEW arg,
           NEW pc \in {"open", "frame", "closing"}, TaskTo(r, pc, ready, arg), UNCHANGED live
    PROVE  ToolsOfOpenConnection'
<1>1. live.run \in Runs \cup {NoRun}
  BY DEF TypeOK
<1> QED BY <1>1 DEF ToolsOfOpenConnection, Open, TaskTo

\* A run that leaves its connection takes its tools away, but not another run's.
LEMMA LeftCleared ==
    ASSUME TypeOK, ToolsOfOpenConnection, NEW r \in Runs, NEW pc, NEW STATE ready, NEW STATE arg,
           TaskTo(r, pc, ready, arg), ClearLive(r)
    PROVE  ToolsOfOpenConnection'
<1>1. live.run \in Runs \cup {NoRun}
  BY DEF TypeOK
<1>2. CASE live.run = r
  BY <1>2 DEF ToolsOfOpenConnection, ClearLive, NoLive
<1>3. CASE live.run # r
  BY <1>1, <1>3 DEF ToolsOfOpenConnection, ClearLive, Open, TaskTo
<1> QED BY <1>2, <1>3

\* A run without a connection has no tools to lose.
LEMMA ClosedStays ==
    ASSUME TypeOK, ToolsOfOpenConnection, NEW r \in Runs, NEW pc, NEW STATE ready, NEW arg,
           ~Open(r), TaskTo(r, pc, ready, arg), UNCHANGED live
    PROVE  ToolsOfOpenConnection'
<1>1. live.run \in Runs \cup {NoRun}
  BY DEF TypeOK
<1> QED BY <1>1 DEF ToolsOfOpenConnection, Open, TaskTo

\* Whoever leaves an open connection clears the tools it registered.
LEMMA ToolsStep ==
    ASSUME TypeOK, EndsWithState, ToolsOfOpenConnection, Next
    PROVE  ToolsOfOpenConnection'
<1>1. CASE UNCHANGED <<live, task>>
  BY <1>1 DEF ToolsOfOpenConnection, Open
<1>2. ASSUME NEW r \in Runs, Launch(r) PROVE ToolsOfOpenConnection'
  <2>1. TaskTo(r, "open", task[r].ready, "none") /\ UNCHANGED live
    BY <1>2, TaskGoes DEF Launch, manager
  <2> QED BY <2>1, OpenKept
<1>3. ASSUME NEW r \in Runs, LaunchFails(r) PROVE ToolsOfOpenConnection'
  <2>1. TaskTo(r, "backoff", FALSE, "none") \/ TaskTo(r, "final", FALSE, "Error")
    BY <1>3, ExitGoes DEF LaunchFails
  <2>2. ClearLive(r)
    BY <1>3 DEF LaunchFails, UnexpectedExit
  <2> QED BY <2>1, <2>2, LeftCleared
<1>4. ASSUME NEW r \in Runs, NEW target \in {"Loaded", "Disabled"}, OpenShutdown(r, target)
      PROVE  ToolsOfOpenConnection'
  <2>1. TaskTo(r, "closing", FALSE, target) /\ UNCHANGED live
    BY <1>4, TaskGoes DEF OpenShutdown, manager
  <2> QED BY <2>1, OpenKept
<1>5. ASSUME NEW r \in Runs, Closed(r) PROVE ToolsOfOpenConnection'
  <2>1. task[r].arg \in {"Loaded", "Disabled"}
    BY <1>5 DEF Closed, EndsWithState, At
  <2>2. TaskTo(r, "final", FALSE, task[r].arg) /\ ClearLive(r)
    BY <1>5, <2>1, TaskGoes DEF Closed, Stopped
  <2> QED BY <2>2, LeftCleared
<1>6. ASSUME NEW r \in Runs, ApplyReady(r) PROVE ToolsOfOpenConnection'
  <2>1. TaskTo(r, "open", TRUE, "none") /\ UNCHANGED live
    BY <1>6, TaskGoes DEF ApplyReady
  <2> QED BY <2>1, OpenKept
<1>7. ASSUME NEW r \in Runs, ApplyLive(r) PROVE ToolsOfOpenConnection'
  <2>1. TaskTo(r, "open", task[r].ready, "none") /\ live'.run = r
    <3>1. /\ live_state_for_run(r) \in [run : Runs \cup {NoRun}, tool : BOOLEAN]
          /\ live_state_for_run(r).run = r
      BY DEF live_state_for_run, TypeOK
    <3>2. \E tool : live' = [live_state_for_run(r) EXCEPT !.tool = tool]
      BY <1>7 DEF ApplyLive
    <3> QED BY <1>7, <3>1, <3>2, TaskGoes
  <2> QED BY <2>1 DEF ToolsOfOpenConnection, Open, TaskTo
<1>8. ASSUME NEW r \in Runs, ExitSeen(r) PROVE ToolsOfOpenConnection'
  <2>1. TaskTo(r, "backoff", FALSE, "none") \/ TaskTo(r, "final", FALSE, "Error")
    BY <1>8, ExitGoes DEF ExitSeen, TypeOK, Supervising
  <2>2. ClearLive(r)
    BY <1>8 DEF ExitSeen, UnexpectedExit
  <2> QED BY <2>1, <2>2, LeftCleared
<1>9. ASSUME NEW r \in Runs, BackoffCommand(r) PROVE ToolsOfOpenConnection'
  <2>1. CASE Top(r) /\ UNCHANGED live
    <3>1. TaskTo(r, "launch", task[r].ready, "none") /\ ~Open(r)
      BY <1>9, <2>1, TaskGoes DEF BackoffCommand, At, Open
    <3> QED BY <2>1, <3>1, ClosedStays
  <2>2. CASE ~(Top(r) /\ UNCHANGED live)
    <3>1. PICK target \in {"Loaded", "Disabled"} : Stopped(r, target)
      BY <1>9, <2>2, CommandFacts DEF BackoffCommand
    <3>2. TaskTo(r, "final", FALSE, target) /\ ClearLive(r)
      BY <3>1, TaskGoes DEF Stopped
    <3> QED BY <3>2, LeftCleared
  <2> QED BY <2>1, <2>2
<1>10. ASSUME NEW r \in Runs, BackoffOver(r) PROVE ToolsOfOpenConnection'
  <2>1. TaskTo(r, "launch", task[r].ready, "none") /\ UNCHANGED live /\ ~Open(r)
    BY <1>10, TaskGoes DEF BackoffOver, At, Open
  <2> QED BY <2>1, ClosedStays
<1>11. ASSUME NEW r \in Runs, Finish(r) PROVE ToolsOfOpenConnection'
  <2>1. TaskTo(r, "done", FALSE, "none") /\ UNCHANGED live /\ ~Open(r)
    BY <1>11, TaskGoes DEF Finish, At, Open
  <2> QED BY <2>1, ClosedStays
<1>12. ASSUME NEW r \in Runs, HearProtocolError(r) PROVE ToolsOfOpenConnection'
  <2>1. TaskTo(r, "backoff", FALSE, "none") \/ TaskTo(r, "final", FALSE, "Error")
    BY <1>12, ExitGoes DEF HearProtocolError
  <2>2. ClearLive(r)
    BY <1>12 DEF HearProtocolError, UnexpectedExit
  <2> QED BY <2>1, <2>2, LeftCleared
<1>13. ASSUME NEW r \in Runs, HearReady(r) PROVE ToolsOfOpenConnection'
  <2>1. TaskTo(r, "frame", task[r].ready, "ready") /\ UNCHANGED live
    BY <1>13, TaskGoes DEF HearReady, manager
  <2> QED BY <2>1, OpenKept
<1>14. ASSUME NEW r \in Runs, HearLive(r) PROVE ToolsOfOpenConnection'
  <2>1. TaskTo(r, "frame", task[r].ready, "live") /\ UNCHANGED live
    BY <1>14, TaskGoes DEF HearLive, manager
  <2> QED BY <2>1, OpenKept
<1>15. ASSUME disable PROVE ToolsOfOpenConnection'
  BY <1>15 DEF disable, stop_stdio_plugin, NoLive, ToolsOfOpenConnection, Open
<1>16. ASSUME reload PROVE ToolsOfOpenConnection'
  BY <1>16 DEF reload, stop_stdio_plugin, NoLive, ToolsOfOpenConnection, Open
<1>17. ASSUME start_stdio_plugin PROVE ToolsOfOpenConnection'
  <2>1. CASE UNCHANGED <<manager, task>>
    BY <2>1 DEF manager, ToolsOfOpenConnection, Open
  <2>2. CASE live' = NoLive
    BY <2>2 DEF NoLive, ToolsOfOpenConnection
  <2> QED BY <1>17, <2>1, <2>2 DEF start_stdio_plugin
<1> QED
  BY <1>1, <1>2, <1>3, <1>4, <1>5, <1>6, <1>7, <1>8, <1>9, <1>10, <1>11, <1>12, <1>13, <1>14,
     <1>15, <1>16, <1>17
     DEF Next, TaskStep, ProcessStep, CallStep, OpenInvoke, OpenDrop, GraceExpires, ChildExits,
         HearAnswer, enable, shutdown_plugin_runtime, CheckCall, SendInvoke, Receive,
         finish_cancelled_stdio_call, CancelCall, TimeOut, Return, manager

-----------------------------------------------------------------------------
(* The theorems.                                                           *)

\* Every initial state satisfies the invariant.
LEMMA InitHolds == Init => IInv
<1> SUFFICES ASSUME Init PROVE IInv
  OBVIOUS
<1>1. /\ 0 \in 0..(RestartLimit - 1) /\ 1 \in Runs /\ 1 \in 1..(MaxRuns + 1) /\ <<>> \in Seq(Commands)
  BY PluginAssumption DEF Runs
<1>2. TasksTyped
  BY <1>1 DEF Init, TasksTyped, Supervising, NewTask, EndsWithState
<1>3. ManagerTyped
  BY <1>1 DEF Init, ManagerTyped, States, NoLive, StartHasId
<1>4. ChannelsTyped
  BY <1>1 DEF Init, ChannelsTyped
<1>5. CallsTyped
  BY DEF Init, CallsTyped, ToolCalls
<1>6. StateMatchesSupervisor /\ ToolsOfOpenConnection
  BY DEF Init, StateMatchesSupervisor, ToolsOfOpenConnection, NoLive
<1> QED BY <1>2, <1>3, <1>4, <1>5, <1>6, TypeParts DEF IInv

\* Every step keeps it.
LEMMA StepHolds == IInv /\ [Next]_vars => IInv'
<1>1. ASSUME IInv, Next PROVE IInv'
  <2>1. TypeOK /\ EndsWithState /\ StartHasId /\ StateMatchesSupervisor /\ ToolsOfOpenConnection
    BY <1>1 DEF IInv
  <2>2. TasksTyped' /\ ManagerTyped' /\ ChannelsTyped' /\ CallsTyped'
    BY <1>1, <2>1, TasksStep, ManagerStep, ChannelsStep, CallsStep
  <2>3. TypeOK' /\ EndsWithState' /\ StartHasId'
    BY <2>2 DEF TypeOK, TasksTyped, ManagerTyped, ChannelsTyped, CallsTyped
  <2>4. StateMatchesSupervisor' /\ ToolsOfOpenConnection'
    BY <1>1, <2>1, StateStep, ToolsStep
  <2> QED BY <2>3, <2>4 DEF IInv
<1>2. ASSUME IInv, UNCHANGED vars PROVE IInv'
  BY <1>2 DEF vars, IInv, TypeOK, EndsWithState, StartHasId, StateMatchesSupervisor,
              ToolsOfOpenConnection, Open, At
<1> QED BY <1>1, <1>2

\* The invariant is inductive.
THEOREM Invariant == Spec => []IInv
BY InitHolds, StepHolds, PTL DEF Spec

\* The types hold: no task counts its failed starts beyond restart_delays, a call under way has a
\* run, and channels carry commands only.
THEOREM TypeCorrect == Spec => []TypeOK
<1>1. IInv => TypeOK
  BY DEF IInv
<1> QED BY <1>1, Invariant, PTL

\* The state shown for a plugin is its supervisor's, however many tasks of older runs are still
\* at work beside it.
THEOREM StateCorrect == Spec => []StateMatchesSupervisor
<1>1. IInv => StateMatchesSupervisor
  BY DEF IInv
<1> QED BY <1>1, Invariant, PTL

\* The registered tools belong to a run whose connection is open.
THEOREM ToolsCorrect == Spec => []ToolsOfOpenConnection
<1>1. IInv => ToolsOfOpenConnection
  BY DEF IInv
<1> QED BY <1>1, Invariant, PTL

=============================================================================
