---------------------------- MODULE PendingWork ----------------------------
(***************************************************************************)
(* What a session promises about the work it has outstanding, seen from    *)
(* outside: at most one prompt and at most one follow-up, each under an    *)
(* effect id issued for it alone.  Work is accepted into an empty slot     *)
(* under a fresh id, a follow-up is planned before it is dispatched, and a *)
(* slot is emptied before it is used again, so feedback that carries an id *)
(* belongs to the work with that id or to none.                            *)
(***************************************************************************)
EXTENDS Naturals

CONSTANTS Nothing   \* an empty slot

VARIABLES
    prompt,      \* effect id of the pending prompt
    follow_up,   \* effect id of the pending follow-up
    dispatched,  \* whether the pending follow-up was dispatched
    issued       \* the number of effect ids issued so far

workVars == <<prompt, follow_up, dispatched, issued>>

Init ==
    /\ prompt = Nothing /\ follow_up = Nothing
    /\ dispatched = FALSE
    /\ issued = 0

AcceptPrompt ==
    /\ prompt = Nothing
    /\ issued' = issued + 1
    /\ prompt' = issued + 1
    /\ UNCHANGED <<follow_up, dispatched>>

PlanFollowUp ==
    /\ follow_up = Nothing
    /\ issued' = issued + 1
    /\ follow_up' = issued + 1
    /\ UNCHANGED <<prompt, dispatched>>

DispatchFollowUp ==
    /\ follow_up # Nothing
    /\ ~dispatched /\ dispatched'
    /\ UNCHANGED <<prompt, follow_up, issued>>

\* An id spent on work that leaves nothing outstanding.
SpendId ==
    /\ issued' = issued + 1
    /\ UNCHANGED <<prompt, follow_up, dispatched>>

\* Work ends: the prompt, the follow-up or both.
Retire ==
    /\ prompt' \in {prompt, Nothing}
    /\ \/ UNCHANGED <<follow_up, dispatched>>
       \/ follow_up' = Nothing /\ dispatched' = FALSE
    /\ UNCHANGED issued

Next == AcceptPrompt \/ PlanFollowUp \/ DispatchFollowUp \/ SpendId \/ Retire

Spec == Init /\ [][Next]_workVars

=============================================================================
