------------------------------ MODULE EventTap ------------------------------
(***************************************************************************)
(* The listen-only event tap of the macOS agent: it is disabled by the      *)
(* system when the agent is slow or the user's input demands it, re-enabled *)
(* by a work item, after a backoff when timeouts repeat, and silenced when  *)
(* a periodic probe finds that Input Monitoring access was revoked.         *)
(*                                                                         *)
(* The system puts events into the tap's port while the tap is enabled; the *)
(* agent takes them out one by one, in turns of its run loop, also after    *)
(* the tap has been disabled.  The engine is any that keeps TokenContract.   *)
(* What the agent does with a key, a click or a decision is Agent's matter:  *)
(* here it is whether a token is observed and a decision is queued.         *)
(***************************************************************************)
EXTENDS TokenContract, Sequences

CONSTANT MaxEvents      \* bound: events of the user and of the system

VARIABLES
    port,               \* events delivered to the tap and not yet handled
    tap_enabled,        \* what CGEvent.tapEnable has set, or the system
    granted,            \* whether Input Monitoring access is granted
    revoked,            \* inputMonitoringAccessRevoked
    timeouts,           \* tapTimeouts: those of the last ten seconds
    reenable,           \* tapReenableWorkItem: none, queued, or delayed
    queued,             \* a selection or replacement waits in the main queue
    events

agentVars == <<engine, revoked, timeouts, reenable, queued>>
tapVars == <<engine, port, tap_enabled, granted, revoked, timeouts, reenable,
             queued, events>>

UserEvent == {"key", "optionTap", "mouse"}
Disabling == {"timeout", "userInput"}

-----------------------------------------------------------------------------
(* The user and the system                                                  *)

Act == events < MaxEvents /\ events' = events + 1

\* An event the tap misses changes nothing here.
UserInputs(event) ==
    /\ Act
    /\ tap_enabled /\ granted
    /\ port' = Append(port, event)
    /\ UNCHANGED <<agentVars, tap_enabled, granted>>

\* A tap times out when the agent leaves events unhandled for too long.
SystemDisables(why) ==
    /\ Act
    /\ tap_enabled
    /\ why = "timeout" => port # <<>>
    /\ tap_enabled' = FALSE
    /\ port' = Append(port, why)
    /\ UNCHANGED <<agentVars, granted>>

AccessChanges ==
    /\ Act
    /\ granted' = ~granted
    /\ UNCHANGED <<agentVars, port, tap_enabled>>

-----------------------------------------------------------------------------
(* handleEvent                                                              *)

Take(event) ==
    /\ port # <<>>
    /\ Head(port) = event
    /\ port' = Tail(port)
    /\ UNCHANGED <<tap_enabled, granted, events>>

\* applyObservation: what the engine authorised is taken and queued; the key
\* itself cancels what was queued before.
Apply(next) ==
    /\ queued' = (next.action.tag = "SwitchFutureLayout")
    /\ engine' = TakePendingReplacement(next)

\* Mistake: events that were under way when access was revoked are processed.
HandleInputAlways ==
    /\ \/ Take("key") /\ \E next \in AfterLetter(engine) : Apply(next)
       \/ Take("optionTap") /\ Apply(ForceSwitchLayout(engine))
    /\ UNCHANGED <<revoked, timeouts, reenable>>

HandleInput ==
    /\ \/ /\ Take("key")
          /\ ~revoked
          /\ \E next \in AfterLetter(engine) : Apply(next)
       \/ /\ Take("optionTap")
          /\ ~revoked
          /\ Apply(ForceSwitchLayout(engine))
       \/ /\ Take("key") \/ Take("optionTap")
          /\ revoked
          /\ UNCHANGED <<engine, queued>>
    /\ UNCHANGED <<revoked, timeouts, reenable>>

\* handlePotentialFocusChange: with an observer everything is invalidated.
HandleMouse ==
    /\ Take("mouse")
    /\ \/ engine' = ResetToken(engine) /\ queued' = FALSE
       \/ UNCHANGED <<engine, queued>>
    /\ UNCHANGED <<revoked, timeouts, reenable>>

\* Mistake: the backoff starts one timeout too late.
HandleTimeoutLate ==
    /\ Take("timeout")
    /\ IF timeouts < 2 THEN timeouts' = timeouts + 1 /\ reenable' = "queued"
                       ELSE timeouts' = 0 /\ reenable' = "delayed"
    /\ UNCHANGED <<engine, revoked, queued>>

\* handleTapDisabledByTimeout: the second timeout in the window backs off.
HandleTimeout ==
    /\ Take("timeout")
    /\ IF timeouts = 0 THEN timeouts' = 1 /\ reenable' = "queued"
                       ELSE timeouts' = 0 /\ reenable' = "delayed"
    /\ UNCHANGED <<engine, revoked, queued>>

HandleDisabledByUserInput ==
    /\ Take("userInput")
    /\ reenable' = "queued"
    /\ UNCHANGED <<engine, revoked, timeouts, queued>>

HandleEvent ==
    HandleInput \/ HandleMouse \/ HandleTimeout \/ HandleDisabledByUserInput

WindowPasses ==
    /\ timeouts # 0
    /\ timeouts' = 0
    /\ UNCHANGED <<engine, port, tap_enabled, granted, revoked, reenable, queued,
                   events>>

-----------------------------------------------------------------------------
(* Queued work and timers                                                   *)

BackoffEnds ==
    /\ reenable = "delayed"
    /\ reenable' = "queued"
    /\ UNCHANGED <<engine, port, tap_enabled, granted, revoked, timeouts, queued,
                   events>>

\* Mistake: the work item does not ask whether access was revoked meanwhile.
ReenableAnyway ==
    /\ reenable = "queued"
    /\ reenable' = "none"
    /\ tap_enabled' = TRUE
    /\ UNCHANGED <<engine, port, granted, revoked, timeouts, queued, events>>

\* The work item of reenableEventTap; a newer one has cancelled the older.
Reenable ==
    /\ reenable = "queued"
    /\ reenable' = "none"
    /\ tap_enabled' = (tap_enabled \/ ~revoked)
    /\ UNCHANGED <<engine, port, granted, revoked, timeouts, queued, events>>

\* The selection, and the replacement it leads to, are done.
CarryOut ==
    /\ queued
    /\ queued' = FALSE
    /\ UNCHANGED <<engine, port, tap_enabled, granted, revoked, timeouts, reenable,
                   events>>

\* Mistake: the tap is left to the work item of an earlier timeout.
ProbeWithoutReenable ==
    /\ granted /\ revoked
    /\ revoked' = FALSE
    /\ UNCHANGED <<engine, port, tap_enabled, granted, timeouts, reenable, queued,
                   events>>

\* probeInputMonitoringAccess; a probe that finds nothing new does nothing.
ProbeRestored ==
    /\ granted /\ revoked
    /\ revoked' = FALSE
    /\ reenable' = "queued"
    /\ UNCHANGED <<engine, port, tap_enabled, granted, timeouts, queued, events>>

\* handleInputMonitoringAccessRevoked
ProbeDenied ==
    /\ ~granted
    /\ revoked' = TRUE
    /\ engine' = ResetToken(engine)
    /\ queued' = FALSE
    /\ tap_enabled' = FALSE
    /\ UNCHANGED <<port, granted, timeouts, reenable, events>>

Probe == ProbeRestored \/ ProbeDenied

-----------------------------------------------------------------------------

\* start() succeeds only with access granted.
TapInit ==
    /\ Init
    /\ port = <<>>
    /\ tap_enabled = TRUE
    /\ granted = TRUE
    /\ revoked = FALSE
    /\ timeouts = 0
    /\ reenable = "none"
    /\ queued = FALSE
    /\ events = 0

TapNext ==
    \/ \E event \in UserEvent : UserInputs(event)
    \/ \E why \in Disabling : SystemDisables(why)
    \/ AccessChanges
    \/ HandleEvent
    \/ WindowPasses
    \/ BackoffEnds
    \/ Reenable
    \/ CarryOut
    \/ Probe

\* The run loop handles events, its queue and its timers; access is up to the
\* user, timeouts are up to the system.
TapFairness ==
    /\ WF_tapVars(HandleEvent)
    /\ WF_tapVars(BackoffEnds)
    /\ WF_tapVars(Reenable)
    /\ WF_tapVars(CarryOut)
    /\ WF_tapVars(Probe)

TapSpec == TapInit /\ [][TapNext]_tapVars /\ TapFairness

-----------------------------------------------------------------------------
(* Properties                                                               *)

TapTypeOK ==
    /\ port \in Seq(UserEvent \cup Disabling)
    /\ {tap_enabled, granted, revoked, queued} \subseteq BOOLEAN
    /\ timeouts \in 0..1
    /\ reenable \in {"none", "queued", "delayed"}

\* docs/operator-runbook.md: when access is revoked, "the agent disables event
\* processing".  From the probe on the tap is off, no token is kept and nothing
\* is queued, whatever events were under way and whatever work item an earlier
\* timeout had left to re-enable the tap.
RevokedIsSilent ==
    revoked => ~tap_enabled /\ engine.token_len = 0 /\ ~queued

\* A tap the system or a revocation has disabled comes back, unless access is
\* gone for good; then it stays off.
TapFollowsAccess ==
    /\ <>[]granted => []<>(tap_enabled /\ ~revoked)
    /\ <>[]~granted => <>[](revoked /\ ~tap_enabled)

=============================================================================
