----------------------------- MODULE PowerPanel -----------------------------
(***************************************************************************)
(* The server of power-panel at work (internal/server/server.go and        *)
(* sse.go): power requests, the transition they put in force, the SSE      *)
(* handlers that poll the BMC through the shared cache and end the         *)
(* transition, the notification channel that wakes them, and the audit     *)
(* log; around them the machine, its BMC and the passing of time.          *)
(*                                                                         *)
(* Every handler is split at its accesses to state that other goroutines   *)
(* share: the mutexes, the BMC, the database and the channel.  Durations   *)
(* the code compares with a limit are ages in ticks, saturated just past   *)
(* the limit.  The cache is the one of BmcCache with a fetch in two steps. *)
(***************************************************************************)
EXTENDS PowerStates, Naturals, Sequences, FiniteSets

CONSTANTS
    Clients,       \* SSE connections
    Requests,      \* POST /api/power/... requests, one user each
    NoOne,         \* no client, no request
    Offered,       \* the actions the requests of this instance may ask for
    Flaky,         \* clients and requests whose browser may go away or whose insert may fail
    Cooldown,      \* cfg.Power.Cooldown
    BootTimeout,   \* cfg.Power.BootTimeout
    PollInterval,  \* cfg.Power.PollInterval, the maxAge of the cache
    RestartGrace,  \* the 15 seconds of the Restarting transition
    MaxDrops       \* bound: how often the BMC's network link goes down

ASSUME PanelAssumption ==
    /\ IsFiniteSet(Clients)
    /\ Offered \subseteq PowerActions
    /\ Flaky \subseteq Clients \union Requests
    /\ Cooldown \in Nat
    /\ BootTimeout \in Nat \ {0}
    /\ PollInterval \in Nat \ {0}
    /\ RestartGrace \in Nat
    /\ MaxDrops \in Nat
    /\ NoOne \notin Clients \union Requests

VARIABLES
    \* external: the machine and its BMC
    host,              \* the machine's power
    job,               \* what the BMC is still doing to it
    jobOf,             \* the request that asked for the job
    task,              \* task[r]: the Redfish task of r's reset
    link,              \* the BMC answers on the network
    drops,             \* how often the link has gone down
    \* Server
    sinceAction,       \* time.Since(s.lastAction)
    transition,        \* s.transition
    transitionAge,     \* time.Since(s.transitionTime)
    transitionTask,    \* s.transitionTaskURL, named by the request that got it
    transitionBy,      \* s.transitionAction and s.transitionUser, likewise
    \* Cache
    cached,            \* c.result: the last reading
    cacheAge,          \* time.Since(c.updated)
    cacheLock,         \* the client that fetches under c.mu
    \* power-action handlers
    rpc, action, ok, taskURL,
    \* SSE handlers
    cpc, prev, reading, tc, woken,
    \* the audit log
    events

machineVars == <<host, job, jobOf, task, link, drops>>
transitionVars == <<transition, transitionAge, transitionTask, transitionBy>>
cacheVars == <<cached, cacheAge, cacheLock>>
requestVars == <<rpc, action, ok, taskURL>>
clientVars == <<cpc, prev, reading, tc, woken>>
vars == <<machineVars, sinceAction, transitionVars, cacheVars, requestVars,
          clientVars, events>>

NoTransition == [state |-> None, task |-> NoOne, by |-> NoOne]
TransitionContexts == [state : TransitionStates \union {None},
                       task : Requests \union {NoOne},
                       by : Requests \union {NoOne}]
Events == [about : Requests, by : Requests \union {NoOne},
           outcome : {"sent", "failed", "taskFailed"}]

MachineOK ==
    /\ host \in {"On", "Off"}
    /\ job \in {"none", "boot", "halt", "restart"}
    /\ jobOf \in Requests \union {NoOne}
    /\ task \in [Requests -> {"none", "running", "done", "failed"}]
    /\ link \in BOOLEAN
    /\ drops \in 0 .. MaxDrops

TransitionOK ==
    /\ transition \in TransitionStates \union {None}
    /\ transitionAge \in 0 .. BootTimeout + 1
    /\ transitionTask \in Requests \union {NoOne}
    /\ transitionBy \in Requests \union {NoOne}

CacheOK ==
    /\ cached \in Readings
    /\ cacheAge \in 0 .. PollInterval
    /\ cacheLock \in Clients \union {NoOne}

RequestsOK ==
    /\ rpc \in [Requests -> {"idle", "command", "wol", "log", "set", "invalidate",
                             "notify", "done", "rejected"}]
    /\ action \in [Requests -> PowerActions \union {None}]
    /\ ok \in [Requests -> BOOLEAN]
    /\ taskURL \in [Requests -> BOOLEAN]

ClientsOK ==
    /\ cpc \in [Clients -> {"gone", "poll", "fetch", "transition", "task", "log", "clear",
                            "notify", "arm", "select"}]
    /\ prev \in [Clients -> ShownStates \union {None}]
    /\ reading \in [Clients -> Readings]
    /\ tc \in [Clients -> TransitionContexts]
    /\ woken \in [Clients -> BOOLEAN]

\* All variables keep their types: among them, the transition in force is one
\* of the three transition states although it is computed from the action's
\* name, and a failure event is always about a request.
TypeOK ==
    /\ MachineOK
    /\ sinceAction \in 0 .. Cooldown
    /\ TransitionOK
    /\ CacheOK
    /\ RequestsOK
    /\ ClientsOK
    /\ events \in Seq(Events)

Init ==
    /\ host \in {"On", "Off"}
    /\ job = "none" /\ jobOf = NoOne
    /\ task = [r \in Requests |-> "none"]
    /\ link = TRUE /\ drops = 0
    /\ sinceAction = Cooldown
    /\ transition = None /\ transitionAge = BootTimeout + 1
    /\ transitionTask = NoOne /\ transitionBy = NoOne
    /\ cached = "Unknown" /\ cacheAge = PollInterval /\ cacheLock = NoOne
    /\ rpc = [r \in Requests |-> "idle"]
    /\ action = [r \in Requests |-> None]
    /\ ok = [r \in Requests |-> FALSE]
    /\ taskURL = [r \in Requests |-> FALSE]
    /\ cpc = [c \in Clients |-> "gone"]
    /\ prev = [c \in Clients |-> None]
    /\ reading = [c \in Clients |-> "Unknown"]
    /\ tc = [c \in Clients |-> NoTransition]
    /\ woken = [c \in Clients |-> FALSE]
    /\ events = <<>>

-----------------------------------------------------------------------------
(* The machine and its BMC, as the code in src/ sees them *)

JobFor(act) ==
    CASE act = "power_on" -> "boot"
      [] act \in {"power_off", "power_forceoff"} -> "halt"
      [] act \in {"power_cycle", "power_reset"} -> "restart"

\* The job is over, and with it the Redfish task behind it.
JobEnds(result) ==
    /\ job' = "none" /\ jobOf' = NoOne
    /\ task' = IF jobOf # NoOne /\ task[jobOf] = "running"
                THEN [task EXCEPT ![jobOf] = result] ELSE task

JobSucceeds ==
    /\ job # "none"
    /\ IF job = "restart"
       THEN host' = "Off" /\ job' = "boot" /\ UNCHANGED <<jobOf, task>>
       ELSE /\ host' = IF job = "boot" THEN "On" ELSE "Off"
            /\ JobEnds("done")
    /\ UNCHANGED <<link, drops, sinceAction, transitionVars, cacheVars,
                   requestVars, clientVars, events>>

\* The machine ignores the command (an operating system may ignore a graceful
\* shutdown) and the BMC marks the task, if there is one, as Exception.
JobFails ==
    /\ job # "none"
    /\ JobEnds("failed")
    /\ UNCHANGED <<host, link, drops, sinceAction, transitionVars, cacheVars,
                   requestVars, clientVars, events>>

LinkDrops ==
    /\ link /\ drops < MaxDrops
    /\ link' = FALSE /\ drops' = drops + 1
    /\ UNCHANGED <<host, job, jobOf, task, sinceAction, transitionVars, cacheVars,
                   requestVars, clientVars, events>>

LinkReturns ==
    /\ ~link
    /\ link' = TRUE
    /\ UNCHANGED <<host, job, jobOf, task, drops, sinceAction, transitionVars, cacheVars,
                   requestVars, clientVars, events>>

AtMost(n, bound) == IF n < bound THEN n ELSE bound

Tick ==
    /\ sinceAction' = AtMost(sinceAction + 1, Cooldown)
    /\ transitionAge' = AtMost(transitionAge + 1, BootTimeout + 1)
    /\ cacheAge' = AtMost(cacheAge + 1, PollInterval)
    /\ UNCHANGED <<machineVars, transition, transitionTask, transitionBy, cached, cacheLock, requestVars, clientVars, events>>

-----------------------------------------------------------------------------
(* handlePowerAction *)

GotoR(r, from, to) == rpc[r] = from /\ rpc' = [rpc EXCEPT ![r] = to]

Record(about, by, outcome) ==
    events' = Append(events, [about |-> about, by |-> by, outcome |-> outcome])

\* checkCooldown: the check and the new lastAction are one critical section.
Admit(r) ==
    /\ sinceAction >= Cooldown
    /\ GotoR(r, "idle", "command")
    /\ sinceAction' = 0
    /\ \E act \in Offered : action' = [action EXCEPT ![r] = act]
    /\ UNCHANGED <<machineVars, transitionVars, cacheVars, ok, taskURL, clientVars,
                   events>>

Reject(r) ==
    /\ sinceAction < Cooldown
    /\ GotoR(r, "idle", "rejected")
    /\ UNCHANGED <<machineVars, sinceAction, transitionVars, cacheVars, action, ok, taskURL,
                   clientVars, events>>

AfterCommand(r) == GotoR(r, "command", IF action[r] = "power_on" THEN "wol" ELSE "log")

\* The reset reaches the machine and replaces what the BMC was doing to it,
\* whose task is Killed; the BMC may issue a task for it.
StartJob(r) ==
    /\ link
    /\ job' = JobFor(action[r]) /\ jobOf' = r
    /\ \E new \in {"none", "running"} :
         task' = [q \in Requests |->
                    IF q = r THEN new
                    ELSE IF q = jobOf /\ task[q] = "running" THEN "failed" ELSE task[q]]
    /\ UNCHANGED <<host, link, drops>>

ResetAccepted(r) ==
    /\ AfterCommand(r)
    /\ StartJob(r)
    /\ ok' = [ok EXCEPT ![r] = TRUE]
    /\ taskURL' = [taskURL EXCEPT ![r] = task'[r] # "none"]
    /\ UNCHANGED <<sinceAction, transitionVars, cacheVars, action, clientVars, events>>

\* The reset takes effect and its response is lost: the handler sees an error.
ResetAnswerLost(r) ==
    /\ AfterCommand(r)
    /\ StartJob(r)
    /\ UNCHANGED <<sinceAction, transitionVars, cacheVars, action, ok, taskURL, clientVars, events>>

ResetFails(r) ==
    /\ AfterCommand(r)
    /\ UNCHANGED <<machineVars, sinceAction, transitionVars, cacheVars, action, ok, taskURL,
                   clientVars, events>>

\* powerOn always sends a magic packet as well, which starts a machine that is
\* off and idle unless it gets lost; the action then succeeds in any case.
WakeSent(r) ==
    /\ GotoR(r, "wol", "log")
    /\ ok' = [ok EXCEPT ![r] = TRUE]
    /\ \/ host = "Off" /\ job = "none" /\ job' = "boot"
       \/ UNCHANGED job
    /\ UNCHANGED <<host, jobOf, task, link, drops, sinceAction, transitionVars, cacheVars, action,
                   taskURL, clientVars, events>>

WakeFails(r) ==
    /\ GotoR(r, "wol", "log")
    /\ UNCHANGED <<machineVars, sinceAction, transitionVars, cacheVars, action, ok, taskURL,
                   clientVars, events>>

AfterLog(r) == GotoR(r, "log", IF ok[r] THEN "set" ELSE "done")

LogAction(r) ==
    /\ AfterLog(r)
    /\ Record(r, r, IF ok[r] THEN "sent" ELSE "failed")
    /\ UNCHANGED <<machineVars, sinceAction, transitionVars, cacheVars, action, ok, taskURL,
                   clientVars>>

\* The insert fails, under the context of a browser that has gone or for any other
\* reason, and the error is only written to the server's own log.
LogActionCancelled(r) ==
    /\ r \in Flaky
    /\ AfterLog(r)
    /\ UNCHANGED <<machineVars, sinceAction, transitionVars, cacheVars, action, ok, taskURL,
                   clientVars, events>>

\* Mutant: the action's name is stored where its state belongs.
SetTransitionToAction(r) ==
    /\ GotoR(r, "set", "invalidate")
    /\ transition' = action[r]
    /\ transitionAge' = 0
    /\ transitionTask' = IF taskURL[r] THEN r ELSE NoOne
    /\ transitionBy' = r
    /\ UNCHANGED <<machineVars, sinceAction, cacheVars, action, ok, taskURL, clientVars, events>>

\* setTransition in three steps: the fields under transitionMu, ...
SetTransition(r) ==
    /\ GotoR(r, "set", "invalidate")
    /\ transition' = TransitionForAction(action[r])
    /\ transitionAge' = 0
    /\ transitionTask' = IF taskURL[r] THEN r ELSE NoOne
    /\ transitionBy' = r
    /\ UNCHANGED <<machineVars, sinceAction, cacheVars, action, ok, taskURL, clientVars,
                   events>>

\* Mutant: Invalidate does not take the cache's lock.
InvalidateUnlocked(r) ==
    /\ GotoR(r, "invalidate", "notify")
    /\ cacheAge' = PollInterval
    /\ UNCHANGED <<machineVars, sinceAction, transitionVars, cached, cacheLock,
                   action, ok, taskURL, clientVars, events>>

\* ... Invalidate, which waits for a fetch in flight, ...
Invalidate(r) ==
    /\ cacheLock = NoOne
    /\ GotoR(r, "invalidate", "notify")
    /\ cacheAge' = PollInterval
    /\ UNCHANGED <<machineVars, sinceAction, transitionVars, cached, cacheLock,
                   action, ok, taskURL, clientVars, events>>

\* Closing the channel wakes the handlers that wait on it; one that has not
\* fetched the channel yet will wait on the new one.
NotifySSE == woken' = [c \in Clients |-> woken[c] \/ cpc[c] = "select"]

\* ... and notifySSE.
Notify(r) ==
    /\ GotoR(r, "notify", "done")
    /\ NotifySSE
    /\ UNCHANGED <<machineVars, sinceAction, transitionVars, cacheVars, action, ok, taskURL,
                   cpc, prev, reading, tc, events>>

-----------------------------------------------------------------------------
(* handleSSE and sendStatusEventWithTransition *)

GotoC(c, from, to) == cpc[c] = from /\ cpc' = [cpc EXCEPT ![c] = to]

\* The events are written and the handler keeps what it showed as prevState;
\* the variables of the poll are dead from here on and take their defaults.
Show(c, from, state) ==
    /\ GotoC(c, from, "arm")
    /\ prev' = [prev EXCEPT ![c] = state]
    /\ reading' = [reading EXCEPT ![c] = "Unknown"]
    /\ tc' = [tc EXCEPT ![c] = NoTransition]

Connect(c) ==
    /\ GotoC(c, "gone", "poll")
    /\ UNCHANGED <<machineVars, sinceAction, transitionVars, cacheVars, requestVars, prev,
                   reading, tc, woken, events>>

TakeReading(c) ==
    /\ reading' = [reading EXCEPT ![c] = cached]

CacheHit(c) ==
    /\ cacheLock = NoOne /\ cacheAge < PollInterval
    /\ GotoC(c, "poll", "transition")
    /\ TakeReading(c)
    /\ UNCHANGED <<machineVars, sinceAction, transitionVars, cacheVars, requestVars, prev,
                   tc, woken, events>>

\* The write lock is taken and GetStatus answers; it fails while the link is
\* down.
BeginFetch(c) ==
    /\ cacheLock = NoOne /\ cacheAge >= PollInterval
    /\ GotoC(c, "poll", "fetch")
    /\ cacheLock' = c
    /\ cached' = IF link THEN host ELSE "Unknown"
    /\ UNCHANGED <<machineVars, sinceAction, transitionVars, cacheAge, requestVars, prev,
                   reading, tc, woken, events>>

\* Mutant: the cache's lock is not released on return.
EndFetchStillLocked(c) ==
    /\ GotoC(c, "fetch", "transition")
    /\ cacheAge' = 0
    /\ TakeReading(c)
    /\ UNCHANGED <<machineVars, sinceAction, transitionVars, cached, cacheLock, requestVars,
                   prev, tc, woken, events>>

EndFetch(c) ==
    /\ GotoC(c, "fetch", "transition")
    /\ cacheAge' = 0
    /\ cacheLock' = NoOne
    /\ TakeReading(c)
    /\ UNCHANGED <<machineVars, sinceAction, transitionVars, cached, requestVars,
                   prev, tc, woken, events>>

\* Mutant: the boot timeout is not looked at.
NeverExpired == FALSE

Expired == transitionAge > BootTimeout

\* Mutant: only the state is reset.
DropStateOnly ==
    /\ transition' = None
    /\ transitionAge' = BootTimeout + 1
    /\ UNCHANGED <<transitionTask, transitionBy>>

\* The time stays, but nobody reads it before the next setTransition writes it:
\* the age is left saturated.
DropTransition ==
    /\ transition' = None
    /\ transitionTask' = NoOne
    /\ transitionBy' = NoOne
    /\ transitionAge' = BootTimeout + 1

\* getTransition finds nothing in force, or drops a transition older than the
\* boot timeout without telling the other clients.
NoTransitionInForce(c) ==
    /\ Show(c, "transition", reading[c])
    /\ \/ transition = None /\ UNCHANGED transitionVars
       \/ transition # None /\ Expired /\ DropTransition
    /\ UNCHANGED <<machineVars, sinceAction, cacheVars, requestVars, woken, events>>

ConfirmedNow(c) ==
    Confirmed(transition, reading[c], prev[c], transitionAge > RestartGrace)

\* getTransition finds a transition in force.
Reads(c) ==
    /\ transition # None /\ ~Expired
    /\ UNCHANGED <<machineVars, sinceAction, transitionVars, cacheVars, requestVars, woken,
                   events>>

\* The poll goes on with its own copy of the transition (transitionContext).
KeepTransition(c) ==
    /\ tc' = [tc EXCEPT ![c] = [state |-> transition, task |-> transitionTask,
                                by |-> transitionBy]]
    /\ UNCHANGED <<prev, reading>>

ConfirmTransition(c) ==
    /\ Reads(c)
    /\ ConfirmedNow(c)
    /\ GotoC(c, "transition", "clear")
    /\ KeepTransition(c)

AskForTask(c) ==
    /\ Reads(c)
    /\ ~ConfirmedNow(c) /\ transitionTask # NoOne
    /\ GotoC(c, "transition", "task")
    /\ KeepTransition(c)

ShowTransition(c) ==
    /\ Reads(c)
    /\ ~ConfirmedNow(c) /\ transitionTask = NoOne
    /\ Show(c, "transition", transition)

\* GetTaskInfo reports Exception or Killed.
TaskFailed(c) ==
    /\ GotoC(c, "task", "log")
    /\ link /\ task[tc[c].task] = "failed"
    /\ UNCHANGED <<machineVars, sinceAction, transitionVars, cacheVars, requestVars, prev,
                   reading, tc, woken, events>>

\* The task has not failed, or GetTaskInfo cannot tell: the link is down, or the
\* session it uses without a retry is stale.
TaskPending(c) ==
    /\ Show(c, "task", tc[c].state)
    /\ UNCHANGED <<machineVars, sinceAction, transitionVars, cacheVars, requestVars, woken, events>>

\* Mutant: the failure is credited to whoever is in force now.
LogTaskFailureOfCurrentUser(c) ==
    /\ GotoC(c, "log", "clear")
    /\ Record(tc[c].task, transitionBy, "taskFailed")
    /\ UNCHANGED <<machineVars, sinceAction, transitionVars, cacheVars, requestVars, prev,
                   reading, tc, woken>>

LogTaskFailure(c) ==
    /\ GotoC(c, "log", "clear")
    /\ Record(tc[c].task, tc[c].by, "taskFailed")
    /\ UNCHANGED <<machineVars, sinceAction, transitionVars, cacheVars, requestVars, prev,
                   reading, tc, woken>>

LogTaskFailureCancelled(c) ==
    /\ c \in Flaky
    /\ GotoC(c, "log", "clear")
    /\ UNCHANGED <<machineVars, sinceAction, transitionVars, cacheVars, requestVars, prev,
                   reading, tc, woken, events>>

\* Mutant: clearTransition only wakes the browsers.
ClearNothing(c) ==
    /\ GotoC(c, "clear", "notify")
    /\ UNCHANGED <<machineVars, sinceAction, transitionVars, cacheVars, requestVars, prev,
                   reading, tc, woken, events>>

\* clearTransition drops whatever is in force, ...
ClearTransition(c) ==
    /\ GotoC(c, "clear", "notify")
    /\ DropTransition
    /\ UNCHANGED <<machineVars, sinceAction, cacheVars, requestVars, prev, reading, tc, woken, events>>

\* ... wakes the other clients, and the poll shows the reading.
NotifyCleared(c) ==
    /\ Show(c, "notify", Settled(tc[c].state, reading[c]))
    /\ NotifySSE
    /\ UNCHANGED <<machineVars, sinceAction, transitionVars, cacheVars, requestVars,
                   events>>

\* getNotifyCh, after the events are sent.
Arm(c) ==
    /\ GotoC(c, "arm", "select")
    /\ UNCHANGED <<machineVars, sinceAction, transitionVars, cacheVars, requestVars, prev,
                   reading, tc, woken, events>>

\* The channel the handler waits on is closed, ...
Wake(c) ==
    /\ woken[c]
    /\ GotoC(c, "select", "poll")
    /\ woken' = [woken EXCEPT ![c] = FALSE]
    /\ UNCHANGED <<machineVars, sinceAction, transitionVars, cacheVars, requestVars, prev,
                   reading, tc, events>>

\* ... or its ticker fires.
TickerFires(c) ==
    /\ GotoC(c, "select", "poll")
    /\ woken' = [woken EXCEPT ![c] = FALSE]
    /\ UNCHANGED <<machineVars, sinceAction, transitionVars, cacheVars, requestVars, prev,
                   reading, tc, events>>

\* The browser is gone: a write fails or the request's context is done.
Leave(c) ==
    /\ c \in Flaky
    /\ cpc[c] \in {"arm", "select"}
    /\ cpc' = [cpc EXCEPT ![c] = "gone"]
    /\ prev' = [prev EXCEPT ![c] = None]
    /\ woken' = [woken EXCEPT ![c] = FALSE]
    /\ UNCHANGED <<machineVars, sinceAction, transitionVars, cacheVars, requestVars, reading,
                   tc, events>>

-----------------------------------------------------------------------------
Machine == JobSucceeds \/ JobFails \/ LinkDrops \/ LinkReturns

Handle(r) ==
    \/ ResetAccepted(r) \/ ResetAnswerLost(r) \/ ResetFails(r)
    \/ WakeSent(r) \/ WakeFails(r)
    \/ LogAction(r) \/ LogActionCancelled(r)
    \/ SetTransition(r) \/ Invalidate(r) \/ Notify(r)

Poll(c) ==
    \/ CacheHit(c) \/ BeginFetch(c) \/ EndFetch(c)
    \/ NoTransitionInForce(c) \/ ConfirmTransition(c) \/ AskForTask(c) \/ ShowTransition(c)
    \/ TaskFailed(c) \/ TaskPending(c)
    \/ LogTaskFailure(c) \/ LogTaskFailureCancelled(c)
    \/ ClearTransition(c) \/ NotifyCleared(c)
    \/ Arm(c)

Next ==
    \/ Machine
    \/ Tick
    \/ \E r \in Requests : Admit(r) \/ Reject(r) \/ Handle(r)
    \/ \E c \in Clients : Connect(c) \/ Poll(c) \/ Wake(c) \/ TickerFires(c) \/ Leave(c)

Spec == Init /\ [][Next]_vars

\* The machine finishes what it is told and its link comes back; time passes;
\* a BMC call, an insert and a write end (each has a timeout); a ticker fires;
\* and a goroutine that waits for a mutex gets it in turn, however often
\* others take it (Go's starvation mode).
Fairness ==
    /\ WF_vars(JobSucceeds \/ JobFails) /\ WF_vars(LinkReturns) /\ WF_vars(Tick)
    /\ \A r \in Requests : WF_vars(Handle(r)) /\ SF_vars(Invalidate(r))
    /\ \A c \in Clients :
         /\ WF_vars(Poll(c)) /\ SF_vars(CacheHit(c) \/ BeginFetch(c))
         /\ WF_vars(TickerFires(c))

FairSpec == Spec /\ Fairness

-----------------------------------------------------------------------------
(* Properties *)

\* The five fields of the transition, and every copy of them a poll works on,
\* come from one accepted request: no poll pairs one user's task with another
\* user's action, whatever setTransition, expiry and clearTransition interleave.
FromOneRequest(state, by, about) ==
    IF state = None
    THEN by = NoOne /\ about = NoOne
    ELSE /\ by \in Requests
         /\ ok[by]
         /\ state = TransitionForAction(action[by])
         /\ about = IF taskURL[by] THEN by ELSE NoOne

TransitionCoherent ==
    /\ FromOneRequest(transition, transitionBy, transitionTask)
    /\ \A c \in Clients : FromOneRequest(tc[c].state, tc[c].by, tc[c].task)

Sent(r) == [about |-> r, by |-> r, outcome |-> "sent"]

\* A failure event in the audit log is about a task the BMC did fail, is
\* credited to the user who asked for it, and follows the event that recorded
\* the action as sent, unless the insert of that one was among those that may fail.
FailureAttributed ==
    \A i \in DOMAIN events : events[i].outcome = "taskFailed" =>
        LET r == events[i].about IN
        /\ events[i].by = r
        /\ task[r] = "failed"
        /\ r \in Flaky \/ \E j \in 1 .. i - 1 : events[j] = Sent(r)

\* The comment on setTransition: SSE logs "a failure event" if the task fails.
\* Two polls that have both read the transition before either clears it log it
\* twice, but no browser ever does so more than once, whatever wakes it again.
FailureLoggedOncePerBrowser ==
    \A r \in Requests :
        Cardinality({i \in DOMAIN events : events[i].outcome = "taskFailed" /\ events[i].about = r})
            <= Cardinality(Clients)

\* However actions, polls, link failures and timeouts interleave, in the end
\* every connected browser shows the machine's real power state for good.
ShowsTheTruth == \A c \in Clients : cpc[c] # "gone" => prev[c] = host
Converges == <>[]ShowsTheTruth

\* An admitted action gets its answer although it waits for locks that polls
\* hold during BMC calls.
ActionsFinish == \A r \in Requests : rpc[r] = "command" ~> rpc[r] = "done"

-----------------------------------------------------------------------------
(* What the documents say and the code does not keep *)

\* README: transition states auto-clear "on BMC confirmation".  A poll clears
\* only the transition its own reading has confirmed or whose task has failed.
ClearsItsOwnTransition ==
    [][\A c \in Clients :
         cpc[c] = "clear" /\ cpc'[c] = "notify" => transitionBy \in {tc[c].by, NoOne}]_vars
=============================================================================
