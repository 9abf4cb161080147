-------------------------- MODULE PowerPanelProofs --------------------------
(***************************************************************************)
(* Proofs about PowerPanel for any number of browsers and requests, any    *)
(* cooldown, timeout and poll interval, and any browsers that go away:     *)
(* type correctness, the coherence of the transition and the attribution   *)
(* of failures.                                                            *)
(***************************************************************************)
EXTENDS PowerPanel, TLAPS

-----------------------------------------------------------------------------
(* Type correctness *)

\* What typing needs beyond types: a handler that is at work knows its action,
\* one that announces it has succeeded, and a poll that asks for a task has one.
Working == \A r \in Requests :
    /\ rpc[r] \notin {"idle", "rejected"} => action[r] \in PowerActions
    /\ rpc[r] \in {"set", "invalidate", "notify"} => ok[r]

Polling == \A c \in Clients : cpc[c] \in {"task", "log"} => tc[c].task \in Requests

WorkInv == Working /\ Polling

TypeInv == TypeOK /\ WorkInv

\* What a step leaves alone keeps its type.
LEMMA Frames ==
  /\ MachineOK /\ UNCHANGED machineVars => MachineOK'
  /\ TransitionOK /\ UNCHANGED transitionVars => TransitionOK'
  /\ CacheOK /\ UNCHANGED cacheVars => CacheOK'
  /\ RequestsOK /\ UNCHANGED requestVars => RequestsOK'
  /\ ClientsOK /\ UNCHANGED clientVars => ClientsOK'
<1>1. MachineOK /\ UNCHANGED machineVars => MachineOK'
  BY DEF MachineOK, machineVars
<1>2. TransitionOK /\ UNCHANGED transitionVars => TransitionOK'
  BY DEF TransitionOK, transitionVars
<1>3. CacheOK /\ UNCHANGED cacheVars => CacheOK'
  BY DEF CacheOK, cacheVars
<1>4. RequestsOK /\ UNCHANGED requestVars => RequestsOK'
  BY DEF RequestsOK, requestVars
<1>5. ClientsOK /\ UNCHANGED clientVars => ClientsOK'
  BY DEF ClientsOK, clientVars
<1> QED
  BY <1>1, <1>2, <1>3, <1>4, <1>5

LEMMA TypeInit == Init => TypeInv
<1> SUFFICES ASSUME Init PROVE TypeInv
  OBVIOUS
<1> USE PanelAssumption DEF Init
<1>1. MachineOK /\ sinceAction \in 0 .. Cooldown
  BY DEF MachineOK
<1>2. TransitionOK
  BY DEF TransitionOK
<1>3. CacheOK
  BY DEF CacheOK, Readings
<1>4. RequestsOK
  BY DEF RequestsOK
<1>5. ClientsOK
  BY DEF ClientsOK, Readings, NoTransition, TransitionContexts
<1>6. events \in Seq(Events)
  OBVIOUS
<1>7. WorkInv
  BY DEF WorkInv, Working, Polling
<1> QED
  BY <1>1, <1>2, <1>3, <1>4, <1>5, <1>6, <1>7 DEF TypeInv, TypeOK

\* The jobs of the BMC.
LEMMA MachineStep == TypeInv /\ [Next]_vars => MachineOK'
<1> SUFFICES ASSUME MachineOK, WorkInv, [Next]_vars PROVE MachineOK'
  BY DEF TypeInv, TypeOK
<1>0. ASSUME UNCHANGED machineVars PROVE MachineOK'
  BY <1>0, Frames
<1>1. CASE Machine
  <2>1. CASE JobSucceeds \/ JobFails
    BY <2>1, PanelAssumption DEF JobSucceeds, JobFails, JobEnds, MachineOK
  <2>2. CASE LinkDrops \/ LinkReturns
    <3>1. drops' \in 0 .. MaxDrops
      BY <2>2, PanelAssumption DEF LinkDrops, LinkReturns, MachineOK
    <3>2. link' \in BOOLEAN
      BY <2>2 DEF LinkDrops, LinkReturns
    <3>3. UNCHANGED <<host, job, jobOf, task>>
      BY <2>2 DEF LinkDrops, LinkReturns
    <3> QED
      BY <3>1, <3>2, <3>3 DEF MachineOK
  <2> QED
    BY <1>1, <2>1, <2>2 DEF Machine
<1>2. CASE Tick
  BY <1>2, <1>0 DEF Tick
<1>3. ASSUME NEW r \in Requests, Admit(r) \/ Reject(r) PROVE MachineOK'
  BY <1>3, <1>0 DEF Admit, Reject
<1>4. ASSUME NEW r \in Requests, Handle(r) PROVE MachineOK'
  <2>1. ASSUME AfterCommand(r), StartJob(r) PROVE MachineOK'
    <3>1. action[r] \in PowerActions
      BY <2>1 DEF AfterCommand, GotoR, WorkInv, Working
    <3>2. JobFor(action[r]) \in {"boot", "halt", "restart"}
      BY <3>1 DEF JobFor, PowerActions
    <3> QED
      BY <2>1, <3>2 DEF StartJob, MachineOK
  <2>2. CASE ResetAccepted(r) \/ ResetAnswerLost(r)
    BY <2>1, <2>2 DEF ResetAccepted, ResetAnswerLost
  <2>3. CASE WakeSent(r)
    BY <2>3 DEF WakeSent, MachineOK
  <2>4. CASE ResetFails(r) \/ WakeFails(r) \/ LogAction(r) \/ LogActionCancelled(r)
             \/ SetTransition(r) \/ Invalidate(r) \/ Notify(r)
    BY <2>4, <1>0 DEF ResetFails, WakeFails, LogAction, LogActionCancelled, SetTransition,
       Invalidate, Notify
  <2> QED
    BY <1>4, <2>2, <2>3, <2>4 DEF Handle
<1>5. ASSUME NEW c \in Clients, Poll(c) PROVE MachineOK'
  <2>1. UNCHANGED machineVars
    BY <1>5 DEF Poll, CacheHit, BeginFetch, EndFetch, NoTransitionInForce, ConfirmTransition,
       AskForTask, ShowTransition, Reads, TaskFailed, TaskPending, LogTaskFailure,
       LogTaskFailureCancelled, ClearTransition, NotifyCleared, Arm
  <2> QED
    BY <2>1, <1>0
<1>6. ASSUME NEW c \in Clients, Connect(c) \/ Wake(c) \/ TickerFires(c) \/ Leave(c)
      PROVE MachineOK'
  BY <1>6, <1>0 DEF Connect, Wake, TickerFires, Leave
<1>7. CASE UNCHANGED vars
  BY <1>7, <1>0 DEF vars
<1> QED
  BY <1>1, <1>2, <1>3, <1>4, <1>5, <1>6, <1>7 DEF Next

\* The transition in force.
LEMMA TransitionStep == TypeInv /\ [Next]_vars => TransitionOK'
<1> SUFFICES ASSUME TransitionOK, RequestsOK, WorkInv, [Next]_vars PROVE TransitionOK'
  BY DEF TypeInv, TypeOK
<1>0. ASSUME UNCHANGED transitionVars PROVE TransitionOK'
  BY <1>0, Frames
<1>d. ASSUME DropTransition PROVE TransitionOK'
  BY <1>d, PanelAssumption DEF DropTransition, TransitionOK
<1>1. CASE Machine
  BY <1>1, <1>0 DEF Machine, JobSucceeds, JobFails, LinkDrops, LinkReturns
<1>2. CASE Tick
  BY <1>2, PanelAssumption DEF Tick, AtMost, TransitionOK
<1>3. ASSUME NEW r \in Requests, Admit(r) \/ Reject(r) PROVE TransitionOK'
  BY <1>3, <1>0 DEF Admit, Reject
<1>4. ASSUME NEW r \in Requests, Handle(r) PROVE TransitionOK'
  <2>1. CASE SetTransition(r)
    <3>1. action[r] \in PowerActions
      BY <2>1 DEF SetTransition, GotoR, WorkInv, Working
    <3>2. TransitionForAction(action[r]) \in TransitionStates
      BY <3>1 DEF TransitionForAction, PowerActions, TransitionStates
    <3> QED
      BY <2>1, <3>2, PanelAssumption DEF SetTransition, TransitionOK
  <2>2. CASE ~SetTransition(r)
    BY <1>4, <2>2, <1>0 DEF Handle, ResetAccepted, ResetAnswerLost, ResetFails, WakeSent,
       WakeFails, LogAction, LogActionCancelled, Invalidate, Notify
  <2> QED
    BY <2>1, <2>2
<1>5. ASSUME NEW c \in Clients, Poll(c) PROVE TransitionOK'
  <2>1. CASE NoTransitionInForce(c) \/ ClearTransition(c)
    BY <2>1, <1>0, <1>d DEF NoTransitionInForce, ClearTransition
  <2>2. CASE ~(NoTransitionInForce(c) \/ ClearTransition(c))
    BY <1>5, <2>2, <1>0 DEF Poll, CacheHit, BeginFetch, EndFetch, ConfirmTransition,
       AskForTask, ShowTransition, Reads, TaskFailed, TaskPending, LogTaskFailure,
       LogTaskFailureCancelled, NotifyCleared, Arm
  <2> QED
    BY <2>1, <2>2
<1>6. ASSUME NEW c \in Clients, Connect(c) \/ Wake(c) \/ TickerFires(c) \/ Leave(c)
      PROVE TransitionOK'
  BY <1>6, <1>0 DEF Connect, Wake, TickerFires, Leave
<1>7. CASE UNCHANGED vars
  BY <1>7, <1>0 DEF vars
<1> QED
  BY <1>1, <1>2, <1>3, <1>4, <1>5, <1>6, <1>7 DEF Next

\* The cache and the cooldown.
LEMMA CacheStep == TypeInv /\ [Next]_vars => CacheOK' /\ sinceAction' \in 0 .. Cooldown
<1> SUFFICES ASSUME MachineOK, CacheOK, sinceAction \in 0 .. Cooldown, [Next]_vars
             PROVE CacheOK' /\ sinceAction' \in 0 .. Cooldown
  BY DEF TypeInv, TypeOK
<1>0. ASSUME UNCHANGED cacheVars PROVE CacheOK'
  BY <1>0, Frames
<1>1. CASE Machine
  BY <1>1, <1>0 DEF Machine, JobSucceeds, JobFails, LinkDrops, LinkReturns
<1>2. CASE Tick
  BY <1>2, PanelAssumption DEF Tick, AtMost, CacheOK
<1>3. ASSUME NEW r \in Requests, Admit(r) \/ Reject(r)
      PROVE CacheOK' /\ sinceAction' \in 0 .. Cooldown
  BY <1>3, <1>0, PanelAssumption DEF Admit, Reject
<1>4. ASSUME NEW r \in Requests, Handle(r) PROVE CacheOK' /\ sinceAction' = sinceAction
  <2>1. CASE Invalidate(r)
    BY <2>1, PanelAssumption DEF Invalidate, CacheOK
  <2>2. CASE ~Invalidate(r)
    BY <1>4, <2>2, <1>0 DEF Handle, ResetAccepted, ResetAnswerLost, ResetFails, WakeSent,
       WakeFails, LogAction, LogActionCancelled, SetTransition, Notify
  <2> QED
    BY <2>1, <2>2
<1>5. ASSUME NEW c \in Clients, Poll(c) PROVE CacheOK' /\ sinceAction' = sinceAction
  <2>1. CASE BeginFetch(c)
    BY <2>1 DEF BeginFetch, CacheOK, MachineOK, Readings
  <2>2. CASE EndFetch(c)
    BY <2>2, PanelAssumption DEF EndFetch, CacheOK
  <2>3. CASE ~(BeginFetch(c) \/ EndFetch(c))
    BY <1>5, <2>3, <1>0 DEF Poll, CacheHit, NoTransitionInForce, ConfirmTransition,
       AskForTask, ShowTransition, Reads, TaskFailed, TaskPending, LogTaskFailure,
       LogTaskFailureCancelled, ClearTransition, NotifyCleared, Arm
  <2> QED
    BY <2>1, <2>2, <2>3
<1>6. ASSUME NEW c \in Clients, Connect(c) \/ Wake(c) \/ TickerFires(c) \/ Leave(c)
      PROVE CacheOK' /\ sinceAction' = sinceAction
  BY <1>6, <1>0 DEF Connect, Wake, TickerFires, Leave
<1>7. CASE UNCHANGED vars
  BY <1>7, <1>0 DEF vars
<1> QED
  BY <1>1, <1>2, <1>3, <1>4, <1>5, <1>6, <1>7 DEF Next, Machine, JobSucceeds, JobFails,
     LinkDrops, LinkReturns

\* The power-action handlers, with what they know at each step.
LEMMA RequestsStep == TypeInv /\ [Next]_vars => RequestsOK' /\ Working'
<1> SUFFICES ASSUME MachineOK, RequestsOK, Working, [Next]_vars
             PROVE RequestsOK' /\ Working'
  BY DEF TypeInv, TypeOK, WorkInv
<1>0. ASSUME UNCHANGED requestVars PROVE RequestsOK' /\ Working'
  BY <1>0, Frames DEF requestVars, Working
<1>1. CASE Machine
  BY <1>1, <1>0 DEF Machine, JobSucceeds, JobFails, LinkDrops, LinkReturns
<1>2. CASE Tick
  BY <1>2, <1>0 DEF Tick
<1>3. ASSUME NEW r \in Requests, Admit(r) \/ Reject(r) PROVE RequestsOK' /\ Working'
  BY <1>3, PanelAssumption DEF Admit, Reject, GotoR, RequestsOK, Working
<1>4. ASSUME NEW r \in Requests, Handle(r) PROVE RequestsOK' /\ Working'
  <2> USE DEF GotoR, RequestsOK, Working
  <2>1. CASE ResetAccepted(r)
    BY <2>1 DEF ResetAccepted, AfterCommand
  <2>2. CASE ResetAnswerLost(r) \/ ResetFails(r)
    BY <2>2 DEF ResetAnswerLost, ResetFails, AfterCommand
  <2>3. CASE WakeSent(r) \/ WakeFails(r)
    BY <2>3 DEF WakeSent, WakeFails
  <2>4. CASE LogAction(r) \/ LogActionCancelled(r)
    BY <2>4 DEF LogAction, LogActionCancelled, AfterLog
  <2>5. CASE SetTransition(r) \/ Invalidate(r) \/ Notify(r)
    BY <2>5 DEF SetTransition, Invalidate, Notify
  <2> QED
    BY <1>4, <2>1, <2>2, <2>3, <2>4, <2>5 DEF Handle
<1>5. ASSUME NEW c \in Clients, Poll(c) PROVE RequestsOK' /\ Working'
  <2>1. UNCHANGED requestVars
    BY <1>5 DEF Poll, CacheHit, BeginFetch, EndFetch, NoTransitionInForce, ConfirmTransition,
       AskForTask, ShowTransition, Reads, TaskFailed, TaskPending, LogTaskFailure,
       LogTaskFailureCancelled, ClearTransition, NotifyCleared, Arm
  <2> QED
    BY <2>1, <1>0
<1>6. ASSUME NEW c \in Clients, Connect(c) \/ Wake(c) \/ TickerFires(c) \/ Leave(c)
      PROVE RequestsOK' /\ Working'
  BY <1>6, <1>0 DEF Connect, Wake, TickerFires, Leave
<1>7. CASE UNCHANGED vars
  BY <1>7, <1>0 DEF vars
<1> QED
  BY <1>1, <1>2, <1>3, <1>4, <1>5, <1>6, <1>7 DEF Next

\* The polls, with what they know at each step.
LEMMA ClientsStep == TypeInv /\ [Next]_vars => ClientsOK' /\ Polling'
<1> SUFFICES ASSUME CacheOK, TransitionOK, ClientsOK, Polling, [Next]_vars
             PROVE ClientsOK' /\ Polling'
  BY DEF TypeInv, TypeOK, WorkInv
<1>0. ASSUME UNCHANGED clientVars PROVE ClientsOK' /\ Polling'
  BY <1>0, Frames DEF clientVars, Polling
\* Showing a state ends the poll.
<1>s. ASSUME NEW c \in Clients, NEW from, NEW state \in ShownStates \union {None},
             Show(c, from, state), woken' \in [Clients -> BOOLEAN]
      PROVE ClientsOK' /\ Polling'
  <2>1. NoTransition \in TransitionContexts /\ "Unknown" \in Readings
    BY DEF NoTransition, TransitionContexts, Readings
  <2> QED
    BY <1>s, <2>1 DEF Show, GotoC, ClientsOK, Polling
<1>w. NotifySSE => woken' \in [Clients -> BOOLEAN]
  <2> SUFFICES ASSUME NotifySSE, NEW c \in Clients
               PROVE (woken[c] \/ cpc[c] = "select") \in BOOLEAN
    BY DEF NotifySSE
  <2> QED
    OBVIOUS
<1>1. CASE Machine
  BY <1>1, <1>0 DEF Machine, JobSucceeds, JobFails, LinkDrops, LinkReturns
<1>2. CASE Tick
  BY <1>2, <1>0 DEF Tick
<1>3. ASSUME NEW r \in Requests, Admit(r) \/ Reject(r) PROVE ClientsOK' /\ Polling'
  BY <1>3, <1>0 DEF Admit, Reject
<1>4. ASSUME NEW r \in Requests, Handle(r) PROVE ClientsOK' /\ Polling'
  <2>1. CASE Notify(r)
    BY <2>1, <1>w DEF Notify, ClientsOK, Polling
  <2>2. CASE ~Notify(r)
    BY <1>4, <2>2, <1>0 DEF Handle, ResetAccepted, ResetAnswerLost, ResetFails, WakeSent,
       WakeFails, LogAction, LogActionCancelled, SetTransition, Invalidate
  <2> QED
    BY <2>1, <2>2
<1>5. ASSUME NEW c \in Clients, Poll(c) PROVE ClientsOK' /\ Polling'
  <2>t. /\ reading[c] \in ShownStates /\ tc[c].state \in ShownStates \union {None}
        /\ woken \in [Clients -> BOOLEAN]
    BY DEF ClientsOK, ShownStates, TransitionContexts
  <2>1. CASE CacheHit(c) \/ BeginFetch(c) \/ EndFetch(c)
    BY <2>1 DEF CacheHit, BeginFetch, EndFetch, TakeReading, GotoC, ClientsOK, CacheOK, Polling
  <2>2. CASE NoTransitionInForce(c)
    BY <2>2, <2>t, <1>s DEF NoTransitionInForce
  <2>3. CASE ConfirmTransition(c) \/ AskForTask(c)
    <3>1. [state |-> transition, task |-> transitionTask, by |-> transitionBy]
            \in TransitionContexts
      BY DEF TransitionOK, TransitionContexts
    <3>2. AskForTask(c) => transitionTask \in Requests
      BY DEF AskForTask, TransitionOK
    <3> QED
      BY <2>3, <3>1, <3>2 DEF ConfirmTransition, AskForTask, Reads, KeepTransition, GotoC,
         ClientsOK, Polling
  <2>4. CASE ShowTransition(c)
    BY <2>4, <2>t, <1>s DEF ShowTransition, Reads, TransitionOK, ShownStates
  <2>5. CASE TaskFailed(c) \/ LogTaskFailure(c) \/ LogTaskFailureCancelled(c)
             \/ ClearTransition(c) \/ Arm(c)
    BY <2>5 DEF TaskFailed, LogTaskFailure, LogTaskFailureCancelled, ClearTransition, Arm,
       GotoC, ClientsOK, Polling
  <2>6. CASE TaskPending(c)
    BY <2>6, <2>t, <1>s DEF TaskPending
  <2>7. CASE NotifyCleared(c)
    <3>1. Settled(tc[c].state, reading[c]) \in ShownStates
      BY <2>t DEF Settled, ShownStates, Readings
    <3> QED
      BY <2>7, <3>1, <1>w, <1>s DEF NotifyCleared
  <2> QED
    BY <1>5, <2>1, <2>2, <2>3, <2>4, <2>5, <2>6, <2>7 DEF Poll
<1>6. ASSUME NEW c \in Clients, Connect(c) \/ Wake(c) \/ TickerFires(c) \/ Leave(c)
      PROVE ClientsOK' /\ Polling'
  BY <1>6 DEF Connect, Wake, TickerFires, Leave, GotoC, ClientsOK, Polling
<1>7. CASE UNCHANGED vars
  BY <1>7, <1>0 DEF vars
<1> QED
  BY <1>1, <1>2, <1>3, <1>4, <1>5, <1>6, <1>7 DEF Next

\* The audit log.
LEMMA LogStep == TypeInv /\ [Next]_vars => events' \in Seq(Events)
<1> SUFFICES ASSUME ClientsOK, Polling, events \in Seq(Events), [Next]_vars
             PROVE events' \in Seq(Events)
  BY DEF TypeInv, TypeOK, WorkInv
<1>r. ASSUME NEW about \in Requests, NEW by \in Requests \union {NoOne},
             NEW outcome \in {"sent", "failed", "taskFailed"}, Record(about, by, outcome)
      PROVE events' \in Seq(Events)
  <2>1. [about |-> about, by |-> by, outcome |-> outcome] \in Events
    BY DEF Events
  <2> QED
    BY <1>r, <2>1 DEF Record
<1>1. ASSUME NEW r \in Requests, LogAction(r) PROVE events' \in Seq(Events)
  BY <1>1, <1>r DEF LogAction
<1>2. ASSUME NEW c \in Clients, LogTaskFailure(c) PROVE events' \in Seq(Events)
  <2>1. tc[c].task \in Requests /\ tc[c].by \in Requests \union {NoOne}
    BY <1>2 DEF LogTaskFailure, GotoC, Polling, ClientsOK, TransitionContexts
  <2> QED
    BY <1>2, <2>1, <1>r DEF LogTaskFailure
<1>3. CASE /\ ~\E r \in Requests : LogAction(r)
           /\ ~\E c \in Clients : LogTaskFailure(c)
  <2>1. UNCHANGED events
    BY <1>3 DEF Next, Machine, JobSucceeds, JobFails, LinkDrops, LinkReturns, Tick, Admit,
       Reject, Handle, ResetAccepted, ResetAnswerLost, ResetFails, WakeSent, WakeFails,
       LogActionCancelled, SetTransition, Invalidate, Notify, Poll, CacheHit, BeginFetch,
       EndFetch, NoTransitionInForce, ConfirmTransition, AskForTask, ShowTransition, Reads,
       TaskFailed, TaskPending, LogTaskFailureCancelled, ClearTransition, NotifyCleared, Arm,
       Connect, Wake, TickerFires, Leave, vars
  <2> QED
    BY <2>1
<1> QED
  BY <1>1, <1>2, <1>3

LEMMA TypeStep == TypeInv /\ [Next]_vars => TypeInv'
  BY MachineStep, TransitionStep, CacheStep, RequestsStep, ClientsStep, LogStep
  DEF TypeInv, TypeOK, WorkInv

LEMMA TypeAlways == Spec => []TypeInv
  BY TypeInit, TypeStep, PTL DEF Spec

\* Whatever polls, actions, expiries and link failures interleave, every
\* variable keeps its type.
THEOREM TypeCorrect == Spec => []TypeOK
<1>1. TypeInv => TypeOK
  BY DEF TypeInv
<1> QED
  BY <1>1, TypeAlways, PTL

-----------------------------------------------------------------------------
(* The transition is one request's *)

Acted == {"invalidate", "notify", "done"}

\* The request behind a transition has been accepted and will not change any
\* more: setTransition is the last thing it writes.
CoherentInv ==
    /\ TransitionCoherent
    /\ transition # None => rpc[transitionBy] \in Acted
    /\ \A c \in Clients : tc[c].state # None => rpc[tc[c].by] \in Acted

\* A request that has acted stays as it is.
LEMMA ActedStays ==
  ASSUME TypeInv, [Next]_vars, NEW r \in Requests, rpc[r] \in Acted
  PROVE  /\ rpc'[r] \in Acted /\ ok'[r] = ok[r]
         /\ action'[r] = action[r] /\ taskURL'[r] = taskURL[r]
<1>t. RequestsOK
  BY DEF TypeInv, TypeOK
<1>1. CASE UNCHANGED requestVars
  BY <1>1 DEF requestVars
<1>2. CASE ~UNCHANGED requestVars
  <2>1. PICK q \in Requests : Admit(q) \/ Reject(q) \/ Handle(q)
    BY <1>2 DEF Next, vars, Machine, JobSucceeds, JobFails, LinkDrops, LinkReturns, Tick,
       Poll, CacheHit, BeginFetch, EndFetch, NoTransitionInForce, ConfirmTransition,
       AskForTask, ShowTransition, Reads, TaskFailed, TaskPending, LogTaskFailure,
       LogTaskFailureCancelled, ClearTransition, NotifyCleared, Arm, Connect, Wake,
       TickerFires, Leave
  <2> USE <1>t DEF GotoR, RequestsOK, Acted
  <2>2. CASE Admit(q) \/ Reject(q)
    BY <2>2 DEF Admit, Reject
  <2>3. CASE ResetAccepted(q) \/ ResetAnswerLost(q) \/ ResetFails(q)
    BY <2>3 DEF ResetAccepted, ResetAnswerLost, ResetFails, AfterCommand
  <2>4. CASE WakeSent(q) \/ WakeFails(q) \/ LogAction(q) \/ LogActionCancelled(q)
    BY <2>4 DEF WakeSent, WakeFails, LogAction, LogActionCancelled, AfterLog
  <2>5. CASE SetTransition(q) \/ Invalidate(q) \/ Notify(q)
    BY <2>5 DEF SetTransition, Invalidate, Notify
  <2> QED
    BY <2>1, <2>2, <2>3, <2>4, <2>5 DEF Handle
<1> QED
  BY <1>1, <1>2

\* So what was one request's remains one request's.
LEMMA CoherenceStays ==
  ASSUME TypeInv, [Next]_vars, NEW state, NEW by, NEW about,
         FromOneRequest(state, by, about), state # None => rpc[by] \in Acted
  PROVE  /\ IF state = None
            THEN by = NoOne /\ about = NoOne
            ELSE /\ by \in Requests /\ ok'[by]
                 /\ state = TransitionForAction(action'[by])
                 /\ about = IF taskURL'[by] THEN by ELSE NoOne
         /\ state # None => rpc'[by] \in Acted
<1>1. CASE state = None
  BY <1>1 DEF FromOneRequest
<1>2. CASE state # None
  <2>1. by \in Requests /\ rpc[by] \in Acted
    BY <1>2 DEF FromOneRequest
  <2>2. /\ rpc'[by] \in Acted /\ ok'[by] = ok[by]
        /\ action'[by] = action[by] /\ taskURL'[by] = taskURL[by]
    BY <2>1, ActedStays
  <2> QED
    BY <1>2, <2>1, <2>2 DEF FromOneRequest
<1> QED
  BY <1>1, <1>2

LEMMA CoherentInit == Init => CoherentInv
  BY DEF Init, CoherentInv, TransitionCoherent, FromOneRequest, NoTransition

\* The server's copy.
LEMMA TransitionCoherentStep ==
  ASSUME TypeInv, CoherentInv, [Next]_vars
  PROVE  /\ FromOneRequest(transition, transitionBy, transitionTask)'
         /\ (transition # None => rpc[transitionBy] \in Acted)'
<1>1. CASE UNCHANGED transitionVars
  BY <1>1, CoherenceStays DEF CoherentInv, TransitionCoherent, FromOneRequest, transitionVars
<1>2. CASE DropTransition
  BY <1>2 DEF DropTransition, FromOneRequest
<1>3. ASSUME NEW r \in Requests, SetTransition(r)
      PROVE  /\ FromOneRequest(transition, transitionBy, transitionTask)'
             /\ (transition # None => rpc[transitionBy] \in Acted)'
  <2>1. /\ rpc[r] = "set" /\ ok[r] /\ action[r] \in PowerActions
        /\ rpc \in [Requests -> {"idle", "command", "wol", "log", "set", "invalidate",
                                 "notify", "done", "rejected"}]
    BY <1>3 DEF SetTransition, GotoR, TypeInv, TypeOK, RequestsOK, WorkInv, Working
  <2>2. TransitionForAction(action[r]) # None
    BY <2>1 DEF TransitionForAction, PowerActions, None
  <2> QED
    BY <1>3, <2>1, <2>2 DEF SetTransition, GotoR, FromOneRequest, Acted
<1>4. CASE Tick
  BY <1>4, CoherenceStays DEF Tick, CoherentInv, TransitionCoherent, FromOneRequest
<1>5. \/ UNCHANGED transitionVars \/ DropTransition \/ Tick
      \/ \E r \in Requests : SetTransition(r)
  BY DEF Next, Machine, JobSucceeds, JobFails, LinkDrops, LinkReturns, Admit,
     Reject, Handle, ResetAccepted, ResetAnswerLost, ResetFails, WakeSent, WakeFails,
     LogAction, LogActionCancelled, Invalidate, Notify, Poll, CacheHit, BeginFetch,
     EndFetch, NoTransitionInForce, ConfirmTransition, AskForTask, ShowTransition, Reads,
     TaskFailed, TaskPending, LogTaskFailure, LogTaskFailureCancelled, ClearTransition,
     NotifyCleared, Arm, Connect, Wake, TickerFires, Leave, vars
<1> QED
  BY <1>1, <1>2, <1>3, <1>4, <1>5

\* The polls' copies.
LEMMA CopiesCoherentStep ==
  ASSUME TypeInv, CoherentInv, [Next]_vars, NEW c \in Clients
  PROVE  /\ FromOneRequest(tc[c].state, tc[c].by, tc[c].task)'
         /\ (tc[c].state # None => rpc[tc[c].by] \in Acted)'
<1>t. tc \in [Clients -> TransitionContexts]
  BY DEF TypeInv, TypeOK, ClientsOK
<1>1. CASE tc'[c] = tc[c]
  BY <1>1, CoherenceStays DEF CoherentInv, TransitionCoherent, FromOneRequest
<1>2. CASE tc'[c] = NoTransition
  BY <1>2 DEF NoTransition, FromOneRequest
<1>3. CASE /\ tc'[c] = [state |-> transition, task |-> transitionTask, by |-> transitionBy]
           /\ UNCHANGED transitionVars
  BY <1>3, CoherenceStays DEF CoherentInv, TransitionCoherent, FromOneRequest
<1>4. \/ tc'[c] = tc[c] \/ tc'[c] = NoTransition
      \/ /\ tc'[c] = [state |-> transition, task |-> transitionTask, by |-> transitionBy]
         /\ UNCHANGED transitionVars
  <2>1. CASE UNCHANGED tc
    BY <2>1
  <2>2. ASSUME NEW d \in Clients, NEW from, NEW state, Show(d, from, state)
        PROVE  tc'[c] = tc[c] \/ tc'[c] = NoTransition
    BY <2>2, <1>t DEF Show
  <2>3. ASSUME NEW d \in Clients, Reads(d), KeepTransition(d)
        PROVE  \/ tc'[c] = tc[c]
               \/ /\ tc'[c] = [state |-> transition, task |-> transitionTask,
                               by |-> transitionBy]
                  /\ UNCHANGED transitionVars
    BY <2>3, <1>t DEF KeepTransition, Reads
  <2>4. \/ UNCHANGED tc
        \/ \E d \in Clients : \/ NoTransitionInForce(d) \/ ShowTransition(d)
                              \/ TaskPending(d) \/ NotifyCleared(d)
        \/ \E d \in Clients : ConfirmTransition(d) \/ AskForTask(d)
    BY DEF Next, Machine, JobSucceeds, JobFails, LinkDrops, LinkReturns, Tick, Admit,
       Reject, Handle, ResetAccepted, ResetAnswerLost, ResetFails, WakeSent, WakeFails,
       LogAction, LogActionCancelled, SetTransition, Invalidate, Notify, Poll, CacheHit,
       BeginFetch, EndFetch, TaskFailed, LogTaskFailure, LogTaskFailureCancelled,
       ClearTransition, Arm, Connect, Wake, TickerFires, Leave, vars, clientVars
  <2>5. CASE \E d \in Clients : ConfirmTransition(d) \/ AskForTask(d)
    BY <2>5, <2>3 DEF ConfirmTransition, AskForTask
  <2>6. CASE \E d \in Clients : \/ NoTransitionInForce(d) \/ ShowTransition(d)
                                \/ TaskPending(d) \/ NotifyCleared(d)
    BY <2>6, <2>2 DEF NoTransitionInForce, ShowTransition, TaskPending, NotifyCleared
  <2> QED
    BY <2>1, <2>4, <2>5, <2>6
<1> QED
  BY <1>1, <1>2, <1>3, <1>4

LEMMA CoherentStep == TypeInv /\ CoherentInv /\ [Next]_vars => CoherentInv'
<1> SUFFICES ASSUME TypeInv, CoherentInv, [Next]_vars PROVE CoherentInv'
  OBVIOUS
<1>1. /\ FromOneRequest(transition, transitionBy, transitionTask)'
      /\ (transition # None => rpc[transitionBy] \in Acted)'
  BY TransitionCoherentStep
<1>2. \A c \in Clients : /\ FromOneRequest(tc[c].state, tc[c].by, tc[c].task)'
                         /\ (tc[c].state # None => rpc[tc[c].by] \in Acted)'
  BY CopiesCoherentStep
<1> QED
  BY <1>1, <1>2 DEF CoherentInv, TransitionCoherent

LEMMA CoherentAlways == Spec => []CoherentInv
  BY TypeAlways, CoherentInit, CoherentStep, PTL DEF Spec

\* The transition in force and every poll's copy of it belong to one accepted
\* request, its action, its user and its task, for any number of requests and
\* polls and any timing of setTransition, expiry and clearTransition.
THEOREM Coherence == Spec => []TransitionCoherent
<1>1. CoherentInv => TransitionCoherent
  BY DEF CoherentInv
<1> QED
  BY <1>1, CoherentAlways, PTL

-----------------------------------------------------------------------------
(* Failures in the audit log *)

Recorded(r) == r \in Flaky \/ \E j \in DOMAIN events : events[j] = Sent(r)

\* A task exists once its command has been sent, an accepted action is in the
\* log, and a poll that is about to log a failure has seen one.
FailureInv ==
    /\ \A r \in Requests : rpc[r] \in {"idle", "command", "rejected"} => task[r] = "none"
    /\ \A r \in Requests : rpc[r] \in {"set"} \union Acted /\ ok[r] => Recorded(r)
    /\ \A c \in Clients : cpc[c] = "log" => task[tc[c].task] = "failed"
    /\ FailureAttributed

LEMMA FailureInit == Init => FailureInv
  BY DEF Init, FailureInv, FailureAttributed, Acted

\* A task that has failed stays failed.
LEMMA TasksStep ==
  ASSUME TypeInv, FailureInv, [Next]_vars, NEW r \in Requests
  PROVE  /\ rpc'[r] \in {"idle", "command", "rejected"} => task'[r] = "none"
         /\ task[r] = "failed" => task'[r] = "failed"
<1>t. MachineOK /\ RequestsOK
  BY DEF TypeInv, TypeOK
<1>i. rpc[r] \in {"idle", "command", "rejected"} => task[r] = "none"
  BY DEF FailureInv
<1> USE <1>t DEF MachineOK, RequestsOK, GotoR
<1>1. CASE Machine
  BY <1>1, <1>i DEF Machine, JobSucceeds, JobFails, JobEnds, LinkDrops, LinkReturns, requestVars
<1>2. CASE UNCHANGED <<task, rpc>>
  BY <1>2, <1>i
<1>3. ASSUME NEW q \in Requests, Admit(q) \/ Reject(q)
      PROVE  /\ rpc'[r] \in {"idle", "command", "rejected"} => task'[r] = "none"
             /\ task[r] = "failed" => task'[r] = "failed"
  BY <1>3, <1>i DEF Admit, Reject, machineVars
<1>4. ASSUME NEW q \in Requests, Handle(q)
      PROVE  /\ rpc'[r] \in {"idle", "command", "rejected"} => task'[r] = "none"
             /\ task[r] = "failed" => task'[r] = "failed"
  <2>1. CASE ResetAccepted(q) \/ ResetAnswerLost(q)
    <3>1. /\ rpc[q] = "command" /\ task[q] = "none"
          /\ rpc' = [rpc EXCEPT ![q] = IF action[q] = "power_on" THEN "wol" ELSE "log"]
      BY <2>1 DEF ResetAccepted, ResetAnswerLost, AfterCommand, FailureInv
    <3>2. PICK new \in {"none", "running"} :
            task' = [p \in Requests |->
                       IF p = q THEN new
                       ELSE IF p = jobOf /\ task[p] = "running" THEN "failed" ELSE task[p]]
      BY <2>1 DEF ResetAccepted, ResetAnswerLost, StartJob
    <3> QED
      BY <3>1, <3>2, <1>i
  <2>2. CASE ResetFails(q)
    BY <2>2, <1>i DEF ResetFails, AfterCommand, machineVars
  <2>3. CASE WakeSent(q) \/ WakeFails(q)
    BY <2>3, <1>i DEF WakeSent, WakeFails, machineVars
  <2>4. CASE LogAction(q) \/ LogActionCancelled(q)
    BY <2>4, <1>i DEF LogAction, LogActionCancelled, AfterLog, machineVars
  <2>5. CASE SetTransition(q) \/ Invalidate(q) \/ Notify(q)
    BY <2>5, <1>i DEF SetTransition, Invalidate, Notify, machineVars
  <2> QED
    BY <1>4, <2>1, <2>2, <2>3, <2>4, <2>5 DEF Handle
<1>5. \/ Machine \/ UNCHANGED <<task, rpc>>
      \/ \E q \in Requests : Admit(q) \/ Reject(q) \/ Handle(q)
  BY DEF Next, vars, Tick, Poll, CacheHit, BeginFetch, EndFetch, NoTransitionInForce,
     ConfirmTransition, AskForTask, ShowTransition, Reads, TaskFailed, TaskPending,
     LogTaskFailure, LogTaskFailureCancelled, ClearTransition, NotifyCleared, Arm, Connect,
     Wake, TickerFires, Leave, machineVars, requestVars
<1> QED
  BY <1>1, <1>2, <1>3, <1>4, <1>5

\* A poll reaches the log with a task that has failed.
LEMMA FailingPollStep ==
  ASSUME TypeInv, FailureInv, [Next]_vars, NEW c \in Clients, cpc'[c] = "log"
  PROVE  task'[tc'[c].task] = "failed"
<1>t. ClientsOK /\ Polling
  BY DEF TypeInv, TypeOK, WorkInv
<1>1. CASE cpc[c] = "log"
  <2>1. tc'[c] = tc[c]
    BY <1>1, <1>t DEF Next, vars, clientVars, Machine, JobSucceeds, JobFails, LinkDrops,
       LinkReturns, Tick, Admit, Reject, Handle, ResetAccepted, ResetAnswerLost, ResetFails,
       WakeSent, WakeFails, LogAction, LogActionCancelled, SetTransition, Invalidate, Notify,
       Poll, CacheHit, BeginFetch, EndFetch, NoTransitionInForce, ConfirmTransition,
       AskForTask, ShowTransition, Show, KeepTransition, TaskFailed, TaskPending,
       LogTaskFailure, LogTaskFailureCancelled, ClearTransition, NotifyCleared, Arm, Connect,
       Wake, TickerFires, Leave, GotoC, ClientsOK
  <2>2. tc[c].task \in Requests /\ task[tc[c].task] = "failed"
    BY <1>1, <1>t DEF Polling, FailureInv
  <2> QED
    BY <2>1, <2>2, TasksStep
<1>2. CASE cpc[c] # "log"
  <2>1. TaskFailed(c)
    BY <1>2, <1>t DEF Next, vars, clientVars, Machine, JobSucceeds, JobFails, LinkDrops,
       LinkReturns, Tick, Admit, Reject, Handle, ResetAccepted, ResetAnswerLost, ResetFails,
       WakeSent, WakeFails, LogAction, LogActionCancelled, SetTransition, Invalidate, Notify,
       Poll, CacheHit, BeginFetch, EndFetch, NoTransitionInForce, ConfirmTransition,
       AskForTask, ShowTransition, Show, TaskFailed, TaskPending, LogTaskFailure,
       LogTaskFailureCancelled, ClearTransition, NotifyCleared, Arm, Connect, Wake,
       TickerFires, Leave, GotoC, ClientsOK
  <2> QED
    BY <2>1 DEF TaskFailed, machineVars
<1> QED
  BY <1>1, <1>2

\* The log only grows.
LEMMA LogGrows ==
  ASSUME TypeInv, TypeInv', [Next]_vars
  PROVE  \/ UNCHANGED events
         \/ \E e \in Events :
              /\ Len(events') = Len(events) + 1
              /\ \A i \in DOMAIN events : events'[i] = events[i]
              /\ events'[Len(events) + 1] = e
              /\ \/ \E r \in Requests :
                      /\ LogAction(r)
                      /\ e = [about |-> r, by |-> r,
                              outcome |-> IF ok[r] THEN "sent" ELSE "failed"]
                 \/ \E c \in Clients :
                      /\ LogTaskFailure(c)
                      /\ e = [about |-> tc[c].task, by |-> tc[c].by,
                              outcome |-> "taskFailed"]
<1>t. events \in Seq(Events) /\ ClientsOK /\ Polling
  BY DEF TypeInv, TypeOK, WorkInv
<1>1. CASE \E r \in Requests : LogAction(r)
  <2>1. PICK r \in Requests : LogAction(r)
    BY <1>1
  <2> DEFINE e == [about |-> r, by |-> r, outcome |-> IF ok[r] THEN "sent" ELSE "failed"]
  <2>2. e \in Events /\ events' = Append(events, e)
    BY <2>1 DEF LogAction, Record, Events
  <2>3. /\ Len(events') = Len(events) + 1
        /\ \A i \in DOMAIN events : events'[i] = events[i]
        /\ events'[Len(events) + 1] = e
    BY <2>2, <1>t
  <2> QED
    BY <2>1, <2>2, <2>3
<1>2. CASE \E c \in Clients : LogTaskFailure(c)
  <2>1. PICK c \in Clients : LogTaskFailure(c)
    BY <1>2
  <2> DEFINE e == [about |-> tc[c].task, by |-> tc[c].by, outcome |-> "taskFailed"]
  <2>2. tc[c].task \in Requests /\ tc[c].by \in Requests \union {NoOne}
    BY <2>1, <1>t DEF LogTaskFailure, GotoC, Polling, ClientsOK, TransitionContexts
  <2>3. e \in Events /\ events' = Append(events, e)
    BY <2>1, <2>2 DEF LogTaskFailure, Record, Events
  <2>4. /\ Len(events') = Len(events) + 1
        /\ \A i \in DOMAIN events : events'[i] = events[i]
        /\ events'[Len(events) + 1] = e
    BY <2>3, <1>t
  <2> QED
    BY <2>1, <2>3, <2>4
<1>3. CASE /\ ~\E r \in Requests : LogAction(r)
           /\ ~\E c \in Clients : LogTaskFailure(c)
  <2>1. UNCHANGED events
    BY <1>3 DEF Next, Machine, JobSucceeds, JobFails, LinkDrops, LinkReturns, Tick, Admit,
       Reject, Handle, ResetAccepted, ResetAnswerLost, ResetFails, WakeSent, WakeFails,
       LogActionCancelled, SetTransition, Invalidate, Notify, Poll, CacheHit, BeginFetch,
       EndFetch, NoTransitionInForce, ConfirmTransition, AskForTask, ShowTransition, Reads,
       TaskFailed, TaskPending, LogTaskFailureCancelled, ClearTransition, NotifyCleared, Arm,
       Connect, Wake, TickerFires, Leave, vars
  <2> QED
    BY <2>1
<1> QED
  BY <1>1, <1>2, <1>3

\* An action that has reached setTransition is in the log, unless its browser
\* may have gone away.
LEMMA RecordedStep ==
  ASSUME TypeInv, TypeInv', FailureInv, [Next]_vars, NEW r \in Requests,
         rpc'[r] \in {"set"} \union Acted, ok'[r]
  PROVE  Recorded(r)'
<1>t. RequestsOK /\ events \in Seq(Events) /\ events' \in Seq(Events)
  BY DEF TypeInv, TypeOK
<1>g. ASSUME Recorded(r) PROVE Recorded(r)'
  <2>1. CASE UNCHANGED events
    BY <1>g, <2>1 DEF Recorded, Sent
  <2>2. CASE /\ Len(events') = Len(events) + 1
             /\ \A i \in DOMAIN events : events'[i] = events[i]
    <3>1. DOMAIN events \subseteq DOMAIN events'
      BY <1>t, <2>2
    <3> QED
      BY <1>g, <2>2, <3>1 DEF Recorded, Sent
  <2> QED
    BY <2>1, <2>2, LogGrows
<1>1. CASE rpc[r] \in {"set"} \union Acted /\ ok[r]
  BY <1>1, <1>g DEF FailureInv
<1>2. CASE LogActionCancelled(r)
  BY <1>2 DEF LogActionCancelled, Recorded
<1>3. CASE LogAction(r)
  <2>1. ok[r]
    BY <1>3 DEF LogAction, requestVars
  <2>2. events' = Append(events, Sent(r)) /\ Sent(r) \in Events
    BY <1>3, <2>1 DEF LogAction, Record, Sent, Events
  <2>3. Len(events) + 1 \in DOMAIN events' /\ events'[Len(events) + 1] = Sent(r)
    BY <2>2, <1>t
  <2> QED
    BY <2>3 DEF Recorded, Sent
<1>4. \/ rpc[r] \in {"set"} \union Acted /\ ok[r]
      \/ LogAction(r) \/ LogActionCancelled(r)
  <2>1. CASE UNCHANGED requestVars
    BY <2>1 DEF requestVars
  <2>2. CASE ~UNCHANGED requestVars
    <3>1. PICK q \in Requests : Admit(q) \/ Reject(q) \/ Handle(q)
      BY <2>2 DEF Next, vars, Machine, JobSucceeds, JobFails, LinkDrops, LinkReturns, Tick,
         Poll, CacheHit, BeginFetch, EndFetch, NoTransitionInForce, ConfirmTransition,
         AskForTask, ShowTransition, Reads, TaskFailed, TaskPending, LogTaskFailure,
         LogTaskFailureCancelled, ClearTransition, NotifyCleared, Arm, Connect, Wake,
         TickerFires, Leave
    <3> USE <1>t DEF GotoR, RequestsOK, Acted
    <3>2. CASE Admit(q) \/ Reject(q)
      BY <3>2 DEF Admit, Reject
    <3>3. CASE ResetAccepted(q) \/ ResetAnswerLost(q) \/ ResetFails(q)
      BY <3>3 DEF ResetAccepted, ResetAnswerLost, ResetFails, AfterCommand
    <3>4. CASE WakeSent(q) \/ WakeFails(q)
      BY <3>4 DEF WakeSent, WakeFails
    <3>5. CASE LogAction(q) \/ LogActionCancelled(q)
      BY <3>5 DEF LogAction, LogActionCancelled, AfterLog
    <3>6. CASE SetTransition(q) \/ Invalidate(q) \/ Notify(q)
      BY <3>6 DEF SetTransition, Invalidate, Notify
    <3> QED
      BY <3>1, <3>2, <3>3, <3>4, <3>5, <3>6 DEF Handle
  <2> QED
    BY <2>1, <2>2
<1> QED
  BY <1>1, <1>2, <1>3, <1>4

\* Each entry about a failed task is right when it is written and stays right.
LEMMA AttributedStep ==
  ASSUME TypeInv, TypeInv', CoherentInv, FailureInv, [Next]_vars
  PROVE  FailureAttributed'
<1>t. events \in Seq(Events) /\ events' \in Seq(Events)
  BY DEF TypeInv, TypeOK
\* The entries that were there.
<1>1. ASSUME NEW i \in DOMAIN events, i \in DOMAIN events', events[i].outcome = "taskFailed",
             \A j \in DOMAIN events : events'[j] = events[j]
      PROVE  LET r == events[i].about IN
             /\ events[i].by = r /\ task'[r] = "failed"
             /\ r \in Flaky \/ \E j \in 1 .. i - 1 : events'[j] = Sent(r)
  <2> DEFINE r == events[i].about
  <2>1. /\ events[i].by = r /\ task[r] = "failed"
        /\ r \in Flaky \/ \E j \in 1 .. i - 1 : events[j] = Sent(r)
    BY <1>1 DEF FailureInv, FailureAttributed
  <2>2. r \in Requests
    <3>1. events[i] \in Events
      BY <1>t
    <3> QED
      BY <3>1 DEF Events
  <2>3. task'[r] = "failed"
    BY <2>1, <2>2, TasksStep
  <2>4. \A j \in 1 .. i - 1 : j \in DOMAIN events
    BY <1>t
  <2> QED
    BY <2>1, <2>3, <2>4, <1>1
<1>2. CASE UNCHANGED events
  BY <1>1, <1>2 DEF FailureAttributed, Sent
\* The new entry, if it is about a failed task.
<1>3. ASSUME NEW c \in Clients, LogTaskFailure(c)
      PROVE  LET r == tc[c].task IN
             /\ r \in Requests /\ tc[c].by = r /\ task'[r] = "failed"
             /\ r \in Flaky \/ \E j \in DOMAIN events : events[j] = Sent(r)
  <2> DEFINE r == tc[c].task
  <2>1. cpc[c] = "log" /\ r \in Requests
    BY <1>3 DEF LogTaskFailure, GotoC, TypeInv, WorkInv, Polling
  <2>2. task'[r] = "failed"
    BY <2>1, TasksStep DEF FailureInv
  <2>3. r # NoOne
    BY <2>1, PanelAssumption
  <2>4. /\ tc[c].by = r /\ ok[r] /\ rpc[r] \in Acted
    BY <2>3 DEF CoherentInv, TransitionCoherent, FromOneRequest
  <2>5. Recorded(r)
    BY <2>1, <2>4 DEF FailureInv
  <2> QED
    BY <2>1, <2>2, <2>4, <2>5 DEF Recorded
<1>4. CASE ~UNCHANGED events
  <2>1. PICK e \in Events :
          /\ Len(events') = Len(events) + 1
          /\ \A i \in DOMAIN events : events'[i] = events[i]
          /\ events'[Len(events) + 1] = e
          /\ e.outcome = "taskFailed" =>
               \E c \in Clients :
                 /\ LogTaskFailure(c)
                 /\ e = [about |-> tc[c].task, by |-> tc[c].by, outcome |-> "taskFailed"]
    BY <1>4, LogGrows
  <2>2. DOMAIN events = 1 .. Len(events) /\ Len(events) \in Nat
        /\ DOMAIN events' = 1 .. Len(events) + 1
    BY <2>1, <1>t
  <2> SUFFICES ASSUME NEW i \in DOMAIN events', events'[i].outcome = "taskFailed"
               PROVE  LET r == events'[i].about IN
                      /\ events'[i].by = r /\ task'[r] = "failed"
                      /\ r \in Flaky \/ \E j \in 1 .. i - 1 : events'[j] = Sent(r)
    BY DEF FailureAttributed, Sent
  <2>3. CASE i \in DOMAIN events
    BY <2>1, <2>3, <1>1
  <2>4. CASE i = Len(events) + 1
    <3>1. PICK c \in Clients :
            /\ LogTaskFailure(c)
            /\ events'[i] = [about |-> tc[c].task, by |-> tc[c].by, outcome |-> "taskFailed"]
      BY <2>1, <2>4
    <3>2. i - 1 = Len(events)
      BY <2>2, <2>4
    <3> QED
      BY <3>1, <3>2, <2>1, <2>2, <1>3
  <2> QED
    BY <2>2, <2>3, <2>4
<1> QED
  BY <1>2, <1>4

LEMMA FailureStep == TypeInv /\ TypeInv' /\ CoherentInv /\ FailureInv /\ [Next]_vars => FailureInv'
<1> SUFFICES ASSUME TypeInv, TypeInv', CoherentInv, FailureInv, [Next]_vars PROVE FailureInv'
  OBVIOUS
<1>1. \A r \in Requests : rpc'[r] \in {"idle", "command", "rejected"} => task'[r] = "none"
  BY TasksStep
<1>2. \A r \in Requests : rpc'[r] \in {"set"} \union Acted /\ ok'[r] => Recorded(r)'
  BY RecordedStep
<1>3. \A c \in Clients : cpc'[c] = "log" => task'[tc'[c].task] = "failed"
  BY FailingPollStep
<1> QED
  BY <1>1, <1>2, <1>3, AttributedStep DEF FailureInv, Acted

\* Every failure in the audit log is a failure of the task it names, credited
\* to the user who asked for it, and comes after the record of the action.
THEOREM Attribution == Spec => []FailureAttributed
<1>1. FailureInv => FailureAttributed
  BY DEF FailureInv
<1> QED
  BY <1>1, TypeAlways, TypeStep, CoherentAlways, FailureInit, FailureStep, PTL DEF Spec
=============================================================================
