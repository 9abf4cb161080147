---------------------- MODULE PowerPanelHistoryProofs ----------------------
(***************************************************************************)
(* Proofs about PowerPanelHistory, for any browsers, requests and limits:  *)
(* what the cache knows of the actions that have invalidated it.           *)
(***************************************************************************)
EXTENDS PowerPanelHistory, PowerPanelProofs

\* A command that succeeded has been sent; only the poll that fetches holds the
\* cache; and whatever is fetched after an Invalidate, or is still fresh after
\* it, was read after the command.
KnowInv ==
    /\ \A r \in Requests : ok[r] => r \in reached
    /\ \A c \in Clients : cpc[c] = "fetch" => cacheLock = c
    /\ \A r \in Requests : rpc[r] \in {"notify", "done"} /\ ok[r] =>
         (cacheAge < PollInterval \/ cacheLock # NoOne => r \in cacheKnows)

LEMMA KnowInit == InitH => TypeInv /\ KnowInv
<1>1. Init => KnowInv
  BY DEF Init, KnowInv
<1> QED
  BY <1>1, TypeInit DEF InitH

\* A command that succeeds has been sent.
LEMMA OkIsSent ==
  ASSUME TypeInv, Next, NEW r \in Requests, ok'[r], ~ok[r]
  PROVE  Sends(r)
<1>t. RequestsOK
  BY DEF TypeInv, TypeOK
<1>1. PICK q \in Requests : ResetAccepted(q) \/ WakeSent(q)
  BY DEF Next, Machine, JobSucceeds, JobFails, LinkDrops, LinkReturns, Tick, Admit, Reject,
     Handle, ResetAnswerLost, ResetFails, WakeFails, LogAction, LogActionCancelled,
     SetTransition, Invalidate, Notify, Poll, CacheHit, BeginFetch, EndFetch,
     NoTransitionInForce, ConfirmTransition, AskForTask, ShowTransition, Reads, TaskFailed,
     TaskPending, LogTaskFailure, LogTaskFailureCancelled, ClearTransition, NotifyCleared, Arm,
     Connect, Wake, TickerFires, Leave, requestVars
<1>2. q = r
  BY <1>1, <1>t DEF ResetAccepted, WakeSent, RequestsOK
<1>3. CASE ResetAccepted(r)
  BY <1>3, <1>t DEF ResetAccepted, AfterCommand, StartJob, GotoR, RequestsOK, Sends
<1>4. CASE WakeSent(r)
  BY <1>4, <1>t DEF WakeSent, GotoR, RequestsOK, Sends
<1> QED
  BY <1>1, <1>2, <1>3, <1>4

LEMMA SentStep ==
  ASSUME TypeInv, KnowInv, NextH, NEW r \in Requests, ok'[r]
  PROVE  r \in reached'
<1>1. reached' = reached \union {q \in Requests : Sends(q)}
  BY DEF NextH, HistoryStep
<1> QED
  BY <1>1, OkIsSent DEF KnowInv, NextH

\* The steps of the polls to and from a fetch.
LEMMA FetchSteps ==
  ASSUME TypeInv, Next
  PROVE  \/ \E d \in Clients : BeginFetch(d) \/ EndFetch(d)
         \/ /\ cacheLock' = cacheLock
            /\ \A c \in Clients : cpc'[c] = "fetch" => cpc[c] = "fetch"
<1>t. ClientsOK
  BY DEF TypeInv, TypeOK
<1>1. CASE UNCHANGED <<cacheLock, cpc>>
  BY <1>1
<1>2. ASSUME NEW d \in Clients, Connect(d) \/ Wake(d) \/ TickerFires(d) \/ Leave(d)
      PROVE  /\ cacheLock' = cacheLock
             /\ \A c \in Clients : cpc'[c] = "fetch" => cpc[c] = "fetch"
  BY <1>2, <1>t DEF Connect, Wake, TickerFires, Leave, GotoC, cacheVars, ClientsOK
<1>3. ASSUME NEW d \in Clients, Poll(d), ~BeginFetch(d), ~EndFetch(d)
      PROVE  /\ cacheLock' = cacheLock
             /\ \A c \in Clients : cpc'[c] = "fetch" => cpc[c] = "fetch"
  BY <1>3, <1>t DEF Poll, CacheHit, NoTransitionInForce, ConfirmTransition, AskForTask,
     ShowTransition, Show, Reads, TaskFailed, TaskPending, LogTaskFailure,
     LogTaskFailureCancelled, ClearTransition, NotifyCleared, Arm, GotoC, cacheVars, ClientsOK
<1> QED
  BY <1>1, <1>2, <1>3 DEF Next, Machine, JobSucceeds, JobFails, LinkDrops, LinkReturns, Tick,
     Admit, Reject, Handle, ResetAccepted, ResetAnswerLost, ResetFails, WakeSent, WakeFails,
     LogAction, LogActionCancelled, SetTransition, Invalidate, Notify, cacheVars, clientVars

LEMMA LockStep ==
  ASSUME TypeInv, KnowInv, Next, NEW c \in Clients, cpc'[c] = "fetch"
  PROVE  cacheLock' = c
<1>t. ClientsOK
  BY DEF TypeInv, TypeOK
<1>1. ASSUME NEW d \in Clients, BeginFetch(d) PROVE cacheLock' = c
  <2>1. cacheLock = NoOne /\ cacheLock' = d /\ cpc' = [cpc EXCEPT ![d] = "fetch"]
    BY <1>1 DEF BeginFetch, GotoC
  <2>2. c = d
    BY <2>1, <1>t, PanelAssumption DEF KnowInv, ClientsOK
  <2> QED
    BY <2>1, <2>2
<1>2. ASSUME NEW d \in Clients, EndFetch(d) PROVE FALSE
  <2>1. cpc[d] = "fetch" /\ cpc' = [cpc EXCEPT ![d] = "transition"]
    BY <1>2 DEF EndFetch, GotoC
  <2>2. c # d /\ cpc[c] = "fetch"
    BY <2>1, <1>t DEF ClientsOK
  <2> QED
    BY <2>1, <2>2 DEF KnowInv
<1> QED
  BY <1>1, <1>2, FetchSteps DEF KnowInv

\* Only BeginFetch changes what the cache knows, ...
LEMMA CacheLearns ==
  ASSUME TypeInv, NextH, cacheKnows' # cacheKnows
  PROVE  \E d \in Clients : BeginFetch(d)
<1>t. ClientsOK
  BY DEF TypeInv, TypeOK
<1>1. PICK c \in Clients : cpc[c] = "poll" /\ cpc'[c] = "fetch"
  BY DEF NextH, HistoryStep, Moves
<1>2. ASSUME NEW d \in Clients, EndFetch(d) PROVE FALSE
  BY <1>1, <1>2, <1>t DEF EndFetch, GotoC, ClientsOK
<1> QED
  BY <1>1, <1>2, FetchSteps DEF NextH

\* ... and the handler of a success is past Invalidate only by its own step.
LEMMA InvalidateFirst ==
  ASSUME TypeInv, Next, NEW r \in Requests, rpc'[r] \in {"notify", "done"}, ok'[r]
  PROVE  (rpc[r] \in {"notify", "done"} /\ ok[r]) \/ Invalidate(r)
<1>t. RequestsOK
  BY DEF TypeInv, TypeOK
<1>1. CASE UNCHANGED requestVars
  BY <1>1 DEF requestVars
<1>2. ASSUME NEW q \in Requests, Admit(q) \/ Reject(q)
      PROVE  rpc[r] \in {"notify", "done"} /\ ok[r]
  BY <1>2, <1>t DEF Admit, Reject, GotoR, RequestsOK
<1>3. ASSUME NEW q \in Requests, Handle(q)
      PROVE  (rpc[r] \in {"notify", "done"} /\ ok[r]) \/ Invalidate(r)
  <2> USE <1>t DEF GotoR, RequestsOK
  <2>1. CASE ResetAccepted(q) \/ ResetAnswerLost(q) \/ ResetFails(q)
    BY <2>1 DEF ResetAccepted, ResetAnswerLost, ResetFails, AfterCommand
  <2>2. CASE WakeSent(q) \/ WakeFails(q)
    BY <2>2 DEF WakeSent, WakeFails
  <2>3. CASE LogAction(q) \/ LogActionCancelled(q)
    BY <2>3 DEF LogAction, LogActionCancelled, AfterLog
  <2>4. CASE SetTransition(q) \/ Notify(q)
    BY <2>4 DEF SetTransition, Notify
  <2>5. CASE Invalidate(q)
    <3>1. CASE q = r
      BY <2>5, <3>1
    <3>2. CASE q # r
      BY <2>5, <3>2 DEF Invalidate
    <3> QED
      BY <3>1, <3>2
  <2> QED
    BY <1>3, <2>1, <2>2, <2>3, <2>4, <2>5 DEF Handle
<1> QED
  BY <1>1, <1>2, <1>3 DEF Next, Machine, JobSucceeds, JobFails, LinkDrops, LinkReturns, Tick,
     Poll, CacheHit, BeginFetch, EndFetch, NoTransitionInForce, ConfirmTransition, AskForTask,
     ShowTransition, Reads, TaskFailed, TaskPending, LogTaskFailure, LogTaskFailureCancelled,
     ClearTransition, NotifyCleared, Arm, Connect, Wake, TickerFires, Leave

LEMMA FreshStep ==
  ASSUME TypeInv, KnowInv, NextH, NEW r \in Requests, rpc'[r] \in {"notify", "done"}, ok'[r],
         cacheAge' < PollInterval \/ cacheLock' # NoOne
  PROVE  r \in cacheKnows'
<1>t. CacheOK /\ PollInterval \in Nat \ {0}
  BY PanelAssumption DEF TypeInv, TypeOK
<1>n. Next
  BY DEF NextH
<1>1. CASE Invalidate(r)
  <2>1. cacheAge' = PollInterval /\ cacheLock' = NoOne
    BY <1>1 DEF Invalidate
  <2> QED
    BY <2>1, <1>t
<1>2. CASE rpc[r] \in {"notify", "done"} /\ ok[r]
  <2>1. ASSUME NEW d \in Clients, BeginFetch(d) PROVE r \in cacheKnows'
    <3>1. cpc[d] = "poll" /\ cpc'[d] = "fetch"
      BY <2>1 DEF BeginFetch, GotoC, TypeInv, TypeOK, ClientsOK
    <3>2. cacheKnows' = reached
      BY <3>1 DEF NextH, HistoryStep, Moves
    <3> QED
      BY <1>2, <3>2 DEF KnowInv
  <2>2. CASE ~\E d \in Clients : BeginFetch(d)
    <3>1. cacheKnows' = cacheKnows
      BY <2>2, CacheLearns
    <3>2. ASSUME NEW d \in Clients, EndFetch(d) PROVE cacheLock # NoOne
      BY <3>2, PanelAssumption DEF EndFetch, GotoC, KnowInv
    <3>3. ASSUME Tick
          PROVE  cacheAge < PollInterval \/ cacheLock # NoOne
      BY <1>t, <3>3 DEF Tick, AtMost, CacheOK
    <3>4. ASSUME NEW q \in Requests, Invalidate(q)
          PROVE  cacheAge < PollInterval \/ cacheLock # NoOne
      BY <1>t, <3>4 DEF Invalidate
    <3>5. ASSUME ~Tick, ~\E q \in Requests : Invalidate(q), ~\E d \in Clients : EndFetch(d)
          PROVE  cacheAge < PollInterval \/ cacheLock # NoOne
      BY <1>n, <2>2, <3>5 DEF Next, Machine, JobSucceeds, JobFails, LinkDrops, LinkReturns,
         Admit, Reject, Handle, ResetAccepted, ResetAnswerLost, ResetFails, WakeSent, WakeFails,
         LogAction, LogActionCancelled, SetTransition, Notify, Poll, CacheHit,
         NoTransitionInForce, ConfirmTransition, AskForTask, ShowTransition, Reads, TaskFailed,
         TaskPending, LogTaskFailure, LogTaskFailureCancelled, ClearTransition, NotifyCleared,
         Arm, Connect, Wake, TickerFires, Leave, cacheVars
    <3>6. cacheAge < PollInterval \/ cacheLock # NoOne
      BY <3>2, <3>3, <3>4, <3>5
    <3> QED
      BY <1>2, <3>1, <3>6 DEF KnowInv
  <2> QED
    BY <2>1, <2>2
<1> QED
  BY <1>1, <1>2, <1>n, InvalidateFirst

LEMMA KnowStep == TypeInv /\ KnowInv /\ [NextH]_<<vars, historyVars>> => TypeInv' /\ KnowInv'
<1> SUFFICES ASSUME TypeInv, KnowInv, [NextH]_<<vars, historyVars>> PROVE TypeInv' /\ KnowInv'
  OBVIOUS
<1>1. [Next]_vars
  BY DEF NextH
<1>2. TypeInv'
  BY <1>1, TypeStep
<1>3. ASSUME NextH PROVE KnowInv'
  BY <1>3, SentStep, LockStep, FreshStep DEF KnowInv, NextH
<1>4. ASSUME UNCHANGED <<vars, historyVars>> PROVE KnowInv'
  BY <1>4 DEF vars, historyVars, requestVars, clientVars, cacheVars, KnowInv
<1> QED
  BY <1>2, <1>3, <1>4

\* Once an action has invalidated the cache, what any browser may still be shown as
\* fresh was read after the action's command, whatever polls and other actions
\* share the cache: a fetch in flight delays Invalidate and cannot outlive it.
THEOREM Fresh == SpecH => []FreshAfterAction
<1>1. KnowInv => FreshAfterAction
  BY DEF KnowInv, FreshAfterAction
<1> QED
  BY <1>1, KnowInit, KnowStep, PTL DEF SpecH
=============================================================================
