------------------------ MODULE PowerPanelLogProofs ------------------------
(***************************************************************************)
(* Proofs about PowerPanel: how often the failure of a task is logged, for *)
(* any finite number of browsers.                                          *)
(***************************************************************************)
EXTENDS PowerPanelProofs, FiniteSetTheorems

Failures(r) == {i \in DOMAIN events : events[i].outcome = "taskFailed" /\ events[i].about = r}

\* The polls that may still log the failure of r's task, and those that have
\* logged it, or found it confirmed, and have not cleared the transition yet.
Asking(r) == {c \in Clients : cpc[c] \in {"task", "log"} /\ tc[c].task = r}
Clearing(r) == {c \in Clients : cpc[c] = "clear" /\ tc[c].task = r}

\* Before r's transition is in force nobody logs; while it is, whoever has logged
\* is about to clear it; and it never comes back, so that from then on those who
\* have read it log at most once each.
CountInv == \A r \in Requests :
    /\ rpc[r] \notin Acted => Failures(r) = {}
    /\ transitionTask = r => Cardinality(Failures(r)) <= Cardinality(Clearing(r))
    /\ Cardinality(Failures(r)) + Cardinality(Asking(r)) <= Cardinality(Clients)

LEMMA FailuresFinite ==
  ASSUME events \in Seq(Events), NEW r
  PROVE  IsFiniteSet(Failures(r)) /\ Cardinality(Failures(r)) \in Nat
<1>1. Failures(r) \in SUBSET (1 .. Len(events)) /\ Len(events) \in Nat
  BY DEF Failures
<1>2. IsFiniteSet(1 .. Len(events))
  BY <1>1, FS_Interval
<1>3. IsFiniteSet(Failures(r))
  BY <1>1, <1>2, FS_Subset
<1> QED
  BY <1>3, FS_CardinalityType

LEMMA PollsFinite ==
  ASSUME NEW polls \in SUBSET Clients
  PROVE  IsFiniteSet(polls) /\ Cardinality(polls) \in Nat /\ Cardinality(polls) <= Cardinality(Clients)
<1>1. IsFiniteSet(polls) /\ Cardinality(polls) <= Cardinality(Clients)
  BY PanelAssumption, FS_Subset
<1> QED
  BY <1>1, FS_CardinalityType

\* Larger and smaller sets of polls.
LEMMA FewerPolls ==
  ASSUME NEW polls \in SUBSET Clients, NEW fewer \in SUBSET polls
  PROVE  Cardinality(fewer) <= Cardinality(polls)
  BY PollsFinite, FS_Subset

LEMMA OneMorePoll ==
  ASSUME NEW polls \in SUBSET Clients, NEW c \in Clients \ polls, NEW more \in SUBSET Clients,
         polls \union {c} \subseteq more
  PROVE  Cardinality(polls) + 1 <= Cardinality(more)
<1>1. Cardinality(polls \union {c}) = Cardinality(polls) + 1
  BY PollsFinite, FS_AddElement
<1>2. Cardinality(polls \union {c}) <= Cardinality(more)
  BY FewerPolls
<1> QED
  BY <1>1, <1>2

LEMMA DisjointPolls ==
  ASSUME NEW some \in SUBSET Clients, NEW others \in SUBSET Clients, some \intersect others = {}
  PROVE  Cardinality(some) + Cardinality(others) <= Cardinality(Clients)
<1>1. IsFiniteSet(some) /\ IsFiniteSet(others)
  BY PollsFinite
<1>2. Cardinality(some \union others)
        = Cardinality(some) + Cardinality(others) - Cardinality(some \intersect others)
  BY <1>1, FS_Union
<1>3. Cardinality(some \intersect others) = 0
  BY FS_EmptySet
<1>4. Cardinality(some \union others) <= Cardinality(Clients)
  BY PollsFinite
<1>5. Cardinality(some) \in Nat /\ Cardinality(others) \in Nat
  BY PollsFinite
<1> QED
  BY <1>2, <1>3, <1>4, <1>5

LEMMA CountInit == Init => CountInv
<1> SUFFICES ASSUME Init, NEW r \in Requests
             PROVE  /\ Failures(r) = {}
                    /\ transitionTask # r
                    /\ Cardinality(Failures(r)) + Cardinality(Asking(r)) <= Cardinality(Clients)
  BY DEF CountInv
<1>1. Failures(r) = {} /\ Asking(r) = {}
  BY DEF Init, Failures, Asking
<1>2. Cardinality(Failures(r)) = 0 /\ Cardinality(Asking(r)) = 0
  BY <1>1, FS_EmptySet
<1>3. Cardinality(Clients) \in Nat
  BY PollsFinite
<1> QED
  BY <1>1, <1>2, <1>3, PanelAssumption DEF Init

\* A poll begins to ask only while the transition is in force, and stops being about
\* to clear it only by clearing it.
LEMMA PollMoves ==
  ASSUME TypeInv, [Next]_vars, NEW c \in Clients, NEW r \in Requests
  PROVE  /\ cpc'[c] \in {"task", "log"} /\ tc'[c].task = r =>
              \/ cpc[c] \in {"task", "log"} /\ tc[c].task = r
              \/ cpc[c] = "transition" /\ transitionTask = r
         /\ cpc[c] = "clear" /\ tc[c].task = r =>
              \/ cpc'[c] = "clear" /\ tc'[c].task = r
              \/ transitionTask' = NoOne
<1> DEFINE Asks == cpc'[c] \in {"task", "log"} /\ tc'[c].task = r =>
                     \/ cpc[c] \in {"task", "log"} /\ tc[c].task = r
                     \/ cpc[c] = "transition" /\ transitionTask = r
           Clears == cpc[c] = "clear" /\ tc[c].task = r =>
                       \/ cpc'[c] = "clear" /\ tc'[c].task = r
                       \/ transitionTask' = NoOne
<1>t. ClientsOK
  BY DEF TypeInv, TypeOK
<1>1. CASE UNCHANGED <<cpc, tc>>
  BY <1>1
<1>2. ASSUME NEW d \in Clients, Connect(d) \/ Wake(d) \/ TickerFires(d) \/ Leave(d)
      PROVE  Asks /\ Clears
  BY <1>2, <1>t DEF Connect, Wake, TickerFires, Leave, GotoC, ClientsOK
<1>3. ASSUME NEW d \in Clients, Poll(d) PROVE Asks /\ Clears
  <2> USE <1>t DEF GotoC, ClientsOK
  <2>1. CASE CacheHit(d) \/ BeginFetch(d) \/ EndFetch(d) \/ Arm(d)
    BY <2>1 DEF CacheHit, BeginFetch, EndFetch, Arm
  <2>2. CASE NoTransitionInForce(d) \/ ShowTransition(d) \/ TaskPending(d) \/ NotifyCleared(d)
    BY <2>2 DEF NoTransitionInForce, ShowTransition, TaskPending, NotifyCleared, Show
  <2>3. CASE ConfirmTransition(d) \/ AskForTask(d)
    BY <2>3 DEF ConfirmTransition, AskForTask, KeepTransition
  <2>4. CASE TaskFailed(d) \/ LogTaskFailure(d) \/ LogTaskFailureCancelled(d)
    BY <2>4 DEF TaskFailed, LogTaskFailure, LogTaskFailureCancelled
  <2>5. CASE ClearTransition(d)
    BY <2>5 DEF ClearTransition, DropTransition
  <2> QED
    BY <1>3, <2>1, <2>2, <2>3, <2>4, <2>5 DEF Poll
<1> QED
  BY <1>1, <1>2, <1>3 DEF Next, Machine, JobSucceeds, JobFails, LinkDrops, LinkReturns, Tick,
     Admit, Reject, Handle, ResetAccepted, ResetAnswerLost, ResetFails, WakeSent, WakeFails,
     LogAction, LogActionCancelled, SetTransition, Invalidate, Notify, clientVars, vars

\* A transition comes into force once, by its own request.
LEMMA InForce ==
  ASSUME TypeInv, [Next]_vars, NEW r \in Requests, transitionTask' = r
  PROVE  transitionTask = r \/ rpc[r] = "set"
<1>1. CASE UNCHANGED transitionTask
  BY <1>1
<1>2. ASSUME NEW q \in Requests, SetTransition(q) PROVE rpc[r] = "set"
  BY <1>2, PanelAssumption DEF SetTransition, GotoR
<1>3. CASE DropTransition
  BY <1>3, PanelAssumption DEF DropTransition
<1> QED
  BY <1>1, <1>2, <1>3 DEF Next, Machine, JobSucceeds, JobFails, LinkDrops, LinkReturns, Tick,
     Admit, Reject, Handle, ResetAccepted, ResetAnswerLost, ResetFails, WakeSent, WakeFails,
     LogAction, LogActionCancelled, Invalidate, Notify, Poll, CacheHit, BeginFetch, EndFetch,
     NoTransitionInForce, ConfirmTransition, AskForTask, ShowTransition, Reads, TaskFailed,
     TaskPending, LogTaskFailure, LogTaskFailureCancelled, ClearTransition, NotifyCleared, Arm,
     Connect, Wake, TickerFires, Leave, transitionVars, vars

\* Where no failure of r's task is logged, fewer polls may still log one, unless its
\* transition is in force.
LEMMA CountKept ==
  ASSUME TypeInv, CountInv, [Next]_vars, NEW r \in Requests, Failures(r)' = Failures(r)
  PROVE  /\ rpc'[r] \notin Acted => Failures(r)' = {}
         /\ transitionTask' = r => Cardinality(Failures(r)') <= Cardinality(Clearing(r)')
         /\ Cardinality(Failures(r)') + Cardinality(Asking(r)') <= Cardinality(Clients)
<1> DEFINE n == Cardinality(Failures(r))
<1>n. n \in Nat /\ Cardinality(Clients) \in Nat
  BY FailuresFinite, PollsFinite DEF TypeInv, TypeOK
<1>s. Asking(r) \in SUBSET Clients /\ Asking(r)' \in SUBSET Clients
      /\ Clearing(r) \in SUBSET Clients /\ Clearing(r)' \in SUBSET Clients
  BY DEF Asking, Clearing
<1>c. /\ Cardinality(Asking(r)) \in Nat /\ Cardinality(Asking(r)') \in Nat
      /\ Cardinality(Clearing(r)) \in Nat /\ Cardinality(Clearing(r)') \in Nat
  BY <1>s, PollsFinite
<1>1. rpc'[r] \notin Acted => Failures(r)' = {}
  BY ActedStays DEF CountInv
<1>2. ASSUME transitionTask' = r PROVE n <= Cardinality(Clearing(r)')
  <2>1. CASE transitionTask = r
    <3>1. Clearing(r) \in SUBSET Clearing(r)'
      BY <1>2, PollMoves, PanelAssumption DEF Clearing
    <3>2. Cardinality(Clearing(r)) <= Cardinality(Clearing(r)')
      BY <1>s, <3>1, FewerPolls
    <3>3. n <= Cardinality(Clearing(r))
      BY <2>1 DEF CountInv
    <3> QED
      BY <1>n, <1>c, <3>2, <3>3
  <2>2. CASE rpc[r] = "set"
    <3>1. Failures(r) = {}
      BY <2>2 DEF CountInv, Acted
    <3>2. n = 0
      BY <3>1, FS_EmptySet
    <3> QED
      BY <1>c, <3>2
  <2> QED
    BY <1>2, <2>1, <2>2, InForce
<1>3. n + Cardinality(Asking(r)') <= Cardinality(Clients)
  <2>1. CASE Asking(r)' \subseteq Asking(r)
    <3>1. Cardinality(Asking(r)') <= Cardinality(Asking(r))
      BY <1>s, <2>1, FewerPolls
    <3>2. n + Cardinality(Asking(r)) <= Cardinality(Clients)
      BY DEF CountInv
    <3> QED
      BY <1>n, <1>c, <3>1, <3>2
  <2>2. ASSUME NEW c \in Asking(r)', c \notin Asking(r)
        PROVE  n + Cardinality(Asking(r)') <= Cardinality(Clients)
    <3>1. transitionTask = r
      BY <2>2, PollMoves DEF Asking
    <3>2. Asking(r)' \intersect Clearing(r) = {}
      BY PollMoves DEF Asking, Clearing
    <3>3. Cardinality(Asking(r)') + Cardinality(Clearing(r)) <= Cardinality(Clients)
      BY <1>s, <3>2, DisjointPolls
    <3>4. n <= Cardinality(Clearing(r))
      BY <3>1 DEF CountInv
    <3> QED
      BY <1>n, <1>c, <3>3, <3>4
  <2> QED
    BY <2>1, <2>2
<1> HIDE DEF n
<1>4. Cardinality(Failures(r)') = n
  BY DEF n
<1> QED
  BY <1>1, <1>2, <1>3, <1>4

\* The poll that logs a failure is then about to clear its transition.
LEMMA CountLogged ==
  ASSUME TypeInv, TypeInv', CoherentInv, CountInv, [Next]_vars, NEW c \in Clients,
         LogTaskFailure(c), NEW r \in Requests, tc[c].task = r
  PROVE  /\ rpc'[r] \in Acted
         /\ transitionTask' = r => Cardinality(Failures(r)') <= Cardinality(Clearing(r)')
         /\ Cardinality(Failures(r)') + Cardinality(Asking(r)') <= Cardinality(Clients)
<1> DEFINE n == Cardinality(Failures(r))
<1>t. ClientsOK /\ events \in Seq(Events) /\ events' \in Seq(Events)
  BY DEF TypeInv, TypeOK
<1>n. n \in Nat /\ Cardinality(Clients) \in Nat
  BY <1>t, FailuresFinite, PollsFinite
<1>s. Asking(r) \in SUBSET Clients /\ Asking(r)' \in SUBSET Clients
      /\ Clearing(r) \in SUBSET Clients /\ Clearing(r)' \in SUBSET Clients
  BY DEF Asking, Clearing
<1>c. /\ Cardinality(Asking(r)) \in Nat /\ Cardinality(Asking(r)') \in Nat
      /\ Cardinality(Clearing(r)) \in Nat /\ Cardinality(Clearing(r)') \in Nat
  BY <1>s, PollsFinite
<1>1. /\ cpc[c] = "log" /\ cpc' = [cpc EXCEPT ![c] = "clear"] /\ tc' = tc
      /\ transitionTask' = transitionTask
      /\ events' = Append(events, [about |-> r, by |-> tc[c].by, outcome |-> "taskFailed"])
  BY DEF LogTaskFailure, GotoC, Record, transitionVars
<1>2. rpc'[r] \in Acted
  <2>1. r # NoOne
    BY PanelAssumption
  <2>2. tc[c].by = r /\ rpc[r] \in Acted
    BY <2>1 DEF CoherentInv, TransitionCoherent, FromOneRequest
  <2> QED
    BY <2>2, ActedStays
<1>3. Cardinality(Failures(r)') = n + 1
  <2> DEFINE new == Len(events) + 1
             old == Failures(r)
  <2>1. /\ DOMAIN events' = DOMAIN events \union {new} /\ new \notin DOMAIN events
        /\ \A i \in DOMAIN events : events'[i] = events[i]
        /\ events'[new].about = r /\ events'[new].outcome = "taskFailed"
    <3>1. [about |-> r, by |-> tc[c].by, outcome |-> "taskFailed"] = events'[new]
      BY <1>1, <1>t
    <3>2. Len(events') = new /\ Len(events) \in Nat
      BY <1>1, <1>t
    <3>3. DOMAIN events = 1 .. Len(events) /\ DOMAIN events' = 1 .. new
      BY <1>t, <3>2
    <3>4. \A i \in DOMAIN events : events'[i] = events[i]
      BY <1>1, <1>t
    <3>5. DOMAIN events' = DOMAIN events \union {new} /\ new \notin DOMAIN events
      BY <3>2, <3>3
    <3> QED
      BY <3>1, <3>4, <3>5
  <2>2. Failures(r)' = old \union {new} /\ new \notin old
    BY <2>1 DEF Failures
  <2>3. IsFiniteSet(old)
    BY <1>t, FailuresFinite
  <2> HIDE DEF new, old
  <2>4. Cardinality(old \union {new}) = Cardinality(old) + 1
    BY <2>2, <2>3, FS_AddElement
  <2> QED
    BY <2>2, <2>4 DEF old
<1>4. Cardinality(Asking(r)') + 1 <= Cardinality(Asking(r))
  <2>1. c \notin Asking(r)' /\ Asking(r)' \union {c} \subseteq Asking(r)
    BY <1>1, <1>t DEF Asking, ClientsOK
  <2> QED
    BY <1>s, <2>1, OneMorePoll
<1>5. Cardinality(Clearing(r)) + 1 <= Cardinality(Clearing(r)')
  <2>1. c \notin Clearing(r) /\ Clearing(r) \union {c} \subseteq Clearing(r)'
    BY <1>1, <1>t DEF Clearing, ClientsOK
  <2> QED
    BY <1>s, <2>1, OneMorePoll
<1>6. /\ transitionTask = r => n <= Cardinality(Clearing(r))
      /\ n + Cardinality(Asking(r)) <= Cardinality(Clients)
  BY DEF CountInv
<1> HIDE DEF n
<1>7. transitionTask' = r => n + 1 <= Cardinality(Clearing(r)')
  BY <1>1, <1>5, <1>6, <1>n, <1>c
<1>8. n + 1 + Cardinality(Asking(r)') <= Cardinality(Clients)
  BY <1>4, <1>6, <1>n, <1>c
<1> QED
  BY <1>2, <1>3, <1>7, <1>8

\* Nothing else adds to the failures of r's task.
LEMMA OthersLogged ==
  ASSUME TypeInv, TypeInv', [Next]_vars, NEW r \in Requests,
         \A c \in Clients : LogTaskFailure(c) => tc[c].task # r
  PROVE  Failures(r)' = Failures(r)
<1>t. events \in Seq(Events) /\ events' \in Seq(Events)
  BY DEF TypeInv, TypeOK
<1>1. CASE UNCHANGED events
  BY <1>1 DEF Failures
<1>2. CASE ~UNCHANGED events
  <2>1. PICK e \in Events :
          /\ Len(events') = Len(events) + 1
          /\ \A i \in DOMAIN events : events'[i] = events[i]
          /\ events'[Len(events) + 1] = e
          /\ ~(e.outcome = "taskFailed" /\ e.about = r)
    BY <1>2, LogGrows
  <2>2. DOMAIN events' = DOMAIN events \union {Len(events) + 1}
    BY <2>1, <1>t
  <2> QED
    BY <2>1, <2>2 DEF Failures
<1> QED
  BY <1>1, <1>2

LEMMA CountStep == TypeInv /\ TypeInv' /\ CoherentInv /\ CountInv /\ [Next]_vars => CountInv'
<1> SUFFICES ASSUME TypeInv, TypeInv', CoherentInv, CountInv, [Next]_vars, NEW r \in Requests
             PROVE  /\ rpc'[r] \notin Acted => Failures(r)' = {}
                    /\ transitionTask' = r => Cardinality(Failures(r)') <= Cardinality(Clearing(r)')
                    /\ Cardinality(Failures(r)') + Cardinality(Asking(r)') <= Cardinality(Clients)
  BY DEF CountInv
<1>1. CASE \E c \in Clients : LogTaskFailure(c) /\ tc[c].task = r
  BY <1>1, CountLogged
<1>2. CASE \A c \in Clients : LogTaskFailure(c) => tc[c].task # r
  BY <1>2, OthersLogged, CountKept
<1> QED
  BY <1>1, <1>2

LEMMA CountAlways == Spec => []CountInv
  BY TypeAlways, CoherentAlways, CountInit, CountStep, PTL DEF Spec

\* Polls of two browsers may both find the task of an action failed and log it, but
\* no browser does so twice, however often it is woken, connects again or times out:
\* the failure of one task has at most as many entries as there are browsers.
THEOREM OncePerBrowser == Spec => []FailureLoggedOncePerBrowser
<1>1. TypeInv /\ CountInv => FailureLoggedOncePerBrowser
  <2> SUFFICES ASSUME TypeInv, CountInv, NEW r \in Requests
               PROVE  Cardinality(Failures(r)) <= Cardinality(Clients)
    BY DEF FailureLoggedOncePerBrowser, Failures
  <2>1. Cardinality(Failures(r)) \in Nat /\ Cardinality(Clients) \in Nat
    BY FailuresFinite, PollsFinite DEF TypeInv, TypeOK
  <2>2. Asking(r) \in SUBSET Clients
    BY DEF Asking
  <2>3. Cardinality(Asking(r)) \in Nat
    BY <2>2, PollsFinite
  <2> QED
    BY <2>1, <2>3 DEF CountInv
<1> QED
  BY <1>1, TypeAlways, CountAlways, PTL
=============================================================================
