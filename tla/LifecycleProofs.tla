--------------------------- MODULE LifecycleProofs ---------------------------
(***************************************************************************)
(* Proofs about Lifecycle, for any requests and devices, any table left by *)
(* earlier runs and any signals, crashes and failures of the disk: type    *)
(* correctness, attribution of requests, exact retention, true rows, no    *)
(* action lost but those cut off or hit, and the activity log a browser    *)
(* sees.                                                                   *)
(***************************************************************************)
EXTENDS Lifecycle, FiniteSetTheorems, TLAPS

-----------------------------------------------------------------------------
(* Retention *)

LEMMA DivBounds ==
  ASSUME NEW a \in Int, NEW d \in Nat \ {0}
  PROVE  a \div d \in Int /\ d * (a \div d) <= a /\ a < d * (a \div d) + d
  OBVIOUS

LEMMA DivMonotone ==
  ASSUME NEW a \in Int, NEW b \in Int, NEW d \in Nat \ {0}, a <= b
  PROVE  a \div d <= b \div d
  OBVIOUS

\* Comparing dates expires nothing that is not a year old, ...
LEMMA ExpiredIsOld ==
  ASSUME NEW ts \in Nat, now \in Nat, Expired(ts)
  PROVE  now - ts > Year
<1>1. now - Year \in Int /\ Day \in Nat \ {0} /\ Year \in Nat
  BY AuditLogAssumption
<1>2. CASE now - Year <= ts
  <2>1. (now - Year) \div Day <= ts \div Day
    BY <1>1, <1>2, DivMonotone
  <2>2. (now - Year) \div Day \in Int /\ ts \div Day \in Int
    BY <1>1, DivBounds
  <2> QED
    BY <2>1, <2>2 DEF Expired
<1> QED
  BY <1>1, <1>2

\* ... keeps nothing that is older by a day, ...
LEMMA KeptIsYoung ==
  ASSUME NEW ts \in Nat, now \in Nat, ~Expired(ts)
  PROVE  now - ts < Year + Day
<1>1. now - Year \in Int /\ Day \in Nat \ {0} /\ Year \in Nat
  BY AuditLogAssumption
<1> DEFINE p == (now - Year) \div Day
           q == ts \div Day
<1>2. /\ p \in Int /\ now - Year < Day * p + Day
      /\ q \in Int /\ Day * q <= ts
  BY <1>1, DivBounds
<1>3. p <= q
  BY <1>2 DEF Expired
<1> HIDE DEF p, q
<1>4. Day * p <= Day * q
  BY <1>1, <1>2, <1>3
<1>5. Day * p \in Int /\ Day * q \in Int
  BY <1>1, <1>2
<1> QED
  BY <1>1, <1>2, <1>4, <1>5

\* ... and never keeps a row while it drops a later one.
LEMMA OlderExpiresFirst ==
  ASSUME NEW ts \in Nat, NEW us \in Nat, now \in Nat, ts <= us, Expired(us)
  PROVE  Expired(ts)
<1>1. now - Year \in Int /\ Day \in Nat \ {0}
  BY AuditLogAssumption
<1>2. ts \div Day <= us \div Day
  BY <1>1, DivMonotone
<1>3. ts \div Day \in Int /\ us \div Day \in Int /\ (now - Year) \div Day \in Int
  BY <1>1, DivBounds
<1> QED
  BY <1>2, <1>3 DEF Expired

-----------------------------------------------------------------------------
(* Attribution *)

\* tailscaled never names somebody else.
LEMMA WhoIsTrue ==
  ASSUME NEW addr, NEW answers \in BOOLEAN, WhoIs(addr, answers) # NotGiven
  PROVE  addr \in DOMAIN Node /\ WhoIs(addr, answers) = Owner(addr)
  BY DEF WhoIs, Owner

\* Through Serve or directly, with whatever header and whether tailscaled answers
\* or not, a request is credited to the owner of the device it comes from or to
\* nobody.
THEOREM Credited ==
  ASSUME NEW origin \in Origins, NEW answers \in BOOLEAN
  PROVE  UserOf(origin.request, answers) \in {Owner(origin.from), Unknown}
<1> DEFINE req == origin.request
           from == origin.from
           login == tailscaleUser(req, answers)
<1>a. from \in DOMAIN Node /\ from # Loopback /\ Loopback \notin DOMAIN Node
  BY LifecycleAssumption, NodeAssumption
<1>1. login \in {Owner(from), NotGiven}
  <2>1. CASE req = Served(from)
    <3>1. /\ req.addr = Loopback /\ req.forwarded = from
          /\ req.header = IF Tagged(from) THEN NotGiven ELSE Node[from].login
      BY <2>1 DEF Served
    <3>2. CASE req.header # NotGiven
      <4>1. login = Node[from].login /\ ~Tagged(from)
        BY <3>1, <3>2 DEF tailscaleUser
      <4> QED
        BY <4>1 DEF Owner
    <3>3. CASE req.header = NotGiven
      <4>1. login \in {WhoIs(from, answers), WhoIs(Loopback, answers)}
        BY <3>1, <3>3 DEF tailscaleUser
      <4> QED
        BY <4>1, <1>a, WhoIsTrue
    <3> QED
      BY <3>2, <3>3
  <2>2. CASE req = Direct(from, req.header)
    <3>1. req.addr = from
      BY <2>2 DEF Direct
    <3>2. login = WhoIs(from, answers)
      BY <3>1, <1>a DEF tailscaleUser
    <3> QED
      BY <3>2, WhoIsTrue
  <2> QED
    BY <2>1, <2>2, LifecycleAssumption
<1>2. UserOf(req, answers) = IF login = NotGiven THEN Unknown ELSE login
  BY DEF UserOf
<1> QED
  BY <1>1, <1>2
-----------------------------------------------------------------------------
(* The process, its requests and their types *)

Credits(user) == user.user \in {Owner(user.from), Unknown}

\* The store is open while the process is between Start and store.Close;
\* requests are in flight only once it serves, after that only those cut off, and
\* while the disk fails only those it has hit.
ProcInv ==
    /\ open <=> phase \in {"discovering", "serving", "returned", "closing"}
    /\ \A r \in Requests : pc[r] \in InFlight =>
         /\ phase \notin {"down", "discovering"}
         /\ phase \in {"returned", "closing", "ending"} => r \in cut
         /\ ~disk => r \in hit

\* A request in flight has its true user, and a success has gone out.
UserInv ==
    /\ \A r \in Requests : pc[r] \in InFlight => who[r] \in Users /\ Credits(who[r])
    /\ ok \subseteq sent

\* What a stream has copied, or a success put in force, is a request's event.
Pending == ({transition} \union {task[t] : t \in Streams}) \ {NoEvent}
StreamInv ==
    /\ \A t \in Streams : stream[t] = "failing" => task[t] # NoEvent
    /\ \A e \in Pending : e \in Events /\ e.request \in Requests

Inv == TypeOK /\ ProcInv /\ UserInv /\ StreamInv /\ IsFiniteSet(table)

\* A row of a request is the row of an answered one.
AnsweredInv == \A row \in table : row.event.request # NoOne => pc[row.event.request] \in Answered

\* An event that may still get a row of failure is as true as its rows; the stream
\* that may write it has not done so, and nobody has while it is in force.
EventInv ==
    /\ \A e \in Pending :
         /\ pc[e.request] \in Answered
         /\ Credits(e.who)
         /\ \A row \in table : row.event.request = e.request => row.event.who = e.who
         /\ \A f \in Pending : f.request = e.request => f.who = e.who
    /\ transition # NoEvent => \A row \in table :
         row.event.request = transition.request => row.event.by \notin Streams
    /\ \A t \in Streams : task[t] # NoEvent => \A row \in table :
         row.event.request = task[t].request => row.event.by # t

RowInv == TrueRows /\ AnsweredInv /\ EventInv

LEMMA InvInit == Init => Inv
<1> SUFFICES ASSUME Init PROVE Inv
  OBVIOUS
<1> USE LifecycleAssumption, PastAssumption, AuditLogAssumption DEF Init, AuditInit
<1>1. TypeOK
  <2>1. /\ pc \in [Requests -> {"idle", "lost"} \union InFlight \union Answered]
        /\ who \in [Requests -> Users \union {Nobody}]
    OBVIOUS
  <2>2. now \in 0 .. MaxTime /\ stops \in 0 .. MaxStops /\ table \subseteq Rows(Events)
    OBVIOUS
  <2>3. open \in BOOLEAN /\ done \in BOOLEAN /\ disk \in BOOLEAN
    BY Zenon
  <2>4. /\ stream \in [Streams -> {"closed", "waiting", "polling", "failing"}]
        /\ task \in [Streams -> Events \union {NoEvent}]
        /\ transition \in Events \union {NoEvent}
    OBVIOUS
  <2> QED
    BY <2>1, <2>2, <2>3, <2>4 DEF TypeOK
<1>2. ProcInv /\ UserInv
  BY DEF ProcInv, UserInv, InFlight
<1>3. StreamInv
  BY DEF StreamInv, Pending
<1> QED
  BY <1>1, <1>2, <1>3 DEF Inv

\* The event of a request in flight.
LEMMA EventOfType ==
  ASSUME Inv, NEW r \in Requests, pc[r] \in InFlight
  PROVE  EventOf(r) \in Events /\ EventOf(r) # NoEvent
<1> USE LifecycleAssumption
<1>1. who[r] \in Users
  BY DEF Inv, UserInv
<1>2. EventOf(r) \in Events
  BY <1>1 DEF EventOf, Events
<1>3. EventOf(r).request = r /\ NoEvent.request = NoOne /\ r # NoOne
  BY DEF EventOf, NoEvent
<1> QED
  BY <1>2, <1>3

\* The event that LogFailure records.
LEMMA FailureType ==
  ASSUME Inv, NEW t \in Streams, stream[t] = "failing"
  PROVE  LET e == [task[t] EXCEPT !.success = FALSE, !.by = t]
         IN  /\ task[t] \in Events /\ task[t].request \in Requests
             /\ task[t] # NoEvent /\ task[t] \in Pending
             /\ e \in Events
             /\ e.request = task[t].request /\ e.who = task[t].who /\ ~e.success /\ e.by = t
<1>1. task[t] # NoEvent /\ task[t] \in Pending
  BY DEF Inv, StreamInv, Pending
<1>2. task[t] \in Events /\ task[t].request \in Requests
  BY <1>1 DEF Inv, StreamInv
<1> QED
  BY <1>1, <1>2 DEF Events

\* What LogEvent does to the table.
LEMMA RowLogged ==
  ASSUME TypeOK, IsFiniteSet(table), NEW event \in Events, LogEvent(event)
  PROVE  table' \subseteq Rows(Events) /\ IsFiniteSet(table') /\ now' = now /\ open' = open
<1>1. [at |-> now, event |-> event] \in Rows(Events)
  BY DEF TypeOK, Rows
<1>2. IsFiniteSet(table \union {[at |-> now, event |-> event]})
  BY FS_AddElement
<1> QED
  BY <1>1, <1>2 DEF LogEvent, TypeOK

\* Steps of run(), of what surrounds it and of polls, which leave the table alone
\* but for Open.
Quiet ==
    \/ Clock \/ Start \/ Discover \/ Cancel \/ StopServing \/ CloseClient \/ CloseStore \/ Exit
    \/ Crash \/ DiskFails \/ DiskReturns
    \/ \E t \in Streams : Connect(t) \/ Disconnect(t) \/ Poll(t) \/ \E found \in Findings : EndPoll(t, found)

LEMMA QuietTable ==
  ASSUME Quiet
  PROVE  /\ table' = table \/ Open
         /\ now' \in {now, now + 1}
         /\ ~open /\ open' => Open
  BY DEF Quiet, auditVars, Clock, Tick, Start, Discover, Cancel, StopServing, CloseClient, CloseStore,
         Close, Exit, Crash, Die, DiskFails, DiskReturns, Connect, Disconnect, Poll, EndPoll, Open

\* All steps but Quiet ones.
LEMMA Steps ==
  ASSUME [Next]_vars
  PROVE  \/ Quiet
         \/ \E t \in Streams : LogFailure(t)
         \/ \E r \in Requests :
              \/ \E origin \in Origins, answers \in BOOLEAN : Post(r, origin, answers)
              \/ TakeClient(r)
              \/ \E reached, answered \in BOOLEAN : Command(r, reached, answered)
              \/ Record(r) \/ RecordFails(r) \/ Refresh(r) \/ RefreshFails(r) \/ Leave(r)
         \/ UNCHANGED vars
  BY DEF Next, Handler, Quiet

LEMMA TableStep == Inv /\ [Next]_vars => table' \subseteq Rows(Events) /\ IsFiniteSet(table')
<1> SUFFICES ASSUME Inv, [Next]_vars, table' # table
             PROVE  table' \subseteq Rows(Events) /\ IsFiniteSet(table')
  BY DEF Inv, TypeOK
<1>i. TypeOK /\ IsFiniteSet(table)
  BY DEF Inv
<1>1. CASE Open
  <2>1. table' \subseteq table
    BY <1>1 DEF Open
  <2> QED
    BY <1>i, <2>1, FS_Subset DEF TypeOK
<1>2. ASSUME NEW t \in Streams, LogFailure(t)
      PROVE  table' \subseteq Rows(Events) /\ IsFiniteSet(table')
  BY <1>i, <1>2, FailureType, RowLogged DEF LogFailure, Become, auditVars
<1>3. ASSUME NEW r \in Requests, Record(r)
      PROVE  table' \subseteq Rows(Events) /\ IsFiniteSet(table')
  <2>1. pc[r] \in InFlight
    BY <1>3 DEF Record, Answer, Goto, InFlight
  <2> QED
    BY <1>i, <1>3, <2>1, EventOfType, RowLogged DEF Record
<1>4. Open \/ (\E t \in Streams : LogFailure(t)) \/ (\E r \in Requests : Record(r))
  BY Steps, QuietTable DEF vars, auditVars, Post, TakeClient, Command, RecordFails, Refresh,
     RefreshFails, Leave
<1> QED
  BY <1>1, <1>2, <1>3, <1>4

LEMMA TypeStep == Inv /\ [Next]_vars => TypeOK'
<1> SUFFICES ASSUME Inv, [Next]_vars PROVE TypeOK'
  OBVIOUS
<1>i. TypeOK /\ UserInv /\ StreamInv /\ table' \subseteq Rows(Events)
  BY TableStep DEF Inv
<1>c. MaxTime \in Nat /\ MaxStops \in Nat
  BY LifecycleAssumption, AuditLogAssumption
<1>b. Busy \subseteq Requests
  BY DEF Busy
<1> USE <1>i, <1>c DEF TypeOK, auditVars, procVars, streamVars, requestVars
<1>1. CASE Clock
  BY <1>1 DEF Clock, Tick
<1>2. CASE Start
  BY <1>2 DEF Start, Open
<1>3. CASE Discover \/ CloseClient
  BY <1>3 DEF Discover, CloseClient
<1>4. CASE Cancel \/ DiskReturns
  <2>1. stops' \in 0 .. MaxStops
    BY <1>4 DEF Cancel, DiskReturns
  <2>2. done' \in BOOLEAN /\ disk' \in BOOLEAN
    BY <1>4 DEF Cancel, DiskReturns
  <2>3. UNCHANGED <<auditVars, phase, lock, streamVars, requestVars>>
    BY <1>4, Zenon DEF Cancel, DiskReturns
  <2> QED
    BY <2>1, <2>2, <2>3
<1>5. CASE StopServing
  <2>1. cut' = cut \union Busy
    BY <1>5, Zenon DEF StopServing
  <2>2. /\ phase' = "returned"
        /\ UNCHANGED <<auditVars, done, disk, stops, lock, streamVars, pc, who, ok, sent, gone, hit, shown>>
    BY <1>5 DEF StopServing
  <2> QED
    BY <1>b, <2>1, <2>2
<1>6. CASE DiskFails
  <2>1. stops' \in 0 .. MaxStops /\ hit' \subseteq Requests
    BY <1>6, <1>b DEF DiskFails, CountFault
  <2> QED
    BY <1>6, <2>1 DEF DiskFails
<1>7. CASE CloseStore
  BY <1>7 DEF CloseStore, Close
<1>8. CASE Exit \/ Crash
  <2>1. stops' \in 0 .. MaxStops
    BY <1>8 DEF Exit, Crash, CountFault
  <2>2. Die
    BY <1>8 DEF Exit, Crash
  <2> QED
    BY <2>1, <2>2 DEF Die, Busy
<1>9. ASSUME NEW t \in Streams, Connect(t) \/ Disconnect(t) \/ Poll(t) PROVE TypeOK'
  BY <1>9 DEF Connect, Disconnect, Poll, Become
<1>10. ASSUME NEW t \in Streams, NEW found \in Findings, EndPoll(t, found) PROVE TypeOK'
  <2>1. stream' \in [Streams -> {"closed", "waiting", "polling", "failing"}] /\ lock' = NoOne
    BY <1>10 DEF EndPoll, Become
  <2>2. task' \in [Streams -> Events \union {NoEvent}]
    BY <1>10 DEF EndPoll
  <2>3. transition' \in Events \union {NoEvent}
    BY <1>10 DEF EndPoll
  <2> QED
    BY <1>10, <2>1, <2>2, <2>3 DEF EndPoll
<1>11. ASSUME NEW t \in Streams, LogFailure(t) PROVE TypeOK'
  BY <1>11 DEF LogFailure, LogEvent, Become
<1>12. ASSUME NEW r \in Requests, NEW origin \in Origins, NEW answers \in BOOLEAN, Post(r, origin, answers)
       PROVE  TypeOK'
  <2>1. [from |-> origin.from, user |-> UserOf(origin.request, answers)] \in Users
    BY Credited, LifecycleAssumption DEF Users
  <2> QED
    BY <1>12, <2>1 DEF Post, Goto, InFlight
<1>13. ASSUME NEW r \in Requests, TakeClient(r) PROVE TypeOK'
  BY <1>13 DEF TakeClient, Goto, InFlight
<1>14. ASSUME NEW r \in Requests, NEW reached \in BOOLEAN, NEW answered \in BOOLEAN,
              Command(r, reached, answered)
       PROVE  TypeOK'
  BY <1>14 DEF Command, Goto, InFlight
<1>15. ASSUME NEW r \in Requests, Record(r) \/ RecordFails(r) PROVE TypeOK'
  <2>1. pc[r] \in InFlight
    BY <1>15 DEF Record, RecordFails, Answer, Goto, InFlight
  <2>2. EventOf(r) \in Events
    BY <2>1, EventOfType
  <2>3. Answer(r) => pc' \in [Requests -> {"idle", "lost"} \union InFlight \union Answered]
                     /\ who' \in [Requests -> Users \union {Nobody}] /\ ok' \subseteq Requests
                     /\ transition' \in Events \union {NoEvent}
    BY <2>2 DEF Answer, Goto, Answered
  <2> QED
    BY <1>15, <2>3 DEF Record, RecordFails, LogEvent
<1>16. ASSUME NEW r \in Requests, Refresh(r) \/ RefreshFails(r) PROVE TypeOK'
  BY <1>16 DEF Refresh, RefreshFails, Goto, Answered
<1>17. ASSUME NEW r \in Requests, Leave(r) PROVE TypeOK'
  BY <1>17, LifecycleAssumption DEF Leave
<1>18. CASE UNCHANGED vars
  BY <1>18 DEF vars
<1> QED
  BY <1>1, <1>2, <1>3, <1>4, <1>5, <1>6, <1>7, <1>8, <1>9, <1>10, <1>11, <1>12, <1>13, <1>14, <1>15,
     <1>16, <1>17, <1>18, Steps DEF Quiet

LEMMA ProcStep == Inv /\ [Next]_vars => ProcInv'
<1> SUFFICES ASSUME Inv, [Next]_vars PROVE ProcInv'
  OBVIOUS
<1>i. TypeOK /\ ProcInv
  BY DEF Inv
<1> USE <1>i DEF TypeOK, ProcInv, auditVars, procVars, streamVars, requestVars
<1>1. CASE Start
  BY <1>1 DEF Start, Open
<1>2. CASE Discover \/ DiskReturns
  BY <1>2 DEF Discover, DiskReturns
<1>3. CASE StopServing \/ CloseClient \/ DiskFails
  BY <1>3 DEF StopServing, CloseClient, DiskFails, Busy
<1>4. CASE CloseStore
  BY <1>4 DEF CloseStore, Close
<1>5. CASE Exit \/ Crash
  <2>1. Die
    BY <1>5 DEF Exit, Crash
  <2> QED
    BY <2>1 DEF Die, InFlight
<1>6. CASE Clock \/ Cancel
  BY <1>6 DEF Clock, Tick, Cancel
<1>7. ASSUME NEW t \in Streams, \/ Connect(t) \/ Disconnect(t) \/ Poll(t) \/ LogFailure(t)
                                \/ \E found \in Findings : EndPoll(t, found)
      PROVE  ProcInv'
  BY <1>7 DEF Connect, Disconnect, Poll, EndPoll, LogFailure, LogEvent
<1>8. ASSUME NEW r \in Requests, NEW origin \in Origins, NEW answers \in BOOLEAN, Post(r, origin, answers)
      PROVE  ProcInv'
  BY <1>8 DEF Post, Goto, InFlight
<1>9. ASSUME NEW r \in Requests, \/ TakeClient(r) \/ Record(r) \/ RecordFails(r)
                                 \/ Refresh(r) \/ RefreshFails(r)
                                 \/ \E reached, answered \in BOOLEAN : Command(r, reached, answered)
      PROVE  ProcInv'
  <2>1. /\ UNCHANGED <<phase, open, disk, cut, hit>>
        /\ \A p \in Requests : pc'[p] \in InFlight => pc[p] \in InFlight
    BY <1>9 DEF TakeClient, Command, Record, RecordFails, Answer, Refresh, RefreshFails,
       LogEvent, Goto, InFlight
  <2> QED
    BY <2>1
<1>10. ASSUME NEW r \in Requests, Leave(r) PROVE ProcInv'
  BY <1>10 DEF Leave
<1>11. CASE UNCHANGED vars
  BY <1>11 DEF vars
<1> QED
  BY <1>1, <1>2, <1>3, <1>4, <1>5, <1>6, <1>7, <1>8, <1>9, <1>10, <1>11, Steps DEF Quiet

LEMMA UserStep == Inv /\ [Next]_vars => UserInv'
<1> SUFFICES ASSUME Inv, [Next]_vars PROVE UserInv'
  OBVIOUS
<1>i. TypeOK /\ UserInv
  BY DEF Inv
<1> USE <1>i DEF TypeOK, UserInv, auditVars, procVars, streamVars, requestVars
<1>1. CASE Exit \/ Crash
  <2>1. Die
    BY <1>1 DEF Exit, Crash
  <2> QED
    BY <2>1 DEF Die, InFlight
<1>2. ASSUME NEW r \in Requests, NEW origin \in Origins, NEW answers \in BOOLEAN, Post(r, origin, answers)
      PROVE  UserInv'
  <2> DEFINE user == [from |-> origin.from, user |-> UserOf(origin.request, answers)]
  <2>1. user.user \in {Owner(user.from), Unknown} /\ user \in Users
    BY Credited, LifecycleAssumption DEF Users
  <2> HIDE DEF user
  <2>2. who' = [who EXCEPT ![r] = user]
    BY <1>2 DEF Post, user
  <2>3. /\ ok' = ok /\ sent' = sent
        /\ \A p \in Requests \ {r} : pc'[p] = pc[p]
    BY <1>2 DEF Post, Goto
  <2> QED
    BY <2>1, <2>2, <2>3 DEF Credits
<1>3. ASSUME NEW r \in Requests, TakeClient(r) \/ Refresh(r) \/ RefreshFails(r) PROVE UserInv'
  <2>1. /\ UNCHANGED <<who, ok, sent>>
        /\ \A p \in Requests : pc'[p] \in InFlight => pc[p] \in InFlight
    BY <1>3 DEF TakeClient, Refresh, RefreshFails, Goto, InFlight
  <2> QED
    BY <2>1
<1>4. ASSUME NEW r \in Requests, NEW reached \in BOOLEAN, NEW answered \in BOOLEAN,
             Command(r, reached, answered)
      PROVE  UserInv'
  <2>1. /\ who' = who
        /\ \A p \in Requests : pc'[p] \in InFlight => pc[p] \in InFlight
    BY <1>4 DEF Command, Goto, InFlight
  <2>2. ok' \subseteq sent'
    BY <1>4 DEF Command
  <2> QED
    BY <2>1, <2>2
<1>5. ASSUME NEW r \in Requests, Record(r) \/ RecordFails(r) PROVE UserInv'
  <2>1. Answer(r) /\ sent' = sent
    BY <1>5 DEF Record, RecordFails
  <2> QED
    BY <2>1 DEF Answer, Goto, InFlight
<1>6. ASSUME NEW r \in Requests, Leave(r) PROVE UserInv'
  BY <1>6 DEF Leave
<1>7. CASE UNCHANGED <<pc, who, ok, sent>>
  BY <1>7
<1> QED
  BY <1>1, <1>2, <1>3, <1>4, <1>5, <1>6, <1>7, Steps
     DEF Quiet, vars, Clock, Start, Discover, Cancel, StopServing, CloseClient, CloseStore, DiskFails,
         DiskReturns, Connect, Disconnect, Poll, EndPoll, LogFailure

\* No event is pending that was not, but that of an action as it is answered.
LEMMA PendingStep ==
  ASSUME Inv, [Next]_vars
  PROVE  \/ Pending' \subseteq Pending
         \/ \E r \in Requests : /\ Record(r) \/ RecordFails(r)
                                /\ Pending' \subseteq Pending \union {EventOf(r)}
<1>t. task \in [Streams -> Events \union {NoEvent}]
  BY DEF Inv, TypeOK
<1> USE <1>t DEF Pending, auditVars, procVars, streamVars, requestVars
<1>1. CASE Exit \/ Crash
  BY <1>1 DEF Exit, Crash, Die
<1>2. ASSUME NEW t \in Streams, NEW found \in Findings, EndPoll(t, found)
      PROVE  Pending' \subseteq Pending
  BY <1>2 DEF EndPoll
<1>3. ASSUME NEW t \in Streams, LogFailure(t) PROVE Pending' \subseteq Pending
  BY <1>3 DEF LogFailure
<1>4. ASSUME NEW r \in Requests, Record(r) \/ RecordFails(r)
      PROVE  Pending' \subseteq Pending \union {EventOf(r)}
  BY <1>4 DEF Record, RecordFails, Answer
<1>5. CASE UNCHANGED <<task, transition>>
  BY <1>5
<1> QED
  BY <1>1, <1>2, <1>3, <1>4, <1>5, Steps
     DEF Quiet, vars, Clock, Start, Discover, Cancel, StopServing, CloseClient, CloseStore, DiskFails,
         DiskReturns, Connect, Disconnect, Poll, Post, TakeClient, Command, Refresh, RefreshFails, Leave

LEMMA StreamStep == Inv /\ [Next]_vars => StreamInv'
<1> SUFFICES ASSUME Inv, [Next]_vars PROVE StreamInv'
  OBVIOUS
<1>i. TypeOK /\ StreamInv
  BY DEF Inv
<1>1. ASSUME NEW e \in Pending' PROVE e \in Events /\ e.request \in Requests
  <2>1. CASE e \in Pending
    BY <1>i, <2>1 DEF StreamInv
  <2>2. ASSUME NEW r \in Requests, Record(r) \/ RecordFails(r), e = EventOf(r)
        PROVE  e \in Events /\ e.request \in Requests
    <3>1. pc[r] \in InFlight
      BY <2>2 DEF Record, RecordFails, Answer, Goto, InFlight
    <3> QED
      BY <2>2, <3>1, EventOfType DEF EventOf
  <2> QED
    BY <2>1, <2>2, PendingStep
<1>2. ASSUME NEW t \in Streams, stream'[t] = "failing" PROVE task'[t] # NoEvent
  <2> USE <1>i, <1>2 DEF TypeOK, StreamInv, streamVars
  <2>1. CASE Exit \/ Crash
    BY <2>1 DEF Exit, Crash, Die
  <2>2. ASSUME NEW u \in Streams, Connect(u) \/ Disconnect(u) \/ Poll(u) \/ LogFailure(u)
        PROVE  task'[t] # NoEvent
    BY <2>2 DEF Connect, Disconnect, Poll, LogFailure, Become
  <2>3. ASSUME NEW u \in Streams, NEW found \in Findings, EndPoll(u, found)
        PROVE  task'[t] # NoEvent
    BY <2>3 DEF EndPoll, Become
  <2>4. CASE UNCHANGED <<stream, task>>
    BY <2>4
  <2> QED
    BY <2>1, <2>2, <2>3, <2>4, Steps
       DEF Quiet, vars, Clock, Start, Discover, Cancel, StopServing, CloseClient, CloseStore, DiskFails,
           DiskReturns, Post, TakeClient, Command, Record, RecordFails, Refresh, RefreshFails, Leave
<1> QED
  BY <1>1, <1>2 DEF StreamInv

LEMMA InvStep == Inv /\ [Next]_vars => Inv'
  BY TypeStep, ProcStep, UserStep, StreamStep, TableStep DEF Inv

LEMMA Invariance == Spec => []Inv
  BY InvInit, InvStep, PTL DEF Spec

\* The variables of run(), of its handlers and streams and of the log keep their
\* types: a handler that LogEvent records has its user, and a stream that logs a
\* failure has its event.
THEOREM TypeCorrect == Spec => []TypeOK
<1>1. Inv => TypeOK
  BY DEF Inv
<1> QED
  BY <1>1, Invariance, PTL

-----------------------------------------------------------------------------
(* Retention, and actions that are recorded unless they are cut off *)

\* What a step can do to a row: only Open deletes, and only what Expired says.
LEMMA RowKept ==
  ASSUME Inv, [Next]_vars, NEW row \in table
  PROVE  row \in table' \/ (Open /\ Expired(row.at))
<1>1. CASE Open
  BY <1>1 DEF Open
<1>2. CASE Quiet
  BY <1>1, <1>2, QuietTable
<1>3. CASE ~Quiet
  BY <1>3, Steps DEF vars, auditVars, Post, TakeClient, Command, Record, RecordFails, Refresh,
     RefreshFails, Leave, LogFailure, LogEvent
<1> QED
  BY <1>2, <1>3

\* A row that Open deletes is a year old.
LEMMA RowLost ==
  ASSUME Inv, [Next]_vars, NEW row \in table, row \notin table'
  PROVE  now - row.at > Year /\ now > Year /\ now' = now
<1>1. now \in Nat /\ row.at \in Nat /\ Year \in Nat
  BY AuditLogAssumption DEF Inv, TypeOK, Rows
<1>2. Open /\ Expired(row.at)
  BY RowKept
<1> QED
  BY <1>1, <1>2, ExpiredIsOld DEF Open

LEMMA OnlyStartOpens == [Next]_vars /\ ~open /\ open' => Open
  BY Steps, QuietTable DEF vars, auditVars, Post, TakeClient, Command, Record, RecordFails, Refresh,
     RefreshFails, Leave, LogFailure, LogEvent

\* Whatever restarts there are, nothing younger than a year is deleted, and Open
\* leaves nothing that is older by a day, though it compares texts of two formats.
THEOREM Retention == Spec => RetentionExact
<1>1. ASSUME Inv, [Next]_vars
      PROVE  /\ \A row \in table : row \in table' \/ now - row.at > Year
             /\ ~open /\ open' => \A row \in table' : now - row.at < Year + Day
  <2>1. ASSUME NEW row \in table PROVE row \in table' \/ now - row.at > Year
    BY <1>1, RowLost
  <2>2. ASSUME ~open, open', NEW row \in table' PROVE now - row.at < Year + Day
    <3>1. row \in table /\ ~Expired(row.at)
      BY <1>1, <2>2, OnlyStartOpens DEF Open
    <3>2. now \in Nat /\ row.at \in Nat
      BY <1>1, <3>1, AuditLogAssumption DEF Inv, TypeOK, Rows
    <3> QED
      BY <3>1, <3>2, KeptIsYoung
  <2> QED
    BY <2>1, <2>2
<1>2. Inv /\ [Next]_vars =>
        [/\ \A row \in table : row \in table' \/ now - row.at > Year
         /\ ~open /\ open' => \A row \in table' : now - row.at < Year + Day]_auditVars
  BY <1>1
<1> QED
  BY <1>2, Invariance, PTL DEF Spec, RetentionExact

\* The ways of a request.
LEMMA Moves ==
  ASSUME Inv, [Next]_vars, NEW r \in Requests, pc'[r] # pc[r]
  PROVE  \/ pc[r] \in {"idle", "command", "locked"} /\ pc'[r] \in InFlight
         \/ pc[r] = "log" /\ pc'[r] \in Answered /\ (Record(r) \/ RecordFails(r))
         \/ pc[r] = "refresh" /\ pc'[r] = "unloaded" /\ RefreshFails(r)
         \/ pc[r] \in {"refresh", "unloaded"} /\ pc'[r] = "settled" /\ Refresh(r)
         \/ pc[r] \in InFlight /\ pc'[r] = "lost"
<1>i. pc \in [Requests -> {"idle", "lost"} \union InFlight \union Answered]
  BY DEF Inv, TypeOK
<1>1. CASE Exit \/ Crash
  <2>1. pc' = [q \in Requests |-> IF pc[q] \in InFlight THEN "lost" ELSE pc[q]]
    BY <1>1 DEF Exit, Crash, Die
  <2> QED
    BY <2>1
<1>2. ASSUME NEW p \in Requests, NEW from, NEW to, Goto(p, from, to)
      PROVE  p = r /\ pc[r] = from /\ pc'[r] = to
  BY <1>i, <1>2 DEF Goto
<1>3. ASSUME NEW p \in Requests, NEW origin, NEW answers, Post(p, origin, answers)
      PROVE  pc[r] = "idle" /\ pc'[r] \in InFlight
  BY <1>2, <1>3 DEF Post, InFlight
<1>4. ASSUME NEW p \in Requests, TakeClient(p)
      PROVE  pc[r] = "command" /\ pc'[r] \in InFlight
  BY <1>2, <1>4 DEF TakeClient, InFlight
<1>5. ASSUME NEW p \in Requests, NEW reached, NEW answered, Command(p, reached, answered)
      PROVE  pc[r] = "locked" /\ pc'[r] \in InFlight
  BY <1>2, <1>5 DEF Command, InFlight
<1>6. ASSUME NEW p \in Requests, Record(p) \/ RecordFails(p)
      PROVE  pc[r] = "log" /\ pc'[r] \in Answered /\ (Record(r) \/ RecordFails(r))
  <2>1. Goto(p, "log", IF p \in gone THEN "settled" ELSE "refresh")
    BY <1>6 DEF Record, RecordFails, Answer
  <2>2. p = r /\ pc[r] = "log" /\ pc'[r] = IF p \in gone THEN "settled" ELSE "refresh"
    BY <1>2, <2>1
  <2> QED
    BY <1>6, <2>2 DEF Answered
<1>7. ASSUME NEW p \in Requests, Refresh(p)
      PROVE  pc[r] \in {"refresh", "unloaded"} /\ pc'[r] = "settled" /\ Refresh(r)
  <2>1. p = r
    BY <1>i, <1>7 DEF Refresh
  <2> QED
    BY <1>i, <1>7, <2>1 DEF Refresh
<1>8. ASSUME NEW p \in Requests, RefreshFails(p)
      PROVE  pc[r] = "refresh" /\ pc'[r] = "unloaded" /\ RefreshFails(r)
  <2>1. p = r /\ pc[r] = "refresh" /\ pc'[r] = "unloaded"
    BY <1>2, <1>8 DEF RefreshFails
  <2> QED
    BY <1>8, <2>1
<1> QED
  BY <1>1, <1>3, <1>4, <1>5, <1>6, <1>7, <1>8, Steps
     DEF Quiet, vars, requestVars, Clock, Start, Discover, Cancel, StopServing, CloseClient,
         CloseStore, DiskFails, DiskReturns, Connect, Disconnect, Poll, EndPoll, LogFailure, Leave

\* An action is answered by Record, or by RecordFails.
LEMMA AnsweredBy ==
  ASSUME Inv, [Next]_vars, NEW r \in Requests, pc[r] \notin Answered, pc'[r] \in Answered
  PROVE  pc[r] = "log" /\ (Record(r) \/ RecordFails(r))
  BY Moves DEF Answered, InFlight

\* What no step takes back.
LEMMA Monotone ==
  ASSUME Inv, [Next]_vars
  PROVE  /\ now <= now'
         /\ sent \subseteq sent' /\ gone \subseteq gone'
         /\ cut \subseteq cut' /\ hit \subseteq hit' /\ shown \subseteq shown'
         /\ \A r \in Requests : pc[r] \in Answered => pc'[r] \in Answered
<1>1. now <= now'
  <2>1. now' = now \/ now' = now + 1
    BY Steps, QuietTable DEF vars, auditVars, Post, TakeClient, Command, Record, RecordFails, Refresh,
       RefreshFails, Leave, LogFailure, LogEvent
  <2> QED
    BY <2>1, AuditLogAssumption DEF Inv, TypeOK
<1>2. /\ sent \subseteq sent' /\ gone \subseteq gone'
      /\ cut \subseteq cut' /\ hit \subseteq hit' /\ shown \subseteq shown'
  BY Steps
     DEF Quiet, vars, requestVars, Clock, Start, Discover, Cancel, StopServing, CloseClient,
         CloseStore, Exit, Crash, Die, DiskFails, DiskReturns, Connect, Disconnect, Poll, EndPoll,
         Post, TakeClient, Command, Record, RecordFails, Refresh, RefreshFails, Leave, LogFailure, Answer
<1>3. ASSUME NEW r \in Requests, pc[r] \in Answered PROVE pc'[r] \in Answered
  BY <1>3, Moves DEF Answered, InFlight
<1> QED
  BY <1>1, <1>2, <1>3

\* A recorded action keeps its row until the year is over.
LEMMA RecordedStep == Inv /\ RecordedUnlessCut /\ [Next]_vars => RecordedUnlessCut'
<1> SUFFICES ASSUME Inv, RecordedUnlessCut, [Next]_vars,
                    NEW r \in Requests, pc'[r] \in Answered, r \notin gone' \union cut' \union hit'
             PROVE  (\E row \in table' : OwnRow(row, r)) \/ now' > Year
  BY DEF RecordedUnlessCut, OwnRow
<1>c. /\ now \in Nat /\ now' \in Nat /\ Year \in Nat /\ now <= now'
      /\ r \notin gone \union cut \union hit
  BY Monotone, TypeStep, AuditLogAssumption DEF Inv, TypeOK
<1>1. CASE pc[r] \in Answered
  <2>1. CASE now > Year
    BY <1>c, <2>1
  <2>2. ASSUME NEW row \in table, OwnRow(row, r)
        PROVE  row \in table' \/ now' > Year
    BY <1>c, RowLost
  <2> QED
    BY <1>c, <1>1, <2>1, <2>2 DEF RecordedUnlessCut
<1>2. CASE pc[r] \notin Answered
  <2>1. Record(r) \/ RecordFails(r)
    BY <1>2, AnsweredBy
  <2>2. pc[r] \in InFlight
    BY <2>1 DEF Record, RecordFails, Answer, Goto, InFlight
  <2>3. open /\ disk
    BY <1>c, <2>2 DEF Inv, ProcInv, TypeOK
  <2>4. Record(r)
    BY <1>c, <2>1, <2>3 DEF RecordFails
  <2>5. [at |-> now, event |-> EventOf(r)] \in table'
    BY <2>4 DEF Record, LogEvent
  <2>6. OwnRow([at |-> now, event |-> EventOf(r)], r)
    BY DEF EventOf, OwnRow
  <2> QED
    BY <2>5, <2>6
<1> QED
  BY <1>1, <1>2

\* Whatever restarts, signals, failures of the disk and other actions there were, an
\* action whose handler has come past LogEvent has its row for a year, unless its
\* browser left, its process stopped serving or the disk failed while it was in
\* flight.
THEOREM Recorded == Spec => []RecordedUnlessCut
<1>1. Init => RecordedUnlessCut
  BY DEF Init, RecordedUnlessCut, Answered
<1>2. Inv /\ RecordedUnlessCut /\ [Next]_vars => RecordedUnlessCut'
  BY RecordedStep
<1> QED
  BY <1>1, <1>2, Invariance, InvInit, InvStep, PTL DEF Spec

-----------------------------------------------------------------------------
(* Rows that are true *)

\* What TrueRows and EventInv say, one row or event at a time.
TrueRow(row, rows, out) ==
    /\ Credits(row.event.who)
    /\ row.event.success => row.event.request \in out /\ OwnRow(row, row.event.request)
    /\ \A other \in rows : other.event.request = row.event.request =>
         /\ other.event.who = row.event.who
         /\ other.event.by = row.event.by => other = row

LEMMA TrueRowsIs == TrueRows <=> \A row \in table : row.event.request # NoOne => TrueRow(row, table, sent)
  BY DEF TrueRows, TrueRow, Credits

LEMMA RequestOfRow ==
  ASSUME Inv, NEW row \in table
  PROVE  row.event.request \in Requests \union {NoOne}
  BY DEF Inv, TypeOK, Rows, Events

LEMMA RequestOfEvent ==
  ASSUME Inv, NEW e \in Pending
  PROVE  e.request \in Requests /\ e.request # NoOne
  BY LifecycleAssumption DEF Inv, StreamInv

\* Where no row is added and no event begins to be pending, nothing becomes wrong.
LEMMA RowsShrink ==
  ASSUME Inv, RowInv, [Next]_vars, table' \subseteq table, Pending' \subseteq Pending,
         transition' \in {transition, NoEvent},
         \A t \in Streams : task'[t] \in {task[t], transition, NoEvent}
  PROVE  RowInv'
<1>1. TrueRows'
  <2> SUFFICES ASSUME NEW row \in table', row.event.request # NoOne PROVE TrueRow(row, table', sent')
    BY DEF TrueRows, TrueRow, Credits
  <2>1. sent \subseteq sent'
    BY Monotone
  <2> QED
    BY <2>1, TrueRowsIs DEF RowInv, TrueRow
<1>2. AnsweredInv'
  BY RequestOfRow, Monotone DEF RowInv, AnsweredInv
<1>3. EventInv'
  <2>1. ASSUME NEW e \in Pending'
        PROVE  /\ pc'[e.request] \in Answered
               /\ Credits(e.who)
               /\ \A row \in table' : row.event.request = e.request => row.event.who = e.who
               /\ \A f \in Pending' : f.request = e.request => f.who = e.who
    <3>1. e \in Pending /\ e.request \in Requests
      BY RequestOfEvent
    <3> QED
      BY <3>1, Monotone DEF RowInv, EventInv
  <2>2. ASSUME transition' # NoEvent, NEW row \in table', row.event.request = transition'.request
        PROVE  row.event.by \notin Streams
    BY <2>2 DEF RowInv, EventInv
  <2>3. ASSUME NEW t \in Streams, task'[t] # NoEvent, NEW row \in table', row.event.request = task'[t].request
        PROVE  row.event.by # t
    BY <2>3 DEF RowInv, EventInv
  <2> QED
    BY <2>1, <2>2, <2>3 DEF EventInv
<1> QED
  BY <1>1, <1>2, <1>3 DEF RowInv

\* The handler that answers an action knows its user, and no row is older than its answer.
LEMMA RowsOfAnswer ==
  ASSUME Inv, RowInv, [Next]_vars, NEW r \in Requests, Record(r) \/ RecordFails(r)
  PROVE  RowInv'
<1> DEFINE new == [at |-> now, event |-> EventOf(r)]
<1>1. /\ pc[r] = "log" /\ pc'[r] \in Answered
      /\ transition' \in {transition, EventOf(r)} /\ task' = task
      /\ UNCHANGED sent
  <2>1. pc \in [Requests -> {"idle", "lost"} \union InFlight \union Answered]
    BY DEF Inv, TypeOK
  <2> QED
    BY <2>1 DEF Record, RecordFails, Answer, Goto, Answered
<1>2. table' \subseteq table \union {new}
  BY DEF Record, RecordFails, LogEvent, auditVars
<1>3. /\ Credits(EventOf(r).who) /\ EventOf(r).request = r /\ EventOf(r).by = r
      /\ EventOf(r).success => r \in sent
      /\ r # NoOne /\ r \notin Streams
  BY <1>1, LifecycleAssumption DEF Inv, UserInv, EventOf, InFlight
<1>4. ASSUME NEW row \in table PROVE row.event.request # r
  BY <1>1, LifecycleAssumption DEF RowInv, AnsweredInv, Answered
<1>5. ASSUME NEW e \in Pending PROVE e.request # r
  <2>1. pc[e.request] \in Answered
    BY <1>5 DEF RowInv, EventInv
  <2> QED
    BY <1>1, <2>1 DEF Answered
<1>6. Pending' \subseteq Pending \union {EventOf(r)}
  BY <1>1 DEF Pending
<1>7. new.event = EventOf(r)
  OBVIOUS
<1> HIDE DEF new
<1>8. TrueRows'
  <2> SUFFICES ASSUME NEW row \in table', row.event.request # NoOne PROVE TrueRow(row, table', sent')
    BY DEF TrueRows, TrueRow, Credits
  <2>1. CASE row = new
    <3>1. ASSUME NEW other \in table', other.event.request = row.event.request PROVE other = row
      BY <1>2, <1>3, <1>4, <1>7, <2>1, <3>1
    <3> QED
      BY <1>1, <1>3, <1>7, <2>1, <3>1 DEF TrueRow, OwnRow
  <2>2. CASE row \in table
    <3>1. ASSUME NEW other \in table', other.event.request = row.event.request PROVE other \in table
      BY <1>2, <1>3, <1>4, <1>7, <2>2, <3>1
    <3> QED
      BY <1>1, <2>2, <3>1, TrueRowsIs DEF RowInv, TrueRow
  <2> QED
    BY <1>2, <2>1, <2>2
<1>9. AnsweredInv'
  BY <1>1, <1>2, <1>3, <1>7, RequestOfRow, Monotone DEF RowInv, AnsweredInv
<1>10. EventInv'
  <2>1. ASSUME NEW e \in Pending'
        PROVE  /\ pc'[e.request] \in Answered
               /\ Credits(e.who)
               /\ \A row \in table' : row.event.request = e.request => row.event.who = e.who
               /\ \A f \in Pending' : f.request = e.request => f.who = e.who
    <3>1. CASE e \in Pending
      <4>1. e.request \in Requests /\ e.request # r
        BY <1>5, <3>1, RequestOfEvent
      <4>2. ASSUME NEW row \in table', row.event.request = e.request PROVE row \in table
        BY <1>2, <1>3, <1>7, <4>1, <4>2
      <4>3. ASSUME NEW f \in Pending', f.request = e.request PROVE f \in Pending
        BY <1>3, <1>6, <4>1, <4>3
      <4> QED
        BY <3>1, <4>1, <4>2, <4>3, Monotone DEF RowInv, EventInv
    <3>2. CASE e = EventOf(r)
      <4>1. ASSUME NEW row \in table', row.event.request = r PROVE row = new
        BY <1>2, <1>4, <4>1
      <4>2. ASSUME NEW f \in Pending', f.request = r PROVE f = e
        BY <1>5, <1>6, <3>2, <4>2
      <4> QED
        BY <1>1, <1>3, <1>7, <3>2, <4>1, <4>2
    <3> QED
      BY <1>6, <3>1, <3>2
  <2>2. ASSUME transition' # NoEvent, NEW row \in table', row.event.request = transition'.request
        PROVE  row.event.by \notin Streams
    <3>1. CASE row = new
      BY <1>3, <1>7, <3>1
    <3>2. CASE row \in table
      <4>1. transition' = transition
        BY <1>1, <1>3, <1>4, <2>2, <3>2
      <4> QED
        BY <2>2, <3>2, <4>1 DEF RowInv, EventInv
    <3> QED
      BY <1>2, <3>1, <3>2
  <2>3. ASSUME NEW t \in Streams, task'[t] # NoEvent, NEW row \in table', row.event.request = task'[t].request
        PROVE  row.event.by # t
    <3>1. CASE row = new
      BY <1>3, <1>7, <3>1
    <3>2. CASE row \in table
      BY <1>1, <2>3, <3>2 DEF RowInv, EventInv
    <3> QED
      BY <1>2, <3>1, <3>2
  <2> QED
    BY <2>1, <2>2, <2>3 DEF EventInv
<1> QED
  BY <1>8, <1>9, <1>10 DEF RowInv

\* The failure that a stream logs is its first row of the action, under the name of
\* the others.
LEMMA RowsOfFailure ==
  ASSUME Inv, RowInv, [Next]_vars, NEW t \in Streams, LogFailure(t)
  PROVE  RowInv'
<1> DEFINE e == [task[t] EXCEPT !.success = FALSE, !.by = t]
           new == [at |-> now, event |-> e]
<1>1. /\ task[t].request \in Requests /\ task[t] # NoEvent /\ task[t] \in Pending
      /\ e.request = task[t].request /\ e.who = task[t].who /\ ~e.success /\ e.by = t
  BY FailureType DEF LogFailure, Become
<1>2. /\ table' \subseteq table \union {new}
      /\ transition' = NoEvent
      /\ task' = [task EXCEPT ![t] = NoEvent]
      /\ task \in [Streams -> Events \union {NoEvent}]
  BY DEF LogFailure, LogEvent, auditVars, Inv, TypeOK
<1>3. new.event = e
  OBVIOUS
<1>4. /\ pc[task[t].request] \in Answered /\ Credits(task[t].who)
      /\ \A row \in table : row.event.request = task[t].request =>
           row.event.who = task[t].who /\ row.event.by # t
      /\ \A f \in Pending : f.request = task[t].request => f.who = task[t].who
  BY <1>1 DEF RowInv, EventInv
<1>5. Pending' \subseteq Pending
  BY <1>2 DEF Pending
<1> HIDE DEF e, new
<1>6. TrueRows'
  <2> SUFFICES ASSUME NEW row \in table', row.event.request # NoOne PROVE TrueRow(row, table', sent')
    BY DEF TrueRows, TrueRow, Credits
  <2>1. sent \subseteq sent'
    BY Monotone
  <2>2. CASE row = new
    <3>1. ASSUME NEW other \in table', other.event.request = row.event.request
          PROVE  other.event.who = row.event.who /\ (other.event.by = row.event.by => other = row)
      BY <1>1, <1>2, <1>3, <1>4, <2>2, <3>1
    <3> QED
      BY <1>1, <1>3, <1>4, <2>2, <3>1 DEF TrueRow
  <2>3. CASE row \in table
    <3>1. ASSUME NEW other \in table', other.event.request = row.event.request
          PROVE  other.event.who = row.event.who /\ (other.event.by = row.event.by => other = row)
      <4>1. CASE other \in table
        BY <2>3, <3>1, <4>1, TrueRowsIs DEF RowInv, TrueRow
      <4>2. CASE other = new
        BY <1>1, <1>3, <1>4, <2>3, <3>1, <4>2
      <4> QED
        BY <1>2, <4>1, <4>2
    <3> QED
      BY <2>1, <2>3, <3>1, TrueRowsIs DEF RowInv, TrueRow
  <2> QED
    BY <1>2, <2>2, <2>3
<1>7. AnsweredInv'
  BY <1>1, <1>2, <1>3, <1>4, RequestOfRow, Monotone DEF RowInv, AnsweredInv
<1>8. EventInv'
  <2>1. ASSUME NEW f \in Pending'
        PROVE  /\ pc'[f.request] \in Answered
               /\ Credits(f.who)
               /\ \A row \in table' : row.event.request = f.request => row.event.who = f.who
               /\ \A g \in Pending' : g.request = f.request => g.who = f.who
    <3>1. f \in Pending /\ f.request \in Requests
      BY <1>5, RequestOfEvent
    <3>2. ASSUME NEW row \in table', row.event.request = f.request PROVE row.event.who = f.who
      <4>1. CASE row \in table
        BY <3>1, <3>2, <4>1 DEF RowInv, EventInv
      <4>2. CASE row = new
        BY <1>1, <1>3, <1>4, <3>1, <3>2, <4>2
      <4> QED
        BY <1>2, <4>1, <4>2
    <3>3. pc'[f.request] \in Answered
      BY <3>1, Monotone DEF RowInv, EventInv
    <3> QED
      BY <1>5, <3>1, <3>2, <3>3 DEF RowInv, EventInv
  <2>2. ASSUME NEW u \in Streams, task'[u] # NoEvent, NEW row \in table', row.event.request = task'[u].request
        PROVE  row.event.by # u
    <3>1. u # t /\ task'[u] = task[u]
      BY <1>2, <2>2
    <3>2. CASE row \in table
      BY <2>2, <3>1, <3>2 DEF RowInv, EventInv
    <3>3. CASE row = new
      BY <1>1, <1>3, <3>1, <3>3
    <3> QED
      BY <1>2, <3>2, <3>3
  <2> QED
    BY <1>2, <2>1, <2>2 DEF EventInv
<1> QED
  BY <1>6, <1>7, <1>8 DEF RowInv

LEMMA RowStep == Inv /\ RowInv /\ [Next]_vars => RowInv'
<1> SUFFICES ASSUME Inv, RowInv, [Next]_vars, \A t \in Streams : ~LogFailure(t),
                    \A r \in Requests : ~(Record(r) \/ RecordFails(r))
             PROVE  RowInv'
  BY RowsOfAnswer, RowsOfFailure
<1>1. table' \subseteq table
  BY Steps, QuietTable DEF vars, auditVars, Post, TakeClient, Command, Refresh, RefreshFails, Leave, Open
<1>2. /\ transition' \in {transition, NoEvent}
      /\ \A t \in Streams : task'[t] \in {task[t], transition, NoEvent}
  <2>t. task \in [Streams -> Events \union {NoEvent}]
    BY DEF Inv, TypeOK
  <2> QED
    BY <2>t, Steps
       DEF Quiet, vars, streamVars, Clock, Start, Discover, Cancel, StopServing, CloseClient, CloseStore,
           Exit, Crash, Die, DiskFails, DiskReturns, Connect, Disconnect, Poll, EndPoll, Post,
           TakeClient, Command, Refresh, RefreshFails, Leave
<1>3. Pending' \subseteq Pending
  BY PendingStep
<1> QED
  BY <1>1, <1>2, <1>3, RowsShrink

LEMMA RowInit == Init => RowInv
<1> SUFFICES ASSUME Init PROVE RowInv
  OBVIOUS
<1>1. table = Past /\ transition = NoEvent /\ Pending = {} /\ \A t \in Streams : task[t] = NoEvent
  BY DEF Init, AuditInit, Pending
<1> QED
  BY <1>1, PastAssumption DEF RowInv, TrueRows, AnsweredInv, EventInv

\* A row names the owner of the device its request came from, or nobody, through
\* every header, restart and transition; a success was sent; the rows of an action
\* name one user, and each of its writers, its handler and the streams that see its
\* task fail, has written one of them at most.
THEOREM Truthful == Spec => []TrueRows
<1>1. RowInv => TrueRows
  BY DEF RowInv
<1> QED
  BY <1>1, RowInit, RowStep, InvInit, InvStep, PTL DEF Spec

-----------------------------------------------------------------------------
(* What a browser sees of its action *)

\* The rows that come before mine, or with it, in the activity log.
Ahead(mine) == {row \in table \ {mine} : row.at >= mine.at}

LEMMA AheadFinite ==
  ASSUME NEW rows, IsFiniteSet(rows), NEW mine
  PROVE  LET ahead == {row \in rows \ {mine} : row.at >= mine.at}
         IN  IsFiniteSet(ahead) /\ Cardinality(ahead) \in Nat
<1> DEFINE ahead == {row \in rows \ {mine} : row.at >= mine.at}
<1>1. ahead \in SUBSET rows
  OBVIOUS
<1> HIDE DEF ahead
<1>2. IsFiniteSet(ahead)
  BY <1>1, FS_Subset
<1>3. Cardinality(ahead) \in Nat
  BY <1>2, FS_CardinalityType
<1> QED
  BY <1>2, <1>3 DEF ahead

\* A row is left out of a reading only when as many as it may hold come before it.
LEMMA LeftOut ==
  ASSUME Inv, NEW rows \in RecentEvents(Limit), NEW mine \in table, mine \notin rows
  PROVE  Cardinality(Ahead(mine)) >= Limit
<1>1. Limit \in Nat /\ IsFiniteSet(table) /\ Cardinality(table) \in Nat
  BY LifecycleAssumption, FS_CardinalityType DEF Inv
<1>2. /\ rows \in SUBSET table
      /\ Cardinality(rows) = IF Cardinality(table) < Limit THEN Cardinality(table) ELSE Limit
      /\ \A row \in rows : row.at >= mine.at
  BY DEF RecentEvents
<1>3. Cardinality(rows) = Limit
  <2>1. Cardinality(rows) # Cardinality(table)
    BY <1>1, <1>2, FS_Subset
  <2> QED
    BY <1>2, <2>1
<1>4. rows \in SUBSET Ahead(mine)
  BY <1>2 DEF Ahead
<1>5. IsFiniteSet(Ahead(mine)) /\ Cardinality(Ahead(mine)) \in Nat
  BY <1>1, AheadFinite DEF Ahead
<1>6. Cardinality(rows) <= Cardinality(Ahead(mine))
  BY <1>4, <1>5, FS_Subset
<1> QED
  BY <1>1, <1>3, <1>5, <1>6

\* As long as a row is kept, those that come before it are.
LEMMA AheadKept ==
  ASSUME Inv, [Next]_vars, NEW mine \in table, mine \in table'
  PROVE  Ahead(mine) \subseteq Ahead(mine)'
<1> SUFFICES ASSUME NEW row \in Ahead(mine), row \notin table'
             PROVE  FALSE
  BY DEF Ahead
<1>1. row \in table /\ row.at >= mine.at
  BY DEF Ahead
<1>2. now \in Nat /\ row.at \in Nat /\ mine.at \in Nat
  BY <1>1, AuditLogAssumption DEF Inv, TypeOK, Rows
<1>3. Open /\ Expired(row.at)
  BY <1>1, RowKept
<1>4. Expired(mine.at)
  BY <1>1, <1>2, <1>3, OlderExpiresFirst
<1> QED
  BY <1>3, <1>4 DEF Open

LEMMA ShownStep == Inv /\ Inv' /\ RecordedUnlessCut /\ RefreshShowsAction /\ [Next]_vars => RefreshShowsAction'
<1> SUFFICES ASSUME Inv, Inv', RecordedUnlessCut, RefreshShowsAction, [Next]_vars,
                    NEW r \in Requests \ (gone' \union cut' \union hit' \union shown'), pc'[r] = "settled",
                    ~(now' > Year)
             PROVE  \E mine \in table' : /\ OwnRow(mine, r)
                                         /\ Cardinality(Ahead(mine)') >= Limit
  BY DEF RefreshShowsAction, Ahead, OwnRow
<1>1. r \in Requests \ (gone \union cut \union hit \union shown)
  BY Monotone
<1>2. ~(now > Year) /\ Limit \in Nat
  <2>1. now \in Nat /\ now' \in Nat /\ Year \in Nat /\ now <= now' /\ Limit \in Nat
    BY Monotone, AuditLogAssumption, LifecycleAssumption DEF Inv, TypeOK
  <2> QED
    BY <2>1
<1>3. CASE pc[r] = "settled"
  <2>1. PICK mine \in table : /\ OwnRow(mine, r)
                              /\ Cardinality(Ahead(mine)) >= Limit
    BY <1>1, <1>2, <1>3 DEF RefreshShowsAction, Ahead
  <2>2. mine \in table'
    BY <1>2, RowLost
  <2>3. Ahead(mine) \in SUBSET Ahead(mine)'
    BY <2>2, AheadKept
  <2>4. /\ IsFiniteSet(Ahead(mine)') /\ Cardinality(Ahead(mine)') \in Nat
        /\ Cardinality(Ahead(mine)) \in Nat
    BY AheadFinite DEF Inv, Ahead
  <2>5. Cardinality(Ahead(mine)) <= Cardinality(Ahead(mine)')
    BY <2>3, <2>4, FS_Subset
  <2>6. Cardinality(Ahead(mine)') >= Limit
    BY <1>2, <2>1, <2>4, <2>5
  <2> QED
    BY <2>1, <2>2, <2>6
<1>4. CASE pc[r] # "settled"
  <2>1. Refresh(r)
    <3>1. ASSUME Record(r) \/ RecordFails(r) PROVE pc'[r] = "refresh"
      BY <1>1, <3>1 DEF Record, RecordFails, Answer, Goto, Inv, TypeOK
    <3> QED
      BY <1>1, <1>4, <3>1, Moves DEF InFlight
  <2>2. PICK rows \in RecentEvents(Limit) :
          shown' = IF \E row \in rows : OwnRow(row, r) THEN shown \union {r} ELSE shown
    BY <2>1 DEF Refresh
  <2>3. pc[r] \in Answered /\ table' = table
    BY <2>1 DEF Refresh, Answered, auditVars
  <2>4. PICK mine \in table : OwnRow(mine, r)
    BY <1>1, <1>2, <2>3 DEF RecordedUnlessCut
  <2>5. mine \notin rows
    BY <2>2, <2>4
  <2>6. Cardinality(Ahead(mine)) >= Limit
    BY <2>5, LeftOut
  <2>7. Ahead(mine)' = Ahead(mine)
    BY <2>3 DEF Ahead
  <2> QED
    BY <2>3, <2>4, <2>6, <2>7
<1> QED
  BY <1>3, <1>4

\* The activity log that a browser loads because of an action shows its row, unless
\* Limit rows of its moment or later come before it, even where loading it failed
\* first; this stays true as rows are added and deleted.
THEOREM Shown == Spec => []RefreshShowsAction
<1>1. Init => RefreshShowsAction
  BY DEF Init, RefreshShowsAction
<1> QED
  BY <1>1, ShownStep, Recorded, Invariance, PTL DEF Spec
=============================================================================
