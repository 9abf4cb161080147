------------------------------ MODULE Lifecycle ------------------------------
(***************************************************************************)
(* main.go's run() from start to exit, and what runs beside it: handlers   *)
(* of power actions, streams of handleSSE, the one mutex of the Redfish    *)
(* client, the audit log on a disk that may fail.  run() ends when         *)
(* ListenAndServe returns, which Shutdown causes at once: it waits for no  *)
(* handler.  systemd starts the program again whenever it has ended.       *)
(***************************************************************************)
EXTENDS AuditLog, TailscaleUser

CONSTANTS
    Requests,   \* power actions that checkCooldown admits
    Origins,    \* where they come from: [from |-> a device, request |-> its head]
    Past,       \* rows of earlier runs, of tick 0 and no request of these
    Impatient,  \* requests whose browser may leave before the answer
    Limit,      \* rows of the activity log, 10 in the code
    NoOne,
    Main,       \* run() itself
    Streams,    \* the SSE handlers there may be at a time
    MaxStops,   \* bound: signals, updates, crashes and failures of the disk
    MaxFaults   \* bound: only the first MaxFaults of them may be crashes or failures

ASSUME LifecycleAssumption ==
    /\ Impatient \subseteq Requests
    /\ \A o \in Origins : /\ o.from \in DOMAIN Node
                          /\ \/ o.request = Served(o.from)
                             \/ o.request = Direct(o.from, o.request.header)
    /\ Limit \in Nat /\ MaxStops \in Nat /\ MaxFaults \in Nat
    /\ NoOne # Main
    /\ {NoOne, Main} \intersect (Streams \union Requests) = {}
    /\ Streams \intersect Requests = {}

VARIABLES
    phase,    \* how far run() is
    done,     \* ctx is done
    disk,     \* external: the store's file can be read and written; if not, its calls may fail
    lock,     \* who holds the mutex of the Redfish client
    stream,   \* what each SSE handler does, closed when there is none
    task,     \* its copy of the transition, while it logs a failed task
    transition, \* the action whose transition is in force, as an event
    pc,       \* how far each request is
    who, ok,  \* while it is in flight: its user, [from, user], and callErr = nil
    sent,     \* requests whose command has gone out
    gone,     \* requests whose browser has left
    cut,      \* requests in flight when their process stopped serving or died
    hit,      \* requests in flight while the disk failed
    shown,    \* requests whose browser has seen their row after the answer
    stops     \* bound: signals, updates, crashes and failures so far

procVars == <<phase, done, disk, stops>>
requestVars == <<pc, who, ok, sent, gone, cut, hit, shown>>
streamVars == <<stream, task, transition>>
vars == <<auditVars, procVars, lock, streamVars, requestVars>>

Findings == {"nothing new", "confirmed", "failed"}
InFlight == {"command", "locked", "log"}
Answered == {"refresh", "unloaded", "settled"}
Users == [from : DOMAIN Node, user : {Owner(addr) : addr \in DOMAIN Node} \union {Unknown}]
Nobody == [from |-> NotGiven, user |-> NotGiven]

\* A row has no column for its writer, the action's handler or a stream; here it
\* tells rows of one tick apart, as their ids do.
Events == [request : Requests \union {NoOne}, who : Users, success : BOOLEAN,
           by : Requests \union Streams \union {NoOne}]
NoEvent == [request |-> NoOne, who |-> Nobody, success |-> FALSE, by |-> NoOne]

ASSUME PastAssumption ==
    /\ Past \subseteq Rows(Events) /\ IsFiniteSet(Past)
    /\ \A row \in Past : row.at = 0 /\ row.event.request = NoOne

\* All variables keep their types.
TypeOK ==
    /\ now \in 0 .. MaxTime
    /\ table \subseteq Rows(Events)
    /\ open \in BOOLEAN
    /\ phase \in {"down", "discovering", "serving", "returned", "closing", "ending"}
    /\ done \in BOOLEAN
    /\ disk \in BOOLEAN
    /\ lock \in {NoOne, Main} \union Streams \union Requests
    /\ stream \in [Streams -> {"closed", "waiting", "polling", "failing"}]
    /\ task \in [Streams -> Events \union {NoEvent}]
    /\ transition \in Events \union {NoEvent}
    /\ pc \in [Requests -> {"idle", "lost"} \union InFlight \union Answered]
    /\ who \in [Requests -> Users \union {Nobody}]
    /\ sent \subseteq Requests /\ ok \subseteq Requests
    /\ gone \subseteq Impatient /\ cut \subseteq Requests
    /\ hit \subseteq Requests /\ shown \subseteq Requests
    /\ stops \in 0 .. MaxStops

Init ==
    /\ AuditInit(Past)
    /\ phase = "down" /\ done = FALSE /\ disk = TRUE /\ stops = 0
    /\ lock = NoOne
    /\ stream = [s \in Streams |-> "closed"]
    /\ task = [s \in Streams |-> NoEvent]
    /\ transition = NoEvent
    /\ pc = [r \in Requests |-> "idle"]
    /\ who = [r \in Requests |-> Nobody]
    /\ sent = {} /\ ok = {} /\ gone = {} /\ cut = {} /\ hit = {} /\ shown = {}

Alive == phase # "down"
Goto(r, from, to) == pc[r] = from /\ pc' = [pc EXCEPT ![r] = to]
EventOf(r) == [request |-> r, who |-> who[r], success |-> r \in ok, by |-> r]
Busy == {r \in Requests : pc[r] \in InFlight}

-----------------------------------------------------------------------------
(* run() *)

\* config.Load and db.Open, whose last step is the retention; when one fails,
\* run() returns, nothing has changed, and systemd tries again.
Start ==
    /\ phase = "down"
    /\ phase' = "discovering"
    /\ Open
    /\ lock' = Main
    /\ UNCHANGED <<done, disk, stops, streamVars, requestVars>>

\* Mutant: a server without its BMC does not start.
DiscoverOrDie ==
    /\ phase = "discovering"
    /\ phase' \in {"serving", "returned"}
    /\ lock' = NoOne
    /\ UNCHANGED <<auditVars, done, disk, stops, streamVars, requestVars>>

\* DiscoverCapabilities; that it may fail makes no difference.
Discover ==
    /\ phase = "discovering"
    /\ phase' = "serving"
    /\ lock' = NoOne
    /\ UNCHANGED <<auditVars, done, disk, stops, streamVars, requestVars>>

Cancel ==
    /\ Alive /\ ~done /\ stops < MaxStops
    /\ done' = TRUE /\ stops' = stops + 1
    /\ UNCHANGED <<auditVars, phase, disk, lock, streamVars, requestVars>>

\* Mutant: run() waits for every handler, the streams too.
AwaitHandlers ==
    /\ phase = "serving" /\ done
    /\ Busy = {} /\ \A s \in Streams : stream[s] = "closed"
    /\ phase' = "returned"
    /\ UNCHANGED <<auditVars, done, disk, stops, lock, streamVars, requestVars>>

\* Shutdown closes the listener, and ListenAndServe returns at once.
StopServing ==
    /\ phase = "serving" /\ done
    /\ phase' = "returned"
    /\ cut' = cut \union Busy
    /\ UNCHANGED <<auditVars, done, disk, stops, lock, streamVars, pc, who, ok, sent, gone, hit, shown>>

\* The deferred calls in their order: bmcClient.Close, once the mutex is free, ...
CloseClient ==
    /\ phase = "returned" /\ lock = NoOne
    /\ phase' = "closing"
    /\ UNCHANGED <<auditVars, done, disk, stops, lock, streamVars, requestVars>>

\* ... and store.Close, while handlers still run.
CloseStore ==
    /\ phase = "closing"
    /\ phase' = "ending"
    /\ Close
    /\ UNCHANGED <<done, disk, stops, lock, streamVars, requestVars>>

\* The process is gone with all its goroutines; a commit is in the WAL.
Die ==
    /\ phase' = "down" /\ done' = FALSE
    /\ open' = FALSE /\ UNCHANGED <<now, table>>
    /\ lock' = NoOne
    /\ stream' = [s \in Streams |-> "closed"]
    /\ task' = [s \in Streams |-> NoEvent]
    /\ transition' = NoEvent
    /\ pc' = [r \in Requests |-> IF pc[r] \in InFlight THEN "lost" ELSE pc[r]]
    /\ cut' = cut \union Busy
    /\ who' = [r \in Requests |-> Nobody] /\ ok' = {}
    /\ UNCHANGED <<disk, sent, gone, hit, shown>>

Exit == phase = "ending" /\ Die /\ UNCHANGED stops

CountFault == stops < MaxStops /\ stops < MaxFaults /\ stops' = stops + 1
Crash == Alive /\ CountFault /\ Die

\* The disk is full or fails; what is committed stays.
DiskFails ==
    /\ disk /\ CountFault
    /\ disk' = FALSE
    /\ hit' = hit \union Busy
    /\ UNCHANGED <<auditVars, phase, done, lock, streamVars, pc, who, ok, sent, gone, cut, shown>>

DiskReturns ==
    /\ ~disk /\ disk' = TRUE
    /\ UNCHANGED <<auditVars, phase, done, stops, lock, streamVars, requestVars>>

-----------------------------------------------------------------------------
(* handleSSE: a poll uses the Redfish client and may find a task failed *)

Become(s, from, to) == stream[s] = from /\ stream' = [stream EXCEPT ![s] = to]

Connect(s) ==
    /\ phase = "serving"
    /\ Become(s, "closed", "waiting")
    /\ UNCHANGED <<auditVars, procVars, lock, task, transition, requestVars>>

Disconnect(s) ==
    /\ Become(s, "waiting", "closed")
    /\ UNCHANGED <<auditVars, procVars, lock, task, transition, requestVars>>

Poll(s) ==
    /\ lock = NoOne
    /\ Become(s, "waiting", "polling")
    /\ lock' = s
    /\ UNCHANGED <<auditVars, procVars, task, transition, requestVars>>

\* The transition is confirmed or too old, or its task has failed, or neither.
EndPoll(s, found) ==
    /\ found \in {"failed", "confirmed"} => transition # NoEvent
    /\ Become(s, "polling", IF found = "failed" THEN "failing" ELSE "waiting")
    /\ task' = [task EXCEPT ![s] = IF found = "failed" THEN transition ELSE NoEvent]
    /\ transition' = IF found = "confirmed" THEN NoEvent ELSE transition
    /\ lock' = NoOne
    /\ UNCHANGED <<auditVars, procVars, requestVars>>

\* LogEvent for the copy, which may fail for whatever reason, and then
\* clearTransition for whatever is in force.
LogFailure(s) ==
    /\ Become(s, "failing", "waiting")
    /\ LogEvent([task[s] EXCEPT !.success = FALSE, !.by = s]) \/ UNCHANGED auditVars
    /\ task' = [task EXCEPT ![s] = NoEvent]
    /\ transition' = NoEvent
    /\ UNCHANGED <<procVars, lock, requestVars>>

-----------------------------------------------------------------------------
(* handlePowerAction, once checkCooldown has let it pass *)

\* Mutant: the user is looked up for the log line only.
PostUnidentified(r, origin, answers) ==
    /\ phase = "serving"
    /\ Goto(r, "idle", "command")
    /\ hit' = IF disk THEN hit ELSE hit \union {r}
    /\ UNCHANGED <<auditVars, procVars, lock, streamVars, who, sent, ok, gone, cut, shown>>

\* The request is identified before anything else happens to it.
Post(r, origin, answers) ==
    /\ phase = "serving"
    /\ Goto(r, "idle", "command")
    /\ who' = [who EXCEPT ![r] = [from |-> origin.from, user |-> UserOf(origin.request, answers)]]
    /\ hit' = IF disk THEN hit ELSE hit \union {r}
    /\ UNCHANGED <<auditVars, procVars, lock, streamVars, sent, ok, gone, cut, shown>>

TakeClient(r) ==
    /\ lock = NoOne
    /\ Goto(r, "command", "locked")
    /\ lock' = r
    /\ UNCHANGED <<auditVars, procVars, streamVars, who, ok, sent, gone, cut, hit, shown>>

\* The command goes out, to the BMC or by Wake-on-LAN, and succeeds, or fails
\* before or after it has gone out.
Command(r, reached, answered) ==
    /\ answered => reached
    /\ Goto(r, "locked", "log")
    /\ lock' = NoOne
    /\ sent' = IF reached THEN sent \union {r} ELSE sent
    /\ ok' = IF answered THEN ok \union {r} ELSE ok
    /\ UNCHANGED <<auditVars, procVars, streamVars, who, gone, cut, hit, shown>>

\* A success puts its transition in force, and every answer makes the page load
\* the activity log again (HX-Trigger).
Answer(r) ==
    /\ transition' = IF r \in ok THEN EventOf(r) ELSE transition
    /\ Goto(r, "log", IF r \in gone THEN "settled" ELSE "refresh")
    /\ who' = [who EXCEPT ![r] = Nobody]
    /\ ok' = ok \ {r}

\* Mutant: only a command that succeeds is an event.
RecordSuccess(r) ==
    /\ r \notin gone
    /\ IF r \in ok THEN LogEvent(EventOf(r)) ELSE UNCHANGED auditVars
    /\ Answer(r)
    /\ UNCHANGED <<procVars, lock, stream, task, sent, gone, cut, hit, shown>>

Record(r) ==
    /\ r \notin gone
    /\ LogEvent(EventOf(r))
    /\ Answer(r)
    /\ UNCHANGED <<procVars, lock, stream, task, sent, gone, cut, hit, shown>>

\* The insert fails, since the request's context is done, the store is closed or
\* the disk fails: the handler writes a line to the log and answers as if nothing
\* had happened.
RecordFails(r) ==
    /\ ~open \/ r \in gone \/ ~disk
    /\ Answer(r)
    /\ UNCHANGED <<auditVars, procVars, lock, stream, task, sent, gone, cut, hit, shown>>

OwnRow(row, r) == row.event.request = r /\ row.event.by = r

\* handleEventsFragment, which the page requests again when it has failed: every
\* 30 seconds and by the Retry of the error it shows.
Refresh(r) ==
    /\ phase = "serving"
    /\ pc[r] \in {"refresh", "unloaded"} /\ pc' = [pc EXCEPT ![r] = "settled"]
    /\ \E rows \in RecentEvents(Limit) :
         shown' = IF \E row \in rows : OwnRow(row, r) THEN shown \union {r} ELSE shown
    /\ UNCHANGED <<auditVars, procVars, lock, streamVars, who, ok, sent, gone, cut, hit>>

RefreshFails(r) ==
    /\ phase = "serving" /\ ~disk
    /\ Goto(r, "refresh", "unloaded")
    /\ UNCHANGED <<auditVars, procVars, lock, streamVars, who, ok, sent, gone, cut, hit, shown>>

Leave(r) ==
    /\ r \in Impatient \ gone /\ pc[r] \in InFlight
    /\ gone' = gone \union {r}
    /\ UNCHANGED <<auditVars, procVars, lock, streamVars, pc, who, ok, sent, cut, hit, shown>>

-----------------------------------------------------------------------------

Clock == Tick /\ UNCHANGED <<procVars, lock, streamVars, requestVars>>

Handler(r) ==
    \/ TakeClient(r)
    \/ \E reached, answered \in BOOLEAN : Command(r, reached, answered)
    \/ Record(r) \/ RecordFails(r)

Next ==
    \/ Clock \/ Start \/ Discover \/ Cancel \/ StopServing \/ CloseClient \/ CloseStore \/ Exit
    \/ Crash \/ DiskFails \/ DiskReturns
    \/ \E s \in Streams :
         \/ Connect(s) \/ Disconnect(s) \/ Poll(s)
         \/ (\E found \in Findings : EndPoll(s, found))
         \/ LogFailure(s)
    \/ \E r \in Requests :
         \/ \E origin \in Origins, answers \in BOOLEAN : Post(r, origin, answers)
         \/ Handler(r) \/ Refresh(r) \/ RefreshFails(r) \/ Leave(r)

Spec == Init /\ [][Next]_vars

\* systemd starts the program and BMC calls end; run() goes on when it can, and
\* gets the mutex in its turn (sync.Mutex queues those who wait for long).  The
\* program can be started for sure only while the disk works, as it does again.
Fairness ==
    /\ WF_vars((disk /\ Start) \/ Discover \/ StopServing \/ CloseStore \/ Exit)
    /\ SF_vars(CloseClient) /\ WF_vars(DiskReturns)
    /\ \A s \in Streams : WF_vars((\E found \in Findings : EndPoll(s, found)) \/ LogFailure(s))
    /\ \A r \in Requests : WF_vars(Handler(r)) /\ SF_vars(TakeClient(r))

FairSpec == Spec /\ Fairness

-----------------------------------------------------------------------------
(* Properties *)

\* "Every power action recorded with user, duration, and outcome": an action
\* whose handler has come past LogEvent has its row, for a year, with the user
\* who asked for it (or unknown) and what became of the command, whatever
\* restarts, failures of the disk and other actions there were.  Left out are
\* those whose insert may fail: their browser has left, or they were in flight
\* when the process stopped serving or while the disk failed.
RecordedUnlessCut ==
    \A r \in Requests \ (gone \union cut \union hit) : pc[r] \in Answered =>
        \/ \E row \in table : OwnRow(row, r)
        \/ now > Year

\* What the table says is true: a row names the user behind the request's way
\* or nobody, a success was sent, and all rows of an action name the same user.
\* Its handler writes one of them at most, and each stream one failure of its task.
TrueRows ==
    \A row \in table : row.event.request # NoOne =>
        /\ row.event.who.user \in {Owner(row.event.who.from), Unknown}
        /\ row.event.success => row.event.request \in sent /\ OwnRow(row, row.event.request)
        /\ \A other \in table : other.event.request = row.event.request =>
             /\ other.event.who = row.event.who
             /\ other.event.by = row.event.by => other = row

\* The toast of an action and the activity log loaded because of it agree,
\* however often loading it failed before, unless Limit other rows of its moment
\* or later have pushed it out.  Left out are the same actions.
RefreshShowsAction ==
    \A r \in Requests \ (gone \union cut \union hit \union shown) : pc[r] = "settled" =>
        \/ now > Year
        \/ \E mine \in table : /\ OwnRow(mine, r)
                               /\ Cardinality({row \in table \ {mine} : row.at >= mine.at}) >= Limit

\* A server that is told to stop ends, whoever is connected: ctx stays done until
\* the process is gone.
Stops == []<>~done

\* After the last signal or crash the server serves for good, whether its BMC
\* answers or not.
Recovers == <>[](phase = "serving" /\ open)

-----------------------------------------------------------------------------
(* What the documents say and the code does not keep *)

\* README.md: "Every power action recorded with user, duration, and outcome in
\* SQLite", with no browser that leaves and no crash, only a graceful shutdown.
EveryActionRecorded ==
    \A r \in sent : pc[r] \in Answered \union {"lost"} =>
        \/ \E row \in table : OwnRow(row, r)
        \/ now > Year
=============================================================================
