------------------------------ MODULE BmcClient ------------------------------
(***************************************************************************)
(* internal/bmc/redfish.go: the Redfish client.  One mutex serialises every *)
(* call; the session is kept between calls, dropped when a request fails   *)
(* and re-established by the next use.  A call is a sequence of HTTP       *)
(* requests, each of which may fail: the link may be down, the BMC may     *)
(* refuse it or its answer may be lost, and the BMC may have forgotten the *)
(* session (it expired, or the BMC restarted).  Logging in and logging out *)
(* are requests like the others.                                           *)
(***************************************************************************)
EXTENDS Naturals

CONSTANTS
    Callers,    \* goroutines that use the client
    NoOne,      \* the mutex is free
    Slots,      \* external: sessions the BMC keeps at a time, at most
    MaxFaults   \* bound: link failures, failed requests and crashes in a behaviour

ASSUME ClientAssumption ==
    MaxFaults \in Nat /\ Slots \in Nat \ {0} /\ NoOne \notin Callers

VARIABLES
    mutex,      \* who holds c.mu
    session,    \* c.client is not nil
    known,      \* c.supportedResets has been filled
    phase,      \* run() in main.go: discovers, serves, closes, ends
    pc, call,   \* where each caller stands, and in which method
    result,     \* how each idle caller's last call ended
    up,         \* external: the BMC answers
    accepted,   \* external: the BMC still knows the client's session
    live,       \* external: sessions the BMC keeps open
    old,        \* external: how many of them earlier processes had left at the start
    faults,     \* bound: faults so far
    disturbed,  \* history: a fault has hit the call in progress
    sent,       \* history: resets the BMC has executed for the call in progress
    late        \* history: a call has taken the mutex after Close gave it back

bmcVars == <<up, accepted, live, old, faults>>
callVars == <<pc, call, result>>
histVars == <<disturbed, sent, late>>
vars == <<mutex, session, known, phase, callVars, bmcVars, histVars>>

\* GetStatus, resetAction, GetSensors, GetTaskInfo, DiscoverCapabilities,
\* SupportsReset (and FirmwareVersion), Close
Calls == {"status", "reset", "sensors", "task", "discover", "supports", "close"}
\* The methods that answer a failed first request with a new session.
Retried == {"status", "reset", "sensors"}
Outcomes == {"none", "ok", "error"}

\* All variables keep their types: among them, no session is logged out twice,
\* so the BMC never keeps fewer than none.
TypeOK ==
    /\ mutex \in Callers \union {NoOne}
    /\ session \in BOOLEAN
    /\ known \in BOOLEAN
    /\ phase \in {"starting", "serving", "closing", "closed", "ended"}
    /\ pc \in [Callers -> {"idle", "wait", "session", "first", "renew", "reconnect", "retry",
                           "reset", "types", "abandon"}]
    /\ call \in [Callers -> Calls \union {"none"}]
    /\ result \in [Callers -> Outcomes]
    /\ up \in BOOLEAN
    /\ accepted \in BOOLEAN
    /\ live \in 0 .. Slots
    /\ old \in 0 .. Slots
    /\ faults \in 0 .. MaxFaults
    /\ disturbed \in BOOLEAN
    /\ sent \in Nat
    /\ late \in BOOLEAN

Init ==
    /\ mutex = NoOne
    /\ session = FALSE
    /\ known = FALSE
    /\ phase = "starting"
    /\ pc = [p \in Callers |-> "idle"]
    /\ call = [p \in Callers |-> "none"]
    /\ result = [p \in Callers |-> "none"]
    /\ up \in BOOLEAN
    /\ accepted = FALSE
    /\ old \in 0 .. Slots
    /\ live = old
    /\ faults = 0
    /\ disturbed = FALSE
    /\ sent = 0
    /\ late = FALSE

-----------------------------------------------------------------------------
(* The link and the BMC *)

CountFault == faults < MaxFaults /\ faults' = faults + 1

\* A fault counts against the call that holds the mutex.
Disturb == disturbed' = (mutex # NoOne)

LinkFails ==
    /\ up /\ CountFault /\ Disturb
    /\ up' = FALSE
    /\ UNCHANGED <<mutex, session, known, phase, callVars, accepted, live, old, sent, late>>

LinkReturns ==
    /\ ~up
    /\ up' = TRUE
    /\ UNCHANGED <<mutex, session, known, phase, callVars, accepted, live, old, faults, histVars>>

\* The BMC drops the client's session on its own: it idled too long or the BMC
\* restarted.  It happens to every session in time and is no fault.
SessionExpires ==
    /\ accepted /\ Disturb
    /\ accepted' = FALSE
    /\ live' = live - 1
    /\ UNCHANGED <<mutex, session, known, phase, callVars, up, old, faults, sent, late>>

\* So does one nobody uses any more.
OrphanExpires ==
    /\ live > IF accepted THEN 1 ELSE 0
    /\ live' = live - 1
    /\ UNCHANGED <<mutex, session, known, phase, callVars, up, accepted, old, faults, histVars>>

-----------------------------------------------------------------------------
(* Steps of a call *)

Goto(p, from, to) == pc[p] = from /\ pc' = [pc EXCEPT ![p] = to]

\* c.mu is released by the deferred Unlock, whatever the outcome.
Return(p, outcome) ==
    /\ pc' = [pc EXCEPT ![p] = "idle"]
    /\ call' = [call EXCEPT ![p] = "none"]
    /\ result' = [result EXCEPT ![p] = outcome]
    /\ mutex' = NoOne

Start(p, m) ==
    /\ Goto(p, "idle", "wait")
    /\ call' = [call EXCEPT ![p] = m]
    /\ result' = [result EXCEPT ![p] = "none"]
    /\ UNCHANGED <<mutex, session, known, bmcVars, histVars>>

\* run() discovers the capabilities before anything is served, ...
StartDiscovery(p) ==
    /\ phase = "starting"
    /\ Start(p, "discover")
    /\ phase' = "serving"

Discovered == \A q \in Callers : call[q] # "discover"

\* ... handlers call the client as they like once discovery is over, those the
\* shutdown did not wait for even while run() closes it, ...
StartCall(p) ==
    /\ phase \in {"serving", "closing", "closed"} /\ Discovered
    /\ \E m \in {"status", "reset", "sensors", "task", "supports"} : Start(p, m)
    /\ UNCHANGED phase

\* ... and the deferred Close does not wait for the calls in flight.
StartClose(p) ==
    /\ phase = "serving" /\ Discovered
    /\ Start(p, "close")
    /\ phase' = "closing"

Lock(p) ==
    /\ mutex = NoOne
    /\ Goto(p, "wait", "session")
    /\ mutex' = p
    /\ disturbed' = ~up
    /\ sent' = 0
    /\ late' = (late \/ phase = "closed")
    /\ UNCHANGED <<session, known, phase, call, result, bmcVars>>

\* SupportsReset and FirmwareVersion only read what the client remembers.
ReadMemory(p) ==
    /\ pc[p] = "session" /\ call[p] = "supports"
    /\ Return(p, "ok")
    /\ UNCHANGED <<session, known, phase, bmcVars, histVars>>

\* A login needs a slot that is free.
Connected ==
    /\ up /\ live < Slots
    /\ session' = TRUE /\ accepted' = TRUE /\ live' = live + 1
    /\ UNCHANGED <<up, old, faults>>

Networked(p) == call[p] \notin {"none", "supports", "close"}

\* session(): the one we have, ...
Reuse(p) ==
    /\ Networked(p) /\ session
    /\ Goto(p, "session", "first")
    /\ UNCHANGED <<mutex, session, known, phase, call, result, bmcVars, histVars>>

\* ... or a new one, ...
Connect(p) ==
    /\ Networked(p) /\ ~session
    /\ \/ Goto(p, "session", "first")
       \/ Goto(p, "reconnect", "retry")
    /\ Connected
    /\ UNCHANGED <<mutex, known, phase, call, result, histVars>>

\* Mutant: connecting is tried again until the BMC answers.
ConnectAgain(p) ==
    /\ Networked(p) /\ ~session /\ ~up
    /\ pc[p] \in {"session", "reconnect"}
    /\ disturbed' = TRUE
    /\ UNCHANGED <<mutex, session, known, phase, callVars, bmcVars, sent, late>>

\* The BMC cannot be reached, has no slot left, or fails the login: it refuses
\* it, or keeps a session whose answer is lost.
LoginFails ==
    \/ ~up /\ disturbed' = TRUE /\ UNCHANGED <<live, faults>>
    \/ up /\ live = Slots /\ UNCHANGED <<live, faults, disturbed>>
    \/ /\ up /\ CountFault /\ disturbed' = TRUE
       /\ live' \in {live, live + 1} /\ live' <= Slots

\* ... or an error, whatever made the login fail.
ConnectFails(p) ==
    /\ Networked(p) /\ ~session
    /\ pc[p] \in {"session", "reconnect"}
    /\ Return(p, "error")
    /\ LoginFails
    /\ UNCHANGED <<session, known, phase, up, accepted, old, sent, late>>

\* A request under the current session is answered, or not: the link is down,
\* the session is stale, or the answer is an error or an empty list.
Answered == up /\ accepted
Unanswered ==
    \/ ~Answered /\ disturbed' = (disturbed \/ ~up) /\ UNCHANGED faults
    \/ Answered /\ CountFault /\ disturbed' = TRUE

\* Mutant: the session is forgotten without a Logout.
DisconnectSilently ==
    /\ session' = FALSE
    /\ accepted' = FALSE
    /\ UNCHANGED <<up, live, old, faults, histVars>>

\* Mutant: a session the BMC has forgotten is counted as logged out again.
DisconnectTwice ==
    /\ session' = FALSE
    /\ accepted' = FALSE
    /\ live' = IF session THEN live - 1 ELSE live
    /\ UNCHANGED <<up, old, faults, histVars>>

\* Logout is a request too, and its error is ignored: when it does not get
\* through, the BMC keeps a session nobody will use again.
Disconnect ==
    /\ session' = FALSE
    /\ accepted' = FALSE
    /\ \/ Answered /\ live' = live - 1 /\ UNCHANGED faults
       \/ Answered /\ CountFault /\ UNCHANGED live
       \/ ~Answered /\ UNCHANGED <<live, faults>>
    /\ UNCHANGED <<up, old, histVars>>

\* A request of the call in progress failed; the client keeps its session.
Failed == Unanswered /\ UNCHANGED <<session, known, phase, up, accepted, live, old, late>>

\* Systems or Chassis is answered: the call has what it came for, except that
\* a reset is still to be sent and reset types are still to be read.
FirstAnswered(p) ==
    /\ pc[p] \in {"first", "retry"}
    /\ Answered
    /\ \/ call[p] \in {"status", "sensors", "task"} /\ Return(p, "ok")
       \/ /\ call[p] \in {"reset", "discover"}
          /\ pc' = [pc EXCEPT ![p] = IF call[p] = "reset" THEN "reset" ELSE "types"]
          /\ UNCHANGED <<mutex, call, result>>
    /\ UNCHANGED <<session, known, phase, bmcVars, histVars>>

\* Mutant: a failed first request ends the call.
FirstFailsForGood(p) ==
    /\ call[p] \in Retried
    /\ Goto(p, "first", "abandon")
    /\ Failed
    /\ UNCHANGED <<mutex, call, result, sent>>

\* The session may be stale: drop it, reconnect and retry once, ...
FirstFails(p) ==
    /\ call[p] \in Retried
    /\ Goto(p, "first", "renew")
    /\ Failed
    /\ UNCHANGED <<mutex, call, result, sent>>

Renew(p) ==
    /\ Goto(p, "renew", "reconnect")
    /\ Disconnect
    /\ UNCHANGED <<mutex, known, phase, call, result>>

\* Mutant: a failed retry keeps the session.
RetryFailsConnected(p) ==
    /\ pc[p] = "retry"
    /\ Return(p, "error")
    /\ Failed
    /\ UNCHANGED sent

\* ... and give up when that fails too, ...
RetryFails(p) ==
    /\ Goto(p, "retry", "abandon")
    /\ Failed
    /\ UNCHANGED <<mutex, call, result, sent>>

\* ... without the session.
Abandon(p) ==
    /\ pc[p] = "abandon"
    /\ Return(p, "error")
    /\ Disconnect
    /\ UNCHANGED <<known, phase>>

\* GetTaskInfo and DiscoverCapabilities give up at once and keep the session.
GiveUp(p) ==
    /\ call[p] \notin Retried
    /\ pc[p] \in {"first", "types"}
    /\ Return(p, "error")
    /\ Failed
    /\ UNCHANGED sent

LearnTypes(p) ==
    /\ pc[p] = "types"
    /\ Answered
    /\ Return(p, "ok")
    /\ known' = TRUE
    /\ UNCHANGED <<session, phase, bmcVars, histVars>>

ResetAnswered(p) ==
    /\ pc[p] = "reset"
    /\ Answered
    /\ Return(p, "ok")
    /\ sent' = sent + 1
    /\ UNCHANGED <<session, known, phase, bmcVars, disturbed, late>>

\* Mutant: a failed reset is retried under a new session.
ResetRetried(p) ==
    /\ Goto(p, "reset", "renew")
    /\ sent' \in IF Answered THEN {sent, sent + 1} ELSE {sent}
    /\ Failed
    /\ UNCHANGED <<mutex, call, result>>

\* The reset is refused, or carried out and its answer lost.
ResetFails(p) ==
    /\ Goto(p, "reset", "abandon")
    /\ sent' \in IF Answered THEN {sent, sent + 1} ELSE {sent}
    /\ Failed
    /\ UNCHANGED <<mutex, call, result>>

\* Mutant: the client is closed without dropping its session.
CloseKeepsSession(p) ==
    /\ pc[p] = "session" /\ call[p] = "close"
    /\ Return(p, "ok")
    /\ phase' = "closed"
    /\ UNCHANGED <<session, known, bmcVars, histVars>>

\* Close drops the session.
Close(p) ==
    /\ pc[p] = "session" /\ call[p] = "close"
    /\ Return(p, "ok")
    /\ Disconnect
    /\ phase' = "closed"
    /\ UNCHANGED <<known>>

Step(p) ==
    \/ ReadMemory(p) \/ Reuse(p) \/ Connect(p) \/ ConnectFails(p)
    \/ FirstAnswered(p) \/ FirstFails(p) \/ Renew(p) \/ RetryFails(p) \/ Abandon(p)
    \/ GiveUp(p) \/ LearnTypes(p) \/ ResetAnswered(p) \/ ResetFails(p) \/ Close(p)

\* The process ends, calls in flight with it; the BMC is told nothing.
Die ==
    /\ phase' = "ended"
    /\ mutex' = NoOne
    /\ session' = FALSE /\ accepted' = FALSE
    /\ known' = FALSE
    /\ pc' = [p \in Callers |-> "idle"]
    /\ call' = [p \in Callers |-> "none"]
    /\ UNCHANGED <<result, up, live, old, histVars>>

\* run() ends once the client is closed, ...
Exit == phase = "closed" /\ Die /\ UNCHANGED faults

\* ... or the process is killed.
Crash == phase # "ended" /\ Die /\ CountFault

Terminated == phase = "ended" /\ UNCHANGED vars

Next ==
    \/ LinkFails \/ LinkReturns \/ SessionExpires \/ OrphanExpires
    \/ \E p \in Callers :
         \/ StartDiscovery(p) \/ StartCall(p) \/ StartClose(p)
         \/ Lock(p) \/ Step(p)
    \/ Exit \/ Crash \/ Terminated

Spec == Init /\ [][Next]_vars

\* Every HTTP request has a timeout, and Go's mutex serves its waiters in turn.
Fairness == \A p \in Callers : WF_vars(Step(p)) /\ SF_vars(Lock(p))
FairSpec == Spec /\ Fairness

-----------------------------------------------------------------------------
(* Properties *)

\* A call ends, other than by the end of the process.
Ends(p) == mutex = p /\ mutex' # p /\ phase' # "ended"

\* However requests fail, one PowerOn, PowerOff, GracefulShutdown or PowerCycle
\* never makes the BMC execute two resets: the retry covers Systems only.
ResetAtMostOnce == sent <= 1

\* A session that went stale before the call began never makes GetStatus,
\* GetSensors or a power command fail: an error means that the link failed, the
\* BMC failed a request or dropped the new session during the call, or that
\* sessions left behind fill its slots.
StaleSessionHealed ==
    [][\A p \in Callers :
         Ends(p) /\ call[p] \in Retried /\ result'[p] = "error" =>
             disturbed' \/ live' = Slots]_vars

\* A call that retries and still fails leaves the client without a session, so
\* that "the next call reconnects" (comment on disconnect).
ErrorDropsSession ==
    [][\A p \in Callers :
         Ends(p) /\ call[p] \in Retried /\ result'[p] = "error" => ~session']_vars

\* When Close returns, the only sessions the BMC may still keep are those of
\* earlier processes and one for each fault: a login or a logout that failed, or
\* a link that was down.  No sequence of calls leaks one otherwise.
CloseLeavesNoSession ==
    [][\A p \in Callers : Ends(p) /\ call[p] = "close" => live' <= old + faults']_vars

\* A process that has ended leaves at most one session more than that, and only
\* when a handler which the shutdown did not wait for called the client after
\* Close; without one, a stop by SIGTERM leaves none but for faults.
SessionLeftByHandler ==
    phase = "ended" => live <= old + faults + IF late THEN 1 ELSE 0

\* Every call returns: the mutex is released on all paths.
CallsReturn == \A p \in Callers : pc[p] # "idle" ~> pc[p] = "idle"
=============================================================================
