------------------------------ MODULE BmcCache ------------------------------
(***************************************************************************)
(* internal/bmc/cache.go: the read-through cache that the SSE handlers     *)
(* share, the power-action handlers that invalidate it, and the BMC behind *)
(* it.  Readers run Get, actors send a power command and then call         *)
(* Invalidate (setTransition in internal/server/server.go).                *)
(*                                                                         *)
(* time.Since(c.updated) is the variable age, in ticks, saturated at       *)
(* MaxAge because the code only compares it with maxAge; the zero time of  *)
(* a new or invalidated cache is infinitely old, which is age = MaxAge.    *)
(* The read-locked section of Get touches nothing but its own result, so   *)
(* it is one step taken while no writer holds the lock.                    *)
(***************************************************************************)
EXTENDS Naturals

CONSTANTS
    Readers,      \* goroutines running Get
    Actors,       \* goroutines running a power action
    NoOne,        \* the write lock is free
    Unreachable,  \* GetStatus returned an error
    NoSensors,    \* the empty SensorData
    MaxAge,       \* maxAge, in ticks
    MaxFetch,     \* bound: ticks a BMC fetch may take (HTTP timeouts)
    MaxEpoch      \* bound: power commands in a behaviour

ASSUME CacheAssumption ==
    /\ MaxAge \in Nat \ {0}
    /\ MaxFetch \in Nat
    /\ MaxEpoch \in Nat
    /\ NoOne \notin Readers
    /\ Unreachable \notin Nat
    /\ NoSensors \notin Nat

VARIABLES
    epoch,      \* external: power commands the BMC has received
    status,     \* c.result.Status and c.result.Err: the epoch sampled, or Unreachable
    sensors,    \* c.result.Sensors: the epoch they were read in, or NoSensors
    age,        \* time.Since(c.updated)
    writer,     \* who holds c.mu for writing
    pc,         \* where each reader stands in Get
    pending,    \* pending[a]: command sent by a, Invalidate not yet called (0: none)
    answer,     \* what each reader's last Get returned
    announced,  \* history: latest command whose Invalidate has returned
    floor,      \* history: announced when the reader called Get
    drift,      \* history: ticks since c.result.Status was sampled, saturated
    quiet,      \* history: ticks since the last fetch began, saturated
    forced      \* history: an Invalidate has run since the last fetch began

serverVars == <<status, sensors, age, writer, pc, answer>>
historyVars == <<announced, floor, drift, quiet, forced>>
vars == <<epoch, pending, serverVars, historyVars>>

Epochs == 0 .. MaxEpoch
Results == [status : Epochs \union {Unreachable}, sensors : Epochs \union {NoSensors}]
MaxDrift == MaxAge + MaxFetch

AtMost(n, bound) == IF n < bound THEN n ELSE bound

\* c.result as Get copies it out.
Result == [status |-> status, sensors |-> sensors]
\* Mutant: age <= maxAge in both checks.
FreshInclusive == age <= MaxAge

Fresh == age < MaxAge

\* All variables keep their types: a failed sensor read leaves no error among
\* the readings, and no counter leaves its bounds.
TypeOK ==
    /\ epoch \in Epochs
    /\ status \in Epochs \union {Unreachable}
    /\ sensors \in Epochs \union {NoSensors}
    /\ age \in 0 .. MaxAge
    /\ writer \in Readers \union {NoOne}
    /\ pc \in [Readers -> {"idle", "check", "lock", "status", "sensors", "publish"}]
    /\ pending \in [Actors -> Epochs]
    /\ answer \in [Readers -> Results]
    /\ announced \in Epochs
    /\ floor \in [Readers -> Epochs]
    /\ drift \in 0 .. MaxDrift
    /\ quiet \in 0 .. MaxDrift
    /\ forced \in BOOLEAN

Init ==
    /\ epoch = 0
    /\ status = Unreachable
    /\ sensors = NoSensors
    /\ age = MaxAge
    /\ writer = NoOne
    /\ pc = [r \in Readers |-> "idle"]
    /\ pending = [a \in Actors |-> 0]
    /\ answer = [r \in Readers |-> [status |-> Unreachable, sensors |-> NoSensors]]
    /\ announced = 0
    /\ floor = [r \in Readers |-> 0]
    /\ drift = 0
    /\ quiet = MaxDrift
    /\ forced = FALSE

-----------------------------------------------------------------------------
(* Get *)

Goto(r, from, to) == pc[r] = from /\ pc' = [pc EXCEPT ![r] = to]

Call(r) ==
    /\ Goto(r, "idle", "check")
    /\ floor' = [floor EXCEPT ![r] = announced]
    /\ UNCHANGED <<epoch, pending, status, sensors, age, writer, answer,
                   announced, drift, quiet, forced>>

Return(r) == answer' = [answer EXCEPT ![r] = Result]

\* Mutant: the age of the result is not looked at.
CheckHitStale(r) ==
    /\ writer = NoOne
    /\ Goto(r, "check", "idle")
    /\ Return(r)
    /\ UNCHANGED <<epoch, pending, status, sensors, age, writer, historyVars>>

\* The section under RLock: a fresh result is returned at once.
CheckHit(r) ==
    /\ writer = NoOne
    /\ Fresh
    /\ Goto(r, "check", "idle")
    /\ Return(r)
    /\ UNCHANGED <<epoch, pending, status, sensors, age, writer, historyVars>>

CheckMiss(r) ==
    /\ writer = NoOne
    /\ ~Fresh
    /\ Goto(r, "check", "lock")
    /\ UNCHANGED <<epoch, pending, status, sensors, age, writer, answer, historyVars>>

\* Mutant: the second check after taking the write lock is missing.
RecheckMissUnchecked(r) ==
    /\ writer = NoOne
    /\ Goto(r, "lock", "status")
    /\ writer' = r
    /\ quiet' = 0
    /\ forced' = FALSE
    /\ UNCHANGED <<epoch, pending, status, sensors, age, answer, announced, floor, drift>>

\* The write lock is granted and the second check finds a fresh result: some
\* other reader has fetched it meanwhile.
RecheckHit(r) ==
    /\ writer = NoOne
    /\ Fresh
    /\ Goto(r, "lock", "idle")
    /\ Return(r)
    /\ UNCHANGED <<epoch, pending, status, sensors, age, writer, historyVars>>

RecheckMiss(r) ==
    /\ writer = NoOne
    /\ ~Fresh
    /\ Goto(r, "lock", "status")
    /\ writer' = r
    /\ quiet' = 0
    /\ forced' = FALSE
    /\ UNCHANGED <<epoch, pending, status, sensors, age, answer, announced, floor, drift>>

\* GetStatus answers: the BMC reports the state its commands so far led to.
StatusAnswers(r) ==
    /\ Goto(r, "status", "sensors")
    /\ status' = epoch
    /\ drift' = 0
    /\ UNCHANGED <<epoch, pending, sensors, age, writer, answer, announced, floor, quiet, forced>>

\* GetStatus fails: an unknown status without sensors replaces the result.
StatusFails(r) ==
    /\ Goto(r, "status", "publish")
    /\ status' = Unreachable
    /\ sensors' = NoSensors
    /\ drift' = 0
    /\ UNCHANGED <<epoch, pending, age, writer, answer, announced, floor, quiet, forced>>

\* Mutant: the old sensors survive a GetSensors error.
ReadSensorsKeepingOld(r) ==
    /\ Goto(r, "sensors", "publish")
    /\ sensors' \in {epoch, sensors}
    /\ UNCHANGED <<epoch, pending, status, age, writer, answer, historyVars>>

\* Mutant: the error of GetSensors is stored with its result.
ReadSensorsError(r) ==
    /\ Goto(r, "sensors", "publish")
    /\ sensors' \in {epoch, Unreachable}
    /\ UNCHANGED <<epoch, pending, status, age, writer, answer, historyVars>>

\* GetSensors answers or fails; its error is dropped with empty sensors.
ReadSensors(r) ==
    /\ Goto(r, "sensors", "publish")
    /\ sensors' \in {epoch, NoSensors}
    /\ UNCHANGED <<epoch, pending, status, age, writer, answer, historyVars>>

\* Mutant: a return that forgets to release the write lock.
PublishStillLocked(r) ==
    /\ Goto(r, "publish", "idle")
    /\ age' = 0
    /\ Return(r)
    /\ UNCHANGED <<epoch, pending, status, sensors, writer, historyVars>>

\* c.updated = time.Now(), the result is copied out and the lock released.
Publish(r) ==
    /\ Goto(r, "publish", "idle")
    /\ age' = 0
    /\ writer' = NoOne
    /\ Return(r)
    /\ UNCHANGED <<epoch, pending, status, sensors, historyVars>>

-----------------------------------------------------------------------------
(* Power actions, the BMC and time *)

Command(a) ==
    /\ pending[a] = 0
    /\ epoch < MaxEpoch
    /\ epoch' = epoch + 1
    /\ pending' = [pending EXCEPT ![a] = epoch + 1]
    /\ UNCHANGED <<serverVars, historyVars>>

\* Mutant: Invalidate resets c.updated without taking the lock.
InvalidateUnlocked(a) ==
    /\ pending[a] # 0
    /\ age' = MaxAge
    /\ pending' = [pending EXCEPT ![a] = 0]
    /\ announced' = IF pending[a] > announced THEN pending[a] ELSE announced
    /\ forced' = TRUE
    /\ UNCHANGED <<epoch, status, sensors, writer, pc, answer, floor, drift, quiet>>

\* Invalidate needs the write lock, so it waits for a fetch in flight.
Invalidate(a) ==
    /\ pending[a] # 0
    /\ writer = NoOne
    /\ age' = MaxAge
    /\ pending' = [pending EXCEPT ![a] = 0]
    /\ announced' = IF pending[a] > announced THEN pending[a] ELSE announced
    /\ forced' = TRUE
    /\ UNCHANGED <<epoch, status, sensors, writer, pc, answer, floor, drift, quiet>>

Fetching == \E r \in Readers : pc[r] \in {"status", "sensors", "publish"}

\* Time passes.  A fetch lasts at most MaxFetch ticks: every HTTP request of
\* the Redfish client has a timeout.
Tick ==
    /\ Fetching => quiet < MaxFetch
    /\ age' = AtMost(age + 1, MaxAge)
    /\ drift' = AtMost(drift + 1, MaxDrift)
    /\ quiet' = AtMost(quiet + 1, MaxDrift)
    /\ UNCHANGED <<epoch, pending, status, sensors, writer, pc, answer, announced, floor, forced>>

Fetch(r) == StatusAnswers(r) \/ StatusFails(r) \/ ReadSensors(r) \/ Publish(r)
TakeLock(r) == CheckHit(r) \/ CheckMiss(r) \/ RecheckHit(r) \/ RecheckMiss(r)

Next ==
    \/ \E r \in Readers : Call(r) \/ TakeLock(r) \/ Fetch(r)
    \/ \E a \in Actors : Command(a) \/ Invalidate(a)
    \/ Tick

Spec == Init /\ [][Next]_vars

\* Every BMC call ends (it has a timeout) and a goroutine that waits for a Go
\* mutex gets it in turn (starvation mode), however often others take it.
Fairness ==
    /\ \A r \in Readers : WF_vars(Fetch(r)) /\ SF_vars(TakeLock(r))
    /\ \A a \in Actors : SF_vars(Invalidate(a))

FairSpec == Spec /\ Fairness

-----------------------------------------------------------------------------
(* Properties *)

\* A result young enough to be returned was sampled after every power command
\* whose Invalidate has completed: Get never hands out a pre-command status
\* as a fresh one, although fetches and invalidations interleave.
FreshIsCurrent == Fresh /\ status # Unreachable => status >= announced

\* Get never shows sensor readings taken before the power state it shows with
\* them, and none at all beside an unreachable BMC, although c.result is
\* written field by field and GetSensors may fail on its own.
SensorsNotOlder ==
    \A r \in Readers :
        answer[r].sensors # NoSensors =>
            /\ answer[r].status # Unreachable
            /\ answer[r].sensors >= answer[r].status

\* c.updated is taken when the fetch ends, not when the status was sampled:
\* what Get may return is younger than maxAge plus the time of one fetch.
StalenessBound == Fresh => drift < MaxAge + MaxFetch

\* The comment on Cache: however many clients poll, a fetch begins only
\* maxAge after the previous one began, unless a power action has invalidated
\* the cache in between (the stampede the second check prevents).
OneFetchPerInterval ==
    [][\A r \in Readers : pc[r] # "status" /\ pc'[r] = "status"
                             => forced \/ quiet >= MaxAge]_vars

\* Get is linearizable: it implements the atomic status service.
Service == INSTANCE StatusService WITH
    asking <- {r \in Readers : pc[r] # "idle"},
    answer <- [r \in Readers |-> answer[r].status]
ImplementsService == Service!Spec

\* Every Get returns and every Invalidate gets the lock: nobody waits for
\* c.mu forever.
GetReturns == \A r \in Readers : pc[r] # "idle" ~> pc[r] = "idle"
InvalidateReturns == \A a \in Actors : pending[a] # 0 ~> pending[a] = 0
=============================================================================
