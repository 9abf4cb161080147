--------------------------- MODULE BmcCacheProofs ---------------------------
(***************************************************************************)
(* Proofs about BmcCache for any number of readers and actors and any      *)
(* bounds: type correctness, the freshness promise, the staleness bound,   *)
(* the rate of fetches, and that the cache implements StatusService.       *)
(***************************************************************************)
EXTENDS BmcCache, TLAPS

-----------------------------------------------------------------------------
(* Type correctness and the lock *)

\* Exactly the reader that fetches holds the write lock, and while it does the
\* result it is replacing does not count as fresh.
LockInv ==
    /\ \A r \in Readers : pc[r] \in {"status", "sensors", "publish"} <=> writer = r
    /\ writer # NoOne => age = MaxAge

Inv1 == TypeOK /\ LockInv

LEMMA Inv1Init == Init => Inv1
<1> SUFFICES ASSUME Init PROVE Inv1
  OBVIOUS
<1>1. TypeOK
  <2>1. [status |-> Unreachable, sensors |-> NoSensors] \in Results
    BY DEF Results
  <2>2. /\ 0 \in Epochs
        /\ MaxAge \in 0 .. MaxAge
        /\ 0 \in 0 .. MaxDrift /\ MaxDrift \in 0 .. MaxDrift
    BY CacheAssumption DEF Epochs, MaxDrift
  <2> QED
    BY <2>1, <2>2 DEF Init, TypeOK
<1>2. LockInv
  <2>1. \A r \in Readers : pc[r] = "idle" /\ writer # r
    BY CacheAssumption DEF Init
  <2> QED
    BY <2>1 DEF Init, LockInv
<1> QED
  BY <1>1, <1>2 DEF Inv1

LEMMA TypeStep == TypeOK /\ [Next]_vars => TypeOK'
<1> SUFFICES ASSUME TypeOK, [Next]_vars PROVE TypeOK'
  OBVIOUS
<1> USE CacheAssumption DEF TypeOK, Epochs, MaxDrift, Goto, Return, historyVars, serverVars
<1>0. Result \in Results
  BY DEF Result, Results
<1>1. ASSUME NEW r \in Readers, Call(r) PROVE TypeOK'
  BY <1>1 DEF Call
<1>2. ASSUME NEW r \in Readers, TakeLock(r) PROVE TypeOK'
  <2>1. CASE CheckHit(r)
    BY <1>0, <2>1 DEF CheckHit
  <2>2. CASE CheckMiss(r)
    BY <2>2 DEF CheckMiss
  <2>3. CASE RecheckHit(r)
    BY <1>0, <2>3 DEF RecheckHit
  <2>4. CASE RecheckMiss(r)
    <3>1. writer' \in Readers \union {NoOne} /\ forced' \in BOOLEAN /\ quiet' = 0
      BY <2>4 DEF RecheckMiss
    <3>2. pc' \in [Readers -> {"idle", "check", "lock", "status", "sensors", "publish"}]
      BY <2>4 DEF RecheckMiss
    <3>3. UNCHANGED <<epoch, pending, status, sensors, age, answer, announced, floor, drift>>
      BY <2>4 DEF RecheckMiss
    <3> QED
      BY <3>1, <3>2, <3>3
  <2> QED
    BY <1>2, <2>1, <2>2, <2>3, <2>4 DEF TakeLock
<1>3. ASSUME NEW r \in Readers, Fetch(r) PROVE TypeOK'
  <2>1. CASE StatusAnswers(r)
    BY <2>1 DEF StatusAnswers
  <2>2. CASE StatusFails(r)
    BY <2>2 DEF StatusFails
  <2>3. CASE ReadSensors(r)
    BY <2>3 DEF ReadSensors
  <2>4. CASE Publish(r)
    BY <1>0, <2>4 DEF Publish
  <2> QED
    BY <1>3, <2>1, <2>2, <2>3, <2>4 DEF Fetch
<1>4. ASSUME NEW a \in Actors, Command(a) PROVE TypeOK'
  BY <1>4 DEF Command
<1>5. ASSUME NEW a \in Actors, Invalidate(a) PROVE TypeOK'
  BY <1>5 DEF Invalidate
<1>6. CASE Tick
  BY <1>6 DEF Tick, AtMost
<1>7. CASE UNCHANGED vars
  BY <1>7 DEF vars
<1> QED
  BY <1>1, <1>2, <1>3, <1>4, <1>5, <1>6, <1>7 DEF Next

LEMMA LockStep == Inv1 /\ [Next]_vars => LockInv'
<1> SUFFICES ASSUME TypeOK, LockInv, [Next]_vars PROVE LockInv'
  BY DEF Inv1
<1>pc. pc \in [Readers -> {"idle", "check", "lock", "status", "sensors", "publish"}]
  BY DEF TypeOK
<1>age. age \in 0 .. MaxAge /\ MaxAge \in Nat
  BY CacheAssumption DEF TypeOK
<1> USE CacheAssumption, <1>pc DEF LockInv, Goto, historyVars, serverVars
<1>1. ASSUME NEW r \in Readers, Call(r) PROVE LockInv'
  BY <1>1 DEF Call
<1>2. ASSUME NEW r \in Readers, TakeLock(r) PROVE LockInv'
  <2>1. CASE CheckHit(r) \/ CheckMiss(r) \/ RecheckHit(r)
    BY <2>1 DEF CheckHit, CheckMiss, RecheckHit
  <2>2. CASE RecheckMiss(r)
    BY <2>2, <1>age DEF RecheckMiss, Fresh
  <2> QED
    BY <1>2, <2>1, <2>2 DEF TakeLock
<1>3. ASSUME NEW r \in Readers, Fetch(r) PROVE LockInv'
  <2>1. CASE StatusAnswers(r) \/ StatusFails(r) \/ ReadSensors(r)
    BY <2>1 DEF StatusAnswers, StatusFails, ReadSensors
  <2>2. CASE Publish(r)
    BY <2>2 DEF Publish
  <2> QED
    BY <1>3, <2>1, <2>2 DEF Fetch
<1>4. ASSUME NEW a \in Actors, Command(a) \/ Invalidate(a) PROVE LockInv'
  BY <1>4 DEF Command, Invalidate
<1>5. CASE Tick
  BY <1>5, <1>age DEF Tick, AtMost
<1>6. CASE UNCHANGED vars
  BY <1>6 DEF vars
<1> QED
  BY <1>1, <1>2, <1>3, <1>4, <1>5, <1>6 DEF Next

LEMMA Inv1Step == Inv1 /\ [Next]_vars => Inv1'
  BY TypeStep, LockStep DEF Inv1

\* c.mu excludes: one reader fetches at a time, and all variables keep their
\* types.
THEOREM TypeCorrect == Spec => []TypeOK
<1>1. Inv1 => TypeOK
  BY DEF Inv1
<1> QED
  BY <1>1, Inv1Init, Inv1Step, PTL DEF Spec

LEMMA Inv1Always == Spec => []Inv1
  BY Inv1Init, Inv1Step, PTL DEF Spec

-----------------------------------------------------------------------------
(* Freshness *)

\* Nothing is newer than the BMC, and what a fetch has sampled is not older
\* than any announced command: Invalidate cannot overtake the fetch, because
\* it waits for the write lock.
CurrentInv ==
    /\ announced <= epoch
    /\ \A a \in Actors : pending[a] <= epoch
    /\ \A r \in Readers : floor[r] <= announced
    /\ status # Unreachable => status <= epoch
    /\ \A r \in Readers :
         pc[r] \in {"sensors", "publish"} /\ status # Unreachable => status >= announced
    /\ FreshIsCurrent

LEMMA CurrentInit == Init => CurrentInv
<1> SUFFICES ASSUME Init PROVE CurrentInv
  OBVIOUS
<1> QED
  BY CacheAssumption DEF Init, CurrentInv, FreshIsCurrent

LEMMA CurrentStep == Inv1 /\ CurrentInv /\ [Next]_vars => CurrentInv'
<1> SUFFICES ASSUME TypeOK, LockInv, CurrentInv, [Next]_vars PROVE CurrentInv'
  BY DEF Inv1
<1>t. /\ epoch \in Nat /\ announced \in Nat /\ age \in Nat /\ MaxAge \in Nat \ {0}
      /\ status \in Nat \union {Unreachable} /\ Unreachable \notin Nat
      /\ pc \in [Readers -> {"idle", "check", "lock", "status", "sensors", "publish"}]
      /\ pending \in [Actors -> Nat] /\ floor \in [Readers -> Nat]
  BY CacheAssumption DEF TypeOK, Epochs
<1>l. /\ \A r \in Readers : pc[r] \in {"status", "sensors", "publish"} <=> writer = r
      /\ NoOne \notin Readers
      /\ writer # NoOne => ~Fresh
  BY <1>t, CacheAssumption DEF LockInv, Fresh
<1> USE <1>t DEF CurrentInv, FreshIsCurrent, Fresh, Goto, historyVars, serverVars
<1>1. ASSUME NEW r \in Readers, Call(r) PROVE CurrentInv'
  BY <1>1 DEF Call
<1>2. ASSUME NEW r \in Readers, TakeLock(r) PROVE CurrentInv'
  <2>1. CASE CheckHit(r) \/ CheckMiss(r) \/ RecheckHit(r)
    BY <2>1 DEF CheckHit, CheckMiss, RecheckHit
  <2>2. CASE RecheckMiss(r)
    BY <2>2 DEF RecheckMiss
  <2> QED
    BY <1>2, <2>1, <2>2 DEF TakeLock
<1>3. ASSUME NEW r \in Readers, Fetch(r) PROVE CurrentInv'
  <2>1. CASE StatusAnswers(r) \/ StatusFails(r)
    BY <2>1 DEF StatusAnswers, StatusFails
  <2>2. CASE ReadSensors(r)
    BY <2>2 DEF ReadSensors
  <2>3. CASE Publish(r)
    BY <2>3 DEF Publish
  <2> QED
    BY <1>3, <2>1, <2>2, <2>3 DEF Fetch
<1>4. ASSUME NEW a \in Actors, Command(a) PROVE CurrentInv'
  BY <1>4 DEF Command
<1>5. ASSUME NEW a \in Actors, Invalidate(a) PROVE CurrentInv'
  BY <1>5, <1>l DEF Invalidate
<1>6. CASE Tick
  BY <1>6, CacheAssumption DEF Tick, AtMost
<1>7. CASE UNCHANGED vars
  BY <1>7 DEF vars
<1> QED
  BY <1>1, <1>2, <1>3, <1>4, <1>5, <1>6, <1>7 DEF Next

LEMMA CurrentAlways == Spec => []CurrentInv
  BY Inv1Always, CurrentInit, CurrentStep, PTL DEF Spec

\* No result that Get may return was sampled before an announced command, for
\* any number of readers and actors and any timing of fetches and Invalidates.
THEOREM Freshness == Spec => []FreshIsCurrent
<1>1. CurrentInv => FreshIsCurrent
  BY DEF CurrentInv
<1> QED
  BY <1>1, CurrentAlways, PTL

-----------------------------------------------------------------------------
(* The sensors beside the status *)

\* Outside the window between GetStatus and GetSensors the result is whole.
WholeInv ==
    /\ \A r \in Readers : pc[r] = "sensors" => status # Unreachable
    /\ (\A r \in Readers : pc[r] # "sensors") /\ sensors # NoSensors
         => status # Unreachable /\ sensors >= status
    /\ SensorsNotOlder

LEMMA WholeInit == Init => WholeInv
  BY DEF Init, WholeInv, SensorsNotOlder

LEMMA WholeStep == Inv1 /\ CurrentInv /\ WholeInv /\ [Next]_vars => WholeInv'
<1> SUFFICES ASSUME TypeOK, LockInv, CurrentInv, WholeInv, [Next]_vars PROVE WholeInv'
  BY DEF Inv1
<1>t. /\ epoch \in Nat /\ Unreachable \notin Nat /\ NoSensors \notin Nat
      /\ status \in Nat \union {Unreachable}
      /\ sensors \in Nat \union {NoSensors}
      /\ pc \in [Readers -> {"idle", "check", "lock", "status", "sensors", "publish"}]
      /\ answer \in [Readers -> Results]
      /\ status # Unreachable => status <= epoch
  BY CacheAssumption DEF TypeOK, Epochs, CurrentInv
<1>l. /\ \A r \in Readers : pc[r] \in {"status", "sensors", "publish"} <=> writer = r
      /\ NoOne \notin Readers
  BY CacheAssumption DEF LockInv
<1> USE <1>t DEF WholeInv, Goto, historyVars, serverVars
\* Handing out a whole result keeps the answers whole.
<1>r. ASSUME NEW r \in Readers, Return(r), \A q \in Readers : pc[q] # "sensors"
      PROVE SensorsNotOlder'
  BY <1>r DEF Return, Result, SensorsNotOlder
<1>1. ASSUME NEW r \in Readers, Call(r) PROVE WholeInv'
  BY <1>1 DEF Call, SensorsNotOlder
<1>2. ASSUME NEW r \in Readers, TakeLock(r) PROVE WholeInv'
  <2>1. CASE CheckHit(r) \/ RecheckHit(r)
    <3>1. \A q \in Readers : pc[q] # "sensors"
      BY <2>1, <1>l DEF CheckHit, RecheckHit
    <3>2. SensorsNotOlder'
      BY <2>1, <3>1, <1>r DEF CheckHit, RecheckHit
    <3> QED
      BY <2>1, <3>1, <3>2 DEF CheckHit, RecheckHit
  <2>2. CASE CheckMiss(r) \/ RecheckMiss(r)
    BY <2>2 DEF CheckMiss, RecheckMiss, SensorsNotOlder
  <2> QED
    BY <1>2, <2>1, <2>2 DEF TakeLock
<1>3. ASSUME NEW r \in Readers, Fetch(r) PROVE WholeInv'
  <2>1. CASE StatusAnswers(r) \/ StatusFails(r) \/ ReadSensors(r)
    <3>1. SensorsNotOlder'
      BY <2>1 DEF StatusAnswers, StatusFails, ReadSensors, SensorsNotOlder
    <3> QED
      BY <2>1, <3>1, <1>l DEF StatusAnswers, StatusFails, ReadSensors
  <2>2. CASE Publish(r)
    <3>1. \A q \in Readers : pc[q] # "sensors"
      BY <2>2, <1>l DEF Publish
    <3>2. SensorsNotOlder'
      BY <2>2, <3>1, <1>r DEF Publish
    <3> QED
      BY <2>2, <3>1, <3>2 DEF Publish
  <2> QED
    BY <1>3, <2>1, <2>2 DEF Fetch
<1>4. ASSUME NEW a \in Actors, Command(a) \/ Invalidate(a) PROVE WholeInv'
  BY <1>4 DEF Command, Invalidate, SensorsNotOlder
<1>5. CASE Tick
  BY <1>5 DEF Tick, SensorsNotOlder
<1>6. CASE UNCHANGED vars
  BY <1>6 DEF vars, SensorsNotOlder
<1> QED
  BY <1>1, <1>2, <1>3, <1>4, <1>5, <1>6 DEF Next

\* Get never shows sensor readings older than the power state beside them.
THEOREM SensorsWhole == Spec => []SensorsNotOlder
<1>1. WholeInv => SensorsNotOlder
  BY DEF WholeInv
<1> QED
  BY <1>1, Inv1Always, CurrentAlways, WholeInit, WholeStep, PTL DEF Spec

-----------------------------------------------------------------------------
(* Staleness and the rate of fetches *)

\* A fetch is no older than MaxFetch, the status it has sampled no older than
\* the fetch, and a published status no older than its age and one fetch.
\* Without an invalidation, what is published is no older than its fetch.
TimeInv ==
    /\ \A r \in Readers : pc[r] \in {"status", "sensors", "publish"} => quiet <= MaxFetch
    /\ \A r \in Readers : pc[r] \in {"sensors", "publish"} => drift <= quiet
    /\ Fresh => drift <= age + MaxFetch
    /\ forced \/ writer # NoOne \/ age <= quiet

LEMMA TimeInit == Init => TimeInv
<1> SUFFICES ASSUME Init PROVE TimeInv
  OBVIOUS
<1>1. \A r \in Readers : pc[r] = "idle"
  BY DEF Init
<1>2. ~Fresh /\ age <= quiet
  BY CacheAssumption DEF Init, Fresh, MaxDrift
<1> QED
  BY <1>1, <1>2 DEF TimeInv

LEMMA TimeStep == Inv1 /\ TimeInv /\ [Next]_vars => TimeInv'
<1> SUFFICES ASSUME TypeOK, LockInv, TimeInv, [Next]_vars PROVE TimeInv'
  BY DEF Inv1
<1>t. /\ age \in 0 .. MaxAge /\ drift \in 0 .. MaxDrift /\ quiet \in 0 .. MaxDrift
      /\ MaxAge \in Nat \ {0} /\ MaxFetch \in Nat /\ MaxDrift = MaxAge + MaxFetch
      /\ pc \in [Readers -> {"idle", "check", "lock", "status", "sensors", "publish"}]
  BY CacheAssumption DEF TypeOK, MaxDrift
<1>l. /\ \A r \in Readers : pc[r] \in {"status", "sensors", "publish"} <=> writer = r
      /\ NoOne \notin Readers
      /\ writer # NoOne => ~Fresh
  BY <1>t, CacheAssumption DEF LockInv, Fresh
<1> USE <1>t DEF TimeInv, Fresh, Goto, historyVars, serverVars
<1>1. ASSUME NEW r \in Readers, Call(r) PROVE TimeInv'
  BY <1>1 DEF Call
<1>2. ASSUME NEW r \in Readers, TakeLock(r) PROVE TimeInv'
  <2>1. CASE CheckHit(r) \/ CheckMiss(r) \/ RecheckHit(r)
    BY <2>1 DEF CheckHit, CheckMiss, RecheckHit
  <2>2. CASE RecheckMiss(r)
    BY <2>2, <1>l DEF RecheckMiss
  <2> QED
    BY <1>2, <2>1, <2>2 DEF TakeLock
<1>3. ASSUME NEW r \in Readers, Fetch(r) PROVE TimeInv'
  <2>1. CASE StatusAnswers(r) \/ StatusFails(r)
    <3>1. writer = r /\ writer' = r /\ ~Fresh'
      BY <2>1, <1>l DEF StatusAnswers, StatusFails
    <3> QED
      BY <2>1, <3>1, <1>l DEF StatusAnswers, StatusFails
  <2>2. CASE ReadSensors(r)
    BY <2>2 DEF ReadSensors
  <2>3. CASE Publish(r)
    BY <2>3 DEF Publish
  <2> QED
    BY <1>3, <2>1, <2>2, <2>3 DEF Fetch
<1>4. ASSUME NEW a \in Actors, Command(a) PROVE TimeInv'
  BY <1>4 DEF Command
<1>5. ASSUME NEW a \in Actors, Invalidate(a) PROVE TimeInv'
  BY <1>5 DEF Invalidate
<1>6. CASE Tick
  <2>1. /\ age' = (IF age + 1 < MaxAge THEN age + 1 ELSE MaxAge)
        /\ drift' = (IF drift + 1 < MaxDrift THEN drift + 1 ELSE MaxDrift)
        /\ quiet' = (IF quiet + 1 < MaxDrift THEN quiet + 1 ELSE MaxDrift)
        /\ UNCHANGED <<writer, pc, forced>>
    BY <1>6 DEF Tick, AtMost
  <2>2. \A r \in Readers : pc[r] \in {"status", "sensors", "publish"} => quiet < MaxFetch
    BY <1>6 DEF Tick, Fetching
  <2> QED
    BY <2>1, <2>2
<1>7. CASE UNCHANGED vars
  BY <1>7 DEF vars
<1> QED
  BY <1>1, <1>2, <1>3, <1>4, <1>5, <1>6, <1>7 DEF Next

LEMMA TimeAlways == Spec => []TimeInv
  BY Inv1Always, TimeInit, TimeStep, PTL DEF Spec

\* What Get may return is younger than maxAge plus the time of one fetch.
THEOREM Staleness == Spec => []StalenessBound
<1>1. Inv1 /\ TimeInv => StalenessBound
  BY CacheAssumption DEF Inv1, TypeOK, TimeInv, StalenessBound, Fresh, MaxDrift
<1> QED
  BY <1>1, Inv1Always, TimeAlways, PTL

\* A fetch begins only maxAge after the one before, unless a power action has
\* invalidated the cache meanwhile, however many readers there are.
THEOREM FetchRate == Spec => OneFetchPerInterval
<1> DEFINE Begins(r) == pc[r] # "status" /\ pc'[r] = "status"
           Allowed == \A r \in Readers : Begins(r) => forced \/ quiet >= MaxAge
<1>1. Inv1 /\ TimeInv /\ [Next]_vars => Allowed
  <2> SUFFICES ASSUME TypeOK, TimeInv, [Next]_vars, NEW r \in Readers, Begins(r)
               PROVE forced \/ quiet >= MaxAge
    BY DEF Inv1
  <2>t. /\ age \in 0 .. MaxAge /\ quiet \in Nat /\ MaxAge \in Nat
        /\ pc \in [Readers -> {"idle", "check", "lock", "status", "sensors", "publish"}]
    BY CacheAssumption DEF TypeOK, MaxDrift
  <2>1. CASE \E q \in Readers : RecheckMiss(q)
    BY <2>1, <2>t DEF RecheckMiss, Fresh, TimeInv
  <2>2. CASE ~\E q \in Readers : RecheckMiss(q)
    BY <2>2, <2>t DEF Next, Call, TakeLock, CheckHit, CheckMiss, RecheckHit, Fetch,
       StatusAnswers, StatusFails, ReadSensors, Publish, Command, Invalidate, Tick, Goto,
       vars, serverVars
  <2> QED
    BY <2>1, <2>2
<1> QED
  BY <1>1, Inv1Always, TimeAlways, PTL DEF Spec, OneFetchPerInterval

-----------------------------------------------------------------------------
(* The cache implements StatusService *)

Asking == {r \in Readers : pc[r] # "idle"}
Given == [r \in Readers |-> answer[r].status]

LEMMA ServiceInit == Init => Service!Init
<1> SUFFICES ASSUME Init PROVE Service!Init
  OBVIOUS
<1>1. Asking = {} /\ Given = [r \in Readers |-> Unreachable]
  BY DEF Init, Asking, Given
<1> QED
  BY <1>1 DEF Init, Service!Init, Asking, Given

\* A reader that goes on with its question open, or a step of the lock, the
\* BMC calls or the clock, is invisible to the service.
LEMMA ServiceStutters ==
  ASSUME UNCHANGED <<epoch, announced, pending, floor, answer>>, Asking' = Asking
  PROVE  UNCHANGED Service!serviceVars
BY DEF Service!serviceVars, Asking

\* Returning the cached result answers the reader's question.
LEMMA ServiceAnswers ==
  ASSUME TypeOK, NEW r \in Readers, pc[r] # "idle", pc' = [pc EXCEPT ![r] = "idle"],
         Return(r), UNCHANGED <<epoch, announced, pending, floor>>,
         status # Unreachable => status \in floor[r] .. epoch
  PROVE  Service!Answer(r)
<1>t. /\ pc \in [Readers -> {"idle", "check", "lock", "status", "sensors", "publish"}]
      /\ answer \in [Readers -> Results]
  BY DEF TypeOK
<1>1. r \in Asking /\ Asking' = Asking \ {r}
  BY <1>t DEF Asking
<1>2. Given' = [Given EXCEPT ![r] = status]
  BY <1>t DEF Given, Return, Result
<1>3. status \in (floor[r] .. epoch) \union {Unreachable}
  OBVIOUS
<1> QED
  BY <1>1, <1>2, <1>3 DEF Service!Answer, Asking, Given

LEMMA ServiceStep == Inv1 /\ CurrentInv /\ [Next]_vars => [Service!Next]_(Service!serviceVars)
<1> SUFFICES ASSUME TypeOK, LockInv, CurrentInv, [Next]_vars
             PROVE  Service!Next \/ UNCHANGED Service!serviceVars
  BY DEF Inv1
<1>t. /\ epoch \in Nat /\ announced \in Nat /\ status \in Nat \union {Unreachable}
      /\ pc \in [Readers -> {"idle", "check", "lock", "status", "sensors", "publish"}]
      /\ floor \in [Readers -> Nat]
  BY DEF TypeOK, Epochs
<1> USE <1>t DEF Goto, historyVars, serverVars
<1>1. ASSUME NEW r \in Readers, Call(r) PROVE Service!Next
  <2>1. r \notin Asking /\ Asking' = Asking \union {r}
    BY <1>1 DEF Call, Asking
  <2>2. Service!Ask(r)
    BY <1>1, <2>1 DEF Call, Service!Ask, Asking
  <2> QED
    BY <2>2 DEF Service!Next
<1>2. ASSUME NEW r \in Readers, TakeLock(r) PROVE Service!Next \/ UNCHANGED Service!serviceVars
  <2>1. CASE CheckHit(r) \/ RecheckHit(r)
    <3>1. status # Unreachable => status \in floor[r] .. epoch
      BY <2>1 DEF CheckHit, RecheckHit, CurrentInv, FreshIsCurrent
    <3>2. Service!Answer(r)
      BY <2>1, <3>1, ServiceAnswers DEF CheckHit, RecheckHit
    <3> QED
      BY <3>2 DEF Service!Next
  <2>2. CASE CheckMiss(r) \/ RecheckMiss(r)
    <3>1. Asking' = Asking
      BY <2>2 DEF CheckMiss, RecheckMiss, Asking
    <3> QED
      BY <2>2, <3>1, ServiceStutters DEF CheckMiss, RecheckMiss
  <2> QED
    BY <1>2, <2>1, <2>2 DEF TakeLock
<1>3. ASSUME NEW r \in Readers, Fetch(r) PROVE Service!Next \/ UNCHANGED Service!serviceVars
  <2>1. CASE StatusAnswers(r) \/ StatusFails(r) \/ ReadSensors(r)
    <3>1. Asking' = Asking
      BY <2>1 DEF StatusAnswers, StatusFails, ReadSensors, Asking
    <3> QED
      BY <2>1, <3>1, ServiceStutters DEF StatusAnswers, StatusFails, ReadSensors
  <2>2. CASE Publish(r)
    <3>1. status # Unreachable => status \in floor[r] .. epoch
      BY <2>2 DEF Publish, CurrentInv
    <3>2. Service!Answer(r)
      BY <2>2, <3>1, ServiceAnswers DEF Publish
    <3> QED
      BY <3>2 DEF Service!Next
  <2> QED
    BY <1>3, <2>1, <2>2 DEF Fetch
<1>4. ASSUME NEW a \in Actors, Command(a) PROVE Service!Next
  <2>1. Service!Command(a)
    BY <1>4 DEF Command, Service!Command
  <2> QED
    BY <2>1 DEF Service!Next
<1>5. ASSUME NEW a \in Actors, Invalidate(a) PROVE Service!Next
  <2>1. Service!Announce(a)
    BY <1>5 DEF Invalidate, Service!Announce
  <2> QED
    BY <2>1 DEF Service!Next
<1>6. CASE Tick
  <2>1. Asking' = Asking
    BY <1>6 DEF Tick, Asking
  <2> QED
    BY <1>6, <2>1, ServiceStutters DEF Tick
<1>7. CASE UNCHANGED vars
  <2>1. Asking' = Asking
    BY <1>7 DEF vars, Asking
  <2> QED
    BY <1>7, <2>1, ServiceStutters DEF vars
<1> QED
  BY <1>1, <1>2, <1>3, <1>4, <1>5, <1>6, <1>7 DEF Next

\* Get is linearizable with respect to announced power commands: every answer
\* is a status the BMC had between the last Invalidate before the call and
\* the return, or the news that it was unreachable.
THEOREM Linearizable == Spec => ImplementsService
  BY Inv1Always, CurrentAlways, ServiceInit, ServiceStep, PTL
  DEF Spec, ImplementsService, Service!Spec
=============================================================================
