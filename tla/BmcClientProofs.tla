--------------------------- MODULE BmcClientProofs ---------------------------
(***************************************************************************)
(* Proofs about BmcClient for any number of goroutines and faults: type    *)
(* correctness with the mutex, one reset per command, stale sessions that  *)
(* heal, and the sessions a Close or the end of the process leaves behind. *)
(***************************************************************************)
EXTENDS BmcClient, TLAPS

-----------------------------------------------------------------------------
(* The types, the mutex and what a call at work knows *)

Steps == {"idle", "wait", "session", "first", "renew", "reconnect", "retry", "reset",
          "types", "abandon"}
AtWork == Steps \ {"idle", "wait"}

\* Exactly the caller that holds c.mu is at work.
MutexInv == \A p \in Callers : pc[p] \in AtWork <=> mutex = p

\* The BMC keeps a session the client has: what keeps live from going negative.
SessionInv ==
    /\ accepted => session
    /\ accepted => live > 0

\* Where a call stands says which method it is, and that its reset, if it has
\* one, is still to be sent.
CallInv == \A p \in Callers :
    /\ pc[p] = "first" => Networked(p)
    /\ pc[p] \in {"renew", "reconnect", "retry", "abandon"} => call[p] \in Retried
    /\ pc[p] = "reset" => call[p] = "reset"
    /\ pc[p] = "types" => call[p] = "discover"
    /\ pc[p] \in AtWork \ {"abandon"} => sent = 0

Inv == TypeOK /\ MutexInv /\ SessionInv /\ CallInv

LEMMA InvInit == Init => Inv
<1> SUFFICES ASSUME Init PROVE Inv
  OBVIOUS
<1> USE ClientAssumption DEF Init
<1>1. TypeOK
  <2>1. /\ session \in BOOLEAN /\ known \in BOOLEAN /\ disturbed \in BOOLEAN /\ accepted \in BOOLEAN
        /\ late \in BOOLEAN
    BY Zenon
  <2>2. /\ mutex \in Callers \union {NoOne}
    OBVIOUS
  <2>3. faults \in 0 .. MaxFaults /\ live \in 0 .. Slots /\ old \in 0 .. Slots /\ sent \in Nat
    OBVIOUS
  <2>4. /\ pc \in [Callers -> Steps] /\ call \in [Callers -> Calls \union {"none"}]
        /\ result \in [Callers -> Outcomes]
    BY DEF Steps, Calls, Outcomes
  <2> QED
    BY <2>1, <2>2, <2>3, <2>4 DEF TypeOK, Steps
<1>2. MutexInv /\ SessionInv /\ CallInv
  BY DEF MutexInv, SessionInv, CallInv, AtWork, Steps
<1> QED
  BY <1>1, <1>2 DEF Inv

\* What the outcomes of a request do to the types.
LEMMA FaultTypes ==
  ASSUME TypeOK, SessionInv
  PROVE  /\ CountFault => faults' \in 0 .. MaxFaults
         /\ Unanswered => faults' \in 0 .. MaxFaults /\ disturbed' \in BOOLEAN
         /\ LoginFails => /\ faults' \in 0 .. MaxFaults /\ disturbed' \in BOOLEAN
                          /\ live' \in 0 .. Slots
         /\ Disconnect => /\ session' = FALSE /\ accepted' = FALSE
                          /\ faults' \in 0 .. MaxFaults /\ live' \in 0 .. Slots
                          /\ UNCHANGED <<up, old, disturbed, sent, late>>
<1> USE ClientAssumption DEF TypeOK
<1>1. CountFault => faults' \in 0 .. MaxFaults
  BY DEF CountFault
<1>2. Unanswered => faults' \in 0 .. MaxFaults /\ disturbed' \in BOOLEAN
  BY <1>1 DEF Unanswered
<1>3. ASSUME LoginFails
      PROVE  faults' \in 0 .. MaxFaults /\ disturbed' \in BOOLEAN /\ live' \in 0 .. Slots
  <2>1. faults' \in 0 .. MaxFaults /\ (disturbed' = TRUE \/ disturbed' = disturbed)
    BY <1>3, <1>1 DEF LoginFails
  <2>2. live' \in 0 .. Slots
    BY <1>3 DEF LoginFails
  <2> QED
    BY <2>1, <2>2
<1>4. ASSUME Disconnect
      PROVE  /\ session' = FALSE /\ accepted' = FALSE
             /\ faults' \in 0 .. MaxFaults /\ live' \in 0 .. Slots
             /\ UNCHANGED <<up, old, disturbed, sent, late>>
  <2>1. faults' \in 0 .. MaxFaults
    BY <1>4, <1>1 DEF Disconnect
  <2>2. live' \in 0 .. Slots
    BY <1>4 DEF Disconnect, Answered, SessionInv
  <2> QED
    BY <1>4, <2>1, <2>2 DEF Disconnect, histVars
<1> QED
  BY <1>1, <1>2, <1>3, <1>4

LEMMA TypeStep == Inv /\ [Next]_vars => TypeOK'
<1> SUFFICES ASSUME Inv, [Next]_vars PROVE TypeOK'
  OBVIOUS
<1>i. TypeOK /\ SessionInv /\ MaxFaults \in Nat /\ Slots \in Nat
  BY ClientAssumption DEF Inv
<1> USE <1>i DEF callVars, bmcVars, histVars
<1>1. CASE LinkFails \/ LinkReturns \/ SessionExpires \/ OrphanExpires
  <2>1. faults' \in 0 .. MaxFaults /\ live' \in 0 .. Slots
    <3>1. CASE LinkFails \/ LinkReturns
      BY <3>1, FaultTypes DEF LinkFails, LinkReturns, TypeOK
    <3>2. CASE SessionExpires \/ OrphanExpires
      <4>1. live \in 0 .. Slots /\ live > 0 /\ live' = live - 1
        BY <3>2 DEF SessionExpires, OrphanExpires, TypeOK, SessionInv
      <4>2. faults' = faults
        BY <3>2 DEF SessionExpires, OrphanExpires
      <4> QED
        BY <4>1, <4>2 DEF TypeOK
    <3> QED
      BY <1>1, <3>1, <3>2
  <2>2. (disturbed' = TRUE \/ disturbed' = FALSE \/ disturbed' = disturbed)
    BY <1>1 DEF LinkFails, LinkReturns, SessionExpires, OrphanExpires, Disturb
  <2>3. /\ up' \in BOOLEAN /\ accepted' \in BOOLEAN
        /\ UNCHANGED <<mutex, session, known, phase, callVars, old, sent, late>>
    BY <1>1 DEF LinkFails, LinkReturns, SessionExpires, OrphanExpires, TypeOK
  <2> QED
    BY <2>1, <2>2, <2>3 DEF TypeOK
<1>2. ASSUME NEW p \in Callers, StartDiscovery(p) \/ StartCall(p) \/ StartClose(p) PROVE TypeOK'
  BY <1>2 DEF StartDiscovery, StartCall, StartClose, Start, Goto, TypeOK, Calls, Outcomes
<1>3. ASSUME NEW p \in Callers, Lock(p) PROVE TypeOK'
  BY <1>3 DEF Lock, Goto, TypeOK
<1>4. ASSUME NEW p \in Callers, Step(p) PROVE TypeOK'
  <2> USE DEF Return, Goto, Failed
  <2>1. CASE ReadMemory(p) \/ Reuse(p)
    BY <2>1 DEF ReadMemory, Reuse, TypeOK, Outcomes
  <2>2. CASE Connect(p)
    BY <2>2 DEF Connect, Connected, TypeOK
  <2>3. CASE ConnectFails(p)
    BY <2>3, FaultTypes DEF ConnectFails, TypeOK, Outcomes
  <2>4. CASE FirstAnswered(p)
    BY <2>4 DEF FirstAnswered, TypeOK, Outcomes
  <2>5. CASE FirstFails(p) \/ RetryFails(p)
    BY <2>5, FaultTypes DEF FirstFails, RetryFails, TypeOK
  <2>6. CASE Renew(p)
    BY <2>6, FaultTypes DEF Renew, TypeOK
  <2>7. CASE GiveUp(p)
    BY <2>7, FaultTypes DEF GiveUp, TypeOK, Outcomes
  <2>8. CASE LearnTypes(p)
    BY <2>8 DEF LearnTypes, TypeOK, Outcomes
  <2>9. CASE ResetAnswered(p)
    BY <2>9 DEF ResetAnswered, TypeOK, Outcomes
  <2>10. CASE ResetFails(p)
    <3>1. sent' \in {sent, sent + 1}
      BY <2>10 DEF ResetFails
    <3>2. faults' \in 0 .. MaxFaults /\ disturbed' \in BOOLEAN
      BY <2>10, FaultTypes DEF ResetFails
    <3> QED
      BY <2>10, <3>1, <3>2 DEF ResetFails, TypeOK
  <2>11. CASE Close(p) \/ Abandon(p)
    <3>1. /\ mutex' = NoOne /\ phase' \in {phase, "closed"} /\ UNCHANGED known
          /\ pc' = [pc EXCEPT ![p] = "idle"] /\ call' = [call EXCEPT ![p] = "none"]
          /\ result' \in [Callers -> Outcomes]
      BY <2>11 DEF Close, Abandon, TypeOK, Outcomes
    <3>2. /\ session' = FALSE /\ accepted' = FALSE
          /\ faults' \in 0 .. MaxFaults /\ live' \in 0 .. Slots
          /\ UNCHANGED <<up, old, disturbed, sent, late>>
      BY <2>11, FaultTypes DEF Close, Abandon
    <3> QED
      BY <3>1, <3>2 DEF TypeOK
  <2> QED
    BY <1>4, <2>1, <2>2, <2>3, <2>4, <2>5, <2>6, <2>7, <2>8, <2>9, <2>10, <2>11 DEF Step
<1>5. CASE Exit \/ Crash
  BY <1>5, FaultTypes DEF Exit, Crash, Die, TypeOK
<1>6. CASE UNCHANGED vars
  BY <1>6 DEF vars, TypeOK
<1> QED
  BY <1>1, <1>2, <1>3, <1>4, <1>5, <1>6 DEF Next, Terminated

\* Only Lock takes the mutex, and whatever ends the call gives it back.
LEMMA MutexStep == Inv /\ [Next]_vars => MutexInv'
<1> SUFFICES ASSUME Inv, [Next]_vars PROVE MutexInv'
  OBVIOUS
<1>t. /\ pc \in [Callers -> Steps] /\ NoOne \notin Callers
      /\ \A p \in Callers : pc[p] \in AtWork <=> mutex = p
  BY ClientAssumption DEF Inv, TypeOK, MutexInv, Steps
<1> USE <1>t DEF callVars, bmcVars, MutexInv, Goto, Return, AtWork, Steps
<1>1. CASE LinkFails \/ LinkReturns \/ SessionExpires \/ OrphanExpires
  BY <1>1 DEF LinkFails, LinkReturns, SessionExpires, OrphanExpires
<1>2. ASSUME NEW p \in Callers, StartDiscovery(p) \/ StartCall(p) \/ StartClose(p) PROVE MutexInv'
  BY <1>2 DEF StartDiscovery, StartCall, StartClose, Start
<1>3. ASSUME NEW p \in Callers, Lock(p) PROVE MutexInv'
  BY <1>3 DEF Lock
<1>4. ASSUME NEW p \in Callers, Step(p) PROVE MutexInv'
  <2>1. CASE Reuse(p) \/ Connect(p) \/ FirstFails(p) \/ Renew(p) \/ RetryFails(p) \/ ResetFails(p)
    BY <2>1 DEF Reuse, Connect, FirstFails, Renew, RetryFails, ResetFails
  <2>2. CASE ReadMemory(p) \/ ConnectFails(p) \/ Abandon(p) \/ GiveUp(p)
    BY <2>2 DEF ReadMemory, ConnectFails, Abandon, GiveUp
  <2>3. CASE LearnTypes(p) \/ ResetAnswered(p) \/ Close(p)
    BY <2>3 DEF LearnTypes, ResetAnswered, Close
  <2>4. CASE FirstAnswered(p)
    BY <2>4 DEF FirstAnswered
  <2> QED
    BY <1>4, <2>1, <2>2, <2>3, <2>4 DEF Step
<1>5. CASE Exit \/ Crash
  BY <1>5 DEF Exit, Crash, Die
<1>6. CASE UNCHANGED vars
  BY <1>6 DEF vars
<1> QED
  BY <1>1, <1>2, <1>3, <1>4, <1>5, <1>6 DEF Next, Terminated

\* A step keeps the client's session, connects, or disconnects; the BMC may
\* drop the session at any time, and the process may end.
LEMMA SessionSteps ==
  ASSUME [Next]_vars
  PROVE  \/ UNCHANGED <<session, accepted, live>>
         \/ ~session /\ Connected
         \/ ~session /\ LoginFails /\ UNCHANGED <<session, accepted>>
         \/ Disconnect
         \/ SessionExpires
         \/ OrphanExpires
         \/ Die
BY DEF Next, Exit, Crash, Terminated, vars, bmcVars, LinkFails, LinkReturns, StartDiscovery, StartCall,
   StartClose, Start, Lock, Step, ReadMemory, Reuse, Connect, ConnectFails, FirstAnswered, Failed,
   FirstFails, Renew, RetryFails, Abandon, GiveUp, LearnTypes, ResetAnswered, ResetFails, Close

LEMMA SessionStep == Inv /\ [Next]_vars => SessionInv'
<1> SUFFICES ASSUME TypeOK, SessionInv, [Next]_vars PROVE SessionInv'
  BY DEF Inv
<1>t. live \in Nat
  BY ClientAssumption DEF TypeOK
<1>1. CASE UNCHANGED <<session, accepted, live>>
  BY <1>1 DEF SessionInv
<1>2. CASE Connected
  BY <1>2, <1>t DEF Connected, SessionInv
<1>3. CASE Disconnect \/ SessionExpires \/ Die
  BY <1>3 DEF Disconnect, SessionExpires, Die, SessionInv
<1>4. CASE ~session /\ LoginFails /\ UNCHANGED <<session, accepted>>
  BY <1>4 DEF SessionInv
<1>5. CASE OrphanExpires
  <2>1. UNCHANGED <<session, accepted>> /\ (accepted => live' > 0)
    BY <1>5, <1>t DEF OrphanExpires
  <2> QED
    BY <2>1 DEF SessionInv
<1> QED
  BY <1>1, <1>2, <1>3, <1>4, <1>5, SessionSteps

LEMMA CallStep == Inv /\ [Next]_vars => CallInv'
<1> SUFFICES ASSUME Inv, [Next]_vars PROVE CallInv'
  OBVIOUS
<1>t. /\ pc \in [Callers -> Steps] /\ call \in [Callers -> Calls \union {"none"}] /\ NoOne \notin Callers
      /\ \A p \in Callers : pc[p] \in AtWork <=> mutex = p
      /\ CallInv
  BY ClientAssumption DEF Inv, TypeOK, MutexInv, Steps
<1> USE <1>t DEF callVars, bmcVars, histVars, CallInv, Goto, Return, AtWork, Steps, Retried, Networked
<1>1. CASE LinkFails \/ LinkReturns \/ SessionExpires \/ OrphanExpires
  BY <1>1 DEF LinkFails, LinkReturns, SessionExpires, OrphanExpires
<1>2. ASSUME NEW p \in Callers, StartDiscovery(p) \/ StartCall(p) \/ StartClose(p) PROVE CallInv'
  BY <1>2 DEF StartDiscovery, StartCall, StartClose, Start
<1>3. ASSUME NEW p \in Callers, Lock(p) PROVE CallInv'
  BY <1>3 DEF Lock
<1>4. ASSUME NEW p \in Callers, Step(p) PROVE CallInv'
  <2>1. CASE ReadMemory(p) \/ Reuse(p) \/ Connect(p) \/ ConnectFails(p)
    BY <2>1 DEF ReadMemory, Reuse, Connect, ConnectFails
  <2>2. CASE FirstAnswered(p)
    BY <2>2 DEF FirstAnswered
  <2>3. CASE FirstFails(p) \/ RetryFails(p) \/ GiveUp(p)
    BY <2>3 DEF FirstFails, RetryFails, GiveUp, Failed
  <2>4. CASE LearnTypes(p) \/ ResetAnswered(p)
    BY <2>4 DEF LearnTypes, ResetAnswered
  <2>5. CASE ResetFails(p)
    BY <2>5 DEF ResetFails, Failed
  <2>6. CASE Renew(p) \/ Abandon(p) \/ Close(p)
    BY <2>6 DEF Renew, Abandon, Close, Disconnect
  <2> QED
    BY <1>4, <2>1, <2>2, <2>3, <2>4, <2>5, <2>6 DEF Step
<1>5. CASE Exit \/ Crash
  BY <1>5 DEF Exit, Crash, Die
<1>6. CASE UNCHANGED vars
  BY <1>6 DEF vars
<1> QED
  BY <1>1, <1>2, <1>3, <1>4, <1>5, <1>6 DEF Next, Terminated

LEMMA InvStep == Inv /\ [Next]_vars => Inv'
  BY TypeStep, MutexStep, SessionStep, CallStep DEF Inv

LEMMA InvAlways == Spec => []Inv
  BY InvInit, InvStep, PTL DEF Spec

\* c.mu serialises the calls, whatever faults hit them, and all variables keep
\* their types: no session is logged out twice.
THEOREM TypeCorrect == Spec => []TypeOK
<1>1. Inv => TypeOK
  BY DEF Inv
<1> QED
  BY <1>1, InvAlways, PTL

-----------------------------------------------------------------------------
(* One reset per command *)

LEMMA ResetStep == Inv /\ ResetAtMostOnce /\ [Next]_vars => ResetAtMostOnce'
<1> SUFFICES ASSUME Inv, sent <= 1, [Next]_vars PROVE sent' <= 1
  BY DEF ResetAtMostOnce
<1>t. sent \in Nat /\ CallInv
  BY DEF Inv, TypeOK
<1>1. CASE \E p \in Callers : ResetAnswered(p) \/ ResetFails(p)
  <2>1. PICK p \in Callers : ResetAnswered(p) \/ ResetFails(p)
    BY <1>1
  <2>2. sent = 0
    BY <2>1, <1>t DEF CallInv, AtWork, Steps, ResetAnswered, ResetFails, Goto
  <2>3. sent' \in {sent, sent + 1}
    BY <2>1 DEF ResetAnswered, ResetFails
  <2> QED
    BY <2>2, <2>3
<1>2. CASE ~\E p \in Callers : ResetAnswered(p) \/ ResetFails(p)
  <2>1. sent' \in {0, sent}
    BY <1>2 DEF Next, Exit, Crash, Die, Terminated, vars, histVars, LinkFails, LinkReturns,
       SessionExpires, OrphanExpires, StartDiscovery, StartCall, StartClose, Start, Lock, Step,
       ReadMemory, Reuse, Connect, ConnectFails, FirstAnswered, FirstFails, Renew, RetryFails,
       Abandon, GiveUp, LearnTypes, Close, Disconnect
  <2> QED
    BY <2>1
<1> QED
  BY <1>1, <1>2

\* Whatever fails and whenever, a power command is carried out once at most.
THEOREM OneReset == Spec => []ResetAtMostOnce
<1>1. Init => ResetAtMostOnce
  BY DEF Init, ResetAtMostOnce
<1> QED
  BY <1>1, InvAlways, ResetStep, PTL DEF Spec

-----------------------------------------------------------------------------
(* How a call ends *)

\* A call works under a new session once it retries, and under one that has
\* answered when it resets: a session that fails it then has gone meanwhile, and
\* the call is abandoned for that.
HealInv == \A p \in Callers :
    /\ pc[p] \in {"retry", "reset"} => accepted \/ disturbed
    /\ pc[p] = "abandon" => disturbed

\* Faults add up while a call holds the mutex.
LEMMA DisturbedStays ==
  ASSUME Inv, [Next]_vars, NEW p \in Callers, pc[p] \in AtWork, disturbed
  PROVE  disturbed'
<1>1. mutex = p /\ mutex # NoOne
  BY ClientAssumption DEF Inv, MutexInv
<1>2. CASE LinkFails \/ SessionExpires
  BY <1>1, <1>2 DEF LinkFails, SessionExpires, Disturb
<1>3. CASE \E q \in Callers : Lock(q)
  BY <1>1, <1>3 DEF Lock
<1>4. CASE \E q \in Callers : FirstFails(q) \/ RetryFails(q) \/ GiveUp(q) \/ ResetFails(q)
  BY <1>4 DEF FirstFails, RetryFails, GiveUp, ResetFails, Failed, Unanswered
<1>5. CASE \E q \in Callers : ConnectFails(q)
  BY <1>5 DEF ConnectFails, LoginFails
<1>6. CASE disturbed' = disturbed
  BY <1>6
<1> QED
  BY <1>2, <1>3, <1>4, <1>5, <1>6 DEF Next, Exit, Crash, Die, Terminated, vars, histVars,
     LinkReturns, OrphanExpires, StartDiscovery, StartCall, StartClose, Start, Step, ReadMemory,
     Reuse, Connect, FirstAnswered, Renew, Abandon, LearnTypes, ResetAnswered, Close, Disconnect

\* What makes the BMC forget the client's session.
LEMMA Forgetting ==
  ASSUME [Next]_vars, accepted, ~accepted'
  PROVE  SessionExpires \/ Die \/ \E q \in Callers : Renew(q) \/ Abandon(q) \/ Close(q)
BY DEF Next, Exit, Crash, Terminated, vars, bmcVars, LinkFails, LinkReturns, OrphanExpires,
   StartDiscovery, StartCall, StartClose, Start, Lock, Step, ReadMemory, Reuse, Connect, Connected,
   ConnectFails, FirstAnswered, FirstFails, RetryFails, GiveUp, LearnTypes, ResetAnswered,
   ResetFails, Failed

LEMMA HealStep == Inv /\ HealInv /\ [Next]_vars => HealInv'
<1> SUFFICES ASSUME Inv, HealInv, [Next]_vars, NEW p \in Callers,
                    pc'[p] \in {"retry", "reset", "abandon"}
             PROVE  /\ pc'[p] \in {"retry", "reset"} => accepted' \/ disturbed'
                    /\ pc'[p] = "abandon" => disturbed'
  BY DEF HealInv
<1>t. /\ pc \in [Callers -> Steps] /\ NoOne \notin Callers
      /\ \A q \in Callers : pc[q] \in AtWork <=> mutex = q
      /\ accepted \in BOOLEAN /\ accepted' \in BOOLEAN
  BY ClientAssumption, TypeStep DEF Inv, TypeOK, MutexInv, Steps
<1>1. CASE pc[p] = pc'[p]
  <2>1. mutex = p /\ mutex # NoOne /\ pc[p] \in AtWork
    BY <1>1, <1>t DEF AtWork, Steps
  <2>2. CASE disturbed
    BY <2>1, <2>2, DisturbedStays
  <2>3. CASE ~disturbed
    <3>1. accepted /\ pc[p] # "abandon"
      BY <1>1, <2>3 DEF HealInv
    <3>2. CASE ~accepted'
      <4>1. CASE SessionExpires
        BY <4>1, <2>1 DEF SessionExpires, Disturb
      <4>2. ~Die
        BY <1>1, <1>t DEF Die
      <4>3. CASE \E q \in Callers : Renew(q) \/ Abandon(q) \/ Close(q)
        <5>1. PICK q \in Callers : Renew(q) \/ Abandon(q) \/ Close(q)
          BY <4>3
        <5>2. q = p
          BY <5>1, <2>1, <1>t DEF Renew, Abandon, Close, Goto, AtWork, Steps
        <5>3. pc'[p] \in {"reconnect", "idle"}
          BY <5>1, <5>2, <1>t DEF Renew, Abandon, Close, Goto, Return
        <5> QED
          BY <5>3
      <4> QED
        BY <3>1, <3>2, <4>1, <4>2, <4>3, Forgetting
    <3> QED
      BY <1>1, <3>1, <3>2
  <2> QED
    BY <2>2, <2>3
<1>2. CASE pc[p] # pc'[p]
  <2>1. Connect(p) \/ FirstAnswered(p) \/ RetryFails(p) \/ ResetFails(p)
    BY <1>2, <1>t DEF Next, Exit, Crash, Die, Terminated, vars, callVars, LinkFails, LinkReturns,
       SessionExpires, OrphanExpires, StartDiscovery, StartCall, StartClose, Start, Lock, Step,
       ReadMemory, Reuse, Connect, ConnectFails, FirstAnswered, FirstFails, Renew, RetryFails,
       Abandon, GiveUp, LearnTypes, ResetAnswered, ResetFails, Close, Goto, Return
  <2>2. CASE Connect(p) \/ FirstAnswered(p)
    <3>1. accepted'
      BY <2>2 DEF Connect, Connected, FirstAnswered, Answered, bmcVars
    <3>2. pc'[p] # "abandon"
      BY <2>2, <1>t DEF Connect, FirstAnswered, Goto, Return
    <3> QED
      BY <3>1, <3>2
  <2>3. CASE RetryFails(p) \/ ResetFails(p)
    <3>1. Unanswered /\ (accepted \/ disturbed)
      BY <2>3 DEF RetryFails, ResetFails, Failed, Goto, HealInv
    <3> QED
      BY <3>1 DEF Unanswered, Answered
  <2> QED
    BY <2>1, <2>2, <2>3
<1> QED
  BY <1>1, <1>2

\* The steps with which a call may end.
Returns(p) ==
    \/ ReadMemory(p) \/ ConnectFails(p) \/ FirstAnswered(p) \/ Abandon(p) \/ GiveUp(p)
    \/ LearnTypes(p) \/ ResetAnswered(p) \/ Close(p)

LEMMA Ending ==
  ASSUME Inv, [Next]_vars, NEW p \in Callers, Ends(p)
  PROVE  Returns(p)
<1>t. \A q \in Callers : pc[q] \in AtWork <=> mutex = q
  BY DEF Inv, MutexInv
<1>1. PICK q \in Callers : Returns(q)
  BY ClientAssumption DEF Returns, Ends, Next, Exit, Crash, Die, Terminated, vars, LinkFails,
     LinkReturns, SessionExpires, OrphanExpires, StartDiscovery, StartCall, StartClose, Start,
     Lock, Step, Reuse, Connect, FirstFails, Renew, RetryFails, ResetFails
<1>2. q = p
  BY <1>1, <1>t DEF Returns, Ends, ReadMemory, ConnectFails, FirstAnswered, Abandon, GiveUp,
     LearnTypes, ResetAnswered, Close, AtWork, Steps
<1> QED
  BY <1>1, <1>2

\* An error from a call that retries is one of these.
LEMMA Failing ==
  ASSUME Inv, [Next]_vars, NEW p \in Callers, Ends(p), call[p] \in Retried, result'[p] = "error"
  PROVE  ConnectFails(p) \/ Abandon(p)
<1>t. result \in [Callers -> Outcomes]
  BY DEF Inv, TypeOK
<1>1. Returns(p)
  BY Ending
<1>2. ~GiveUp(p)
  BY DEF GiveUp
<1>3. ~(ReadMemory(p) \/ LearnTypes(p) \/ ResetAnswered(p) \/ Close(p))
  BY <1>t DEF ReadMemory, LearnTypes, ResetAnswered, Close, Return
<1>4. ~FirstAnswered(p)
  BY <1>t DEF FirstAnswered, Return, Ends
<1> QED
  BY <1>1, <1>2, <1>3, <1>4 DEF Returns

\* However often logins, logouts and other requests fail, GetStatus, GetSensors
\* or a power command that meets a session gone stale before it began returns an
\* error only when something failed during the call or no slot was left.
THEOREM Healing == Spec => StaleSessionHealed
<1>1. Init => HealInv
  BY DEF Init, HealInv
<1>2. Inv /\ HealInv /\ [Next]_vars =>
        \A p \in Callers :
          Ends(p) /\ call[p] \in Retried /\ result'[p] = "error" => disturbed' \/ live' = Slots
  <2> SUFFICES ASSUME Inv, HealInv, [Next]_vars, NEW p \in Callers,
                      Ends(p), call[p] \in Retried, result'[p] = "error"
               PROVE  disturbed' \/ live' = Slots
    OBVIOUS
  <2>1. CASE ConnectFails(p)
    BY <2>1 DEF ConnectFails, LoginFails
  <2>2. CASE Abandon(p)
    BY <2>2 DEF Abandon, Disconnect, histVars, HealInv
  <2> QED
    BY <2>1, <2>2, Failing
<1> QED
  BY <1>1, <1>2, InvAlways, HealStep, PTL DEF Spec, StaleSessionHealed

\* After such an error the next call starts without a session.
THEOREM Reconnecting == Spec => ErrorDropsSession
<1>1. Inv /\ [Next]_vars =>
        \A p \in Callers :
          Ends(p) /\ call[p] \in Retried /\ result'[p] = "error" => ~session'
  <2> SUFFICES ASSUME Inv, [Next]_vars, NEW p \in Callers,
                      Ends(p), call[p] \in Retried, result'[p] = "error"
               PROVE  ~session'
    OBVIOUS
  <2> QED
    BY Failing DEF ConnectFails, Abandon, Disconnect
<1> QED
  BY <1>1, InvAlways, PTL DEF Spec, ErrorDropsSession

-----------------------------------------------------------------------------
(* Sessions left at the BMC *)

\* While the process runs, all sessions of the BMC but the current one were
\* there before or were left by a fault each, and the current one is left too
\* once the link has failed under it.
LeakInv == phase # "ended" =>
    /\ live <= old + faults + 1
    /\ ~up \/ ~accepted => live <= old + faults

\* Once Close has returned, only a handler gives the client a session again;
\* nothing runs any more when the process has ended.
PhaseInv ==
    /\ phase = "closed" /\ ~late => ~session /\ mutex = NoOne
    /\ phase = "ended" => ~accepted /\ \A p \in Callers : pc[p] = "idle"

LEMMA LeakInit == Init => LeakInv /\ PhaseInv /\ SessionLeftByHandler
<1> SUFFICES ASSUME Init PROVE LeakInv /\ PhaseInv /\ SessionLeftByHandler
  OBVIOUS
<1>1. live = old /\ faults = 0 /\ old \in Nat /\ phase = "starting"
  BY ClientAssumption DEF Init
<1> QED
  BY <1>1 DEF LeakInv, PhaseInv, SessionLeftByHandler

LEMMA PhaseStep == Inv /\ PhaseInv /\ [Next]_vars => PhaseInv'
<1> SUFFICES ASSUME Inv, PhaseInv, [Next]_vars PROVE PhaseInv'
  OBVIOUS
<1>t. /\ pc \in [Callers -> Steps] /\ NoOne \notin Callers
      /\ \A q \in Callers : pc[q] \in AtWork <=> mutex = q
      /\ accepted => session
  BY ClientAssumption DEF Inv, TypeOK, MutexInv, SessionInv, Steps
<1> USE <1>t DEF callVars, bmcVars, histVars, PhaseInv, Goto
<1>1. CASE LinkFails \/ LinkReturns \/ SessionExpires \/ OrphanExpires
  BY <1>1 DEF LinkFails, LinkReturns, SessionExpires, OrphanExpires
<1>2. ASSUME NEW p \in Callers, StartDiscovery(p) \/ StartCall(p) \/ StartClose(p) PROVE PhaseInv'
  BY <1>2 DEF StartDiscovery, StartCall, StartClose, Start
<1>3. ASSUME NEW p \in Callers, Lock(p) PROVE PhaseInv'
  BY <1>3 DEF Lock
<1>4. ASSUME NEW p \in Callers, Step(p) PROVE PhaseInv'
  <2>1. pc[p] \in AtWork /\ pc[p] # "idle"
    BY <1>4 DEF Step, ReadMemory, Reuse, Connect, ConnectFails, FirstAnswered, FirstFails, Renew,
       RetryFails, Abandon, GiveUp, LearnTypes, ResetAnswered, ResetFails, Close, AtWork, Steps
  <2>2. phase # "ended" /\ ~(phase = "closed" /\ ~late)
    BY <2>1
  <2>3. CASE Close(p)
    BY <2>3 DEF Close, Disconnect, Return
  <2>4. CASE ~Close(p)
    <3>1. UNCHANGED <<phase, late>>
      BY <1>4, <2>4 DEF Step, ReadMemory, Reuse, Connect, ConnectFails, FirstAnswered, FirstFails,
         Renew, RetryFails, Abandon, GiveUp, LearnTypes, ResetAnswered, ResetFails, Disconnect, Failed
    <3> QED
      BY <2>2, <3>1
  <2> QED
    BY <2>3, <2>4
<1>5. CASE Exit \/ Crash
  BY <1>5 DEF Exit, Crash, Die
<1>6. CASE UNCHANGED vars
  BY <1>6 DEF vars
<1> QED
  BY <1>1, <1>2, <1>3, <1>4, <1>5, <1>6 DEF Next, Terminated

\* Disconnecting brings the sessions back within the bound: the logout gets
\* through, or there was nothing to log out, or it fails and that is a fault.
LEMMA Dropping ==
  ASSUME Inv, LeakInv, phase # "ended", Disconnect
  PROVE  ~accepted' /\ live' <= old + faults' /\ UNCHANGED old
<1>t. live \in Nat /\ faults \in Nat /\ old \in Nat
  BY ClientAssumption DEF Inv, TypeOK
<1>1. ~accepted' /\ UNCHANGED old
  BY DEF Disconnect
<1>2. CASE Answered /\ live' = live - 1 /\ UNCHANGED faults
  BY <1>1, <1>t, <1>2 DEF LeakInv
<1>3. CASE Answered /\ CountFault /\ UNCHANGED live
  BY <1>1, <1>t, <1>3 DEF LeakInv, CountFault
<1>4. CASE ~Answered /\ UNCHANGED <<live, faults>>
  BY <1>1, <1>t, <1>4 DEF LeakInv, Answered
<1> QED
  BY <1>1, <1>2, <1>3, <1>4 DEF Disconnect

\* The process does not come back.
LEMMA StillEnded == PhaseInv /\ [Next]_vars /\ phase' # "ended" => phase # "ended"
<1> SUFFICES ASSUME PhaseInv, [Next]_vars, phase = "ended" PROVE phase' = "ended"
  OBVIOUS
<1>1. \A p \in Callers : ~Close(p)
  BY DEF PhaseInv, Close
<1> QED
  BY <1>1 DEF Next, Exit, Crash, Die, Terminated, vars, LinkFails, LinkReturns, SessionExpires,
     OrphanExpires, StartDiscovery, StartCall, StartClose, Lock, Step, ReadMemory, Reuse,
     Connect, ConnectFails, FirstAnswered, FirstFails, Renew, RetryFails, Abandon, GiveUp,
     LearnTypes, ResetAnswered, ResetFails, Failed

LEMMA OneMore == \A a, b, c \in Nat : a <= b + c => a <= b + c + 1
  OBVIOUS

LEMMA LeakStep == Inv /\ LeakInv /\ PhaseInv /\ [Next]_vars => LeakInv'
<1> SUFFICES ASSUME Inv, LeakInv, PhaseInv, [Next]_vars, phase' # "ended"
             PROVE  /\ live' <= old' + faults' + 1
                    /\ ~up' \/ ~accepted' => live' <= old' + faults'
  BY DEF LeakInv
<1>t. live \in Nat /\ faults \in Nat /\ old \in Nat /\ SessionInv
  BY ClientAssumption DEF Inv, TypeOK
<1>p. live' \in Nat /\ faults' \in Nat /\ old' \in Nat
  BY InvStep, ClientAssumption DEF Inv, TypeOK
<1>e. /\ live <= old + faults + 1
      /\ ~up \/ ~accepted => live <= old + faults
  BY StillEnded DEF LeakInv
<1>1. CASE LinkFails \/ LinkReturns
  BY <1>1, <1>t, <1>e DEF LinkFails, LinkReturns, CountFault
<1>2. CASE SessionExpires \/ OrphanExpires
  BY <1>2, <1>t, <1>e DEF SessionExpires, OrphanExpires
<1>3. CASE UNCHANGED bmcVars
  BY <1>3, <1>e DEF bmcVars
<1>4. CASE Connected /\ ~session
  BY <1>4, <1>t, <1>e DEF Connected, SessionInv
<1>5. CASE \E p \in Callers : ConnectFails(p)
  <2>1. ~accepted /\ UNCHANGED <<up, accepted, old>> /\ LoginFails
    BY <1>5, <1>t DEF ConnectFails, SessionInv
  <2>2. live' <= old' + faults'
    <3>1. live <= old + faults /\ UNCHANGED old
      BY <2>1, <1>e
    <3>2. \/ live' = live /\ faults' = faults
          \/ live' \in {live, live + 1} /\ faults' = faults + 1
      BY <2>1 DEF LoginFails, CountFault
    <3> QED
      BY <3>1, <3>2, <1>t
  <2> QED
    BY <2>2, <1>p, OneMore
<1>6. CASE \E p \in Callers : FirstFails(p) \/ RetryFails(p) \/ ResetFails(p) \/ GiveUp(p)
  <2>1. Unanswered /\ UNCHANGED <<up, accepted, live, old>>
    BY <1>6 DEF FirstFails, RetryFails, ResetFails, GiveUp, Failed
  <2> QED
    BY <2>1, <1>t, <1>e DEF Unanswered, CountFault
<1>7. CASE \E p \in Callers : Renew(p) \/ Abandon(p) \/ Close(p)
  <2>1. Disconnect
    BY <1>7 DEF Renew, Abandon, Close
  <2>2. live' <= old' + faults'
    BY <2>1, Dropping, StillEnded
  <2> QED
    BY <2>2, <1>p, OneMore
<1>8. ~(Exit \/ Crash)
  BY DEF Exit, Crash, Die
<1> QED
  BY <1>1, <1>2, <1>3, <1>4, <1>5, <1>6, <1>7, <1>8 DEF Next, Terminated, vars, StartDiscovery,
     StartCall, StartClose, Start, Lock, Step, ReadMemory, Reuse, Connect, FirstAnswered,
     LearnTypes, ResetAnswered

\* A Close that returns leaves no session at the BMC but those of earlier
\* processes and one for each login, logout or link that failed.
THEOREM Closing == Spec => CloseLeavesNoSession
<1>1. Inv /\ LeakInv /\ PhaseInv /\ [Next]_vars =>
        \A p \in Callers : Ends(p) /\ call[p] = "close" => live' <= old + faults'
  <2> SUFFICES ASSUME Inv, LeakInv, PhaseInv, [Next]_vars, NEW p \in Callers,
                      Ends(p), call[p] = "close"
               PROVE  live' <= old + faults'
    OBVIOUS
  <2>1. Returns(p)
    BY Ending
  <2>2. Close(p)
    BY <2>1 DEF Returns, Inv, CallInv, Retried, Networked, ReadMemory, ConnectFails, FirstAnswered,
       Abandon, GiveUp, LearnTypes, ResetAnswered
  <2>3. phase # "ended"
    BY <2>2 DEF PhaseInv, Close
  <2> QED
    BY <2>2, <2>3, Dropping DEF Close
<1> QED
  BY <1>1, InvAlways, LeakInit, PhaseStep, LeakStep, PTL DEF Spec, CloseLeavesNoSession

LEMMA Slack ==
  \A a, b, o, f, g, e \in Nat : a <= o + f + e /\ b <= a /\ f <= g => b <= o + g + e
  OBVIOUS

LEMMA EndStep ==
  Inv /\ LeakInv /\ PhaseInv /\ SessionLeftByHandler /\ [Next]_vars => SessionLeftByHandler'
<1> SUFFICES ASSUME Inv, LeakInv, PhaseInv, SessionLeftByHandler, [Next]_vars, phase' = "ended"
             PROVE  live' <= old' + faults' + IF late' THEN 1 ELSE 0
  BY DEF SessionLeftByHandler
<1>t. live \in Nat /\ faults \in Nat /\ old \in Nat /\ SessionInv
  BY ClientAssumption DEF Inv, TypeOK
<1>p. live' \in Nat /\ faults' \in Nat
  BY InvStep, ClientAssumption DEF Inv, TypeOK
<1>1. CASE Exit
  <2>1. /\ UNCHANGED <<live, faults, old, late>>
        /\ phase = "closed" /\ live <= old + faults + 1
        /\ ~accepted => live <= old + faults
    BY <1>1 DEF Exit, Die, histVars, LeakInv
  <2>2. late \/ ~accepted
    BY <2>1, <1>t DEF PhaseInv, SessionInv
  <2> QED
    BY <2>1, <2>2, <1>t
<1>2. CASE Crash
  BY <1>2, <1>t DEF Crash, Die, CountFault, histVars, LeakInv
<1>3. CASE ~Exit /\ ~Crash
  <2>1. phase = "ended"
    BY <1>3 DEF Next, Terminated, vars, LinkFails, LinkReturns, SessionExpires, OrphanExpires,
       StartDiscovery, StartCall, StartClose, Lock, Step, ReadMemory, Reuse, Connect, ConnectFails,
       FirstAnswered, FirstFails, Renew, RetryFails, Abandon, GiveUp, LearnTypes, ResetAnswered,
       ResetFails, Failed, Close
  <2>2. \A p \in Callers : ~Step(p) /\ ~Lock(p) /\ ~StartDiscovery(p) /\ ~StartCall(p) /\ ~StartClose(p)
    BY <2>1 DEF PhaseInv, StartDiscovery, StartCall, StartClose, Lock, Goto, Step, ReadMemory, Reuse,
       Connect, ConnectFails, FirstAnswered, FirstFails, Renew, RetryFails, Abandon, GiveUp,
       LearnTypes, ResetAnswered, ResetFails, Close
  <2>3. live <= old + faults + IF late THEN 1 ELSE 0
    BY <2>1 DEF SessionLeftByHandler
  <2>4. UNCHANGED <<old, late>> /\ live' \in {live, live - 1} /\ faults' \in {faults, faults + 1}
    BY <1>3, <2>2 DEF Next, Terminated, vars, bmcVars, histVars, LinkFails, LinkReturns,
       SessionExpires, OrphanExpires, CountFault
  <2> DEFINE more == IF late THEN 1 ELSE 0
  <2>5. /\ more \in Nat /\ more' = more /\ old' = old
        /\ live' \in Nat /\ live' <= live /\ faults' \in Nat /\ faults <= faults'
    BY <2>4, <1>t, <1>p
  <2> HIDE DEF more
  <2>6. live' <= old' + faults' + more'
    BY <2>3, <2>5, <1>t, Slack DEF more
  <2> QED
    BY <2>6 DEF more
<1> QED
  BY <1>1, <1>2, <1>3

\* A process that has ended leaves at the BMC what was there and one session for
\* each fault, and one more only when a handler called the client after Close.
THEOREM Ended == Spec => []SessionLeftByHandler
  BY InvAlways, LeakInit, PhaseStep, LeakStep, EndStep, PTL DEF Spec
=============================================================================
