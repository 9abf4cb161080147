---------------------------- MODULE UpdaterProofs ----------------------------
(***************************************************************************)
(* Proofs about Updater for any number of browsers and appliers, any       *)
(* number of releases, signals and crashes, with and without auto_apply:   *)
(* type correctness, one installation at a time, an honest checking flag   *)
(* and a binary on disk that is whole and never older than the process.    *)
(***************************************************************************)
EXTENDS Updater, FiniteSetTheorems, TLAPS

-----------------------------------------------------------------------------
(* Type correctness *)

Places == {"idle", "decide", "answer", "apply"} \union CheckSteps \union ApplySteps

\* What is offered or being applied is a release newer than the process, and a
\* process that is down has no goroutines.
ReleaseInv ==
    /\ available # NoRelease => available > current
    /\ \A t \in Tasks : pc[t] \in ApplySteps => rel[t] > current
    /\ proc = "down" => available = NoRelease /\ \A t \in Tasks : pc[t] = "idle"

Inv == TypeOK /\ ReleaseInv

\* Apply is a task's, and a browser or an applier is one.
LEMMA TaskKinds == /\ Loop \in Tasks
                   /\ \A b \in Browsers : b \in Tasks
                   /\ \A a \in Appliers : a \in Tasks
  BY DEF Tasks

LEMMA TypesKnown ==
  ASSUME TypeOK
  PROVE  /\ pc \in [Tasks -> Places] /\ rel \in [Tasks -> Versions \union {NoRelease}]
         /\ current \in Nat /\ installed \in Nat /\ available \in Nat
         /\ \A t \in Tasks : rel[t] \in Nat
         /\ Versions \subseteq Nat /\ NoRelease = 0
  BY UpdaterAssumption DEF TypeOK, Places, Versions, NoRelease

LEMMA InvInit == Init => Inv
<1> SUFFICES ASSUME Init PROVE Inv
  OBVIOUS
<1> USE UpdaterAssumption DEF Init
<1>1. /\ newest \in 0 .. MaxVersion /\ stops \in 0 .. MaxStops
      /\ installed \in Versions /\ current \in Versions
      /\ available \in Versions \union {NoRelease}
  BY DEF Versions, NoRelease
<1>2. /\ intact \in BOOLEAN /\ checking \in BOOLEAN /\ applying \in BOOLEAN /\ failed \in BOOLEAN
      /\ proc \in {"up", "stopping", "down"}
  BY Zenon
<1>3. pc \in [Tasks -> Places] /\ rel \in [Tasks -> Versions \union {NoRelease}]
  BY DEF Places
<1>4. /\ page \in [Browsers -> Banners] /\ script \in [Browsers -> BOOLEAN]
      /\ seen \in [Browsers -> Versions]
  BY DEF Banners, Versions
<1>5. ReleaseInv
  BY DEF ReleaseInv, ApplySteps
<1> QED
  BY <1>1, <1>2, <1>3, <1>4, <1>5 DEF Inv, TypeOK, Places

\* The steps of a task keep the types: those of a check ...
LEMMA CheckTypes ==
  ASSUME TypeOK, NEW t \in Tasks, BeginCheck(t) \/ Check(t)
  PROVE  TypeOK'
<1> USE DEF Goto, diskVars, procVars, flagVars, pageVars
<1>1. CASE BeginCheck(t)
  BY <1>1 DEF BeginCheck, TypeOK, CheckSteps
<1>2. CASE DetectLatest(t)
  <2>1. newest \in Versions \union {NoRelease}
    BY UpdaterAssumption DEF TypeOK, Versions, NoRelease
  <2> QED
    BY <1>2, <2>1 DEF DetectLatest, TypeOK, CheckSteps
<1>3. CASE DetectFails(t)
  BY <1>3 DEF DetectFails, TypeOK, CheckSteps
<1>4. CASE StoreRelease(t)
  <2>1. available' \in Versions \union {NoRelease}
    BY <1>4 DEF StoreRelease, TypeOK
  <2> QED
    BY <1>4, <2>1 DEF StoreRelease, TypeOK, CheckSteps
<1>5. CASE EndCheck(t)
  BY <1>5 DEF EndCheck, TypeOK
<1> QED
  BY <1>1, <1>2, <1>3, <1>4, <1>5 DEF Check

\* ... and those of an apply.
LEMMA ApplyTypes ==
  ASSUME Inv, NEW t \in Tasks, Apply(t)
  PROVE  TypeOK'
<1>i. TypeOK /\ ReleaseInv
  BY DEF Inv
<1> USE <1>i DEF Goto, diskVars, procVars, flagVars, pageVars
<1>1. CASE BeginApply(t) \/ RejectApply(t)
  BY <1>1 DEF BeginApply, RejectApply, TypeOK, ApplySteps
<1>2. CASE Fetch(t) \/ FetchDamaged(t) \/ FetchFails(t) \/ InstallFails(t)
  BY <1>2 DEF Fetch, FetchDamaged, FetchFails, InstallFails, TypeOK, ApplySteps
<1>3. CASE Install(t)
  <2>1. rel[t] \in Versions
    BY <1>3, TypesKnown DEF Install, ReleaseInv, ApplySteps, TypeOK
  <2> QED
    BY <1>3, <2>1 DEF Install, TypeOK, ApplySteps
<1>4. CASE SetErr(t) \/ ForgetRelease(t)
  BY <1>4 DEF SetErr, ForgetRelease, TypeOK, ApplySteps
<1>5. CASE OnUpdate(t) \/ EndApply(t)
  BY <1>5 DEF OnUpdate, EndApply, TypeOK, ApplySteps
<1> QED
  BY <1>1, <1>2, <1>3, <1>4, <1>5 DEF Apply

LEMMA BannerTypes == Banner \in Banners
  BY DEF Banner, Banners

LEMMA TypeStep == Inv /\ [Next]_vars => TypeOK'
<1> SUFFICES ASSUME Inv, [Next]_vars PROVE TypeOK'
  OBVIOUS
<1>i. TypeOK /\ ReleaseInv
  BY DEF Inv
<1> USE <1>i
<1>1. CASE Publish
  <2>1. newest' \in 0 .. MaxVersion
    BY <1>1, UpdaterAssumption DEF Publish, TypeOK
  <2> QED
    BY <1>1, <2>1 DEF Publish, TypeOK, diskVars, procVars, flagVars, taskVars, pageVars
<1>2. CASE Run
  <2>1. CASE Decide
    BY <2>1 DEF Decide, Goto, TypeOK, diskVars, procVars, flagVars, pageVars
  <2> QED
    BY <1>2, <2>1, TaskKinds, CheckTypes, ApplyTypes DEF Run, LoopChecks
<1>3. ASSUME NEW a \in Appliers, Apply(a) PROVE TypeOK'
  BY <1>3, TaskKinds, ApplyTypes
<1>4. ASSUME NEW b \in Browsers, PostCheck(b) \/ Check(b) PROVE TypeOK'
  BY <1>4, TaskKinds, CheckTypes DEF PostCheck
<1>5. ASSUME NEW b \in Browsers, AnswerCheck(b) \/ Refresh(b) PROVE TypeOK'
  BY <1>5, BannerTypes DEF AnswerCheck, Refresh, ShowBanner, Goto, TypeOK, diskVars, procVars,
     flagVars, taskVars
<1>6. ASSUME NEW b \in Browsers, NEW a \in Appliers, PostApply(b, a) PROVE TypeOK'
  BY <1>6 DEF PostApply, ShowBanner, Goto, TypeOK, Banners, diskVars, procVars, flagVars
<1>7. ASSUME NEW b \in Browsers, ScriptReloads(b) \/ ScriptGivesUp(b) PROVE TypeOK'
  BY <1>7 DEF ScriptReloads, ScriptGivesUp, TypeOK, Banners, diskVars, procVars, flagVars,
     taskVars
<1>8. CASE Signal \/ Exit \/ Crash \/ Restart
  <2>1. stops' \in 0 .. MaxStops
    BY <1>8, UpdaterAssumption DEF Signal, Exit, Crash, Restart, CountStop, procVars, TypeOK
  <2>2. CASE Signal
    BY <2>1, <2>2 DEF Signal, TypeOK, diskVars, flagVars, taskVars, pageVars
  <2>3. CASE Exit \/ Crash
    BY <2>1, <2>3 DEF Exit, Crash, Die, TypeOK, diskVars, pageVars, NoRelease
  <2>4. CASE Restart
    BY <2>1, <2>4 DEF Restart, TypeOK, diskVars, flagVars, taskVars, pageVars
  <2> QED
    BY <1>8, <2>2, <2>3, <2>4
<1>9. CASE UNCHANGED vars
  BY <1>9 DEF vars, TypeOK, diskVars, procVars, flagVars, taskVars, pageVars
<1> QED
  BY <1>1, <1>2, <1>3, <1>4, <1>5, <1>6, <1>7, <1>8, <1>9 DEF Next

-----------------------------------------------------------------------------
(* Releases *)

\* A live step that takes no task into an apply, changes no release that is
\* being applied and offers nothing new keeps ReleaseInv.
LEMMA ReleaseFrame ==
  ASSUME Inv, current' = current, available' \in {available, NoRelease}, proc' # "down",
         \A u \in Tasks : pc'[u] \in ApplySteps => pc[u] \in ApplySteps /\ rel'[u] = rel[u]
  PROVE  ReleaseInv'
  BY DEF Inv, ReleaseInv

\* A check stores only what is newer than the process.
LEMMA CheckReleases ==
  ASSUME Inv, NEW t \in Tasks, BeginCheck(t) \/ Check(t)
  PROVE  ReleaseInv'
<1>t. pc \in [Tasks -> Places] /\ ReleaseInv
  BY TypesKnown DEF Inv
<1>d. ~(pc[t] \in CheckSteps /\ proc = "down")
  BY <1>t DEF ReleaseInv, CheckSteps
<1> USE DEF Goto, diskVars, procVars, flagVars, pageVars
<1>1. CASE BeginCheck(t)
  BY <1>1, <1>t, ReleaseFrame DEF BeginCheck, ApplySteps
<1>2. CASE DetectLatest(t)
  BY <1>2, <1>d, <1>t, ReleaseFrame DEF DetectLatest, ApplySteps, CheckSteps
<1>3. CASE DetectFails(t)
  BY <1>3, <1>d, <1>t, ReleaseFrame DEF DetectFails, ApplySteps, CheckSteps
<1>4. CASE StoreRelease(t)
  <2>1. available' # NoRelease => available' > current'
    BY <1>4 DEF StoreRelease
  <2>2. \A u \in Tasks : pc'[u] \in ApplySteps => rel'[u] > current'
    BY <1>4, <1>t DEF StoreRelease, ReleaseInv, ApplySteps
  <2>3. proc' # "down"
    BY <1>4, <1>d DEF StoreRelease, CheckSteps
  <2> QED
    BY <2>1, <2>2, <2>3 DEF ReleaseInv
<1>5. CASE EndCheck(t)
  BY <1>5, <1>d, <1>t, ReleaseFrame DEF EndCheck, ApplySteps, CheckSteps
<1> QED
  BY <1>1, <1>2, <1>3, <1>4, <1>5 DEF Check

\* An apply works on what was offered when it began.
LEMMA ApplyReleases ==
  ASSUME Inv, NEW t \in Tasks, Apply(t)
  PROVE  ReleaseInv'
<1>t. /\ pc \in [Tasks -> Places] /\ rel \in [Tasks -> Versions \union {NoRelease}]
      /\ ReleaseInv
  BY TypesKnown DEF Inv
<1>d. ~(pc[t] \in {"apply"} \union ApplySteps /\ proc = "down")
  BY <1>t DEF ReleaseInv, ApplySteps
<1> USE DEF Goto, diskVars, procVars, flagVars, pageVars
<1>1. CASE BeginApply(t)
  <2>1. available' # NoRelease => available' > current'
    BY <1>1, <1>t DEF BeginApply, ReleaseInv
  <2>2. \A u \in Tasks : pc'[u] \in ApplySteps => rel'[u] > current'
    BY <1>1, <1>t DEF BeginApply, ReleaseInv
  <2>3. proc' # "down"
    BY <1>1, <1>d DEF BeginApply
  <2> QED
    BY <2>1, <2>2, <2>3 DEF ReleaseInv
<1>2. CASE RejectApply(t)
  BY <1>2, <1>d, <1>t, ReleaseFrame DEF RejectApply, ApplySteps
<1>3. CASE Fetch(t) \/ FetchDamaged(t) \/ FetchFails(t)
  BY <1>3, <1>d, <1>t, ReleaseFrame DEF Fetch, FetchDamaged, FetchFails, ApplySteps
<1>4. CASE Install(t) \/ InstallFails(t)
  BY <1>4, <1>d, <1>t, ReleaseFrame DEF Install, InstallFails, ApplySteps
<1>5. CASE SetErr(t) \/ ForgetRelease(t) \/ OnUpdate(t)
  BY <1>5, <1>d, <1>t, ReleaseFrame DEF SetErr, ForgetRelease, OnUpdate, ApplySteps
<1>6. CASE EndApply(t)
  BY <1>6, <1>d, <1>t, ReleaseFrame DEF EndApply, ApplySteps
<1> QED
  BY <1>1, <1>2, <1>3, <1>4, <1>5, <1>6 DEF Apply

LEMMA ReleaseStep == Inv /\ [Next]_vars => ReleaseInv'
<1> SUFFICES ASSUME Inv, [Next]_vars PROVE ReleaseInv'
  OBVIOUS
<1>t. pc \in [Tasks -> Places] /\ ReleaseInv
  BY TypesKnown DEF Inv
<1>0. ASSUME UNCHANGED <<available, current, proc, taskVars>> PROVE ReleaseInv'
  BY <1>0, <1>t DEF ReleaseInv, taskVars
<1>1. CASE Publish
  BY <1>1, <1>0 DEF Publish, procVars, flagVars
<1>2. CASE Run
  <2>1. CASE Decide
    <3>1. proc # "down"
      BY <2>1, <1>t, TaskKinds DEF Decide, Goto, ReleaseInv
    <3> QED
      BY <2>1, <3>1, <1>t, TaskKinds, ReleaseFrame DEF Decide, Goto, procVars, flagVars, ApplySteps
  <2> QED
    BY <1>2, <2>1, TaskKinds, CheckReleases, ApplyReleases DEF Run, LoopChecks
<1>3. ASSUME NEW a \in Appliers, Apply(a) PROVE ReleaseInv'
  BY <1>3, TaskKinds, ApplyReleases
<1>4. ASSUME NEW b \in Browsers, PostCheck(b) \/ Check(b) PROVE ReleaseInv'
  BY <1>4, TaskKinds, CheckReleases DEF PostCheck
<1>5. ASSUME NEW b \in Browsers, AnswerCheck(b) PROVE ReleaseInv'
  <2>1. b \in Tasks /\ proc # "down"
    BY <1>5, <1>t, TaskKinds DEF AnswerCheck, Goto, ReleaseInv
  <2> QED
    BY <1>5, <2>1, <1>t, ReleaseFrame DEF AnswerCheck, Goto, procVars, flagVars, ApplySteps
<1>6. ASSUME NEW b \in Browsers, NEW a \in Appliers, PostApply(b, a) PROVE ReleaseInv'
  BY <1>6, <1>t, TaskKinds, ReleaseFrame DEF PostApply, Goto, procVars, flagVars, ApplySteps
<1>7. ASSUME NEW b \in Browsers, Refresh(b) \/ ScriptReloads(b) \/ ScriptGivesUp(b) PROVE ReleaseInv'
  BY <1>7, <1>0 DEF Refresh, ScriptReloads, ScriptGivesUp, procVars, flagVars
<1>8. CASE Signal
  BY <1>8, <1>t DEF Signal, ReleaseInv, flagVars, taskVars
<1>9. CASE Exit \/ Crash
  BY <1>9 DEF Exit, Crash, Die, ReleaseInv, ApplySteps
<1>10. CASE Restart
  BY <1>10, <1>t DEF Restart, ReleaseInv, ApplySteps, flagVars, taskVars
<1>11. CASE UNCHANGED vars
  BY <1>11, <1>0 DEF vars, procVars, flagVars
<1> QED
  BY <1>1, <1>2, <1>3, <1>4, <1>5, <1>6, <1>7, <1>8, <1>9, <1>10, <1>11 DEF Next

LEMMA InvStep == Inv /\ [Next]_vars => Inv'
  BY TypeStep, ReleaseStep DEF Inv

LEMMA InvAlways == Spec => []Inv
  BY InvInit, InvStep, PTL DEF Spec

\* Whatever checks, applies and restarts interleave, all variables keep their
\* types: nothing but a release is ever installed.
THEOREM TypeCorrect == Spec => []TypeOK
<1>1. Inv => TypeOK
  BY DEF Inv
<1> QED
  BY <1>1, InvAlways, PTL

-----------------------------------------------------------------------------
(* One installer *)

Installing(t) == pc[t] \in ApplySteps

\* The flag is a lock: nobody else is past taking it, and it is taken.
InstallerInv ==
    /\ \A t, u \in Tasks : Installing(t) /\ Installing(u) => t = u
    /\ applying <=> \E t \in Tasks : Installing(t)

\* Only the beginning and the end of Apply and the end of the process move the
\* flag or a task in or out of the steps it protects.
LEMMA InstallerSteps ==
  ASSUME Inv, [Next]_vars
  PROVE  \/ applying' = applying /\ \A t \in Tasks : Installing(t)' <=> Installing(t)
         \/ \E t \in Tasks : BeginApply(t) \/ EndApply(t)
         \/ Die
<1>t. pc \in [Tasks -> Places]
  BY TypesKnown DEF Inv
<1> DEFINE Same == applying' = applying /\ \A t \in Tasks : Installing(t)' <=> Installing(t)
<1>0. ASSUME UNCHANGED <<applying, taskVars>> PROVE Same
  BY <1>0 DEF Installing, taskVars
<1> USE <1>t DEF Goto, diskVars, procVars, flagVars, pageVars, Installing
<1>c. ASSUME NEW t \in Tasks, BeginCheck(t) \/ Check(t) PROVE Same
  BY <1>c DEF BeginCheck, Check, DetectLatest, DetectFails, StoreRelease, EndCheck, ApplySteps
<1>a. ASSUME NEW t \in Tasks, Apply(t), ~BeginApply(t), ~EndApply(t) PROVE Same
  <2>1. CASE RejectApply(t) \/ Fetch(t) \/ FetchDamaged(t) \/ FetchFails(t)
    BY <2>1 DEF RejectApply, Fetch, FetchDamaged, FetchFails, ApplySteps
  <2>2. CASE Install(t) \/ InstallFails(t) \/ SetErr(t) \/ ForgetRelease(t) \/ OnUpdate(t)
    BY <2>2 DEF Install, InstallFails, SetErr, ForgetRelease, OnUpdate, ApplySteps
  <2> QED
    BY <1>a, <2>1, <2>2 DEF Apply
<1>1. CASE Publish \/ Signal \/ Restart \/ UNCHANGED vars
  BY <1>1, <1>0 DEF Publish, Signal, Restart, vars
<1>2. CASE Exit \/ Crash
  BY <1>2 DEF Exit, Crash
<1>3. CASE Decide
  BY <1>3, TaskKinds DEF Decide, ApplySteps
<1>4. CASE LoopChecks \/ Check(Loop) \/ Apply(Loop)
  BY <1>4, <1>c, <1>a, TaskKinds DEF LoopChecks
<1>5. CASE \E a \in Appliers : Apply(a)
  BY <1>5, <1>a, TaskKinds
<1>6. ASSUME NEW b \in Browsers, PostCheck(b) \/ Check(b) PROVE Same
  BY <1>6, <1>c, TaskKinds DEF PostCheck
<1>7. ASSUME NEW b \in Browsers, AnswerCheck(b) PROVE Same
  BY <1>7, TaskKinds DEF AnswerCheck, ApplySteps
<1>8. ASSUME NEW b \in Browsers, NEW a \in Appliers, PostApply(b, a) PROVE Same
  BY <1>8, TaskKinds DEF PostApply, ApplySteps
<1>9. ASSUME NEW b \in Browsers, Refresh(b) \/ ScriptReloads(b) \/ ScriptGivesUp(b) PROVE Same
  BY <1>9, <1>0 DEF Refresh, ScriptReloads, ScriptGivesUp
<1> QED
  BY <1>1, <1>2, <1>3, <1>4, <1>5, <1>6, <1>7, <1>8, <1>9 DEF Next, Run

LEMMA InstallerStep == Inv /\ InstallerInv /\ [Next]_vars => InstallerInv'
<1> SUFFICES ASSUME Inv, InstallerInv, [Next]_vars PROVE InstallerInv'
  OBVIOUS
<1>t. pc \in [Tasks -> Places]
  BY TypesKnown DEF Inv
<1>1. CASE applying' = applying /\ \A t \in Tasks : Installing(t)' <=> Installing(t)
  BY <1>1 DEF InstallerInv
<1>2. ASSUME NEW t \in Tasks, BeginApply(t) PROVE InstallerInv'
  <2>1. \A u \in Tasks : ~Installing(u)
    BY <1>2 DEF BeginApply, InstallerInv
  <2>2. \A u \in Tasks : Installing(u)' <=> u = t
    BY <1>2, <1>t, <2>1 DEF BeginApply, Goto, Installing, ApplySteps
  <2>3. applying'
    BY <1>2 DEF BeginApply
  <2> QED
    BY <2>2, <2>3 DEF InstallerInv
<1>3. ASSUME NEW t \in Tasks, EndApply(t) PROVE InstallerInv'
  <2>1. Installing(t)
    BY <1>3 DEF EndApply, Goto, Installing, ApplySteps
  <2>2. \A u \in Tasks : ~Installing(u)'
    BY <1>3, <1>t, <2>1 DEF EndApply, Goto, Installing, ApplySteps, InstallerInv
  <2>3. ~applying'
    BY <1>3 DEF EndApply
  <2> QED
    BY <2>2, <2>3 DEF InstallerInv
<1>4. CASE Die
  BY <1>4 DEF Die, InstallerInv, Installing, ApplySteps
<1> QED
  BY <1>1, <1>2, <1>3, <1>4, InstallerSteps

\* A set with no two different members has at most one.
LEMMA AtMostOne ==
  ASSUME NEW S, \A x, y \in S : x = y
  PROVE  Cardinality(S) <= 1
<1>1. CASE S = {}
  BY <1>1, FS_EmptySet
<1>2. CASE S # {}
  <2>1. PICK x : x \in S
    BY <1>2
  <2>2. S = {x}
    BY <2>1
  <2> QED
    BY <2>2, FS_Singleton
<1> QED
  BY <1>1, <1>2

\* "Concurrent calls are rejected": however loop and handlers interleave, one
\* goroutine at most is applying, and the applying flag is up exactly then.
THEOREM Exclusion == Spec => []OneInstaller
<1>1. Init => InstallerInv
  BY DEF Init, InstallerInv, Installing, ApplySteps
<1>2. InstallerInv => OneInstaller
  <2> SUFFICES ASSUME InstallerInv PROVE OneInstaller
    OBVIOUS
  <2>1. Cardinality({t \in Tasks : pc[t] \in ApplySteps}) <= 1
    BY AtMostOne DEF InstallerInv, Installing
  <2> QED
    BY <2>1 DEF InstallerInv, Installing, OneInstaller
<1> QED
  BY <1>1, <1>2, InvAlways, InstallerStep, PTL DEF Spec

-----------------------------------------------------------------------------
(* The checking flag *)

\* Whatever raises the flag or keeps it up has, or leaves, a check under way.
LEMMA CheckingStep == Inv /\ CheckingBacked /\ [Next]_vars => CheckingBacked'
<1> SUFFICES ASSUME Inv, CheckingBacked, [Next]_vars PROVE CheckingBacked'
  OBVIOUS
<1>t. pc \in [Tasks -> Places] /\ CheckingBacked
  BY TypesKnown DEF Inv
<1>0. ASSUME UNCHANGED <<checking, taskVars>> PROVE CheckingBacked'
  BY <1>0, <1>t DEF CheckingBacked, taskVars
<1>n. ASSUME ~checking' PROVE CheckingBacked'
  BY <1>n DEF CheckingBacked
<1> USE DEF Goto, diskVars, procVars, flagVars, pageVars
<1>c. ASSUME NEW t \in Tasks, BeginCheck(t) \/ Check(t) PROVE CheckingBacked'
  <2>1. CASE BeginCheck(t)
    BY <2>1, <1>t DEF BeginCheck, CheckingBacked, CheckSteps
  <2>2. CASE DetectLatest(t) \/ DetectFails(t) \/ StoreRelease(t)
    BY <2>2, <1>t DEF DetectLatest, DetectFails, StoreRelease, CheckingBacked, CheckSteps
  <2>3. CASE EndCheck(t)
    BY <2>3, <1>n DEF EndCheck
  <2> QED
    BY <1>c, <2>1, <2>2, <2>3 DEF Check
<1>a. ASSUME NEW t \in Tasks, Apply(t) PROVE CheckingBacked'
  <2> USE <1>t DEF CheckingBacked, CheckSteps
  <2>1. CASE BeginApply(t) \/ RejectApply(t) \/ Fetch(t) \/ FetchDamaged(t) \/ FetchFails(t)
    BY <2>1 DEF BeginApply, RejectApply, Fetch, FetchDamaged, FetchFails
  <2>2. CASE Install(t) \/ InstallFails(t) \/ SetErr(t)
    BY <2>2 DEF Install, InstallFails, SetErr
  <2>3. CASE ForgetRelease(t) \/ OnUpdate(t) \/ EndApply(t)
    BY <2>3 DEF ForgetRelease, OnUpdate, EndApply
  <2> QED
    BY <1>a, <2>1, <2>2, <2>3 DEF Apply
<1>1. CASE Publish \/ Signal \/ Restart \/ UNCHANGED vars
  BY <1>1, <1>0 DEF Publish, Signal, Restart, vars
<1>2. CASE Exit \/ Crash
  BY <1>2, <1>n DEF Exit, Crash, Die
<1>3. CASE Decide
  BY <1>3, <1>t, TaskKinds DEF Decide, CheckingBacked, CheckSteps
<1>4. CASE LoopChecks \/ Check(Loop) \/ Apply(Loop)
  BY <1>4, <1>c, <1>a, TaskKinds DEF LoopChecks
<1>5. CASE \E a \in Appliers : Apply(a)
  BY <1>5, <1>a, TaskKinds
<1>6. ASSUME NEW b \in Browsers, PostCheck(b) \/ Check(b) PROVE CheckingBacked'
  BY <1>6, <1>c, TaskKinds DEF PostCheck
<1>7. ASSUME NEW b \in Browsers, AnswerCheck(b) PROVE CheckingBacked'
  BY <1>7, <1>t, TaskKinds DEF AnswerCheck, CheckingBacked, CheckSteps
<1>8. ASSUME NEW b \in Browsers, NEW a \in Appliers, PostApply(b, a) PROVE CheckingBacked'
  BY <1>8, <1>t, TaskKinds DEF PostApply, CheckingBacked, CheckSteps
<1>9. ASSUME NEW b \in Browsers, Refresh(b) \/ ScriptReloads(b) \/ ScriptGivesUp(b)
      PROVE  CheckingBacked'
  BY <1>9, <1>0 DEF Refresh, ScriptReloads, ScriptGivesUp
<1> QED
  BY <1>1, <1>2, <1>3, <1>4, <1>5, <1>6, <1>7, <1>8, <1>9 DEF Next, Run

\* The flag is up only while a check runs, however many there are.
THEOREM CheckingHonest == Spec => []CheckingBacked
<1>1. Init => CheckingBacked
  BY DEF Init, CheckingBacked
<1> QED
  BY <1>1, InvAlways, CheckingStep, PTL DEF Spec

-----------------------------------------------------------------------------
(* The binary on disk *)

Replaced == {"installed", "notify"}

\* Only Install writes the binary, and only Restart runs another one.
LEMMA BinarySteps ==
  ASSUME Inv, [Next]_vars
  PROVE  \/ /\ UNCHANGED <<installed, intact, current>>
            /\ \A t \in Tasks : pc'[t] \in Replaced => pc[t] \in Replaced
         \/ \E t \in Tasks : Install(t)
         \/ Restart
<1>t. pc \in [Tasks -> Places]
  BY TypesKnown DEF Inv
<1> DEFINE Same == /\ UNCHANGED <<installed, intact, current>>
                   /\ \A t \in Tasks : pc'[t] \in Replaced => pc[t] \in Replaced
<1>0. ASSUME UNCHANGED <<installed, intact, current, taskVars>> PROVE Same
  BY <1>0 DEF taskVars
<1> USE <1>t DEF Goto, diskVars, procVars, flagVars, pageVars, Replaced
<1>c. ASSUME NEW t \in Tasks, BeginCheck(t) \/ Check(t) PROVE Same
  BY <1>c DEF BeginCheck, Check, DetectLatest, DetectFails, StoreRelease, EndCheck
<1>a. ASSUME NEW t \in Tasks, Apply(t), ~Install(t) PROVE Same
  <2>1. CASE BeginApply(t) \/ RejectApply(t) \/ Fetch(t) \/ FetchDamaged(t) \/ FetchFails(t)
    BY <2>1 DEF BeginApply, RejectApply, Fetch, FetchDamaged, FetchFails
  <2>2. CASE InstallFails(t) \/ SetErr(t) \/ ForgetRelease(t) \/ OnUpdate(t) \/ EndApply(t)
    BY <2>2 DEF InstallFails, SetErr, ForgetRelease, OnUpdate, EndApply
  <2> QED
    BY <1>a, <2>1, <2>2 DEF Apply
<1>1. CASE Publish \/ Signal \/ UNCHANGED vars
  BY <1>1, <1>0 DEF Publish, Signal, vars
<1>2. CASE Exit \/ Crash
  BY <1>2 DEF Exit, Crash, Die
<1>3. CASE Decide
  BY <1>3, TaskKinds DEF Decide
<1>4. CASE LoopChecks \/ Check(Loop) \/ Apply(Loop)
  BY <1>4, <1>c, <1>a, TaskKinds DEF LoopChecks
<1>5. CASE \E a \in Appliers : Apply(a)
  BY <1>5, <1>a, TaskKinds
<1>6. ASSUME NEW b \in Browsers, PostCheck(b) \/ Check(b) PROVE Same
  BY <1>6, <1>c, TaskKinds DEF PostCheck
<1>7. ASSUME NEW b \in Browsers, AnswerCheck(b) PROVE Same
  BY <1>7, TaskKinds DEF AnswerCheck
<1>8. ASSUME NEW b \in Browsers, NEW a \in Appliers, PostApply(b, a) PROVE Same
  BY <1>8, TaskKinds DEF PostApply
<1>9. ASSUME NEW b \in Browsers, Refresh(b) \/ ScriptReloads(b) \/ ScriptGivesUp(b) PROVE Same
  BY <1>9, <1>0 DEF Refresh, ScriptReloads, ScriptGivesUp
<1> QED
  BY <1>1, <1>2, <1>3, <1>4, <1>5, <1>6, <1>7, <1>8, <1>9 DEF Next, Run

LEMMA BinaryStep == Inv /\ SoundBinary /\ [Next]_vars => SoundBinary'
<1> SUFFICES ASSUME Inv, SoundBinary, [Next]_vars PROVE SoundBinary'
  OBVIOUS
<1>t. /\ pc \in [Tasks -> Places] /\ current \in Nat /\ installed \in Nat
      /\ \A t \in Tasks : rel[t] \in Nat
      /\ ReleaseInv
  BY TypesKnown DEF Inv
<1>1. CASE /\ UNCHANGED <<installed, intact, current>>
           /\ \A t \in Tasks : pc'[t] \in Replaced => pc[t] \in Replaced
  BY <1>1 DEF SoundBinary, Replaced
<1>2. ASSUME NEW t \in Tasks, Install(t) PROVE SoundBinary'
  <2>1. rel[t] > current
    BY <1>2, <1>t DEF Install, Goto, ReleaseInv, ApplySteps
  <2>2. installed' = rel[t] /\ current' = current /\ intact'
    BY <1>2 DEF Install, procVars
  <2>3. installed' > current' /\ installed' >= current'
    BY <2>1, <2>2, <1>t
  <2> QED
    BY <2>2, <2>3 DEF SoundBinary
<1>3. CASE Restart
  <2>1. \A t \in Tasks : pc'[t] = "idle"
    BY <1>3, <1>t DEF Restart, ReleaseInv, taskVars
  <2>2. intact' /\ installed' = current' /\ installed' \in Nat
    BY <1>3, <1>t DEF Restart, diskVars
  <2>3. installed' >= current'
    BY <2>2
  <2> QED
    BY <2>1, <2>2, <2>3 DEF SoundBinary
<1> QED
  BY <1>1, <1>2, <1>3, BinarySteps

\* Damaged downloads, failed installations, overlapping checks and crashes never
\* leave a broken binary or an older one behind, and the process restarts itself
\* only into a newer one.
THEOREM Soundness == Spec => []SoundBinary
<1>1. Init => SoundBinary
  BY DEF Init, SoundBinary
<1> QED
  BY <1>1, InvAlways, BinaryStep, PTL DEF Spec
=============================================================================
