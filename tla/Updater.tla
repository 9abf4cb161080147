------------------------------- MODULE Updater -------------------------------
(***************************************************************************)
(* internal/updater/updater.go: the background loop, manual checks and     *)
(* manual applies share a few flags under u.mu; a successful apply replaces *)
(* the binary and stops the process, which systemd starts again.  The      *)
(* update banner of views/update.templ polls the server meanwhile.         *)
(***************************************************************************)
EXTENDS Naturals, FiniteSets

CONSTANTS
    Loop,        \* the goroutine of Run
    Browsers,    \* open pages, each with at most one check in flight
    Appliers,    \* bound: goroutines of handleUpdateApply at a time
    AutoApply,   \* update.auto_apply
    MaxVersion,  \* bound: versions ever released
    MaxStops     \* bound: signals and crashes in a behaviour

ASSUME UpdaterAssumption ==
    /\ AutoApply \in BOOLEAN
    /\ MaxVersion \in Nat \ {0} /\ MaxStops \in Nat
    /\ Loop \notin Browsers \union Appliers /\ Browsers \intersect Appliers = {}

Versions == 1 .. MaxVersion
NoRelease == 0
Tasks == {Loop} \union Browsers \union Appliers

VARIABLES
    newest,     \* external: the last version released on GitHub, 0 for none
    installed,  \* external: the version of the binary on disk
    intact,     \* external: that binary is as it was released
    proc,       \* up, stopping (ctx is done), down
    current,    \* u.current, the version of the running process
    available,  \* u.available
    checking,   \* u.checking
    applying,   \* u.applying
    failed,     \* u.lastErr is not nil
    pc, rel,    \* where each task stands, and the release it works on
    page,       \* the banner each browser shows
    script,     \* reconnectScript runs in the browser
    seen,       \* the version of the process that served the page or banner last
    stops       \* bound: signals and crashes so far

diskVars == <<installed, intact>>
procVars == <<proc, current, stops>>
flagVars == <<available, checking, applying, failed>>
taskVars == <<pc, rel>>
pageVars == <<page, script, seen>>
vars == <<newest, diskVars, procVars, flagVars, taskVars, pageVars>>

CheckSteps == {"detect", "store", "checked", "uncheckable"}
ApplySteps == {"fetch", "install", "damaged", "error", "installed", "notify", "release"}
Banners == {"applying", "offer", "retry", "checking", "version", "lost"}

\* All variables keep their types.
TypeOK ==
    /\ newest \in 0 .. MaxVersion
    /\ installed \in Versions
    /\ intact \in BOOLEAN
    /\ proc \in {"up", "stopping", "down"}
    /\ current \in Versions
    /\ available \in Versions \union {NoRelease}
    /\ checking \in BOOLEAN /\ applying \in BOOLEAN /\ failed \in BOOLEAN
    /\ pc \in [Tasks -> {"idle", "decide", "answer", "apply"} \union CheckSteps \union ApplySteps]
    /\ rel \in [Tasks -> Versions \union {NoRelease}]
    /\ page \in [Browsers -> Banners]
    /\ script \in [Browsers -> BOOLEAN]
    /\ seen \in [Browsers -> Versions]
    /\ stops \in 0 .. MaxStops

Init ==
    /\ newest = NoRelease
    /\ installed = 1 /\ intact = TRUE
    /\ proc = "up" /\ current = 1 /\ stops = 0
    /\ available = NoRelease
    /\ checking = FALSE /\ applying = FALSE /\ failed = FALSE
    /\ pc = [t \in Tasks |-> "idle"]
    /\ rel = [t \in Tasks |-> NoRelease]
    /\ page = [b \in Browsers |-> "version"]
    /\ script = [b \in Browsers |-> FALSE]
    /\ seen = [b \in Browsers |-> 1]

Goto(t, from, to) == pc[t] = from /\ pc' = [pc EXCEPT ![t] = to]

-----------------------------------------------------------------------------
(* GitHub *)

Publish ==
    /\ newest < MaxVersion
    /\ newest' = newest + 1
    /\ UNCHANGED <<diskVars, procVars, flagVars, taskVars, pageVars>>

-----------------------------------------------------------------------------
(* Check *)

BeginCheck(t) ==
    /\ proc = "up"
    /\ Goto(t, "idle", "detect")
    /\ checking' = TRUE
    /\ failed' = FALSE
    /\ UNCHANGED <<newest, diskVars, procVars, available, applying, rel, pageVars>>

\* Run's ticker fires, or a browser posts /api/update/check.
LoopChecks == BeginCheck(Loop)
PostCheck(b) == page[b] \in {"version", "retry"} /\ BeginCheck(b)

\* The requests of Run end when its ctx is done.
Connected(t) == t = Loop => proc = "up"

\* Mutant: the draft of the next release counts as one.
DetectDraft(t) ==
    /\ Connected(t)
    /\ Goto(t, "detect", "store")
    /\ rel' = [rel EXCEPT ![t] = newest + 1]
    /\ UNCHANGED <<newest, diskVars, procVars, flagVars, pageVars>>

DetectLatest(t) ==
    /\ Connected(t)
    /\ Goto(t, "detect", "store")
    /\ rel' = [rel EXCEPT ![t] = newest]
    /\ UNCHANGED <<newest, diskVars, procVars, flagVars, pageVars>>

\* Mutant: the error path returns before the deferred reset is set up.
DetectFailsEarly(t) ==
    /\ Goto(t, "detect", IF t = Loop THEN "idle" ELSE "answer")
    /\ failed' = TRUE
    /\ UNCHANGED <<newest, diskVars, procVars, available, checking, applying, rel, pageVars>>

DetectFails(t) ==
    /\ Goto(t, "detect", "uncheckable")
    /\ failed' = TRUE
    /\ UNCHANGED <<newest, diskVars, procVars, available, checking, applying, rel, pageVars>>

\* Mutant: whatever release is found is offered, the running one included.
OfferAny(t) ==
    /\ Goto(t, "store", "checked")
    /\ available' = rel[t]
    /\ UNCHANGED <<newest, diskVars, procVars, checking, applying, failed, rel, pageVars>>

\* Only a release newer than the running version is offered.
StoreRelease(t) ==
    /\ Goto(t, "store", "checked")
    /\ available' = IF rel[t] > current THEN rel[t] ELSE NoRelease
    /\ UNCHANGED <<newest, diskVars, procVars, checking, applying, failed, rel, pageVars>>

\* The deferred end of Check; Run goes on to apply only after a success.
EndCheck(t) ==
    /\ \/ Goto(t, "checked", IF t = Loop THEN "decide" ELSE "answer")
       \/ Goto(t, "uncheckable", IF t = Loop THEN "idle" ELSE "answer")
    /\ checking' = FALSE
    /\ rel' = [rel EXCEPT ![t] = NoRelease]
    /\ UNCHANGED <<newest, diskVars, procVars, available, applying, failed, pageVars>>

Decide ==
    /\ Goto(Loop, "decide", IF AutoApply /\ available # NoRelease THEN "apply" ELSE "idle")
    /\ UNCHANGED <<newest, diskVars, procVars, flagVars, rel, pageVars>>

-----------------------------------------------------------------------------
(* Apply *)

\* Mutant: a second apply is let in.
BeginAnyApply(t) ==
    /\ available # NoRelease
    /\ Goto(t, "apply", "fetch")
    /\ applying' = TRUE
    /\ failed' = FALSE
    /\ rel' = [rel EXCEPT ![t] = available]
    /\ UNCHANGED <<newest, diskVars, procVars, available, checking, pageVars>>

BeginApply(t) ==
    /\ ~applying /\ available # NoRelease
    /\ Goto(t, "apply", "fetch")
    /\ applying' = TRUE
    /\ failed' = FALSE
    /\ rel' = [rel EXCEPT ![t] = available]
    /\ UNCHANGED <<newest, diskVars, procVars, available, checking, pageVars>>

RejectApply(t) ==
    /\ applying \/ available = NoRelease
    /\ Goto(t, "apply", "idle")
    /\ UNCHANGED <<newest, diskVars, procVars, flagVars, rel, pageVars>>

\* The digest and the asset of the release, whole or damaged on the way, ...
Fetch(t) ==
    /\ Connected(t)
    /\ Goto(t, "fetch", "install")
    /\ UNCHANGED <<newest, diskVars, procVars, flagVars, rel, pageVars>>

FetchDamaged(t) ==
    /\ Connected(t)
    /\ Goto(t, "fetch", "damaged")
    /\ UNCHANGED <<newest, diskVars, procVars, flagVars, rel, pageVars>>

\* ... or an error: no answer, no such asset, no digest.
FetchFails(t) ==
    /\ Goto(t, "fetch", "error")
    /\ UNCHANGED <<newest, diskVars, procVars, flagVars, rel, pageVars>>

\* Mutant: update.Apply is given no checksum.
InstallUnverified(t) ==
    /\ pc[t] \in {"install", "damaged"}
    /\ pc' = [pc EXCEPT ![t] = "installed"]
    /\ installed' = rel[t]
    /\ intact' = (pc[t] = "install")
    /\ UNCHANGED <<newest, procVars, flagVars, rel, pageVars>>

\* External: update.Apply verifies the hash and replaces the binary, ...
Install(t) ==
    /\ Goto(t, "install", "installed")
    /\ installed' = rel[t]
    /\ intact' = TRUE
    /\ UNCHANGED <<newest, procVars, flagVars, rel, pageVars>>

\* ... or rolls back.
InstallFails(t) ==
    /\ pc[t] \in {"install", "damaged"}
    /\ pc' = [pc EXCEPT ![t] = "error"]
    /\ UNCHANGED <<newest, diskVars, procVars, flagVars, rel, pageVars>>

SetErr(t) ==
    /\ Goto(t, "error", "release")
    /\ failed' = TRUE
    /\ UNCHANGED <<newest, diskVars, procVars, available, checking, applying, rel, pageVars>>

ForgetRelease(t) ==
    /\ Goto(t, "installed", "notify")
    /\ available' = NoRelease
    /\ UNCHANGED <<newest, diskVars, procVars, checking, applying, failed, rel, pageVars>>

\* Mutant: the new binary waits for somebody to restart the service.
OnUpdateIgnored(t) ==
    /\ Goto(t, "notify", "release")
    /\ UNCHANGED <<newest, diskVars, procVars, flagVars, rel, pageVars>>

\* onUpdate cancels the ctx of run().
OnUpdate(t) ==
    /\ Goto(t, "notify", "release")
    /\ proc' = "stopping"
    /\ UNCHANGED <<newest, diskVars, current, stops, flagVars, rel, pageVars>>

EndApply(t) ==
    /\ Goto(t, "release", "idle")
    /\ applying' = FALSE
    /\ rel' = [rel EXCEPT ![t] = NoRelease]
    /\ UNCHANGED <<newest, diskVars, procVars, available, checking, failed, pageVars>>

-----------------------------------------------------------------------------
(* The banner in the browser *)

\* UpdateBanner renders Status, in this order of precedence.
Banner ==
    IF applying THEN "applying"
    ELSE IF available # NoRelease THEN "offer"
    ELSE IF failed THEN "retry"
    ELSE IF checking THEN "checking"
    ELSE "version"

\* The banner is swapped in; an applying one brings reconnectScript with it.
ShowBanner(b, banner) ==
    /\ page' = [page EXCEPT ![b] = banner]
    /\ script' = [script EXCEPT ![b] = @ \/ banner = "applying"]
    /\ seen' = [seen EXCEPT ![b] = current]

AnswerCheck(b) ==
    /\ Goto(b, "answer", "idle")
    /\ ShowBanner(b, Banner)
    /\ UNCHANGED <<newest, diskVars, procVars, flagVars, rel>>

\* Mutant: the page asks for the banner only when it loads.
RefreshOnLoad(b) ==
    /\ proc = "up" /\ seen[b] = current
    /\ ShowBanner(b, Banner)
    /\ UNCHANGED <<newest, diskVars, procVars, flagVars, taskVars>>

\* hx-get="/api/update/status", on load and every hour.
Refresh(b) ==
    /\ proc = "up"
    /\ ShowBanner(b, Banner)
    /\ UNCHANGED <<newest, diskVars, procVars, flagVars, taskVars>>

\* handleUpdateApply starts a goroutine and says applying, whatever Apply does.
PostApply(b, a) ==
    /\ proc = "up"
    /\ page[b] = "offer"
    /\ Goto(a, "idle", "apply")
    /\ ShowBanner(b, "applying")
    /\ UNCHANGED <<newest, diskVars, procVars, flagVars, rel>>

\* reconnectScript asks /api/health every two seconds and reloads at the first
\* answer; layout.templ shows the version until the banner is loaded, ...
ScriptReloads(b) ==
    /\ script[b] /\ proc = "up"
    /\ page' = [page EXCEPT ![b] = "version"]
    /\ script' = [script EXCEPT ![b] = FALSE]
    /\ seen' = [seen EXCEPT ![b] = current]
    /\ UNCHANGED <<newest, diskVars, procVars, flagVars, taskVars>>

\* ... and gives up after 90 attempts: "Restart failed. Check the server."
ScriptGivesUp(b) ==
    /\ script[b] /\ proc # "up"
    /\ page' = [page EXCEPT ![b] = "lost"]
    /\ script' = [script EXCEPT ![b] = FALSE]
    /\ UNCHANGED <<newest, diskVars, procVars, flagVars, taskVars, seen>>

-----------------------------------------------------------------------------
(* The process *)

CountStop == stops < MaxStops /\ stops' = stops + 1

Signal ==
    /\ proc = "up" /\ CountStop
    /\ proc' = "stopping"
    /\ UNCHANGED <<newest, diskVars, current, flagVars, taskVars, pageVars>>

\* All goroutines and flags are gone, run() waits for none of them.
Die ==
    /\ proc' = "down"
    /\ available' = NoRelease
    /\ checking' = FALSE /\ applying' = FALSE /\ failed' = FALSE
    /\ pc' = [t \in Tasks |-> "idle"]
    /\ rel' = [t \in Tasks |-> NoRelease]
    /\ UNCHANGED <<newest, diskVars, current, pageVars>>

Exit == proc = "stopping" /\ Die /\ UNCHANGED stops
Crash == proc # "down" /\ CountStop /\ Die

\* Restart=always: the binary on disk, if it can run.
Restart ==
    /\ proc = "down" /\ intact
    /\ proc' = "up"
    /\ current' = installed
    /\ UNCHANGED <<newest, diskVars, stops, flagVars, taskVars, pageVars>>

Check(t) == DetectLatest(t) \/ DetectFails(t) \/ StoreRelease(t) \/ EndCheck(t)

Apply(t) ==
    \/ BeginApply(t) \/ RejectApply(t)
    \/ Fetch(t) \/ FetchDamaged(t) \/ FetchFails(t)
    \/ Install(t) \/ InstallFails(t) \/ SetErr(t)
    \/ ForgetRelease(t) \/ OnUpdate(t) \/ EndApply(t)

Run == LoopChecks \/ Check(Loop) \/ Decide \/ Apply(Loop)

Next ==
    \/ Publish
    \/ Run
    \/ \E a \in Appliers : Apply(a)
    \/ \E b \in Browsers :
         \/ PostCheck(b) \/ Check(b) \/ AnswerCheck(b) \/ Refresh(b)
         \/ \E a \in Appliers : PostApply(b, a)
         \/ ScriptReloads(b) \/ ScriptGivesUp(b)
    \/ Signal \/ Exit \/ Crash \/ Restart

Spec == Init /\ [][Next]_vars

\* Run's ticker fires; every request and every file operation ends, and of many
\* some succeed; the process ends when it is told to, and systemd starts it again.
\* A page asks every hour and a check takes seconds: of its requests, some fall
\* between two checks.
Fairness ==
    /\ WF_vars(Run) /\ SF_vars(DetectLatest(Loop))
    /\ \A t \in {Loop} \union Appliers : SF_vars(Fetch(t)) /\ SF_vars(Install(t))
    /\ \A a \in Appliers : WF_vars(Apply(a))
    /\ \A b \in Browsers : WF_vars(Check(b) \/ AnswerCheck(b)) /\ SF_vars(~checking /\ Refresh(b))
    /\ WF_vars(Exit \/ Restart)

FairSpec == Spec /\ Fairness

-----------------------------------------------------------------------------
(* Properties *)

\* The comment on Apply: "Concurrent calls are rejected".  At most one goroutine
\* is between taking and releasing the applying flag, and the flag says so.
OneInstaller ==
    /\ Cardinality({t \in Tasks : pc[t] \in ApplySteps}) <= 1
    /\ applying <=> \E t \in Tasks : pc[t] \in ApplySteps

\* The banner never says Checking for good: the flag is up only while some Check
\* runs.  (It may be down while one runs, when another has ended before.)
CheckingBacked == checking => \E t \in Tasks : pc[t] \in CheckSteps

\* Whatever checks, applies, damaged downloads and restarts interleave, the
\* binary on disk is a whole release and none older than the running one, and
\* the process stops itself only for a newer one.
SoundBinary ==
    /\ intact
    /\ installed >= current
    /\ \A t \in Tasks : pc[t] \in {"installed", "notify"} => installed > current

\* With auto_apply, the server ends up running the newest release there is.
EventuallyCurrent == <>[](proc = "up" /\ current >= newest)

\* Every open page ends up with the version that runs.  Of the banner's two
\* spinners, Applying does not come back, and Checking does not stay: a page that
\* asks during a check of the loop shows it, but only until it asks again.
PagesSettle == \A b \in Browsers :
    /\ <>[](seen[b] = current /\ page[b] # "applying")
    /\ []<>(page[b] # "checking")

-----------------------------------------------------------------------------
(* What the documents say and the code does not keep *)

\* The comment on reconnectScript: "Once the server comes back, it reloads the
\* page so the user sees the new version".  A page it reloads is a newer one.
ReloadShowsNewVersion ==
    [][\A b \in Browsers :
         script[b] /\ ~script'[b] /\ page'[b] = "version" => seen'[b] > seen[b]]_vars
=============================================================================
