# power-panel in TLA+

power-panel is a small Go server that switches one machine on and off through its BMC
(Redfish over HTTPS, with Wake-on-LAN as a second path), shows the machine's state live to
any number of browsers over server-sent events, and keeps an audit log. This directory holds
its formal models, the TLC configurations that check them, and machine-checked proofs.

## The system

| component | state it keeps | operations | correct when |
|---|---|---|---|
| BMC cache, `internal/bmc/cache.go` | last result, time it was published, a read-write lock held across the fetch | `Get`, `Invalidate` | a result served as fresh is no older than the last invalidation and the poll interval allow; one fetch per interval; nobody waits for ever |
| Redfish client, `internal/bmc/redfish.go` | one session, the reset types discovered at startup, one mutex | `GetStatus`, `GetSensors`, `resetAction` (four power commands), `GetTaskInfo`, `DiscoverCapabilities`, `Close` | a stale session heals by itself, no reset is sent twice, no session leaks, every call returns |
| power actions, `internal/server/server.go` | time of the last action | five `POST /api/power/...` routes through `handlePowerAction` | cooldown, one record per action, browsers see the effect |
| transition, `server.go` | state, start, task, action and user under `transitionMu` | `setTransition`, `getTransition` (expires), `clearTransition` | the fields belong to one action, and go away on confirmation, failure or timeout |
| SSE handlers, `internal/server/sse.go` | per browser: the state shown last, a ticker, a channel | `handleSSE`, `sendStatusEventWithTransition` | in the end every browser shows the truth; a failed task is logged once, for the right user |
| notification, `server.go` | a channel, closed and replaced on every notify | `notifySSE`, `getNotifyCh` | browsers are woken |
| audit log, `internal/db/db.go` | an SQLite table | `Open` with its retention, `Close`, `LogEvent`, `RecentEvents` | complete, ordered, attributed, kept for a year |
| Wake-on-LAN, `internal/bmc/wol.go` | none | `Wake` | - |
| updater, `internal/updater/updater.go`, `views/update.templ` | `checking`, `applying`, last error and the release found under one mutex; the binary on disk; the banner in each browser | `Run`, `Check`, `Apply`, `Status`, three handlers, `reconnectScript` | one apply at a time, flags that tell the truth, only whole and newer binaries, the newest version in the end |
| lifecycle, `main.go`, `ListenAndServe` | the context of `run()` | start, discover, serve, signal or update, deferred closes, restart by systemd | it stops when told to, comes back, and loses nothing it has recorded |
| identity, `tailscaleUser` in `server.go` | - | Serve's header, or a lookup at tailscaled | a row names who asked, or nobody |
| configuration, `internal/config/config.go` | - | `Load`, `validate` | limits in range |
| endpoints, reachability check, views | none | lookups and rendering | - |

How they meet: an SSE handler polls when its ticker fires or it is notified. A poll asks the
cache, which may call the Redfish client under its write lock, then reads the transition and
decides whether the reading confirms it, may ask the client for the BMC task of the action,
may log a failure and clear the transition (which notifies all handlers), and sends what is
left. A power action passes the cooldown, calls the client (and Wake-on-LAN), inserts its
event, and calls `setTransition`, which writes the transition, invalidates the cache and
notifies. All of these run in goroutines of their own and share only what is behind the four
mutexes, the BMC and the database.

What is hard about it: the three parts of `setTransition` and the parts of a poll interleave
freely; a poll decides on a reading and on a copy of the transition that may both be old;
locks are held during BMC calls of many seconds; the BMC's session may die between two calls;
the answer to a reset may be lost after the machine has obeyed; the updater's three kinds of
goroutine share flags that each resets for the others; and the process may end under a handler
that has sent its command and not yet written its row.

## Modules

| module | contents |
|---|---|
| `StatusService` | what the cache promises: an atomic status service without a cache |
| `BmcCache` | the cache step by step, its readers, actors, the BMC and time |
| `BmcCacheProofs` | its proofs, among them that it implements `StatusService` |
| `BmcClient` | the Redfish client: session, retry, mutex, start and end of the process |
| `BmcClientProofs` | its proofs |
| `PowerStates` | the power states and the pure decisions about them |
| `PowerPanel` | the server: actions, transition, polls, notification, audit log, machine and BMC |
| `PowerPanelHistory` | `PowerPanel` observed: what each reading can know of the commands sent |
| `PowerPanelProofs` | proofs about `PowerPanel`: types, the transition, the attribution of failures |
| `PowerPanelLogProofs` | how often a failure is logged |
| `PowerPanelHistoryProofs` | proof about `PowerPanelHistory` |
| `Updater` | the updater's loop and handlers, the update banner in the browser, install and restart |
| `UpdaterProofs` | its proofs |
| `AuditLog` | the table of events, its retention and selection, on a clock |
| `TailscaleUser` | whose request it is, by the way it took |
| `Lifecycle` | `run()` with handlers and streams in flight, composed with `AuditLog` and `TailscaleUser` |
| `LifecycleProofs` | proofs about these three |
| `MC...` | instances for TLC |

### BmcCache and StatusService

A status is identified with the *epoch* it was sampled in, the number of power commands the
BMC had received: "older than my command" is then a comparison of numbers. `Get` is five
steps (`CheckHit`/`CheckMiss`, `RecheckHit`/`RecheckMiss`, `StatusAnswers`/`StatusFails`,
`ReadSensors`, `Publish`), because the write lock is held across two BMC calls and the result is
written field by field. The section under the read lock touches only its own result and is
one step. `time.Since(c.updated)` is the age in ticks, saturated at `MaxAge`, since the code
only compares it with `maxAge`; the zero time is an infinite age. `drift` and `quiet` are
history variables (time since the sample, and since the last fetch began), as are
`announced`, `floor` and `forced`; no guard of the code's actions reads them. `Tick` reads
`quiet` to bound a fetch, which the HTTP timeouts justify.

`StatusService` answers a question with any status the BMC had between the last announced
command before the question and the answer. `ImplementsService` maps an announced command to
an `Invalidate` that has returned, a question to a `Get`, and its answer to the step that
returns.

### BmcClient

A call is a sequence of HTTP requests under the client's mutex. Logging in (`Connect`, `ConnectFails`)
and logging out (`Disconnect`) are requests of their own, beside those of the call. Any of them may fail:

- the link is down;
- the BMC has forgotten the session, which idled too long or died with a restart of the BMC;
- for a login, the BMC has no free slot (`Slots`), refuses it, or opens a session whose answer is lost,
  so that the client never learns of it (`LoginFails`);
- for a logout, whatever the reason: its error is ignored and the BMC keeps the session;
- for the other requests, an error or an empty list (`Unanswered`).

Failures of the link, of a login, a logout or a request, and crashes are faults; `MaxFaults` bounds them.
That sessions expire in time, also those nobody uses (`SessionExpires`, `OrphanExpires`), is none.
`Retried` names the methods that drop a session whose first request failed (`Renew`), reconnect and try
once more, and are rid of the session when that fails too (`Abandon`); `GetTaskInfo` and
`DiscoverCapabilities` do not retry, and keep the session. A reset may take effect and its answer be
lost. `live` counts the sessions the BMC keeps, `old` those that earlier processes have left there.

The process first discovers, then serves. Its deferred `Close` waits for the mutex and for no handler:
handlers in flight may call the client during `Close` and after it, until the process ends (`late`
remembers that one did). Sensor parsing and decoding are data and left out; a failing `Thermal` or
`Power` request does not fail `GetSensors` and has no step; nor has `Managers` in the discovery.

### PowerPanel

Handlers are split at every access to shared state. A request goes through `command` (the
reset), `wol` (power on only), `log`, `set`, `invalidate`, `notify`; a poll through `poll`,
`fetch`, `transition`, `task`, `log`, `clear`, `notify`, `arm`, `select`. The request that
caused something stands for its user, action and task URL. The Tailscale lookup between
admission and command, the reachability check inside a poll and the sending of the events are
delays without effect on shared state and have no step of their own. A poll shows a power
state (`prev`), not HTML. The ticker may fire at any moment the handler waits: its period
would only remove behaviours. The cache is the one of `BmcCache`, with the fetch in two steps (sensors play
no part here). The machine obeys or ignores a command, a later command replaces an earlier
one, whose task is then `Killed`, and a task may or may not be issued. The link may drop (the
network card shared with the host does when it powers down).

Left out: readings other than `On`, `Off` and the failed one (Redfish also has `PoweringOn`,
`PoweringOff` and `Paused`); a magic packet to a machine that is busy; the end of a poll
because a write fails is the same as leaving after it.

### Updater

Three kinds of goroutine run `Check` and `Apply`: the loop of `Run`, the handler of a manual
check (one per browser) and the goroutine a manual apply starts. Each is split at every
critical section of `u.mu` and at every request to GitHub, so the flags interleave as they do
in the code: a check that ends clears `checking` for all, `lastErr` is shared (`failed` is
`lastErr != nil`), and a check that overlaps an apply stores the release again. A version is a
number. GitHub and `update.Apply` are external: a download arrives whole, damaged or not at
all; an install replaces the binary in one step or leaves it. (`update.Apply` writes a new file and
renames twice, the old binary away and the new one to its place; a crash between the two renames, which
leaves no binary at all, is not modelled.) A browser shows one of the banners
of `UpdateBanner` in their order of precedence, or the script's last message (`lost`); `seen`
is the version that served it last. `onUpdate` cancels the context of `run()`; requests of the
loop end with that context, manual ones do not. The process then exits (`Lifecycle` has the
way from there in detail) and starts again with the binary on disk.

### Lifecycle, AuditLog and TailscaleUser

`phase` follows `run()`: `discovering` (the store is open, the client's mutex held), `serving`,
`returned` (from `ListenAndServe`, which does not wait for handlers), then the deferred calls
in their order: `closing` (`bmcClient.Close` done), `ending` (`store.Close` done), `down`.
Handlers run on until the process is gone, and their steps are those that meet the shutdown:
the command under the client's mutex, the insert, the answer. SSE streams, any number of them, come
and go, compete for the mutex, and each logs a failed task from its own copy of the transition: an
action may get a row of failure from every stream that copied it before the first cleared it. A row
has no column for its writer; `by` stands for it, to say that each writer writes one row at most. What
becomes of the session is `BmcClient`'s subject, not this module's.

A crash ends the process at any step; rows survive it (WAL), memory does not. The disk under the
database may fail and return (`DiskFails`, `DiskReturns`: full, an I/O error, a lock not had in time):
while it fails any call of the store may return an error. `handlePowerAction` writes it to the server's
log and answers as if the row were there (`RecordFails`), `handleEventsFragment` shows an error and the
page asks again (`RefreshFails`, `Refresh`). The insert of `LogFailure` may fail at any time. Loss of
power is not modelled.

`cut`, `hit` and `gone` are history variables: requests in flight when their process stopped serving or
died, requests in flight while the disk failed, and requests whose browser has left. These are the
requests whose insert may fail, and what `RecordedUnlessCut` and `RefreshShowsAction` leave out, by
name and not by what became of them: an action of which none of the three is true has its row.

The clock counts ticks, `Day` to a day. The retention of `Open` compares texts: a stored
`2025-06-01T...Z` is greater than any `2025-06-01 ...`, so the comparison is one of dates and
`Expired` compares days. Leap years and a clock that is put back are left out. `RecentEvents`
may drop any of the rows that share the last timestamp. `TailscaleUser` keeps the three ways
of `tailscaleUser` (header of the loopback proxy, forwarded address, own address) and the two
of `tailscaleWhoIs` (a user's login, the name of a device that has tags or the login
`tagged-devices`), either of which may be missing; the display name is left out.

## Runs

| run | instance | question |
|---|---|---|
| `cache` | 2 readers, 1 actor, `MaxAge` 2, fetch of 1 tick, 2 commands | freshness, whole results, staleness, fetch rate, refinement; does every `Get` and `Invalidate` return |
| `client` | 2 callers, 2 sessions at the BMC, 2 faults | at most one reset, healing, dropping, no leak but by faults and late handlers; does every call return |
| `panel_browsers` | 2 browsers that come and go, 1 action of three kinds | types; is what the cache serves after an action from after it; how often a failure is logged |
| `panel_requests` | 1 browser that comes and goes, 2 actions under a cooldown | coherent transition, failures attributed |
| `panel_converges` | 1 browser that stays, 1 action whose record may be lost, the link drops once | does the display end at the truth, does the action finish |
| `updater` | the loop with `auto_apply`, 1 browser, 1 manual apply at a time, versions 1 and 2, 1 signal or crash | one apply at a time, honest flag, sound binary; does the newest version come to run and to be shown |
| `lifecycle` | 1 action of a kiosk, through Serve or directly with a false header, whose browser may leave, 2 streams, 1 row of an earlier run, 2 stops of which the first may be a crash or a failure of the disk, years of 2 days; under fairness | is what happened in the log, true, for a year and on the page; does the server stop, does it come back and serve |

The bounds: two of a kind are enough for every race in the code, since each of them is
between two goroutines (a reader and an actor, a poll and a handler, two polls, the loop and a
manual apply), and the proofs below have no such bound. A maximal age of two ticks lets a
result be young, older and stale; two commands let a sample be older than one and newer than
the other. Two faults let a failed login or retry and a failed logout meet in one behaviour, whose first cause may
be a session that expired without one; two slots, of which earlier processes may have left both taken, let
a login find the BMC full.
In the panel the limits are one tick or none, which still separates before, at and after each
limit. `panel_requests` uses the two kinds of action `power_on` and `power_off`, the first of
which takes the Wake-on-LAN path. Two versions let a check that began before an apply end after
it. Five ticks of time with two to a day and to a year separate a row that is a year old to the
tick, one older but of the cutoff's day, and one of the day before; a log of one line lets a
row be pushed out. The two stops of `lifecycle` let a server that has crashed be stopped again, or a
disk fail under an action and a restart follow; `MaxFaults` lets the first of them only be a crash or
a failure, which halves the states. Of the ways a request may take, the name in the header of the proxy
is left to `Credited`, which is proved for all of them. The other handlers an action meets there are the streams,
which take the same mutex and write to the same table; two of them write two failures of one action. Where a liveness property is checked, no symmetry is used.

Fairness: a BMC call, an insert and a write end because each has a timeout (weak fairness of
the handler's step); a goroutine that waits for a mutex gets it in turn however often others
take it, since Go's mutex turns to first-in-first-out under starvation (strong fairness of
the steps that take the lock); a ticker fires, time passes, the link comes back and the
machine finishes or ignores its job. Nothing is assumed of browsers and
requests: none has to come. In `Updater` the loop's timer fires, and of many downloads and installs some succeed (strong fairness).
A page asks for the banner every hour and the loop checks every six hours for some seconds, so of a
page's requests some meet no check: `Refresh` is strongly fair for the moments without one. Weak
fairness would allow a page all of whose requests fall into checks, and which says Checking for ever. In
`Lifecycle` systemd starts the program whenever it is down (`Restart=always`); a disk that has failed
works again in the end, and a start is assured only while it does (a start that fails changes nothing).
Signals and crashes are bounded, so what must happen eventually happens after the last.

## Where code and documents disagree

Each of these runs checks one property that a document or comment states, and TLC refutes it.

| run | property | what happens |
|---|---|---|
| `stale_clear` | `ClearsItsOwnTransition` | a poll clears the transition that is in force, not the one it confirmed (`sse.go:130`) |
| `old_reading` | `ConfirmedByLaterReading` | `GetStatus` fails for a moment, then a power off is sent; the poll that had the error takes it for the machine being off and clears the transition, the machine still on (`sse.go:58` is before `sse.go:74`, `sse.go:81`) |
| `seen_off` | `SeenOffConfirmsAtOn` | Off then On never confirms a restart: `prevState` is `Restarting`, which hid the Off (`sse.go:89`, `sse.go:132`) |
| `reload` | `ReloadShowsNewVersion` | the page reloads at the first health answer, given by the old server while it downloads (`update.templ:119`) |
| `every_action` | `EveryActionRecorded` | `run()` does not wait for `Shutdown`: a command is sent, and the process ends before its row is written (`server.go:122`) |

More are visible in the models and have no run of their own: a handler between its poll and
`getNotifyCh` misses a notification and shows the old state until its ticker fires (`sse.go:37`,
the step `Arm`); two polls that have read the transition before either clears it log its failure
twice (`sse.go:122`; `FailureLoggedOncePerBrowser` is the bound that holds); the insert of a power
action may fail, at the latest with the context of a request whose browser has gone, and its answer is a
success all the same (`server.go:472`); every poll of
a transition with a task calls the BMC past the cache (`sse.go:105`); and with a release available
the offer hides the error of a failed apply (`update.templ:17` before `update.templ:30`).

## Proofs

TLAPS checks them for every set of readers, actors, callers, browsers, tasks and requests and all
limits. Every safety invariant and every action property that a passing run checks is a theorem,
and so is the refinement; their runs show on a small instance what the theorem says of all. The
inductive invariants were checked by TLC on the instances of these runs before they were proved.

What is assumed are the named assumptions on the constants: limits are naturals, positive where
`config.validate` demands it, and model values differ (`CacheAssumption`, `ClientAssumption`,
`PanelAssumption`, `UpdaterAssumption`, `AuditLogAssumption`); the browsers of a panel are finitely
many; a year has a whole number of days; the loopback address is no device (`NodeAssumption`);
every request comes through Serve or directly from its device, with whatever header it likes in
the second case (`LifecycleAssumption`); and the rows of earlier runs are finitely many, of tick 0
and about none of the requests (`PastAssumption`).

`BmcCacheProofs`:

- `TypeCorrect` with `LockInv`: the reader that fetches is exactly the holder of the write
  lock, and while it fetches the result does not count as fresh. Everything else rests on this.
- `Freshness`: `FreshIsCurrent` is not inductive alone; `CurrentInv` adds that what a fetch in
  flight has sampled is no older than any *announced* command. It holds because `Invalidate`
  waits for the fetch: a command sent during a fetch is announced only after it.
- `SensorsWhole`: `WholeInv` allows a mixed result only between the two BMC calls of a fetch,
  while the lock keeps everyone out.
- `Staleness` and `FetchRate`: `TimeInv` relates the ages: the sample is no older than its
  fetch, the fetch no older than `MaxFetch`, the published result no older than its age plus a
  fetch, and without an invalidation no older than the last fetch.
- `Linearizable`: `Spec => ImplementsService`, one lemma for steps that return an answer and one
  for steps the service does not see.

`PowerPanelProofs`:

- `TypeCorrect`: `TypeInv` adds what handlers know at each step (an action at work has a name,
  a poll that asks for a task has one); one lemma per group of variables.
- `Coherence`: the transition and each poll's copy come from one accepted request.
  `CoherentInv` adds that this request is past `set`, where it writes its last, so `ActedStays`
  and `CoherenceStays` carry the fact through every step.
- `Attribution`: `FailureInv` adds that a task that failed stays failed, that a poll about to
  log has seen it, and that an action that reached `setTransition` is in the log already unless
  its insert may fail.

`PowerPanelLogProofs`:

- `OncePerBrowser`: no variable says who has logged what, so the proof counts. `CountInv`: before a
  request's transition comes into force its task has no failures; while it is in force there are at
  most as many as polls about to clear it; and failures plus polls that may still log one never
  exceed the browsers. The second part is what makes the third inductive: a poll that begins to ask
  for the task is none of those about to clear (`DisjointPolls`), and a transition that is cleared,
  replaced or expired does not come back (`InForce`).

`PowerPanelHistoryProofs`:

- `Fresh`: `FreshAfterAction` alone is not inductive, since a fetch makes an old result fresh when it
  ends. `KnowInv` adds that a fetch in flight after `Invalidate` began after the command: `Invalidate`
  takes the lock that a fetch holds from beginning to end.

`BmcClientProofs`:

- `TypeCorrect` with `MutexInv` (the holder of the mutex is exactly the call at work), `SessionInv` (a
  session the BMC accepts is the client's and one of those counted) and `CallInv` (where a call stands
  says which method it is, and that it has sent no reset before it is abandoned). `OneReset` follows from
  the last.
- `Healing` and `Reconnecting`: `HealInv` says that a call that retries or resets works under an
  accepted session or has been disturbed meanwhile, and that one is abandoned only after a disturbance;
  `DisturbedStays` keeps that until the call ends. A login that fails does so for a disturbance or for
  want of a slot.
- `Closing`: `LeakInv` bounds the sessions at the BMC by those of earlier processes, the faults and the one
  in use, and without the last once the link is down or the session gone; every way to leave a session
  behind, a login whose answer is lost, a logout that fails or a link that is down, has cost a fault.
- `Ended`: `PhaseInv` adds that after `Close` the client has no session unless a call came late.

`UpdaterProofs`:

- `TypeCorrect` with `ReleaseInv`: what is offered or being applied is newer than the process, and a
  process that is down has no goroutines.
- `Exclusion`: `InstallerInv`, the flag is up exactly when some task is past taking it, and only one is;
  `InstallerSteps` shows that nothing else moves either. `CheckingHonest` is inductive with the types.
- `Soundness`: only `Install` writes the binary (`BinarySteps`), and by `ReleaseInv` it writes a newer one.

`LifecycleProofs`:

- `DivBounds` to `OlderExpiresFirst`: what comparing dates means for ages. What expires is over a year
  old, what does not is younger than a year and a day, and an older row expires first. `Retention`
  follows with `RowKept` (only `Open` deletes) and `OnlyStartOpens`.
- `Credited`: the three ways of `tailscaleUser`, for any header and any answer of tailscaled.
- `TypeCorrect` with `ProcInv` (the store is open exactly between `Start` and `CloseStore`; who is in
  flight after serving is in `cut`, who is while the disk fails in `hit`), `UserInv` and `StreamInv`
  (handlers in flight and copied transitions have a true user and an event).
- `Recorded`: `RecordFails` is possible only for a browser that has left, on a failing disk or after
  `CloseStore`, which `ProcInv` puts among the hit and the cut; rows are lost only to `Expired`.
- `Truthful`: `TrueRows` is not inductive; `AnsweredInv` (only answered actions have rows) shows that
  `Record` adds the first row, and `EventInv` that `LogFailure` adds the only one of its stream: no stream
  has written of a transition that is in force, none that is about to write has written before, and the
  rows and pending copies of an action name one user.
- `Shown`: a reading leaves a row out only when `Limit` rows come before it (`LeftOut`), and those stay
  as long as it does, since the older expires first (`AheadKept`).

Only model-checked: the liveness properties (`GetReturns`, `InvalidateReturns`, `CallsReturn`,
`Converges`, `ActionsFinish`, `EventuallyCurrent`, `PagesSettle`, `Stops`, `Recovers`), since fairness
and `ENABLED` are beyond the prover. The properties under "Where code and documents disagree" are false and
have no proof.

## Plan

1. Panel and client composed: how long a stale session can hide a failed task. `PowerPanel` lets
   `GetTaskInfo` fail at any time (`TaskPending`), so nothing it shows depends on the answer.
2. An abstract audit log, of which `PowerPanel`'s events and `Lifecycle`'s table are both refinements.

## Not modelled

- Configuration: `Load` runs once, before anything else. What `validate` guarantees are the assumptions
  on the constants of `PowerPanel`; the product of seconds and `time.Second` leaves 64 bits only above nine
  thousand million seconds.
- The stateless endpoints (`/api/status`, `/api/sensors`, `/api/health`, the fragments): one read, then
  rendering. Their BMC calls are calls of `BmcClient`.
- Views, the bytes of the magic packet and of the SSE stream, the parsing of sensors: formatting.
- The reachability check: a display flag and a delay.
- Vendored components and assets. `icon_data.go` and `icon_defs.go` are tables of icons and make up 8,482 of
  the repository's 10,941 lines of Go, so the share of the mapped lines in the whole stays small however
  much of the program's own code is modelled.
