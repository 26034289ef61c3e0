# A verification project for AppDeck

AppDeck is a macOS manager that starts several isolated copies of one desktop
app (Codex, Claude, Chromium, ...), keeps the projects and automations of a
group of profiles in step, shows the limits of their accounts, and runs them
behind proxies. This directory holds TLA+ models of the parts of it whose
correctness depends on order, failure and time, the TLC runs that check them,
and TLAPS proofs of every safety property the runs check. All sources named here are under
`src/src/` of the repository.

## 1. Inventory

AppDeck has one main thread: clicks, a two-second timer (`tick`, main.cpp:1119)
and nested run loops inside modal dialogs and inside the wait for a Claude
child. Beside it run one detached worker thread per limits probe, one helper
process `appdeck-proxy` per proxied window (itself one thread per connection),
and the managed apps, which write their own files at any time.

| Component | State it keeps | Operations | Interacts with | What is hard |
|---|---|---|---|---|
| Project engine (`project_sync.hpp`) | journal: records with revision, base revision, generation, writer, tombstones; what each profile showed and has seen | reconcile, markApplied, stateValid | called by the group pass | stale copies, concurrent edits in separate batches, limits |
| Group pass (`group_sync.hpp`) | `group journal`, server mapping, server revisions, `syncPending`, `syncUnsafe` | syncGroup, groupSyncPump, editProject, automationOwnerAction | files of every profile, the app-server of Codex, the launch gate | death or a failed write between two saves; files edited between read and write |
| Automation engine (`automation_sync.hpp`) | record and baseline of every definition, its owner | reconcile, markApplied, setOwner | group pass | one executor per definition; edits racing deletions; damaged files |
| Launch and process tracking (`main.cpp`, `workspace_base.hpp`, `process_args.hpp`, `claude_profile.hpp`) | pid, birth time, proxyUsed/proxyPort of every profile in memory and in `state.plist`; `restartPending`; launches under way | launch, attachMaster, adoptRunning, restartPump | LaunchServices, child processes, bridges | windows that open, close and restart themselves; AppDeck dying; the timer inside a launch |
| Proxy bridge (`proxy_bridge.cpp`) | `gLast`, `gClients`, one state per connection | acceptLoop, handle, plainHttp, tunnel, relay, serve | the app and the proxies' endpoints | repeats, deadlines, concurrent connections |
| Proxy store (`proxy_store.hpp`, `proxy_views.hpp`) | the list of proxies and its file, whether it was damaged, checks under way, probe bridges; each profile's choice | edit, remove, choose, check, usageProxy, proxyServe/Watch/Abandon | launch, limits, worker threads | a damaged file, late checks, a bridge left behind |
| Account limits (`usage_limits.hpp`, `usage_policy.hpp`, `usage_probe.hpp`) | numbers per profile, the account being asked, forced requests, time of the last probe | usagePump, usageStart, worker, usageFinished, consent per group | helper processes | clock changes, lost workers, consent withdrawn during a probe |
| Claude session bridge (`claude_sessions.hpp`, `claude_session_views.hpp`) | the lease of a session on disk | open action, pump, launch gate | Claude windows | a modal confirmation, AppDeck dying around the event |
| Claude settings (`claude_profile.hpp`) | `settings.json` and its backup | claudeConfigureSettings | Claude Code and the user write the same files | compare and replace in two steps; dying between the backup and the rename |
| Project registry client (`project_server_sync.hpp`) | the mapping of records to native projects, during a talk and in the journal | list, import, update, members, delete | app-server of Codex, whose registry other windows change | calls that act and whose reply is lost; lists that are stale; stopping between import, update and deletion |
| Edge panel (`edge_panel.hpp`) | whether the panel is wanted and shown, the order of its cards | hot key, drag | AppKit | one thread, presentation |
| Window control, views, filters, parsers, Objective-C binding | view state | - | AppKit | sequential or presentation only |

What makes each part correct is stated as the properties of section 3; what can
go wrong, line by line, is the list `hazards` of `PROJECT.json`.

## 2. Modules and how they follow the code

| Module | Models | State | Actions |
|---|---|---|---|
| `ProjectSync` | `project_sync.hpp` as pure operators | - | `Reconcile`, `Accepts`, `MarkApplied`, `StateValid` |
| `ProjectGroup` | project part of `group_sync.hpp` | `state` (journal), `registry` (list files), `running`, `pass`, `dropped` (history: deleted since last seen), `edits` | edits and starts of windows, `Save` of a pass, `Apply` per profile, deletions confirmed by Codex, edits from AppDeck |
| `AutomationSync` | `automation_sync.hpp` as pure operators | - | `Reconcile`, `Planned`, `MarkApplied`, `SetOwner` |
| `AutomationGroup` | automation part of `group_sync.hpp`, launch gate, owner choice | `state`, `file`, `desktop`, `pass`, `changes` | `Begin` (observe, reconcile, save), `Write` per file, `Finish` (re-read, `syncUnsafe`), crash, user edits, windows |
| `ProfileLaunch` | launch, attachMaster, adoptRunning, restartPump, the bridge of a window | `process`, `bridge`, `memory`, `saved`, `launching`, `pending` | `Launch`, `StartChild`/`OpenApplication`, `ChildReturns`, `Finish`, `Tick`, `Restart`, `End`, `Boot`, and the windows' own steps |
| `ProxyBridge` | connections of `proxy_bridge.cpp` | connection records, `gLast`, `gClients` | accept, request, dial, tunnel, relay rounds, deadlines, endpoints' behaviour |
| `UsagePump` | limits | clock and ages, numbers, `inFlight`, `forced`, workers | pump, manual refresh, worker ends, `usageFinished`, consent, clock set back, restart |
| `ClaudeBridge` | session reservation and open action | lease file, windows, the open action under way | open, confirm, launch, reserve, send, registration, pump, crash, damage of the file |
| `SessionOwner` | what the Claude bridge promises: a session is a lock | open windows, owners | windows open and close, the lock is granted to a lone window |
| `ClaudeSettings` | claudeConfigureSettings and who else writes the files | `settings`, `previous` (the backup), `work` (the launch's step and what it read), `result` | `Begin`, `Keep`, `Check`, `SaveBackup`, `ReadBack`, `Recheck`, `Replace`, `GiveUp` (a failure or AppDeck's death); `Edit`, `Touch`, `Erase`, `Discard` from outside |
| `SettingsStore` | what claudeConfigureSettings promises: a file that was looked at is replaced by itself with AppDeck's keys | the two files, the edits, what was seen | edits, `Save` of the backup, `Look`, `Replace`, `Forget` |
| `ProjectServer` | one talk with the app-server and its saves | `native` (registry), `known` (the server's idempotency keys), `task`, `wanted`, `mapping`, `talk` | `List`, `Import`, `Update`, `Members`, `Free`, `Remove`, `Finish`, `Save`; changes by users and other windows |
| `ProxyStore` | the list of proxies and who uses it | `list`, `file`, `damage`, `memory`/`saved` settings, `checks`, `probe`, `way`, `asked` | edits, choices, checks and their results, launches, limit probes, restart, damage and repair of the file |

`MC*.tla` give the constants their values, orders and symmetries; a `.cfg` is one
run. The theorems are in modules of their own: `ProjectGroupProofs` (with those about
`ProjectSync`), `AutomationGroupProofs` (with those about `AutomationSync`),
`ProfileLaunchProofs`, `ProjectServerProofs`, `ProxyProofs` (both proxy modules),
`UsagePumpProofs`, `ClaudeBridgeProofs` and `ClaudeSettingsProofs`.
`ProjectGroup` uses `ProjectSync`, and `AutomationGroup` uses `AutomationSync`,
by EXTENDS: the engines are pure in the code too. `ClaudeBridge` and
`ClaudeSettings` name their abstract specifications by `INSTANCE ... WITH`: the owners
of `SessionOwner` are the windows that continue the session and are open, the files
of `SettingsStore` are the documents without their identities, and what was seen is
the document a launch that passed its last check looked at first. `PROJECT.json` maps
every definition to its lines.

### Abstractions that matter

- **Atomic steps.** The main thread is cut where it saves, waits, asks the user or
  calls another process, since only there can the files, windows or AppDeck's own
  timer do something in between. Reading all homes at the beginning of a pass is one
  step; the code compares every file again just before its write, and the model does
  the same. The check and the write of an ACTIVE automation file are one step.
- **Content.** A project is one of two or three contents; an automation is a body and
  a status; bytes of a request are parts `sent`; an address is an endpoint number.
  Whatever is compared in the code is compared in the model.
- **Projects.** `NoProfile`/`NoRecord` stand for missing dictionary entries. The
  revision is a natural number capped by `MaxRevision` (a guard of the user's edits,
  not of the reconciliation). The 256 participants a journal may name
  (`project_sync.hpp:77` and `:206`) are the constant `MaxOwners`; ids and live records
  are `MaxIds` and `MaxLive`.
- **Limits.** Times are scaled: manual floor 1, a Codex helper 2, lost 3, a
  Claude helper 4, spacing 5 and interval 7 keep the order of 20 s, 24 s, 35 s, 48 s,
  300 s and 3600 s. The timer that does not fire while a
  modal dialog is open only delays the pump and is not modelled.
- **Claude bridge.** One group and one session; a child that does not register is
  modelled in `ProfileLaunch`, not here.
- **Proxy bridge.** One request on a connection; the handshake of a tunnel is one
  step that succeeds, fails or is refused.
- **Talk with Codex.** A paginated list is one call; an error reply, an invalid reply,
  a timeout and a stop of AppDeck all end the talk, after the server acted or before.
  The group's records change between talks only, since AppDeck's one thread waits.
- **Proxies.** What a proxy's configuration says is one value. The handlers of the
  editor run to their end; of their two saves each may fail.
- **Claude settings.** A document is the last edit it has, the address AppDeck wrote
  into it and whether it is sound, malformed or linked; a written file has an identity
  of its own, since the code compares inode, size and times. A step reads or writes the
  directory once, and consecutive reads are one step; temporary files, the walk to the
  directory and the JSON text are left out.
- **Launch.** A process is an identity that is never reused, because the code
  compares pid and birth time. A child registers before AppDeck is back after a
  crash. Command lines can always be read. The timer goes through one pending
  restart at a firing (the code goes through all of them, one after another), and
  does not fire inside its own call (`Ticking`). A bridge fails by itself only
  before its window is there.

## 3. Runs

All runs are exhaustive over their bounded instance. The "violation" run shows a
disagreement between the code and one of its own comments; it is listed under
`findings`. The type invariant of every state machine is proved (section 4), so the runs
check only what goes beyond types.

| Run | Shows | Bounds |
|---|---|---|
| projects_safety | the acknowledged snapshot is the list that was written; a stale copy never revives a deletion; the journal only advances and passes its own check at its limits; a repeated pass changes nothing; two participants observed together or apart agree, and a change that loses is reported | 2 profiles and AppDeck's own writer, 1 project, 3 contents, 2 edits per behaviour, 3 owners so that the limit is reached; with two edits all relations between two base revisions occur |
| projects_live | under repeated passes all lists become equal | 2 profiles, 2 contents, 2 edits, set up from a base with the project and an empty copy, both stopped |
| automations_executor | never two ACTIVE copies that would both run, no launch into one, and every home gets the definition or the conflict stays | 2 profiles, 1 body, 3 changes; careful users (below) |
| automations_edits | no edit lost in a batch, status follows the owner | 2 profiles, 2 bodies, 2 changes |
| launch_windows | one process per data folder, own window, the card shows the proxy the window has, its address is served, no bridge stays behind | 1 copy and the original, 3 processes, 1 bridge, one end of AppDeck, one window that restarts itself, failing saves; for Claude (child process) and Codex (LaunchServices) |
| proxy_requests | nothing acted on is repeated, no partial requests, one answer, no early failure, places given back, silent endpoints are passed | 2 connections, 3 endpoints |
| usage_limits | no numbers without consent, an account at most hourly, distance between accounts, floor for manual requests, except one question after the record of the last was lost (see below) | 2 accounts in 2 groups, 2 manual requests, a restart, a clock set back; ages cut at `MaxAge`, where every comparison has been decided |
| usage_overlap | violation of OneProbeAtATime: a helper of Claude Code may run for 48 seconds, the pump gives it up after 35 and starts another | as above |
| bridge_owner | no rival window on a reserved session, no lockout of the owner, old records are no evidence; the whole bridge implements the lock of `SessionOwner` | 2 profiles, 2 folders, 3 starts, 1 loss |
| server_sync | a retried import makes no second project; a talk that succeeds leaves registry and records equal; deletions are recorded on evidence only; tasks outlive their project; the project of a live record is not deleted | 2 records, 3 native ids (one of them also a record's), 2 contents, 1 task, 4 changes, 2 failures |
| proxies_list | windows, and the probes of limits, go direct only where the user means it, or the list could not be read and no required proxy is known; no unreadable proxy is lost, checks and probe bridges are of the present addresses | 2 proxies, 1 profile, 2 configurations, 4 changes, 1 damage, 1 failed save |
| claude_settings | no edit of `settings.json` is lost, except one that falls between the last check and the rename; a launch goes on only over files nobody disturbed; the exchange is one replacement of what was seen (`SettingsStore`) | 2 addresses, 2 edits, 1 other change of either file, 2 launches, with failures and AppDeck's death between any two steps: a launch is disturbed before, between and after its three checks, and the next one starts from what a dead one left |

`launch_windows` uses a view that leaves out the saved file once AppDeck has ended
for the last time, as nothing reads it any more. The symmetries permute contents,
bodies, profiles or ids that the code never orders. Deadlock is checked everywhere
but in `proxy_requests`, where every client has been served, and in
`claude_settings`, where the launches and changes are used up.

### Fairness and assumptions

- `projects_live`: passes are requested again and again (the timer asks every ten
  seconds and a launch asks at once) and the write of a stopped profile gets its turn
  although windows open in between: weak fairness on the observation, strong
  fairness on each `Apply`.
- `automations_executor` (`SteadyFairSpec`): AppDeck cannot stop a user who switches
  a replica on by hand in a running window (SYNC_DESIGN.md:43 says so). Users switch
  a schedule on only in the owner's window, or when they create it; homes stay
  readable and definitions well formed. For `Converges`: the Desktop of every profile is stopped, with no pass
  under way, again and again, and a synchronization is requested then; strong
  fairness on each write, weak fairness on the steps of a pass. AppDeck writes to
  stopped profiles only, so nothing less can converge.
- `proxy_requests` (`SilenceIsSkipped`): threads run and `poll` returns at its
  deadline, hence weak fairness on every step of a connection.

### Outside the runs' assumptions

Reading the code for the models showed these places where a property stops holding
once an assumption of its run is lifted. They are no findings of the runs; the
hazards of `PROJECT.json` name the most important of them.

- Three participants: the winner of edits in separate batches can differ from that of
  one batch (`project_sync.hpp:166` keeps the old base revision of an equal record), and a
  change that loses can go without a report (`:157`). `LostUnlessOutranked` and
  `CurrentChangesCommute` say exactly when, for groups of any size.
- Automations: a damaged copy blocks its id before rivals are sought
  (`automation_sync.hpp:135`); a batch with more ids than the journal can hold is a
  conflict of all of them but names no unsafe one (`:134`), so it does not stop a launch:
  with two definitions and a capacity of one, `LaunchIsSafe` fails; a home that cannot be read at the second look is left out
  of the launch gate (`group_sync.hpp:176`); an edit that races a deletion over separate
  passes is dropped without a conflict (`automation_sync.hpp:146`).
- Limits: after the clock went back an account is due, but its age is below the
  initial best age, so it waits until the clock has caught up (`usage_limits.hpp:113`).
  Switching the limits of a group off and on asks its accounts at once, even within
  20 seconds of their last probe: switching off erases when they were asked, switching on
  forces a probe (`main.cpp:1168`-`1172`). USER_GUIDE.md:130 allows no account to be asked
  more than once in 20 seconds. A quit before an answer is recorded does the same.
  `AccountsAreSpared` excuses exactly one question after each such loss; the model
  keeps them in `history.forgotten`, while `history.asked` is never erased.
- Claude: a session's folder may change while the launch waits in its run loop
  (`claude_session_views.hpp:40`); a child that registers after 10 seconds is unknown to
  the next launch until it is gone (`claude_profile.hpp:132`).
- Claude settings: an edit that falls between the last check and the rename (lines 83
  and 84 of `claude_profile.hpp`) is overwritten, although CLAUDE_NETWORK.md:24 has
  concurrently changed files cancel the launch; the window is that of two system calls.
  A change of the backup between its own check and its replacement (`:79-81`) goes unnoticed, and
  so does a file that was absent, appeared and was removed again.
- Proxies: with a damaged list a profile that names a proxy the list lost has its window
  refused, but its limits are asked directly (`proxy_store.hpp:133`), unlike what line 131
  and USER_GUIDE.md:226 say. `DirectIsMeant` bounds it: this happens with a damaged list only,
  and never to a profile whose proxy is required.
- Launch: LaunchServices returns an original that the user opened at the very moment of
  the launch; `attachMaster` takes it for the one it started and its card names the proxy
  of the launch (`workspace_base.hpp:191`).
- Bridges: one leaves with the process it watches, also when the app restarts itself
  (`proxy_bridge.cpp:369`); a late refusal may make the next request start at an
  endpoint that just refused (`:271`).
- Codex's registry: an import may answer with a project that a deleted record knows by
  its own id, after the conflict check was made (`project_server_sync.hpp:118`); a
  record added again keeps the mapping of its deleted project (`group_sync.hpp:107`).

## 4. Proofs

Every theorem holds for any values of the constants that satisfy the module's
assumptions: finite sets, positive limits, distinct model values, an order of the
writers (`Precedence`). Every safety property that a passing run checks is proved; a
theorem that needs more than that says so in its `ASSUME`, and the hypothesis is
explained below.

**`ProjectGroupProofs`**, the engine: ranks are a total order, a project with contenders
has exactly one winner (`WinnerWins`), a change on top of the current revision is never
dropped (`CurrentChangeIsRecorded`), and what `Reconcile` and `MarkApplied` keep. The
group: `TypeCorrect`, `JournalStaysValid` (the journal never becomes
one that the next load refuses), `CreditsAreJustified`, `StaleCopiesStayDeleted` and the
action property `JournalOnlyAdvances`. The inductive invariant is `TypeOK /\
Sound(state) /\ WithinLimits(state) /\ DroppedSound`. None of the properties is
inductive alone: that a tombstone is not revived needs that a profile's `seen` revision
is one the record has had and, when it is the current one, that the observed content is
the record's (`Sound`), and that the history variable `dropped` agrees with it
(`DroppedSound`); validity needs the limits to be checked over the union before the
batch is taken (`WithinLimits`).

The properties over whole batches follow. `PassesAreIdempotent`: after a batch no
observation is a change any more and its credits are those the new records give
(`ReconcileTwice`). What is lost and what the order of passes matters for is first
proved for groups of any size. `LostUnlessOutranked`: a change that does not get
into the list is reported, unless a change that beats it in its batch is itself
outranked by the record. `CurrentChangesCommute`: two participants' changes have one
outcome in one batch and in two, if one of the participants has the current revision.
Of two participants one always has: the last edit of a live project is a participant's,
who is credited with it (`WriterHasIt`, added to the invariant by `GroupInvariance`).
`NoLossWithoutReport` and `OrderOfPassesDoesNotMatter` are therefore proved for
`Profiles = {a, b}`, a base with one copy, whose runs check the same; with three
participants both properties are false (section 3).

**`AutomationGroupProofs`**: `TypeCorrect`, `StatusIsTheOwners` and `EditsAreKept` hold
whatever users do. `OneExecutor` and `LaunchesAreSafe` are about careful users
(`SteadySpec`), and assume `Fitting`: there are no more definitions than the journal may
hold. Beyond the capacity the engine refuses a batch without naming an unsafe
definition, and the second property fails. Neither is inductive. `CarefulInv` says that
all homes can be read again and parse (`FullReread`, `Parsed`), and that no two of them
have a definition switched on, running or not (`OneArmed`). Users may switch one on in
the owner's window, so no other home may have it on while that window runs
(`OwnerAlone`), and no Desktop of AppDeck runs while the owner changes
(`OwnerPassAlone`). That holds at a launch, because a pass that passed its check found
everything recorded off, but at its owner (`Cleared`, `CheckSucceeded`), and what is not
recorded yet is in one home only (`Recorded`); a pass that was interrupted between a
file and the journal never gets that far.

**`ProfileLaunchProofs`**: `TypeCorrect`, `CardsOwnWindows`, `CardsShowProxies` and
`BridgesServe`. The invariant `IndInv` says of memory and of the saved file alike that a
card whose process is alive names one of its own folder, with the bridge it was started
behind (`Honest`), if with any (a window adopted behind a proxy may show none; only
the shown proxy is claimed): the file matters, because AppDeck may die and read it back at any
moment. Launches are nested, with a profile and a bridge each (`Nested`), and each knows
what it waits for, asked for or got back (`Awaited`, `Asked`, `Returned`); a bridge that
waits for its window belongs to one of them (`Bridges`). A second window of a copy
is excluded only while every child registers within the ten seconds AppDeck waits
(`claude_profile.hpp:132`): `NoTwinInTime` says so for each behaviour until the first
late child, and `NoTwins` for `MaxTimeouts = 0`, which is what the run checks.

**`ProxyProofs`**, the store: `StoreTypeCorrect`, `ProxiesAreKept`, `ChecksStayCurrent`,
`ProbesStayCurrent` and the action property `DirectIsAlwaysMeant`. The first three are
conjuncts of `StoreInv`, with
that every entry was added once (`Added`), that revisions are handed out in order
(`Ordered`), that a check of the present revision was made with the present configuration
(`Matching`), and that a list read in full has all the user keeps (`Complete`). That no window goes
direct by mistake needs one more invariant (`NamesRead`): while the list was
read in full, every proxy of the file that some profile names is in it.

The bridge: `TypeCorrect`, `NothingIsRepeated`, `ExchangesAreWhole`, `FailuresAreLast` and
`PlacesAreReturned`. `Sound(c)` describes an exchange at each stage of its thread: before
the head nothing happened; while an endpoint is sought nothing but the head was read, the
places before the present one were tried, and what must not be repeated was not acted on;
while an answer is judged `resend` is set exactly when nothing followed the head. Since a
thread changes only its own connection (`OthersStaySound`) the shared `gLast` cannot break
this: each request keeps the first place of its order. The counter equals the number of
threads between `Accept` and `Leave` (`PlacesStep`).

**`UsagePumpProofs`**: `ConsentIsKept`, and `OneAtATime` under the assumption
`AnswersInTime`: every helper ends before the pump counts it as lost (35 s). A Codex
helper does (24 s), one of Claude Code need not (48 s), and `usage_overlap` shows that the
assumption is needed. The invariant is `InStep`: there is at most one worker, it is the one in flight, and it has
run as long as the pump thinks. `AccountsStaySpared` and `ProbesAreSpaced` need less,
`EndsBeforeNext`: every helper ends within the five minutes between two automatic
probes, which 48 seconds do. Their invariant `Pacing` says that an account's stamp is
no older than its last question, or that question is open: its helper still runs, and is
in flight unless it counts as lost. So a lost helper lets a request of the user pass
(35 s are more than 20), but no automatic probe. The accounts in `history.forgotten`
are exempt until they are asked again, or an answer is recorded. Both hold while the
clock is not set back.

**`ProjectServerProofs`**: `TypeCorrect`, `EveryRecordIsImportedOnce`,
`SuccessIsAgreement`, `RemovalsAreSafe` and `DeletionsHaveEvidence`. Not even the types
are inductive alone: an update writes a record's contents only because a talk pushes
live records (`PushesLive`). `Registered`: an id is used once, what AppDeck removed is gone, the server
knows the key of every import that is there. `Mapped`: no mapping is to an id that was never
used, and a record is mapped to a removed project only if it is deleted, was added
again, or got it by an import; it holds for the saved mapping and for the talk's, which
only adds to the saved one (`Grown`). During a talk, what it saw is the registry up to
what other windows touched (`Seen`), no live record shares a deleted one's project
(`Apart`), what was pushed agrees (`Agreed`), and what is about to be removed has no
tasks but late ones (`Emptied`).

**`ClaudeSettingsProofs`**: `TypeCorrect`, `NoEditIsLost`, `DisturbedLaunchesEnd` and
`ExchangeIsOneReplacement`, the refinement of `SettingsStore`. Identities of files only
grow (`Fresh`), so a disturbed file is never the one the launch saw (`Marked`); each step
knows what it read is sound and what it backed up (`Known`); and a launch at work has no
result yet (`Open`).

**`ClaudeBridgeProofs`**: `RivalsStayAway`, `NothingBlocksItself`,
`OldRecordsProveNothing` and `SessionsAreLocked`, the refinement of `SessionOwner`, which
needs that a profile in the middle of its launch has no window yet (`Waiting`). The first rests on `Reserved`: a window that is
opened has a number no other had (`Numbers`); from the reservation to the event nothing is
launched, the file names the process or was lost, and the event is sent only with the mark
saved (`Held`); while the owner's window lives the mark is saved, the file names the owner
or was lost, only the owner is being launched and nobody else has a window (`Owners`). The
second needs that, while nothing was lost, the file can be read and has the reservation
while a request is in hand (`Present`), the third that descriptors of the target are only
renewed since (`Evidence`).

Only model-checked: liveness (`Converges` of both groups and `SilenceIsSkipped`), since
the prover has no fairness or ENABLED. Nothing in the proved modules is RECURSIVE.

## 5. What is not modelled

Views, menus, layout and localization; window placement through the Accessibility
API; the parsers of limits, proxy addresses and HTTP heads (pure functions with unit
tests; their results are inputs of the models); validation of `state.plist`;
duplication and removal of profiles; the check mode of the bridge; the web profile
linked to a Claude profile. The edge panel is not modelled: a hot key shows and hides it
and cards are dragged into an order, all on the main thread and in view state that no
other part reads, so a sequential test reaches whatever can go wrong in it (when no
screen is found it keeps a panel that is up, and only notes that it is not wanted).

## 6. Plan

1. Done: `ProjectSync`, `ProjectGroup`, `ProjectServer`, `AutomationSync`,
   `AutomationGroup`, `UsagePump`, `ClaudeBridge` with `SessionOwner`, `ClaudeSettings`
   with `SettingsStore`, `ProxyBridge`, `ProxyStore` and `ProfileLaunch`; the proofs of section 4.
2. Next modules: a composition of `ProjectServer` with `ProjectGroup` in place of the
   external choice, with "registry agrees with the list" as the abstract
   specification the talk implements; the web profile linked to a Claude profile.
3. Next theorems: which launches stay safe for users who do switch a replica on by hand;
   an abstract journal, one register per project, that `ProjectGroup` implements.
