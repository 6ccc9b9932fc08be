# ATS ProxyManager: a formal model

TLA+ modules that model ATS ProxyManager (a Go backend, a Go helper beside each
Apache Traffic Server, a web front end), the TLC configurations that check
them on small instances, and TLAPS proofs of what holds for every instance.
Paths below are relative to the repository; `B/` is `backend/internal/`.

## 1. Inventory

| Component | State | Operations | Correct when |
|---|---|---|---|
| Configuration approval (`B/service/config_service.go`, `B/repository/config_repo.go`, `config_proxy_repo.go`, `AssignConfig` of `B/service/proxy_service.go`) | tables `configs`, four rule tables, `config_proxies` | Create, Update, Clone, Submit, Approve, Reject, Delete, AssignConfig | a proxy has one active configuration; only the submitter approves; the hash stored is that of what is served; what was submitted or activated is frozen and kept |
| Generation and validation (same service, lines 192-302 and 745-932) | none | validateRules, GenerateConfigFiles, generateParentConfig, generateSNIYaml, generateIPAllowYaml, cidrToRange | Traffic Server treats every request and client as the rules say; the files served are those hashed |
| Sync endpoints and proxy registry (`B/service/sync_service.go`, `B/repository/proxy_repo.go`) | table `proxies` (hostname, registered_ip, is_online, last_seen, current_config_hash, capture_logs_until) | Register, GetConfig, Ack, Stats, Logs, Delete | a host name belongs to one live proxy; a live proxy is online; what is reported applied was applied |
| Scheduler (`B/scheduler/jobs.go`) | four tickers | mark offline after 2 min, delete after 4 h, clean logs and statistics | a proxy that syncs is never deleted; a silent one is |
| Helper (`helper/cmd/helper/main.go`, `helper/internal/sync`) | connected flag, proxy id | waitForRegister, helloLoop, doSync, captureAndSendLogs | it re-registers after a loss; it ends up with the served configuration |
| ATS manager (`helper/internal/ats/manager.go`) | three files, the hash file, what ATS has loaded, its debug settings | ApplyConfig, Reload, SaveHash, EnableDebug, DisableDebug, CaptureLogs, CollectStats | the saved hash is that of a configuration that was written whole and loaded |
| Log capture (`proxy_service.go:157`, `sync_service.go:314`, `main.go:245`) | capture_logs_until, debug on or off, capturing goroutines | StartLogCapture, captureAndSendLogs, Logs, CleanupExpired | debug is on for a capture, and off after the window |
| Migrator (`B/migrate/migrate.go`) | schema_migrations, the schema, an advisory lock | Run, bootstrapExistingDB | each migration is applied once, in order, by one of several servers |
| Sessions (`B/service/auth_service.go`, `B/auth/jwt.go`, `B/handler/middleware.go`, `frontend/src/lib/api.ts`, `auth-guard.tsx`) | table sessions; tokens in browser tabs | Login, Refresh, Beacon, Logout | an active user stays logged in; a logout holds; a session ends |
| Users (`B/service/user_service.go`) | table users; the roles tokens claim | Create, Update, Delete | nobody has or claims a role that was not given |
| Statistics, audit, pages of the front end, deployment | - | - | not modelled (section 8) |

Components meet in three places: the PostgreSQL database (every HTTP request
and scheduler job is a goroutine with its own connection; only Create, Update
and Clone of configurations and each migration run in a transaction, at READ
COMMITTED), the HTTP calls of the helper and the browser (each may fail before
or after the backend acts on it), and the disk of the proxy host, shared by
helper and ATS.

What is hard here: the read-check-write sequences of approval, deletion,
assignment and user updates without a transaction; errors and cancelled requests
between two of their statements; the helper's sequence of writes, reload, hash
and ack that may stop anywhere; lost or late acks; time-based offline marking
against re-registration; two loops sharing one flag; goroutines sharing one debug
setting; a lock that lives on another connection than the work it protects; tabs
that refresh one session. `PROJECT.json` lists each hazard at its line.

## 2. Plan

| | Module | State |
|---|---|---|
| 1 | `ConfigApproval`, with the abstract `ConfigLifecycle` | checked, proved |
| 2 | `HelperSync`: one proxy host and what is served to it | checked with liveness, safety proved |
| 3 | `ProxyRegistry`: one host name, with a clock | checked with liveness, safety proved |
| 4 | `LogCapture`: the window against the capturing goroutines | checked with liveness, safety proved |
| 5 | `Session`, `Accounts`: tokens and tabs; users and roles | checked with liveness, safety proved |
| 6 | `Migrator`, with the abstract `SchemaGrowth` | checked with liveness, safety and refinement proved |
| 7 | `ConfigGen`: validation, generation, what ATS does with the files | checked, proved |
| 8 | `ConfigSync`: approval and a helper in one state space | not done |

The interface that 8 would compose is stated in 2 instead: the actions
`Activate`, `Unassign`, `Reassign` and `Reregister` of `HelperSync` are every
change of the served configuration that `ConfigApproval` and `ProxyRegistry`
can cause, in any order, so its properties hold whatever those two do.

## 3. The modules and the code

**`ConfigApproval`** models the configuration handlers as goroutines ("workers")
on one database. A step is one SQL statement outside a transaction, or one read
or the commit of a transaction, so `Approve` is five steps (`ApproveCheck`,
`ApproveReadRules`, `ApproveReadHead`, `ApproveDeactivate`, `ApproveCommit`),
`Delete` two, `AssignConfig` three, `Clone` three, `Update` two, `Create`,
`Submit` and `Reject` one. `row` is `configs`, `rules` the four rule tables
(replaced together in one transaction, hence one value), `assigned` is
`config_proxies`, `req` holds each request's local variables. `Fail` is an error
or a cancelled `r.Context()` between two statements. The content of a
configuration is a pair (column `default_action`, rule tables), because the two
are read in different statements and only their relation matters; the hash is
the pair itself, collisions are left out.

**`ConfigLifecycle`** is the abstract specification, one state machine per row:
`Spec` (the submitter activates, with the hash of what was submitted; what was
activated is never removed) and `RacySpec`, without these three ties. Both are
checked with the identity mapping: `ConfigApproval` instantiates it over its own
`row` and `rules`.

**`ConfigGen`** follows one configuration from the body of a Create or Update to
the lines Traffic Server obeys. An address is the set of the positions of its one
bits, so that `&`, `|` and `^` are intersection, union and difference; a CIDR has
the address as typed, and the length or none. `ValidateRules`,
`Insertable` (the unique keys of the tables) and `Defaulted` decide what is
stored; `Sorted` is every order in which the rows may be read, since ORDER BY
names only the priority; `ParentConfig`, `SNIYaml` and `IPAllowYaml` render a
file as its sequence of lines (`Kept` is the loop that leaves lines out), and
`CidrToRange` gives the two ends of a range by masking, as the code does.
The files are rendered when the configuration is approved, for the hash, and
again for every GetConfig. `Matches`, `Route` and `Verdict` are external: what
Traffic Server does with `parent.config` and `ip_allow.yaml` (first match).
`InRange` compares addresses as numbers. What is asked for is defined
independently, on the first bits instead of ranges (`InPrefix`) and on priorities
instead of lines (`WantedActions`).

**`HelperSync`** is one proxy host and what the backend has for it. `pc` is the
line `doSync` is at, `target` the answer it works on, `disk`, `loaded` and
`saved` the three files, what ATS has loaded, and `.config_hash`. Each write,
the reload, the hash file and the ack succeed or fail as the code lets them
(`WriteFail` leaves the files written before; `ReloadFail` may have reloaded;
`Save` ignores its error and may leave an empty file; `AckFail` may still be
handled later, `AckLate`). `Crash` kills the helper anywhere, `Restart` makes
ATS read the disk. `ran`, `again` and `lost` are history variables; `lost` says
that an ack was given up or came late, was sent with the hash file unwritten, or
that the row was deleted, and that no ack was answered since.

**`ProxyRegistry`** is one host name: its row (id, address, is_online, the age
of last_seen), and helpers configured with that name. `Register` is a read and
two updates or an insert and an update, each a step of its own (`reg`);
GetConfig is `SyncAsk` then `SyncSeen` or `SyncGone`, and `Disconnect` is doSync
handling the 404 later. `Wanted` is the condition of `waitForRegister` and
`helloLoop`. The two jobs are `MarkOfflineStale` and `DeleteOfflineStale`.
Ages are counted in ticks, up to one more than the larger threshold, beyond
which nothing tells them apart; `since` is a history variable.

`HelperSync` and `ProxyRegistry` share the columns of one row and no decision:
the registry never reads `current_config_hash`, and what the cleanup does to the
helper is `Reregister` there.

**`LogCapture`** is one proxy host in debug. `until` is `capture_logs_until` as
ticks left, `answer` the copy of it in an answer that `doSync` has received, and
each of `Captures` a goroutine of `captureAndSendLogs` at `enable`, `tags` (the
two commands of `EnableDebug`), `run` or `disable`. A new one is started at every
sync of the window, so that several run at once. Any command may fail with or
without effect (`EnableFail`, `TagsFail`, `DisableFail`); `Signal` and `Exit` are
SIGTERM, after which `main` returns without waiting for the goroutines.
`disturbed` and `reopened` are history variables: something failed or was
killed; a window was opened over captures of an earlier one.

**`Migrator`** is `migrate.Run` on several servers, of possibly different
releases, on one database. `pc[s]` is the part of `Run` a server is in, `todo[s]`
the versions its loop has left. The lock belongs to a session (`holder`), the
work is done on other connections, so `LoseLock` takes the lock away while the
work goes on, and after a `Crash` the session keeps it until `SessionEnds`.
`Fail` is an error of any statement, `CommitLost` a COMMIT that took effect but
was answered with an error, `Refused` a migration that meets what is already
there. `Truncate` is the operator's reset described in `docs/MIGRATIONS.md`.
**`SchemaGrowth`** is what it promises: the schema grows by the next version,
for good, and a server serves only when it has all versions of its release.

**`Session`** is one login. Its row is `current` (`token_hash`), `expires` and
`revoked`; the tokens have their remaining life in `ttl`. A tab (`held`, `fails`,
`refresh`) makes any number of calls, each a record in `call`: asked, its row
found, or waiting for the refresh of its tab. As in `api.ts`, a call answered 401
waits for the refresh that is under way, or starts one (`Deny`); `Answer` sets the
token, makes the calls that waited again and ends the refresh in one step, since
JavaScript runs their continuations without a break; a 401 after that starts the
next refresh. `BeaconOk`, `Issue` and `LogoutOk` are Beacon, Refresh and Logout of
`AuthService`; the lookup of the row and the write by its id are steps apart.
`Lose` and `LoseRefresh` lose a request or its answer, before or after it took
effect. `trouble`, `latest`, `quiet` and the field `sole` of a logout are history.

**`Accounts`** is the table users with the roles claimed by tokens. `UpdateRead`
and `UpdateWrite` are the two statements of `UserService.Update`, which writes
the whole row back; the caller's role is taken from a token (`Caller`), as
`AuthMiddleware` and `RequireRole` do, never from the table. `since`, `grant` and
`overlapped` are history variables.

## 4. The runs

| Run | Bounds | Shows |
|---|---|---|
| ApprovalSerial | 3 configurations, 2 proxies, 2 users, 1 worker | one active configuration per proxy, approver, hash, and refinement of `ConfigLifecycle!Spec`, although requests die half way |
| ApprovalConcurrent | 2 configurations, 1 proxy, 2 users, 2 workers, 2 heads and bodies | what survives interleaving: exact clones and refinement of `RacySpec` |
| ApprovalRaceActive | as ApprovalConcurrent | violated: two active configurations on one proxy |
| ConfigGen | 4 bits, 5 names, the request families of `MCConfigGen` | every request and client is treated as the rules say; the files served are those hashed; no accepted rule is total |
| HelperSync | 2 configurations | whole reloads, true reports, "in sync" true until something is served again, `Converges`; an ack arrives and stays unless `lost` |
| HelperStuck | as HelperSync | violated: convergence when something is served again |
| Registry | 2 helpers, 3 row ids, offline after 1 tick, deletion after 2 | a synced row stays online and there; a newcomer is refused; `Recovers` |
| RegistryRace | 4 row ids | violated: only a helper with its id takes over an online row |
| LogCapture | 2 goroutines, windows up to 3 ticks | debug is on for its captures and off at last |
| Migrator | 2 servers, 4 migrations, every mix of releases and initial schemas | one server at a time, no clash, recorded is there, refinement of `SchemaGrowth`, `ComesUp` |
| Session | 2 tabs, 2 calls under way, 3 tokens known at once, token life 1, refresh life 2, 2 beacon failures | tabs stay logged in, a logout that no other refresh overtakes revokes, a revocation holds, every session ends |
| Accounts | the seeded user and another, 2 concurrent updates, token life 1 | roles catch up with tokens; only the seeded user is root, for as long as no Update asks otherwise; grants hold |

*Why the bounds are enough.* Three configurations let one supersede a second
while a third waits for approval or is being assigned; two proxies let the
associations of two configurations overlap partly. A race needs two requests;
with two workers, two configurations and one proxy already show every violation,
and two heads and bodies tell content read before from content read after. For a
helper, one configuration is on disk or being applied while the other is served;
the safety properties are proved for any number. Two helpers under a
name suffice for takeover and conflict, row ids for one per helper and a new
one; the thresholds are the smallest that keep "fresh", "offline" and "deleted"
apart. Two goroutines are enough for one to switch off what another needs, and a
window of three ticks for one to open inside another. Four migrations let a
bootstrap, a release behind and a release ahead meet on one database. Two tabs
take the row from each other, and so do two calls of one tab: while one waits to be
heard with the token of the first refresh, a 401 of the other starts the second.
Three tokens are the one of each tab, or call, and the next; the refresh life is
above the token life by one, as little as keeps the two expiries apart; the proofs
are for any number of each. In `Accounts` time only has to tell "within TokenExpiry" from
"after". With four bits every prefix of every address is tried, typed with and
without host bits; the proof of `RangeIsPrefix` covers any width.

The bound on tokens counts those known to anyone: an expired token that
nobody holds is used again. `Calls` bounds the calls under way at one time. `Captures` bounds the goroutines that run at one
time; `Window` and `Life` are the only bounds on time, whose counters stop at 0
or at the largest value that is told apart. Symmetry is used for
model values no definition names, never with liveness. Deadlock is checked in
every run.

*Proved, and therefore not run again.* The inductive invariants `SerialInv`,
`SyncInv`, `RefreshInv`, `MigrateInv`, `CaptureInv`, `SessionInv` and `AccountInv`,
and `FrozenOnceSubmitted`, `ActivationIsFinal` and `ActivatedNeverDeleted` of
`ConfigApproval` (which say in the terms of that module what the two refinements
say in those of `ConfigLifecycle`) were checked by TLC while the proofs were
written and are now theorems; the runs keep the properties a reader asks for.

*Races that have no run.* With two workers `ApproverIsSubmitter`,
`HashMatchesContent` and `ActivatedNeverDeleted` fail as well: the checks of
`Approve` and `Delete` are on a row read before, and their
last statement checks the status at most (section 7). Section 6 says which overlaps it takes.

## 5. Fairness

Safety does not depend on fairness; where a run also checks liveness it uses
`FairSpec`.

- `HelperSync`: the ticker fires every `--sync-interval`, so `doSync` keeps being
  called; strong fairness of fetch, writes, reload, hash file and ack says that
  none of them fails, or is where the helper is killed, for ever. Crashes,
  restarts, reassignments and re-registrations are not fair and may go on for
  ever; `Converges` only assumes that the served configuration stays the same
  eventually.
- `ProxyRegistry`: weak fairness of the statements of a request, of the helper's
  tickers (10 s hello, sync interval), of the scheduler's jobs and of time.
  `Recovers` assumes that requests stop failing and that nobody deletes the row
  any more, since an administrator or a broken network can keep a helper away
  for ever.
- `LogCapture`: time passes, an answer is handled or lost, a goroutine goes on to
  its next command. Users, failures, kills and restarts are not fair;
  `DebugEnds` assumes that nothing was disturbed and that windows stop being
  opened.
- `Migrator`: a server goes on with its start and is started again (the restart
  policy of the container), PostgreSQL ends the session of a client that is gone,
  and grants a lock in the order of the requests (strong fairness of `Lock`).
  `ComesUp` assumes of one server that it is no longer killed, failing or cut off
  and that no operator truncates the table; nothing of the others.
- `Session`: time passes, a refresh and every call are answered or lost (a failing
  `fetch` throws), and a tab that is logged in keeps sending beacons: the interval
  timer waits for nothing. It is strong fairness only because the slots of `Calls`
  are a bound of the model: a tab may find them all taken, again and again.

## 6. The proofs

Each proof module has one lemma per invariant that every action preserves it,
one step per action, and temporal theorems that combine them.

- `ConfigApprovalProofs`: `TypeOK`, the refinement of `RacySpec`,
  `FrozenOnceSubmitted`, `ActivationIsFinal` and `CloneOfActivatedIsExact` for
  any number of configurations, proxies, users and requests; for serialised
  requests (`OneRequest`: any two workers are the same) `SerialInv`, the
  refinement of `ConfigLifecycle!Spec`, `OneActivePerProxy`,
  `ApproverIsSubmitter`, `HashMatchesContent` and `ActivatedNeverDeleted`.
  `OneActivePerProxy` is not inductive: `InFlight` adds what a request in the
  middle of its statements relies on, above all that after `DeactivateOthers` no
  other active configuration shares a proxy. `CloneOfActivatedIsExact` needs that
  a clone that saw an activated row has, at every step, only read what is still
  there.
  What breaks without `OneRequest` is pinned down by theorems about any
  interleaving that leaves out one kind of overlap. `DeleteRace`: an activated
  configuration is only ever deleted by a Delete that overlaps an Approve of the
  same one (`DeletesApart` excludes it). `RejectRace`: approver and hash are only
  ever wrong after a Reject inside an Approve (`NotRejected`). `StrictRefinement`:
  without these two the handlers implement `ConfigLifecycle!Spec`.
  `ActivationRace`: `OneActivePerProxy` holds if approvals and assignments do not
  overlap (`OneActivating`) and nothing is rejected inside an Approve; the second
  condition is needed, since a configuration rejected, given other proxies and
  submitted again is activated next to what it did not deactivate. Creations,
  updates, submissions, clones and failures overlap freely in all four.
  `SerialIsApart`: requests served one at a time satisfy the conditions.
- `HelperSyncProofs`: `TypeOK`, `ReportedWasRun`, `ReloadsWhole`, `SyncInv` and
  `InSyncIsTrue` for any set of configurations. `ApplyInv` follows `doSync`
  through the files, so what is reloaded, saved and acked is whole and
  was run; `ServedInv` says that a configuration never served before is known to
  nobody, so that while the one served has been reported nothing else can be in
  progress - which a configuration served again breaks.
- `ProxyRegistryProofs`: `TypeOK`, `RefreshInv`, `LiveIsKept` and
  `NewcomerRefused` for any number of helpers and any thresholds with
  `OfflineAfter <= DeleteAfter`. `RefreshInv` (the row is at least as fresh as
  the last sync, and a fresh row is online) is inductive and implies the others.
  `CheckRace`: `OnlineRowKeepsHost`, which run RegistryRace violates, holds as
  long as a row does not come online or change its address between the check of
  a Register request and its UPDATE (`ChecksHold`); nothing else breaks it.
- `MigratorProofs`: `TypeOK`, `MigrateInv`, `RecordedIsThere`, `NoClash` and the
  refinement of `SchemaGrowth`, for any number of servers and migrations.
  `RunInv` carries what a server found out from one loop to the next and holds
  without the lock; `LockInv` adds what holds only while it is kept. The
  refinement needs only the first: the lock protects against failing starts,
  not the schema, which transactions and the primary key already protect.
- `LogCaptureProofs`: `TypeOK`, `DebugHasOwner`, `CaptureInv` and
  `CaptureSeesDebug` for any number of goroutines and any window.
  `CaptureSeesDebug` rests on `OneDeadline`: all copies of the deadline agree, so
  that a goroutine that switches debug off does so when no other needs it.
- `SessionProofs`: `TypeOK`, `SessionInv`, `LogoutHolds`, `KeptLoggedIn` and
  `LogoutRevokes` for any number of tabs, calls and tokens and any lives. `RowInv`
  (the row names the token issued last and does not expire before it) makes every
  401 after a refresh one with a reason (`DeniedFacts`), so that failures are no
  more than troubles (`TroubleInv`). `SoleInv` says that a logout no other refresh
  has overtaken carries that token or is about to be given it, hence finds its row.
  `LeaveCases` and `EndCases` list the steps that log a tab out and that end a call.
- `AccountsProofs`: `TypeOK`, `AccountInv`, `RoleCatchesUp`, `OnlySeedIsRoot`,
  `RootUnlessAsked` and `LastGrantHolds` for any number of users, requests and any
  token life. `RootInv` must also speak of tokens and of rows that pending
  updates will write back; `GrantInv` of pairs of pending updates.

- `ConfigGenProofs`: all five invariants of `ConfigGen`, for addresses of any
  width and any set of requests. `GenInv` (the tables are those of the last
  answer, of the shape `validateRules` accepts, and the files rendered from them)
  is inductive; that it gives `RoutesAsAsked`, `ClientsAsAsked` and
  `ServedIsHashed` is a matter of the operators. `RangeIsPrefix`: what lies
  between the ends `cidrToRange` computes is what shares the first bits.
  `RuleDecides`: among lines rendered from any order of the rows the first match
  is a rule that comes first in priority. `KeptSorted`: lines left out keep the
  order of the rest. `DecidingConcat`: a later part of a file decides only when
  no earlier one does. `OneOrder`: distinct priorities leave one order. Where one
  would argue by induction along a sequence, the proofs take the least position at
  which something holds (`Least`), since the number of rows is not bounded.

The assumptions are those on the constants: NULL is no identifier, hash, row or
token, the order of the two thresholds, positive windows, versions and token
lives; of `ConfigGen`, that addresses have a bit, that requests have the fields of
their Go types, that 127.0.0.1 and 10.0.0.0/8 are IPv4 and not of the network 0,
and that one name looked up has no dot (without it a rule could name every name
there is). Liveness is only model-checked: `Converges`, `AckedUnlessLost`,
`Recovers`, `ComesUp`, `DebugEnds` and `EndsAtLast`.

## 7. What the code does otherwise

Three disagreements with a run that shows them (`findings` in `PROJECT.json`):
two active configurations on one proxy after interleaved approvals; mixed
configuration files that are never repaired when the previous configuration is
served again; two hosts registered under one online host name.

Others met while modelling, visible in the actions named or excluded by a
condition of a property:

- `Approve` checks the submitter on a row read before; rejected, edited and
  submitted again by another user meanwhile, it is activated by the first
  (`config_service.go:707`; `docs/API_CONTRACT.md:373`), and keeps the hash of
  what was read. An approval between the two statements of Delete is deleted
  with its configuration (`config_service.go:132`).
- The state diagram of `docs/ARCHITECTURE.md:180` goes from `pending_approval`
  through `approved` to `active` and from `active` back to `draft`. The code goes
  from `pending_approval` to `active` at once, `approved` is what a superseded
  configuration becomes, and an active row never returns to `draft`; a new version
  is a clone (`ConfigLifecycle`).
- An ack lost after SaveHash is never repeated (`main.go:224`), and a proxy deleted
  and registered again while its helper keeps the hash file is offered nothing and
  acks nothing: both are in `lost`, which `AckedUnlessLost` excepts. A host replaced
  under the same name keeps `current_config_hash` until its first ack
  (`sync_service.go:82`).
- Debug stays on when the second command of EnableDebug or the first of
  DisableDebug fails, when the helper is killed, and when `main` returns on
  SIGTERM (`disturbed`); the end of an earlier capture switches it off in a
  window that was opened meanwhile (`reopened`). Each round resends the last
  lines of the log, those already sent included.
- A logout that carries a token superseded by a refresh, of another tab or of a
  later call of its own tab (`api.ts:65`), is answered 200, clears the tab and
  revokes nothing (`LogoutRevokes` is about those that are not overtaken, `sole`).
- `docs/ARCHITECTURE.md:313` says that logout "Invalida token". The code revokes the
  row; the token, and one a refresh under way is about to issue, stay accepted until
  they expire, since `AuthMiddleware` looks at the token alone (`LogoutHolds` gives
  the bound).
- `docs/SEQUENCES.md:240-250` says that after two minutes without a beacon the
  session expires, the next beacon is answered 401 upon a look at `last_beacon`, and
  the user is sent to the login page; `docs/ARCHITECTURE.md:711` and `README.md:127`
  say that the beacon detects an inactive session. The code writes `last_beacon` and
  never reads it: a row expires 30 minutes after the last beacon or refresh, and even
  then the 401 only starts a refresh, which looks at `revoked_at` and not at
  `expires_at`. A tab stays logged in through any pause shorter than the refresh
  token (`KeptLoggedIn`).
- A deleted user's session can still be refreshed (`auth_service.go:101`,
  `Accounts!Refresh`).
- `docs/ARCHITECTURE.md:580-581` lets an admin manage users "exceto root/admin".
  `UserService.Update` looks at the role asked for and not at the one the user has
  (`user_service.go:81`): an admin may make the seeded user, or another admin,
  regular. Nobody can be given the role root, so that there is none then, ever
  (`RootUnlessAsked`, second part).
- An Update without ACL rules leaves none and so denies every client, whereas Create
  puts defaults (`config_service.go:368`); `ClientsAsAsked` takes it as asked.
- Two concurrent updates of a user may bring back a role just taken away
  (`overlapped`).
- `migrate.go:28` takes a connection for the lock and others for the work: with a
  pool of one connection it waits for itself.
- With rules of equal priority the files served may differ from those hashed
  (`ServedIsHashed` asks for distinct ones). `cidrToRange` combines the four
  bytes of an IPv4-mapped IPv6 CIDR with the first four of its sixteen mask
  bytes, so that its range is one address (`config_service.go:899`). `::/0` is accepted in the ACL although `0.0.0.0/0`
  is refused. The example `.provengo.local` of `docs/API_CONTRACT.md:308` is
  refused by `domainPattern`.
- A `--config-id` that names no configuration makes every INSERT of Register fail
  (`sync_service.go:103`): the helper never registers.
- The helper sends the counters of Traffic Server since its start
  (`manager.go:138`) and the dashboard sums them (`proxy_stats_repo.go:138`), so
  that figures of the last hour count a request once per sync.

## 8. Not modelled

- *Statistics*: appended at every sync, summed for display, deleted by a job; no
  decision reads them. *Audit*: an append-only log whose errors are ignored.
- *Backoff* (`helper/internal/sync/backoff.go`): never called by the loops.
- *Pages of the front end*, *HTTP parsing* and status codes, *start-up* and the
  *container scripts* (but for the restart of ATS): no state of their own.
- *Composition of approval and helper in one state space* (plan, 8).
- *Within the modelled parts*: a configuration changed between two of the four
  SELECTs that read its rule tables (`ApproveReadRules`, `CloneReadRules` are one
  step each; the default action, read apart, is one of its own), hash collisions, IPv6 destinations, names and
  passwords, timestamps other than last_seen and the deadlines, the lines
  captured, the error acks (the backend does nothing on them), and a database
  whose statements are applied after the request that sent them was given up,
  except for acks and the COMMIT of a migration.
