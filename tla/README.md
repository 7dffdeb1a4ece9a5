# Verification of fcc_tg_bot

TLA+ models of the Telegram bot in `src/`, the TLC runs that check them and the
proofs TLAPS checks. The bot manages Remnawave panels: it looks for IP
addresses that work from inside the country, hangs them on nodes and hosts, and
keeps doing so in the background while people press buttons.

`PROJECT.json` holds the tables this text does not repeat: which lines each
definition models (`map`), each run, the hazards, the findings, the theorems.

## 1. The system

One process, one asyncio event loop (`main.py`). It starts four background
loops, polls Telegram, and keeps its state in Postgres (SQLAlchemy async
sessions), in Redis (dialogue state, alert keys) and in module variables. Two
pieces of code interleave only at an `await`; nothing takes a database lock, so
a session that reads, awaits and writes works on a copy that may be stale. AWS
calls go through `asyncio.to_thread`: cancelling the awaiting task does not stop
the call.

| component | state | operations | interacts with | hard behaviours | what makes it correct |
|---|---|---|---|---|---|
| Lightsail searcher (`services/lightsail_searcher.py`, `lightsail_search_service.py`, `lightsail_api_service.py`, `bot/handlers/lightsail_fsm.py`) | task registry in memory; `lightsail_region_configs`, `lightsail_static_ips`; AWS: one instance and up to five static IPs per config | scheduler tick, start / pause / stop buttons, search, recheck, reconciliation, quota recovery | AWS, Pingachock, buttons against tasks | cancellation, restarts, failed and half-done AWS calls, two limits on slots | no address leaks unnoticed, working addresses are kept, one task per config, a stop stops |
| Availability monitor (`availability_monitor.py`, `automation_service.py`, `automation_fsm.py`) | `_processing_groups`, `_cancel_flags`, cooldown map; `automation_groups`; hosts on the panel | due-group loop, check now, skip, toggle, delete; check, replace from node / pool / IP set | panel API, Pingachock, pool | a skip that arrives late, a group changed or deleted while in work, a host update that fails after it took effect | a group is worked on by one task, a skip affects the check it was pressed for, hosts of an "each" group stay distinct |
| IP pool scorer (`ip_pool_scorer.py`, `managed_pool_service.py`, `managed_pool_fsm.py`) | `managed_pools`, `managed_pool_ips` | full scan, health check, reset / clear buttons | Pingachock, panel | a reset during a scan, two writers of one score | a reset leads to a new scan, an older result does not replace a newer one |
| Distributed IP checks (`ip_check_service.py`, `pingachock_*_service.py`) | none; batches at Pingachock | poll a batch, evaluate verdicts, first working IP | HTTP API | timeouts, partial answers | unknown is never read as failed |
| Node monitoring (`monitoring_service.py`, `handlers/monitoring.py`) | Redis alert and mute keys | poll panels, mute, disable | panel, Redis expiry | alert, recovery and mute racing | one alert per outage, one recovery per alert |
| Access control (`middlewares/role.py`, `organization_service.py`, `superadmin.py`, `org_select.py`) | users, members, current organisation (FSM data) | middleware, select, add / remove member | every handler | a role that changes under a running dialogue | a handler runs with the role of the organisation it acts on |
| Hosts wizard, automation / pool / Pingachock wizards | FSM state and data in Redis | steps, back buttons, apply | panel | back navigation that leaves stale data, stale buttons | a confirmation applies what was shown |
| Node deployment (`deploy.py`, `ssh_deploy_service.py`, `ansible_service.py`) | FSM data; server, panel and DNS | pipeline of remote steps | SSH, Ansible, panel, Cloudflare | one step of several failing | what is left after a failure is known |
| Domains and Cloudflare, panels, AWS accounts, IP sets | rows | create, read, update, delete | remote APIs | few | - |
| User interface, persistence | - | layout, wording, storage | - | - | - |

Not components of their own: Alembic migrations, the Ansible playbooks, the
Docker files and the design notes under `docs/`.


## 2. The modules

### LightsailTasks - the control plane of one region config

Who works on a config, and what becomes of the instance. Every action is what
the code does between two awaits: a short database session is one step, an AWS
call one step, and a handler that awaits between reading a row and writing it
is cut there.

| model | code |
|---|---|
| `status`, `instanceName` | columns of `lightsail_region_configs` |
| `instance`, `abandoned` | the instance `fcc-searcher-<id>`; calls still running in a thread after their task was cancelled |
| `activeTask` | `_active_tasks.get(config_id)` |
| `kind`, `pc`, `cancelling` | the tasks, where they are suspended, `task.cancel()` requested and not yet delivered |
| `starter`, `stopper` | invocations of `ls_start`, and of `ls_pause` / `ls_stop` with `stop_search` |
| `tick` | `_tick` between reading the configs and acting on one |
| `writes` (a field), `Writes` | SQLAlchemy writes a column only when the new value differs from the loaded copy |
| `reopened`, `excused`, `raced` | history: what a property needs to remember |

The search loop itself is left open here: it may end at any iteration, and an
exception may leave it at any await (`UnexpectedError`).

### LightsailSearch - the data plane of one region config

The addresses AWS holds, the rows that mirror them, and the one worker that
allocates, attaches, checks, rotates and releases. `at` is the await where the
worker is suspended, `todo` / `then` the inner loop it is in. The worker's
failures are part of its actions: allocation, detach, release, attach, listing
and check may each fail or answer either way. `plan` chooses what may happen
from outside: the buttons, a crash, a call that takes effect after its caller
is gone, a changed target, somebody releasing an address in the AWS console.
`LightsailTasks` shows when there is more than one worker; this module assumes
one, besides the stop handler, which really does run beside a worker.

Abstractions: the names of addresses are model values, a fresh name is one in
use nowhere; the order of rotation (`created_at`) is left open; the address and
its check results are one verdict per row (`untested`, `good`, `bad`, for
`is_working` None, True, False); sleeps are steps that may take any time.

### AvailabilityMonitor - checks and replacements of a group's hosts

All groups of an instance carry the same tag, so they work on the same hosts.

| model | code |
|---|---|
| `group`, `due` | `automation_groups`; `last_checked_at` older than the interval |
| `addr` | the address of every host with the tag, on the panel |
| `processing`, `cancel`, `cooling` | `_processing_groups`, `_cancel_flags`, the cooldown of failed addresses |
| `read`, `firing` | due groups the main loop has read; groups saved whose first check the wizard has yet to fire |
| `check[<<g, k>>]` | a task running `_process_group`: its await (`at`), the host list it fetched (`snap`), what it found (`bad`), the hosts and batches left, the address it picked |
| `buttons` | groups with a skip button in some chat |
| `aimed`, `hushed`, `spoiled` | history: which checks a skip was meant for, what else was at work on the hosts |

A check found by ping and TLS to be dead or lossy is one choice of a set of bad
addresses; a batch of candidates finds one address or none. An update of a host
may be done, be refused, or raise after the panel took it.

### PoolScore, PoolScorer - a managed pool

`PoolScore` is the formula, in tenths of a point; `PoolScorer` is the scorer's
loop, the full scan, the health check and the buttons over one pool.

| model | code |
|---|---|
| `exists`, `scanned`, `sources` | the row of `managed_pools`, `last_scanned_at` within the interval, the contents of its IP sets |
| `row`, `fresh` | `managed_ips`: absent, pending, approved, rejected; `last_checked_at` within the interval |
| `scoring`, `checking`, `rested` | membership of `_scoring_pools` and `_health_checking_pools`, `_health_check_times` |
| `loop`, `scan`, `health` | where the loop and the two tasks are suspended, and their local variables |
| `outdated`, `overlapped`, `cleared` | history |

`ManagedPool.enabled` is left out: nothing ever changes it. Every row is written
by a commit of its own, so a scan, a health check and a button interleave
between any two rows.

### Judgement, IpCheck - one distributed check

`Judgement` is the abstract specification: what every caller of a distributed
check (monitor, scorer, searcher, wizard) takes for granted. Addresses are
reached and refuted, and a verdict is "alive" only for a reached one, "dead" only
for a refuted or lost one, "unknown" otherwise; a call that returns has judged
all. `IpCheck` is the code, and implements it: `Promise!Spec` under the mapping
`reached <- Reached`, `refuted <- Refuted`, `call <- Call`.

| model | code |
|---|---|
| `op` | `distributed_ping_check` ("ping"), `tls_check_batch` ("tls"), `distributed_check` ("reach") |
| `shape` | how `create_check` answered: with a batch id, with one check per address, with neither |
| `at`, `pending`, `polls` | the loop of `poll_batch` or of `distributed_check`; time up to the deadline is counted in polls |
| `toFetch`, `lost` | the `gather` of `get_check(expand="runs")`, and its failures |
| `verdict` | the result dict: alive, dead, unknown for True, False, None |
| `status`, `run` | external: checks and runs at Pingachock, which move as they like |

`PingVerdict` and `TlsVerdict` differ as `_node_results` and `_tls_verdict` do:
a node that is still trying when the check has ended counts against an address
in a ping call and not at all in a TLS call.

### Chat, Deploy, Hosts, Dialogues - wizards that share a chat

aiogram keeps one FSM state and one dict per user; entering a wizard sets the
state and leaves the dict; updates are handled concurrently. `Chat` is that
shared part and the ways a handler can treat it, `Deploy` and `Hosts` are the
wizards of `deploy.py` and `hosts_fsm.py`, and `Dialogues` composes them.

| model | code |
|---|---|
| `fsm`, `data` | the FSM state, the FSM data (`Absent` for a key that is not there) |
| `runs[i]` | a handler suspended at a panel, a server, Cloudflare or Pingachock, with its local variables; `at` is the call |
| `talk` | number of dialogues entered; what is typed in a dialogue is represented by it, so a value tells where it comes from |
| `installed`, `certs` | what playbooks leave on servers: the secret key the node runs with, certificates |
| `dns`, `certPath`, `nodes` | A records at Cloudflare; the certificate path in a profile; nodes on the panel |
| `hostTag`, `shown`, `unlike` | tags of the hosts on the panel; the newest preview; history: what was written other than shown |
| `plan` | bounds of a behaviour: the wizards entered, how often the user acts while a handler is at work (`overlaps`), failing calls (`mishaps`), retagged hosts |
| `mixed`, `missing`, `borrowed`, `pipelines` | history |

A handler with no remote call is one step. The others are cut at each call,
which may succeed, be refused with the error the code catches (`Refused`, which
clears the chat), or raise something it does not catch (`Breaks`: state and data
stay); a call that breaks may have taken effect. What a handler does to the
chat when it ends it does to whatever dialogue the user is in by then.

Abstractions: the servers typed in different dialogues are different; a profile
has hysteria inbounds and is only their certificate path; a host has one tag;
the playbooks of one deployment are one step; reading a profile and writing it
back is one step; a playbook's outcomes are those its tasks may leave (for the
certificate: failing before, between and after stopping the node).

## 3. What the runs check

Properties are aimed at the hazards of `PROJECT.json`. Each property of a
passing run has a mutant, an operator marked "Fault" next to the definition it
corrupts, which the run must find.

* `tasks_safety` (2 tasks, 1 start handler, 1 stop handler, no restart): a
  registered task is alive and not cancelled; two tasks are at work only after
  a start in the window between `stop_search` emptying the registry and the
  cancelled task having unwound; "paused" and "monitoring" never name an
  instance, although four handlers write the two columns from copies that may be
  stale; a stop that nothing disturbs leaves no live task, no named instance and
  a resting status; an instance nobody accounts for has one of the causes listed
  in `excused`.
* `tasks_live` (1 task, 1 restart): a config in "searching" gets a search again.
* `search_safety` (3 names, 2 slots, 2 attempts): `NoSilentLeak`,
  `RecheckKeepsGround`, `WorkingReleasedOnlyWhenReplaced` and
  `SearchLeavesWorkingRows`, against the buttons and a changing target, and
  against crashes, late calls and releases by hand (two plans, of which a
  behaviour follows one).
* `search_live` (3 names, crashes and pauses): `OneRowAttached`; a recheck ends,
  and a search whose config left "searching" ends.
* `avail_change`, on two plans. One "same" group on IP
  sets, 2 hosts, 3 addresses, 2 batches, all events, 1 restart: a replacement
  reaches every host unless an update failed or somebody else was at work, is
  never an address in cooldown, and a skip before the search has ended prevents
  it. One "each" group on a managed pool, 3 hosts, 4 addresses: distinct hosts
  stay distinct and only bad ones are moved, whatever is refused.
* `avail_loop` (room for 2 checks of one group): a second check of a group exists
  only when both were created before either ran, which takes the wizard and the
  main loop in one turn of the event loop; otherwise `_processing_groups` is
  right. A due group is checked, a group in work is released.
* `pool_scans` (2 addresses, batches of one): scans and health checks do not pile
  up; a scan that has ended leaves exactly the addresses of the sets, each judged
  or skipped; an approval is lost only for a cause; a health check approves
  nothing unless a scan overlapped it; a cleared pool stays due unless a scan was
  at work; the pool is in the two sets exactly while a task is at work on it.
* `ip_check` (2 addresses, 2 nodes of which one is excluded, 2 polls): the three
  kinds of calls implement `Judgement`, and end.
* `dialogues` (1 panel, 1 profile, 2 domains, 2 handlers at work; the plans of
  `MCDialogues`): `StableRegistersInstalled`, `HysteriaNodeServed`,
  `CredentialsStay`, `MissingOnlyIfMixed` and `HostsGetWhatWasShown`, in the
  deployment wizards with two overlaps and a failing call, and in the hosts
  wizard alone, twice, retagged, and before a deployment.

Three runs expect a violation; each is a finding, with the line it contradicts:

* `tasks_flight`: a search that starts in the window above is removed from the
  registry by the `finally` of the old task, and a further search starts beside it.
* `avail_stale`: a skip pressed after the search has ended stays set, and cancels
  the replacement of the next check.
* `pool_clear`: a pool cleared during a scan is marked as scanned by that scan
  when it ends, and stays empty for a whole interval.

The qualified properties describe further behaviour that a reader of the code
should know of. `excused` in `LightsailTasks` has what leaves an instance
running, among it a stop during instance creation or during a recheck, when the
config does not name the instance. `spoiled` in `AvailabilityMonitor` has what
leaves a "same" group on two addresses or gives two hosts of an "each" group the
same one: a refused update, and one that fails after it took effect.
`overlapped` in `PoolScorer` is a health check that works from a list read
before a scan: it may approve again what that scan has rejected. Empty source
sets end a scan before stale rows are removed (`LoadPool` goes to "mark"), so
approved rows of sets that were emptied stay in use.

In the dialogues: the sudo password of an abandoned deployment stays in the FSM
data, and a login as root never asks for another, so it is sent to the next
server ("leftover" in `CredentialsStay`). A handler that ends clears or replaces
what another dialogue has typed, and the other one then raises `KeyError`
(`overlaps` in `MissingOnlyIfMixed`); so does the back button of an old hosts
message, which sets a state of the hosts wizard whatever the dialogue
("stray"). A profile has one certificate path and a domain one first A record:
a second pipeline takes them away from the first node (`OtherPipelines` in
`HysteriaNodeServed`). Hosts are listed again between preview and confirmation,
so a tag changed meanwhile is applied unseen ("retagged" in
`HostsGetWhatWasShown`). In `IpCheck`: an answer that could not be fetched is
read as dead (`lost`); `distributed_check` calls an address dead when one of its
two checks failed and the other never ended; and it does not exclude the node on
Pingachock's own server, as the other two kinds do.

Bounds. Two tasks are enough for one to unwind while another starts, which is
what every race over the registry takes; one restart, because a restart leaves
only the database and AWS, which the next one would find in no other state. Two
slots with three names make a full table, a rotation and a candidate beside it;
the code's limits of five slots and ten attempts change how often a loop turns,
not what it does. A quota of two makes AWS refuse before or as the table is
full; a quota of three makes `MAX_STATIC_IPS` the limit that bites. At most one
abandoned AWS call is outstanding at a time in `LightsailSearch` (in
`LightsailTasks` one of each kind). Two hosts can differ, three leave one for
the table to be wrong about; one address more than hosts is one replacement, and
in cooldown it leaves none. Two pool addresses in batches of one make a batch
that is written while another is yet to be pinged, and a row that a scan and a
health check both write. Two addresses and two nodes give a check whose polling ends one at a
time and a verdict that hangs on the excluded node; one poll beyond
`StuckPolls` gives up an undispatched check. Two dialogues suffice for one to
find what another left, two overlaps for a handler of an older dialogue to end
in the middle of a newer one; two domains and one profile make two pipelines
collide on the profile, on the domain, or on both; three hosts with two tags and
sets of one and two addresses give each of zip's three cases. The plans bound
each behaviour, because the wizards' product is far larger than any hazard
needs. Handlers at work are interchangeable and so are domains: symmetry is
used on them, in a run without temporal properties.

Fairness. Weak fairness of each task, of each handler that has begun and of the
background loops: the event loop runs what is ready, every AWS and HTTP call
returns or times out, and the loops catch what a turn raises and go on. Nothing
is assumed of people, of AWS (the instance may never run) or of crashes.
`SearchCompletes` and `UnexpectedError` are not in the fair steps: a search may
look for ever. `IpCheck` has weak fairness of the call alone: requests time out
and sleeps end, and Pingachock may stay silent for ever. `PoolScorer` and
`Dialogues` state no fairness: everything they promise is safety, and time, which
decides when a pool is due, and the user's patience are left open. Deadlock is
not checked where the system may really stop: a call that has ended, a user who
has no further plan.

## 4. What is proved

TLAPS proves, for every value of the constants:

* `LightsailTasks_proofs`: `TypeCorrect`, `RegistryCorrect`, `OneTaskAtWork`,
  `StopQuiesces`, `RestingConfig` and `OrphanHasCause`. The first five come from
  one inductive invariant `IInv`. The
  properties are not inductive alone: `IInv` adds that a task being cancelled is
  alive, that unless the window was used every task being cancelled is awaited
  by a stop handler and every live task is registered or being cancelled, and
  what an undisturbed stop has achieved at each of its suspension points.
  `OrphanHasCause` (`UnownedInstanceHasCause`) adds `Owned`: with nothing to
  excuse an orphan at most one task is alive, a stop handler lets no task work on
  and deletes before it forgets, the config names an instance exactly while
  somebody is there who will delete it, and an instance the config does not name
  yet is in the hands of the task that created it.
* `LightsailSearch_proofs`: `NothingLeaksSilently` (`NoSilentLeak`). `LeakInv`
  adds that the row about to be deleted is excused, that the listing being
  compared misses only excused addresses, that the comparison deletes only
  excused rows, and that one inner loop does not return into another.
* `LightsailSearchRows_proofs`: `SearchTypes`, `SearchCleansUp`,
  `RecheckLosesNothing`, `WorkingStaysHeld` and `OneRowFlagged`. `Control` says
  which loop may continue where and whose names are in hand, and that an attempt
  at a replacement that is not yet counted leaves one to count
  (`tries < MaxAttempts`): without it the counter's type is not inductive.
  `Shape` says that what a loop or a stop handler releases does not work, but for
  an address already replaced, and that the sweep at the end has all it must drop
  in its list; `Count` compares
  the working rows with those the recheck found at every point of the
  replacement (one more than it found from the moment the new row is in the table
  to the moment the failed one is forgotten), and `Flags`, with an invariant of
  what AWS has attached, says which row may be flagged. `OneRowFlagged` is
  proved as `Prompt => OneRowAttached`: an attachment that takes effect at AWS
  after its worker was cancelled can be picked up by the next reconciliation as a
  second flag, and `Prompt` says that no plan allows such late calls; the run
  that checks `OneRowAttached` has none either.
* `AvailabilityMonitor_proofs`: `MonitorTypes`, `InFlightIsListed`,
  `ReplacementNotCooling`, `SkipHonoured`, `ReplacementReaches`,
  `HostsStayDistinct` and `OnlyBadAreMoved`. `StepOutcome` is the lemma the rest
  hangs on: whatever a step of a check does, it leaves the check listed or
  finished, heeds its skip, looks at what it cools and writes one host at a time,
  and only in `apply` and `update` (`Outcome`); every other step starts a check, ends them all, or is an
  `Aside`. On it rest `Typed`, `OneCheck` (one live check of a group, and listed,
  unless it was created twice), `KnowsWhatCools` (a check knows every cooldown of
  its group), `Hushed` (a skip that came before the search ended is
  still to be read, or has taken the replacement away), `Alone` (one live check at
  all, unless two were at work at once),
  `Reaching` (the hosts already passed have the replacement), `TableTrue` (the
  table of addresses a check works from is the panel's, but for updates that
  failed and took effect) and `KnowsTheRest` (of the hosts still to come, the
  table is exact).
* `PoolScorer_proofs`: the score (`ScoreInRange`, `ScoreFallsWithLoss`,
  `NoTlsNoPass`, `LossyDoesNotPass`) for every measurement and threshold, and
  from the inductive invariant `IInv` the theorems `TypesHold`, `BusyHolds`,
  `ScansSettle`, `OneTaskEach`, `HealthChecksRevoke`, `ClearedIsRebuilt` and
  `NoApprovalIsLost`.
  `IInv` adds that the loop waits for the first step of a task it created; that
  a fresh row is a judged one; that while an undisturbed scan works, every row
  not yet judged is ahead of it, about to be written or skipped (`ScanCovers`);
  and that an undisturbed health check holds only rows that are approved or gone
  (`HealthCovers`). `ClearedIsRebuilt` needs one thing more: an undisturbed scan
  of a cleared pool has yet to rebuild it.
* `IpCheck_proofs`: `CallsAreTyped`, and `ChecksKeepTheirPromise`, that
  `IpCheck` implements `Judgement`: every step of a call is a `Judge` step and
  every step of Pingachock an `Evidence` step, or a stutter. It takes
  the invariant `Progress`: outside "reach" calls an address is without a verdict
  exactly until its result is fetched, and only a call that returns says
  "unknown" in a "reach" call.
* `Dialogues_proofs`: `NodesAreServed` (`HysteriaNodeServed`), for any number of
  overlapping handlers, any plans and any constants. `ServedInv` ties each point
  of a pipeline to what the points before it made: a record that was found is
  there when it is updated, past the record the domain leads to the server or
  another pipeline took it over, past the certificate it exists, past the profile
  its path is the domain's or another pipeline's. Every step of another pipeline
  `Improves` these facts (takes over, never undoes), and every step of a dialogue
  is `Aside`: it touches no pipeline (lemma `Bystander`), whatever it does to the
  FSM data.

* `DialoguesChat_proofs`: `TypesKept` and `StableRegisters`, whatever overlaps,
  and for one handler at a time `CredentialsKept`, `MissingForCause` and
  `HostsAsShown`, for any plans, constants and number of handlers at work.
  + `Typed` holds without conditions. Beside the types it says what a deployment
    dialogue has been told where it stands (`Told`: the panel, the addresses with
    the number of the dialogue, the login, how it authenticates) and that without
    an abandoned wizard the passwords in the data are this dialogue's (`Fresh`).
    This survives handlers that end late, because they replace the data only
    together with the state.
  + `Claims` ties a server to the one dialogue it was typed in and the one panel
    chosen there: the data, the installations and registrations at work and the
    nodes on the panel claim it for the same panel, and what is registered or may
    be registered next (`Sure`) is installed. Only the deployment that claims a
    server changes what runs on it, and a dialogue that has no address yet has no
    claims. Most steps are `Bystanding`: they claim nothing new.
  + `Whole` speaks of behaviours in which the user never acts while a handler of
    hers is at work. `InOrder`: at most one handler is at work, a hysteria
    dialogue keeps what it was told until its pipeline starts, and a run borrows
    only what `Excused` allows. `HostsGood`: unless an old hosts message was
    answered from another wizard ("stray") the data has all that the step reads
    and all that the steps before it read (`Needs`), so going back finds it too;
    and unless a tag changed ("retagged"), the preview on the screen, the choice
    in the data, the promise of a handler that applies and the pairs it writes
    are the same set of pairs (`Shown`). The conditions are those of the
    properties; TLC finds counterexamples without them.

The only assumptions are the named ASSUMEs on the constants. Those of `Chat`,
`Deploy` and `Hosts` say that `Absent`, the mark of a key that is not in the FSM
data, is no value a dialogue stores (no panel, profile, server, number, tag,
address, nor a set or sequence of these), that the addresses a plan can type are
among `Servers`, and that a host has a tag at first.

Only model-checked are the liveness properties (`SearchingIsResumed`,
`RecheckEnds`, `PausedSearchEnds`, `DueIsChecked`, `CheckEnds`, `CallEnds`:
fairness and ENABLED are beyond TLAPS). The properties that are
expected to be violated are TLC's counterexamples. What a loop over data computes
(the batches of `_find_good_ips`, for one) is given by its result in the models,
and that the loop computes it is not proved.

## 5. Plan

Order of work, the most important behaviour first:

1. Done: `LightsailTasks`, `LightsailSearch`, `AvailabilityMonitor`, `PoolScore`
   and `PoolScorer`; `Judgement` and `IpCheck` with the refinement; `Chat`,
   `Deploy`, `Hosts` and their composition `Dialogues`; the proofs listed above.
2. Done: every safety and action property that a passing run checks is proved.
   Open: a bound on the rows flagged as attached when AWS calls take effect late.
3. An abstract ledger of addresses (held, recorded, lost) that `LightsailSearch`
   implements, with the refinement checked and then proved.
4. The pool as the thing `PoolScorer` and `AvailabilityMonitor` share: an
   abstract supplier of approved addresses that the first implements and the
   second uses; the button that applies a pool to its groups at once.
5. `NodeAlerts` (Redis keys), `Access` (role and organisation).
6. The wizards of domains, automation, pools and settings as further modules of
   `Dialogues`: they use the same `Chat`, and share some of its keys.

### Not modelled

* Node monitoring and access control: planned (5), nothing prevents it.
* Domains, Cloudflare, panels, AWS accounts, IP sets, the nodes menu: single
  remote calls or single rows, one handler at a time; their wizards are planned
  (6), what is left has no state two steps could disagree about.
* Layout, wording, keyboards, migrations, plain storage, configuration: no
  behaviour of the kind these models speak of.
* The Ansible playbooks: external; their outcomes are part of the steps that run
  them. `ssh_deploy_service` beyond the parsing of keys has no caller.

