# A TLA+ model of minidns

minidns is a command-line program that manages an unbound resolver on a home
network. It has no daemon of its own. Every command is a process that reads
`config.yaml`, changes files, and gets unbound to load them; systemd timers run
some of those commands, and logrotate and unbound work on the same files at the
same time. Whatever is hard in it is in how these processes meet on disk: what
is on disk when one of them stops half-way, what the daemon has loaded compared
with what is on disk, and who has read what.

This directory holds TLA+ modules for those parts, the TLC configurations that
check them, and machine-checked proofs about them. `PROJECT.json` says for every
definition which lines of the source it models.

## 1. Inventory

| Component | State | Operations | Meets the others through |
|---|---|---|---|
| Activation (`setup.go`, `forwarder.go`, `localzone.go`, `zone.go`, `net.go`) | `config.yaml`, `minidns.conf`, zone files | `cmdApplyQuiet`, `cmdApply`, `WriteConf`, `changeConfig`, `createZone`, zone remove, cloud zone add, remove and sync, `upstream set`, `install` | the files, unbound's control channel, the state lock |
| Configuration (`internal/config`, `internal/unbound/render.go`) | the parsed `config.yaml` | `Load`, `Validate`, `Save`, `Render` | called by every command |
| unbound control (`internal/unbound/control.go`) | none of its own; the daemon's | `Control`, `Reload`, `Restart`, `ReloadZone`, `WaitReady`, `Active`, `CheckConf` | unbound-control, systemctl |
| Ingestion (`internal/ingest`, `internal/qlog`) | the cursor, and during a run the batch and the pending RPZ lines | `Run`, `file`, `line`, `flush` | the query log (unbound, logrotate), the database, `.ingest.lock` |
| Statistics store (`internal/store`) | SQLite: events, rollups, names, clients, cursor | `AddBatch`, `Prune`, `PurgeAll` | ingestion, reports, `query-log purge` |
| Devices (`internal/store/devices.go`) | devices and the intervals in which they held addresses | add, assign, release, rename, remove | reports join on it |
| Zone files (`internal/zones`) | records and serial of a zone, and its previous file | `Create`, `Add`, `Remove`, `Save`, `Undo`, `Merge` | `record`, `host`, overlay commands |
| Overlays (`overlay.go`) | upstream file, overlay file, served file, a flag in `config.yaml` | enable, disable, sync of an overlaid replica | zones, `changeConfig` |
| Filtering (`filter.go`, `firewall.go`, `internal/adblock`, `internal/rpz`) | RPZ files, `.prev` copies, list state | block, allow, blocklist add, remove, update | `changeConfig`, `ReloadZone` |
| Backup (`backup.go`) | archives | create, prune, restore | every file above |

What makes each of them correct, and is hard to see from a test:

* **Activation.** unbound exits when it reloads and finds a referenced zone file
  missing, so files and references have to change in the right order; a change
  unbound refuses must come out of both files again; options read only at
  start-up need a restart; the daemon can exit, be started or answer late at any
  step; the command itself can be killed.
* **Ingestion.** Every reply has to be counted exactly once, with the policy of
  the RPZ line that explains it, although runs stop anywhere, the log is copied
  and truncated under them, and an RPZ line may never get its reply.
* **Store.** A count is in exactly one of hourly and daily rows, folding keeps
  the totals, and a purge beside an ingest leaves no count without a name.
* **Devices.** An address belongs to one device at any time.
* **Zones.** A host lives in several zone files that are saved, loaded and
  verified one after the other: they have to agree afterwards, also when one of
  them fails; serials have to go up, or the check that unbound serves what was
  written proves nothing; a CNAME has to stay alone at its name.
* **Overlays.** The served file is merged from two others, which change for
  different reasons; local records must survive whatever the provider does.
* **Filtering.** `block explain` reads files and unbound answers from memory: the
  two must agree; a refresh unbound refuses must be taken back; lists must get
  up to date in the end.
* **Backup.** A restore must be complete or go back, and retention must not
  delete what it would go back to.

The hazards are listed one by one, at their lines, under `hazards` in
`PROJECT.json`, with the properties that watch them or the reason why none
does.

## 2. Modules

| Module | Models |
|---|---|
| `Config` | `config.yaml` (local zones, replicas, forwarded zones, and one value for all other settings), `Validate`, `Render`, `startupOptions` |
| `Unbound` | the daemon as `control.go` drives it (external), `Active`, `Reload`, `Restart` |
| `Activation` | the commands that change `config.yaml` and their common core `cmdApplyQuiet`, step by step |
| `ConfigTransaction` | what `SPEC.md` section 16 asks of a command: the abstract specification Activation implements |
| `Ingest` | `internal/ingest` with unbound and logrotate |
| `StatsStore` | the tables of `internal/store/events.go`: `AddBatch`, `Prune`, `PurgeAll`, and what reports see of them |
| `QueryCounts` | what those tables promise: the abstract specification StatsStore implements |
| `Devices` | `internal/store/devices.go` and the commands of `device.go`, statement by statement |
| `ZoneRecords` | the records of a zone as sets: `Add`, `Remove`, `nextSerial`, `Validate`, `Merge` (operators only) |
| `Zones` | local zones and the commands `record` and `host`, save by save and reload by reload |
| `Replica` | a replicated zone, its overlay, and every command that touches either |
| `Filter` | manual rules, block lists and their refresh, unbound's answers and `block explain` |
| `Backup` | archives, retention, restore and its way back |
| `ActivationProofs`, `IngestProofs`, `StatsProofs`, `DevicesProofs`, `ZoneProofs`, `ReplicaProofs`, `FilterProofs`, `BackupProofs` | theorems about the module they are named after (`ZoneProofs`: `Zones` and `ZoneRecords`) |
| `MCActivation`, `MCIngest`, `MCStats`, `MCDevices`, `MCZones`, `MCReplica`, `MCFilter`, `MCBackup` | constants for TLC |

`Zones` and `Replica` extend `ZoneRecords`. `Replica`, `Filter` and `Backup` use
of Activation what `ConfigTransaction` says of it, that a change of
`config.yaml` comes wholly or not at all, and take it in one step; `Zones` takes
`zone add` in one step, which Activation takes apart. Each of these modules has
its own small unbound, which is running or not and has loaded certain files:
that is all they ask of it, and its reloads, slow starts and exits are studied
in Activation. In all of them one command runs at a time (the state lock), a
failure of any step that can fail is `Fault`, of which `MaxFaults` are allowed,
and `Kill` stops the command between any two steps.

### Activation

`pc` names the step the running command is at; `cmd`, `zone` and `goal` say what
the command is, and `phase` tells its attempt from its undo. One action is one
change of a file, one request to the daemon, or one look at it, so that the
daemon (`Daemon`), others (`Upset`, `EditConfig`) and a kill (`Crash`) can come
between any two.

* `WriteConf` is `TruncateConf`, `FillConf`, `CheckInstalled` and, if checkconf
  refuses the file, `RefillConf`: the code writes in place, so the truncated file
  is a state of its own.
* `cmdApplyQuiet` goes on with `Activate` (nothing, restart or reload),
  `WaitActivated`, and the way back `RestoreConf`, `ReloadBack`, `WaitBack`.
* `changeConfig` begins in `Change`, `CloudAdd` or `CloudRemove`, saves in
  `SaveConfig` and comes back through `RollBack`, `RollBackFill` and a second
  activation. `createZone` is `ZoneAdd`, `SaveConfig`, `VerifyServed` and
  `UndoSave`. `upstream set`, `apply`, `install` and zone sync have their own
  beginnings and ends.
* The settings that are not zones are one value of `Options`. What matters about
  it is a constant: whether checkconf refuses it (`Rejected`), whether the daemon
  fails to load it all the same (`Unstartable`), and what part of it unbound
  reads only at start-up (`Startup`).

Assumptions about unbound, which is not in the repository: a reload is queued and
the files are read later; `unbound-control status` gets no answer from then until
the daemon serves again; a missing referenced file or a setting it cannot load
makes it exit; systemd is there and calls a unit active while it reloads but not
while it starts. `WaitReady` returning an error is `Gone` (the daemon is down) or
`TimedOut` (it would have come back), and only the second is a fault that is
bounded. `install`'s `enable --now` and restart are one restart.

Left out: I/O errors of the atomic renames, `--dry-run` (changes nothing), the
rewriting of a v0.1 configuration (keeps its meaning), and a lock that cannot be
taken. One command at a time is therefore an assumption here.

### Ingest

A log line is its number among all lines logged, a file a sequence of them, and
an offset counts lines. unbound writes RPZ lines and replies of `Keys`, with
lines of other queries in between; `Tick` passes more time than the pairing
window. `CopyLog` and `TruncateLog` are logrotate's copytruncate. A run is
`Begin` (stat), `Decide` (the first line and the switch on the cursor), `Open`,
`ReadLine` for every line and `EndOfFile`; `Store` is `AddBatch` with the cursor.
`counted` says how often each line was stored and `labelled` which were stored
with a policy: together they are what every report is made from.

Three history variables state what the ingester relies on and cannot see:
`orderly` (logrotate does not work while a run does, and a run ends between two
rotations), `named` (no rotation meets a cursor that was saved while the log was
empty) and `unread`. With the settings in `packaging/` (a run every five minutes,
one rotation a day) `orderly` is what one expects, and the code does nothing to
enforce it.

Left out: lines that are neither RPZ nor reply, incomplete lines, gzip, a renamed
log (packaging uses copytruncate, so the inode never changes), two overlapping
queries with the same key, and database errors. A second run that finds the lock
taken changes nothing and is no step.

### StatsStore

`dict` holds the tables `names` and `clients` as functions from ids to values;
`events` and `rollups` are bags of rows that refer to them, the count of a rollup
being its multiplicity. Ids are given as SQLite gives them, the largest in use
plus one, so that one that was dropped comes back. `AddBatch` and `Prune` are
transactions and one step each; `PurgeAll` is not, so its four statements are
steps and a kill (`PurgeCrash`) can come between them. A batch has one query,
since the transaction makes no difference between one and more; it may be late by
any of `Lateness`. `SetRetention` changes what the next clean-up keeps. The
ingester prunes once a day (`data.go`), `purge --expired` at any time, and so
`Prune` is always possible.

`Listed` and `Counted` are what a report reads: rows joined with the dictionaries,
without those whose id is in neither. `QueryCounts` speaks only of them. It says
that a query counts once on its day, that nothing of a day goes before it starts
to be older than the daily retention and nothing stays later than the clean-up
after it has ended before it, that a day goes as a whole where days are kept for
longer than hours, and that queries are listed as long as they are recent. Where
hours are kept as long as days, which `query-log retention` accepts
(`querylog.go:225`), a day goes in parts: a late query's hour is not folded yet
when the row of its day is too old already.

`mixed` is history: an ingester has committed between two statements of a purge,
which nothing keeps it from (`querylog.go:319` runs both without the state lock).

The columns that refer to nothing are left out, and so are migrations, `Snapshot`
and the filters and rankings of reports.

### Devices

A command of a process is a sequence of SQL statements, each a step, with what it
has read in `cmd`. `AddAddress` is `Find` (or `Begin`), `AskHolder`, `AskSince`
and `Insert`; `device add` runs it for each of its addresses after `Create`, and
on a failure removes its device again by name (`Undo`, `Delete`). `Kill` stops a
command anywhere. `At` is the join of `DeviceAt`, `TopDevices` and `Events`.
`raced` is history: the addresses a process inserted while another one had
already found them free.

### ZoneRecords and Zones

A zone is a serial and a set of records. The SOA is a record without its serial,
and TTL and tag are `meta`. An address has one name, that of its PTR record
(`PTRName`). `AddRefused` and `RemoveRefused` are the refusals of `Add` and
`Remove`, `Added` and `Removed` what they do otherwise.

A command computes all its zones in memory in one step (`Begin`: it is alone, so
nothing it reads can change) and then goes through them in alphabetical order,
as `zoneSet.commit` does: `Save` (or `SaveFails`), `Reload`, `Verify` (or
`VerifyFails`), `Undo`, and `TakeBack` for the zones committed before. `record`
commits one zone. `HostAdd` touches every zone it has looked at, since
`touched[x] = touched[x] || added` makes an entry in the map even if nothing was
added. `host rename` keeps the addresses with their TTLs and tags, and drops the
old PTRs in all reverse zones while it adds the new ones in the best.
`DaemonStops`, `DaemonStarts` and, between commands, `ClockSet` can happen any
time.

Histories: `before` and `synced` are the files and whether unbound served them
when the command began, `acked` the zone versions reported as successful, and
`torn` the host command that was killed and has not been repeated.

### Replica

One zone. A file is its serial and its records, told apart if it was merged,
because a merged file never reads like the provider's. `Sync` is `cloud zone
sync` by hand or by the timer; `CloudZoneAdd`, `CloudZoneRemove`,
`OverlayEnable`, `OverlayDisable` and `OverlayRecord` begin the other commands,
and the steps they share are actions of their own, named for the write they do.
`MergeFiles` is `rebuildReplica` with what its three callers do with a failure.
`Versions` are what the provider has, one after the other.

### Filter

A rule file is the set of owner names in it, each with or without `*.` in front.
`Rendered` is `rpz.Write` with its companions, `Entered` is `ReadDomains` and
drops them again, `Covers` is `Contains`. `Explained` is the verdict of `block
explain` from `config.yaml` and the files, `Answered` the same from what unbound
has loaded. An update is `Fetch` for each list, `KeepPrev`, `Wire` (`cmdApply`),
`Activate`, and on a failure `Restore` and `ReloadBack`. Lists are taken in any
order, where the code takes them in that of `config.yaml`. A command adds or
removes one rule, where the code takes several at a time.

### Backup

A file has a content or is `Gone`. Archives are named after a second, the copy a
restore makes sorting before a backup of the same second. `Create` is complete
or does not happen (it writes aside and renames), `Prune` is a step of its own,
`Write` writes file after file and can fail at each. `Edit` stands for any other
command.

`conf` is `minidns.conf`, which comes from `config.yaml` and says which of the
other files there are (`Rendered`); `served` is what unbound has loaded: the
configuration of the fragment it has read, with the files that names, as they
were when it read them (`Loaded`). `cmdApplyQuiet` is `Apply`, and it asks unbound for a reload only if the
fragment has changed (`Activated`); if it fails, the fragment of before is back,
and unbound was not asked, has read that one with the files there are by then,
or has not come back (`Refused`). The `Reload` after it is a step of its own.
`restoreCmd` has two ways back, and `way` says which one a restore is on: both
read and write the safety copy and call `cmdApplyQuiet` again (`ReadBack`,
`WriteBack`, `ApplyBack`), and the one that a failed `Reload` leads to ends with
another (`ReloadBack`, `backup.go:316`), the one after a failed `cmdApplyQuiet`
does not (`backup.go:308`).

## 3. Runs

| Run | Instance | Shows |
|---|---|---|
| `MCActivation` | one zone, four settings (plain, with a start-up option, refused by checkconf, accepted but not loadable), one unasked-for event of the daemon, fairness | with nobody interfering: referenced files exist, the daemon serves the file on disk, a refused candidate does not take it down; always: `config.yaml` loads, the commands implement `ConfigTransaction`, and every command ends |
| `MCActivationFaults` | three settings, one kill and one event | `FailureRestores`, `SuccessInstalls` |
| `MCIngest` | two keys, four lines, window 1, batches of 2, one pause, two rotations, one kill | counted once, nothing lost, policies kept |
| `MCIngestLive` | two keys, three lines, one pause, one kill, fairness | replies are counted in the end |
| `MCStats` | two names, three queries, hours of two ticks and days of four, three retentions that change, queries up to six ticks late, one killed purge | rows resolve, no name outlives its rows, days are not split, and the tables implement `QueryCounts`, until an ingest meets a purge |
| `MCDevices` | two processes, two names, one address, three rows, two ticks, kills | one holder at any time, and the past keeps its holder |
| `MCZones` | a forward zone with two hosts, two nested reverse zones, one address, an alias to add or remove, serials of two days, two commands, two failures, one kill | aliases alone, failures undone, written is served, forward and reverse agree, serials move on |
| `MCReplica` | two provider versions, two local records that hide one of them, five commands, two failures, two kills, fairness | success merges, failure restores, local records survive, files converge |
| `MCFilter` | three names, one below another, a manual block and its exception, two lists of which one is not downloaded yet, two commands besides any number of updates, two failures, one kill, fairness | explain and unbound agree, a refused refresh is taken back, lists converge |
| `MCBackup` | `config.yaml` and a zone file, two contents, two archives kept, three seconds, four commands, one failure, one kill | a restore is whole or its files are put back, unbound has what was restored, or what was put back after a failed `Reload`, and there is an archive to go back to |
| `ViolationCountedTwice` | rotation and kill | a rotated copy is stored without a cursor and stored again |
| `ViolationStaleAfterRestore` | one failure, no kill | after a restore that `cmdApplyQuiet` refused, the files of before are back and unbound answers from the restored ones |

**Bounds.** One zone is enough for Activation because a command is about one
zone, and what two zones share is the fragment, which every command replaces as a
whole; the proofs do not depend on it. The four settings are all combinations the
code tells apart. `MaxUpsets` counts events no command asked for, `MaxCrashes`
kills; the number of commands is not bounded. In Ingest four lines hold two
filtered queries with their replies in every order; two rotations give a copy
`.1` and a copy `.2`; batches of two are filled in the middle of a file.
`CONSTRAINT Orderly` cuts off what follows a disorderly rotation, of which the
properties say nothing.

In Stats the longest retention is three days of ticks and the clock
goes past the shorter one, so that hours are folded and days expire; one of the
three keeps hours as long as days, so that a day also goes in parts; three queries are
enough for two to fold into a row that exists and one to take over an id. In Devices three
rows hold a first holder, a second one and the first again; two ticks are the two
ends of periods that takes. One address is enough since no statement looks at
two. `CONSTRAINT Unraced` cuts off what follows a race for it, and, in Stats,
`CONSTRAINT Unmixed` what follows an ingest that met a purge: the properties say
nothing of either.

In Zones three zones are what a host command can touch that tells orders apart:
the reverse zones sort before the forward one, the wider one exists from the
start and the narrower one can be added, so that the best reverse zone of an
address changes. Of two commands one can leave something behind and the other
meet it; of two failures one starts an undo and the other hits it. In Replica
and Filter a second version of the data, a record hidden by it and a list that
shrinks are the cases the code distinguishes; the timers' commands are not
counted. In Backup retention needs one archive more than are kept: two backups
and the copy of a restore make them, and a fourth command changes a file or adds
or removes one in between. Of one failure each way back is one; both ways need unbound to
be up, down or with other files at any step, which is why it stops and starts
as it likes. `ShrinkMin` is 4 for the code's 1000, `Keep` 2 for its 10,
`SerialSpace` 100 for 2^32. `MCReplica` and `MCFilter` stop when their commands
are used up and there is nothing to sync or update, and so do not check for
deadlock.

**Fairness.** `MCActivation` assumes, for `CommandEnds`, that a command that is not killed goes on
and that unbound works off what it was asked to do. Nobody has to start a
command. `MCIngestLive` assumes that runs are started (the timer) and go on; that
unbound ever logs again is not assumed, which is why the property asks for a
later reply. `MCReplica` and `MCFilter` assume that a running command goes on and
that the timers of `packaging/` keep starting `cloud zone sync` and `blocklist
update`. Nobody has to start unbound, and the properties ask nothing of a daemon
that is down.

**Conditions.** Some properties start with `NoFaults`, `crashes = 0`, `orderly`,
`named`, `~mixed`, `synced`, `inOrder`, `killed = 0`, `faults <= 1` or `OneFault`. Each is
there because the property is false without it, and says where the code has no
defence. Beside the two findings, TLC shows, with the condition dropped:

* a kill between WriteConf and the reload leaves a daemon that no later `apply`
  brings up to date: it compares the rendering with the file and not with what
  is loaded, and says "nothing for the daemon to pick up" (`setup.go:236`,
  `setup.go:349`);
* createZone's undo ignores the result of its activation and removes the zone
  file; if the daemon fails a second time, `minidns.conf` still names it
  (`localzone.go:132`, against `zones.go:127`);
* after a refused change of a start-up option the previous file is loaded with a
  reload, which keeps the refused option (`setup.go:248`);
* a run that stops before an RPZ line between another RPZ line and its reply
  stores that reply without its policy in the next run (`ingest.go:175`);
* a kill inside `WriteConf` leaves an empty or a rejected `minidns.conf` in place
  (`control.go:121`);
* a kill inside `createZone` can leave a `config.yaml` that no command loads,
  when the new zone is also forwarded (`localzone.go:134`);
* `upstream set` and zone remove fail without taking back `config.yaml`
  (`net.go:56`, `localzone.go:247`), which is why `ConfigTransaction` has a step
  `StoreKept` for them and one, `ZoneLeftBehind`, for createZone;
* a command that runs while unbound is starting reports success without a reload
  (`setup.go:236`);
* a cursor saved without a first line does not notice a rotation
  (`ingest.go:93`), a rotation between an RPZ line and its reply loses the
  policy (`ingest.go:188`), and an RPZ line without a reply holds back what is
  behind it until another reply is logged (`ingest.go:211`);
* an ingest between two statements of `purge --all` leaves a row whose name is
  gone, and the next query takes over its id (`events.go:174`): `mixed`;
* where hourly counts are kept as long as daily ones a day is dropped in parts
  (`events.go:151` rounds to a day, `events.go:161` does not), and so
  `QueryCounts` asks for whole days only where they are kept longer;
* NoOrphans needs a retention of events shorter by a day than that of daily
  counts, which nothing enforces: otherwise a name can outlive its last event
  until the next daily count is deleted (`events.go:164`);
* two `device address add` at a time give an address two holders, and every
  query from it counts twice in `top-devices` (`devices.go:124`).

For Zones:

* `record add` repeated after a kill between save and reload finds the record
  present and does not reload (`localzone.go:385`): `synced`. A verification
  that times out followed by a refused reload leaves unbound with a change
  reported as undone: `faults <= 1`;
* a killed host command that is not repeated leaves forward and reverse zones
  apart: `torn`. That repeating it is always accepted rests on the order of the
  names: the labels of reverse zones are digits, or `a` to `f`, and mostly sort
  before forward zones. With a forward zone that sorts first, a killed `host
  remove` cannot be repeated, because the addresses it is found by are gone
  (`localzone.go:849`);
* a narrower reverse zone added later hides the PTRs of the wider one, which
  `ForwardReverseAgree` allows (`localzone.go:693`).

For Replica:

* a sync that fails in its reload, or is killed before it, finds the file
  unchanged the next time and does not reload: `FilesConverge` speaks of files
  only (`zone.go:187`);
* `overlay enable` killed after its merge takes the merged file for the
  provider's copy when it is repeated, until the next sync: `sound`, `killed = 0`
  (`overlay.go:190`);
* `cloud zone remove` killed after the configuration was saved leaves the
  overlay file, which comes back when the zone does (`zone.go:99`);
* a failed `overlay disable` takes nothing back and is left out of
  `FailureUndone` (`overlay.go:265`, against section 16 of `SPEC.md`).

For Filter:

* a rule whose reload failed stays in its file, and repeating the command says
  it is there already and loads nothing: `unloaded` (`filter.go:198`);
* a first download whose activation fails has no `.prev`: the file stays, the
  next update finds it unchanged and never wires it (`adblock.go:97`,
  `filter.go:454`): `Unfetched`. A kill between the replacement of the file and
  the reload does the same: `killed = 0`;
* the shrink check compares the lines of a download with the entries of the
  active file, wildcard companions included, so that a list of domains of 1000
  entries or more that loses a single name is refused, which `FeedsConverge`
  allows (`adblock.go:88`, against CHANGELOG.md:45 "less than half the active
  list").

For Backup:

* a clock that was set back makes the copy of a restore the oldest archive, and
  its own retention deletes it: `inOrder` (`backup.go:174`);
* restoring the oldest of ten archives deletes it before it is read, and the
  restore fails (`backup.go:298`);
* a write that fails in the middle of a restore is not put back; `WayBack` says
  that the copy is there (`backup.go:303`). Files the archive does not have
  stay, also on the way back, so that `Holds` speaks of those it has;
* the second finding: when the activation inside the first `cmdApplyQuiet` fails,
  it reloads the old `minidns.conf` while the restored zone and rule files are
  there (`setup.go:247`); these are put back afterwards, the second
  `cmdApplyQuiet` sees an unchanged `minidns.conf` (`setup.go:236`), and no reload
  follows (`backup.go:308`). unbound answers from the restored files until
  something reloads it, and if it was down it stays down. Of this way back
  `RestoresWhole` says that the files and `minidns.conf` are those of before, and
  of the other one that unbound has them too; `PutBack` is the sentence of the
  command's help, and fails. Of a second failure on a way back nothing is said:
  nobody looks at the results of its calls (`backup.go:307`, `backup.go:314`):
  `OneFault`.

Seen while modelling Devices and not part of a property: a second holder's period
starts at the end of the last one and not "from now on" (`devices.go:105`), and
`TopDevices` attributes a rollup by the start of its hour or day and not by the
time of the query (`query.go:205`).

## 4. Proofs

Every theorem holds for all values of the constants that fulfil the assumptions
named below, and for any number of commands, steps, faults and kills, unless it
says otherwise itself. Most properties are not inductive: they speak of the
moment when a command has ended, and the proof has to know what every step before
that moment has kept. What follows is mainly about those invariants. TLC checked
each of them on the instance of the component's run before it was proved. Those
that are long come in parts, each a definition with a name and a lemma that says
that every step keeps it.

**Activation** (`ActivationProofs`).

* `TypeCorrect`: `Spec => []TypeOK`.
* `TransactionsHold`: `TransactionInv` has a conjunct for what every step knows:
  where `config.yaml` is the saved goal, where it is the one the command began
  with, where `current` is what `minidns.conf` was, and where `minidns.conf` is a
  rendering of `config.yaml`. `FailureIsUndone` and `SuccessIsInstalled` follow
  from it.
* `HeldCorrect`: as long as no command was killed, `HeldInv` says what a command
  still holds at each step, including those commands that are not transactions.
  `CommandsAreTransactions` follows: with no command killed, Activation implements
  `ConfigTransaction`. Each end of a command maps to `Commit`, `Sync`, `Abort`,
  `StoreKept` or `ZoneLeftBehind`, the return to idle to `Leave`, and every step
  in between to a stutter, because the mapping hides what a running command is
  doing.
* `ConfigStaysLoadable` (`ConfigLoads`), with no command killed. `ConfigInv` says
  that `config.yaml` is valid but for the steps in which createZone, which does
  not validate, still has its undo before it, and that without the new zone it is
  valid in those steps too.
* `FilesStayReferenced`, `ActiveFileIsServed` and `DaemonSurvives`
  (`ReferencedFilesExist`, `DaemonServesActiveFile`, `NeverTakesDaemonDown`),
  where nobody interferes (`NoFaults`). They need one invariant, `ServeInv`,
  because each argument uses the others: what the daemon serves is `minidns.conf`,
  or what a command has kept of it (`DaemonInv`); no file goes that either of the
  two names (`FilesInv`), for which the fragment may only name replicas that
  `config.yaml` has (`CloudInv`), and an undo that deletes a file must have taken
  its name out of the fragment first (`AdditionInv`); and a daemon that was up
  with a fragment can come back with it at every step (`UpInv`).

**Ingest** (`IngestProofs`), with rotations, pauses and killed runs.

* `IngestTypes`: `TypeOK`, from an invariant that says how the copies and the live
  log divide what was logged, also half-way through a rotation.
* `LosesNothing` (`NothingLost`). `Order` says which files a run has before it and
  how far they have been. `LossInv` says that what lies behind the cursor is
  counted, as is what a run has passed, if it is not in the batch. The cursor
  either belongs to the live log or, after a rotation, to the first copy (`AtLive`,
  `AtCopy`), and there is one rotation at most between the two (`OneRotation`).
* `CountsOnce` (`CountedOnce`), which needs the opposite: nothing ahead of the
  cursor is counted, nor what a run has still to read (`FreshCursor`, `FreshRun`).
  A killed run breaks this where there is a copy; that is the finding, and why
  the property excludes it.
* `PolicyIsKept` (`PolicyKept`). An RPZ line waits in `pending` for its reply, which
  unbound writes in the same second and before another line of that key (`QueryInv`),
  so a reply read after its RPZ line finds it there (`CutRead`). It could miss it
  only where a run begins between the two, but neither the cursor nor the offset a
  run opens a file at has the RPZ line before it and its reply behind it, unless
  another RPZ line lies between (`CutCursor`, `CutTodo`, which add that no query
  before that offset is still to be answered). What a run saves keeps this so: it
  saves in the middle of a file only while nothing waits, and at the end of the
  live log it goes back to the first line that waits.

**Statistics** (`StatsProofs`).

* `RowsResolve` (`ReferencesResolve`). The
  property alone is not inductive, because `PurgeNames` would break it in a state
  with rows: `PurgeOrder` adds that what a purge has emptied stays empty. The rest
  is that a fold gives rows the references of those it replaces (`FoldedRefs`) and
  that a sweep keeps what the remaining rows refer to.
* `OrphansGo` (`NoOrphans`). Sweeping looks at what is
  left, but deleting old events does not sweep; what makes it right is
  `EventsCounted`: an event that is still listed has its count on its day.
* `DaysStayWhole` (`DaysWhole`): a day that is both in hours and in one row has had
  a query after it was folded (`WholeDays`), for which a retention has to be whole
  days and an hour a part of a day (`StatsAssumption`).
* `StatsKeepPromise` (`KeepsPromise`): the tables implement `QueryCounts`, step by
  step, for all retentions the code accepts; only steps after an ingest met a
  purge are left out, by the property itself (`mixed`). What a report sees is the
  rows seen through the dictionaries (`ViewIs`). One more row is one more query
  (`MappedPlus`); folding changes no row's day or names (`MappedAgain`, `FoldedIs`);
  sweeping keeps the entries of the rows that stay (`SameEntries`), which `ResolveInv`
  and `Stored` say of new ids as well. The rows of a day are at its beginning
  (`DayStarts`), so that a row that goes is of a day that began before the
  retention and one that stays of a day that has not ended before it
  (`TooOldDays`); where hours are kept for less time than days, all hours of such a
  day are folded, and it goes as a whole (`WholeDayTooOld`). What a day keeps of its
  count when some of its rows go is never more than it was (`MappedLess`).
* `StatsTypes`: `TypeOK`. That ids stay below the number of queries, although they
  are given again, is the part that has to be proved together with the counts.

The module begins with lemmas on bags. Bags add up counts by a
recursion over finite sets, and the library's induction theorems cannot be used for
it here. The order of the sizes of finite sets takes their place: a smallest set
for which a law fails leads to a smaller one. Most properties need three values of
such a sum: nothing, one row, and more than nothing. The refinement also needs
that any element may be added first (`AnyFirst`), and from this that sums over
parts and of two bags add up (`TotalOfPart`, `TotalPlus`).

**Devices** (`DevicesProofs`).

* `OneHolderEver` (`OneHolder`), for any number of processes. `HolderInv` says
  that two rows of an address never cover the same time (`Disjoint`), and of a
  process that has found the address free, and not inserted yet, that it still is,
  and that the row it will insert begins no earlier than the last one has ended
  (`Free`). Another process can take the address in between: that is `raced`.
* `HistoryIsKept` (`HistoryStays`), as a step property from the same invariant.
* `DevicesTypes`: `TypeOK`.

**Zones** (`ZoneProofs`). The invariants build on one another.

* Of the operators, for any records: `Add` and `Merge` keep every CNAME alone
  (`AddKeepsCnamesAlone`, `MergeKeepsCnamesAlone`), a merge is servable and has
  the provider's SOA and name servers (`MergeIsServable`), and a serial that does
  not wrap goes up (`NextSerialAdvances`).
* `NoFileMixesCnames` and `FailureIsUndone` (`AliasesAlone`,
  `FailedChangesNothing`), from `IInv`. The first needs that what a command holds
  in memory for the zones not saved yet is free of clashes as well (`Alone`). The
  second needs to know of every zone how to undo it (`CanUndo`): either the command
  has saved it and its `.prev` is `before`, or its file is. That no two zones have
  the same rank makes sure that `Undo` works on the zone saved last.
* `ZoneTypes`: `TypeOK`, from `FileInv`. The files stay typed because every local
  zone keeps its SOA and a name server (`Rooted`): `Remove` refuses the last, and
  what `host` drops are addresses and PTRs.
* `SerialsNeverComeAgain` (`SerialsMoveOn`), from `SerialInv`, if the counter has
  room (below): a zone that was saved is ahead of `before` (`SerialsGrow`), and no
  zone is behind a version reported as success, nor has its serial with other
  records (`AckedFresh`).
* `SerialsProveServed` (`StaysServed`), from `ServedInv`, under the same condition:
  it is the reason for serials, that a zone found served with the serial of the
  file is served as the file is. At every step all zones but the one at hand are,
  and that one is as before or as now.
* `HostsStayInStep` (`ForwardReverseAgree`), from `AgreeInv`, under two conditions
  (below). `Made` says what a host command makes of one zone by the links it writes
  (`Ahead`) and the host whose links it takes away (`Leaving`); `AgreeBut`, how far
  forward and reverse may be apart when some zones are made and the others not;
  `Can`, that the command is accepted, which `AcceptedIsCan` shows to be the code's
  condition. A command that has made every zone leaves them in agreement (`Whole`:
  it needs that a covered address has a best reverse zone, `BestThere`, which rests
  on names having a longest one); one that has made some of the reverse zones leaves
  them such that it can be repeated (`Part`). A kill is one or the other, because
  the forward zone is the last (`ForwardLast`). `FailuresStayInStep`, from the same
  invariant, needs no order of the names: it speaks of commands that end, well or
  in a failure, and no kills.

**Overlays** (`ReplicaProofs`). `ReplicaInv` has four parts beside the types.

* `ReplicaTypes`: `TypeOK`. Every file that is written is servable: a version of
  the provider's, or a merge, for which `MergeIsServable` is the argument.
* `SuccessIsMerged` (`SuccessMerges`), from `MergedWhenDone`, which says at which
  steps of which commands the served file is the merge, and, for zones without an
  overlay, `Unkilled`, which follows the provider's copy through all commands.
* `OverlayIsKept` (`LocalRecordsKept`), from `Promises`: unless an edit can still
  be taken back, the overlay is what was promised, and if so, `.prev` is.
* `ReplicaFailureUndone` (`FailureUndone`), from `Undone`: what the way back of
  enabling and of editing holds at each step, after the one failure it is for.

**Filtering** (`FilterProofs`), with updates, failures of unbound and kills at any
step.

* `FilterTypes`: `TypeOK`, and with it that `minidns.conf` references no list
  without a file. It only names what the configuration switches on (`Wired`), and
  a list whose file is taken away is in no configuration (`Unlisted`).
* `ExplainTellsTruth` (`ExplainsServer`), from `ExplainInv`: what unbound serves is
  the files as they are referenced, but for those the running command is about to
  have loaded (`UpToDate`, `Pending`); and a list that is active and has a file is
  referenced, unless the file is its first (`FirstCopies`). The latter needs that
  every other configured list has a file at all times (`HaveFiles`): adding one
  downloads it first, `Goals` says that no other command brings a list into the
  configuration, and nothing but its removal takes the file away.
* `RefreshIsUndone` (`RefreshUndone`), from `UndoInv`: until the first failure what
  the update found is in the file, in memory for one step, or in `.prev` (`Kept`),
  and after it what is not back yet is in `.prev` (`Back`). A list is fetched once
  in an update (`Once`), or its `.prev` would be overwritten with the new data.

**Backup** (`BackupProofs`).

* `RestoreHasAWayBack` (`WayBack`). From `prune` on an archive under the
  command's own name holds the files of before (`Secured`); while the clock has
  not been set back no archive is of a later second (`Latest`), so that retention,
  which keeps at least two, spares that one; and until the first write the files
  are those of before.
* `RestoreIsWhole` (`RestoresWhole`), from `Sound`: what has been written of an
  archive is on disk, on the way in, and on the way back after a single failure
  (`WayIn`, `WayOut`), where each step also knows whether `minidns.conf` is
  rendered from the files. That unbound then has exactly the files there are is
  the reload's doing (`LoadedIsLive`: a fragment rendered from the files names all
  of them), and on the way back only where `way` says that one follows.
* `BackupTypes`: `TypeOK`, with the bound on archives, which the clock does not
  affect (`Counted`).

**Assumptions.** TLC evaluates all of these on its instances; the proofs use
nothing else.

* `ConstantsAssumption`, `BoundsAssumption` of Activation: the defaults are
  settings unbound can load; a missing and an empty fragment differ from a rendered
  one.
* `IngestAssumption`, `DevicesAssumption`: the bounds are numbers, a batch holds
  something and time passes. `StatsAssumption`: also, a day is whole hours, and
  retentions are whole days, at least one, and that of hourly counts is not longer
  than that of daily ones, as `query-log retention` demands (`querylog.go:207`,
  `querylog.go:225`).
* `RankAssumption`, `ZoneAssumption`, `FirstAssumption`, `RecordAssumption` of
  Zones: zones have an order; the records to begin with do not clash; names and
  addresses can be owners and data; A records hold addresses, and neither the
  records to begin with nor, through `record`, any later ones are a SOA, which
  `Add` refuses. Reverse zones cover addresses, and a name has at most 255
  bytes.
* `ReplicaAssumption`: what the provider sends can be served, because
  `zonefile.Validate` is run over it before anything is written, and there is a
  first version of it.
* `FilterAssumption`: block lists are not called `allow` or `block`, manual rules
  are rules of those two, and every list's URL answers with something, empty or
  not, whenever it can be reached.
* `BackupAssumption`, `FilesAssumption`, `BoundsAssumption` of Backup: at least two
  archives are kept (the code keeps ten), `config.yaml` is one of the files, and an
  unbound that is down is told apart from one that has loaded something.

Some theorems have hypotheses of their own. `Room` (`SerialsNeverComeAgain`, `SerialsProveServed`) says that
beyond the last day of a run there are as many serials as it has commands; the
real counter has 2^32 and a date takes it to about 2·10^9, so that it wraps
after as many changes again. Without room the code is wrong: `nextSerial` starts
again at 0, and the zone has a serial it had before.
`ReverseFirst` (`HostsStayInStep`) says that reverse zones sort before forward
ones, without which a killed command cannot always be repeated (section 3).
`HostsManaged` (that one and `FailuresStayInStep`) says that `record` is not used
for addresses and PTRs, which agree to begin with: it edits one zone and is not
meant to keep others in step. TLC evaluates both for `MCZones`.

**Only model-checked.** The liveness properties `CommandEnds`,
`EventuallyCounted`, `FilesConverge` and `FeedsConverge`: the proof system does not
treat fairness and `ENABLED`. Every safety invariant and every action property that a passing run checks
is stated by a theorem.

## 5. Plan

What is left, in this order:

1. Reports over `StatsStore` and `Devices` together: what `TopDevices` attributes
   against what `Events` does.
2. Hosts in the overlay of a replica: `Zones` over a `Replica` instead of a zone
   file.
3. `blocklists.json`, which records when a list was last good, and the switch of
   the manual blocks.

Not to be modelled: the commands that only print (`doctor`, `query`, `logs`,
`stats`, `test`), the exporter, the download from a provider beyond its
outcomes, argument parsing, packaging and the shell scripts.
