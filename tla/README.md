# vlr in TLA+

vlr runs VLESS+Reality nodes: each *node* (standalone, or a *child* of a *main*
server) keeps its users in a state file, renders an Xray configuration from
them, serves a user API, a self-service portal and an Authentik webhook, and
sends its traffic through a tunnel to an *exit* host. The main server watches
the children by heartbeats and pulls their user lists when it sees a reason to.
The modules here describe what of this can go wrong between two steps, TLC checks
small instances, and TLAPS proves every invariant they are checked for, for every
value of the constants.

## 1. Inventory

| Part (source) | State | Operations | Hard behaviour | What makes it correct |
|---|---|---|---|---|
| protocol decisions (`internal/protocol`) | none (`NodeView` is the main server's) | `ShouldPull`, `MarkDown` | boundaries, defaults for zero | pulls whenever heard and pulled state differ in a way that matters |
| child (`internal/daemon/child.go`) | store, heartbeat sequence number | heartbeat loop, `/v1/pull` | two goroutines read the store in several calls | a response is one moment's state under that moment's version |
| main server (`internal/daemon/mainserver.go`) | `views`, `detail`, `regs`, in memory | heartbeat handler, scheduler, `pull`, `/v1/nodes` | lost, late and reordered heartbeats; slow and failing pulls; its own restart | never ahead of the child, never back to an older list, deaths and recoveries seen |
| user store (`internal/store`) | user list, `config_version`, tokens, counters; `state.json` | add, find, remove, rotate token, `UpdateTraffic` | every call flushes everything; a flush can fail; a second process | unique e-mails; what was acknowledged survives |
| user API (`userapi.go`), Xray apply (`internal/xray/apply.go`) | Xray's configuration file, the running Xray | POST/DELETE `/v1/users`; snapshot, write, reload | concurrent handlers apply in any order | Xray admits whom the store lists |
| portal (`portal.go`) | store | a visit finds or creates | concurrent first visits | one user per person |
| Authentik webhook (`webhook.go`), reconcile (`reconcile.go`) | store; pages fetched | revoke one; page, list, prune, apply | lost webhooks, empty answers, look first and remove later | who is deactivated goes, nobody else does |
| standalone daemon (`standalone.go`) | the goroutines above | start, stop, serve subscriptions | handlers are cut by a stop | restart from `state.json`; a link once shown works on |
| command line, users (`cmd/vlr/main.go`) | its own copy of the store | `user add`, `rm`, `rotate`, `list` | runs beside the daemon, which serves and writes back what it has in memory | nothing it did is undone; a revoked link is dead |
| cascade up (`cmd/vlr/cascade_up.go`, `internal/cascade/provision.go`, `install.go`) | packages, own tunnel, exit host, `config.json`, ledger | install, key, remote script, own end, save, record, handshake | failure or reboot at any step; connection lost while the script runs on; repetition | a completed run leaves two ends that fit |
| vlr up (`cmd/vlr/up.go`) | Xray, its drop-in, ledger | install, record, drop-in, apply | cut off between a step and its record | what it did is recorded |
| ledger and uninstall (`internal/ledger`, `cmd/vlr/uninstall.go`) | `ledger.jsonl` | record, load, dedup; reverse everything | partial teardown; exits of several runs; lost ledger; one apt-get call for all packages | what was installed is found and reversed |
| monitor and stats poller (`internal/cascade/monitor.go`, `stats.go`) | handshake age, Xray counters | `Healthy`, `Poll` | counters restart with Xray; two polls at a time; users that go in between | what a user is charged for is its own; nobody's counters stay behind |
| configuration (`internal/config`) | `config.json`, `config.json.tmp` | load, validate, save | load-modify-save by several commands; kills inside a save; the daemon keeps the copy of its start | changes add up |
| registry, node connect (`main.go`, `node_connect.go`) | `nodes.json`, child section; the agent's registration | register, connect | an unreadable file counts as empty; late and repeated registrations | a registration is kept; tokens agree on both sides |
| split lists (`split.go`), Xray rendering (`internal/xray/config.go`) | `config.json`, what Xray runs on | add, rm, render, apply | order of the routing rules; several who apply | RU-direct traffic does not go back into the tunnel |
| QR code (`internal/qr`) | tables of the field; a symbol while it is made | encode | bit arithmetic, masks laid over each other, Reed–Solomon | a decoder reads back the text |
| keys, subscriptions, WireGuard text, utilities | none | generate, format | none of their own | formats |

How they interact: a child's heartbeat and pull handlers call the store that the
API, the portal, the webhook and the reconcile run change concurrently; every store call
is one critical section, everything between two calls may be stale. The main
server calls a child's pull handler over HTTP. `xray.Apply` runs outside all locks.
The command line shares only files with the daemon. `cascade up` shares the
configuration with every other command and talks to the exit over SSH. `node connect`
sends the tokens it saved to the agent, which may be this program's main server
(there `node register` enters them by hand) or another one.

Every hard-to-test behaviour found in the code is in `PROJECT.json`, "hazards",
at its line, with the properties that cover it or the reason why none does.

## 2. Modules

| Module | Models | Notes |
|---|---|---|
| `Protocol` | `protocol.go` | operators; clock readings are ages |
| `ControlPlane` (extends `Protocol`) | `child.go`, `mainserver.go`, the store as a child sees it, the network | one action per read of the store and per message |
| `UserListReplica` | the abstract replica | refined by `ControlPlane` (`ImplementsReplica`) |
| `UserStore` | the store's list and its operations | operators on sets of users |
| `NodeDaemon` (extends `UserStore`) | `store.go`, `userapi.go`, `portal.go`, `webhook.go`, `reconcile.go`, `apply.go`, `vlr user` | one action per store call and per file operation |
| `UserRecords` (extends `UserStore`) | `stats.go`, the poll, token and link side of `store.go`, `StatID`, `vlr user link` and `rotate` | one action per store call and per reading of Xray |
| `Cascade` | `cascade_up.go`, `provision.go`, `up.go`, `ledger.go`, `uninstall.go` | one action per step of the commands and of the remote script |
| `NodeConfig` | `config.go`, `split.go`, `node_connect.go`, init and apply of `main.go`, the routing rules of `xray/config.go` | one action per system call of a save and per use of a loaded copy |
| `NodeRegistry` (extends `NodeConfig`) | `node register` and the main server's start in `main.go` | the bearer registered is one that `node connect` of `NodeConfig` printed; properties of both |
| `GaloisField` | `reedsolomon.go` | bytes are sets of bits |
| `QR` (extends `GaloisField`) | `qr.go` | one action per round of every loop that carries a value; a reader written from the standard |
| `MC…` | instances for TLC | constants, symmetry |
| `ControlPlaneProofs`, `NodeStoreProofs`, `NodeRegistryProofs`, `CascadeProofs`, `UserRecordsProofs`, `GaloisFieldProofs`, `QRProofs` | theorems | see section 5 |
| `UserStoreProofs` | lemmas about the store's scans | used by `NodeStoreProofs` and `UserRecordsProofs` |

**ControlPlane.** `ver[n]` is `ConfigVersion` of child n's store. A user list is
represented by its version, since one critical section makes a new list and a new
version and both lie in one file. `rpc.at` is the version the copy of the users
was taken at, `rpc.ver` the one the response is labelled with. `view` and
`detail` are the maps of `MainServer`; their domains are the children heard of and
pulled. `SchedRound` is the locked part of a scheduler tick, `PullStart` …
`PullCommit` the pulls that follow one by one; `PullFail` is any error. A main
server keeps nothing over a restart, a child keeps its file. A flush that fails
is left to `NodeDaemon`; here memory and file agree. Time is counted in
heartbeat intervals of the main server (20 s) and an interval ends only when
what it is long enough for has happened: due heartbeats were sent, an idle
scheduler ran (it runs every 5 s).

**NodeDaemon.** `mem["daemon"]` is the list in the daemon's memory, `disk` the
one in `state.json`, `mem["cli"]` the copy of a running `vlr user`. Handlers are
threads with a `pc`; the answers to clients are the histories `acked` and `gone`.
Uuids are numbers in the order of creation, so the least one is the first match
of a scan. External and telegram ids are one optional label. Tokens and traffic values are in
`UserRecords`; the profile and the enabled flag (nothing ever clears it) are left out: no property
tells them apart. E-mails are compared exactly, which the code does everywhere but in the
reconcile run.

**UserRecords.** The same two copies, `mem` and `disk`, with the fields that change after a
user's creation. `counter` is what the running Xray has counted under each name and is
lost when it starts again, `poll[p]` what one poll read and has still to write. A name that moved
nothing since the start is not in Xray's answer, so the poll leaves its user alone. `Apply` is one
step here, since `NodeDaemon` has its races. The state begins at an upgrade: the daemon is about to open the
file of a version without tokens. `moved` (what each user really sent and received), `handed`
(links shown) and `revoked` (tokens called revoked) are histories.

**Cascade.** `exit[h]` is an exit host (key file, configuration, running tunnel,
unit enabled), `local` the node's end. The remote script is a process of its
own in `scripts`, so that a broken connection leaves it running. Making the key
file and reading it back is one step. The two packages are installed
together before the key, which is in memory only. `VlrUp(done)` is the whole of
`vlr up`, cut off after `done` of its four effects; nothing else works on what it changes. `un` holds
what uninstall read before it asked. The service's own unit, binary and
directories are removed unconditionally and left out.

**NodeConfig.** Files are inodes: `data[i]` is what inode i holds, `path` and
`tmp` are the inodes of `config.json` and of `config.json.tmp`, and a writer keeps the inode it
opened although another's rename may have taken it away. `proc[c]` is a command between
its load and its end: `conf` its changed copy, `base` the inode it had loaded.
A configuration is the role, whether a child has its main server's URL, the pair of tokens,
whether a given domain is in the split lists, whether there is an exit, and the
generation of keys; no property tells other fields apart. Numbers stand for tokens and keys:
the number of the command that made them. `intended` is a history: what the
saved commands, one after another, come to, and `None` once one of them saved over what it had not
loaded or wrote to another's temporary file. `daemon` is the copy in the
daemon's memory, with which it renders at every user change.

**NodeRegistry.** `saveRegs` truncates `nodes.json` and then writes it; `LoadRegs` takes
what it cannot read for an empty registry. `known` is the registry in the main
server's memory.

**QR.** A symbol is the set of its dark modules. The tables of the field are filled
by the package's init and are variables like the rest. `placed` is a history.
Data bytes, patterns, placement and penalty are operators; the generator, the division and
the masks, where one round works on what the last one left, are steps. The penalty is stated by its meaning (runs
of five and more, blocks, finder-like rows) and decides only between masks; that the least one wins is
`BestMask`. `DataVisits` are the steps of the zigzag that come to a data module, and each takes the bit of its rank among them.

## 3. Runs

| Run | Shows | Instance and why it is enough |
|---|---|---|
| `control_plane` | `TypeOK`, `NothingAhead`, `ViewMatchesDetail`, `DownNeverPulled`, `ImplementsReplica`; under fairness `EventuallyMirrored`, `DeadIsDetected`, `RecoveryIsSeen` | one child (children share only the scheduler's queue), two user changes (a pull can fall between, before and after them), ages up to 2 with one tolerated miss and a reconcile after two intervals, one message in flight, one crash of either process |
| `control_triggers` | `VersionTrigger`, `TrafficTrigger` | reconcile interval beyond the age bound, so only the triggers can act; one change, one unit of traffic, two messages that can be reordered |
| `control_prompt` | `NoFalseDown` | two children that beat every third interval with two tolerated misses, the slowest pace that is safe; no loss, two restarts |
| `control_torn_pull` | `SettledMeansMirrored` fails | one change between the two reads is enough |
| `node_store` | `TypeOK`, `UniqueEmails`, `AcknowledgedSurvives` | two handlers and one e-mail (races are pairwise), two creations, failing flushes and reloads, one crash |
| `node_authentik` | `SteadyNeverPruned`, `DeactivatedIsRevoked` | two people who come and go at will, one handler, the reconcile run, a command-line removal, failing flushes, one crash |
| `node_apply_race` | `RevokedIsOut` fails | two handlers, nothing fails |
| `user_records` | `TypeOK`, `OwnCounters`, `RevokedIsDead`, `LinkKept`; under fairness `CaughtUp` | two polls at a time (overlaps are pairwise); a user without a token and one created later, so that one can go while the other stays; one token for the upgrade, one for the new user, one for a rotation; one unit of traffic each, which tells another's counter, a second count and a swapped direction apart; reloads and all flushes but `AddUser`'s may fail; one crash |
| `cascade_rerun` | `TypeOK`, `TunnelStands`, `UninstallReverses` | two exit hosts, three commands (cascade up, again or elsewhere, vlr up, uninstall, in any order), two faults at any step |
| `cascade_orphan` | `EveryExitKnown` fails | one command, one failure |
| `config_files` | `TypeOK`, `NothingUndone`, `TokensAgree`, `RegistrationStays`, `NoRevert` | two commands at a time (overlaps are pairwise), three in all on both machines: two that leave something behind and one that meets it; kills at any step, a registration that arrives late or twice, restarts of the daemon and of the main server at any time |
| `qr_encode` | `TypeOK`, `ReadsBack`, `Correctable`, `PatternsKept`, `UnmaskedBetween`, `BestMask` | sixteen texts: for each of the five versions the longest and one byte more, the empty text, one too long, bytes of all kinds, all zeros and all ones |

A run that fails refutes a sentence of the repository's documentation or comments; the
sentence is quoted in `PROJECT.json`, "findings". Every property of a passing run
has a mutant: a plausible bug in a definition that models code, with which TLC
finds the property violated.

**Bounds.** `MaxVersion`, `MaxBytes`, `MaxAge` (ages saturate), `MaxInFlight`,
`MaxCrashes`; `MaxUsers` (running out stands for an error of the uuid
generator), `NumEmails`; `MaxKeys`, `MaxRuns`, `MaxFaults`. `MaxTokens` is an error of
the random generator, `Legacy` how many users the upgrade finds. Deadlock is checked
everywhere but in the cascade runs and `user_records`: there operators, clients and the traffic may stop.

**What the properties do not promise.** The preconditions below are in the properties because
the code needs them; each names a state the program can reach.

- `SteadyNeverPruned` is checked with all active people on one page. With several pages it
  does not hold: when somebody on the first page is deactivated while the second
  is fetched, everybody moves up by one and a person can fall between the pages
  (three people, pages of one, show it).
- `AcknowledgedSurvives` is checked with no `vlr user` running beside the daemon. With
  `CliRequests <- CliDelete` it does not hold: the daemon's next flush writes its own list
  over the command's.
- `EventuallyMirrored` holds for a child that recovers from DOWN only by the reconcile
  interval; `protocol.go:120-121` lists the recovery as a trigger, `ShouldPull` has no
  such clause.
- Manual users: `webhook.go:70-71` says the webhook "only touches Source==authentik users". It decides on
  the user it found and removes by e-mail later, so a user created by hand with that e-mail
  in between goes; so with the reconcile run. `SteadyNeverPruned` is about portal users.
- `OwnCounters` takes that no e-mail is given to a second user (`ReuseEmail`): a poll may have read the
  counter of the removed one. `internal/xray/config.go:78` calls the name "unique and stable per user",
  but `AddUser` keeps e-mails unique only among the users of one moment.
- `OwnCounters` does not say that all traffic is counted, nor that counters grow (`store.go:49`,
  "monotonic within a node lifetime"): what Xray counted between the last poll and its restart is
  lost, every change of the users restarts it unless a `reload_cmd` can do better, and of two
  overlapping polls the one that read first may write last. So `total_bytes` is no "monotonic
  sum" (`protocol.go:28`) either; `ControlPlane` lets it fall.
- `LinkKept` takes that the flush of `AddUser` succeeds. When it fails, the portal takes the error for a lost
  race (`portal.go:94`) and shows the user left in memory; after a crash its link leads nowhere. Put
  `"add"` into `FlushFails` to see it.
- `LinkKept` and `RevokedIsDead` take that the command line runs only while the daemon is stopped. With
  `Beside = TRUE` both fail: the daemon serves the token in its memory and writes it back with its
  next flush, so that the old link lives and the new one is dead. `docs/AUTHENTIK.md:198`
  says the old link is dead at once.
- `vlr user add` never prints a subscription link: `AddUser` makes the token in its own copy of the
  user (`main.go:450`, `store.go:126`). The module has no such command.
- `TunnelStands` leaves out hosts where the script of a broken connection is still
  at work: it takes no lock and can rewrite the configuration after a later run.
- `UninstallReverses` promises nothing of an exit whose teardown failed (printed
  only, and the ledger goes with the directory), and no packages once Xray is recorded: apt does not
  know `xray`, and one call removes all or none.
- `NothingUndone` and `TokensAgree` hold while commands do not overlap (`Orderly`): nothing locks
  `config.json`, and `cascade up` holds its copy for up to half an hour.
- `NoRevert` excepts a daemon that was not restarted after `split`: it goes on rendering
  with the lists of its start, which takes what `vlr render` wrote back at the next user
  change. The command's advice (`split.go:90`) names only Xray.
- `RegistrationStays` excepts an interrupted save and two registrations that meet.
- `ReadsBack` holds by the first copy of the format bits. The second
  (`qr.go:273-279`, "in both standard locations") is transposed, its bit 7 lies under the dark
  module and one of its modules is never written; `SecondCopy` has it as it is.
- `init` saves without `Validate`: a child without a main server's URL is written and
  cannot be loaded again. `Prepared` has it, no property forbids it.

## 4. Fairness

`ControlPlane!Fairness`: goroutines run and time passes (weak fairness of the
tick, the scheduler's round, a call's error and the child's heartbeat steps); a
timeout of 15 s is why a call to a dead child ends. A heartbeat of a child is delivered and
the steps of a pull succeed infinitely often if they can be taken infinitely often
(strong fairness): without it a network may lose everything for ever and
nothing can be promised. No process has to start again, no user has to change: the
liveness properties assume "from some time on the process stays up" where they
need it.

`NodeDaemon!Fairness`: handlers and the reconcile goroutine run, its ticker
fires (weak); the Authentik API answers infinitely often if asked infinitely often
(strong, on `RecFetch`). Webhooks have no fairness: they may all be lost.

`UserRecords!Fairness`: the daemon is started again (`Restart=on-failure` of its unit), the ticker
and the main server's pulls make polls, and a poll that began goes on (weak). Nobody has to
succeed: not a flush, not a reload.

`Cascade`, `NodeConfig` and `NodeRegistry` have no liveness property: nothing obliges an
operator to try again, and a command may be killed. `QR` is a sequential program; its run
checks deadlock, every step has a successor.

## 5. Proofs

All proofs hold for every number of children, users, handlers, commands, hosts and faults and for
all settings. The named assumptions say that bounds are numbers, that the sets named are not empty where
the code needs one, and that a value that stands for "none" or for an unreadable file is no
other value: `SettingAssumption`, `BoundAssumption`, `NodeAssumption`, `ConfigAssumption`,
`UnreadableAssumption`, `TornAssumption`, `CascadeAssumption`, `RecordsAssumption`, `TextAssumption`,
`NoneAssumption`, and a `RegistryAssumption` of each of `ControlPlane` and `NodeRegistry`. They are
evaluated with every run. A theorem that needs more says so in its `ASSUME`; below each such
hypothesis is named, it is one that the run which checks the property satisfies too, and section 3 says what
happens without it.

The control plane:

- `TypeCorrect`: `TypeOK` is inductive.
- `NothingAheadCorrect`: not inductive by itself, because the version in a view came
  through a message. `VersionInv` adds that no version on its way (in the heartbeat
  goroutine, in the network, in a pull) is ahead of its child, and that the list a pull is
  bringing is no older than the one it will replace. It holds because versions only grow and
  there is one pull at a time.
- `ReplicaImplemented`: the initial states map to initial states and every step
  to `Change`, `Refresh`, `Forget` or a stutter; the last conjunct of
  `VersionInv` is what `Refresh` needs.
- `ViewMatchesDetailCorrect`, `DownNeverPulledCorrect`: from `ViewInv` (only
  children heard of are pulled, a stopped main server knows nobody, DOWN lasts no
  longer than the silence): a child that is DOWN is silent, so the round that
  chose it would have found it so.
- `NoFalseDownCorrect`: on a network that neither loses nor delays and with
  `HeartbeatEvery <= Misses + 1`, from `PunctualInv`: a running child has been silent for
  as long as its timer has run.

The node daemon:

- `UniqueEmailsCorrect` (`NodeStoreProofs`): the inductive `UniqueInv` adds the command line's copy and that
  the ids of all lists are below the next one, so a creation that found the e-mail free stays unique
  in memory, and a flush copies a list that is unique already.
- `TypeCorrect` (`NodeStoreProofs`): `TypeOK` is inductive only with `MineTyped`, that a request which is
  about to apply the creation of a user knows that user.
- `AcknowledgedSurvivesCorrect`: assumes `CliRequests = {}`, the precondition of the property in
  the runs. `SurviveInv` has two parts. `Kept` and `Past` say of one user that nothing can
  take it back: it is in memory *and* on disk, or it is in neither and its number is used up. `Answered`
  says that of every user an answer was or is about to be given for. The step that matters is the flush that fails:
  memory is then ahead of the disk, and the request must not be answered with success.

The reconcile run (`NodeStoreProofs`):

- `SteadyNeverPrunedCorrect`, an action property: no prune removes a user of the portal whose person has been active since the
  run began. `SteadyInv` says that those people (`rec.steady`) are active, are all in the list once it was fetched, and
  are not among the users to remove. It needs `OnePage` (all active people fit on one page: then one answer is
  one moment's list, `FirstPageIsAll`). The removal is by e-mail, later and of the first user it fits by then
  (`PruneSpares`), who may have it as an external id; `PlainInv` says that users of the portal have no external id, so
  that such a user is none of theirs.

Users' records (`UserRecordsProofs`), over the scans of `UserStoreProofs` (the least number exists, a found user
matches):

- `TypeCorrect`: with `Lists` (numbers of users and tokens are below the next ones) and `Counted`
  (what Xray counts under a name is at most what its one client moved), which bound every sum of counters.
- `OwnCountersCorrect`: assumes `~ReuseEmail`. `OwnInv` says that a name has one owner for ever
  (`OneOwner`, over all users that ever were), and that Xray's counters, *every reading a poll still holds* and every
  copy of a user are within what the owner moved (`Bounded`). The readings are what makes it hold with two
  polls at a time: a late write is old, not somebody else's.
- `RevokedIsDeadCorrect`: assumes `~Beside`. `TokenInv` says that one of command line and daemon is at
  rest (`Orderly`), that no list holds a uuid twice, and of memory *and* disk together that no token is revoked, or
  ahead of the next one, or two users': a rotation that failed in its flush has called nothing revoked.
- `LinkKeptCorrect`: assumes in addition that no flush of `AddUser` fails. `KeptInv` says that each link in memory
  is on disk, so a crash loses none, and that each link handed out is served unless its user left or it was
  revoked. The upgrade's backfill is served only after it was written.

Configuration and registry (`NodeRegistryProofs`):

- `TypeCorrect`: with `Minted`, that what a command takes to the agent is a pair of tokens.
- `NothingUndoneCorrect`: `Apart` (always) says that no inode is both installed and being written, or
  belongs to two commands; `Agreed` (while commands do not overlap) that the installed inode holds
  what was intended and that whoever loaded it has in hand what will be intended. Renaming keeps the
  one because of the other.
- `NoRevertCorrect`: an action property, from the same invariant: what a step renders comes from the
  daemon's copy or from a command's, and a command that loaded what is installed renders what is intended.
- `RegistrationStaysCorrect`: `Filed` adds the copies in the editors' memory to the file.
- `TokensAgreeCorrect`: `Spread` collects everything that carries a bearer of this node: printed
  requests, registrations on their way, editors, `nodes.json`, the main server's memory, the agent. `Bounded` says
  that of those younger than the last `init` there is one, the configuration's. It is kept because `connect`
  makes a pair only when there is none, and then no bearer of this start of the node is spread yet.

The cascade (`CascadeProofs`):

- `TypeCorrect`: with `Prepared`, what a run holds by each of its steps: that is why a configuration
  saved or a tunnel written is complete.
- `TunnelStandsCorrect`: `Ordered` says that the two commands exclude each other and which
  script belongs to the run in progress; `Stands` follows the run through its steps, while nothing else works on
  that exit: nobody at work there before the connection (`Before`), the script alone and as far as it has
  come (`During`), the exit up with the run's own key afterwards (`After`), the own file written (`Written`),
  both ends up (`Standing`). Two things carry it: the script stops the old tunnel first, since
  `systemctl start` leaves a running one, and a reboot takes a tunnel up from the file it was up from.
- `UninstallReversesCorrect`: `Known` says that the ledger has what completed runs set up, and that its *last*
  entry of an exit is the way in of the last completed run; a run that is cut off while it records has not come to its
  exit. From what `UnStart` reads of it (`Snapshot`) the teardown goes on, exit by exit (`Cleared`)
  and step by step (`Undone`). That the last entry of a kind and target exists is an induction over the
  ledger, done once as the well-foundedness of the numbers (`LastIndex`).

The QR code (`QRProofs`), for every text:

- `TypeCorrect`: with the lengths of data, generator and remainder (`Polynomials`), the function area of the version
  (`Drawing`) and the counters of the loops (`Rounds`). The arithmetic of the field stays within
  bytes and the indices within the tables, and a penalty is a number because every set it counts is finite.
- `EachModuleOnce`: a fact about the zigzag alone, for the five sizes: the visits are one-to-one
  and reach every module outside column 6, so a bit is neither written over nor left out.
- `PatternsKeptCorrect`: from `PatternInv`, by three lemmas about what data (`PlacedIsData`), masks
  (`MaskedAvoids`) and format bits (`FormattedAvoids`) can touch. The last one needs that
  the dark module is restored: bit 7 of the second copy goes over it.
- `UnmaskedBetweenCorrect`: `MaskInv` adds that while a mask is weighed, the data modules are those of the placed symbol under
  that one mask; a mask taken off twice is none (`MaskedTwice`).
- `BestMaskCorrect`: data modules are not enough here, since the penalty counts the whole symbol. `BestInv` says that between two
  masks the symbol is the placed one but for the modules of the format bits, and under a mask is *exactly* what that mask alone
  would make it, because the format bits of one mask overwrite all of those before (`FormattedAnew`). So the eight penalties compared
  are those of eight clean symbols, and `Chosen` says which is the least so far.
- `CorrectableCorrect`: the codewords vanish at every root of the generator. Below.
- `ReadsBackCorrect`: a reader that follows the standard finds the text and every codeword. Below.

What the code corrects, for every text, in three layers (the first two in `GaloisFieldProofs`):

- `TablesAreField`. `TablesInv` says that the tables are filled as far as the loop of `fillTables` has come. That the powers
  it fills them with do not repeat before the 255th is the one fact about the polynomial 0x11D; the prover takes 16 of
  them at a time (`SmallPower`, `LargeRoot`), and what is left is counting: 255 different bytes, none of them zero, are all bytes but
  zero. So each has one logarithm, and `gfMul`, which adds logarithms modulo 255, is associative and commutative.
- `MulDistributes`. Multiplying by x is a shift and a reduction and distributes because it works bit by bit; every other
  byte is a power of x, so the rest follows by going up the powers. It is the law that logarithms say nothing about.
- `ValueAt`, the value of a polynomial, is a sum taken bit by bit over all terms at once. `Horner` turns it
  into the rule the loops follow, `ValueOfSum` and `ValueOfMultiple` say that it is linear. Then a
  round of `rsGenerator` keeps the roots there were and adds the next one (`RootAdded`; in `QRProofs` `Product` is
  the invariant of that loop), and a round of `reedSolomon` subtracts a multiple of the generator from the data so far followed
  by the remainder (`RemainderStep`, `OneMoreDivided`), so that the two together vanish where the generator
  does (`DivisionInv`). `CodeInv` collects this stage by stage; when all bytes are divided it is `Correctable`.

What a reader finds, for every text. `ReadInv` says that the data codewords are the text's and that the placed symbol is the
patterns and the codewords; with `BestMaskCorrect` the finished symbol is this one under one mask, with its format bits
(`Symbol`). The rest is about operators:

- The format bits. The ten rounds of the division in `setFormatBits` are carried out bit by bit (`FormatRemBits`), and what
  comes of them is a multiple of the format polynomial (`CodeWordInCode`). The first copy shows it as it is
  (`CopiesShow`). The second is transposed, and the prover finds that it is then *never* a code word, under no mask
  (`TransposedIsNoWord`: four of its bits never add up). So the word nearest to either copy is the first copy's, and it names
  level L and the mask (`NearestRead`). With a damaged first copy nothing of this holds.
- The way. The reader's columns and directions are written from the standard; `CellIsVisited` says that they are those of
  `placeData`. The reader numbers the data modules by how many it has come to (`Numbering`); with
  `EachModuleOnce` these are the ranks by which `Placed` hands out the bits (`ReadingOrderIs`). The modules left by the function patterns
  are counted for the five versions: all codewords fit, with less than a byte left over (`RoomForCodewords`).
- The bits. The mask comes off (`ModuleRead`; the reader's formulas for the masks are the standard's, the encoder's differ in
  form, `MasksAgree`), eight modules are a byte (`ByteRead`), and the bytes are all codewords (`CodewordsRead`). The text begins half a byte
  late, so each of its bytes is put together from two codewords (`TextBits`, `TextRead`).

The inductions over powers, terms and rounds are all made without the library's theorems, whose argument is an operator: the set of
the numbers at which a fact fails has a least element (`LeastNumber`), or the set at which it holds goes up with its
successors (`UpToInduction`).

Only model-checked: everything under fairness (`EventuallyMirrored`, `DeadIsDetected`, `RecoveryIsSeen`,
`VersionTrigger`, `TrafficTrigger`, `DeactivatedIsRevoked`, `CaughtUp`), since liveness and ENABLED are beyond
the prover. Every invariant of the passing runs is proved.

## 6. Not modelled

- Wire formats, HTTP status codes, logging and the pages; bearer tokens
  and signatures are guards that only refuse. The SVG of a QR code.
- `MainServer.Register` has no caller; the registry is the constant `Registered`. The built-in
  main server answers a POST to `/v1/nodes` as if it were a GET, so a `node connect` pointed at it
  believes it has registered; what the agent holds is then what `AgentReceives` never did.
- Cryptographic keys, the generation of identifiers, the text of share links and WireGuard texts:
  formats without state.
- Tokens given to `node connect` as flags: the operator's own choice replaces the stored ones.
- The migration of a tunnel from wg to awg: its extra steps stop and disable the old
  tunnel, which `UpStopOld` and `ScriptStop` do.
- The questions of the wizards and the installer script: terminal I/O and external programs.

## 7. Plan

Written: the control plane, the node daemon and the cascade, in that order, since a
wrong user list is what hurts users most and a stale exit comes next; then the
configuration with all commands that change it, the registry, the QR code, and the counters and
links of users.

Left to prove: nothing of the invariants the runs check; the properties under fairness stay with the
model checker (section 5).
