------------------------------- MODULE Cascade -------------------------------
(***************************************************************************)
(* The tunnel of a node to its exit: `vlr cascade up` (cascade_up.go) sets *)
(* up an exit host over SSH (internal/cascade/provision.go) and then its   *)
(* own end; `vlr uninstall` (uninstall.go) reverses what the ledger        *)
(* (internal/ledger) and the configuration know of, and with it what       *)
(* `vlr up` (up.go) recorded.                                              *)
(*                                                                         *)
(* Every step of the two commands can fail, the connection can break while *)
(* the script on the exit host runs on, and both machines can reboot at    *)
(* any moment.  The operator runs one command at a time.                   *)
(*                                                                         *)
(* A key pair is a number, and so is its public half.  There is one tunnel *)
(* interface (changing its name is refused) and the transport is AmneziaWG.*)
(***************************************************************************)
EXTENDS Integers, Sequences, FiniteSets

CONSTANTS
  Host,       \* exit hosts
  None,
  MaxKeys,    \* bound: key pairs generated
  MaxRuns,    \* bound: commands run
  MaxFaults   \* bound: failed steps, broken connections and reboots

Key == 1 .. MaxKeys
AptPackage == {"amneziawg", "sshpass"}
Package == AptPackage \cup {"xray"}
Auth == {"key", "password"}
ExitTunnel  == [own : Key, peer : Key]
LocalTunnel == [own : Key, host : Host, peer : Key]
Entry == [kind : {"package"}, target : Package, auth : {None}]
    \cup [kind : {"file"}, target : {"drop-in"}, auth : {None}]
    \cup [kind : {"wg-iface"}, target : {"wg-cascade"}, auth : {None}]
    \cup [kind : {"eu-exit"}, target : Host, auth : Auth]

ASSUME CascadeAssumption ==
  /\ MaxKeys \in Nat /\ MaxRuns \in Nat /\ MaxFaults \in Nat
  /\ None \notin Host /\ None \notin Key /\ None \notin Auth
  /\ None \notin ExitTunnel /\ None \notin LocalTunnel

VARIABLES
  exit,     \* exit[h]: key file, configuration, running tunnel, unit enabled
  scripts,  \* provisioning scripts running on exit hosts
  local,    \* the node's end: configuration, running tunnel, unit enabled
  pkgs,     \* packages these commands installed on the node
  dropin,   \* Xray's systemd drop-in is there
  cfg,      \* the cascade section of config.json
  ledger,   \* ledger.jsonl, a sequence of entries
  run,      \* the cascade up in progress
  un,       \* the uninstall in progress
  fresh,    \* the next key pair
  runs, faults, \* commands and faults so far (only to bound them)
  goal,     \* history: the exit the last cascade up brought its end up for
  calm,     \* history: nothing else worked on the tunnel since
  made,     \* history: made[h], how h was reached by the last run recorded
  ours      \* history: packages and drop-in of the runs recorded

nodeVars == <<local, pkgs, dropin>>
histVars == <<goal, calm, made, ours>>
vars == <<exit, scripts, nodeVars, cfg, ledger, run, un, fresh, runs,
          faults, histVars>>
-----------------------------------------------------------------------------
CleanExit   == [key |-> None, conf |-> None, tunnel |-> None, enabled |-> FALSE]
CleanLocal  == [conf |-> None, tunnel |-> None, enabled |-> FALSE]
EmptyConfig == [own |-> None, host |-> None, peer |-> None]
NoRun == [pc |-> "idle", host |-> None, auth |-> None, auto |-> FALSE,
          own |-> None, peer |-> None, installed |-> {}]
NoUninstall ==
  [pc |-> "idle", todo |-> {}, iface |-> FALSE, pkgs |-> {}, files |-> {},
   remove |-> FALSE, keep |-> FALSE, creds |-> FALSE, left |-> {}]
EmptyMap == [h \in {} |-> None]

Init ==
  /\ exit = [h \in Host |-> CleanExit]
  /\ scripts = {}
  /\ local = CleanLocal
  /\ pkgs = {} /\ dropin = FALSE
  /\ cfg = EmptyConfig
  /\ ledger = <<>>
  /\ run = NoRun /\ un = NoUninstall
  /\ fresh = 1 /\ runs = 0 /\ faults = 0
  /\ goal = None /\ calm = TRUE /\ made = EmptyMap
  /\ ours = {}

Idle == run.pc = "idle" /\ un.pc = "idle"

Fault == faults < MaxFaults /\ faults' = faults + 1

\* The step `at` of cascade up is over, `next` follows.
Step(at, next) == run.pc = at /\ run' = [run EXCEPT !.pc = next]
-----------------------------------------------------------------------------
(***************************************************************************)
(* vlr cascade up, before it touches the exit.                             *)
(***************************************************************************)
UpStart(h, auth, auto) ==
  /\ Idle /\ runs < MaxRuns
  /\ runs' = runs + 1
  /\ run' = [NoRun EXCEPT !.pc = "install", !.host = h, !.auth = auth,
                          !.auto = auto, !.own = cfg.own]
  /\ goal' = None
  /\ calm' = (\A s \in scripts : s.host # h)
  /\ UNCHANGED <<exit, scripts, nodeVars, cfg, ledger, un, fresh, faults,
                 made, ours>>

\* ensureAmneziaWG, and ensureSshpass for a password.  What was there before
\* does not count as installed by this run.
Needed == IF run.auth = "password" THEN AptPackage ELSE {"amneziawg"}

Install ==
  /\ run.pc = "install"
  /\ pkgs' = pkgs \cup Needed
  /\ run' = [run EXCEPT !.pc = "key", !.installed = Needed \ pkgs]
  /\ UNCHANGED <<exit, scripts, local, dropin, cfg, ledger, un, fresh, runs,
                 faults, histVars>>

\* The stored key is reused; otherwise a new one, which stays in memory until
\* the configuration is saved.
OwnKey ==
  /\ Step("key", "connect")
  /\ run.own # None
  /\ UNCHANGED <<exit, scripts, nodeVars, cfg, ledger, un, fresh, runs,
                 faults, histVars>>

NewKey ==
  /\ run.pc = "key" /\ run.own = None /\ fresh \in Key
  /\ run' = [run EXCEPT !.pc = "connect", !.own = fresh]
  /\ fresh' = fresh + 1
  /\ UNCHANGED <<exit, scripts, nodeVars, cfg, ledger, un, runs, faults,
                 histVars>>

\* runSSH hands the whole script to the exit host.
Connect ==
  /\ Step("connect", "remote")
  /\ scripts' = scripts \cup
       {[id |-> runs, host |-> run.host, peer |-> run.own, auto |-> run.auto,
         own |-> None, at |-> "stop"]}
  /\ UNCHANGED <<exit, nodeVars, cfg, ledger, un, fresh, runs, faults,
                 histVars>>
-----------------------------------------------------------------------------
(***************************************************************************)
(* The script on the exit host (`set -e`: it ends at the first error).     *)
(***************************************************************************)
Advance(s, next, own) ==
  scripts' = (scripts \ {s}) \cup {[s EXCEPT !.at = next, !.own = own]}

\* Mutant: the old interface is left running.
LeaveRunning(e) == e

\* "Stop the old interface before replacing its config".
StopTunnel(e) == [e EXCEPT !.tunnel = None]

ScriptStop(s) ==
  /\ s.at = "stop" /\ Advance(s, "key", None)
  /\ exit' = [exit EXCEPT ![s.host] = StopTunnel(@)]
  /\ UNCHANGED <<nodeVars, cfg, ledger, run, un, fresh, runs, faults,
                 histVars>>

\* The host's key is made once and kept.
ScriptKey(s) ==
  /\ s.at = "key"
  /\ IF exit[s.host].key = None
     THEN /\ fresh \in Key /\ fresh' = fresh + 1
          /\ exit' = [exit EXCEPT ![s.host].key = fresh]
     ELSE UNCHANGED <<exit, fresh>>
  /\ Advance(s, "conf", exit'[s.host].key)
  /\ UNCHANGED <<nodeVars, cfg, ledger, run, un, runs, faults, histVars>>

ScriptConf(s) ==
  /\ s.at = "conf" /\ Advance(s, "enable", s.own)
  /\ exit' = [exit EXCEPT ![s.host].conf = [own |-> s.own, peer |-> s.peer]]
  /\ UNCHANGED <<nodeVars, cfg, ledger, run, un, fresh, runs, faults,
                 histVars>>

ScriptEnable(s) ==
  /\ s.at = "enable" /\ Advance(s, "start", s.own)
  /\ exit' = [exit EXCEPT ![s.host].enabled = s.auto]
  /\ UNCHANGED <<nodeVars, cfg, ledger, run, un, fresh, runs, faults,
                 histVars>>

\* `systemctl start` leaves a tunnel that runs as it is.
ScriptStart(s) ==
  /\ s.at = "start" /\ exit[s.host].conf # None
  /\ Advance(s, "answer", s.own)
  /\ exit' = [exit EXCEPT ![s.host].tunnel =
                IF @ = None THEN exit[s.host].conf ELSE @]
  /\ UNCHANGED <<nodeVars, cfg, ledger, run, un, fresh, runs, faults,
                 histVars>>

\* The script of the run in progress, as long as the connection holds.
Attached(s) == run.pc = "remote" /\ s.id = runs

\* The host's public key is the last line of the output.
ScriptAnswer(s) ==
  /\ s.at = "answer"
  /\ scripts' = scripts \ {s}
  /\ run' = IF Attached(s) THEN [run EXCEPT !.pc = "stop", !.peer = s.own]
            ELSE run
  /\ UNCHANGED <<exit, nodeVars, cfg, ledger, un, fresh, runs, faults,
                 histVars>>

\* An error ends the script, and with it the command that waits for it.  A
\* script whose connection broke may also die of that.
ScriptFails(s) ==
  /\ IF s.at = "start" /\ exit[s.host].conf = None THEN UNCHANGED faults
     ELSE Fault
  /\ scripts' = scripts \ {s}
  /\ run' = IF Attached(s) THEN NoRun ELSE run
  /\ UNCHANGED <<exit, nodeVars, cfg, ledger, un, fresh, runs, histVars>>
-----------------------------------------------------------------------------
(***************************************************************************)
(* vlr cascade up, the node's own end.                                     *)
(***************************************************************************)
\* Mutant: the exit's public key is not taken over from the answer.
NewTunnelWithoutAnswer == [own |-> run.own, host |-> run.host, peer |-> None]

NewTunnel == [own |-> run.own, host |-> run.host, peer |-> run.peer]

\* `disable --now` for a tunnel that was configured before.
UpStopOld ==
  /\ Step("stop", "write")
  /\ local' = IF local.conf = None THEN local
              ELSE [local EXCEPT !.tunnel = None, !.enabled = FALSE]
  /\ UNCHANGED <<exit, scripts, pkgs, dropin, cfg, ledger, un, fresh, runs,
                 faults, histVars>>

\* The file, then `awg-quick down` in case a tunnel still runs.
UpWrite ==
  /\ Step("write", "enable")
  /\ local' = [local EXCEPT !.conf = NewTunnel, !.tunnel = None]
  /\ UNCHANGED <<exit, scripts, pkgs, dropin, cfg, ledger, un, fresh, runs,
                 faults, histVars>>

UpEnable ==
  /\ Step("enable", "restart")
  /\ local' = [local EXCEPT !.enabled = run.auto]
  /\ UNCHANGED <<exit, scripts, pkgs, dropin, cfg, ledger, un, fresh, runs,
                 faults, histVars>>

UpRestart ==
  /\ Step("restart", "save")
  /\ local' = [local EXCEPT !.tunnel = local.conf]
  /\ goal' = run.host
  /\ UNCHANGED <<exit, scripts, pkgs, dropin, cfg, ledger, un, fresh, runs,
                 faults, calm, made, ours>>

\* config.Save, a temporary file and a rename.
UpSave ==
  /\ Step("save", "record")
  /\ cfg' = NewTunnel
  /\ UNCHANGED <<exit, scripts, nodeVars, ledger, un, fresh, runs, faults,
                 histVars>>

RecordedExit ==
  <<[kind |-> "eu-exit", target |-> run.host, auth |-> run.auth]>>

RecordedPackage(p) ==
  IF p \in run.installed
  THEN <<[kind |-> "package", target |-> p, auth |-> None]>> ELSE <<>>

\* Everything of this run, one ledger.Record after the other.
NewEntries ==
  RecordedPackage("sshpass") \o RecordedPackage("amneziawg")
    \o <<[kind |-> "wg-iface", target |-> "wg-cascade", auth |-> None]>>
    \o RecordedExit

UpRecord ==
  /\ Step("record", "handshake")
  /\ ledger' = ledger \o NewEntries
  /\ made' = [h \in DOMAIN made \cup {run.host} |->
                IF h = run.host THEN run.auth ELSE made[h]]
  /\ ours' = ours \cup run.installed
  /\ UNCHANGED <<exit, scripts, nodeVars, cfg, un, fresh, runs, faults,
                 goal, calm>>

\* Both ends run, with each other's keys.
Wired(h) ==
  /\ local.tunnel # None /\ local.tunnel.host = h
  /\ exit[h].tunnel = [own |-> local.tunnel.peer, peer |-> local.tunnel.own]

\* WaitHealthy, the daemon's restart and the site checks.  Whatever they find,
\* the command ends and leaves everything as it is.
UpHandshake ==
  /\ run.pc = "handshake"
  /\ run' = NoRun
  /\ UNCHANGED <<exit, scripts, nodeVars, cfg, ledger, un, fresh, runs,
                 faults, histVars>>

\* A step that fails ends the command.  A failed installation may have
\* installed something; nobody will record it.
UpFails ==
  /\ run.pc \notin {"idle", "remote", "record", "handshake"}
  /\ Fault
  /\ run' = NoRun
  /\ pkgs' \in IF run.pc = "install" THEN {pkgs, pkgs \cup Needed} ELSE {pkgs}
  /\ UNCHANGED <<exit, scripts, local, dropin, cfg, ledger, un, fresh, runs,
                 histVars>>

\* The connection breaks, or its 15 minutes are over: the script goes on.
ConnectionLost ==
  /\ run.pc = "remote"
  /\ Fault
  /\ run' = NoRun
  /\ UNCHANGED <<exit, scripts, nodeVars, cfg, ledger, un, fresh, runs,
                 histVars>>
-----------------------------------------------------------------------------
(***************************************************************************)
(* vlr up.  Nothing else works on what it changes, so it is one step.      *)
(***************************************************************************)
XrayEntry == [kind |-> "package", target |-> "xray", auth |-> None]
DropinEntry == [kind |-> "file", target |-> "drop-in", auth |-> None]

\* Xray by its own installer if it is missing, its record, the drop-in, its
\* record; the command may fail or be cut off before each of the last three.
VlrUp(done) ==
  LET new == IF "xray" \in pkgs THEN <<>> ELSE <<XrayEntry>>
  IN  /\ Idle /\ runs < MaxRuns
      /\ runs' = runs + 1
      /\ IF done = 4 THEN UNCHANGED faults ELSE Fault
      /\ pkgs' = pkgs \cup {"xray"}
      /\ dropin' = (dropin \/ done >= 3)
      /\ ledger' = ledger \o (IF done >= 2 THEN new ELSE <<>>)
                     \o (IF done = 4 THEN <<DropinEntry>> ELSE <<>>)
      /\ ours' = IF done < 4 THEN ours
                 ELSE ours \cup {"drop-in"} \cup ({"xray"} \ pkgs)
      /\ UNCHANGED <<exit, scripts, local, cfg, run, un, fresh, goal, calm,
                     made>>
-----------------------------------------------------------------------------
(***************************************************************************)
(* vlr uninstall.                                                          *)
(***************************************************************************)

\* Dedup: the last entry for a kind and target counts.
Dedup ==
  {ledger[i] : i \in {j \in 1 .. Len(ledger) : \A k \in j + 1 .. Len(ledger) :
     ledger[k].kind # ledger[j].kind \/ ledger[k].target # ledger[j].target}}

Recorded(kind) == {e \in Dedup : e.kind = kind}

\* Mutant: the configuration is asked first.
ConfiguredExits ==
  IF cfg.host # None THEN {[host |-> cfg.host, auth |-> "password"]}
  ELSE {[host |-> e.target, auth |-> e.auth] : e \in Recorded("eu-exit")}

\* The exits to tear down.  Only when the ledger has none, the configuration
\* is asked; it does not know a key file.
KnownExits ==
  IF Recorded("eu-exit") # {}
  THEN {[host |-> e.target, auth |-> e.auth] : e \in Recorded("eu-exit")}
  ELSE IF cfg.host # None THEN {[host |-> cfg.host, auth |-> "password"]}
  ELSE {}

\* What there is to reverse is read before the question; --skip-eu leaves the
\* exits alone, --keep-config the directory, --remove-packages asks for the
\* packages, --eu-key or --eu-pass gives credentials.
UnStart(skip, keep, remove, creds) ==
  /\ Idle /\ runs < MaxRuns
  /\ runs' = runs + 1
  /\ un' = [pc |-> "exits", todo |-> IF skip THEN {} ELSE KnownExits,
            iface |-> Recorded("wg-iface") # {} \/ cfg.host # None,
            pkgs |-> IF remove THEN {e.target : e \in Recorded("package")}
                     ELSE {},
            files |-> {e.target : e \in Recorded("file")},
            remove |-> remove, keep |-> keep, creds |-> creds,
            left |-> IF skip THEN Host ELSE {}]
  /\ goal' = None
  /\ calm' = (scripts = {})
  /\ UNCHANGED <<exit, scripts, nodeVars, cfg, ledger, run, fresh, faults,
                 made, ours>>

\* An exit that cannot be reached with what is known is skipped.
UnSkip(e) ==
  /\ un.pc = "exits" /\ e \in un.todo /\ e.auth # "key" /\ ~un.creds
  /\ un' = [un EXCEPT !.todo = @ \ {e}]
  /\ UNCHANGED <<exit, scripts, nodeVars, cfg, ledger, run, fresh, runs,
                 faults, histVars>>

\* TeardownExit: the tunnel, the unit, the configuration and the keys.
UnExit(e) ==
  /\ un.pc = "exits" /\ e \in un.todo /\ (e.auth = "key" \/ un.creds)
  /\ un' = [un EXCEPT !.todo = @ \ {e}]
  /\ exit' = [exit EXCEPT ![e.host] = CleanExit]
  /\ UNCHANGED <<scripts, nodeVars, cfg, ledger, run, fresh, runs, faults,
                 histVars>>

\* An error is printed, and the command goes on.
UnExitFails(e) ==
  /\ un.pc = "exits" /\ e \in un.todo /\ (e.auth = "key" \/ un.creds)
  /\ Fault
  /\ un' = [un EXCEPT !.todo = @ \ {e}, !.left = @ \cup {e.host}]
  /\ UNCHANGED <<exit, scripts, nodeVars, cfg, ledger, run, fresh, runs,
                 histVars>>

UnLocal ==
  /\ un.pc = "exits" /\ un.todo = {}
  /\ un' = [un EXCEPT !.pc = "packages"]
  /\ local' = IF un.iface THEN CleanLocal ELSE local
  /\ UNCHANGED <<exit, scripts, pkgs, dropin, cfg, ledger, run, fresh, runs,
                 faults, histVars>>

\* One apt-get call for all of them; a name apt does not know makes it fail,
\* and the command goes on.
UnPackages ==
  /\ un.pc = "packages"
  /\ un' = [un EXCEPT !.pc = "files"]
  /\ pkgs' = IF un.pkgs \subseteq AptPackage THEN pkgs \ un.pkgs ELSE pkgs
  /\ UNCHANGED <<exit, scripts, local, dropin, cfg, ledger, run, fresh, runs,
                 faults, histVars>>

UnFiles ==
  /\ un.pc = "files"
  /\ un' = [un EXCEPT !.pc = "config"]
  /\ dropin' = (dropin /\ "drop-in" \notin un.files)
  /\ UNCHANGED <<exit, scripts, local, pkgs, cfg, ledger, run, fresh, runs,
                 faults, histVars>>

\* The directory with the configuration and the ledger goes last; a new
\* installation starts from an empty configuration.
UnConfig ==
  /\ un.pc = "config"
  /\ un' = NoUninstall
  /\ IF un.keep THEN UNCHANGED <<cfg, ledger, made, ours>>
     ELSE /\ cfg' = EmptyConfig /\ ledger' = <<>>
          /\ made' = EmptyMap /\ ours' = {}
  /\ UNCHANGED <<exit, scripts, nodeVars, run, fresh, runs, faults, goal, calm>>
-----------------------------------------------------------------------------
(***************************************************************************)
(* The machines reboot: commands and scripts end where they are, enabled   *)
(* tunnels start from their configuration.                                 *)
(***************************************************************************)
Booted(end) ==
  [end EXCEPT !.tunnel = IF end.enabled THEN end.conf ELSE None]

RebootNode ==
  /\ Fault
  /\ local' = Booted(local)
  /\ run' = NoRun /\ un' = NoUninstall
  /\ IF run.pc = "record"
     THEN \E k \in 0 .. Len(NewEntries) - 1 :
            ledger' = ledger \o SubSeq(NewEntries, 1, k)
     ELSE UNCHANGED ledger
  /\ calm' = (calm /\ local.enabled)
  /\ UNCHANGED <<exit, scripts, pkgs, dropin, cfg, fresh, runs, goal, made,
                 ours>>

RebootExit(h) ==
  /\ Fault
  /\ exit' = [exit EXCEPT ![h] = Booted(@)]
  /\ scripts' = {s \in scripts : s.host # h}
  /\ run' = IF run.pc = "remote" /\ run.host = h THEN NoRun ELSE run
  /\ calm' = (calm /\ (exit[h].enabled \/ h \notin {goal, run.host}))
  /\ UNCHANGED <<nodeVars, cfg, ledger, un, fresh, runs, goal, made, ours>>
-----------------------------------------------------------------------------
ScriptStep(s) ==
  \/ ScriptStop(s) \/ ScriptKey(s) \/ ScriptConf(s) \/ ScriptEnable(s)
  \/ ScriptStart(s) \/ ScriptAnswer(s) \/ ScriptFails(s)

UpStep ==
  \/ \E h \in Host, auth \in Auth, auto \in BOOLEAN : UpStart(h, auth, auto)
  \/ Install \/ OwnKey \/ NewKey \/ Connect
  \/ UpStopOld \/ UpWrite \/ UpEnable \/ UpRestart \/ UpSave \/ UpRecord
  \/ UpHandshake \/ UpFails \/ ConnectionLost
  \/ \E done \in 1 .. 4 : VlrUp(done)

UnStep ==
  \/ \E skip, keep, remove, creds \in BOOLEAN :
       UnStart(skip, keep, remove, creds)
  \/ \E e \in un.todo : UnSkip(e) \/ UnExit(e) \/ UnExitFails(e)
  \/ UnLocal \/ UnPackages \/ UnFiles \/ UnConfig

Next ==
  \/ UpStep \/ UnStep \/ \E s \in scripts : ScriptStep(s)
  \/ RebootNode \/ \E h \in Host : RebootExit(h)

Spec == Init /\ [][Next]_vars
-----------------------------------------------------------------------------
(***************************************************************************)
(* Properties.                                                             *)
(***************************************************************************)
ExitTypes ==
  /\ exit \in [Host -> [key : Key \cup {None},
                        conf : ExitTunnel \cup {None},
                        tunnel : ExitTunnel \cup {None}, enabled : BOOLEAN]]
  /\ scripts \subseteq
       [id : 1 .. MaxRuns, host : Host, peer : Key, auto : BOOLEAN,
        own : Key \cup {None},
        at : {"stop", "key", "conf", "enable", "start", "answer"}]

NodeTypes ==
  /\ local \in [conf : LocalTunnel \cup {None},
                tunnel : LocalTunnel \cup {None}, enabled : BOOLEAN]
  /\ pkgs \subseteq Package /\ dropin \in BOOLEAN
  /\ cfg \in LocalTunnel \cup {EmptyConfig}
  /\ ledger \in Seq(Entry)
  /\ fresh \in 1 .. MaxKeys + 1
  /\ runs \in 0 .. MaxRuns /\ faults \in 0 .. MaxFaults

CommandTypes ==
  /\ run \in [pc : {"idle", "install", "key", "connect", "remote", "stop",
                    "write", "enable", "restart", "save", "record",
                    "handshake"},
              host : Host \cup {None}, auth : Auth \cup {None},
              auto : BOOLEAN, own : Key \cup {None}, peer : Key \cup {None},
              installed : SUBSET AptPackage]
  /\ un \in [pc : {"idle", "exits", "packages", "files", "config"},
             todo : SUBSET [host : Host, auth : Auth], iface : BOOLEAN,
             pkgs : SUBSET Package, files : SUBSET {"drop-in"},
             remove : BOOLEAN, keep : BOOLEAN, creds : BOOLEAN,
             left : SUBSET Host]
  /\ goal \in Host \cup {None} /\ calm \in BOOLEAN
  /\ DOMAIN made \subseteq Host /\ made \in [DOMAIN made -> Auth]
  /\ ours \subseteq Package \cup {"drop-in"}

\* Every variable holds what the code's types and the bounds allow; a saved
\* configuration and a written tunnel are complete.
TypeOK == ExitTypes /\ NodeTypes /\ CommandTypes

\* cascade up is repeatable: whatever an earlier run left behind (a failure or
\* a reboot at any step, on this host or another), once a run has restarted
\* the node's tunnel the two ends run with each other's keys, and from then on
\* they do after every reboot that the autostart was asked for.  It takes that
\* no script of a broken connection is still at work on that host.
TunnelStands == goal # None /\ calm => Wired(goal)

\* `vlr uninstall` reverses what completed runs set up: when it comes to its own
\* directory, every exit host of such a run is clean that the last run could
\* reach by a key file or the operator gave credentials for - whatever other
\* teardown failed -, and so are the node's end, the drop-in and, if asked for,
\* the packages.  It takes that this teardown did not fail and was not declined,
\* and for the packages that Xray is not recorded: then apt-get refuses the
\* whole list.
UninstallReverses ==
  un.pc = "config" /\ calm =>
    /\ \A h \in DOMAIN made \ un.left :
         made[h] = "key" \/ un.creds => exit[h] = CleanExit
    /\ DOMAIN made # {} => local = CleanLocal
    /\ "drop-in" \in ours => ~dropin
    /\ un.remove /\ "xray" \notin un.pkgs => pkgs \cap ours = {}

\* internal/ledger/ledger.go: the ledger is a record "of everything the install
\* touched, so `vlr uninstall` can reverse it precisely".  Between commands,
\* every exit whose tunnel runs is one that uninstall would find.  Fails: the
\* exit is recorded last, a run that ends before never records it.
EveryExitKnown ==
  Idle => \A h \in Host :
    exit[h].tunnel # None => \E e \in KnownExits : e.host = h
=============================================================================
