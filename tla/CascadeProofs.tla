---------------------------- MODULE CascadeProofs ----------------------------
(***************************************************************************)
(* Proofs about the cascade tunnel for any number of hosts, keys, commands *)
(* and faults: the types, that the two ends stand with each other's keys   *)
(* once a run has restarted the node's, and that uninstall reverses what   *)
(* completed runs set up.                                                  *)
(***************************************************************************)
EXTENDS Cascade, TLAPS, WellFoundedInduction, SequenceTheorems

\* The parts of the state, as TypeOK has them.
Script == [id : 1 .. MaxRuns, host : Host, peer : Key, auto : BOOLEAN,
           own : Key \cup {None},
           at : {"stop", "key", "conf", "enable", "start", "answer"}]
Run == [pc : {"idle", "install", "key", "connect", "remote", "stop",
              "write", "enable", "restart", "save", "record", "handshake"},
        host : Host \cup {None}, auth : Auth \cup {None},
        auto : BOOLEAN, own : Key \cup {None}, peer : Key \cup {None},
        installed : SUBSET AptPackage]
Uninstall == [pc : {"idle", "exits", "packages", "files", "config"},
              todo : SUBSET [host : Host, auth : Auth], iface : BOOLEAN,
              pkgs : SUBSET Package, files : SUBSET {"drop-in"},
              remove : BOOLEAN, keep : BOOLEAN, creds : BOOLEAN,
              left : SUBSET Host]
Exit == [key : Key \cup {None}, conf : ExitTunnel \cup {None},
         tunnel : ExitTunnel \cup {None}, enabled : BOOLEAN]
Local == [conf : LocalTunnel \cup {None}, tunnel : LocalTunnel \cup {None},
          enabled : BOOLEAN]

\* The steps after the exit has answered, and what a run holds by then.
Answered == {"stop", "write", "enable", "restart", "save", "record", "handshake"}
Ready(r) ==
  /\ r.pc # "idle" => r.host \in Host /\ r.auth \in Auth
  /\ r.pc \in {"connect", "remote"} \cup Answered => r.own \in Key
  /\ r.pc \in Answered => r.peer \in Key
Prepared ==
  /\ Ready(run)
  /\ run.pc # "idle" => runs \in 1 .. MaxRuns
  /\ \A s \in scripts : s.at \notin {"stop", "key"} => s.own \in Key
\* The inductive invariant of the types.
TypeInv == TypeOK /\ Prepared

\* No command is well typed.
LEMMA NoRunTypes == NoRun \in Run /\ Ready(NoRun) /\ NoRun.pc = "idle"
BY DEF NoRun, Run, Ready, Answered

\* Clean machines are well typed.
LEMMA CleanTypes ==
  /\ CleanExit \in Exit /\ CleanLocal \in Local /\ NoUninstall \in Uninstall
BY DEF CleanExit, CleanLocal, NoUninstall, Exit, Local, Uninstall

\* The target of a ledger entry by its kind.
LEMMA EntryTypes ==
  ASSUME NEW e \in Entry
  PROVE  /\ e.kind = "eu-exit" => e.target \in Host /\ e.auth \in Auth
         /\ e.kind = "package" => e.target \in Package
         /\ e.kind = "file" => e.target = "drop-in"
BY DEF Entry

\* A run records ledger entries.
LEMMA NewEntriesTypes ==
  ASSUME TypeInv, run.pc # "idle"
  PROVE  NewEntries \in Seq(Entry)
<1>1. run.host \in Host /\ run.auth \in Auth /\ run.installed \subseteq AptPackage
  BY DEF TypeInv, TypeOK, CommandTypes, Prepared, Ready
<1>2. RecordedExit \in Seq(Entry)
  BY <1>1 DEF RecordedExit, Entry
<1>3. ASSUME NEW p \in AptPackage PROVE RecordedPackage(p) \in Seq(Entry)
  <2>1. [kind |-> "package", target |-> p, auth |-> None] \in Entry
    BY <1>3 DEF Entry, Package
  <2> QED
    BY <2>1 DEF RecordedPackage
<1>4. <<[kind |-> "wg-iface", target |-> "wg-cascade", auth |-> None]>> \in Seq(Entry)
  BY DEF Entry
<1>5. RecordedPackage("sshpass") \in Seq(Entry) /\ RecordedPackage("amneziawg") \in Seq(Entry)
  BY <1>3 DEF AptPackage
<1> QED
  BY <1>2, <1>4, <1>5 DEF NewEntries

\* What uninstall reads are ledger entries.
LEMMA DedupTypes ==
  ASSUME TypeInv
  PROVE  Dedup \subseteq Entry
BY DEF TypeInv, TypeOK, NodeTypes, Dedup

\* The machines start well typed.
LEMMA TypeInit == Init => TypeInv
<1> SUFFICES ASSUME Init PROVE TypeInv
  OBVIOUS
<1>1. run = NoRun /\ un = NoUninstall /\ scripts = {}
  BY DEF Init
<1>2. ExitTypes
  BY CleanTypes DEF Init, ExitTypes, Exit
<1>3. NodeTypes
  <2>1. /\ pkgs = {} /\ dropin = FALSE /\ ledger = <<>> /\ fresh = 1 /\ runs = 0 /\ faults = 0
        /\ local \in Local /\ cfg = EmptyConfig
    BY CleanTypes DEF Init
  <2>2. 1 \in 1 .. MaxKeys + 1 /\ 0 \in 0 .. MaxRuns /\ 0 \in 0 .. MaxFaults
    BY CascadeAssumption
  <2>3. dropin \in BOOLEAN
    BY <2>1
  <2> QED
    BY <2>1, <2>2, <2>3 DEF NodeTypes, Local
<1>4. CommandTypes
  <2>1. calm \in BOOLEAN
    BY DEF Init
  <2>2. goal = None /\ ours = {} /\ DOMAIN made = {} /\ made \in [{} -> Auth]
    BY DEF Init, EmptyMap
  <2> QED
    BY <1>1, <2>1, <2>2, NoRunTypes, CleanTypes DEF CommandTypes, Run, Uninstall
<1>5. Prepared
  BY <1>1, NoRunTypes DEF Prepared
<1> QED
  BY <1>2, <1>3, <1>4, <1>5 DEF TypeInv, TypeOK

\* A state whose variables have their types is well typed.
LEMMA Typed ==
  ASSUME exit' \in [Host -> Exit], scripts' \subseteq Script, local' \in Local,
         pkgs' \subseteq Package, dropin' \in BOOLEAN,
         cfg' \in LocalTunnel \cup {EmptyConfig}, ledger' \in Seq(Entry),
         fresh' \in 1 .. MaxKeys + 1, runs' \in 0 .. MaxRuns, faults' \in 0 .. MaxFaults,
         run' \in Run, un' \in Uninstall, goal' \in Host \cup {None}, calm' \in BOOLEAN,
         DOMAIN made' \subseteq Host, made' \in [DOMAIN made' -> Auth],
         ours' \subseteq Package \cup {"drop-in"}, Prepared'
  PROVE  TypeInv'
<1>1. ExitTypes'
  BY DEF ExitTypes, Exit, Script
<1>2. NodeTypes'
  BY DEF NodeTypes, Local
<1>3. CommandTypes'
  BY DEF CommandTypes, Run, Uninstall
<1> QED
  BY <1>1, <1>2, <1>3 DEF TypeInv, TypeOK

\* The types of the variables, one by one.
LEMMA Types ==
  ASSUME TypeInv
  PROVE  /\ exit \in [Host -> Exit] /\ scripts \subseteq Script /\ local \in Local
         /\ pkgs \subseteq Package /\ dropin \in BOOLEAN
         /\ cfg \in LocalTunnel \cup {EmptyConfig} /\ ledger \in Seq(Entry)
         /\ fresh \in 1 .. MaxKeys + 1 /\ runs \in 0 .. MaxRuns /\ faults \in 0 .. MaxFaults
         /\ run \in Run /\ un \in Uninstall /\ goal \in Host \cup {None} /\ calm \in BOOLEAN
         /\ DOMAIN made \subseteq Host /\ made \in [DOMAIN made -> Auth]
         /\ ours \subseteq Package \cup {"drop-in"} /\ Prepared
<1>1. ExitTypes /\ NodeTypes /\ CommandTypes /\ Prepared
  BY DEF TypeInv, TypeOK
<1>2. exit \in [Host -> Exit] /\ scripts \subseteq Script
  BY <1>1 DEF ExitTypes, Exit, Script
<1>3. /\ local \in Local /\ pkgs \subseteq Package /\ dropin \in BOOLEAN
      /\ cfg \in LocalTunnel \cup {EmptyConfig} /\ ledger \in Seq(Entry)
      /\ fresh \in 1 .. MaxKeys + 1 /\ runs \in 0 .. MaxRuns /\ faults \in 0 .. MaxFaults
  BY <1>1 DEF NodeTypes, Local
<1>4. /\ run \in Run /\ un \in Uninstall /\ goal \in Host \cup {None} /\ calm \in BOOLEAN
      /\ DOMAIN made \subseteq Host /\ made \in [DOMAIN made -> Auth]
      /\ ours \subseteq Package \cup {"drop-in"}
  BY <1>1 DEF CommandTypes, Run, Uninstall
<1> QED
  BY <1>1, <1>2, <1>3, <1>4

\* Steps of cascade up that change nothing but the command.
LEMMA RunTypes ==
  ASSUME TypeInv, run' \in Run, Ready(run'), run'.pc # "idle" => run.pc # "idle",
         faults' \in 0 .. MaxFaults,
         UNCHANGED <<exit, scripts, local, dropin, cfg, ledger, un, runs, histVars>>,
         pkgs' \subseteq Package, fresh' \in 1 .. MaxKeys + 1
  PROVE  TypeInv'
<1>1. Prepared'
  BY Types DEF Prepared
<1>2. UNCHANGED <<goal, calm, made, ours>>
  BY DEF histVars
<1> QED
  BY <1>1, <1>2, Types, Typed

\* The bound on faults is kept.
LEMMA FaultTypes ==
  ASSUME TypeInv, Fault
  PROVE  faults' \in 0 .. MaxFaults
BY Types, CascadeAssumption DEF Fault

\* A step of cascade up that only moves on keeps what is prepared.
LEMMA StepTypes ==
  ASSUME TypeInv, NEW at, NEW next \in {"connect", "remote"} \cup Answered, Step(at, next),
         at # "idle", next = "connect" => run.own \in Key,
         next = "remote" => at = "connect",
         next \in Answered => at \in Answered
  PROVE  run' \in Run /\ Ready(run') /\ run'.pc = next /\ run.pc = at
BY Types DEF Step, Run, Ready, Prepared, Answered

\* cascade up starts with the stored key or none.
LEMMA UpStartTypes ==
  ASSUME TypeInv, NEW h \in Host, NEW auth \in Auth, NEW auto \in BOOLEAN,
         UpStart(h, auth, auto)
  PROVE  TypeInv'
<1>1. /\ UNCHANGED <<exit, scripts, local, pkgs, dropin, cfg, ledger, un, fresh, faults,
                     made, ours>>
      /\ goal' = None /\ runs' = runs + 1 /\ runs < MaxRuns
  BY DEF UpStart, nodeVars
<1>2. calm' \in BOOLEAN
  BY DEF UpStart
<1>3. cfg.own \in Key \cup {None}
  BY Types DEF LocalTunnel, EmptyConfig
<1>4. PICK own \in Key \cup {None} : own = cfg.own
  BY <1>3
<1>5. run' = [pc |-> "install", host |-> h, auth |-> auth, auto |-> auto, own |-> own,
              peer |-> None, installed |-> {}]
  BY <1>4 DEF UpStart, NoRun
<1>6. run' \in Run /\ Ready(run')
  BY <1>5 DEF Run, Ready, Answered
<1>7. runs' \in 0 .. MaxRuns /\ runs' \in 1 .. MaxRuns
  BY <1>1, Types, CascadeAssumption
<1>8. Prepared'
  BY <1>1, <1>6, <1>7, Types DEF Prepared
<1> QED
  BY <1>1, <1>2, <1>6, <1>7, <1>8, Types, Typed

\* What vlr up records are ledger entries.
LEMMA VlrUpTypes ==
  ASSUME TypeInv, NEW done \in 1 .. 4, VlrUp(done)
  PROVE  TypeInv'
<1> DEFINE new == IF "xray" \in pkgs THEN <<>> ELSE <<XrayEntry>>
<1>1. /\ UNCHANGED <<exit, scripts, local, cfg, run, un, fresh, goal, calm, made>>
      /\ runs' = runs + 1 /\ runs < MaxRuns /\ pkgs' = pkgs \cup {"xray"}
      /\ faults' = faults \/ Fault
  BY DEF VlrUp
<1>2. dropin' \in BOOLEAN
  <2>1. dropin' = (dropin \/ done >= 3)
    BY DEF VlrUp
  <2> QED
    BY <2>1
<1>3. ours' \subseteq Package \cup {"drop-in"}
  BY Types DEF VlrUp, Package
<1>4. pkgs' \subseteq Package
  BY <1>1, Types DEF Package
<1>5. ledger' \in Seq(Entry)
  <2>1. XrayEntry \in Entry /\ DropinEntry \in Entry
    BY DEF XrayEntry, DropinEntry, Entry, Package
  <2>2. <<XrayEntry>> \in Seq(Entry) /\ <<DropinEntry>> \in Seq(Entry) /\ <<>> \in Seq(Entry)
    BY <2>1
  <2>3. PICK x : x = (IF done >= 2 THEN new ELSE <<>>)
    OBVIOUS
  <2>4. PICK y : y = (IF done = 4 THEN <<DropinEntry>> ELSE <<>>)
    OBVIOUS
  <2>5. x \in Seq(Entry) /\ y \in Seq(Entry)
    BY <2>2, <2>3, <2>4
  <2>6. ledger' = ledger \o x \o y
    BY <2>3, <2>4 DEF VlrUp
  <2> QED
    BY <2>5, <2>6, Types
<1>6. faults' \in 0 .. MaxFaults
  BY <1>1, Types, FaultTypes
<1>7. runs' \in 0 .. MaxRuns /\ runs' \in 1 .. MaxRuns
  BY <1>1, Types, CascadeAssumption
<1>8. Prepared'
  BY <1>1, <1>7, Types DEF Prepared
<1> QED
  BY <1>1, <1>2, <1>3, <1>4, <1>5, <1>6, <1>7, <1>8, Types, Typed

\* The steps of the two up commands keep the types.
LEMMA UpTypes ==
  ASSUME TypeInv, UpStep
  PROVE  TypeInv'
<1>1. CASE Install
  <2>1. UNCHANGED <<exit, scripts, local, dropin, cfg, ledger, un, fresh, runs, faults, histVars>>
    BY <1>1 DEF Install
  <2>2. Needed \subseteq AptPackage /\ AptPackage \subseteq Package
    BY DEF Needed, AptPackage, Package
  <2>3. run' \in Run /\ Ready(run') /\ run.pc # "idle"
    BY <1>1, <2>2, Types DEF Install, Run, Ready, Prepared, Answered
  <2>4. pkgs' \subseteq Package
    BY <1>1, <2>2, Types DEF Install
  <2> QED
    BY <2>1, <2>3, <2>4, Types, RunTypes
<1>2. CASE OwnKey
  <2>1. /\ UNCHANGED <<exit, scripts, local, pkgs, dropin, cfg, ledger, un, fresh, runs,
                       faults, histVars>>
        /\ Step("key", "connect") /\ run.own # None
    BY <1>2 DEF OwnKey, nodeVars
  <2>2. run.own \in Key
    BY <2>1, Types DEF Run
  <2>3. run' \in Run /\ Ready(run') /\ run.pc # "idle"
    BY <2>1, <2>2, StepTypes DEF Answered
  <2> QED
    BY <2>1, <2>3, Types, RunTypes
<1>3. CASE NewKey
  <2>1. /\ UNCHANGED <<exit, scripts, local, pkgs, dropin, cfg, ledger, un, runs,
                       faults, histVars>>
        /\ run.pc = "key" /\ fresh \in Key /\ fresh' = fresh + 1
        /\ run' = [run EXCEPT !.pc = "connect", !.own = fresh]
    BY <1>3 DEF NewKey, nodeVars
  <2>2. run' \in Run /\ Ready(run')
    BY <2>1, Types DEF Run, Ready, Prepared, Answered
  <2>3. fresh' \in 1 .. MaxKeys + 1
    BY <2>1, CascadeAssumption DEF Key
  <2> QED
    BY <2>1, <2>2, <2>3, Types, RunTypes
<1>4. CASE Connect
  <2>1. /\ UNCHANGED <<exit, local, pkgs, dropin, cfg, ledger, un, fresh, runs,
                       faults, goal, calm, made, ours>>
        /\ Step("connect", "remote")
    BY <1>4 DEF Connect, nodeVars, histVars
  <2>2. run' \in Run /\ Ready(run') /\ run.pc = "connect"
    BY <2>1, StepTypes DEF Answered
  <2>3. PICK s : /\ s = [id |-> runs, host |-> run.host, peer |-> run.own,
                         auto |-> run.auto, own |-> None, at |-> "stop"]
                 /\ scripts' = scripts \cup {s}
    BY <1>4 DEF Connect
  <2>4. run.host \in Host /\ run.own \in Key /\ run.auto \in BOOLEAN /\ runs \in 1 .. MaxRuns
    BY <2>2, Types DEF Prepared, Ready, Run
  <2>5. s \in Script /\ s.at = "stop"
    BY <2>3, <2>4 DEF Script
  <2>6. Prepared'
    BY <2>1, <2>2, <2>3, <2>4, <2>5, Types DEF Prepared
  <2> QED
    BY <2>1, <2>2, <2>3, <2>5, <2>6, Types, Typed
<1>5. NewTunnel \in LocalTunnel \/ run.pc \notin Answered
  BY Types DEF NewTunnel, LocalTunnel, Prepared, Ready, Answered
<1>6. CASE UpStopOld \/ UpWrite \/ UpEnable
  <2>1. /\ UNCHANGED <<exit, scripts, pkgs, dropin, cfg, ledger, un, fresh, runs,
                       faults, goal, calm, made, ours>>
        /\ \/ Step("stop", "write") \/ Step("write", "enable") \/ Step("enable", "restart")
    BY <1>6 DEF UpStopOld, UpWrite, UpEnable, histVars
  <2>2. run' \in Run /\ Ready(run') /\ run.pc # "idle" /\ run.pc \in Answered
    BY <2>1, StepTypes DEF Answered
  <2>3. local' \in Local
    <3>1. CASE UpStopOld
      BY <3>1, Types DEF UpStopOld, Local
    <3>2. CASE UpWrite
      BY <1>5, <2>2, <3>2, Types DEF UpWrite, Local
    <3>3. CASE UpEnable
      BY <3>3, Types DEF UpEnable, Local, Run
    <3> QED
      BY <1>6, <3>1, <3>2, <3>3
  <2>4. Prepared'
    BY <2>1, <2>2, Types DEF Prepared
  <2> QED
    BY <2>1, <2>2, <2>3, <2>4, Types, Typed
<1>7. CASE UpRestart
  <2>1. /\ UNCHANGED <<exit, scripts, pkgs, dropin, cfg, ledger, un, fresh, runs,
                       faults, calm, made, ours>>
        /\ Step("restart", "save") /\ goal' = run.host
        /\ local' = [local EXCEPT !.tunnel = local.conf]
    BY <1>7 DEF UpRestart
  <2>2. run' \in Run /\ Ready(run') /\ run.pc # "idle"
    BY <2>1, StepTypes DEF Answered
  <2>3. local' \in Local /\ goal' \in Host \cup {None}
    BY <2>1, Types DEF Local, Run
  <2>4. Prepared'
    BY <2>1, <2>2, Types DEF Prepared
  <2> QED
    BY <2>1, <2>2, <2>3, <2>4, Types, Typed
<1>8. CASE UpSave
  <2>1. /\ UNCHANGED <<exit, scripts, local, pkgs, dropin, ledger, un, fresh, runs,
                       faults, goal, calm, made, ours>>
        /\ Step("save", "record") /\ cfg' = NewTunnel
    BY <1>8 DEF UpSave, histVars, nodeVars
  <2>2. run' \in Run /\ Ready(run') /\ run.pc \in Answered /\ run.pc # "idle"
    BY <2>1, StepTypes DEF Answered
  <2>3. Prepared'
    BY <2>1, <2>2, Types DEF Prepared
  <2> QED
    BY <1>5, <2>1, <2>2, <2>3, Types, Typed
<1>9. CASE UpRecord
  <2>1. /\ UNCHANGED <<exit, scripts, local, pkgs, dropin, cfg, un, fresh, runs,
                       faults, goal, calm>>
        /\ Step("record", "handshake") /\ ledger' = ledger \o NewEntries
    BY <1>9 DEF UpRecord, nodeVars
  <2>2. run' \in Run /\ Ready(run') /\ run.pc # "idle"
    BY <2>1, StepTypes DEF Answered
  <2>3. Prepared'
    BY <2>1, <2>2, Types DEF Prepared
  <2>4. ledger' \in Seq(Entry)
    BY <2>1, <2>2, NewEntriesTypes, Types
  <2>5. DOMAIN made' \subseteq Host /\ made' \in [DOMAIN made' -> Auth]
    BY <1>9, <2>2, Types DEF UpRecord, Prepared, Ready
  <2>6. ours' \subseteq Package \cup {"drop-in"}
    BY <1>9, Types DEF UpRecord, Run, Package
  <2> QED
    BY <2>1, <2>2, <2>3, <2>4, <2>5, <2>6, Types, Typed
<1>10. CASE UpHandshake \/ ConnectionLost
  <2>1. /\ UNCHANGED <<exit, scripts, local, pkgs, dropin, cfg, ledger, un, fresh, runs,
                       histVars>>
        /\ run' = NoRun /\ (faults' = faults \/ Fault)
    BY <1>10 DEF UpHandshake, ConnectionLost, nodeVars
  <2> QED
    BY <2>1, Types, NoRunTypes, FaultTypes, RunTypes
<1>11. CASE UpFails
  <2>1. Needed \subseteq AptPackage /\ AptPackage \subseteq Package
    BY DEF Needed, AptPackage, Package
  <2>2. /\ UNCHANGED <<exit, scripts, local, dropin, cfg, ledger, un, fresh, runs, histVars>>
        /\ run' = NoRun /\ Fault /\ (pkgs' = pkgs \/ pkgs' = pkgs \cup Needed)
    BY <1>11 DEF UpFails
  <2> QED
    BY <2>1, <2>2, Types, NoRunTypes, FaultTypes, RunTypes
<1> QED
  BY <1>1, <1>2, <1>3, <1>4, <1>6, <1>7, <1>8, <1>9, <1>10, <1>11, UpStartTypes, VlrUpTypes
  DEF UpStep

\* Steps of uninstall, which cascade up does not meet.
LEMMA UnTypes ==
  ASSUME TypeInv, UnStep
  PROVE  TypeInv'
<1>1. ASSUME NEW skip \in BOOLEAN, NEW keep \in BOOLEAN, NEW remove \in BOOLEAN,
             NEW creds \in BOOLEAN, UnStart(skip, keep, remove, creds)
      PROVE  TypeInv'
  <2>1. /\ UNCHANGED <<exit, scripts, local, pkgs, dropin, cfg, ledger, run, fresh, faults,
                       made, ours>>
        /\ goal' = None /\ runs' = runs + 1 /\ runs < MaxRuns /\ run.pc = "idle"
    BY <1>1 DEF UnStart, nodeVars, Idle
  <2>2. calm' \in BOOLEAN
    BY <1>1 DEF UnStart
  <2>3. runs' \in 0 .. MaxRuns
    BY <2>1, Types, CascadeAssumption
  <2>4. Prepared'
    BY <2>1, Types DEF Prepared
  <2>5. KnownExits \subseteq [host : Host, auth : Auth]
    <3>1. \A e \in Recorded("eu-exit") : e.target \in Host /\ e.auth \in Auth
      BY DedupTypes, EntryTypes DEF Recorded
    <3>2. cfg.host # None => cfg.host \in Host
      BY Types DEF LocalTunnel, EmptyConfig
    <3> QED
      BY <3>1, <3>2 DEF KnownExits, Auth
  <2>6. PICK todo : todo = IF skip THEN {} ELSE KnownExits
    OBVIOUS
  <2>7. PICK ps : ps = IF remove THEN {e.target : e \in Recorded("package")} ELSE {}
    OBVIOUS
  <2>8. PICK fs : fs = {e.target : e \in Recorded("file")}
    OBVIOUS
  <2>9. PICK left : left = IF skip THEN Host ELSE {}
    OBVIOUS
  <2>10. PICK iface \in BOOLEAN : iface = (Recorded("wg-iface") # {} \/ cfg.host # None)
    OBVIOUS
  <2>11. todo \subseteq [host : Host, auth : Auth] /\ left \subseteq Host
    BY <2>5, <2>6, <2>9
  <2>12. ps \subseteq Package /\ fs \subseteq {"drop-in"}
    BY <2>7, <2>8, DedupTypes, EntryTypes DEF Recorded
  <2>13. un' = [pc |-> "exits", todo |-> todo, iface |-> iface, pkgs |-> ps, files |-> fs,
                remove |-> remove, keep |-> keep, creds |-> creds, left |-> left]
    BY <1>1, <2>6, <2>7, <2>8, <2>9, <2>10, Zenon DEF UnStart
  <2>14. un' \in Uninstall
    BY <2>11, <2>12, <2>13 DEF Uninstall
  <2> QED
    BY <2>1, <2>2, <2>3, <2>4, <2>14, Types, Typed
<1>2. ASSUME un' \in Uninstall, exit' \in [Host -> Exit], faults' \in 0 .. MaxFaults,
             UNCHANGED <<scripts, nodeVars, cfg, ledger, run, fresh, runs, histVars>>
      PROVE  TypeInv'
  <2>1. UNCHANGED <<scripts, local, pkgs, dropin, cfg, ledger, run, fresh, runs,
                    goal, calm, made, ours>>
    BY <1>2 DEF nodeVars, histVars
  <2>2. Prepared'
    BY <2>1, Types DEF Prepared
  <2> QED
    BY <1>2, <2>1, <2>2, Types, Typed
<1>3. ASSUME NEW e \in un.todo, UnSkip(e) \/ UnExit(e) \/ UnExitFails(e)
      PROVE  TypeInv'
  <2>1. e.host \in Host
    BY Types DEF Uninstall
  <2>2. CASE UnSkip(e)
    <3>1. un' \in Uninstall /\ exit' = exit /\ faults' = faults
      BY <2>2, Types DEF UnSkip, Uninstall
    <3> QED
      BY <1>2, <2>2, <3>1, Types DEF UnSkip
  <2>3. CASE UnExit(e)
    <3>1. un' \in Uninstall /\ exit' \in [Host -> Exit] /\ faults' = faults
      BY <2>3, Types, CleanTypes DEF UnExit, Uninstall
    <3> QED
      BY <1>2, <2>3, <3>1, Types DEF UnExit
  <2>4. CASE UnExitFails(e)
    <3>1. un' \in Uninstall /\ exit' = exit
      BY <2>1, <2>4, Types DEF UnExitFails, Uninstall
    <3>2. faults' \in 0 .. MaxFaults
      BY <2>4, FaultTypes DEF UnExitFails
    <3> QED
      BY <1>2, <2>4, <3>1, <3>2, Types DEF UnExitFails
  <2> QED
    BY <1>3, <2>2, <2>3, <2>4
<1>4. CASE UnLocal
  <2>1. /\ UNCHANGED <<exit, scripts, pkgs, dropin, cfg, ledger, run, fresh, runs, faults,
                       goal, calm, made, ours>>
        /\ un' = [un EXCEPT !.pc = "packages"]
    BY <1>4 DEF UnLocal, histVars
  <2>2. local' \in Local
    BY <1>4, Types, CleanTypes DEF UnLocal
  <2>3. un' \in Uninstall /\ Prepared'
    BY <2>1, Types DEF Uninstall, Prepared
  <2> QED
    BY <2>1, <2>2, <2>3, Types, Typed
<1>5. CASE UnPackages
  <2>1. /\ UNCHANGED <<exit, scripts, local, dropin, cfg, ledger, run, fresh, runs, faults,
                       goal, calm, made, ours>>
        /\ un' = [un EXCEPT !.pc = "files"]
    BY <1>5 DEF UnPackages, histVars
  <2>2. pkgs' \subseteq Package
    BY <1>5, Types DEF UnPackages
  <2>3. un' \in Uninstall /\ Prepared'
    BY <2>1, Types DEF Uninstall, Prepared
  <2> QED
    BY <2>1, <2>2, <2>3, Types, Typed
<1>6. CASE UnFiles
  <2>1. /\ UNCHANGED <<exit, scripts, local, pkgs, cfg, ledger, run, fresh, runs, faults,
                       goal, calm, made, ours>>
        /\ un' = [un EXCEPT !.pc = "config"]
    BY <1>6 DEF UnFiles, histVars
  <2>2. dropin' \in BOOLEAN
    BY <1>6 DEF UnFiles
  <2>3. un' \in Uninstall /\ Prepared'
    BY <2>1, Types DEF Uninstall, Prepared
  <2> QED
    BY <2>1, <2>2, <2>3, Types, Typed
<1>7. CASE UnConfig
  <2>1. /\ UNCHANGED <<exit, scripts, local, pkgs, dropin, run, fresh, runs, faults,
                       goal, calm>>
        /\ un' = NoUninstall
    BY <1>7 DEF UnConfig, nodeVars
  <2>2. \/ UNCHANGED <<cfg, ledger, made, ours>>
        \/ cfg' = EmptyConfig /\ ledger' = <<>> /\ made' = EmptyMap /\ ours' = {}
    BY <1>7 DEF UnConfig
  <2>3. <<>> \in Seq(Entry) /\ DOMAIN EmptyMap = {} /\ EmptyMap \in [{} -> Auth]
    BY DEF EmptyMap
  <2>4. /\ cfg' \in LocalTunnel \cup {EmptyConfig} /\ ledger' \in Seq(Entry)
        /\ DOMAIN made' \subseteq Host /\ made' \in [DOMAIN made' -> Auth]
        /\ ours' \subseteq Package \cup {"drop-in"}
    BY <2>2, <2>3, Types
  <2>5. un' \in Uninstall /\ Prepared'
    BY <2>1, Types, CleanTypes DEF Prepared
  <2> QED
    BY <2>1, <2>4, <2>5, Types, Typed
<1> QED
  BY <1>1, <1>3, <1>4, <1>5, <1>6, <1>7 DEF UnStep

\* A step of a script: the exit and the script change together.
LEMMA ScriptTypes ==
  ASSUME TypeInv, NEW s \in scripts, ScriptStep(s)
  PROVE  TypeInv'
<1>1. s \in Script /\ s.host \in Host /\ s.peer \in Key /\ exit[s.host] \in Exit
  BY Types DEF Script
<1>2. ASSUME exit' \in [Host -> Exit], fresh' \in 1 .. MaxKeys + 1,
             faults' \in 0 .. MaxFaults, run' \in Run, Ready(run'),
             run'.pc # "idle" => run.pc # "idle",
             UNCHANGED <<nodeVars, cfg, ledger, un, runs, histVars>>,
             \/ scripts' = scripts \ {s}
             \/ \E next \in {"stop", "key", "conf", "enable", "start", "answer"},
                   own \in Key \cup {None} :
                  Advance(s, next, own) /\ (next \in {"stop", "key"} \/ own \in Key)
      PROVE  TypeInv'
  <2>1. UNCHANGED <<local, pkgs, dropin, cfg, ledger, un, runs, goal, calm, made, ours>>
    BY <1>2 DEF nodeVars, histVars
  <2>2. scripts' \subseteq Script
        /\ \A x \in scripts' : x.at \notin {"stop", "key"} => x.own \in Key
    <3>1. CASE scripts' = scripts \ {s}
      BY <3>1, Types DEF Prepared
    <3>2. ASSUME NEW next \in {"stop", "key", "conf", "enable", "start", "answer"},
                 NEW own \in Key \cup {None}, Advance(s, next, own),
                 next \in {"stop", "key"} \/ own \in Key
          PROVE  /\ scripts' \subseteq Script
                 /\ \A x \in scripts' : x.at \notin {"stop", "key"} => x.own \in Key
      <4>1. PICK y : y = [s EXCEPT !.at = next, !.own = own]
        OBVIOUS
      <4>2. y \in Script /\ y.at = next /\ y.own = own
        BY <1>1, <4>1 DEF Script
      <4>3. scripts' = (scripts \ {s}) \cup {y}
        BY <3>2, <4>1 DEF Advance
      <4> QED
        BY <3>2, <4>2, <4>3, Types DEF Prepared
    <3> QED
      BY <1>2, <3>1, <3>2
  <2>3. Prepared'
    BY <1>2, <2>1, <2>2, Types DEF Prepared
  <2> QED
    BY <1>2, <2>1, <2>2, <2>3, Types, Typed
<1>3. run \in Run /\ Ready(run)
  BY Types DEF Prepared
<1>4. s.at \notin {"stop", "key"} => s.own \in Key
  BY Types DEF Prepared
<1>5. CASE ScriptStop(s)
  <2>1. exit' \in [Host -> Exit]
    BY <1>1, <1>5, Types DEF ScriptStop, StopTunnel, Exit
  <2> QED
    BY <1>2, <1>3, <1>5, <2>1, Types DEF ScriptStop
<1>6. CASE ScriptKey(s)
  <2>1. exit' \in [Host -> Exit] /\ exit'[s.host].key \in Key /\ fresh' \in 1 .. MaxKeys + 1
    <3>1. CASE exit[s.host].key = None
      <4>1. fresh \in Key /\ fresh' = fresh + 1 /\ exit' = [exit EXCEPT ![s.host].key = fresh]
        BY <1>6, <3>1 DEF ScriptKey
      <4>2. fresh' \in 1 .. MaxKeys + 1
        BY <4>1, CascadeAssumption DEF Key
      <4> QED
        BY <1>1, <4>1, <4>2, Types DEF Exit
    <3>2. CASE exit[s.host].key # None
      BY <1>1, <1>6, <3>2, Types DEF ScriptKey, Exit
    <3> QED
      BY <3>1, <3>2
  <2>2. PICK own \in Key : own = exit'[s.host].key
    BY <2>1
  <2>3. /\ UNCHANGED <<nodeVars, cfg, ledger, run, un, runs, faults, histVars>>
        /\ Advance(s, "conf", own)
    BY <1>6, <2>2 DEF ScriptKey
  <2> QED
    BY <1>2, <1>3, <2>1, <2>3, Types
<1>7. CASE ScriptConf(s)
  <2>1. s.own \in Key /\ [own |-> s.own, peer |-> s.peer] \in ExitTunnel
    BY <1>1, <1>4, <1>7 DEF ScriptConf, ExitTunnel
  <2>2. exit' \in [Host -> Exit]
    BY <1>1, <1>7, <2>1, Types DEF ScriptConf, Exit
  <2> QED
    BY <1>2, <1>3, <1>7, <2>1, <2>2, Types DEF ScriptConf
<1>8. CASE ScriptEnable(s)
  <2>1. s.own \in Key /\ s.auto \in BOOLEAN
    BY <1>1, <1>4, <1>8 DEF ScriptEnable, Script
  <2>2. exit' \in [Host -> Exit]
    BY <1>1, <1>8, <2>1, Types DEF ScriptEnable, Exit
  <2> QED
    BY <1>2, <1>3, <1>8, <2>1, <2>2, Types DEF ScriptEnable
<1>9. CASE ScriptStart(s)
  <2>1. s.own \in Key
    BY <1>4, <1>9 DEF ScriptStart
  <2>2. exit' \in [Host -> Exit]
    BY <1>1, <1>9, Types DEF ScriptStart, Exit
  <2> QED
    BY <1>2, <1>3, <1>9, <2>1, <2>2, Types DEF ScriptStart
<1>10. CASE ScriptAnswer(s)
  <2>1. s.own \in Key
    BY <1>4, <1>10 DEF ScriptAnswer
  <2>2. run' \in Run /\ Ready(run') /\ (run'.pc # "idle" => run.pc # "idle")
    <3>1. CASE Attached(s)
      <4>1. run.pc = "remote" /\ run' = [run EXCEPT !.pc = "stop", !.peer = s.own]
        BY <1>10, <3>1 DEF ScriptAnswer, Attached
      <4> QED
        BY <1>3, <2>1, <4>1 DEF Run, Ready, Answered
    <3>2. CASE ~Attached(s)
      BY <1>3, <1>10, <3>2 DEF ScriptAnswer
    <3> QED
      BY <3>1, <3>2
  <2> QED
    BY <1>2, <1>10, <2>2, Types DEF ScriptAnswer
<1>11. CASE ScriptFails(s)
  <2>1. faults' \in 0 .. MaxFaults
    <3>1. faults' = faults \/ Fault
      BY <1>11 DEF ScriptFails
    <3> QED
      BY <3>1, Types, FaultTypes
  <2>2. /\ UNCHANGED <<exit, nodeVars, cfg, ledger, un, fresh, runs, histVars>>
        /\ scripts' = scripts \ {s} /\ (run' = NoRun \/ run' = run)
    BY <1>11 DEF ScriptFails
  <2>3. run' \in Run /\ Ready(run') /\ (run'.pc # "idle" => run.pc # "idle")
    BY <1>3, <2>2, NoRunTypes
  <2> QED
    BY <1>2, <2>1, <2>2, <2>3, Types
<1> QED
  BY <1>5, <1>6, <1>7, <1>8, <1>9, <1>10, <1>11 DEF ScriptStep

\* A machine that reboots keeps the types.
LEMMA RebootTypes ==
  ASSUME TypeInv, RebootNode \/ \E h \in Host : RebootExit(h)
  PROVE  TypeInv'
<1>1. CASE RebootNode
  <2>1. /\ UNCHANGED <<exit, scripts, pkgs, dropin, cfg, fresh, runs, goal, made, ours>>
        /\ run' = NoRun /\ un' = NoUninstall /\ local' = Booted(local) /\ Fault
    BY <1>1 DEF RebootNode
  <2>2. local' \in Local
    BY <2>1, Types DEF Booted, Local
  <2>3. calm' \in BOOLEAN
    BY <1>1 DEF RebootNode
  <2>4. ledger' \in Seq(Entry)
    <3>1. CASE run.pc = "record"
      <4>1. PICK k \in 0 .. Len(NewEntries) - 1 :
              ledger' = ledger \o SubSeq(NewEntries, 1, k)
        BY <1>1, <3>1 DEF RebootNode
      <4>2. NewEntries \in Seq(Entry)
        BY <3>1, NewEntriesTypes
      <4> HIDE DEF NewEntries
      <4>3. SubSeq(NewEntries, 1, k) \in Seq(Entry)
        BY <4>1, <4>2
      <4> QED
        BY <4>1, <4>3, Types
    <3>2. CASE run.pc # "record"
      BY <1>1, <3>2, Types DEF RebootNode
    <3> QED
      BY <3>1, <3>2
  <2>5. Prepared'
    BY <2>1, NoRunTypes, Types DEF Prepared
  <2> QED
    BY <2>1, <2>2, <2>3, <2>4, <2>5, NoRunTypes, CleanTypes, FaultTypes, Types, Typed
<1>2. ASSUME NEW h \in Host, RebootExit(h) PROVE TypeInv'
  <2>1. /\ UNCHANGED <<local, pkgs, dropin, cfg, ledger, un, fresh, runs, goal, made, ours>>
        /\ scripts' \subseteq scripts /\ (run' = NoRun \/ run' = run) /\ Fault
        /\ exit' = [exit EXCEPT ![h] = Booted(@)]
    BY <1>2 DEF RebootExit, nodeVars
  <2>2. exit' \in [Host -> Exit]
    BY <2>1, Types DEF Booted, Exit
  <2>3. calm' \in BOOLEAN
    BY <1>2 DEF RebootExit
  <2>4. run' \in Run /\ Prepared'
    BY <2>1, NoRunTypes, Types DEF Prepared
  <2> QED
    BY <2>1, <2>2, <2>3, <2>4, FaultTypes, Types, Typed
<1> QED
  BY <1>1, <1>2

\* Every step keeps the types.
LEMMA TypeNext ==
  ASSUME TypeInv, [Next]_vars
  PROVE  TypeInv'
<1>1. CASE UNCHANGED vars
  BY <1>1 DEF vars, nodeVars, histVars, TypeInv, TypeOK, ExitTypes, NodeTypes, CommandTypes,
              Prepared
<1> QED
  BY <1>1, UpTypes, UnTypes, ScriptTypes, RebootTypes DEF Next

\* Every state of exits, node, ledger and commands is well typed, for any number
\* of hosts, keys, commands and faults; what a run writes and saves is complete.
THEOREM TypeCorrect == Spec => []TypeOK
<1>1. TypeInv => TypeOK
  BY DEF TypeInv
<1>2. TypeInv /\ [Next]_vars => TypeInv'
  BY TypeNext
<1> QED
  BY <1>1, <1>2, TypeInit, PTL DEF Spec

\* Who is at work, and which scripts belong to the run in progress.
Ordered ==
  /\ run.pc = "idle" \/ un.pc = "idle"
  /\ goal # None => un.pc = "idle" /\ run.pc \in {"idle", "save", "record", "handshake"}
  /\ \A s \in scripts : s.id <= runs
  /\ run.pc \in {"install", "key", "connect"} => \A s \in scripts : s.id # runs
  /\ run.pc = "remote" =>
       \A s \in scripts : s.id = runs => s.host = run.host /\ s.peer = run.own

Quiet(h) == \A s \in scripts : s.host # h

\* What the exit of the run holds once its script has answered.
Pair == [own |-> run.peer, peer |-> run.own]

\* How far the script of the run has brought the exit.
Progress(s) ==
  LET e == exit[s.host]
  IN  /\ s.id = runs
      /\ s.at \notin {"stop", "answer"} => e.tunnel = None
      /\ s.at \in {"enable", "start", "answer"} => e.conf = [own |-> s.own, peer |-> s.peer]
      /\ s.at = "answer" => e.tunnel = e.conf

\* Step by step: nobody else at work on the exit, the exit brought up by the one
\* script of the run, the exit up, the own file written, both ends up.
Before == run.pc \in {"install", "key", "connect"} => Quiet(run.host)
During ==
  run.pc = "remote" =>
    \A s \in scripts : s.host = run.host =>
      Progress(s) /\ \A t \in scripts : t.host = run.host => t = s
After ==
  run.pc \in {"stop", "write", "enable", "restart"} =>
    Quiet(run.host) /\ exit[run.host].tunnel = Pair /\ exit[run.host].conf = Pair
Written == run.pc \in {"enable", "restart"} => local.conf = NewTunnel
Standing ==
  goal # None =>
    /\ Quiet(goal) /\ Wired(goal)
    /\ exit[goal].conf = exit[goal].tunnel /\ local.conf = local.tunnel
\* The inductive invariant of TunnelStands.
Stands == calm => Before /\ During /\ After /\ Written /\ Standing

\* Every step keeps the scripts and the commands in order.
LEMMA OrderedNext ==
  ASSUME TypeInv, Ordered, [Next]_vars
  PROVE  Ordered'
<1>1. /\ NoRun.pc = "idle" /\ NoUninstall.pc = "idle" /\ run \in Run /\ un \in Uninstall
      /\ runs \in Nat /\ \A s \in scripts : s.id \in Nat
      /\ scripts \subseteq Script
  BY Types, CascadeAssumption DEF NoRun, NoUninstall, Script
<1>2. CASE UNCHANGED vars
  BY <1>2 DEF vars, histVars, Ordered
<1>3. ASSUME run' = NoRun, scripts' \subseteq scripts, UNCHANGED <<goal, runs>>,
             un' = un \/ un' = NoUninstall
      PROVE  Ordered'
  BY <1>1, <1>3 DEF Ordered
<1>4. ASSUME run'.pc = run.pc, run'.host = run.host, run'.own = run.own,
             un'.pc = un.pc \/ (run.pc = "idle" /\ un.pc # "idle"),
             UNCHANGED <<goal, runs>>,
             \A s \in scripts' : s \in scripts \/ \E t \in scripts :
                s.id = t.id /\ s.host = t.host /\ s.peer = t.peer
      PROVE  Ordered'
  BY <1>1, <1>4 DEF Ordered
<1>a. ASSUME run' = run, UNCHANGED <<un, goal, runs>>, scripts' \subseteq scripts
      PROVE  Ordered'
  BY <1>1, <1>a DEF Ordered
<1>5. CASE UpStep
  <2>1. ASSUME NEW h \in Host, NEW auth \in Auth, NEW auto \in BOOLEAN,
               UpStart(h, auth, auto)
        PROVE  Ordered'
    <3>1. /\ goal' = None /\ runs' = runs + 1 /\ un' = un /\ scripts' = scripts
          /\ un.pc = "idle" /\ run'.pc = "install"
      BY <2>1 DEF UpStart, Idle, NoRun
    <3>2. \A s \in scripts : s.id <= runs' /\ s.id # runs'
      BY <1>1, <3>1 DEF Ordered
    <3> QED
      BY <3>1, <3>2 DEF Ordered
  <2>2. CASE Install \/ OwnKey \/ NewKey
    <3>1. /\ run.pc \in {"install", "key"} /\ run'.pc \in {"key", "connect"}
          /\ UNCHANGED <<scripts, un, runs, goal>>
      BY <1>1, <2>2 DEF Install, OwnKey, NewKey, Step, histVars, Run
    <3> QED
      BY <3>1 DEF Ordered
  <2>3. CASE Connect
    <3>1. /\ run.pc = "connect" /\ run' = [run EXCEPT !.pc = "remote"]
          /\ UNCHANGED <<un, runs, goal>>
      BY <2>3 DEF Connect, Step, histVars
    <3> DEFINE new == [id |-> runs, host |-> run.host, peer |-> run.own,
                       auto |-> run.auto, own |-> None, at |-> "stop"]
    <3>a. PICK x : x = new
      OBVIOUS
    <3>b. scripts' = scripts \cup {new}
      BY <2>3 DEF Connect
    <3>2. /\ scripts' = scripts \cup {x}
          /\ x.id = runs /\ x.host = run.host /\ x.peer = run.own
      BY <3>a, <3>b
    <3> HIDE DEF new
    <3>3. run'.pc = "remote" /\ run'.host = run.host /\ run'.own = run.own
      BY <1>1, <3>1 DEF Run
    <3>4. /\ \A s \in scripts' : s.id <= runs'
          /\ \A s \in scripts' : s.id = runs' => s = x
      BY <1>1, <3>1, <3>2 DEF Ordered
    <3> QED
      BY <3>1, <3>2, <3>3, <3>4 DEF Ordered
  <2>4. CASE UpStopOld \/ UpWrite \/ UpEnable \/ UpSave \/ UpRecord
    <3>1. UNCHANGED <<scripts, un, runs, goal>>
      BY <2>4 DEF UpStopOld, UpWrite, UpEnable, UpSave, UpRecord, histVars
    <3>2. CASE UpStopOld \/ UpWrite \/ UpEnable
      <4>1. /\ run.pc \in {"stop", "write", "enable"}
            /\ run'.pc \in {"write", "enable", "restart"}
        BY <1>1, <3>2 DEF UpStopOld, UpWrite, UpEnable, Step, Run
      <4> QED
        BY <3>1, <4>1 DEF Ordered
    <3>3. CASE UpSave \/ UpRecord
      <4>1. run.pc \in {"save", "record"} /\ run'.pc \in {"record", "handshake"}
        BY <1>1, <3>3 DEF UpSave, UpRecord, Step, Run
      <4> QED
        BY <3>1, <4>1 DEF Ordered
    <3> QED
      BY <2>4, <3>2, <3>3
  <2>5. CASE UpRestart
    <3>1. run.pc = "restart" /\ run'.pc = "save" /\ UNCHANGED <<scripts, un, runs>>
      BY <1>1, <2>5 DEF UpRestart, Step, Run
    <3> QED
      BY <3>1 DEF Ordered
  <2>6. CASE UpHandshake \/ UpFails \/ ConnectionLost
    BY <1>3, <2>6 DEF UpHandshake, UpFails, ConnectionLost, histVars
  <2>7. ASSUME NEW done \in 1 .. 4, VlrUp(done) PROVE Ordered'
    <3>1. runs' = runs + 1 /\ UNCHANGED <<scripts, run, un, goal>> /\ run.pc = "idle"
      BY <2>7 DEF VlrUp, Idle
    <3> QED
      BY <1>1, <3>1 DEF Ordered
  <2> QED
    BY <1>5, <2>1, <2>2, <2>3, <2>4, <2>5, <2>6, <2>7 DEF UpStep
<1>6. CASE UnStep
  <2>1. ASSUME NEW skip, NEW keep, NEW remove, NEW creds,
               UnStart(skip, keep, remove, creds)
        PROVE  Ordered'
    <3>1. runs' = runs + 1 /\ UNCHANGED <<scripts, run>> /\ run.pc = "idle" /\ goal' = None
      BY <2>1 DEF UnStart, Idle
    <3> QED
      BY <1>1, <3>1 DEF Ordered
  <2>2. CASE ~\E skip, keep, remove, creds \in BOOLEAN :
                UnStart(skip, keep, remove, creds)
    <3>1. UNCHANGED <<scripts, run, runs, goal>> /\ un.pc # "idle"
      BY <1>6, <2>2 DEF UnStep, UnSkip, UnExit, UnExitFails, UnLocal, UnPackages, UnFiles,
                        UnConfig, histVars
    <3> QED
      BY <3>1 DEF Ordered
  <2> QED
    BY <2>1, <2>2
<1>7. ASSUME NEW s \in scripts, ScriptStep(s) PROVE Ordered'
  <2>1. ASSUME NEW next, NEW own, Advance(s, next, own), UNCHANGED <<run, un, runs, goal>>
        PROVE  Ordered'
    <3>1. PICK y : y = [s EXCEPT !.at = next, !.own = own]
      OBVIOUS
    <3>2. y.id = s.id /\ y.host = s.host /\ y.peer = s.peer
      BY <1>1, <3>1 DEF Script
    <3>3. scripts' = (scripts \ {s}) \cup {y}
      BY <2>1, <3>1 DEF Advance
    <3>4. \A r \in scripts' : r \in scripts \/ \E t \in scripts :
             r.id = t.id /\ r.host = t.host /\ r.peer = t.peer
      BY <1>7, <3>2, <3>3
    <3>5. /\ run'.pc = run.pc /\ run'.host = run.host /\ run'.own = run.own
          /\ un'.pc = un.pc /\ UNCHANGED <<goal, runs>>
      BY <2>1
    <3> QED
      BY <1>1, <3>4, <3>5 DEF Ordered
  <2>2. CASE ScriptStop(s) \/ ScriptKey(s) \/ ScriptConf(s) \/ ScriptEnable(s) \/ ScriptStart(s)
    <3>1. UNCHANGED <<run, un, runs, goal>>
      BY <2>2 DEF ScriptStop, ScriptKey, ScriptConf, ScriptEnable, ScriptStart, histVars
    <3>2. PICK next, own : Advance(s, next, own)
      BY <2>2 DEF ScriptStop, ScriptKey, ScriptConf, ScriptEnable, ScriptStart
    <3> QED
      BY <2>1, <3>1, <3>2
  <2>3. CASE ScriptAnswer(s)
    <3>1. scripts' \subseteq scripts /\ UNCHANGED <<un, runs, goal>>
      BY <2>3 DEF ScriptAnswer, histVars
    <3>2. CASE Attached(s)
      <4>1. run.pc = "remote" /\ run'.pc = "stop"
        BY <1>1, <2>3, <3>2 DEF ScriptAnswer, Attached, Run
      <4> QED
        BY <3>1, <4>1 DEF Ordered
    <3>3. CASE ~Attached(s)
      <4>1. run' = run
        BY <2>3, <3>3 DEF ScriptAnswer
      <4> QED
        BY <1>a, <3>1, <4>1
    <3> QED
      BY <3>2, <3>3
  <2>4. CASE ScriptFails(s)
    <3>1. /\ scripts' \subseteq scripts /\ UNCHANGED <<un, runs, goal>>
          /\ run' = NoRun \/ run' = run
      BY <2>4 DEF ScriptFails, histVars
    <3>2. CASE run' = NoRun
      BY <1>3, <3>1, <3>2
    <3>3. CASE run' = run
      BY <1>a, <3>1, <3>3
    <3> QED
      BY <3>1, <3>2, <3>3
  <2> QED
    BY <1>7, <2>2, <2>3, <2>4 DEF ScriptStep
<1>8. CASE RebootNode
  BY <1>3, <1>8 DEF RebootNode
<1>9. ASSUME NEW h \in Host, RebootExit(h) PROVE Ordered'
  <2>1. /\ scripts' \subseteq scripts /\ UNCHANGED <<un, runs, goal>>
        /\ run' = NoRun \/ run' = run
    BY <1>9 DEF RebootExit
  <2>2. CASE run' = NoRun
    BY <1>3, <2>1, <2>2
  <2>3. CASE run' = run
    BY <1>a, <2>1, <2>3
  <2> QED
    BY <2>1, <2>2, <2>3
<1> QED
  BY <1>2, <1>5, <1>6, <1>7, <1>8, <1>9 DEF Next

\* The steps of cascade up until the tunnel of the node is restarted.
Active == {"install", "key", "connect", "remote", "stop", "write", "enable", "restart"}

\* Both invariants hold at the start.
LEMMA StandsInit == Init => Ordered /\ Stands
<1> SUFFICES ASSUME Init PROVE Ordered /\ Stands
  OBVIOUS
<1>1. run.pc = "idle" /\ un.pc = "idle" /\ scripts = {} /\ goal = None
  BY DEF Init, NoRun, NoUninstall
<1> QED
  BY <1>1 DEF Ordered, Stands, Before, During, After, Written, Standing

\* Nothing stands, nothing is at work.
LEMMA StandsNothing ==
  ASSUME run'.pc = "idle", goal' = None
  PROVE  Stands'
BY DEF Stands, Before, During, After, Written, Standing

\* A run past the restart of the tunnel, or none, leaves the two ends alone.
LEMMA StandsOver ==
  ASSUME Stands, run'.pc \notin Active, UNCHANGED <<exit, scripts, local, goal, calm>>
  PROVE  Stands'
<1>1. Standing => Standing'
  BY DEF Standing, Quiet, Wired
<1>2. Before' /\ During' /\ After' /\ Written'
  BY DEF Before, During, After, Written, Active
<1> QED
  BY <1>1, <1>2 DEF Stands

\* What happens on a host that is neither the goal nor at work on is of no matter.
LEMMA StandsElsewhere ==
  ASSUME TypeInv, Ordered, Stands, NEW k \in Host,
         UNCHANGED <<run, runs, local, goal>>, calm' => calm,
         \A h \in Host : h # k => exit'[h] = exit[h],
         \A s \in scripts' : s.host # k => s \in scripts,
         \A h \in Host : h # k /\ Quiet(h) => Quiet(h)',
         calm' => k # goal /\ (run.pc \in Active => k # run.host)
  PROVE  Stands'
<1> SUFFICES ASSUME calm' PROVE Before' /\ During' /\ After' /\ Written' /\ Standing'
  BY DEF Stands
<1>1. /\ Before /\ During /\ After /\ Written /\ Standing
      /\ k # goal /\ (run.pc \in Active => k # run.host)
  BY DEF Stands
<1>2. run.pc \in Active => run.host \in Host
  BY Types, RunTypes DEF TypeInv, Prepared, Ready, Active
<1>3. goal \in Host \cup {None} /\ run' = run /\ run'.pc = run.pc /\ run'.host = run.host
  BY Types
<1>4. ASSUME NEW h \in Host, h # k, Quiet(h) PROVE Quiet(h)'
  BY <1>4
<1>5. Before'
  <2> SUFFICES ASSUME run.pc \in {"install", "key", "connect"} PROVE Quiet(run.host)'
    BY <1>3 DEF Before, Quiet
  <2> QED
    BY <1>1, <1>2, <1>4 DEF Before, Active
<1>6. After'
  <2> SUFFICES ASSUME run.pc \in {"stop", "write", "enable", "restart"}
               PROVE  /\ Quiet(run.host)'
                      /\ exit'[run.host].tunnel = Pair /\ exit'[run.host].conf = Pair
    BY <1>3 DEF After, Quiet, Pair
  <2> QED
    BY <1>1, <1>2, <1>4 DEF After, Active
<1>7. Written'
  BY <1>1, <1>3 DEF Written, NewTunnel
<1>8. Standing'
  <2> SUFFICES ASSUME goal # None
               PROVE  /\ Quiet(goal)' /\ Wired(goal)'
                      /\ exit'[goal].conf = exit'[goal].tunnel /\ local.conf = local.tunnel
    BY DEF Standing, Quiet, Wired
  <2>1. goal \in Host /\ goal # k /\ exit'[goal] = exit[goal]
    BY <1>1, <1>3
  <2> QED
    BY <1>1, <1>4, <2>1 DEF Standing, Wired
<1>9. During'
  <2> SUFFICES ASSUME run.pc = "remote", NEW s \in scripts', s.host = run.host
               PROVE  Progress(s)' /\ \A t \in scripts' : t.host = run.host => t = s
    BY <1>3 DEF During, Progress
  <2>1. run.host \in Host /\ run.host # k /\ exit'[run.host] = exit[run.host]
    BY <1>1, <1>2 DEF Active
  <2>2. \A t \in scripts' : t.host = run.host => t \in scripts
    BY <2>1
  <2>3. Progress(s) /\ \A t \in scripts : t.host = run.host => t = s
    BY <1>1, <2>2 DEF During
  <2>4. Progress(s)'
    BY <2>1, <2>3 DEF Progress
  <2> QED
    BY <2>2, <2>3, <2>4
<1> QED
  BY <1>5, <1>6, <1>7, <1>8, <1>9

\* The steps of cascade up bring the two ends together.
LEMMA StandsUp ==
  ASSUME TypeInv, Ordered, Stands, UpStep
  PROVE  Stands'
<1>1. /\ run \in Run /\ NoRun.pc \notin Active /\ NoRun.pc = "idle"
      /\ run.pc \notin {"idle", "save", "record", "handshake"} => goal = None
  BY Types DEF NoRun, Active, Ordered
<1>2. ASSUME NEW h \in Host, NEW auth \in Auth, NEW auto \in BOOLEAN, UpStart(h, auth, auto)
      PROVE  Stands'
  <2>1. /\ run'.pc = "install" /\ run'.host = h /\ goal' = None /\ scripts' = scripts
        /\ calm' = \A s \in scripts : s.host # h
    BY <1>2 DEF UpStart, NoRun
  <2>2. calm' => Before'
    BY <2>1 DEF Before, Quiet
  <2> QED
    BY <2>1, <2>2 DEF Stands, During, After, Written, Standing
<1>3. CASE Install \/ OwnKey \/ NewKey
  <2>1. /\ run.pc \in {"install", "key"} /\ run'.pc \in {"key", "connect"}
        /\ run'.host = run.host /\ UNCHANGED <<scripts, goal, calm>>
    BY <1>1, <1>3 DEF Install, OwnKey, NewKey, Step, histVars, Run
  <2>2. Before => Before'
    BY <2>1 DEF Before, Quiet
  <2> QED
    BY <1>1, <2>1, <2>2 DEF Stands, During, After, Written, Standing
<1>4. CASE Connect
  <2> DEFINE new == [id |-> runs, host |-> run.host, peer |-> run.own,
                     auto |-> run.auto, own |-> None, at |-> "stop"]
  <2>1. PICK x : x = new
    OBVIOUS
  <2>2. scripts' = scripts \cup {new}
    BY <1>4 DEF Connect
  <2>3. /\ scripts' = scripts \cup {x}
        /\ x.id = runs /\ x.host = run.host /\ x.at = "stop"
    BY <2>1, <2>2
  <2> HIDE DEF new
  <2>4. /\ run.pc = "connect" /\ run'.pc = "remote" /\ run'.host = run.host
        /\ UNCHANGED <<exit, runs, goal, calm>>
    BY <1>1, <1>4 DEF Connect, Step, histVars, Run
  <2>5. Before => During'
    <3> SUFFICES ASSUME Before, NEW s \in scripts', s.host = run.host
                 PROVE  Progress(s)' /\ \A t \in scripts' : t.host = run.host => t = s
      BY <2>4 DEF During, Progress
    <3>1. \A t \in scripts' : t.host = run.host => t = x
      BY <2>3, <2>4 DEF Before, Quiet
    <3>2. s = x
      BY <3>1
    <3> QED
      BY <2>3, <2>4, <3>1, <3>2 DEF Progress
  <2> QED
    BY <1>1, <2>4, <2>5 DEF Stands, Before, After, Written, Standing
<1>5. CASE UpStopOld \/ UpWrite \/ UpEnable
  <2>1. /\ run.pc \in {"stop", "write", "enable"}
        /\ run'.pc \in {"write", "enable", "restart"}
        /\ run'.host = run.host /\ run'.own = run.own /\ run'.peer = run.peer
        /\ run.pc = "stop" => run'.pc = "write"
        /\ run.pc = "write" => run'.pc = "enable"
    BY <1>1, <1>5 DEF UpStopOld, UpWrite, UpEnable, Step, Run
  <2>2. UNCHANGED <<exit, scripts, goal, calm>>
    BY <1>5 DEF UpStopOld, UpWrite, UpEnable, histVars
  <2>3. After => After'
    BY <2>1, <2>2 DEF After, Quiet, Pair
  <2>4. NewTunnel' = NewTunnel
    BY <2>1 DEF NewTunnel
  <2>5. Written => Written'
    <3>1. CASE UpStopOld
      BY <3>1, <1>1, <2>1 DEF UpStopOld, Step, Written
    <3>2. CASE UpWrite
      <4>1. local'.conf = NewTunnel
        BY <3>2, Types DEF UpWrite, Local
      <4> QED
        BY <4>1, <2>4 DEF Written
    <3>3. CASE UpEnable
      <4>1. local'.conf = local.conf /\ run.pc = "enable"
        BY <3>3, Types DEF UpEnable, Local, Step
      <4> QED
        BY <4>1, <2>4 DEF Written
    <3> QED
      BY <1>5, <3>1, <3>2, <3>3
  <2> QED
    BY <1>1, <2>1, <2>2, <2>3, <2>5 DEF Stands, Before, During, Standing
<1>6. CASE UpRestart
  <2>1. /\ run.pc = "restart" /\ run'.pc = "save"
        /\ goal' = run.host /\ UNCHANGED <<exit, scripts, calm>>
        /\ local'.tunnel = local.conf /\ local'.conf = local.conf
    BY <1>1, <1>6, Types DEF UpRestart, Step, Run, Local
  <2>2. run.host \in Host /\ run.peer \in Key /\ run.own \in Key
    BY <2>1, Types DEF Prepared, Ready, Answered
  <2>3. ASSUME After, Written PROVE Standing'
    <3>1. /\ Quiet(run.host) /\ exit[run.host].tunnel = Pair
          /\ exit[run.host].conf = Pair /\ local.conf = NewTunnel
      BY <2>1, <2>3 DEF After, Written
    <3>2. NewTunnel \in LocalTunnel
      BY <2>2 DEF NewTunnel, LocalTunnel
    <3>3. /\ NewTunnel # None /\ NewTunnel.host = run.host
          /\ NewTunnel.peer = run.peer /\ NewTunnel.own = run.own
      BY <3>2, CascadeAssumption DEF NewTunnel
    <3>5. /\ local'.tunnel # None /\ local'.tunnel.host = goal'
          /\ exit'[goal'].tunnel = [own |-> local'.tunnel.peer, peer |-> local'.tunnel.own]
          /\ exit'[goal'].conf = exit'[goal'].tunnel /\ local'.conf = local'.tunnel
      BY <2>1, <3>1, <3>3 DEF Pair
    <3>6. Quiet(goal)'
      BY <2>1, <3>1 DEF Quiet
    <3> QED
      BY <3>5, <3>6 DEF Standing, Wired, Quiet
  <2> QED
    BY <2>1, <2>3 DEF Stands, Before, During, After, Written
<1>7. CASE UpSave \/ UpRecord \/ UpHandshake \/ UpFails \/ ConnectionLost
  <2>1. UNCHANGED <<exit, scripts, local, goal, calm>>
    BY <1>7 DEF UpSave, UpRecord, UpHandshake, UpFails, ConnectionLost, histVars, nodeVars
  <2>2. run'.pc \notin Active
    BY <1>1, <1>7 DEF UpSave, UpRecord, UpHandshake, UpFails, ConnectionLost, Step, Run, Active
  <2> QED
    BY <2>1, <2>2, StandsOver
<1>8. ASSUME NEW done \in 1 .. 4, VlrUp(done) PROVE Stands'
  <2>1. run'.pc = "idle" /\ UNCHANGED <<exit, scripts, local, goal, calm>>
    BY <1>8 DEF VlrUp, Idle
  <2> QED
    BY <2>1, StandsOver DEF Active
<1> QED
  BY <1>2, <1>3, <1>4, <1>5, <1>6, <1>7, <1>8 DEF UpStep

\* Uninstall takes the goal back before it touches anything.
LEMMA StandsUn ==
  ASSUME TypeInv, Ordered, UnStep
  PROVE  Stands'
<1>1. CASE \E skip, keep, remove, creds \in BOOLEAN : UnStart(skip, keep, remove, creds)
  <2>1. run'.pc = "idle" /\ goal' = None
    BY <1>1 DEF UnStart, Idle
  <2> QED
    BY <2>1, StandsNothing
<1>2. CASE ~\E skip, keep, remove, creds \in BOOLEAN : UnStart(skip, keep, remove, creds)
  <2>1. UNCHANGED <<run, goal>> /\ un.pc # "idle"
    BY <1>2 DEF UnStep, UnSkip, UnExit, UnExitFails, UnLocal, UnPackages, UnFiles,
                UnConfig, histVars
  <2>2. run'.pc = "idle" /\ goal' = None
    BY <2>1 DEF Ordered
  <2> QED
    BY <2>2, StandsNothing
<1> QED
  BY <1>1, <1>2

\* A script changes its own host and, attached, the run; nothing else.
LEMMA ScriptFrame ==
  ASSUME TypeInv, NEW s \in scripts, ScriptStep(s)
  PROVE  /\ UNCHANGED <<local, runs, goal, calm>>
         /\ \A h \in Host : h # s.host => exit'[h] = exit[h]
         /\ \A t \in scripts' : t.host # s.host => t \in scripts
         /\ \A h \in Host : h # s.host /\ Quiet(h) => Quiet(h)'
         /\ ~Attached(s) => run' = run
<1>1. s \in Script /\ exit \in [Host -> Exit] /\ s.host \in Host
  BY Types DEF Script
<1>2. /\ UNCHANGED <<local, runs, goal, calm>>
      /\ ~Attached(s) => run' = run
  BY DEF ScriptStep, ScriptStop, ScriptKey, ScriptConf, ScriptEnable, ScriptStart,
         ScriptAnswer, ScriptFails, histVars, nodeVars
<1>3. \A h \in Host : h # s.host => exit'[h] = exit[h]
  BY <1>1 DEF ScriptStep, ScriptStop, ScriptKey, ScriptConf, ScriptEnable, ScriptStart,
              ScriptAnswer, ScriptFails
<1>4. ASSUME NEW t \in scripts' PROVE t \in scripts \/ t.host = s.host
  <2>1. CASE scripts' = scripts \ {s}
    BY <1>4, <2>1
  <2>2. ASSUME NEW next, NEW own, Advance(s, next, own) PROVE t \in scripts \/ t.host = s.host
    <3>1. PICK y : y = [s EXCEPT !.at = next, !.own = own]
      OBVIOUS
    <3>2. y.host = s.host /\ scripts' = (scripts \ {s}) \cup {y}
      BY <1>1, <2>2, <3>1 DEF Advance, Script
    <3> QED
      BY <1>4, <3>2
  <2> QED
    BY <2>1, <2>2 DEF ScriptStep, ScriptStop, ScriptKey, ScriptConf, ScriptEnable,
                      ScriptStart, ScriptAnswer, ScriptFails
<1>5. \A t \in scripts' : t.host # s.host => t \in scripts
  BY <1>4
<1>6. \A h \in Host : h # s.host /\ Quiet(h) => Quiet(h)'
  BY <1>5 DEF Quiet
<1> QED
  BY <1>2, <1>3, <1>5, <1>6

\* The steps of the script of the run in progress, in their order.
LEMMA StandsOwnScript ==
  ASSUME TypeInv, Ordered, Stands, calm, NEW s \in scripts, ScriptStep(s),
         run.pc = "remote", s.host = run.host
  PROVE  Stands'
<1>1. /\ s \in Script /\ s.host \in Host /\ exit \in [Host -> Exit] /\ run \in Run
      /\ goal = None /\ NoRun.pc = "idle"
  BY Types DEF Script, Ordered, NoRun
<1>2. /\ Progress(s) /\ \A t \in scripts : t.host = run.host => t = s
      /\ s.id = runs /\ s.peer = run.own /\ Attached(s)
  BY DEF Stands, During, Progress, Ordered, Attached
<1>3. UNCHANGED <<local, runs, goal, calm>>
  BY ScriptFrame
<1>4. ASSUME NEW y, scripts' = (scripts \ {s}) \cup {y}, y.host = s.host, run' = run,
             Progress(y)'
      PROVE  Stands'
  <2>1. \A t \in scripts' : t.host = run.host => t = y
    BY <1>2, <1>4
  <2>2. During'
    BY <1>4, <2>1 DEF During
  <2> QED
    BY <1>1, <1>3, <1>4, <2>2 DEF Stands, Before, After, Written, Standing
<1>5. ASSUME NEW next, NEW own, Advance(s, next, own), run' = run,
             next \notin {"stop", "answer"} => exit'[s.host].tunnel = None,
             next \in {"enable", "start", "answer"} =>
               exit'[s.host].conf = [own |-> own, peer |-> s.peer],
             next = "answer" => exit'[s.host].tunnel = exit'[s.host].conf
      PROVE  Stands'
  <2>1. PICK y : y = [s EXCEPT !.at = next, !.own = own]
    OBVIOUS
  <2>2. y.host = s.host /\ y.id = s.id /\ y.at = next /\ y.own = own /\ y.peer = s.peer
    BY <1>1, <2>1 DEF Script
  <2>3. scripts' = (scripts \ {s}) \cup {y}
    BY <1>5, <2>1 DEF Advance
  <2>4. Progress(y)'
    BY <1>2, <1>3, <1>5, <2>2 DEF Progress
  <2> QED
    BY <1>4, <1>5, <2>2, <2>3, <2>4
<1>6. /\ s.at \notin {"stop", "answer"} => exit[s.host].tunnel = None
      /\ s.at \in {"enable", "start", "answer"} =>
           exit[s.host].conf = [own |-> s.own, peer |-> s.peer]
      /\ s.at = "answer" => exit[s.host].tunnel = exit[s.host].conf
  BY <1>2 DEF Progress
<1>7. CASE ScriptStop(s)
  <2>1. /\ Advance(s, "key", None) /\ run' = run
        /\ exit'[s.host].tunnel = None
    BY <1>1, <1>7 DEF ScriptStop, StopTunnel, Exit
  <2> QED
    BY <1>5, <2>1
<1>8. CASE ScriptKey(s)
  <2>1. /\ Advance(s, "conf", exit'[s.host].key) /\ run' = run
        /\ exit'[s.host].tunnel = exit[s.host].tunnel
    BY <1>1, <1>8 DEF ScriptKey, Exit
  <2>2. exit'[s.host].tunnel = None
    BY <1>6, <1>8, <2>1 DEF ScriptKey
  <2> QED
    BY <1>5, <2>1, <2>2
<1>9. CASE ScriptConf(s)
  <2>1. /\ Advance(s, "enable", s.own) /\ run' = run
        /\ exit'[s.host].tunnel = exit[s.host].tunnel
        /\ exit'[s.host].conf = [own |-> s.own, peer |-> s.peer]
    BY <1>1, <1>9 DEF ScriptConf, Exit
  <2>2. exit'[s.host].tunnel = None
    BY <1>6, <1>9, <2>1 DEF ScriptConf
  <2> QED
    BY <1>5, <2>1, <2>2
<1>10. CASE ScriptEnable(s)
  <2>1. /\ Advance(s, "start", s.own) /\ run' = run
        /\ exit'[s.host].tunnel = exit[s.host].tunnel
        /\ exit'[s.host].conf = exit[s.host].conf
    BY <1>1, <1>10 DEF ScriptEnable, Exit
  <2>2. exit'[s.host].tunnel = None /\ exit'[s.host].conf = [own |-> s.own, peer |-> s.peer]
    BY <1>6, <1>10, <2>1 DEF ScriptEnable
  <2> QED
    BY <1>5, <2>1, <2>2
<1>11. CASE ScriptStart(s)
  <2>1. /\ Advance(s, "answer", s.own) /\ run' = run
        /\ exit'[s.host].tunnel = IF exit[s.host].tunnel = None THEN exit[s.host].conf
                                  ELSE exit[s.host].tunnel
        /\ exit'[s.host].conf = exit[s.host].conf
    BY <1>1, <1>11 DEF ScriptStart, Exit
  <2>2. /\ exit'[s.host].conf = [own |-> s.own, peer |-> s.peer]
        /\ exit'[s.host].tunnel = exit'[s.host].conf
    BY <1>6, <1>11, <2>1 DEF ScriptStart
  <2> QED
    BY <1>5, <2>1, <2>2
<1>12. CASE ScriptAnswer(s)
  <2>1. /\ scripts' = scripts \ {s} /\ exit' = exit /\ s.at = "answer"
        /\ run'.pc = "stop" /\ run'.host = run.host /\ run'.own = run.own
        /\ run'.peer = s.own
    BY <1>1, <1>2, <1>12 DEF ScriptAnswer, Run
  <2>2. \A t \in scripts' : t.host # run.host
    BY <1>2, <2>1
  <2>3. /\ exit[run.host].conf = [own |-> s.own, peer |-> run.own]
        /\ exit[run.host].tunnel = exit[run.host].conf
    BY <1>2, <1>6, <2>1
  <2>4. After'
    BY <2>1, <2>2, <2>3 DEF After, Quiet, Pair
  <2> QED
    BY <1>1, <1>3, <2>1, <2>4 DEF Stands, Before, During, Written, Standing
<1>13. CASE ScriptFails(s)
  <2>1. run'.pc = "idle" /\ goal' = None
    BY <1>1, <1>2, <1>3, <1>13 DEF ScriptFails
  <2> QED
    BY <2>1, StandsNothing
<1> QED
  BY <1>7, <1>8, <1>9, <1>10, <1>11, <1>12, <1>13 DEF ScriptStep

\* No other script works on the host of the run or of the goal.
LEMMA StandsScript ==
  ASSUME TypeInv, Ordered, Stands, NEW s \in scripts, ScriptStep(s)
  PROVE  Stands'
<1>1. s.host \in Host
  BY Types DEF Script
<1>2. CASE ~calm
  BY <1>2, ScriptFrame DEF Stands
<1>3. CASE calm /\ run.pc = "remote" /\ s.host = run.host
  BY <1>3, StandsOwnScript
<1>4. CASE calm /\ ~(run.pc = "remote" /\ s.host = run.host)
  <2>1. Before /\ After /\ Standing
    BY <1>4 DEF Stands
  <2>2. s.host # goal
    BY <1>1, <2>1, CascadeAssumption DEF Standing, Quiet
  <2>3. run.pc \in Active => s.host # run.host
    BY <1>4, <2>1 DEF Before, After, Quiet, Active
  <2>4. ~Attached(s)
    BY <1>4 DEF Attached, Ordered
  <2>5. run' = run
    BY <2>4, ScriptFrame
  <2> QED
    BY <1>1, <2>2, <2>3, <2>5, ScriptFrame, StandsElsewhere
<1> QED
  BY <1>2, <1>3, <1>4

\* A node that reboots takes its tunnel up from the file it was up from.
LEMMA StandsRebootNode ==
  ASSUME TypeInv, Ordered, Stands, RebootNode
  PROVE  Stands'
<1>1. /\ run'.pc = "idle" /\ UNCHANGED <<exit, scripts, goal>>
      /\ calm' => calm /\ local.enabled
      /\ local' = Booted(local)
  BY DEF RebootNode, NoRun
<1>2. ASSUME calm' PROVE Standing'
  <2>1. Standing /\ local' = [local EXCEPT !.tunnel = local.conf]
    BY <1>1, <1>2 DEF Stands, Booted
  <2>2. local'.tunnel = local.conf /\ local'.conf = local.conf
    BY <2>1, Types DEF Local
  <2> QED
    BY <1>1, <2>1, <2>2 DEF Standing, Quiet, Wired
<1> QED
  BY <1>1, <1>2 DEF Stands, Before, During, After, Written

\* The exit the run is at, or the one the tunnel goes to.
LEMMA StandsRebootExit ==
  ASSUME TypeInv, Ordered, Stands, NEW h \in Host, RebootExit(h)
  PROVE  Stands'
<1>1. /\ UNCHANGED <<local, runs, goal>>
      /\ calm' => calm /\ (exit[h].enabled \/ (h # goal /\ h # run.host))
      /\ \A k \in Host : k # h => exit'[k] = exit[k]
      /\ scripts' \subseteq scripts /\ \A s \in scripts' : s.host # h
      /\ run' = IF run.pc = "remote" /\ run.host = h THEN NoRun ELSE run
      /\ exit \in [Host -> Exit]
  <2>1. exit \in [Host -> Exit]
    BY Types
  <2>2. \A k \in Host : k # h => exit'[k] = exit[k]
    BY <2>1 DEF RebootExit
  <2>3. UNCHANGED <<local, runs, goal>>
    BY DEF RebootExit, nodeVars
  <2>4. calm' => calm /\ (exit[h].enabled \/ (h # goal /\ h # run.host))
    <3>1. calm' => calm /\ (exit[h].enabled \/ h \notin {goal, run.host})
      BY Zenon DEF RebootExit
    <3>2. h \notin {goal, run.host} => h # goal /\ h # run.host
      OBVIOUS
    <3> QED
      BY <3>1, <3>2, Zenon
  <2>5. /\ scripts' \subseteq scripts /\ \A s \in scripts' : s.host # h
        /\ run' = IF run.pc = "remote" /\ run.host = h THEN NoRun ELSE run
    BY DEF RebootExit
  <2> QED
    BY <2>1, <2>2, <2>3, <2>4, <2>5
<1>2. \A k \in Host : k # h /\ Quiet(k) => Quiet(k)'
  BY <1>1 DEF Quiet
<1>3. CASE ~calm'
  BY <1>3 DEF Stands
<1>4. CASE calm' /\ h # goal /\ h # run.host
  <2>1. run' = run
    BY <1>1, <1>4
  <2> QED
    BY <1>1, <1>2, <1>4, <2>1, StandsElsewhere
<1>5. CASE calm' /\ (h = goal \/ h = run.host)
  <2>1. /\ exit[h].enabled /\ calm
        /\ exit'[h] = [exit[h] EXCEPT !.tunnel = exit[h].conf]
    BY <1>1, <1>5 DEF RebootExit, Booted
  <2>2. exit'[h].tunnel = exit[h].conf /\ exit'[h].conf = exit[h].conf
    BY <1>1, <2>1 DEF Exit
  <2>3. Before /\ During /\ After /\ Written /\ Standing
    BY <2>1 DEF Stands
  <2>4. Standing'
    <3>1. CASE goal = None
      BY <1>1, <3>1 DEF Standing
    <3>2. CASE goal # None
      <4>1. goal \in Host
        BY <3>2, Types
      <4>2. \A s \in scripts' : s.host # goal
        BY <1>1, <2>3, <3>2 DEF Standing, Quiet
      <4>3. exit'[goal].tunnel = exit[goal].tunnel /\ exit'[goal].conf = exit[goal].conf
        BY <1>1, <2>2, <2>3, <3>2, <4>1 DEF Standing
      <4> QED
        BY <1>1, <2>3, <3>2, <4>2, <4>3 DEF Standing, Quiet, Wired
    <3> QED
      BY <3>1, <3>2
  <2>5. CASE run.pc \notin Active
    <3>1. run'.pc \notin Active
      BY <1>1, <2>5 DEF NoRun, Active
    <3> QED
      BY <2>4, <3>1 DEF Stands, Before, During, After, Written, Active
  <2>6. CASE run.pc \in Active /\ run.host # h
    <3>1. run' = run /\ goal = None
      BY <1>1, <2>6 DEF Ordered, Active
    <3>2. h # goal
      BY <3>1, CascadeAssumption
    <3> QED
      BY <1>5, <2>6, <3>2
  <2>7. CASE run.pc \in Active /\ run.host = h
    <3>1. run'.pc # "remote"
      BY <1>1, <2>7 DEF NoRun
    <3>2. \A s \in scripts' : s.host # h
      BY <1>1
    <3>3. CASE run' = NoRun
      BY <2>4, <3>3 DEF NoRun, Stands, Before, During, After, Written
    <3>4. CASE run' = run
      <4>1. Before'
        BY <2>7, <3>2, <3>4 DEF Before, Quiet
      <4>2. After'
        <5>1. After => (run.pc \in {"stop", "write", "enable", "restart"} =>
                          exit[h].conf = Pair)
          BY <2>7 DEF After
        <5>2. Pair' = Pair
          BY <3>4 DEF Pair
        <5> QED
          BY <2>2, <2>3, <2>7, <3>2, <3>4, <5>1, <5>2 DEF After, Quiet
      <4>3. Written'
        BY <1>1, <2>3, <3>4 DEF Written, NewTunnel
      <4> QED
        BY <2>4, <3>1, <4>1, <4>2, <4>3 DEF Stands, During
    <3> QED
      BY <1>1, <3>3, <3>4
  <2> QED
    BY <2>5, <2>6, <2>7
<1> QED
  BY <1>3, <1>4, <1>5

\* Every step keeps the ends together.
LEMMA StandsNext ==
  ASSUME TypeInv, Ordered, Stands, [Next]_vars
  PROVE  Stands'
<1>1. CASE UNCHANGED vars
  <2>1. UNCHANGED <<exit, scripts, local, run, runs, goal, calm>>
    BY <1>1 DEF vars, nodeVars, histVars
  <2> QED
    BY <2>1 DEF Stands, Before, During, After, Written, Standing, Quiet, Progress, Pair,
                NewTunnel, Wired
<1>2. CASE Next
  BY <1>2, StandsUp, StandsUn, StandsScript, StandsRebootNode, StandsRebootExit DEF Next
<1> QED
  BY <1>1, <1>2

\* Once a run of cascade up has restarted the node's tunnel the two ends run with
\* each other's keys, and stay so over reboots, whatever earlier runs left behind
\* (cmdCascadeUp, cmd/vlr/cascade_up.go, and provisionScript,
\* internal/cascade/provision.go).
THEOREM TunnelStandsCorrect == Spec => []TunnelStands
<1>1. TypeInv /\ Stands => TunnelStands
  BY DEF Stands, Standing, TunnelStands
<1>2. Init => TypeInv /\ Ordered /\ Stands
  BY TypeInit, StandsInit
<1>3. TypeInv /\ Ordered /\ Stands /\ [Next]_vars => (TypeInv /\ Ordered /\ Stands)'
  BY TypeNext, OrderedNext, StandsNext
<1> QED
  BY <1>1, <1>2, <1>3, PTL DEF Spec

\* A set of indices that is not empty has a greatest one.
LEMMA LastIndex ==
  ASSUME NEW n \in Nat, NEW S, S \subseteq 1 .. n, S # {}
  PROVE  \E x \in S : \A y \in S : y <= x
<1> DEFINE R == OpToRel(<, Nat)
           T == {n - i : i \in S}
<1>1. IsWellFoundedOn(R, Nat)
  BY NatLessThanWellFounded
<1>2. \A x, y \in Nat : y < x => <<y, x>> \in R
  BY DEF OpToRel
<1>3. T \subseteq Nat /\ T # {}
  <2>1. \A i \in S : n - i \in Nat
    OBVIOUS
  <2>2. PICK i \in S : TRUE
    OBVIOUS
  <2> QED
    BY <2>1, <2>2
<1> HIDE DEF R, T
<1>4. PICK m \in T : \A y \in T : ~(<<y, m>> \in R)
  BY <1>1, <1>3, WFMin
<1>5. \A y \in T : ~(y < m)
  BY <1>2, <1>3, <1>4
<1>6. PICK x \in S : m = n - x
  BY <1>4 DEF T
<1>7. ASSUME NEW y \in S PROVE y <= x
  <2>1. n - y \in T /\ x \in 1 .. n /\ y \in 1 .. n
    BY DEF T
  <2> QED
    BY <1>5, <1>6, <2>1
<1> QED
  BY <1>7

\* What a list of entries has, and what it has last for a kind and target.
Has(l, kind, target) == \E i \in 1 .. Len(l) : l[i].kind = kind /\ l[i].target = target
EndsWith(l, e) ==
  \E i \in 1 .. Len(l) :
    /\ l[i] = e
    /\ \A j \in i + 1 .. Len(l) : l[j].kind # e.kind \/ l[j].target # e.target
Exitless(l) == \A i \in 1 .. Len(l) : l[i].kind # "eu-exit"

\* Where the entries of two lists are in the one.
LEMMA ConcatIndex ==
  ASSUME NEW a \in Seq(Entry), NEW b \in Seq(Entry)
  PROVE  /\ a \o b \in Seq(Entry) /\ Len(a \o b) = Len(a) + Len(b)
         /\ \A i \in 1 .. Len(a) : (a \o b)[i] = a[i]
         /\ \A i \in 1 .. Len(b) : (a \o b)[Len(a) + i] = b[i]
         /\ \A i \in Len(a) + 1 .. Len(a) + Len(b) : (a \o b)[i] = b[i - Len(a)]
OBVIOUS

\* The one list has what either has.
LEMMA HasConcat ==
  ASSUME NEW a \in Seq(Entry), NEW b \in Seq(Entry), NEW kind, NEW target
  PROVE  Has(a, kind, target) \/ Has(b, kind, target) => Has(a \o b, kind, target)
<1> DEFINE c == a \o b
<1>1. /\ Len(c) = Len(a) + Len(b) /\ Len(a) \in Nat /\ Len(b) \in Nat
      /\ \A i \in 1 .. Len(a) : c[i] = a[i]
      /\ \A i \in 1 .. Len(b) : c[Len(a) + i] = b[i]
  BY ConcatIndex
<1> HIDE DEF c
<1>2. CASE Has(a, kind, target)
  BY <1>1, <1>2 DEF Has
<1>3. CASE Has(b, kind, target)
  <2>1. PICK i \in 1 .. Len(b) : b[i].kind = kind /\ b[i].target = target
    BY <1>3 DEF Has
  <2>2. Len(a) + i \in 1 .. Len(c) /\ c[Len(a) + i] = b[i]
    BY <1>1
  <2> QED
    BY <2>1, <2>2 DEF Has
<1> QED
  BY <1>2, <1>3 DEF c

\* Neither has exits, nor has the one.
LEMMA ExitlessConcat ==
  ASSUME NEW a \in Seq(Entry), NEW b \in Seq(Entry), Exitless(a), Exitless(b)
  PROVE  Exitless(a \o b)
<1> DEFINE c == a \o b
<1>1. /\ Len(c) = Len(a) + Len(b) /\ Len(a) \in Nat /\ Len(b) \in Nat
      /\ \A i \in 1 .. Len(a) : c[i] = a[i]
      /\ \A i \in Len(a) + 1 .. Len(a) + Len(b) : c[i] = b[i - Len(a)]
  BY ConcatIndex
<1> HIDE DEF c
<1>2. ASSUME NEW i \in 1 .. Len(c) PROVE c[i].kind # "eu-exit"
  <2>1. CASE i \in 1 .. Len(a)
    BY <1>1, <2>1 DEF Exitless
  <2>2. CASE i > Len(a)
    <3>1. i \in Len(a) + 1 .. Len(a) + Len(b) /\ i - Len(a) \in 1 .. Len(b)
      BY <1>1, <2>2
    <3> QED
      BY <1>1, <3>1 DEF Exitless
  <2> QED
    BY <1>1, <2>1, <2>2
<1> QED
  BY <1>2 DEF Exitless, c

\* What follows is about other targets.
LEMMA EndsWithLonger ==
  ASSUME NEW a \in Seq(Entry), NEW b \in Seq(Entry), NEW e \in Entry, EndsWith(a, e),
         \A j \in 1 .. Len(b) : b[j].kind # e.kind \/ b[j].target # e.target
  PROVE  EndsWith(a \o b, e)
<1> DEFINE c == a \o b
<1>1. /\ Len(c) = Len(a) + Len(b) /\ Len(a) \in Nat /\ Len(b) \in Nat
      /\ \A i \in 1 .. Len(a) : c[i] = a[i]
      /\ \A i \in Len(a) + 1 .. Len(a) + Len(b) : c[i] = b[i - Len(a)]
  BY ConcatIndex
<1> HIDE DEF c
<1>2. PICK i \in 1 .. Len(a) :
        /\ a[i] = e
        /\ \A j \in i + 1 .. Len(a) : a[j].kind # e.kind \/ a[j].target # e.target
  BY DEF EndsWith
<1>3. ASSUME NEW j \in i + 1 .. Len(c) PROVE c[j].kind # e.kind \/ c[j].target # e.target
  <2>1. CASE j <= Len(a)
    <3>1. j \in i + 1 .. Len(a) /\ j \in 1 .. Len(a)
      BY <1>1, <2>1
    <3> QED
      BY <1>1, <1>2, <3>1
  <2>2. CASE j > Len(a)
    <3>1. j \in Len(a) + 1 .. Len(a) + Len(b) /\ j - Len(a) \in 1 .. Len(b)
      BY <1>1, <2>2
    <3> QED
      BY <1>1, <3>1
  <2> QED
    BY <1>1, <2>1, <2>2
<1>4. i \in 1 .. Len(c) /\ c[i] = e
  BY <1>1, <1>2
<1> QED
  BY <1>3, <1>4 DEF EndsWith, c

\* What is last in what is added is last.
LEMMA EndsWithAdded ==
  ASSUME NEW a \in Seq(Entry), NEW b \in Seq(Entry), NEW e \in Entry, EndsWith(b, e)
  PROVE  EndsWith(a \o b, e)
<1> DEFINE c == a \o b
<1>1. /\ Len(c) = Len(a) + Len(b) /\ Len(a) \in Nat /\ Len(b) \in Nat
      /\ \A i \in 1 .. Len(b) : c[Len(a) + i] = b[i]
      /\ \A i \in Len(a) + 1 .. Len(a) + Len(b) : c[i] = b[i - Len(a)]
  BY ConcatIndex
<1> HIDE DEF c
<1>2. PICK i \in 1 .. Len(b) :
        /\ b[i] = e
        /\ \A j \in i + 1 .. Len(b) : b[j].kind # e.kind \/ b[j].target # e.target
  BY DEF EndsWith
<1>3. ASSUME NEW j \in Len(a) + i + 1 .. Len(c)
      PROVE  c[j].kind # e.kind \/ c[j].target # e.target
  <2>1. j \in Len(a) + 1 .. Len(a) + Len(b) /\ j - Len(a) \in i + 1 .. Len(b)
    BY <1>1
  <2> QED
    BY <1>1, <1>2, <2>1
<1>4. Len(a) + i \in 1 .. Len(c) /\ c[Len(a) + i] = e
  BY <1>1, <1>2
<1> QED
  BY <1>3, <1>4 DEF EndsWith, c

\* What a list ends with is what uninstall reads.
LEMMA EndsWithDedup ==
  ASSUME NEW e, EndsWith(ledger, e)
  PROVE  e \in Dedup
BY DEF EndsWith, Dedup

\* Whatever is recorded has a last entry.
LEMMA HasDedup ==
  ASSUME ledger \in Seq(Entry), NEW kind, NEW target, Has(ledger, kind, target)
  PROVE  \E e \in Dedup : e.kind = kind /\ e.target = target
<1> DEFINE S == {i \in 1 .. Len(ledger) : ledger[i].kind = kind /\ ledger[i].target = target}
<1>1. Len(ledger) \in Nat /\ S \subseteq 1 .. Len(ledger) /\ S # {}
  BY DEF Has
<1>2. PICK x \in S : \A y \in S : y <= x
  BY <1>1, LastIndex
<1>3. x \in 1 .. Len(ledger) /\ ledger[x].kind = kind /\ ledger[x].target = target
  BY <1>2
<1>4. ASSUME NEW k \in x + 1 .. Len(ledger)
      PROVE  ledger[k].kind # ledger[x].kind \/ ledger[k].target # ledger[x].target
  <2>1. k \in 1 .. Len(ledger) /\ ~(k <= x)
    BY <1>3
  <2>2. k \notin S
    BY <1>2, <2>1
  <2> QED
    BY <1>3, <2>1, <2>2
<1>5. ledger[x] \in Dedup
  BY <1>3, <1>4 DEF Dedup
<1> QED
  BY <1>3, <1>5

\* The ledger has what completed runs set up, the exits with their last way in.
ExitEntry(h, auth) == [kind |-> "eu-exit", target |-> h, auth |-> auth]
Known ==
  /\ \A h \in DOMAIN made : EndsWith(ledger, ExitEntry(h, made[h]))
  /\ DOMAIN made # {} => Has(ledger, "wg-iface", "wg-cascade")
  /\ "drop-in" \in ours => Has(ledger, "file", "drop-in")
  /\ \A p \in ours \cap Package : Has(ledger, "package", p)

\* A package is recorded if the run installed it.
LEMMA RecordedPackageHas ==
  ASSUME NEW p \in AptPackage
  PROVE  /\ RecordedPackage(p) \in Seq(Entry) /\ Exitless(RecordedPackage(p))
         /\ p \in run.installed => Has(RecordedPackage(p), "package", p)
<1> DEFINE e == [kind |-> "package", target |-> p, auth |-> None]
<1>1. e \in Entry
  BY DEF Entry, Package
<1>a. PICK x : x = e
  OBVIOUS
<1>2. x = e /\ x.kind = "package" /\ x.target = p
  BY <1>a
<1>3. RecordedPackage(p) = IF p \in run.installed THEN <<x>> ELSE <<>>
  BY <1>2 DEF RecordedPackage
<1>4. x \in Entry
  BY <1>1, <1>2
<1> HIDE DEF e
<1>5. CASE p \in run.installed
  <2>1. RecordedPackage(p) = <<x>>
    BY <1>3, <1>5
  <2> QED
    BY <1>2, <1>4, <2>1 DEF Exitless, Has
<1>6. CASE p \notin run.installed
  BY <1>3, <1>6 DEF Exitless
<1> QED
  BY <1>5, <1>6

\* A run records its exit last, after what else it set up.
LEMMA NewEntriesHas ==
  ASSUME TypeInv, run.pc = "record"
  PROVE  /\ NewEntries \in Seq(Entry)
         /\ ExitEntry(run.host, run.auth) \in Entry
         /\ EndsWith(NewEntries, ExitEntry(run.host, run.auth))
         /\ \A i \in 1 .. Len(NewEntries) - 1 : NewEntries[i].kind # "eu-exit"
         /\ \A i \in 1 .. Len(NewEntries) :
              NewEntries[i].kind = "eu-exit" => NewEntries[i].target = run.host
         /\ Has(NewEntries, "wg-iface", "wg-cascade")
         /\ \A p \in run.installed : Has(NewEntries, "package", p)
<1> DEFINE w == [kind |-> "wg-iface", target |-> "wg-cascade", auth |-> None]
           A == RecordedPackage("sshpass")
           B == RecordedPackage("amneziawg")
           e == ExitEntry(run.host, run.auth)
<1>1. /\ A \in Seq(Entry) /\ Exitless(A) /\ B \in Seq(Entry) /\ Exitless(B)
      /\ "sshpass" \in run.installed => Has(A, "package", "sshpass")
      /\ "amneziawg" \in run.installed => Has(B, "package", "amneziawg")
  BY RecordedPackageHas DEF AptPackage
<1>2. run.host \in Host /\ run.auth \in Auth /\ run.installed \subseteq {"amneziawg", "sshpass"}
  BY Types DEF Prepared, Ready, Run, AptPackage
<1>3. e \in Entry /\ w \in Entry
  BY <1>2 DEF Entry, ExitEntry
<1>a. PICK x : x = w
  OBVIOUS
<1>b. PICK z : z = e
  OBVIOUS
<1>4. x = w /\ x.kind = "wg-iface" /\ x.target = "wg-cascade"
  BY <1>a
<1>5. z = e /\ z.kind = "eu-exit" /\ z.target = run.host
  BY <1>b DEF ExitEntry
<1>6. NewEntries = ((A \o B) \o <<x>>) \o <<z>>
  <2>1. NewEntries = ((A \o B) \o <<w>>) \o <<e>>
    BY Zenon DEF NewEntries, RecordedExit, ExitEntry
  <2> QED
    BY <1>4, <1>5, <2>1, Zenon
<1>7. x \in Entry /\ z \in Entry /\ e = z
  BY <1>3, <1>4, <1>5
<1> HIDE DEF w, A, B, e
<1>8. PICK I : I = <<x>>
  OBVIOUS
<1>9. /\ I \in Seq(Entry) /\ Exitless(I) /\ Has(I, "wg-iface", "wg-cascade")
  BY <1>4, <1>7, <1>8 DEF Exitless, Has
<1>10. PICK Z : Z = <<z>>
  OBVIOUS
<1>11. Z \in Seq(Entry) /\ EndsWith(Z, z) /\ Len(Z) = 1 /\ Z[1] = z
  BY <1>7, <1>10 DEF EndsWith
<1>12. A \o B \in Seq(Entry) /\ Exitless(A \o B)
  BY <1>1, ConcatIndex, ExitlessConcat
<1>13. PICK P : P = (A \o B) \o I
  OBVIOUS
<1>14. /\ P \in Seq(Entry) /\ Exitless(P) /\ Has(P, "wg-iface", "wg-cascade")
       /\ \A p \in run.installed : Has(P, "package", p)
  <2>1. P \in Seq(Entry) /\ Exitless(P)
    BY <1>9, <1>12, <1>13, ConcatIndex, ExitlessConcat
  <2>2. Has(P, "wg-iface", "wg-cascade")
    BY <1>9, <1>12, <1>13, HasConcat
  <2>3. ASSUME NEW p \in run.installed PROVE Has(P, "package", p)
    <3>1. Has(A, "package", p) \/ Has(B, "package", p)
      BY <1>1, <1>2
    <3>2. Has(A \o B, "package", p)
      BY <1>1, <3>1, HasConcat
    <3> QED
      BY <1>9, <1>12, <1>13, <3>2, HasConcat
  <2> QED
    BY <2>1, <2>2, <2>3
<1>15. NewEntries = P \o Z
  BY <1>6, <1>8, <1>10, <1>13
<1>16. /\ NewEntries \in Seq(Entry) /\ Len(NewEntries) = Len(P) + 1 /\ Len(P) \in Nat
       /\ \A i \in 1 .. Len(P) : NewEntries[i] = P[i]
       /\ NewEntries[Len(P) + 1] = z
  <2>1. /\ P \o Z \in Seq(Entry) /\ Len(P \o Z) = Len(P) + 1 /\ Len(P) \in Nat
        /\ \A i \in 1 .. Len(P) : (P \o Z)[i] = P[i]
    BY <1>11, <1>14, ConcatIndex
  <2>2. (P \o Z)[Len(P) + 1] = Z[1]
    BY <1>11, <1>14, ConcatIndex
  <2> QED
    BY <1>11, <1>15, <2>1, <2>2
<1>17. EndsWith(NewEntries, z)
  BY <1>7, <1>11, <1>14, <1>15, EndsWithAdded
<1>18. \A i \in 1 .. Len(NewEntries) - 1 : NewEntries[i].kind # "eu-exit"
  BY <1>14, <1>16 DEF Exitless
<1>19. \A i \in 1 .. Len(NewEntries) :
         NewEntries[i].kind = "eu-exit" => NewEntries[i].target = run.host
  <2> SUFFICES ASSUME NEW i \in 1 .. Len(NewEntries), NewEntries[i].kind = "eu-exit"
               PROVE  NewEntries[i].target = run.host
    OBVIOUS
  <2>1. i = Len(P) + 1
    BY <1>16, <1>18
  <2> QED
    BY <1>5, <1>16, <2>1
<1>20. /\ Has(NewEntries, "wg-iface", "wg-cascade")
       /\ \A p \in run.installed : Has(NewEntries, "package", p)
  <2>1. Has(P \o Z, "wg-iface", "wg-cascade")
    BY <1>11, <1>14, HasConcat
  <2>2. \A p \in run.installed : Has(P \o Z, "package", p)
    BY <1>11, <1>14, HasConcat
  <2> QED
    BY <1>15, <2>1, <2>2
<1> QED
  BY <1>7, <1>16, <1>17, <1>18, <1>19, <1>20 DEF e

\* The exits of completed runs are hosts with a way in.
LEMMA MadeTypes ==
  ASSUME TypeInv, NEW h \in DOMAIN made
  PROVE  h \in Host /\ made[h] \in Auth /\ ExitEntry(h, made[h]) \in Entry
<1>1. h \in Host /\ made[h] \in Auth
  BY Types
<1> QED
  BY <1>1 DEF ExitEntry, Entry

\* Entries of other kinds are added, for what is new among `ours`.
LEMMA KnownAdded ==
  ASSUME TypeInv, Known, NEW l \in Seq(Entry), ledger' = ledger \o l, made' = made,
         Exitless(l),
         "drop-in" \in ours' => "drop-in" \in ours \/ Has(l, "file", "drop-in"),
         \A p \in ours' \cap Package : p \in ours \/ Has(l, "package", p)
  PROVE  Known'
<1>1. ledger \in Seq(Entry)
  BY Types
<1>2. ASSUME NEW h \in DOMAIN made PROVE EndsWith(ledger', ExitEntry(h, made[h]))
  <2>1. ExitEntry(h, made[h]) \in Entry /\ EndsWith(ledger, ExitEntry(h, made[h]))
    BY MadeTypes DEF Known
  <2>2. ExitEntry(h, made[h]).kind = "eu-exit"
    BY DEF ExitEntry
  <2> QED
    BY <1>1, <2>1, <2>2, EndsWithLonger DEF Exitless
<1>3. DOMAIN made # {} => Has(ledger', "wg-iface", "wg-cascade")
  BY <1>1, HasConcat DEF Known
<1>4. "drop-in" \in ours' => Has(ledger', "file", "drop-in")
  BY <1>1, HasConcat DEF Known
<1>5. ASSUME NEW p \in ours' \cap Package PROVE Has(ledger', "package", p)
  BY <1>1, <1>5, HasConcat DEF Known
<1> QED
  BY <1>2, <1>3, <1>4, <1>5 DEF Known

\* The ledger stays, and so do the completed runs.
LEMMA KnownSame ==
  ASSUME Known, UNCHANGED <<ledger, made, ours>>
  PROVE  Known'
BY DEF Known

\* A run that completes: its exit is last.
LEMMA KnownRecord ==
  ASSUME TypeInv, Known, UpRecord
  PROVE  Known'
<1>1. /\ run.pc = "record" /\ ledger' = ledger \o NewEntries
      /\ made' = [h \in DOMAIN made \cup {run.host} |->
                    IF h = run.host THEN run.auth ELSE made[h]]
      /\ ours' = ours \cup run.installed
      /\ ledger \in Seq(Entry)
  BY Types DEF UpRecord, Step
<1>2. ASSUME NEW h \in DOMAIN made' PROVE EndsWith(ledger', ExitEntry(h, made'[h]))
  <2>1. CASE h = run.host
    <3>1. made'[h] = run.auth
      BY <1>1, <2>1
    <3> QED
      BY <1>1, <2>1, <3>1, NewEntriesHas, EndsWithAdded
  <2>2. CASE h # run.host
    <3>1. made'[h] = made[h] /\ h \in DOMAIN made
      BY <1>1, <1>2, <2>2
    <3>2. ExitEntry(h, made[h]) \in Entry /\ EndsWith(ledger, ExitEntry(h, made[h]))
      BY <3>1, MadeTypes DEF Known
    <3>3. ExitEntry(h, made[h]).kind = "eu-exit" /\ ExitEntry(h, made[h]).target = h
      BY DEF ExitEntry
    <3> QED
      BY <1>1, <2>2, <3>1, <3>2, <3>3, NewEntriesHas, EndsWithLonger
  <2> QED
    BY <2>1, <2>2
<1>3. NewEntries \in Seq(Entry) /\ run.installed \subseteq {"amneziawg", "sshpass"}
  BY <1>1, NewEntriesHas, Types DEF Run, AptPackage
<1>4. Has(ledger', "wg-iface", "wg-cascade")
  BY <1>1, <1>3, NewEntriesHas, HasConcat
<1>5. "drop-in" \in ours' => Has(ledger', "file", "drop-in")
  <2>1. "drop-in" \in ours' => "drop-in" \in ours
    BY <1>1, <1>3
  <2> QED
    BY <1>1, <1>3, <2>1, HasConcat DEF Known
<1>6. ASSUME NEW p \in ours' \cap Package PROVE Has(ledger', "package", p)
  <2>1. Has(ledger, "package", p) \/ Has(NewEntries, "package", p)
    BY <1>1, <1>6, NewEntriesHas DEF Known
  <2> QED
    BY <1>1, <1>3, <2>1, HasConcat
<1> QED
  BY <1>2, <1>4, <1>5, <1>6 DEF Known

\* Lists are joined in any order of joining.
LEMMA ConcatEntries ==
  ASSUME NEW a \in Seq(Entry), NEW b \in Seq(Entry), NEW c \in Seq(Entry)
  PROVE  (a \o b) \o c = a \o (b \o c)
BY ConcatAssociative

\* vlr up records Xray if it installed it, and the drop-in.
LEMMA KnownVlrUp ==
  ASSUME TypeInv, Known, NEW done \in 1 .. 4, VlrUp(done)
  PROVE  Known'
<1> DEFINE X == IF done >= 2 THEN (IF "xray" \in pkgs THEN <<>> ELSE <<XrayEntry>>) ELSE <<>>
           Y == IF done = 4 THEN <<DropinEntry>> ELSE <<>>
<1>1. /\ ledger' = (ledger \o X) \o Y /\ made' = made /\ ledger \in Seq(Entry)
      /\ ours' = IF done < 4 THEN ours
                 ELSE ours \cup {"drop-in"} \cup ({"xray"} \ pkgs)
  BY Types DEF VlrUp
<1>2. /\ XrayEntry \in Entry /\ XrayEntry.kind = "package" /\ XrayEntry.target = "xray"
      /\ DropinEntry \in Entry /\ DropinEntry.kind = "file" /\ DropinEntry.target = "drop-in"
  BY DEF XrayEntry, DropinEntry, Entry, Package
<1>3. /\ X \in Seq(Entry) /\ Exitless(X)
      /\ done = 4 /\ "xray" \notin pkgs => Has(X, "package", "xray")
  <2>1. CASE done >= 2 /\ "xray" \notin pkgs
    <3>1. X = <<XrayEntry>>
      BY <2>1
    <3> HIDE DEF X
    <3> QED
      BY <1>2, <3>1 DEF Exitless, Has
  <2>2. CASE ~(done >= 2 /\ "xray" \notin pkgs)
    <3>1. X = <<>> /\ ~(done = 4 /\ "xray" \notin pkgs)
      BY <2>2
    <3> HIDE DEF X
    <3> QED
      BY <3>1 DEF Exitless
  <2> QED
    BY <2>1, <2>2
<1>4. /\ Y \in Seq(Entry) /\ Exitless(Y)
      /\ done = 4 => Has(Y, "file", "drop-in")
  <2>1. CASE done = 4
    <3>1. Y = <<DropinEntry>>
      BY <2>1
    <3> HIDE DEF Y
    <3> QED
      BY <1>2, <3>1 DEF Exitless, Has
  <2>2. CASE done # 4
    <3>1. Y = <<>>
      BY <2>2
    <3> HIDE DEF Y
    <3> QED
      BY <2>2, <3>1 DEF Exitless
  <2> QED
    BY <2>1, <2>2
<1> HIDE DEF X, Y
<1>5. (ledger \o X) \o Y = ledger \o (X \o Y)
  BY <1>1, <1>3, <1>4, ConcatEntries
<1>6. X \o Y \in Seq(Entry) /\ Exitless(X \o Y)
  BY <1>3, <1>4, ConcatIndex, ExitlessConcat
<1>7. "drop-in" \in ours' => "drop-in" \in ours \/ Has(X \o Y, "file", "drop-in")
  <2>1. CASE done = 4
    BY <1>3, <1>4, <2>1, HasConcat
  <2>2. CASE done # 4
    BY <1>1, <2>2
  <2> QED
    BY <2>1, <2>2
<1>8. \A p \in ours' \cap Package : p \in ours \/ Has(X \o Y, "package", p)
  <2>1. "drop-in" \notin Package
    BY DEF Package, AptPackage
  <2>2. \A p \in ours' \cap Package : p \in ours \/ (done = 4 /\ p = "xray" /\ "xray" \notin pkgs)
    BY <1>1, <2>1
  <2>3. done = 4 /\ "xray" \notin pkgs => Has(X \o Y, "package", "xray")
    BY <1>3, <1>4, HasConcat
  <2> QED
    BY <2>2, <2>3
<1> QED
  BY <1>1, <1>5, <1>6, <1>7, <1>8, KnownAdded

\* Cut off while it records, a run has not recorded its exit.
LEMMA KnownRebootNode ==
  ASSUME TypeInv, Known, RebootNode
  PROVE  Known'
<1>1. made' = made /\ ours' = ours
  BY DEF RebootNode
<1>2. CASE run.pc = "record"
  <2>1. PICK k \in 0 .. Len(NewEntries) - 1 : ledger' = ledger \o SubSeq(NewEntries, 1, k)
    BY <1>2 DEF RebootNode
  <2>2. /\ NewEntries \in Seq(Entry) /\ Len(NewEntries) \in Nat
        /\ \A i \in 1 .. Len(NewEntries) - 1 : NewEntries[i].kind # "eu-exit"
    BY <1>2, NewEntriesHas
  <2>3. PICK l : l = SubSeq(NewEntries, 1, k)
    OBVIOUS
  <2>4. /\ l \in Seq(Entry) /\ Len(l) = k
        /\ \A i \in 1 .. k : l[i] = NewEntries[i]
    BY <2>2, <2>3
  <2>5. Exitless(l)
    BY <2>2, <2>4 DEF Exitless
  <2> QED
    BY <1>1, <2>1, <2>3, <2>4, <2>5, KnownAdded
<1>3. CASE run.pc # "record"
  BY <1>1, <1>3, KnownSame DEF RebootNode
<1> QED
  BY <1>2, <1>3

\* Every step keeps what completed runs set up in the ledger.
LEMMA KnownNext ==
  ASSUME TypeInv, Known, [Next]_vars
  PROVE  Known'
<1>1. CASE UNCHANGED vars
  BY <1>1, KnownSame DEF vars, histVars
<1>2. CASE UpStep
  <2>1. CASE UpRecord \/ \E done \in 1 .. 4 : VlrUp(done)
    BY <2>1, KnownRecord, KnownVlrUp
  <2>2. CASE ~(UpRecord \/ \E done \in 1 .. 4 : VlrUp(done))
    <3>1. UNCHANGED <<ledger, made, ours>>
      BY <1>2, <2>2 DEF UpStep, UpStart, Install, OwnKey, NewKey, Connect, UpStopOld,
                        UpWrite, UpEnable, UpRestart, UpSave, UpHandshake, UpFails,
                        ConnectionLost, histVars
    <3> QED
      BY <3>1, KnownSame
  <2> QED
    BY <2>1, <2>2
<1>3. CASE UnStep
  <2>1. CASE UnConfig /\ ~un.keep
    <3>1. made' = EmptyMap /\ ours' = {}
      BY <2>1 DEF UnConfig
    <3>2. DOMAIN EmptyMap = {}
      BY DEF EmptyMap
    <3>3. DOMAIN made' = {} /\ ours' = {}
      BY <3>1, <3>2
    <3> QED
      BY <3>3 DEF Known
  <2>2. CASE ~(UnConfig /\ ~un.keep)
    <3>1. UNCHANGED <<ledger, made, ours>>
      BY <1>3, <2>2 DEF UnStep, UnStart, UnSkip, UnExit, UnExitFails, UnLocal, UnPackages,
                        UnFiles, UnConfig, histVars
    <3> QED
      BY <3>1, KnownSame
  <2> QED
    BY <2>1, <2>2
<1>4. ASSUME NEW s \in scripts, ScriptStep(s) PROVE Known'
  <2>1. UNCHANGED <<ledger, made, ours>>
    BY <1>4 DEF ScriptStep, ScriptStop, ScriptKey, ScriptConf, ScriptEnable, ScriptStart,
                ScriptAnswer, ScriptFails, histVars
  <2> QED
    BY <2>1, KnownSame
<1>5. CASE \E h \in Host : RebootExit(h)
  BY <1>5, KnownSame DEF RebootExit
<1> QED
  BY <1>1, <1>2, <1>3, <1>4, <1>5, KnownRebootNode DEF Next

\* What uninstall has read, and what it has undone so far.
Snapshot ==
  un.pc # "idle" =>
    /\ DOMAIN made # {} => un.iface
    /\ "drop-in" \in ours => "drop-in" \in un.files
    /\ un.remove => ours \cap Package \subseteq un.pkgs
\* The exit h is still to be torn down, the way its last run came in.
Listed(h) == un.pc = "exits" /\ [host |-> h, auth |-> made[h]] \in un.todo
\* The exits: clean, listed, or left.
Cleared ==
  un.pc # "idle" /\ calm =>
    /\ scripts = {}
    /\ \A h \in DOMAIN made \ un.left :
         made[h] = "key" \/ un.creds => exit[h] = CleanExit \/ Listed(h)
\* The node, step by step.
Undone ==
  /\ un.pc \in {"packages", "files", "config"} /\ DOMAIN made # {} => local = CleanLocal
  /\ un.pc \in {"files", "config"} /\ un.remove /\ "xray" \notin un.pkgs =>
       pkgs \cap ours = {}
  /\ un.pc = "config" /\ "drop-in" \in ours => ~dropin
\* The inductive invariant of UninstallReverses.
Reversing == Snapshot /\ Cleared /\ Undone

\* No uninstall is at work.
LEMMA ReversingIdle ==
  ASSUME un'.pc = "idle"
  PROVE  Reversing'
BY DEF Reversing, Snapshot, Cleared, Undone

\* Uninstall finds in the ledger what completed runs set up.
LEMMA ReversingStart ==
  ASSUME TypeInv, Known, NEW skip \in BOOLEAN, NEW keep \in BOOLEAN,
         NEW remove \in BOOLEAN, NEW creds \in BOOLEAN,
         UnStart(skip, keep, remove, creds)
  PROVE  Reversing'
<1> DEFINE todo == IF skip THEN {} ELSE KnownExits
           asked == IF remove THEN {e.target : e \in Recorded("package")} ELSE {}
<1>1. /\ un'.pc = "exits" /\ un'.todo = todo
      /\ un'.iface = (Recorded("wg-iface") # {} \/ cfg.host # None)
      /\ un'.pkgs = asked
      /\ un'.files = {e.target : e \in Recorded("file")}
      /\ un'.remove = remove /\ un'.creds = creds
      /\ un'.left = IF skip THEN Host ELSE {}
  BY DEF UnStart
<1>2. /\ calm' = (scripts = {}) /\ scripts' = scripts
      /\ UNCHANGED <<exit, made, ours>> /\ ledger \in Seq(Entry) /\ DOMAIN made \subseteq Host
  BY Types DEF UnStart
<1>3. DOMAIN made' # {} => un'.iface
  <2>1. DOMAIN made # {} => Recorded("wg-iface") # {}
    BY <1>2, HasDedup DEF Known, Recorded
  <2> QED
    BY <1>1, <1>2, <2>1
<1>4. "drop-in" \in ours' => "drop-in" \in un'.files
  <2>1. "drop-in" \in ours => \E e \in Recorded("file") : e.target = "drop-in"
    BY <1>2, HasDedup DEF Known, Recorded
  <2> QED
    BY <1>1, <1>2, <2>1
<1>5. un'.remove => ours' \cap Package \subseteq un'.pkgs
  <2> SUFFICES ASSUME remove, NEW p \in ours \cap Package PROVE p \in asked
    BY <1>1, <1>2
  <2>1. \E e \in Recorded("package") : e.target = p
    BY <1>2, HasDedup DEF Known, Recorded
  <2> QED
    BY <2>1
<1>6. Snapshot'
  BY <1>3, <1>4, <1>5 DEF Snapshot
<1>7. ASSUME NEW h \in DOMAIN made \ un'.left PROVE [host |-> h, auth |-> made[h]] \in todo
  <2>1. ~skip /\ h \in DOMAIN made
    BY <1>1, <1>2, <1>7
  <2>2. PICK e : e = ExitEntry(h, made[h])
    OBVIOUS
  <2>3. e \in Recorded("eu-exit") /\ e.target = h /\ e.auth = made[h]
    BY <2>1, <2>2, EndsWithDedup DEF Known, Recorded, ExitEntry
  <2>4. [host |-> e.target, auth |-> e.auth] \in KnownExits
    BY <2>3 DEF KnownExits
  <2> QED
    BY <2>1, <2>3, <2>4
<1>8. Cleared'
  BY <1>1, <1>2, <1>7 DEF Cleared, Listed
<1>9. Undone'
  BY <1>1 DEF Undone
<1> QED
  BY <1>6, <1>8, <1>9 DEF Reversing

\* One exit is torn down, skipped or left.
LEMMA ReversingExit ==
  ASSUME TypeInv, Reversing, NEW e \in un.todo, UnSkip(e) \/ UnExit(e) \/ UnExitFails(e)
  PROVE  Reversing'
<1>1. un \in Uninstall /\ exit \in [Host -> Exit] /\ e \in [host : Host, auth : Auth]
      /\ DOMAIN made \subseteq Host
  BY Types DEF Uninstall
<1>2. /\ un.pc = "exits" /\ un'.pc = "exits" /\ un'.todo = un.todo \ {e}
      /\ un'.iface = un.iface /\ un'.files = un.files /\ un'.pkgs = un.pkgs
      /\ un'.remove = un.remove /\ un'.creds = un.creds
      /\ UNCHANGED <<scripts, made, ours, calm>>
      /\ un'.left = IF UnExitFails(e) THEN un.left \cup {e.host} ELSE un.left
  <2>1. CASE UnSkip(e) /\ ~UnExitFails(e)
    BY <1>1, <2>1 DEF UnSkip, histVars, Uninstall
  <2>2. CASE UnExit(e) /\ ~UnExitFails(e)
    BY <1>1, <2>2 DEF UnExit, histVars, Uninstall
  <2>3. CASE UnExitFails(e)
    <3>1. /\ un.pc = "exits"
          /\ un' = [un EXCEPT !.todo = @ \ {e}, !.left = @ \cup {e.host}]
          /\ UNCHANGED <<scripts, made, ours, calm>>
      BY <2>3 DEF UnExitFails, histVars
    <3> QED
      BY <1>1, <2>3, <3>1 DEF Uninstall
  <2> QED
    BY <2>1, <2>2, <2>3
<1>3. Snapshot'
  BY <1>2 DEF Reversing, Snapshot
<1>4. ASSUME calm, NEW h \in DOMAIN made \ un'.left, made[h] = "key" \/ un.creds
      PROVE  exit'[h] = CleanExit \/ [host |-> h, auth |-> made[h]] \in un.todo \ {e}
  <2>1. h \in Host /\ h \in DOMAIN made \ un.left
    BY <1>1, <1>2, <1>4
  <2>2. exit[h] = CleanExit \/ [host |-> h, auth |-> made[h]] \in un.todo
    BY <1>2, <1>4, <2>1 DEF Reversing, Cleared, Listed
  <2>3. exit[h] = CleanExit => exit'[h] = CleanExit
    BY <1>1, <2>1 DEF UnSkip, UnExit, UnExitFails
  <2>4. CASE [host |-> h, auth |-> made[h]] = e
    <3>1. e.host = h /\ e.auth = made[h]
      BY <2>4
    <3>2. ~UnSkip(e)
      BY <1>4, <3>1 DEF UnSkip
    <3>3. ~UnExitFails(e)
      BY <1>2, <1>4, <3>1
    <3>4. exit'[h] = CleanExit
      BY <1>1, <2>1, <3>1, <3>2, <3>3 DEF UnExit
    <3> QED
      BY <3>4
  <2> QED
    BY <2>2, <2>3, <2>4
<1>5. Cleared'
  BY <1>2, <1>4 DEF Reversing, Cleared, Listed
<1>6. Undone'
  BY <1>2 DEF Undone
<1> QED
  BY <1>3, <1>5, <1>6 DEF Reversing

\* The node's end, the packages and the drop-in, in their order.
LEMMA ReversingNode ==
  ASSUME TypeInv, Reversing, UnLocal \/ UnPackages \/ UnFiles
  PROVE  Reversing'
<1>1. /\ un \in Uninstall /\ un.pkgs \subseteq Package
      /\ \A p \in un.pkgs : p \in AptPackage \/ p = "xray"
  BY Types DEF Uninstall, Package
<1>2. /\ UNCHANGED <<scripts, exit, made, ours, calm>> /\ un.pc # "idle"
      /\ un'.iface = un.iface /\ un'.files = un.files /\ un'.pkgs = un.pkgs
      /\ un'.remove = un.remove /\ un'.creds = un.creds /\ un'.left = un.left
      /\ un'.pc # "idle"
  BY <1>1 DEF UnLocal, UnPackages, UnFiles, histVars, Uninstall
<1>3. Snapshot'
  BY <1>2 DEF Reversing, Snapshot
<1>4. Cleared'
  <2>1. un.pc = "exits" => un.todo = {}
    BY DEF UnLocal, UnPackages, UnFiles
  <2>2. \A h : ~Listed(h)
    BY <2>1 DEF Listed
  <2> QED
    BY <1>2, <2>2 DEF Reversing, Cleared
<1>5. CASE UnLocal
  <2>1. /\ un'.pc = "packages" /\ local' = IF un.iface THEN CleanLocal ELSE local
    BY <1>1, <1>5 DEF UnLocal, Uninstall
  <2>2. DOMAIN made' # {} => local' = CleanLocal
    BY <1>2, <2>1 DEF Reversing, Snapshot
  <2>3. Undone'
    BY <2>1, <2>2 DEF Undone
  <2> QED
    BY <1>3, <1>4, <2>3 DEF Reversing
<1>6. CASE UnPackages
  <2>1. /\ un.pc = "packages" /\ un'.pc = "files" /\ local' = local
        /\ pkgs' = IF un.pkgs \subseteq AptPackage THEN pkgs \ un.pkgs ELSE pkgs
    BY <1>1, <1>6 DEF UnPackages, Uninstall
  <2>2. ASSUME un.remove, "xray" \notin un.pkgs PROVE pkgs' \cap ours = {}
    <3>1. un.pkgs \subseteq AptPackage
      BY <1>1, <2>2
    <3>2. pkgs' = pkgs \ un.pkgs /\ pkgs \subseteq Package
      BY <2>1, <3>1, Types
    <3>3. ours \cap Package \subseteq un.pkgs
      BY <1>2, <2>2 DEF Reversing, Snapshot
    <3> QED
      BY <3>2, <3>3
  <2>3. Undone'
    BY <1>2, <2>1, <2>2 DEF Reversing, Undone
  <2> QED
    BY <1>3, <1>4, <2>3 DEF Reversing
<1>7. CASE UnFiles
  <2>1. /\ un.pc = "files" /\ un'.pc = "config" /\ local' = local /\ pkgs' = pkgs
        /\ dropin' = (dropin /\ "drop-in" \notin un.files)
    BY <1>1, <1>7 DEF UnFiles, Uninstall
  <2>2. "drop-in" \in ours => ~dropin'
    <3>1. "drop-in" \in ours => "drop-in" \in un.files
      BY <1>2 DEF Reversing, Snapshot
    <3>2. dropin' => "drop-in" \notin un.files
      BY <1>7, Zenon DEF UnFiles
    <3> QED
      BY <3>1, <3>2
  <2>3. Undone'
    BY <1>2, <2>1, <2>2 DEF Reversing, Undone
  <2> QED
    BY <1>3, <1>4, <2>3 DEF Reversing
<1> QED
  BY <1>5, <1>6, <1>7

\* Others work on the machines; uninstall stays where it is.
LEMMA ReversingSame ==
  ASSUME TypeInv, Reversing, UNCHANGED <<un, local, pkgs, dropin, made, ours>>, calm' => calm,
         un.pc # "idle" /\ calm' /\ scripts = {} =>
           /\ scripts' = {}
           /\ \A h \in Host : exit[h] = CleanExit => exit'[h] = CleanExit
  PROVE  Reversing'
<1>1. Snapshot' /\ Undone'
  BY DEF Reversing, Snapshot, Undone
<1>2. Cleared'
  <2> SUFFICES ASSUME un.pc # "idle", calm'
               PROVE  /\ scripts' = {}
                      /\ \A h \in DOMAIN made \ un.left :
                           made[h] = "key" \/ un.creds => exit'[h] = CleanExit \/ Listed(h)
    BY DEF Cleared, Listed
  <2>1. DOMAIN made \subseteq Host
    BY Types
  <2>2. /\ scripts = {}
        /\ \A h \in DOMAIN made \ un.left :
             made[h] = "key" \/ un.creds => exit[h] = CleanExit \/ Listed(h)
    BY DEF Reversing, Cleared
  <2> QED
    BY <2>1, <2>2
<1> QED
  BY <1>1, <1>2 DEF Reversing

\* No cascade up or vlr up meets an uninstall.
LEMMA ReversingUp ==
  ASSUME TypeInv, Ordered, UpStep
  PROVE  Reversing'
<1>1. un'.pc = "idle"
  <2>1. CASE \E h \in Host, auth \in Auth, auto \in BOOLEAN : UpStart(h, auth, auto)
    BY <2>1 DEF UpStart, Idle
  <2>2. CASE \E done \in 1 .. 4 : VlrUp(done)
    BY <2>2 DEF VlrUp, Idle
  <2>3. CASE \/ Install \/ OwnKey \/ NewKey \/ Connect \/ UpStopOld \/ UpWrite \/ UpEnable
             \/ UpRestart \/ UpSave \/ UpRecord \/ UpHandshake \/ UpFails \/ ConnectionLost
    <3>1. run.pc # "idle" /\ un' = un
      BY <2>3 DEF Install, OwnKey, NewKey, Connect, UpStopOld, UpWrite, UpEnable, UpRestart,
                  UpSave, UpRecord, UpHandshake, UpFails, ConnectionLost, Step
    <3> QED
      BY <3>1 DEF Ordered
  <2> QED
    BY <2>1, <2>2, <2>3 DEF UpStep
<1> QED
  BY <1>1, ReversingIdle

\* An exit that is clean boots clean.
LEMMA ReversingRebootExit ==
  ASSUME TypeInv, Reversing, NEW h \in Host, RebootExit(h)
  PROVE  Reversing'
<1>1. /\ UNCHANGED <<un, local, pkgs, dropin, made, ours>>
      /\ scripts' = {s \in scripts : s.host # h}
      /\ exit' = [exit EXCEPT ![h] = Booted(exit[h])]
      /\ exit \in [Host -> Exit]
  <2>1. exit \in [Host -> Exit]
    BY Types
  <2>2. exit' = [exit EXCEPT ![h] = Booted(exit[h])]
    BY DEF RebootExit
  <2>3. /\ UNCHANGED <<un, local, pkgs, dropin, made, ours>>
        /\ scripts' = {s \in scripts : s.host # h}
    BY DEF RebootExit, nodeVars
  <2> QED
    BY <2>1, <2>2, <2>3
<1>2. calm' => calm
  BY Zenon DEF RebootExit
<1>3. Booted(CleanExit) = CleanExit
  <2>1. ~CleanExit.enabled /\ CleanExit.tunnel = None
    BY DEF CleanExit
  <2>2. Booted(CleanExit) = [CleanExit EXCEPT !.tunnel = None]
    BY <2>1 DEF Booted
  <2>3. CleanExit \in Exit
    BY CleanTypes
  <2>4. [CleanExit EXCEPT !.tunnel = None] = CleanExit
    BY <2>1, <2>3 DEF Exit
  <2> QED
    BY <2>2, <2>4
<1>4. \A k \in Host : exit[k] = CleanExit => exit'[k] = CleanExit
  BY <1>1, <1>3
<1> QED
  BY <1>1, <1>2, <1>4, ReversingSame

\* Every step keeps what is undone undone.
LEMMA ReversingNext ==
  ASSUME TypeInv, Ordered, Known, Reversing, [Next]_vars
  PROVE  Reversing'
<1>1. CASE UNCHANGED vars
  <2>1. /\ UNCHANGED <<un, local, pkgs, dropin, made, ours, calm, scripts, exit>>
    BY <1>1 DEF vars, nodeVars, histVars
  <2> QED
    BY <2>1, ReversingSame
<1>2. CASE UnStep
  <2>1. CASE UnConfig
    BY <2>1, ReversingIdle DEF UnConfig, NoUninstall
  <2> QED
    BY <1>2, <2>1, ReversingStart, ReversingExit, ReversingNode DEF UnStep
<1>3. ASSUME NEW s \in scripts, ScriptStep(s) PROVE Reversing'
  <2>1. /\ UNCHANGED <<un, local, pkgs, dropin, made, ours, calm>> /\ scripts # {}
    BY <1>3 DEF ScriptStep, ScriptStop, ScriptKey, ScriptConf, ScriptEnable, ScriptStart,
                ScriptAnswer, ScriptFails, histVars, nodeVars
  <2> QED
    BY <2>1, ReversingSame
<1>4. CASE RebootNode
  BY <1>4, ReversingIdle DEF RebootNode, NoUninstall
<1> QED
  BY <1>1, <1>2, <1>3, <1>4, ReversingUp, ReversingRebootExit DEF Next

\* When uninstall comes to its own directory, what completed runs set up and it
\* could reach is gone: exits, the node's end, packages and drop-in (cmdUninstall,
\* cmd/vlr/uninstall.go, with the ledger of internal/ledger).
THEOREM UninstallReversesCorrect == Spec => []UninstallReverses
<1>1. Reversing => UninstallReverses
  BY DEF Reversing, Cleared, Undone, Listed, UninstallReverses
<1>2. Init => TypeInv /\ Ordered /\ Known /\ Reversing
  <2> SUFFICES ASSUME Init PROVE Known /\ Reversing
    BY TypeInit, StandsInit
  <2>1. DOMAIN EmptyMap = {}
    BY DEF EmptyMap
  <2>2. DOMAIN made = {} /\ ours = {} /\ un.pc = "idle"
    BY <2>1 DEF Init, NoUninstall
  <2> QED
    BY <2>2 DEF Known, Reversing, Snapshot, Cleared, Undone
<1>3. TypeInv /\ Ordered /\ Known /\ Reversing /\ [Next]_vars =>
        (TypeInv /\ Ordered /\ Known /\ Reversing)'
  BY TypeNext, OrderedNext, KnownNext, ReversingNext
<1> QED
  BY <1>1, <1>2, <1>3, PTL DEF Spec

==============================================================================
