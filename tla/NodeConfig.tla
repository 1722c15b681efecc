----------------------------- MODULE NodeConfig -----------------------------
(***************************************************************************)
(* A node's config.json (internal/config) and everything that works on it: *)
(* the commands init, split, node connect, cascade up, up and render, each *)
(* a process that loads the whole configuration, changes its part and      *)
(* saves it all, and the daemon, which loads it once at its start and      *)
(* renders Xray's configuration from that copy after every user change.    *)
(*                                                                         *)
(* Save writes config.json.tmp and renames it.  All savers share that one  *)
(* name, so files are modelled as inodes: a writer keeps the inode it      *)
(* opened, wherever a rename has taken it meanwhile.  The inode that run r *)
(* creates is r; inode 0 is the configuration the node was installed with. *)
(***************************************************************************)
EXTENDS Integers, Sequences, FiniteSets

CONSTANTS
  Cmd,        \* command processes that can be at work at one time
  None,
  Empty, Torn, \* contents that are no configuration
  MaxRuns     \* bound: commands run

ASSUME ConfigAssumption ==
  /\ MaxRuns \in Nat
  /\ None \notin Nat

Inode == 0 .. MaxRuns
Token == 1 .. MaxRuns      \* the tokens run r generates are r
Key   == 0 .. MaxRuns      \* the Reality keys init run r generates are r
Role  == {"standalone", "child", "main"}

VARIABLES
  data,     \* data[i]: content of inode i
  path,     \* the inode of config.json
  tmp,      \* the inode of config.json.tmp, or None
  proc,     \* proc[c]: the command c runs, and what it holds
  daemon,   \* the configuration in the daemon's memory, None when it is down
  xray,     \* what Xray runs on
  printed,  \* registrations connect has sent or printed
  agent,    \* the registration the agent holds
  runs,     \* commands so far; the number of the latest
  intended  \* history: the changes of all saved commands, one after another;
            \* None once a command has saved over what it had not loaded

fileVars == <<data, path, tmp>>
nodeVars == <<fileVars, proc, daemon, xray, printed, agent, intended>>
-----------------------------------------------------------------------------
(***************************************************************************)
(* Contents: a configuration, nothing yet, or the remains of two writers.  *)
(* Of the split lists, split says whether they hold one given domain.      *)
(***************************************************************************)
Settings == [role : Role, url : BOOLEAN, tokens : Token \cup {None},
             split : BOOLEAN, exit : BOOLEAN, key : Key]
Unreadable == {Empty, Torn}

ASSUME UnreadableAssumption ==
  Empty # Torn /\ Unreadable \cap Settings = {} /\ None \notin Settings

\* Validate: a child needs its main server's URL.
Valid(s) == s.role = "child" => s.url

\* Load: read, parse, validate.
Loadable(x) == x \in Settings /\ Valid(x)

Installed == [role |-> "standalone", url |-> FALSE, tokens |-> None,
              split |-> FALSE, exit |-> FALSE, key |-> 0]
NoCommand == [pc |-> "idle", kind |-> None, run |-> 0, conf |-> Installed,
              base |-> None, inode |-> None]

Config == data[path]
-----------------------------------------------------------------------------
(***************************************************************************)
(* Rendering.  Xray takes the first rule that matches; what matches none   *)
(* leaves by the first outbound, egress, and so through the tunnel.        *)
(***************************************************************************)
Rule(match, out) == [match |-> match, out |-> out]

\* buildRoutingRules; "listed" is the domain that split is about.
Rules(s) ==
  <<Rule("api-in", "api")>>
    \o (IF s.split THEN <<Rule("listed", "egress-ru")>> ELSE <<>>)
    \o <<Rule("private", "block")>>

Rendered(s) == [rules |-> Rules(s)]

\* Where a connection with these attributes leaves.
Outbound(x, attributes) ==
  LET hits == {i \in 1 .. Len(x.rules) : x.rules[i].match \in attributes}
  IN  IF hits = {} THEN "egress"
      ELSE x.rules[CHOOSE i \in hits : \A j \in hits : i <= j].out
-----------------------------------------------------------------------------
(***************************************************************************)
(* What each command makes of the configuration it loaded, as run r.       *)
(***************************************************************************)

\* split add and split rm.
SplitAdd(s) == [s EXCEPT !.split = TRUE]
SplitRm(s)  == [s EXCEPT !.split = FALSE]

\* Mutant: no tokens are generated.
ConnectedWithoutTokens(s, r) == [s EXCEPT !.role = "child", !.url = TRUE]

\* Mutant: tokens are generated although there are some.
ConnectedAnew(s, r) ==
  [s EXCEPT !.role = "child", !.url = TRUE, !.tokens = r]

\* node connect: a child in place, with the tokens it has or new ones.
Connected(s, r) ==
  [s EXCEPT !.role = "child", !.url = TRUE,
            !.tokens = IF @ = None THEN r ELSE @]

\* cascade up, once the exit is set up.
Cascaded(s) == [s EXCEPT !.exit = TRUE]

\* init looks at nothing that was there.  It writes a child with or without a
\* main server, as the flags say, lists the domains that .env names, and does
\* not validate what it writes.
InitMain(r) == [Installed EXCEPT !.role = "main", !.key = r]

InitNode(role, listed, r) ==
  [Installed EXCEPT !.role = role, !.split = listed, !.key = r]

InitChild(listed, r) ==
  [InitNode("child", listed, r) EXCEPT !.url = TRUE, !.tokens = r]

InitWrites(r) ==
  {InitMain(r)}
    \cup {InitNode(role, listed, r) : role \in Role \ {"main"}, listed \in BOOLEAN}
    \cup {InitChild(listed, r) : listed \in BOOLEAN}

Kind == {"add", "rm", "connect", "cascade", "init", "apply"}

\* What a command of another kind than init saves, from s, as run r.
Changed(kind, s, r) ==
  CASE kind = "add"     -> SplitAdd(s)
    [] kind = "rm"      -> SplitRm(s)
    [] kind = "connect" -> Connected(s, r)
    [] kind = "cascade" -> Cascaded(s)
    [] OTHER            -> s

\* connect, cascade up and up refuse the main role.
Serves(kind, s) == kind \in {"connect", "cascade", "apply"} => s.role # "main"

\* The configurations the command may come to hold.
Prepared(kind, r) ==
  IF kind = "init" THEN InitWrites(r)
  ELSE IF Loadable(Config) /\ Serves(kind, Config)
  THEN {Changed(kind, Config, r)} ELSE {}
-----------------------------------------------------------------------------
NodeInit ==
  /\ data = [i \in Inode |-> IF i = 0 THEN Installed ELSE Empty]
  /\ path = 0 /\ tmp = None
  /\ proc = [c \in Cmd |-> NoCommand]
  /\ daemon = Installed
  /\ xray = Rendered(Installed)
  /\ printed = {} /\ agent = None
  /\ intended = Installed

Busy(c) == proc[c].pc # "idle"

\* The command starts, loads and changes its copy.  Its questions, the
\* installation of packages and the half hour that an exit's provisioning may
\* take lie between this step and the next.
Begin(c, kind) ==
  /\ ~Busy(c) /\ runs < MaxRuns
  /\ runs' = runs + 1
  /\ \E s \in Prepared(kind, runs') :
       proc' = [proc EXCEPT ![c] =
                  [pc |-> IF kind = "apply" THEN "apply" ELSE "open",
                   kind |-> kind, run |-> runs', conf |-> s, base |-> path,
                   inode |-> None]]
  /\ UNCHANGED <<fileVars, daemon, xray, printed, agent, intended>>

\* A step fails, or the command is killed.
Quit(c) ==
  /\ Busy(c)
  /\ proc' = [proc EXCEPT ![c] = NoCommand]
  /\ UNCHANGED <<fileVars, daemon, xray, printed, agent, runs, intended>>
-----------------------------------------------------------------------------
(***************************************************************************)
(* Save.                                                                   *)
(***************************************************************************)
\* Mutant: config.json itself is opened.
OpenedInPlace(c) == path

\* os.WriteFile opens the temporary file that is there, or creates it.
Opened(c) == IF tmp = None THEN proc[c].run ELSE tmp

\* Another command is at work on the inode.
Shared(c, i) == \E d \in Cmd \ {c} : proc[d].inode = i

Open(c) ==
  /\ proc[c].pc = "open"
  /\ tmp' = IF Opened(c) = path THEN tmp ELSE Opened(c)
  /\ data' = [data EXCEPT ![Opened(c)] = Empty]
  /\ proc' = [proc EXCEPT ![c].pc = "write", ![c].inode = Opened(c)]
  /\ intended' = IF Shared(c, Opened(c)) THEN None ELSE intended
  /\ UNCHANGED <<path, daemon, xray, printed, agent, runs>>

\* A shorter configuration over a longer one leaves the tail of it.
Write(c) ==
  /\ proc[c].pc = "write"
  /\ \E x \in IF data[proc[c].inode] = Empty THEN {proc[c].conf}
              ELSE {proc[c].conf, Torn} :
       data' = [data EXCEPT ![proc[c].inode] = x]
  /\ proc' = [proc EXCEPT ![c].pc = "rename"]
  /\ UNCHANGED <<path, tmp, daemon, xray, printed, agent, runs, intended>>

\* What follows the save.
AfterSave(c) ==
  CASE proc[c].kind = "connect" -> [proc[c] EXCEPT !.pc = "register"]
    [] proc[c].kind = "cascade" -> [proc[c] EXCEPT !.pc = "refresh"]
    [] OTHER -> NoCommand

\* The saved command's change is intended, unless it overwrites what another
\* has saved since it loaded.
NowIntended(c) ==
  IF intended = None \/ proc[c].base # path THEN None
  ELSE IF proc[c].kind = "init" THEN proc[c].conf
  ELSE Changed(proc[c].kind, intended, proc[c].run)

\* Whatever is at the temporary name becomes config.json.  With nothing there
\* the command fails.
Rename(c) ==
  /\ proc[c].pc = "rename" /\ tmp # None
  /\ path' = tmp /\ tmp' = None
  /\ data' = [data EXCEPT ![path] = Empty]
  /\ proc' = [proc EXCEPT ![c] = AfterSave(c)]
  /\ intended' = NowIntended(c)
  /\ UNCHANGED <<daemon, xray, printed, agent, runs>>
-----------------------------------------------------------------------------
(***************************************************************************)
(* After the save.                                                         *)
(***************************************************************************)
\* connect registers the tokens, or prints the request for the operator.
Register(c) ==
  /\ proc[c].pc = "register"
  /\ printed' = printed \cup {proc[c].conf.tokens}
  /\ proc' = [proc EXCEPT ![c] = NoCommand]
  /\ UNCHANGED <<fileVars, daemon, xray, agent, runs, intended>>

\* The agent receives a registration: at once, after the command gave up
\* waiting, again, or when the operator sends it by hand.
AgentReceives(t) ==
  /\ agent' = t
  /\ UNCHANGED <<fileVars, proc, daemon, xray, printed, runs, intended>>

\* The daemon with what it loads, None if it cannot start.
Served == IF Loadable(Config) THEN Config ELSE None

\* cascade up restarts a daemon that is active.
Refresh(c) ==
  /\ proc[c].pc = "refresh"
  /\ daemon' = IF daemon = None THEN None ELSE Served
  /\ proc' = [proc EXCEPT ![c] = NoCommand]
  /\ UNCHANGED <<fileVars, xray, printed, agent, runs, intended>>

\* Mutant: up renders the configuration without its lists.
AppliedUnlisted(s) == Rendered([s EXCEPT !.split = FALSE])

Applied(s) == Rendered(s)

\* up, user and render apply the configuration they loaded.
ApplyLoaded(c) ==
  /\ proc[c].pc = "apply"
  /\ xray' = Applied(proc[c].conf)
  /\ proc' = [proc EXCEPT ![c] = NoCommand]
  /\ UNCHANGED <<fileVars, daemon, printed, agent, runs, intended>>
-----------------------------------------------------------------------------
(***************************************************************************)
(* The daemon.                                                             *)
(***************************************************************************)
DaemonRestart ==
  /\ daemon' = Served
  /\ UNCHANGED <<fileVars, proc, xray, printed, agent, runs, intended>>

\* A user comes or goes: Apply with the configuration of the start.
DaemonApply ==
  /\ daemon # None /\ daemon.role # "main"
  /\ xray' = Rendered(daemon)
  /\ UNCHANGED <<fileVars, proc, daemon, printed, agent, runs, intended>>
-----------------------------------------------------------------------------
NodeNext ==
  \/ \E c \in Cmd :
       \/ \E kind \in Kind : Begin(c, kind)
       \/ Quit(c) \/ Open(c) \/ Write(c) \/ Rename(c)
       \/ Register(c) \/ Refresh(c) \/ ApplyLoaded(c)
  \/ \E t \in printed : AgentReceives(t)
  \/ DaemonRestart \/ DaemonApply
=============================================================================
