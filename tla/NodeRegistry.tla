---------------------------- MODULE NodeRegistry ----------------------------
(***************************************************************************)
(* The fleet's registry: `vlr node register` on the main server loads      *)
(* nodes.json, sets one entry and writes the file in place; the main       *)
(* server reads it once, at its start.  Composed with NodeConfig: the      *)
(* bearer registered for this node is one that its `node connect` printed. *)
(***************************************************************************)
EXTENDS NodeConfig

CONSTANTS
  Self,    \* the node of NodeConfig
  Other    \* other nodes; their bearers play no part

ASSUME RegistryAssumption == Self \notin Other

Node == Other \cup {Self}
Bearer == Token \cup {None}

VARIABLES
  nodes,   \* nodes.json: a function from node ids to bearers, or Torn
  editor,  \* editor[c]: the register command c runs
  known,   \* the registry in the main server's memory
  held,    \* history: nodes whose registration succeeded
  spoiled  \* history: a save was interrupted, or two commands met

registryVars == <<nodes, editor, known, held, spoiled>>
vars == <<nodeVars, runs, registryVars>>
-----------------------------------------------------------------------------
Registry == UNION {[S -> Bearer] : S \in SUBSET Node}

ASSUME TornAssumption == Torn \notin Registry

EmptyRegistry == [n \in {} |-> None]
NoEdit == [pc |-> "idle", regs |-> EmptyRegistry, node |-> None]

Init ==
  /\ NodeInit /\ runs = 0
  /\ nodes = EmptyRegistry /\ known = EmptyRegistry
  /\ editor = [c \in Cmd |-> NoEdit]
  /\ held = {} /\ spoiled = FALSE

\* loadRegs: a file that cannot be read is an empty registry.
LoadRegs == IF nodes = Torn THEN EmptyRegistry ELSE nodes

\* Mutant: the registry starts over with the new node.
WithOnly(regs, n, b) == [m \in {n} |-> b]

With(regs, n, b) ==
  [m \in DOMAIN regs \cup {n} |-> IF m = n THEN b ELSE regs[m]]

Editing(c) == editor[c].pc # "idle"

RegisterBegin(c, n, b) ==
  /\ ~Editing(c) /\ runs < MaxRuns
  /\ runs' = runs + 1
  /\ editor' = [editor EXCEPT ![c] =
                  [pc |-> "open", regs |-> With(LoadRegs, n, b), node |-> n]]
  /\ spoiled' = (spoiled \/ \E d \in Cmd : Editing(d))
  /\ UNCHANGED <<nodeVars, nodes, known, held>>

\* saveRegs: os.WriteFile truncates the file ...
SaveOpen(c) ==
  /\ editor[c].pc = "open"
  /\ nodes' = Torn
  /\ editor' = [editor EXCEPT ![c].pc = "write"]
  /\ UNCHANGED <<nodeVars, runs, known, held, spoiled>>

\* ... and writes it, perhaps over what another command has written since.
SaveWrite(c) ==
  /\ editor[c].pc = "write"
  /\ nodes' \in IF nodes = Torn THEN {editor[c].regs}
                ELSE {editor[c].regs, Torn}
  /\ held' = held \cup {editor[c].node}
  /\ editor' = [editor EXCEPT ![c] = NoEdit]
  /\ UNCHANGED <<nodeVars, runs, known, spoiled>>

RegisterQuit(c) ==
  /\ Editing(c)
  /\ editor' = [editor EXCEPT ![c] = NoEdit]
  /\ spoiled' = (spoiled \/ editor[c].pc = "write")
  /\ UNCHANGED <<nodeVars, runs, nodes, known, held>>

\* cmdServe in the main role.
MainRestart ==
  /\ known' = LoadRegs
  /\ UNCHANGED <<nodeVars, runs, nodes, editor, held, spoiled>>

RegistryNext ==
  \/ \E c \in Cmd :
       \/ \E n \in Other : RegisterBegin(c, n, None)
       \/ \E b \in printed : RegisterBegin(c, Self, b)
       \/ SaveOpen(c) \/ SaveWrite(c) \/ RegisterQuit(c)
  \/ MainRestart

Next == RegistryNext \/ (NodeNext /\ UNCHANGED registryVars)

Spec == Init /\ [][Next]_vars
-----------------------------------------------------------------------------
(***************************************************************************)
(* Properties.                                                             *)
(***************************************************************************)
Renderings == {Rendered(s) : s \in Settings}

NodeTypes ==
  /\ data \in [Inode -> Settings \cup Unreadable]
  /\ path \in Inode /\ tmp \in Inode \cup {None}
  /\ proc \in [Cmd -> [pc : {"idle", "open", "write", "rename", "register",
                             "refresh", "apply"},
                       kind : Kind \cup {None}, run : 0 .. MaxRuns,
                       conf : Settings, base : Inode \cup {None},
                       inode : Inode \cup {None}]]
  /\ daemon \in Settings \cup {None}
  /\ xray \in Renderings
  /\ printed \subseteq Token /\ agent \in Token \cup {None}
  /\ intended \in Settings \cup {None}

RegistryTypes ==
  /\ nodes \in Registry \cup {Torn}
  /\ editor \in [Cmd -> [pc : {"idle", "open", "write"}, regs : Registry,
                         node : Node \cup {None}]]
  /\ known \in Registry
  /\ held \subseteq Node /\ spoiled \in BOOLEAN

\* Every variable holds what the code's types allow; in particular what connect
\* registers is a pair of tokens, never the absence of one.
TypeOK == NodeTypes /\ RegistryTypes /\ runs \in 0 .. MaxRuns

\* Nobody has saved over what it had not loaded, or wrote to the temporary file
\* of another command at work.
Orderly == intended # None

\* Orderly commands add up: whatever failed or was killed at whatever step of a
\* save before, config.json holds the installed configuration with the change
\* of every command that saved, and nothing of one that did not.
NothingUndone == Orderly => Config = intended

\* "in place (keeps the Reality keys, so no client link breaks)", and the
\* tokens: as long as commands are orderly, whatever of this node's bearers the
\* agent, nodes.json or the main server's memory holds - registered twice, late
\* or from an earlier connect - is the token in config.json, unless init has
\* started the node anew since.
TokensAgree ==
  Orderly =>
    \A t \in {agent} \cup {x[Self] : x \in {y \in {LoadRegs, known} :
                                           Self \in DOMAIN y}} :
      t # None /\ t >= intended.key => t = Config.tokens

\* A registration stays: unless a save was interrupted or two registrations
\* met, every node that was registered is in nodes.json between commands.
RegistrationStays ==
  ~spoiled /\ (\A c \in Cmd : ~Editing(c)) => held \subseteq DOMAIN LoadRegs

\* Where a connection to a domain of the lists leaves.
ListedLeaves(x) == Outbound(x, {"listed"})

\* Once listed domains leave as config.json says, they go on to do so until the
\* next save.  Only one who works with an older configuration takes that back: a
\* command that loaded before the save, or a daemon that was not restarted since
\* and applies a user change.
NoRevert ==
  [][Orderly /\ UNCHANGED intended
       /\ ListedLeaves(xray) = ListedLeaves(Rendered(intended))
       /\ ListedLeaves(xray') # ListedLeaves(xray)
     => \/ daemon \notin {None, Config}
        \/ \E c \in Cmd : Busy(c) /\ proc[c].base # path]_vars
=============================================================================
