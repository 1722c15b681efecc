-------------------------- MODULE NodeRegistryProofs --------------------------
(***************************************************************************)
(* Proofs about config.json and nodes.json for any number of commands and  *)
(* runs: orderly saves add up, routing is not taken back, registrations    *)
(* stay, and the tokens agree.                                             *)
(***************************************************************************)
EXTENDS NodeRegistry, TLAPS

\* The commands, as TypeOK has them.
Command == [pc : {"idle", "open", "write", "rename", "register", "refresh", "apply"},
            kind : Kind \cup {None}, run : 0 .. MaxRuns, conf : Settings,
            base : Inode \cup {None}, inode : Inode \cup {None}]
\* What a command at a given step holds for sure.
Sound(p) ==
  p.pc # "idle" =>
    /\ p.run \in Token /\ p.base \in Inode
    /\ p.pc \in {"write", "rename"} => p.inode \in Inode
    /\ p.kind = "connect" => p.conf.tokens \in Token
    /\ p.pc = "register" => p.kind = "connect"
    /\ p.pc = "apply" => p.kind = "apply"
Minted == \A c \in Cmd : Sound(proc[c]) /\ (Editing(c) => editor[c].node \in Node)
TypeInv == TypeOK /\ Minted

\* node connect makes a configuration that has tokens.
LEMMA ConnectedTypes ==
  ASSUME NEW s \in Settings, NEW r \in Token
  PROVE  Connected(s, r) \in Settings /\ Connected(s, r).tokens \in Token
<1>1. PICK t : t = IF s.tokens = None THEN r ELSE s.tokens
  OBVIOUS
<1>2. t \in Token
  BY <1>1 DEF Settings
<1>3. Connected(s, r) = [s EXCEPT !.role = "child", !.url = TRUE, !.tokens = t]
  BY <1>1 DEF Connected, Settings
<1> HIDE DEF Connected
<1> QED
  BY <1>2, <1>3, ZenonT(60) DEF Settings, Role

\* Every command makes a configuration of a configuration.
LEMMA ChangedTypes ==
  ASSUME NEW kind, NEW s \in Settings, NEW r \in Token
  PROVE  Changed(kind, s, r) \in Settings
<1>1. Connected(s, r) \in Settings
  BY ConnectedTypes
<1>2. SplitAdd(s) \in Settings /\ SplitRm(s) \in Settings /\ Cascaded(s) \in Settings
  BY DEF SplitAdd, SplitRm, Cascaded, Settings
<1> QED
  BY <1>1, <1>2 DEF Changed

\* The configuration of the installation is one.
LEMMA InstalledTypes == Installed \in Settings
BY ConfigAssumption DEF Installed, Settings, Role, Key

\* init writes configurations, with the keys of its own run.
LEMMA InitWritesTypes ==
  ASSUME NEW r \in Token, NEW s \in InitWrites(r)
  PROVE  s \in Settings /\ s.key = r
<1>1. r \in Key
  BY ConfigAssumption DEF Token, Key
<1>2. ASSUME NEW role \in Role, NEW listed \in BOOLEAN
      PROVE  InitNode(role, listed, r) \in Settings /\ InitNode(role, listed, r).key = r
  BY <1>1 DEF Settings, InitNode, Installed
<1>3. ASSUME NEW listed \in BOOLEAN
      PROVE  InitChild(listed, r) \in Settings /\ InitChild(listed, r).key = r
  <2>1. "child" \in Role
    BY DEF Role
  <2>2. InitNode("child", listed, r) \in Settings
    BY <1>2, <2>1
  <2> QED
    BY <1>2, <2>1, <2>2 DEF InitChild, Settings
<1>4. InitMain(r) \in Settings /\ InitMain(r).key = r
  BY <1>1 DEF Settings, InitMain, Installed, Role
<1> QED
  BY <1>2, <1>3, <1>4 DEF InitWrites

\* What a command comes to hold is a configuration, with tokens after connect.
LEMMA PreparedTypes ==
  ASSUME TypeOK, NEW kind \in Kind, NEW r \in Token, NEW s \in Prepared(kind, r)
  PROVE  /\ s \in Settings
         /\ kind = "connect" => s.tokens \in Token
<1>1. CASE kind = "init"
  BY <1>1, InitWritesTypes DEF Prepared
<1>2. CASE kind # "init"
  <2>1. Config \in Settings /\ s = Changed(kind, Config, r)
    BY <1>2 DEF Prepared, Loadable
  <2>2. kind = "connect" => s = Connected(Config, r)
    BY <2>1 DEF Changed
  <2> QED
    BY <2>1, <2>2, ChangedTypes, ConnectedTypes
<1> QED
  BY <1>1, <1>2

\* No command is well typed.
LEMMA NoCommandTypes == NoCommand \in Command /\ Sound(NoCommand)
BY InstalledTypes, ConfigAssumption DEF NoCommand, Command, Kind, Inode, Sound

\* The node and the registry start well typed.
LEMMA TypeInit == Init => TypeInv
<1> SUFFICES ASSUME Init PROVE TypeInv
  OBVIOUS
<1> USE InstalledTypes
<1>1. 0 \in Inode /\ MaxRuns \in Nat
  BY ConfigAssumption DEF Inode
<1>2. NoCommand \in Command
  BY NoCommandTypes
<1>3. NodeTypes
  BY <1>1, <1>2 DEF Init, NodeInit, NodeTypes, Command, Unreadable, Renderings
<1>4. EmptyRegistry \in Registry
  BY ZenonT(60) DEF EmptyRegistry, Registry, Bearer
<1>5. RegistryTypes
  BY <1>4 DEF Init, NoEdit, RegistryTypes
<1>6. Minted
  BY NoCommandTypes DEF Init, NodeInit, Minted, Editing, NoEdit
<1> QED
  BY <1>1, <1>3, <1>5, <1>6 DEF TypeInv, TypeOK, Init

\* A command that ends, and those that go on.
LEMMA CommandTypes ==
  ASSUME TypeInv, UNCHANGED editor, NEW c \in Cmd, NEW p \in Command, Sound(p),
         proc' = [proc EXCEPT ![c] = p]
  PROVE  proc' \in [Cmd -> Command] /\ Minted'
<1>1. proc \in [Cmd -> Command]
  BY DEF TypeInv, TypeOK, NodeTypes, Command
<1> QED
  BY <1>1 DEF TypeInv, Minted, Editing

\* The steps of the node keep the types.
LEMMA NodeTypesNext ==
  ASSUME TypeInv, NodeNext, UNCHANGED registryVars
  PROVE  TypeInv'
<1>1. /\ TypeOK /\ NodeTypes /\ RegistryTypes' /\ Minted /\ runs \in 0 .. MaxRuns
      /\ proc \in [Cmd -> Command] /\ UNCHANGED editor
  BY DEF TypeInv, TypeOK, RegistryTypes, registryVars, NodeTypes, Command
<1>2. ASSUME NEW c \in Cmd, NEW kind \in Kind, Begin(c, kind) PROVE TypeInv'
  <2>1. runs' \in 0 .. MaxRuns /\ runs' \in Token
    BY <1>1, <1>2, ConfigAssumption DEF Begin, Token
  <2>2. PICK s \in Prepared(kind, runs') :
          proc' = [proc EXCEPT ![c] =
                  [pc |-> IF kind = "apply" THEN "apply" ELSE "open",
                   kind |-> kind, run |-> runs', conf |-> s, base |-> path,
                   inode |-> None]]
    BY <1>2 DEF Begin
  <2>3. s \in Settings /\ (kind = "connect" => s.tokens \in Token) /\ path \in Inode
    BY <1>1, <2>1, PreparedTypes DEF NodeTypes
  <2>4. PICK w : w \in {"apply", "open"} /\ w = IF kind = "apply" THEN "apply" ELSE "open"
    OBVIOUS
  <2>5. PICK p : p = [pc |-> w, kind |-> kind, run |-> runs', conf |-> s,
                      base |-> path, inode |-> None]
    OBVIOUS
  <2>6. p \in Command /\ proc' = [proc EXCEPT ![c] = p]
    BY <2>1, <2>2, <2>3, <2>4, <2>5 DEF Command
  <2>7. Sound(p)
    BY <2>1, <2>3, <2>4, <2>5 DEF Sound
  <2>8. proc' \in [Cmd -> Command] /\ Minted'
    BY <1>1, <2>6, <2>7, CommandTypes
  <2> QED
    BY <1>1, <1>2, <2>1, <2>8 DEF Begin, TypeInv, TypeOK, NodeTypes, Command, fileVars
<1>3. ASSUME NEW c \in Cmd, proc' = [proc EXCEPT ![c] = NoCommand]
      PROVE  proc' \in [Cmd -> Command] /\ Minted'
  BY <1>1, <1>3, NoCommandTypes, CommandTypes
<1>4. ASSUME NEW c \in Cmd, Quit(c) PROVE TypeInv'
  BY <1>1, <1>3, <1>4 DEF Quit, TypeInv, TypeOK, NodeTypes, Command, fileVars
<1>5. ASSUME NEW c \in Cmd, Open(c) PROVE TypeInv'
  <2>1. PICK i \in Inode : i = Opened(c)
    BY <1>1, <1>5 DEF Opened, NodeTypes, Command, Inode
  <2>2. PICK p : p = [proc[c] EXCEPT !.pc = "write", !.inode = i]
    OBVIOUS
  <2>3. p \in Command /\ proc' = [proc EXCEPT ![c] = p]
    BY <1>1, <1>5, <2>1, <2>2 DEF Open, Command
  <2>4. Sound(p)
    BY <1>1, <1>5, <2>1, <2>2 DEF Open, Command, Minted, Sound
  <2>5. proc' \in [Cmd -> Command] /\ Minted'
    BY <1>1, <2>3, <2>4, CommandTypes
  <2>6. /\ data' \in [Inode -> Settings \cup Unreadable]
        /\ path' \in Inode /\ tmp' \in Inode \cup {None}
        /\ intended' \in Settings \cup {None}
    BY <1>1, <1>5, <2>1 DEF Open, NodeTypes, Unreadable
  <2> QED
    BY <1>1, <1>5, <2>5, <2>6 DEF Open, TypeInv, TypeOK, NodeTypes, Command
<1>6. ASSUME NEW c \in Cmd, Write(c) PROVE TypeInv'
  <2>1. proc[c].inode \in Inode
    BY <1>1, <1>6 DEF Write, Minted, Sound
  <2>2. PICK p : p = [proc[c] EXCEPT !.pc = "rename"]
    OBVIOUS
  <2>3. p \in Command /\ proc' = [proc EXCEPT ![c] = p]
    BY <1>1, <1>6, <2>2 DEF Write, Command
  <2>4. Sound(p)
    BY <1>1, <1>6, <2>1, <2>2 DEF Write, Command, Minted, Sound
  <2>5. proc' \in [Cmd -> Command] /\ Minted'
    BY <1>1, <2>3, <2>4, CommandTypes
  <2>6. proc[c].conf \in Settings /\ Torn \in Unreadable
    BY <1>1 DEF Command, Unreadable
  <2>7. data' \in [Inode -> Settings \cup Unreadable]
    BY <1>1, <1>6, <2>1, <2>6 DEF Write, NodeTypes
  <2> QED
    BY <1>1, <1>6, <2>5, <2>7 DEF Write, TypeInv, TypeOK, NodeTypes, Command
<1>7. ASSUME NEW c \in Cmd, Rename(c) PROVE TypeInv'
  <2>1. PICK p : p = AfterSave(c)
    OBVIOUS
  <2>2. proc' = [proc EXCEPT ![c] = p] /\ proc[c].pc = "rename"
    BY <1>7, <2>1 DEF Rename
  <2>3. \/ p = NoCommand
        \/ \E w \in {"register", "refresh"} :
             /\ p = [proc[c] EXCEPT !.pc = w]
             /\ w = "register" => proc[c].kind = "connect"
    BY <2>1 DEF AfterSave
  <2>4. p \in Command /\ Sound(p)
    <3>1. ASSUME NEW w \in {"register", "refresh"}, p = [proc[c] EXCEPT !.pc = w],
                 w = "register" => proc[c].kind = "connect"
          PROVE  p \in Command /\ Sound(p)
      BY <1>1, <2>2, <3>1 DEF Command, Minted, Sound
    <3> QED
      BY <2>3, <3>1, NoCommandTypes
  <2>5. proc' \in [Cmd -> Command] /\ Minted'
    BY <1>1, <2>2, <2>4, CommandTypes
  <2>6. /\ data' \in [Inode -> Settings \cup Unreadable]
        /\ path' \in Inode /\ tmp' \in Inode \cup {None}
    BY <1>1, <1>7 DEF Rename, NodeTypes, Unreadable
  <2>7. intended' \in Settings \cup {None}
    <3>1. proc[c].run \in Token /\ proc[c].conf \in Settings
      BY <1>1, <2>2 DEF Minted, Command, Sound
    <3> QED
      BY <1>1, <1>7, <3>1, ChangedTypes DEF Rename, NowIntended, NodeTypes
  <2> QED
    BY <1>1, <1>7, <2>5, <2>6, <2>7 DEF Rename, TypeInv, TypeOK, NodeTypes, Command
<1>8. ASSUME NEW c \in Cmd, Register(c) PROVE TypeInv'
  <2>1. proc[c].conf.tokens \in Token
    BY <1>1, <1>8 DEF Register, Minted, Sound
  <2> QED
    BY <1>1, <1>3, <1>8, <2>1 DEF Register, TypeInv, TypeOK, NodeTypes, Command, fileVars
<1>9. Served \in Settings \cup {None}
  BY DEF Served, Loadable
<1>10. ASSUME NEW c \in Cmd, Refresh(c) PROVE TypeInv'
  BY <1>1, <1>3, <1>9, <1>10 DEF Refresh, TypeInv, TypeOK, NodeTypes, Command, fileVars
<1>11. ASSUME NEW c \in Cmd, ApplyLoaded(c) PROVE TypeInv'
  BY <1>1, <1>3, <1>11 DEF ApplyLoaded, Applied, Renderings, TypeInv, TypeOK, NodeTypes, Command, fileVars
<1>12. ASSUME UNCHANGED proc PROVE Minted'
  BY <1>1, <1>12 DEF Minted, Editing
<1>13. ASSUME NEW t \in printed, AgentReceives(t) PROVE TypeInv'
  BY <1>1, <1>12, <1>13 DEF AgentReceives, TypeInv, TypeOK, NodeTypes, Command, fileVars
<1>14. CASE DaemonRestart
  BY <1>1, <1>9, <1>12, <1>14 DEF DaemonRestart, TypeInv, TypeOK, NodeTypes, Command, fileVars
<1>15. CASE DaemonApply
  BY <1>1, <1>12, <1>15 DEF DaemonApply, Renderings, TypeInv, TypeOK, NodeTypes, Command, fileVars
<1> QED
  BY <1>2, <1>4, <1>5, <1>6, <1>7, <1>8, <1>10, <1>11, <1>13, <1>14, <1>15 DEF NodeNext

\* An empty registry is a registry.
LEMMA EmptyTypes == EmptyRegistry \in Registry
BY DEF EmptyRegistry, Registry

\* Setting one entry makes a registry of a registry.
LEMMA WithTypes ==
  ASSUME NEW regs \in Registry, NEW n \in Node, NEW b \in Bearer
  PROVE  With(regs, n, b) \in Registry /\ DOMAIN With(regs, n, b) = DOMAIN regs \cup {n}
<1>1. PICK S \in SUBSET Node : regs \in [S -> Bearer]
  BY DEF Registry
<1>2. With(regs, n, b) \in [S \cup {n} -> Bearer]
  BY <1>1 DEF With
<1> QED
  BY <1>1, <1>2 DEF Registry, With

\* The steps of register and of the main server keep the types.
LEMMA RegistryTypesNext ==
  ASSUME TypeInv, RegistryNext
  PROVE  TypeInv'
<1>1. RegistryTypes /\ NodeTypes /\ runs \in 0 .. MaxRuns /\ Minted
  BY DEF TypeInv, TypeOK
<1>2. /\ EmptyRegistry \in Registry
      /\ NoEdit \in [pc : {"idle", "open", "write"}, regs : Registry,
                     node : Node \cup {None}]
  BY EmptyTypes DEF NoEdit
<1>3. LoadRegs \in Registry
  BY <1>1, <1>2 DEF LoadRegs, RegistryTypes
<1>4. ASSUME RegistryTypes', UNCHANGED nodeVars, runs' \in 0 .. MaxRuns,
             \A c \in Cmd : Editing(c)' => editor'[c].node \in Node
      PROVE  TypeInv'
  <2>1. Minted'
    BY <1>1, <1>4 DEF Minted, nodeVars
  <2> QED
    BY <1>1, <1>4, <2>1 DEF TypeInv, TypeOK, NodeTypes, nodeVars, fileVars
<1>5. ASSUME NEW c \in Cmd, NEW n \in Node, NEW b \in Bearer, RegisterBegin(c, n, b)
      PROVE  TypeInv'
  <2>1. With(LoadRegs, n, b) \in Registry
    BY <1>3, WithTypes
  <2>2. runs' \in 0 .. MaxRuns
    BY <1>1, <1>5, ConfigAssumption DEF RegisterBegin
  <2>3. RegistryTypes'
    BY <1>1, <1>5, <2>1 DEF RegisterBegin, RegistryTypes
  <2>4. \A d \in Cmd : Editing(d)' => editor'[d].node \in Node
    BY <1>1, <1>5 DEF RegisterBegin, RegistryTypes, Editing, Minted
  <2> QED
    BY <1>4, <1>5, <2>2, <2>3, <2>4 DEF RegisterBegin
<1>7. ASSUME NEW c \in Cmd, SaveOpen(c) \/ SaveWrite(c) \/ RegisterQuit(c)
      PROVE  TypeInv'
  <2>1. CASE SaveOpen(c)
    <3>1. \A d \in Cmd : Editing(d)' => editor'[d].node \in Node
      BY <1>1, <2>1 DEF SaveOpen, Minted, RegistryTypes, Editing
    <3>2. RegistryTypes'
      BY <1>1, <2>1 DEF SaveOpen, RegistryTypes
    <3> QED
      BY <1>1, <1>4, <2>1, <3>1, <3>2 DEF SaveOpen
  <2>2. CASE SaveWrite(c)
    <3>1. editor[c].regs \in Registry
      BY <1>1 DEF RegistryTypes
    <3>2. editor[c].node \in Node
      BY <1>1, <2>2 DEF SaveWrite, Minted, Editing
    <3>3. RegistryTypes'
      BY <1>1, <1>2, <2>2, <3>1, <3>2 DEF SaveWrite, RegistryTypes
    <3>4. \A d \in Cmd : Editing(d)' => editor'[d].node \in Node
      BY <1>1, <2>2 DEF SaveWrite, Minted, RegistryTypes, Editing, NoEdit
    <3> QED
      BY <1>1, <1>4, <2>2, <3>3, <3>4 DEF SaveWrite
  <2>3. CASE RegisterQuit(c)
    <3>1. spoiled' \in BOOLEAN
      BY <1>1, <2>3 DEF RegisterQuit, RegistryTypes
    <3>2. RegistryTypes'
      BY <1>1, <1>2, <2>3, <3>1 DEF RegisterQuit, RegistryTypes
    <3>3. \A d \in Cmd : Editing(d)' => editor'[d].node \in Node
      BY <1>1, <2>3 DEF RegisterQuit, Minted, RegistryTypes, Editing, NoEdit
    <3> QED
      BY <1>1, <1>4, <2>3, <3>2, <3>3 DEF RegisterQuit
  <2> QED
    BY <1>7, <2>1, <2>2, <2>3
<1>8. CASE MainRestart
  <2>1. RegistryTypes'
    BY <1>1, <1>3, <1>8 DEF MainRestart, RegistryTypes
  <2> QED
    BY <1>1, <1>4, <1>8, <2>1 DEF MainRestart, Minted, Editing
<1>9. Other \subseteq Node /\ Self \in Node /\ None \in Bearer /\ printed \subseteq Bearer
  BY <1>1 DEF Node, Bearer, NodeTypes
<1> QED
  BY <1>5, <1>7, <1>8, <1>9 DEF RegistryNext

\* No name is used twice: config.json, the temporary file, what the commands at
\* work loaded and the inodes that they may still create are different.
Apart ==
  /\ path \in 0 .. runs /\ tmp # path
  /\ tmp # None => tmp \in 0 .. runs
  /\ \A c \in Cmd : Busy(c) =>
       proc[c].run <= runs /\ proc[c].base \in 0 .. runs /\ proc[c].base # tmp
  /\ \A c, d \in Cmd :
       proc[c].pc = "open" =>
         /\ proc[c].run # path /\ proc[c].run # tmp
         /\ Busy(d) => proc[d].base # proc[c].run
         /\ c # d /\ proc[d].pc = "open" => proc[d].run # proc[c].run

\* Commands that end or go on without a rename.
LEMMA ApartSame ==
  ASSUME TypeInv, Apart, UNCHANGED <<path, tmp>>, runs' \in Nat, runs <= runs',
         \A c \in Cmd : \/ proc'[c] = proc[c]
                        \/ ~Busy(c)'
                        \/ /\ Busy(c) /\ proc'[c].pc # "open"
                           /\ proc'[c].run = proc[c].run /\ proc'[c].base = proc[c].base
  PROVE  Apart'
<1>1. runs \in Nat /\ path \in Int
  BY ConfigAssumption DEF TypeInv, TypeOK, NodeTypes, Inode
<1>2. \A c \in Cmd : Busy(c) => proc[c].run \in Int
  BY DEF TypeInv, Minted, Sound, Busy, Token
<1>3. \A c \in Cmd : Busy(c)' =>
        Busy(c) /\ proc'[c].run = proc[c].run /\ proc'[c].base = proc[c].base
  BY DEF Busy
<1>4. \A c \in Cmd : proc'[c].pc = "open" => proc'[c] = proc[c]
  BY DEF Busy
<1>5. \A c \in Cmd : proc[c].pc = "open" => Busy(c)
  BY DEF Busy
<1>6. \A c \in Cmd : Busy(c)' =>
       proc'[c].run <= runs' /\ proc'[c].base \in 0 .. runs' /\ proc'[c].base # tmp'
  BY <1>1, <1>2, <1>3 DEF Apart
<1>7. path' \in 0 .. runs' /\ tmp' # path' /\ (tmp' # None => tmp' \in 0 .. runs')
  BY <1>1 DEF Apart
<1>8. \A c, d \in Cmd :
       proc'[c].pc = "open" =>
         /\ proc'[c].run # path' /\ proc'[c].run # tmp'
         /\ Busy(d)' => proc'[d].base # proc'[c].run
         /\ c # d /\ proc'[d].pc = "open" => proc'[d].run # proc'[c].run
  BY <1>3, <1>4 DEF Apart
<1> QED
  BY <1>6, <1>7, <1>8 DEF Apart

\* Every step keeps the names apart.
LEMMA ApartNext ==
  ASSUME TypeInv, Apart, [Next]_vars
  PROVE  Apart'
<1>1. /\ runs \in Nat /\ proc \in [Cmd -> Command]
      /\ path \in Inode /\ tmp \in Inode \cup {None} /\ None \notin Nat
      /\ NoCommand.pc = "idle"
  BY ConfigAssumption DEF TypeInv, TypeOK, NodeTypes, Command, NoCommand
<1>2. CASE UNCHANGED vars
  BY <1>1, <1>2, ApartSame DEF vars, nodeVars, fileVars
<1>3. CASE RegistryNext
  <2>1. UNCHANGED <<path, tmp, proc>> /\ (runs' = runs \/ runs' = runs + 1)
    BY <1>3 DEF RegistryNext, RegisterBegin, SaveOpen, SaveWrite, RegisterQuit,
                MainRestart, nodeVars, fileVars
  <2> QED
    BY <1>1, <2>1, ApartSame
<1>4. ASSUME NEW c \in Cmd, NEW kind \in Kind, Begin(c, kind) PROVE Apart'
  <2>1. runs' = runs + 1 /\ path' = path /\ tmp' = tmp /\ ~Busy(c)
    BY <1>4 DEF Begin, fileVars
  <2>2. /\ \A d \in Cmd \ {c} : proc'[d] = proc[d]
        /\ proc'[c].run = runs' /\ proc'[c].base = path
    BY <1>1, <1>4 DEF Begin
  <2>3. \A d \in Cmd : Busy(d) => proc[d].run \in Int /\ proc[d].base \in Int
    BY DEF TypeInv, Minted, Sound, Busy, Token, Inode
  <2>4. path \in Int /\ (tmp # None => tmp \in Int)
    BY <1>1 DEF Inode
  <2>5. path' \in 0 .. runs' /\ tmp' # path' /\ (tmp' # None => tmp' \in 0 .. runs')
    BY <1>1, <2>1, <2>4 DEF Apart
  <2>6. ASSUME NEW d \in Cmd, Busy(d)'
        PROVE  proc'[d].run <= runs' /\ proc'[d].base \in 0 .. runs' /\ proc'[d].base # tmp'
    <3>1. CASE d = c
      BY <1>1, <2>1, <2>2, <2>4, <2>5, <3>1 DEF Apart
    <3>2. CASE d # c
      BY <1>1, <2>1, <2>2, <2>3, <2>6, <3>2 DEF Apart, Busy
    <3> QED
      BY <3>1, <3>2
  <2>7. ASSUME NEW d \in Cmd, NEW e \in Cmd, proc'[d].pc = "open"
        PROVE  /\ proc'[d].run # path' /\ proc'[d].run # tmp'
               /\ Busy(e)' => proc'[e].base # proc'[d].run
               /\ d # e /\ proc'[e].pc = "open" => proc'[e].run # proc'[d].run
    <3>0. \A x \in 0 .. runs : x # runs + 1
      BY <1>1
    <3>1. CASE d = c
      <4>1. /\ proc'[d].run = runs + 1
            /\ tmp # runs + 1 /\ path # runs + 1
        BY <1>1, <2>1, <2>2, <3>1 DEF Apart
      <4>2. Busy(e)' => proc'[e].base # runs + 1
        BY <2>1, <2>2, <3>0, <4>1 DEF Apart, Busy
      <4>3. d # e /\ proc'[e].pc = "open" => proc'[e].run # runs + 1
        <5>1. d # e /\ proc'[e].pc = "open" => proc'[e] = proc[e] /\ Busy(e)
          BY <2>2, <3>1 DEF Busy
        <5> QED
          BY <1>1, <2>3, <5>1 DEF Apart
      <4> QED
        BY <2>1, <4>1, <4>2, <4>3
    <3>2. CASE d # c
      <4>1. proc'[d] = proc[d] /\ proc[d].pc = "open" /\ Busy(d)
        BY <2>2, <2>7, <3>2 DEF Busy
      <4>2. CASE e = c
        <5>1. proc[d].run \in Int /\ proc[d].run <= runs /\ proc[d].run # path /\ proc[d].run # tmp
          BY <2>3, <4>1 DEF Apart
        <5>2. proc'[e].run # proc'[d].run
          BY <1>1, <2>1, <2>2, <4>1, <4>2, <5>1
        <5> QED
          BY <2>1, <2>2, <4>1, <4>2, <5>1, <5>2
      <4>3. CASE e # c
        BY <2>1, <2>2, <4>1, <4>3 DEF Apart, Busy
      <4> QED
        BY <4>2, <4>3
    <3> QED
      BY <3>1, <3>2
  <2> QED
    BY <2>5, <2>6, <2>7 DEF Apart
<1>5. ASSUME NEW c \in Cmd, Open(c) PROVE Apart'
  <2>1. PICK i : i = Opened(c)
    OBVIOUS
  <2>2. /\ path' = path /\ runs' = runs /\ proc[c].pc = "open" /\ Busy(c)
        /\ tmp' = IF i = path THEN tmp ELSE i
        /\ proc' = [proc EXCEPT ![c].pc = "write", ![c].inode = i]
        /\ i = tmp \/ i = proc[c].run
    BY <1>5, <2>1 DEF Open, Busy, Opened
  <2>3. /\ \A d \in Cmd \ {c} : proc'[d] = proc[d]
        /\ proc'[c].run = proc[c].run /\ proc'[c].base = proc[c].base /\ proc'[c].pc = "write"
    BY <1>1, <2>2 DEF Command
  <2>4. i # path /\ tmp' = i
    BY <2>2 DEF Apart
  <2>5. proc[c].run \in 0 .. runs /\ i # None /\ i \in 0 .. runs
    <3>1. proc[c].run \in 1 .. MaxRuns /\ proc[c].run <= runs
      BY <2>2 DEF Apart, TypeInv, Minted, Sound, Token
    <3>2. proc[c].run \in 0 .. runs
      BY <1>1, <3>1, ConfigAssumption
    <3>3. tmp # None => tmp \in 0 .. runs
      BY DEF Apart
    <3>4. i # None
      BY <1>1, <1>5, <2>1, <3>2 DEF Opened
    <3> QED
      BY <2>2, <3>2, <3>3, <3>4
  <2>6. \A d \in Cmd : Busy(d)' => Busy(d) /\ proc'[d].base = proc[d].base
                                   /\ proc'[d].run = proc[d].run
    BY <2>2, <2>3 DEF Busy
  <2>7. \A d \in Cmd : Busy(d) => proc[d].base # i
    BY <2>2 DEF Apart
  <2>8. \A d \in Cmd : proc'[d].pc = "open" => d # c /\ proc[d].pc = "open" /\ proc'[d] = proc[d]
    BY <2>3
  <2>9. \A d \in Cmd : proc'[d].pc = "open" => proc[d].run # i
    BY <2>2, <2>8 DEF Apart
  <2>10. \A d \in Cmd : Busy(d)' =>
       proc'[d].run <= runs' /\ proc'[d].base \in 0 .. runs' /\ proc'[d].base # tmp'
    BY <2>2, <2>4, <2>6, <2>7 DEF Apart
  <2>11. path' \in 0 .. runs' /\ tmp' # path' /\ (tmp' # None => tmp' \in 0 .. runs')
    BY <2>2, <2>4, <2>5 DEF Apart
  <2>12. ASSUME NEW d \in Cmd, NEW e \in Cmd, proc'[d].pc = "open"
         PROVE  /\ proc'[d].run # path' /\ proc'[d].run # tmp'
                /\ Busy(e)' => proc'[e].base # proc'[d].run
                /\ d # e /\ proc'[e].pc = "open" => proc'[e].run # proc'[d].run
    <3>1. proc[d].pc = "open" /\ proc'[d] = proc[d] /\ proc[d].run # i
      BY <2>8, <2>9, <2>12
    <3>2. proc'[d].run # path' /\ proc'[d].run # tmp'
      BY <2>2, <2>4, <3>1 DEF Apart
    <3>3. Busy(e)' => proc'[e].base # proc'[d].run
      BY <2>6, <3>1 DEF Apart
    <3>4. d # e /\ proc'[e].pc = "open" => proc'[e].run # proc'[d].run
      BY <2>8, <3>1 DEF Apart
    <3> QED
      BY <3>2, <3>3, <3>4
  <2> QED
    BY <2>10, <2>11, <2>12 DEF Apart
<1>6. ASSUME NEW c \in Cmd, NEW w \in {"rename", "register", "refresh", "idle"},
             Busy(c), \/ proc' = [proc EXCEPT ![c] = [proc[c] EXCEPT !.pc = w]]
                      \/ proc' = [proc EXCEPT ![c] = NoCommand]
      PROVE  \A d \in Cmd : \/ proc'[d] = proc[d]
                            \/ ~Busy(d)'
                            \/ /\ Busy(d) /\ proc'[d].pc # "open"
                               /\ proc'[d].run = proc[d].run /\ proc'[d].base = proc[d].base
  BY <1>1, <1>6 DEF Busy, Command
<1>7. ASSUME NEW c \in Cmd, Write(c) PROVE Apart'
  <2>1. /\ proc' = [proc EXCEPT ![c] = [proc[c] EXCEPT !.pc = "rename"]]
        /\ Busy(c) /\ UNCHANGED <<path, tmp, runs>>
    BY <1>7 DEF Write, Busy
  <2> QED
    BY <1>1, <1>6, <2>1, ApartSame
<1>8. ASSUME NEW c \in Cmd, Rename(c) PROVE Apart'
  <2>1. /\ tmp # None /\ path' = tmp /\ tmp' = None /\ runs' = runs /\ Busy(c)
        /\ proc' = [proc EXCEPT ![c] = AfterSave(c)]
    BY <1>8 DEF Rename, Busy
  <2>2. \/ AfterSave(c) = NoCommand
        \/ \E w \in {"register", "refresh"} : AfterSave(c) = [proc[c] EXCEPT !.pc = w]
    BY DEF AfterSave
  <2>3. \A d \in Cmd : \/ proc'[d] = proc[d]
                       \/ ~Busy(d)'
                       \/ /\ Busy(d) /\ proc'[d].pc # "open"
                          /\ proc'[d].run = proc[d].run /\ proc'[d].base = proc[d].base
    BY <1>6, <2>1, <2>2
  <2>4. \A d \in Cmd : Busy(d)' => Busy(d) /\ proc'[d].base = proc[d].base
                                   /\ proc'[d].run = proc[d].run
    BY <2>3 DEF Busy
  <2>5. \A d \in Cmd : proc'[d].pc = "open" => proc'[d] = proc[d] /\ Busy(d)
    BY <2>3 DEF Busy
  <2>6. path' \in 0 .. runs'
    BY <2>1 DEF Apart
  <2>7. \A x \in 0 .. runs : x # None
    BY <1>1
  <2>8. \A d \in Cmd : Busy(d)' =>
       proc'[d].run <= runs' /\ proc'[d].base \in 0 .. runs' /\ proc'[d].base # tmp'
    BY <2>1, <2>4, <2>7 DEF Apart
  <2>9. \A d \in Cmd : proc'[d].pc = "open" => proc'[d].run # None
    BY <1>1, <2>5 DEF TypeInv, Minted, Sound, Busy, Token
  <2>10. \A d, e \in Cmd :
       proc'[d].pc = "open" =>
         /\ proc'[d].run # path' /\ proc'[d].run # tmp'
         /\ Busy(e)' => proc'[e].base # proc'[d].run
         /\ d # e /\ proc'[e].pc = "open" => proc'[e].run # proc'[d].run
    BY <2>1, <2>4, <2>5, <2>9 DEF Apart
  <2>11. tmp' # path'
    BY <2>1
  <2> QED
    BY <2>1, <2>6, <2>8, <2>10, <2>11 DEF Apart
<1>9. ASSUME NEW c \in Cmd,
             Quit(c) \/ Register(c) \/ Refresh(c) \/ ApplyLoaded(c)
      PROVE  Apart'
  <2>1. /\ Busy(c) /\ proc' = [proc EXCEPT ![c] = NoCommand]
        /\ UNCHANGED <<path, tmp, runs>>
    BY <1>9 DEF Quit, Register, Refresh, ApplyLoaded, Busy, fileVars
  <2>2. \A d \in Cmd : proc'[d] = proc[d] \/ ~Busy(d)'
    BY <1>1, <2>1 DEF Busy
  <2> QED
    BY <1>1, <2>1, <2>2, ApartSame
<1>10. ASSUME NEW t \in printed, AgentReceives(t) PROVE Apart'
  BY <1>1, <1>10, ApartSame DEF AgentReceives, fileVars
<1>11. CASE DaemonRestart \/ DaemonApply
  BY <1>1, <1>11, ApartSame DEF DaemonRestart, DaemonApply, fileVars
<1> QED
  BY <1>2, <1>3, <1>4, <1>5, <1>7, <1>8, <1>9, <1>10, <1>11 DEF Next, NodeNext

\* The temporary file is being written; the loaded configuration is in hand.
Written(c) == proc[c].pc \in {"write", "rename"}
Holds(c) == proc[c].pc \in {"open", "write", "rename", "apply"}

\* What orderly commands have in their hands: one writes at most, the temporary
\* file is its own, and who loaded the configuration that is installed has made
\* the change to it that will be intended.
Agreed ==
  /\ Config = intended
  /\ \A c \in Cmd : Written(c) => tmp # None /\ proc[c].inode = tmp
  /\ \A c, d \in Cmd : Written(c) /\ Written(d) => c = d
  /\ \A c \in Cmd : proc[c].pc = "write" => data[tmp] = Empty
  /\ \A c \in Cmd : proc[c].pc = "rename" => data[tmp] = proc[c].conf
  /\ \A c \in Cmd :
       Holds(c) /\ proc[c].base = path /\ proc[c].kind # "init" =>
         proc[c].conf = Changed(proc[c].kind, intended, proc[c].run)

\* Nothing changes for the commands at work where another one ends.
LEMMA AgreedSame ==
  ASSUME Agreed, UNCHANGED <<fileVars, intended>>,
         \A c \in Cmd : proc'[c] = proc[c] \/ ~Busy(c)'
  PROVE  Agreed'
<1>1. \A c \in Cmd : \/ proc'[c] = proc[c]
                     \/ ~Written(c)' /\ ~Holds(c)' /\ proc'[c].pc \notin {"write", "rename"}
  BY DEF Busy, Written, Holds
<1>2. UNCHANGED <<data, path, tmp, intended>>
  BY DEF fileVars
<1> QED
  BY <1>1, <1>2 DEF Agreed, Config, Written, Holds

\* Orderly commands stay in agreement with the file.
LEMMA AgreedNext ==
  ASSUME TypeInv, Apart, Orderly => Agreed, [Next]_vars, Orderly'
  PROVE  Agreed'
<1>1. /\ proc \in [Cmd -> Command] /\ NoCommand.pc = "idle"
      /\ path \in Inode /\ tmp \in Inode \cup {None}
      /\ data \in [Inode -> Settings \cup Unreadable]
  BY DEF TypeInv, TypeOK, NodeTypes, Command, NoCommand
<1>2. ASSUME UNCHANGED <<fileVars, proc, intended>> PROVE Agreed'
  BY <1>2, AgreedSame DEF Orderly
<1>3. CASE UNCHANGED vars
  BY <1>2, <1>3 DEF vars, nodeVars
<1>4. CASE RegistryNext
  <2>1. UNCHANGED nodeVars
    BY <1>4 DEF RegistryNext, RegisterBegin, SaveOpen, SaveWrite, RegisterQuit, MainRestart
  <2> QED
    BY <1>2, <2>1 DEF nodeVars
<1>5. ASSUME NEW c \in Cmd, NEW kind \in Kind, Begin(c, kind) PROVE Agreed'
  <2>1. UNCHANGED <<data, path, tmp, intended>> /\ Agreed
    BY <1>5 DEF Begin, fileVars, Orderly
  <2>2. PICK s \in Prepared(kind, runs') :
          proc' = [proc EXCEPT ![c] =
                  [pc |-> IF kind = "apply" THEN "apply" ELSE "open",
                   kind |-> kind, run |-> runs', conf |-> s, base |-> path,
                   inode |-> None]]
    BY <1>5 DEF Begin
  <2>3. kind # "init" => s = Changed(kind, intended, runs')
    BY <2>1 DEF Prepared, Agreed
  <2>4. /\ \A d \in Cmd \ {c} : proc'[d] = proc[d]
        /\ proc'[c].pc \in {"apply", "open"} /\ proc'[c].kind = kind
        /\ proc'[c].run = runs' /\ proc'[c].conf = s
    BY <1>1, <2>2
  <2>5. /\ Config' = intended'
        /\ \A d \in Cmd : Written(d)' => tmp' # None /\ proc'[d].inode = tmp'
        /\ \A d, e \in Cmd : Written(d)' /\ Written(e)' => d = e
        /\ \A d \in Cmd : proc'[d].pc = "write" => data'[tmp'] = Empty
        /\ \A d \in Cmd : proc'[d].pc = "rename" => data'[tmp'] = proc'[d].conf
    BY <2>1, <2>4 DEF Agreed, Config, Written
  <2>6. ASSUME NEW d \in Cmd, Holds(d)', proc'[d].base = path', proc'[d].kind # "init"
        PROVE  proc'[d].conf = Changed(proc'[d].kind, intended', proc'[d].run)
    <3>1. CASE d = c
      BY <2>1, <2>3, <2>4, <2>6, <3>1
    <3>2. CASE d # c
      BY <2>1, <2>4, <2>6, <3>2 DEF Agreed, Holds
    <3> QED
      BY <3>1, <3>2
  <2> QED
    BY <2>5, <2>6 DEF Agreed
<1>6. ASSUME NEW c \in Cmd, Open(c) PROVE Agreed'
  <2>1. /\ intended' = intended /\ ~Shared(c, Opened(c)) /\ Agreed
        /\ path' = path /\ proc[c].pc = "open"
    BY <1>6 DEF Open, Orderly
  <2>2. PICK i : i = Opened(c)
    OBVIOUS
  <2>3. \A d \in Cmd \ {c} : ~Written(d)
    BY <2>1 DEF Agreed, Shared, Opened
  <2>4. i # path /\ i \in Inode /\ i # None /\ tmp' = i /\ data' = [data EXCEPT ![i] = Empty]
    <3>1. i # path
      BY <2>1, <2>2 DEF Opened, Apart
    <3>2. proc[c].run \in Inode /\ proc[c].run # None
      BY <2>1, ConfigAssumption DEF TypeInv, Minted, Sound, Token, Inode
    <3>3. i \in Inode /\ i # None
      BY <1>1, <2>2, <3>2 DEF Opened
    <3> QED
      BY <1>6, <2>2, <3>1, <3>3 DEF Open
  <2>5. /\ \A d \in Cmd \ {c} : proc'[d] = proc[d]
        /\ proc'[c].run = proc[c].run /\ proc'[c].base = proc[c].base
        /\ proc'[c].pc = "write" /\ proc'[c].conf = proc[c].conf
        /\ proc'[c].kind = proc[c].kind /\ proc'[c].inode = i
    BY <1>1, <1>6, <2>2 DEF Open, Command
  <2>6. data'[path'] = data[path] /\ data'[tmp'] = Empty
    BY <1>1, <2>1, <2>4
  <2>7. \A d \in Cmd : Written(d)' => d = c
    BY <2>3, <2>5 DEF Written
  <2>8. \A d \in Cmd : Holds(d)' =>
          /\ Holds(d) /\ proc'[d].run = proc[d].run /\ proc'[d].base = proc[d].base
          /\ proc'[d].conf = proc[d].conf /\ proc'[d].kind = proc[d].kind
    BY <2>1, <2>5 DEF Holds
  <2>9. /\ Config' = intended'
        /\ \A d \in Cmd : Written(d)' => tmp' # None /\ proc'[d].inode = tmp'
        /\ \A d, e \in Cmd : Written(d)' /\ Written(e)' => d = e
        /\ \A d \in Cmd : proc'[d].pc = "write" => data'[tmp'] = Empty
        /\ \A d \in Cmd : proc'[d].pc = "rename" => data'[tmp'] = proc'[d].conf
    BY <2>1, <2>4, <2>5, <2>6, <2>7 DEF Agreed, Config, Written
  <2>10. \A d \in Cmd :
       Holds(d)' /\ proc'[d].base = path' /\ proc'[d].kind # "init" =>
         proc'[d].conf = Changed(proc'[d].kind, intended', proc'[d].run)
    BY <2>1, <2>8 DEF Agreed
  <2> QED
    BY <2>9, <2>10 DEF Agreed
<1>7. ASSUME NEW c \in Cmd, Write(c) PROVE Agreed'
  <2>1. /\ UNCHANGED <<path, tmp, intended>> /\ Agreed /\ proc[c].pc = "write"
        /\ proc' = [proc EXCEPT ![c].pc = "rename"]
    BY <1>7 DEF Write, Orderly
  <2>2. tmp # None /\ tmp # path /\ tmp \in Inode /\ proc[c].inode = tmp /\ data[tmp] = Empty
    BY <1>1, <2>1 DEF Agreed, Written, Apart
  <2>3. data' = [data EXCEPT ![tmp] = proc[c].conf]
    BY <1>7, <2>2 DEF Write
  <2>4. data'[path] = data[path] /\ data'[tmp] = proc[c].conf
    BY <1>1, <2>2, <2>3
  <2>5. /\ \A d \in Cmd \ {c} : proc'[d] = proc[d] /\ ~Written(d)
        /\ proc'[c].run = proc[c].run /\ proc'[c].base = proc[c].base
        /\ proc'[c].pc = "rename" /\ proc'[c].conf = proc[c].conf
        /\ proc'[c].kind = proc[c].kind /\ proc'[c].inode = tmp
    BY <1>1, <2>1, <2>2 DEF Command, Agreed, Written
  <2>6. \A d \in Cmd : Written(d)' => d = c
    BY <2>5 DEF Written
  <2>7. \A d \in Cmd : Holds(d)' =>
          /\ Holds(d) /\ proc'[d].run = proc[d].run /\ proc'[d].base = proc[d].base
          /\ proc'[d].conf = proc[d].conf /\ proc'[d].kind = proc[d].kind
    BY <2>1, <2>5 DEF Holds
  <2>8. /\ Config' = intended'
        /\ \A d \in Cmd : Written(d)' => tmp' # None /\ proc'[d].inode = tmp'
        /\ \A d, e \in Cmd : Written(d)' /\ Written(e)' => d = e
        /\ \A d \in Cmd : proc'[d].pc = "write" => data'[tmp'] = Empty
        /\ \A d \in Cmd : proc'[d].pc = "rename" => data'[tmp'] = proc'[d].conf
    BY <2>1, <2>2, <2>4, <2>5, <2>6 DEF Agreed, Config, Written
  <2>9. \A d \in Cmd :
       Holds(d)' /\ proc'[d].base = path' /\ proc'[d].kind # "init" =>
         proc'[d].conf = Changed(proc'[d].kind, intended', proc'[d].run)
    BY <2>1, <2>7 DEF Agreed
  <2> QED
    BY <2>8, <2>9 DEF Agreed
<1>8. ASSUME NEW c \in Cmd, Rename(c) PROVE Agreed'
  <2>1. /\ path' = tmp /\ tmp # None /\ proc[c].pc = "rename" /\ Agreed
        /\ proc[c].base = path
        /\ intended' = IF proc[c].kind = "init" THEN proc[c].conf
                       ELSE Changed(proc[c].kind, intended, proc[c].run)
        /\ proc' = [proc EXCEPT ![c] = AfterSave(c)]
        /\ data' = [data EXCEPT ![path] = Empty]
    BY <1>8 DEF Rename, NowIntended, Orderly
  <2>2. tmp \in Inode /\ tmp # path /\ data[tmp] = proc[c].conf
    BY <1>1, <2>1 DEF Agreed, Apart
  <2>3. Config' = intended'
    BY <1>1, <2>1, <2>2 DEF Config, Agreed, Holds
  <2>4. AfterSave(c).pc \in {"idle", "register", "refresh"}
    <3>1. PICK p \in Command : p = proc[c]
      BY <1>1
    <3>2. \A w : [p EXCEPT !.pc = w].pc = w
      BY <3>1 DEF Command
    <3> QED
      BY <1>1, <3>1, <3>2 DEF AfterSave
  <2>5. /\ \A d \in Cmd \ {c} : proc'[d] = proc[d]
        /\ proc'[c].pc \in {"idle", "register", "refresh"}
    BY <1>1, <2>1, <2>4
  <2>6. \A d \in Cmd : ~Written(d)' /\ proc'[d].pc \notin {"write", "rename"}
    BY <2>1, <2>5 DEF Agreed, Written
  <2>7. ASSUME NEW d \in Cmd, Holds(d)' PROVE proc'[d].base # path'
    <3>1. proc'[d] = proc[d] /\ Busy(d)
      BY <2>5, <2>7 DEF Holds, Busy
    <3> QED
      BY <2>1, <3>1 DEF Apart
  <2> QED
    BY <2>3, <2>6, <2>7 DEF Agreed
<1>9. ASSUME NEW c \in Cmd,
             Quit(c) \/ Register(c) \/ Refresh(c) \/ ApplyLoaded(c)
      PROVE  Agreed'
  <2>1. proc' = [proc EXCEPT ![c] = NoCommand] /\ UNCHANGED <<fileVars, intended>>
    BY <1>9 DEF Quit, Register, Refresh, ApplyLoaded
  <2>2. \A d \in Cmd : proc'[d] = proc[d] \/ ~Busy(d)'
    BY <1>1, <2>1 DEF Busy
  <2> QED
    BY <2>1, <2>2, AgreedSame DEF Orderly
<1>10. ASSUME NEW t \in printed, AgentReceives(t) PROVE Agreed'
  BY <1>2, <1>10 DEF AgentReceives
<1>11. CASE DaemonRestart \/ DaemonApply
  BY <1>2, <1>11 DEF DaemonRestart, DaemonApply
<1> QED
  BY <1>3, <1>4, <1>5, <1>6, <1>7, <1>8, <1>9, <1>10, <1>11 DEF Next, NodeNext

\* Every state of the commands, files, daemon and registry is well typed, for
\* any number of commands and runs: what connect registers is a pair of tokens.
THEOREM TypeCorrect == Spec => []TypeOK
<1>1. TypeInv /\ [Next]_vars => TypeInv'
  <2> SUFFICES ASSUME TypeInv, [Next]_vars PROVE TypeInv'
    OBVIOUS
  <2>1. CASE UNCHANGED vars
    BY <2>1 DEF vars, registryVars, nodeVars, fileVars, TypeInv, TypeOK, NodeTypes,
                RegistryTypes, Minted, Editing
  <2> QED
    BY <2>1, NodeTypesNext, RegistryTypesNext DEF Next
<1>2. TypeInv => TypeOK
  BY DEF TypeInv
<1> QED
  BY <1>1, <1>2, TypeInit, PTL DEF Spec

\* The inductive invariant of config.json.
ConfigInv == TypeInv /\ Apart /\ (Orderly => Agreed)

\* The invariant holds at the start.
LEMMA ConfigInit == Init => ConfigInv
<1> SUFFICES ASSUME Init PROVE ConfigInv
  OBVIOUS
<1>1. TypeInv /\ NoCommand.pc = "idle" /\ 0 \in Inode
  BY TypeInit, ConfigAssumption DEF NoCommand, Inode
<1>2. \A c \in Cmd : proc[c].pc = "idle"
  BY <1>1 DEF Init, NodeInit
<1>3. Apart
  BY <1>2, ConfigAssumption DEF Init, NodeInit, Apart, Busy
<1>4. Config = intended
  BY <1>1 DEF Init, NodeInit, Config
<1>5. Agreed
  BY <1>2, <1>4 DEF Agreed, Written, Holds
<1> QED
  BY <1>1, <1>3, <1>5 DEF ConfigInv

\* Every step keeps the invariant.
LEMMA ConfigNext ==
  ASSUME ConfigInv, [Next]_vars
  PROVE  ConfigInv'
<1>1. TypeInv'
  <2>1. CASE UNCHANGED vars
    BY <2>1 DEF vars, registryVars, nodeVars, fileVars, ConfigInv, TypeInv, TypeOK,
                NodeTypes, RegistryTypes, Minted, Editing
  <2> QED
    BY <2>1, NodeTypesNext, RegistryTypesNext DEF Next, ConfigInv
<1> QED
  BY <1>1, ApartNext, AgreedNext DEF ConfigInv

\* Of orderly commands each saved change stays in config.json, whatever was
\* killed between truncating, writing and renaming the temporary file
\* (Config.Save, internal/config/config.go).
THEOREM NothingUndoneCorrect == Spec => []NothingUndone
<1>1. ConfigInv => NothingUndone
  BY DEF ConfigInv, Agreed, NothingUndone
<1>2. ConfigInv /\ [Next]_vars => ConfigInv'
  BY ConfigNext
<1> QED
  BY <1>1, <1>2, ConfigInit, PTL DEF Spec

\* One step never takes the split routing back behind everybody's back.
LEMMA NoRevertStep ==
  ASSUME ConfigInv, [Next]_vars, Orderly, UNCHANGED intended,
         ListedLeaves(xray) = ListedLeaves(Rendered(intended)),
         ListedLeaves(xray') # ListedLeaves(xray)
  PROVE  \/ daemon \notin {None, Config}
         \/ \E c \in Cmd : Busy(c) /\ proc[c].base # path
<1>1. xray' # xray /\ xray' # Rendered(intended) /\ Config = intended
  BY DEF ConfigInv, Agreed
<1>2. \/ \E c \in Cmd : ApplyLoaded(c)
      \/ DaemonApply
  BY <1>1 DEF Next, vars, nodeVars, RegistryNext, RegisterBegin, SaveOpen, SaveWrite,
       RegisterQuit, MainRestart, NodeNext, Begin, Quit, Open, Write, Rename, Register,
       Refresh, AgentReceives, DaemonRestart
<1>3. ASSUME NEW c \in Cmd, ApplyLoaded(c), proc[c].base = path PROVE FALSE
  <2>1. proc[c].pc = "apply" /\ proc[c].kind = "apply" /\ xray' = Rendered(proc[c].conf)
    BY <1>3 DEF ApplyLoaded, Applied, ConfigInv, TypeInv, Minted, Sound
  <2>2. proc[c].conf = intended
    BY <1>3, <2>1 DEF ConfigInv, Agreed, Holds, Changed
  <2> QED
    BY <1>1, <2>1, <2>2
<1>4. ASSUME DaemonApply, daemon \in {None, Config} PROVE FALSE
  BY <1>1, <1>4 DEF DaemonApply
<1> QED
  BY <1>2, <1>3, <1>4 DEF ApplyLoaded, Busy

\* Split routing that is in force is taken back only by somebody with an older
\* configuration: a command that loaded before the save, or a daemon that was
\* not restarted since (cmdSplit, and Manager.Apply with the loaded config).
THEOREM NoRevertCorrect == Spec => NoRevert
<1>1. ConfigInv /\ [Next]_vars =>
        [Orderly /\ UNCHANGED intended
           /\ ListedLeaves(xray) = ListedLeaves(Rendered(intended))
           /\ ListedLeaves(xray') # ListedLeaves(xray)
         => \/ daemon \notin {None, Config}
            \/ \E c \in Cmd : Busy(c) /\ proc[c].base # path]_vars
  BY NoRevertStep
<1>2. ConfigInv /\ [Next]_vars => ConfigInv'
  BY ConfigNext
<1> QED
  BY <1>1, <1>2, ConfigInit, PTL DEF Spec, NoRevert

\* Of a registration that succeeded nothing is lost.
Filed ==
  ~spoiled =>
    /\ \A c, d \in Cmd : Editing(c) /\ Editing(d) => c = d
    /\ \A c \in Cmd : Editing(c) => held \cup {editor[c].node} \subseteq DOMAIN editor[c].regs
    /\ \A c \in Cmd : editor[c].pc = "write" => nodes = Torn
    /\ (\A c \in Cmd : editor[c].pc # "write") => held \subseteq DOMAIN LoadRegs

\* Every step keeps what was registered.
LEMMA FiledNext ==
  ASSUME TypeInv, Filed, [Next]_vars
  PROVE  Filed'
<1>1. /\ nodes \in Registry \cup {Torn} /\ held \subseteq Node /\ spoiled \in BOOLEAN
      /\ \A c \in Cmd : editor[c].regs \in Registry
      /\ \A c \in Cmd : editor[c].pc \in {"idle", "open", "write"}
      /\ editor \in [Cmd -> [pc : {"idle", "open", "write"}, regs : Registry,
                             node : Node \cup {None}]]
  BY DEF TypeInv, TypeOK, RegistryTypes
<1>2. CASE UNCHANGED <<nodes, editor, held, spoiled>>
  BY <1>2 DEF Filed, Editing, LoadRegs
<1>3. LoadRegs \in Registry
  BY <1>1, EmptyTypes DEF LoadRegs
<1>4. ASSUME NEW c \in Cmd, NEW n \in Node, NEW b \in Bearer, RegisterBegin(c, n, b),
             ~spoiled'
      PROVE  Filed'
  <2>1. ~spoiled /\ \A d \in Cmd : ~Editing(d)
    BY <1>1, <1>4 DEF RegisterBegin
  <2>2. PICK regs : regs = With(LoadRegs, n, b)
    OBVIOUS
  <2>3. DOMAIN regs = DOMAIN LoadRegs \cup {n}
    BY <1>3, <2>2, WithTypes
  <2>4. held \subseteq DOMAIN LoadRegs
    BY <2>1 DEF Filed, Editing
  <2>5. /\ \A d \in Cmd \ {c} : editor'[d] = editor[d] /\ editor'[d].pc = "idle"
        /\ editor'[c].pc = "open" /\ editor'[c].regs = regs /\ editor'[c].node = n
        /\ held' = held /\ nodes' = nodes
    BY <1>1, <1>4, <2>1, <2>2 DEF RegisterBegin, Editing
  <2> QED
    BY <2>3, <2>4, <2>5 DEF Filed, Editing, LoadRegs
<1>5. ASSUME NEW c \in Cmd, SaveOpen(c), ~spoiled' PROVE Filed'
  <2>1. /\ ~spoiled /\ Editing(c) /\ nodes' = Torn /\ held' = held
        /\ editor' = [editor EXCEPT ![c].pc = "write"]
    BY <1>5 DEF SaveOpen, Editing
  <2>2. /\ \A d \in Cmd \ {c} : editor'[d] = editor[d]
        /\ editor'[c].pc = "write" /\ editor'[c].regs = editor[c].regs
        /\ editor'[c].node = editor[c].node
    BY <1>1, <2>1
  <2> QED
    BY <2>1, <2>2 DEF Filed, Editing
<1>6. ASSUME NEW c \in Cmd, SaveWrite(c), ~spoiled' PROVE Filed'
  <2>1. /\ ~spoiled /\ Editing(c) /\ editor[c].pc = "write"
        /\ held' = held \cup {editor[c].node}
        /\ editor' = [editor EXCEPT ![c] = NoEdit]
    BY <1>6 DEF SaveWrite, Editing
  <2>2. nodes = Torn
    BY <2>1 DEF Filed
  <2>3. nodes' = editor[c].regs /\ nodes' # Torn
    BY <1>1, <1>6, <2>2, TornAssumption DEF SaveWrite
  <2>4. held' \subseteq DOMAIN LoadRegs'
    BY <2>1, <2>3 DEF Filed, LoadRegs
  <2>5. \A d \in Cmd : editor'[d].pc = "idle"
    BY <1>1, <2>1 DEF Filed, Editing, NoEdit
  <2> QED
    BY <2>4, <2>5 DEF Filed, Editing
<1>7. ASSUME NEW c \in Cmd, RegisterQuit(c), ~spoiled' PROVE Filed'
  <2>1. /\ ~spoiled /\ Editing(c) /\ editor[c].pc = "open" /\ held' = held /\ nodes' = nodes
        /\ editor' = [editor EXCEPT ![c] = NoEdit]
    BY <1>1, <1>7 DEF RegisterQuit, Editing
  <2>2. \A d \in Cmd : editor'[d].pc = "idle"
    BY <1>1, <2>1 DEF Filed, Editing, NoEdit
  <2>3. \A d \in Cmd : editor[d].pc # "write"
    BY <2>1 DEF Filed, Editing
  <2> QED
    BY <2>1, <2>2, <2>3 DEF Filed, Editing, LoadRegs
<1>8. CASE MainRestart
  BY <1>2, <1>8 DEF MainRestart
<1>9. CASE spoiled'
  BY <1>9 DEF Filed
<1>10. Other \subseteq Node /\ Self \in Node /\ None \in Bearer /\ printed \subseteq Bearer
  BY DEF Node, Bearer, NodeTypes, TypeInv, TypeOK
<1> QED
  BY <1>2, <1>4, <1>5, <1>6, <1>7, <1>8, <1>9, <1>10 DEF Next, RegistryNext, vars, registryVars

\* While no save of nodes.json is interrupted and no two commands meet, no
\* registration is lost (loadRegs and saveRegs, cmd/vlr/main.go).
THEOREM RegistrationStaysCorrect == Spec => []RegistrationStays
<1>1. Init => Filed
  BY DEF Init, Filed, Editing, NoEdit
<1>2. ConfigInv /\ Filed /\ [Next]_vars => (ConfigInv /\ Filed)'
  BY ConfigNext, FiledNext DEF ConfigInv
<1>3. Filed => RegistrationStays
  BY DEF Filed, RegistrationStays, Editing
<1> QED
  BY <1>1, <1>2, <1>3, ConfigInit, PTL DEF Spec

\* A bearer of this node that somebody holds or may yet come to hold.
Spread(t) ==
  \/ t \in printed \cup {agent}
  \/ \E c \in Cmd : proc[c].pc = "register" /\ t = proc[c].conf.tokens
  \/ \E c \in Cmd : Self \in DOMAIN editor[c].regs /\ t = editor[c].regs[Self]
  \/ Self \in DOMAIN LoadRegs /\ t = LoadRegs[Self]
  \/ Self \in DOMAIN known /\ t = known[Self]

\* Of the bearers spread since the node last started anew there is one, that of
\* the configuration; an init at work makes all of them older than its keys.
Bounded ==
  /\ \A t : Spread(t) /\ t # None =>
       t \in 0 .. runs /\ (t < intended.key \/ t = intended.tokens)
  /\ intended.tokens # None => intended.tokens \in 0 .. runs
  /\ \A c \in Cmd : Holds(c) /\ proc[c].kind = "init" =>
       /\ proc[c].conf.key = proc[c].run
       /\ proc[c].conf.tokens # None => proc[c].conf.tokens = proc[c].run
       /\ proc[c].base = path => \A t : Spread(t) /\ t # None => t < proc[c].run

\* Bearers that do not spread stay bounded while the configuration stays.
LEMMA BoundedSame ==
  ASSUME TypeInv, Bounded, \A t : Spread(t)' => Spread(t),
         UNCHANGED <<path, intended>>, runs' \in {runs, runs + 1},
         \A c \in Cmd : Holds(c)' => Holds(c) /\ proc'[c].conf = proc[c].conf
            /\ proc'[c].kind = proc[c].kind /\ proc'[c].run = proc[c].run
            /\ proc'[c].base = proc[c].base
  PROVE  Bounded'
<1>1. \A x \in 0 .. runs : x \in 0 .. runs'
  BY ConfigAssumption DEF TypeInv, TypeOK
<1> QED
  BY <1>1 DEF Bounded

\* No command but init changes keys, or tokens that are there.
LEMMA ChangedKeeps ==
  ASSUME NEW kind, NEW s \in Settings, NEW r \in Token
  PROVE  /\ Changed(kind, s, r).key = s.key
         /\ s.tokens # None => Changed(kind, s, r).tokens = s.tokens
         /\ Changed(kind, s, r).tokens \in {s.tokens, r}
<1>1. /\ SplitAdd(s).key = s.key /\ SplitAdd(s).tokens = s.tokens
      /\ SplitRm(s).key = s.key /\ SplitRm(s).tokens = s.tokens
      /\ Cascaded(s).key = s.key /\ Cascaded(s).tokens = s.tokens
  BY DEF SplitAdd, SplitRm, Cascaded, Settings
<1>2. /\ Connected(s, r).key = s.key
      /\ s.tokens # None => Connected(s, r).tokens = s.tokens
      /\ Connected(s, r).tokens \in {s.tokens, r}
  BY DEF Connected, Settings
<1> QED
  BY <1>1, <1>2 DEF Changed

\* init takes keys, and tokens if any, of its own run.
LEMMA InitWritesTokens ==
  ASSUME NEW r, NEW s \in InitWrites(r)
  PROVE  s.key = r /\ s.tokens \in {None, r}
<1>1. ASSUME NEW role, NEW listed
      PROVE  InitNode(role, listed, r).key = r /\ InitNode(role, listed, r).tokens = None
  BY DEF InitNode, Installed
<1>2. ASSUME NEW listed
      PROVE  InitChild(listed, r).key = r /\ InitChild(listed, r).tokens = r
  BY DEF InitNode, InitChild, Installed
<1>3. InitMain(r).key = r /\ InitMain(r).tokens = None
  BY DEF InitMain, Installed
<1> QED
  BY <1>1, <1>2, <1>3 DEF InitWrites

\* Registering moves bearers around and makes none.
LEMMA RegistrySpread ==
  ASSUME TypeInv, RegistryNext, NEW t, Spread(t)'
  PROVE  Spread(t)
<1>1. /\ UNCHANGED <<printed, agent, proc>> /\ DOMAIN EmptyRegistry = {}
      /\ NoEdit.regs = EmptyRegistry
      /\ editor \in [Cmd -> [pc : {"idle", "open", "write"}, regs : Registry,
                             node : Node \cup {None}]]
  BY DEF RegistryNext, RegisterBegin, SaveOpen, SaveWrite, RegisterQuit, MainRestart,
         nodeVars, EmptyRegistry, NoEdit, TypeInv, TypeOK, RegistryTypes
<1>2. ASSUME NEW c \in Cmd, NEW n, NEW b, RegisterBegin(c, n, b),
             n = Self => b \in printed
      PROVE  Spread(t)
  <2>1. PICK regs : regs = With(LoadRegs, n, b)
    OBVIOUS
  <2>2. /\ editor' = [editor EXCEPT ![c] = [pc |-> "open", regs |-> regs, node |-> n]]
        /\ nodes' = nodes /\ known' = known
    BY <1>2, <2>1 DEF RegisterBegin
  <2>3. ASSUME Self \in DOMAIN regs, t = regs[Self] PROVE Spread(t)
    <3>1. CASE n = Self
      BY <1>2, <2>1, <2>3, <3>1 DEF With, Spread
    <3>2. CASE n # Self
      BY <2>1, <2>3, <3>2 DEF With, Spread
    <3> QED
      BY <3>1, <3>2
  <2>4. \A d \in Cmd : editor'[d].regs = editor[d].regs \/ editor'[d].regs = regs
    BY <1>1, <2>2
  <2> QED
    BY <1>1, <2>2, <2>3, <2>4 DEF Spread, LoadRegs
<1>3. ASSUME NEW c \in Cmd, SaveOpen(c) \/ SaveWrite(c) \/ RegisterQuit(c)
      PROVE  Spread(t)
  <2>1. \A d \in Cmd : editor'[d].regs = editor[d].regs \/ editor'[d].regs = EmptyRegistry
    BY <1>1, <1>3 DEF SaveOpen, SaveWrite, RegisterQuit
  <2>2. nodes' = nodes \/ nodes' = Torn \/ nodes' = editor[c].regs
    BY <1>3 DEF SaveOpen, SaveWrite, RegisterQuit
  <2>3. LoadRegs' \in {LoadRegs, EmptyRegistry, editor[c].regs}
    BY <2>2 DEF LoadRegs
  <2>4. known' = known
    BY <1>3 DEF SaveOpen, SaveWrite, RegisterQuit
  <2> QED
    BY <1>1, <2>1, <2>3, <2>4 DEF Spread
<1>4. CASE MainRestart
  BY <1>1, <1>4 DEF MainRestart, Spread, LoadRegs
<1> QED
  <2>1. Self \notin Other
    BY RegistryAssumption
  <2> QED
    BY <1>2, <1>3, <1>4, <2>1 DEF RegistryNext

\* A step of the node makes a bearer only where a save by connect ends.
LEMMA NodeSpread ==
  ASSUME TypeInv, NodeNext, UNCHANGED registryVars, NEW t, Spread(t)'
  PROVE  \/ Spread(t)
         \/ \E c \in Cmd : Rename(c) /\ proc[c].kind = "connect" /\ t = proc[c].conf.tokens
<1>1. /\ UNCHANGED <<editor, known>> /\ LoadRegs' = LoadRegs /\ NoCommand.pc = "idle"
      /\ proc \in [Cmd -> Command]
  BY DEF registryVars, LoadRegs, NoCommand, TypeInv, TypeOK, NodeTypes, Command
<1>2. ASSUME UNCHANGED <<printed, agent>>,
             \A d \in Cmd : proc'[d].pc = "register" => proc'[d] = proc[d]
      PROVE  Spread(t)
  BY <1>1, <1>2 DEF Spread
<1>3. ASSUME NEW c \in Cmd, NEW p, proc' = [proc EXCEPT ![c] = p], p.pc # "register"
      PROVE  \A d \in Cmd : proc'[d].pc = "register" => proc'[d] = proc[d]
  BY <1>1, <1>3
<1>4. ASSUME NEW c \in Cmd, NEW kind \in Kind, Begin(c, kind) PROVE Spread(t)
  <2>1. PICK s : proc' = [proc EXCEPT ![c] =
                  [pc |-> IF kind = "apply" THEN "apply" ELSE "open",
                   kind |-> kind, run |-> runs', conf |-> s, base |-> path,
                   inode |-> None]]
    BY <1>4 DEF Begin
  <2>2. \A d \in Cmd : proc'[d].pc = "register" => proc'[d] = proc[d]
    BY <1>1, <2>1
  <2> QED
    BY <1>2, <1>4, <2>2 DEF Begin
<1>5. ASSUME NEW c \in Cmd, Quit(c) \/ Refresh(c) \/ ApplyLoaded(c) PROVE Spread(t)
  BY <1>1, <1>2, <1>3, <1>5 DEF Quit, Refresh, ApplyLoaded
<1>6. ASSUME NEW c \in Cmd, Open(c) \/ Write(c) PROVE Spread(t)
  <2>1. \A d \in Cmd : proc'[d].pc = "register" => proc'[d] = proc[d]
    BY <1>1, <1>6 DEF Open, Write, Command
  <2> QED
    BY <1>2, <1>6, <2>1 DEF Open, Write
<1>7. ASSUME NEW c \in Cmd, Rename(c), ~Spread(t)
      PROVE  proc[c].kind = "connect" /\ t = proc[c].conf.tokens
  <2>1. PICK d \in Cmd : proc'[d].pc = "register" /\ t = proc'[d].conf.tokens
    BY <1>1, <1>7 DEF Rename, Spread
  <2>2. d = c
    BY <1>1, <1>7, <2>1 DEF Rename, Spread
  <2>3. proc'[c] = AfterSave(c)
    BY <1>1, <1>7 DEF Rename
  <2>4. PICK p \in Command : p = proc[c]
    BY <1>1
  <2>5. ASSUME NEW w PROVE [p EXCEPT !.pc = w].pc = w /\ [p EXCEPT !.pc = w].conf = p.conf
    BY <2>4 DEF Command
  <2>6. proc[c].kind = "connect"
    BY <1>1, <2>1, <2>2, <2>3, <2>4, <2>5 DEF AfterSave
  <2>7. AfterSave(c) = [p EXCEPT !.pc = "register"]
    BY <2>4, <2>6 DEF AfterSave
  <2>8. proc'[c].conf = proc[c].conf
    BY <2>3, <2>4, <2>5, <2>7
  <2> QED
    BY <2>1, <2>2, <2>6, <2>8
<1>8. ASSUME NEW c \in Cmd, Register(c) PROVE Spread(t)
  <2>1. \A d \in Cmd : proc'[d].pc = "register" => proc'[d] = proc[d]
    BY <1>1, <1>8 DEF Register
  <2>2. printed' = printed \cup {proc[c].conf.tokens} /\ proc[c].pc = "register" /\ agent' = agent
    BY <1>8 DEF Register
  <2> QED
    BY <1>1, <2>1, <2>2 DEF Spread
<1>9. ASSUME NEW b \in printed, AgentReceives(b) PROVE Spread(t)
  BY <1>1, <1>9 DEF AgentReceives, Spread
<1>10. CASE DaemonRestart \/ DaemonApply
  BY <1>2, <1>10 DEF DaemonRestart, DaemonApply
<1> QED
  BY <1>4, <1>5, <1>6, <1>7, <1>8, <1>9, <1>10 DEF NodeNext

\* Every step keeps the bearers bounded.
LEMMA BoundedNext ==
  ASSUME ConfigInv, Orderly => Bounded, [Next]_vars, Orderly'
  PROVE  Bounded'
<1>1. /\ TypeInv /\ Apart /\ (Orderly => Agreed) /\ proc \in [Cmd -> Command]
      /\ runs \in Nat /\ NoCommand.pc = "idle" /\ None \notin Nat
      /\ intended \in Settings \cup {None}
  BY ConfigAssumption DEF ConfigInv, TypeInv, TypeOK, NodeTypes, Command, NoCommand
<1>2. CASE UNCHANGED vars
  <2>1. UNCHANGED <<printed, agent, proc, editor, nodes, known, path, intended, runs>>
    BY <1>2 DEF vars, nodeVars, registryVars, fileVars
  <2>2. \A t : Spread(t)' => Spread(t)
    BY <2>1 DEF Spread, LoadRegs
  <2> QED
    BY <1>1, <2>1, <2>2, BoundedSame DEF Orderly, Holds
<1>3. CASE RegistryNext
  <2>1. UNCHANGED nodeVars /\ runs' \in {runs, runs + 1}
    BY <1>3 DEF RegistryNext, RegisterBegin, SaveOpen, SaveWrite, RegisterQuit, MainRestart
  <2>2. \A t : Spread(t)' => Spread(t)
    BY <1>1, <1>3, RegistrySpread
  <2> QED
    BY <1>1, <2>1, <2>2, BoundedSame DEF Orderly, Holds, nodeVars, fileVars
<1>4. ASSUME NodeNext, UNCHANGED registryVars, \A c \in Cmd : ~Rename(c),
             UNCHANGED <<path, intended, runs>>,
             \A c \in Cmd : Holds(c)' => Holds(c) /\ proc'[c].conf = proc[c].conf
                /\ proc'[c].kind = proc[c].kind /\ proc'[c].run = proc[c].run
                /\ proc'[c].base = proc[c].base
      PROVE  Bounded'
  BY <1>1, <1>4, NodeSpread, BoundedSame DEF Orderly
<1>5. ASSUME UNCHANGED registryVars, NEW c \in Cmd, Rename(c) PROVE Bounded'
  <2>1. /\ path' = tmp /\ runs' = runs /\ proc[c].pc = "rename" /\ Agreed /\ Bounded
        /\ proc[c].base = path
        /\ intended' = IF proc[c].kind = "init" THEN proc[c].conf
                       ELSE Changed(proc[c].kind, intended, proc[c].run)
        /\ proc' = [proc EXCEPT ![c] = AfterSave(c)]
    BY <1>1, <1>5 DEF Rename, NowIntended, Orderly
  <2>2. proc[c].run \in Token /\ proc[c].run \in 0 .. runs /\ proc[c].run # None
    <3>1. proc[c].run \in Token /\ proc[c].run <= runs
      BY <1>1, <2>1 DEF TypeInv, Minted, Sound, Apart, Busy
    <3> QED
      BY <1>1, <3>1, ConfigAssumption DEF Token
  <2>3. intended \in Settings /\ proc[c].conf \in Settings
    BY <1>1, <1>5 DEF Rename, NowIntended, Orderly, Command
  <2>4. ASSUME NEW t, Spread(t)', ~Spread(t) PROVE t = intended'.tokens
    <3>1. PICK d \in Cmd : Rename(d) /\ proc[d].kind = "connect" /\ t = proc[d].conf.tokens
      <4>1. NodeNext
        BY <1>5 DEF NodeNext
      <4> QED
        BY <1>1, <1>5, <2>4, <4>1, NodeSpread
    <3>2. d = c
      BY <2>1, <3>1 DEF Agreed, Written, Rename
    <3>3. proc[c].conf = intended'
      BY <2>1, <3>1, <3>2 DEF Agreed, Holds
    <3> QED
      BY <3>1, <3>2, <3>3
  <2>5. intended'.tokens # None => intended'.tokens \in 0 .. runs
    <3>1. CASE proc[c].kind = "init"
      BY <2>1, <2>2, <3>1 DEF Bounded, Holds
    <3>2. CASE proc[c].kind # "init"
      BY <2>1, <2>2, <2>3, <3>2, ChangedKeeps DEF Bounded
    <3> QED
      BY <3>1, <3>2
  <2>6. ASSUME NEW t, Spread(t), t # None
        PROVE  t \in 0 .. runs /\ (t < intended'.key \/ t = intended'.tokens)
    <3>1. CASE proc[c].kind = "init"
      BY <2>1, <2>6, <3>1 DEF Bounded, Holds
    <3>2. CASE proc[c].kind # "init"
      <4>1. intended'.key = intended.key
            /\ (intended.tokens # None => intended'.tokens = intended.tokens)
        BY <2>1, <2>2, <2>3, <3>2, ChangedKeeps
      <4> QED
        BY <2>1, <2>6, <4>1 DEF Bounded
    <3> QED
      BY <3>1, <3>2
  <2>7. ASSUME NEW t, Spread(t)', t # None
        PROVE  t \in 0 .. runs' /\ (t < intended'.key \/ t = intended'.tokens)
    BY <2>1, <2>4, <2>5, <2>6, <2>7
  <2>8. \A d \in Cmd \ {c} : proc'[d] = proc[d]
    BY <1>1, <2>1
  <2>9. ~Holds(c)'
    <3>1. PICK p \in Command : p = proc[c]
      BY <1>1
    <3>2. \A w : [p EXCEPT !.pc = w].pc = w
      BY <3>1 DEF Command
    <3>3. AfterSave(c).pc \in {"idle", "register", "refresh"}
      BY <1>1, <3>1, <3>2 DEF AfterSave
    <3> QED
      BY <1>1, <2>1, <3>3 DEF Holds
  <2>10. ASSUME NEW d \in Cmd, Holds(d)', proc'[d].kind = "init"
         PROVE  /\ proc'[d].conf.key = proc'[d].run
                /\ proc'[d].conf.tokens # None => proc'[d].conf.tokens = proc'[d].run
                /\ proc'[d].base # path'
    <3>1. d # c /\ proc'[d] = proc[d] /\ Holds(d) /\ Busy(d)
      BY <2>8, <2>9, <2>10 DEF Holds, Busy
    <3> QED
      BY <1>1, <2>1, <2>10, <3>1 DEF Bounded, Apart
  <2> QED
    BY <2>1, <2>5, <2>7, <2>10 DEF Bounded
<1>6. ASSUME UNCHANGED registryVars, NEW c \in Cmd, NEW kind \in Kind, Begin(c, kind)
      PROVE  Bounded'
  <2>1. /\ runs' = runs + 1 /\ UNCHANGED <<path, intended>> /\ Bounded
    BY <1>1, <1>6 DEF Begin, fileVars, Orderly
  <2>2. PICK s \in Prepared(kind, runs') :
          proc' = [proc EXCEPT ![c] =
                  [pc |-> IF kind = "apply" THEN "apply" ELSE "open",
                   kind |-> kind, run |-> runs', conf |-> s, base |-> path,
                   inode |-> None]]
    BY <1>6 DEF Begin
  <2>3. /\ \A d \in Cmd \ {c} : proc'[d] = proc[d]
        /\ proc'[c].kind = kind /\ proc'[c].run = runs' /\ proc'[c].conf = s
    BY <1>1, <2>2
  <2>4. \A t : Spread(t)' => Spread(t)
    <3>1. NodeNext /\ \A d \in Cmd : ~Rename(d)
      BY <1>1, <1>6, <2>1 DEF NodeNext, Rename
    <3> QED
      BY <1>1, <1>6, <3>1, NodeSpread
  <2>5. kind = "init" => s.key = runs' /\ s.tokens \in {None, runs'}
    BY InitWritesTokens DEF Prepared
  <2>6. \A x \in 0 .. runs : x \in 0 .. runs' /\ x < runs'
    BY <1>1, <2>1
  <2>7. \A t : Spread(t)' /\ t # None =>
          /\ t \in 0 .. runs' /\ t < runs' /\ (t < intended'.key \/ t = intended'.tokens)
    BY <2>1, <2>4, <2>6 DEF Bounded
  <2>8. intended'.tokens # None => intended'.tokens \in 0 .. runs'
    BY <2>1, <2>6 DEF Bounded
  <2>9. ASSUME NEW d \in Cmd, Holds(d)', proc'[d].kind = "init"
        PROVE  /\ proc'[d].conf.key = proc'[d].run
               /\ proc'[d].conf.tokens # None => proc'[d].conf.tokens = proc'[d].run
               /\ proc'[d].base = path' => \A t : Spread(t)' /\ t # None => t < proc'[d].run
    <3>1. CASE d = c
      BY <2>3, <2>5, <2>7, <2>9, <3>1
    <3>2. CASE d # c
      BY <2>1, <2>3, <2>4, <2>9, <3>2 DEF Bounded, Holds
    <3> QED
      BY <3>1, <3>2
  <2> QED
    BY <2>7, <2>8, <2>9 DEF Bounded
<1>7. ASSUME NEW c \in Cmd, proc' = [proc EXCEPT ![c] = NoCommand], NEW d \in Cmd, Holds(d)'
      PROVE  Holds(d) /\ proc'[d] = proc[d]
  BY <1>1, <1>7 DEF Holds
<1>8. ASSUME UNCHANGED registryVars, NEW c \in Cmd,
             Quit(c) \/ Register(c) \/ Refresh(c) \/ ApplyLoaded(c)
      PROVE  Bounded'
  <2>1. NodeNext /\ UNCHANGED <<path, tmp, intended, runs>>
        /\ proc' = [proc EXCEPT ![c] = NoCommand]
    BY <1>8 DEF NodeNext, Quit, Register, Refresh, ApplyLoaded, fileVars
  <2>2. path \in Nat /\ tmp # path
    BY <1>1 DEF Apart
  <2>3. \A d \in Cmd : ~Rename(d)
    BY <2>1, <2>2 DEF Rename
  <2> QED
    BY <1>4, <1>7, <1>8, <2>1, <2>3
<1>9. ASSUME UNCHANGED registryVars, NEW c \in Cmd, Open(c) \/ Write(c) PROVE Bounded'
  <2>1. NodeNext /\ UNCHANGED <<path, intended, runs>>
    <3>1. intended' = intended
      BY <1>9 DEF Open, Write, Orderly
    <3> QED
      BY <1>9, <3>1 DEF NodeNext, Open, Write
  <2>2. \A d \in Cmd : ~Rename(d)
    BY <1>1, <2>1 DEF Rename, Apart
  <2>3. \A d \in Cmd : Holds(d)' => Holds(d) /\ proc'[d].conf = proc[d].conf
                /\ proc'[d].kind = proc[d].kind /\ proc'[d].run = proc[d].run
                /\ proc'[d].base = proc[d].base
    BY <1>1, <1>9 DEF Open, Write, Command, Holds
  <2> QED
    BY <1>4, <1>9, <2>1, <2>2, <2>3
<1>10. ASSUME UNCHANGED registryVars, UNCHANGED <<proc, path, intended, runs>>, NodeNext
       PROVE  Bounded'
  <2>1. \A d \in Cmd : ~Rename(d)
    BY <1>1, <1>10 DEF Rename, Apart
  <2> QED
    BY <1>4, <1>10, <2>1 DEF Holds
<1>11. ASSUME NEW t \in printed, AgentReceives(t), UNCHANGED registryVars PROVE Bounded'
  BY <1>10, <1>11 DEF AgentReceives, fileVars, NodeNext
<1>12. CASE UNCHANGED registryVars /\ (DaemonRestart \/ DaemonApply)
  BY <1>10, <1>12 DEF DaemonRestart, DaemonApply, fileVars, NodeNext
<1> QED
  BY <1>2, <1>3, <1>5, <1>6, <1>8, <1>9, <1>11, <1>12 DEF Next, NodeNext

\* Whatever bearer of this node the agent, nodes.json or the main server holds
\* is the one in config.json, unless init has started the node anew: a repeated
\* connect never mints tokens over the ones in use (cmdNodeConnect).
THEOREM TokensAgreeCorrect == Spec => []TokensAgree
<1>1. Init => (Orderly => Bounded)
  <2> SUFFICES ASSUME Init PROVE Bounded
    OBVIOUS
  <2>1. NoCommand.pc = "idle" /\ DOMAIN EmptyRegistry = {} /\ Installed.tokens = None
    BY DEF NoCommand, EmptyRegistry, Installed
  <2>2. \A t : Spread(t) => t = None
    BY <2>1 DEF Init, NodeInit, NoEdit, Spread, LoadRegs
  <2> QED
    BY <2>1, <2>2 DEF Init, NodeInit, Bounded, Holds
<1>2. ConfigInv /\ (Orderly => Bounded) /\ [Next]_vars
        => (ConfigInv /\ (Orderly => Bounded))'
  BY ConfigNext, BoundedNext
<1>3. ConfigInv /\ (Orderly => Bounded) => TokensAgree
  <2> SUFFICES ASSUME ConfigInv, Bounded, Agreed, Orderly,
                      NEW t \in {agent} \cup {x[Self] : x \in {y \in {LoadRegs, known} :
                                           Self \in DOMAIN y}},
                      t # None, t >= intended.key
               PROVE  t = Config.tokens
    BY DEF TokensAgree, ConfigInv
  <2>1. Spread(t)
    BY DEF Spread
  <2>2. intended.key \in Int
    BY DEF ConfigInv, TypeInv, TypeOK, NodeTypes, Orderly, Settings, Key
  <2>3. t \in Int /\ (t < intended.key \/ t = intended.tokens)
    BY <2>1 DEF Bounded
  <2> QED
    BY <2>2, <2>3 DEF Agreed
<1> QED
  BY <1>1, <1>2, <1>3, ConfigInit, PTL DEF Spec

==============================================================================
