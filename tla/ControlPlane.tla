---------------------------- MODULE ControlPlane ----------------------------
(***************************************************************************)
(* The control plane of a fleet: every child (internal/daemon/child.go)    *)
(* pushes heartbeats and answers pulls, the main server                    *)
(* (internal/daemon/mainserver.go) listens, marks silent children DOWN and *)
(* pulls the user list of a child when protocol.ShouldPull says so.        *)
(*                                                                         *)
(* A child's user list is represented by its ConfigVersion: every AddUser  *)
(* and RemoveUser makes a new list and a new version in one critical       *)
(* section of the store, and the state file holds both, so "the list of    *)
(* version v" is well defined.  What a reader saw is then the version its  *)
(* read fell into: field `at` below.  The version a response is labelled   *)
(* with is read separately (field `ver`) and can differ from it.           *)
(*                                                                         *)
(* The unit of time is the main server's heartbeat interval (20 s).        *)
(***************************************************************************)
EXTENDS Protocol, FiniteSets

CONSTANTS
  Node,             \* children
  Registered,       \* children in the main server's registry (nodes.json)
  PullThreshold,    \* main.pull_threshold, in units of traffic
  ReconcileSetting, \* main.reconcile_seconds, in heartbeat intervals
  MissesSetting,    \* main.down_after_misses
  DefaultByteDelta, \* 256 MiB in the code
  DefaultReconcile, \* 10 minutes in the code
  DefaultMisses,    \* 3 in the code
  HeartbeatEvery,   \* child.heartbeat_seconds, in heartbeat intervals
  Lossy,            \* may the network lose or delay messages?
  MaxVersion,       \* bound: user mutations per child
  MaxBytes,         \* bound: traffic counted per child
  MaxAge,           \* bound: ages saturate here
  MaxInFlight,      \* bound: heartbeats in flight
  MaxCrashes        \* bound: crashes of any process

ASSUME SettingAssumption ==
  /\ PullThreshold \in Int /\ DefaultByteDelta \in Nat \ {0}
  /\ ReconcileSetting \in Int /\ DefaultReconcile \in Nat \ {0}
  /\ MissesSetting \in Int /\ DefaultMisses \in Nat \ {0}
  /\ HeartbeatEvery \in Nat \ {0}
  /\ Lossy \in BOOLEAN

ASSUME BoundAssumption ==
  /\ MaxVersion \in Nat /\ MaxBytes \in Nat /\ MaxAge \in Nat \ {0}
  /\ MaxInFlight \in Nat /\ MaxCrashes \in Nat
  /\ MaxAge > OrDefault(MissesSetting, DefaultMisses)

ASSUME RegistryAssumption == Node # {} /\ Registered \subseteq Node

VARIABLES
  \* the children
  up,      \* up[n]: the child process of n runs
  ver,     \* ver[n]: ConfigVersion in n's state file (and memory)
  count,   \* count[n]: how many users n's store holds
  total,   \* total[n]: what TotalBytes() of n's store returns
  beat,    \* beat[n]: intervals until n's next heartbeat is due
  hb,      \* hb[n]: where n's heartbeat goroutine is, and what it read
  \* the network
  hbNet,   \* heartbeats sent and neither delivered nor lost
  \* the main server
  mainUp,  \* the main process runs
  view,    \* m.views: a function whose domain is the children heard of
  detail,  \* m.detail: the last pull response of each pulled child
  due,     \* a scheduler round has been due since the last one
  toPull,  \* children the current scheduler round still has to pull
  rpc,     \* the pull in progress, from the request to the commit
  crashes  \* crashes so far (only to bound them)

childVars == <<up, ver, count, total, beat, hb>>
mainVars  == <<mainUp, view, detail, due, toPull>>
vars == <<childVars, hbNet, mainVars, rpc, crashes>>
-----------------------------------------------------------------------------
ByteDelta      == OrDefault(PullThreshold, DefaultByteDelta)
ReconcileEvery == OrDefault(ReconcileSetting, DefaultReconcile)
Misses         == OrDefault(MissesSetting, DefaultMisses)

Version == 0 .. MaxVersion
Bytes   == 0 .. MaxBytes
Age     == 0 .. MaxAge

Heartbeat == [node : Node, ver : Version, bytes : Bytes]
Response  == [at : Version, ver : Version, bytes : Bytes]
NodeView  ==
  [seen : Age, down : BOOLEAN, heardVer : Version, heardBytes : Bytes,
   pulled : BOOLEAN, pulledVer : Version, pulledBytes : Bytes, pullAge : Age]
Goroutine == [pc : {"idle", "polled", "read"}, ver : Version]
Call == [pc : {"idle", "sent", "polled", "users", "answered", "broken"},
         node : Node, at : Version, ver : Version, bytes : Bytes]

IdleBeat  == [pc |-> "idle", ver |-> 0]
IdleCall  == [pc |-> "idle", node |-> CHOOSE n \in Node : TRUE,
              at |-> 0, ver |-> 0, bytes |-> 0]
EmptyMap  == [n \in {} |-> 0]

\* The zero NodeView.
FreshView == [seen |-> 0, down |-> FALSE, heardVer |-> 0, heardBytes |-> 0,
              pulled |-> FALSE, pulledVer |-> 0, pulledBytes |-> 0,
              pullAge |-> 0]

Init ==
  /\ up = [n \in Node |-> TRUE]
  /\ ver = [n \in Node |-> 0]
  /\ count = [n \in Node |-> 0]
  /\ total = [n \in Node |-> 0]
  /\ beat = [n \in Node |-> 0]
  /\ hb = [n \in Node |-> IdleBeat]
  /\ hbNet = {}
  /\ mainUp = TRUE
  /\ view = EmptyMap
  /\ detail = EmptyMap
  /\ due = FALSE
  /\ toPull = {}
  /\ rpc = IdleCall
  /\ crashes = 0
-----------------------------------------------------------------------------
(***************************************************************************)
(* The child's store.  The operations come from its user API.              *)
(***************************************************************************)

\* What the stats poller may leave TotalBytes() at: Xray's counters grow with
\* traffic and restart from zero with Xray; a failed poll changes nothing.
Polled(n) == IF count[n] = 0 THEN {0} ELSE Bytes

AddUser(n) ==
  /\ up[n] /\ ver[n] < MaxVersion
  /\ ver' = [ver EXCEPT ![n] = @ + 1]
  /\ count' = [count EXCEPT ![n] = @ + 1]
  /\ UNCHANGED <<up, total, beat, hb, hbNet, mainVars, rpc, crashes>>

\* Mutant: RemoveUser does not care whether it found anybody.
FoundAlways(n) == TRUE

\* RemoveUser finds a user to remove.
Found(n) == count[n] > 0

\* The removed user's counters leave the sum.
RemoveUser(n) ==
  /\ up[n] /\ ver[n] < MaxVersion /\ Found(n)
  /\ ver' = [ver EXCEPT ![n] = @ + 1]
  /\ count' = [count EXCEPT ![n] = @ - 1]
  /\ \E left \in 0 .. total[n] :
       /\ count[n] = 1 => left = 0
       /\ total' = [total EXCEPT ![n] = left]
  /\ UNCHANGED <<up, beat, hb, hbNet, mainVars, rpc, crashes>>
-----------------------------------------------------------------------------
(***************************************************************************)
(* sendHeartbeat: poll, then ConfigVersion() and TotalBytes(), two calls   *)
(* that each take the store's lock, then the POST.                         *)
(***************************************************************************)
HbPoll(n) ==
  /\ up[n] /\ hb[n].pc = "idle" /\ beat[n] = 0
  /\ \E t \in Polled(n) : total' = [total EXCEPT ![n] = t]
  /\ hb' = [hb EXCEPT ![n].pc = "polled"]
  /\ UNCHANGED <<up, ver, count, beat, hbNet, mainVars, rpc, crashes>>

HbReadVersion(n) ==
  /\ up[n] /\ hb[n].pc = "polled"
  /\ hb' = [hb EXCEPT ![n] = [pc |-> "read", ver |-> ver[n]]]
  /\ UNCHANGED <<up, ver, count, total, beat, hbNet, mainVars, rpc, crashes>>

HbSend(n) ==
  /\ up[n] /\ hb[n].pc = "read"
  /\ Cardinality(hbNet) < MaxInFlight
  /\ hbNet' = hbNet \cup
       {[node |-> n, ver |-> hb[n].ver, bytes |-> total[n]]}
  /\ hb' = [hb EXCEPT ![n] = IdleBeat]
  /\ beat' = [beat EXCEPT ![n] = HeartbeatEvery]
  /\ UNCHANGED <<up, ver, count, total, mainVars, rpc, crashes>>

\* A POST that fails, times out or is refused is not repeated.
HbLose(m) ==
  /\ Lossy \/ ~mainUp
  /\ hbNet' = hbNet \ {m}
  /\ UNCHANGED <<childVars, mainVars, rpc, crashes>>

\* Mutant: every heartbeat starts a new view.
KnownViewForgotten(n) == FreshView

\* The view of a child, made when its first heartbeat arrives.
KnownView(n) == IF n \in DOMAIN view THEN view[n] ELSE FreshView

\* Mutant: a heartbeat does not take DOWN back.
HeardStillDown(v, m) ==
  [v EXCEPT !.seen = 0, !.heardVer = m.ver, !.heardBytes = m.bytes]

\* Whatever arrives overwrites what was heard before: a delayed heartbeat is
\* not told from a fresh one (Seq is stored and never compared).
Heard(v, m) ==
  [v EXCEPT !.seen = 0, !.down = FALSE,
            !.heardVer = m.ver, !.heardBytes = m.bytes]

\* handleHeartbeat.
HbDeliver(m) ==
  /\ mainUp
  /\ hbNet' = hbNet \ {m}
  /\ view' = [n \in DOMAIN view \cup {m.node} |->
                IF n = m.node THEN Heard(KnownView(n), m) ELSE view[n]]
  /\ UNCHANGED <<childVars, mainUp, detail, due, toPull, rpc, crashes>>
-----------------------------------------------------------------------------
(***************************************************************************)
(* The scheduler: one goroutine.  A round decides under the lock for all   *)
(* children, then pulls the chosen ones one after the other without it.    *)
(***************************************************************************)
SchedIdle == toPull = {} /\ rpc.pc = "idle"

\* Mutant: the `continue` after the DOWN mark is missing.
ChosenEvenDown ==
  {n \in DOMAIN view : ShouldPull(view[n], ByteDelta, ReconcileEvery)}

\* The children a round chooses to pull: not those it finds DOWN.
Chosen ==
  {n \in DOMAIN view : /\ ~MarkDown(view[n], Misses)
                       /\ ShouldPull(view[n], ByteDelta, ReconcileEvery)}

SchedRound ==
  /\ mainUp /\ SchedIdle
  /\ due' = FALSE
  /\ view' = [n \in DOMAIN view |->
                IF MarkDown(view[n], Misses)
                THEN [view[n] EXCEPT !.down = TRUE] ELSE view[n]]
  /\ toPull' = Chosen
  /\ UNCHANGED <<childVars, hbNet, mainUp, detail, rpc, crashes>>

\* pull: a child without a registration is skipped.
PullStart(n) ==
  /\ mainUp /\ rpc.pc = "idle" /\ n \in toPull
  /\ toPull' = toPull \ {n}
  /\ rpc' = IF n \in Registered
            THEN [IdleCall EXCEPT !.pc = "sent", !.node = n] ELSE rpc
  /\ UNCHANGED <<childVars, hbNet, mainUp, view, detail, due, crashes>>

\* handlePull on the child: poll, Users(), and only then ConfigVersion().
PullPoll(n) ==
  /\ up[n] /\ rpc.node = n /\ rpc.pc = "sent"
  /\ \E t \in Polled(n) : total' = [total EXCEPT ![n] = t]
  /\ rpc' = [rpc EXCEPT !.pc = "polled"]
  /\ UNCHANGED <<up, ver, count, beat, hb, hbNet, mainVars, crashes>>

\* Users() copies the current list.
Users(n) == ver[n]

PullReadUsers(n) ==
  /\ up[n] /\ rpc.node = n /\ rpc.pc = "polled"
  /\ rpc' = [rpc EXCEPT !.pc = "users", !.at = Users(n), !.bytes = total[n]]
  /\ UNCHANGED <<childVars, hbNet, mainVars, crashes>>

PullReadVersion(n) ==
  /\ up[n] /\ rpc.node = n /\ rpc.pc = "users"
  /\ rpc' = [rpc EXCEPT !.pc = "answered", !.ver = ver[n]]
  /\ UNCHANGED <<childVars, hbNet, mainVars, crashes>>

\* The response replaces the detail and moves the pulled values of the view.
PullCommit(n) ==
  /\ mainUp /\ rpc.node = n /\ rpc.pc = "answered"
  /\ detail' = [i \in DOMAIN detail \cup {n} |->
                  IF i = n THEN [at |-> rpc.at, ver |-> rpc.ver,
                                 bytes |-> rpc.bytes]
                  ELSE detail[i]]
  /\ view' = [i \in DOMAIN view |->
                IF i = n
                THEN [view[i] EXCEPT !.pulled = TRUE, !.pulledVer = rpc.ver,
                                     !.pulledBytes = rpc.bytes, !.pullAge = 0]
                ELSE view[i]]
  /\ rpc' = IdleCall
  /\ UNCHANGED <<childVars, hbNet, mainUp, due, toPull, crashes>>

\* Mutant: an HTTP client without a timeout waits for a dead child for ever.
CallFailsNoTimeout == rpc.pc = "broken"

\* The call of a lossy network, to a stopped child, or cut by its restart.
CallFails ==
  Lossy \/ rpc.pc = "broken" \/ (~up[rpc.node] /\ rpc.pc # "answered")

\* Any error (refused, reset, 15 s timeout, bad status) abandons the pull; a
\* late answer of an abandoned call is discarded by the HTTP client.
PullFail ==
  /\ mainUp /\ rpc.pc # "idle" /\ CallFails
  /\ rpc' = IdleCall
  /\ UNCHANGED <<childVars, hbNet, mainVars, crashes>>
-----------------------------------------------------------------------------
(***************************************************************************)
(* Processes stop and start.  A child keeps its state file (every store    *)
(* operation flushes before it returns the lock); the main keeps nothing.  *)
(***************************************************************************)
ChildStop(n) ==
  /\ up[n] /\ crashes < MaxCrashes
  /\ crashes' = crashes + 1
  /\ up' = [up EXCEPT ![n] = FALSE]
  /\ hb' = [hb EXCEPT ![n] = IdleBeat]
  /\ rpc' = IF rpc.node = n /\ rpc.pc \in {"sent", "polled", "users"}
            THEN [rpc EXCEPT !.pc = "broken"] ELSE rpc
  /\ UNCHANGED <<ver, count, total, beat, hbNet, mainVars>>

\* Mutant: the version counter lives in memory only.
LoadedFresh(n) == [ver EXCEPT ![n] = 0]

\* Open reads the state file, which holds what the store last held.
Loaded(n) == ver

\* The first heartbeat is immediate.
ChildStart(n) ==
  /\ ~up[n]
  /\ up' = [up EXCEPT ![n] = TRUE]
  /\ ver' = Loaded(n)
  /\ beat' = [beat EXCEPT ![n] = 0]
  /\ UNCHANGED <<count, total, hb, hbNet, mainVars, rpc, crashes>>

MainStop ==
  /\ mainUp /\ crashes < MaxCrashes
  /\ crashes' = crashes + 1
  /\ mainUp' = FALSE
  /\ view' = EmptyMap /\ detail' = EmptyMap
  /\ due' = FALSE /\ toPull' = {} /\ rpc' = IdleCall
  /\ UNCHANGED <<childVars, hbNet>>

MainStart ==
  /\ ~mainUp
  /\ mainUp' = TRUE
  /\ UNCHANGED <<childVars, hbNet, view, detail, due, toPull, rpc, crashes>>

(***************************************************************************)
(* Time.  An interval passes only when what the interval is long enough    *)
(* for has happened: every running child sent the heartbeat that was due,  *)
(* and an idle scheduler ran a round (it has four per interval).  Without  *)
(* loss, messages and pulls also complete within it.                       *)
(***************************************************************************)
Older(age) == IF age = MaxAge THEN age ELSE age + 1

Tick ==
  /\ \A n \in Node : up[n] => beat[n] > 0 /\ hb[n].pc = "idle"
  /\ mainUp /\ SchedIdle => ~due
  /\ ~Lossy => hbNet = {} /\ SchedIdle
  /\ beat' = [n \in Node |-> IF up[n] THEN beat[n] - 1 ELSE beat[n]]
  /\ view' = [n \in DOMAIN view |->
                [view[n] EXCEPT !.seen = Older(@), !.pullAge = Older(@)]]
  /\ due' = mainUp
  /\ UNCHANGED <<up, ver, count, total, hb, hbNet, mainUp, detail, toPull,
                 rpc, crashes>>
-----------------------------------------------------------------------------
DeliverFrom(n) == \E m \in hbNet : m.node = n /\ HbDeliver(m)

ChildNext(n) ==
  \/ AddUser(n) \/ RemoveUser(n)
  \/ HbPoll(n) \/ HbReadVersion(n) \/ HbSend(n)
  \/ PullPoll(n) \/ PullReadUsers(n) \/ PullReadVersion(n)
  \/ ChildStop(n) \/ ChildStart(n)

Next ==
  \/ \E n \in Node : ChildNext(n)
  \/ \E m \in hbNet : HbDeliver(m) \/ HbLose(m)
  \/ SchedRound
  \/ \E n \in Node : PullStart(n) \/ PullCommit(n)
  \/ PullFail \/ MainStop \/ MainStart \/ Tick

Spec == Init /\ [][Next]_vars

\* Goroutines run and time passes.  The network delivers a child's heartbeats
\* and lets its pulls succeed infinitely often if they are attempted infinitely
\* often.  Nothing obliges a stopped process to start or an operator to act.
Fairness ==
  /\ WF_vars(Tick) /\ WF_vars(SchedRound) /\ WF_vars(PullFail)
  /\ \A n \in Node :
       /\ WF_vars(HbPoll(n)) /\ WF_vars(HbReadVersion(n)) /\ WF_vars(HbSend(n))
       /\ SF_vars(DeliverFrom(n))
       /\ WF_vars(PullStart(n))
       /\ SF_vars(PullPoll(n)) /\ SF_vars(PullReadUsers(n))
       /\ SF_vars(PullReadVersion(n)) /\ SF_vars(PullCommit(n))

FairSpec == Spec /\ Fairness
-----------------------------------------------------------------------------
(***************************************************************************)
(* Properties.                                                             *)
(***************************************************************************)

ChildTypes ==
  /\ up \in [Node -> BOOLEAN]
  /\ ver \in [Node -> Version]
  /\ count \in [Node -> Nat]
  /\ total \in [Node -> Bytes]
  /\ beat \in [Node -> 0 .. HeartbeatEvery]
  /\ hb \in [Node -> Goroutine]

MainTypes ==
  /\ mainUp \in BOOLEAN
  /\ DOMAIN view \subseteq Node /\ view \in [DOMAIN view -> NodeView]
  /\ DOMAIN detail \subseteq Node /\ detail \in [DOMAIN detail -> Response]
  /\ due \in BOOLEAN
  /\ toPull \subseteq Node

CallTypes ==
  /\ hbNet \subseteq Heartbeat
  /\ rpc \in Call
  /\ crashes \in Nat

\* Every variable holds what the code's types and the bounds allow; the maps of
\* the main server have children as keys.
TypeOK == ChildTypes /\ MainTypes /\ CallTypes

\* Nothing the main server believes about a child is ahead of the child: not
\* the heard or the pulled version, and not the list it holds.  A version that
\* ran ahead would switch the "config_version advanced" trigger off.
NothingAhead ==
  /\ \A n \in DOMAIN view :
       view[n].heardVer <= ver[n] /\ view[n].pulledVer <= ver[n]
  /\ \A n \in DOMAIN detail : detail[n].at <= detail[n].ver

\* The pulled values ShouldPull compares with are those of the response the
\* main server holds: a heartbeat never resets them and no response is held
\* that they do not describe.
ViewMatchesDetail ==
  /\ \A n \in Node :
       n \in DOMAIN detail <=> n \in DOMAIN view /\ view[n].pulled
  /\ \A n \in DOMAIN detail :
       /\ view[n].pulledVer = detail[n].ver
       /\ view[n].pulledBytes = detail[n].bytes

\* "a DOWN node is never pulled" (docs/MODES.md): a round decides for all
\* children before it pulls the first, and no child it still has to pull, or is
\* pulling, turns DOWN meanwhile.
DownNeverPulled ==
  \A n \in DOMAIN view :
    view[n].down => n \notin toPull /\ (rpc.pc = "idle" \/ rpc.node # n)

\* A heartbeat of n is due, being prepared or on its way.
BeatPending(n) ==
  beat[n] = 0 \/ hb[n].pc # "idle" \/ \E m \in hbNet : m.node = n

\* On a network that neither loses nor delays, a child that runs is not shown
\* DOWN, except while the first heartbeat after its restart is on its way.
NoFalseDown ==
  \A n \in DOMAIN view : up[n] /\ view[n].down => BeatPending(n)

\* docs/MODES.md: a config change bumps config_version, "so the main pulls
\* promptly when the access list changes".  Once the main server has heard a
\* child's current version and sees no reason to pull, it holds the child's
\* current list.  Fails: handlePull reads the list before the version.
SettledMeansMirrored ==
  \A n \in DOMAIN view :
    /\ SchedIdle
    /\ view[n].heardVer = ver[n]
    /\ ~ShouldPull(view[n], ByteDelta, ReconcileEvery)
    => detail[n].at = ver[n]

\* The main server's copies implement the abstract replica.
Copy == [n \in Node |-> IF n \in DOMAIN detail THEN detail[n].at ELSE -1]
Replica == INSTANCE UserListReplica
             WITH None <- -1, source <- ver, copy <- Copy
ImplementsReplica == Replica!Spec

Alive(n) == up[n] /\ mainUp
ShownDown(n) == n \in DOMAIN view /\ view[n].down
ShownUp(n) == n \in DOMAIN view /\ ~view[n].down
Mirrored(n) == n \in DOMAIN detail /\ detail[n].at = ver[n]

\* However heartbeats and pulls are lost and processes crash, a child that
\* stays up ends mirrored by a main server that stays up, once its users stop
\* changing: the reconcile interval repairs what the triggers missed.
EventuallyMirrored ==
  \A n \in Registered :
    <>[]Alive(n) => <>[]Mirrored(n)

\* "a missed heartbeat means the node (or its internet) is down": a child that
\* stays silent ends DOWN and stays so, whatever the scheduler was pulling.
DeadIsDetected ==
  \A n \in Node :
    <>[](~up[n] /\ mainUp /\ n \in DOMAIN view) => <>[]ShownDown(n)

\* A child that is back is shown so again.
RecoveryIsSeen ==
  \A n \in Node :
    <>[]Alive(n) => []<>ShownUp(n)

VersionPulled(n) == n \in DOMAIN detail /\ view[n].pulledVer = ver[n]
TrafficPulled(n) ==
  n \in DOMAIN detail /\ total[n] - view[n].pulledBytes < ByteDelta

\* Without the help of the reconcile interval, the version trigger brings the
\* pulled version up to the child's.
VersionTrigger ==
  \A n \in Registered :
    <>[]Alive(n) => <>[]VersionPulled(n)

\* Without the help of the reconcile interval, once a child's counters rest,
\* less than ByteDelta of its traffic stays unpulled.
TrafficTrigger ==
  \A n \in Registered :
    <>[]Alive(n) /\ <>[][UNCHANGED total[n]]_vars => <>[]TrafficPulled(n)
-----------------------------------------------------------------------------
(***************************************************************************)
(* Inductive strengthenings, used by ControlPlaneProofs.                   *)
(***************************************************************************)

\* No version anywhere in the system is ahead of the child it is about, a
\* response is labelled no older than its list, and the list a pull is
\* bringing is no older than the list it will replace.
NetVersions == \A m \in hbNet : m.ver <= ver[m.node]
BeatVersions == \A n \in Node : hb[n].ver <= ver[n]
ViewVersions ==
  \A n \in DOMAIN view :
    view[n].heardVer <= ver[n] /\ view[n].pulledVer <= ver[n]
DetailVersions ==
  \A n \in DOMAIN detail :
    detail[n].at <= detail[n].ver /\ detail[n].ver <= ver[n]
CallVersions ==
  /\ rpc.pc \in {"users", "answered"} =>
       /\ rpc.at <= ver[rpc.node]
       /\ rpc.node \in DOMAIN detail => detail[rpc.node].at <= rpc.at
  /\ rpc.pc = "answered" => rpc.at <= rpc.ver /\ rpc.ver <= ver[rpc.node]
VersionInv ==
  NetVersions /\ BeatVersions /\ ViewVersions /\ DetailVersions /\ CallVersions

\* Only children heard of are pulled, a stopped main server knows nobody, and
\* DOWN lasts no longer than the silence.
ViewInv ==
  /\ toPull \subseteq DOMAIN view
  /\ rpc.pc # "idle" => rpc.node \in DOMAIN view
  /\ ~mainUp => DOMAIN view = {}
  /\ \A n \in DOMAIN view : view[n].down => MarkDown(view[n], Misses)

\* A running child whose last heartbeat arrived has been silent for as long as
\* its timer has run.
PunctualInv ==
  \A n \in DOMAIN view :
    up[n] /\ beat[n] > 0 /\ (\A m \in hbNet : m.node # n)
      => view[n].seen + beat[n] <= HeartbeatEvery
=============================================================================
