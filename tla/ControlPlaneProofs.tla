------------------------- MODULE ControlPlaneProofs -------------------------
(***************************************************************************)
(* Theorems about ControlPlane, for every number of children and every     *)
(* value of the bounds and settings.                                       *)
(***************************************************************************)
EXTENDS ControlPlane, TLAPS

-----------------------------------------------------------------------------
(***************************************************************************)
(* Types.                                                                  *)
(***************************************************************************)
LEMMA SettingsPositive ==
  /\ ByteDelta \in Nat \ {0} /\ ReconcileEvery \in Nat \ {0}
  /\ Misses \in Nat \ {0} /\ MaxAge > Misses
BY SettingAssumption, BoundAssumption
   DEF ByteDelta, ReconcileEvery, Misses, OrDefault

\* The constant calls and views are of their types.
LEMMA ConstantsTyped ==
  /\ IdleBeat \in Goroutine /\ IdleCall \in Call /\ IdleCall.pc = "idle"
  /\ FreshView \in NodeView
  /\ DOMAIN EmptyMap = {}
BY RegistryAssumption, BoundAssumption
   DEF IdleBeat, Goroutine, IdleCall, Call, FreshView, NodeView, EmptyMap,
       Version, Bytes, Age

\* A view stays a view when one of its fields gets a value of the field's type.
LEMMA ViewUpdate ==
  ASSUME NEW v \in NodeView
  PROVE  /\ \A x \in Age : [v EXCEPT !.seen = x] \in NodeView
         /\ \A x \in BOOLEAN : [v EXCEPT !.down = x] \in NodeView
         /\ \A x \in Version : [v EXCEPT !.heardVer = x] \in NodeView
         /\ \A x \in Bytes : [v EXCEPT !.heardBytes = x] \in NodeView
         /\ \A x \in BOOLEAN : [v EXCEPT !.pulled = x] \in NodeView
         /\ \A x \in Version : [v EXCEPT !.pulledVer = x] \in NodeView
         /\ \A x \in Bytes : [v EXCEPT !.pulledBytes = x] \in NodeView
         /\ \A x \in Age : [v EXCEPT !.pullAge = x] \in NodeView
BY DEF NodeView

\* What a heartbeat, a response and an interval make of a view.
LEMMA HeardTyped ==
  ASSUME NEW v \in NodeView, NEW m \in Heartbeat
  PROVE  Heard(v, m) \in NodeView
<1> DEFINE v1 == [v EXCEPT !.seen = 0]
           v2 == [v1 EXCEPT !.down = FALSE]
           v3 == [v2 EXCEPT !.heardVer = m.ver]
           v4 == [v3 EXCEPT !.heardBytes = m.bytes]
<1>1. 0 \in Age /\ m.ver \in Version /\ m.bytes \in Bytes
  BY BoundAssumption DEF Age, Heartbeat
<1>2. v4 \in NodeView
  <2>1. v1 \in NodeView
    BY <1>1, ViewUpdate
  <2> HIDE DEF v1
  <2>2. v2 \in NodeView
    BY <2>1, ViewUpdate
  <2> HIDE DEF v2
  <2>3. v3 \in NodeView
    BY <1>1, <2>2, ViewUpdate
  <2> HIDE DEF v3
  <2> QED
    BY <1>1, <2>3, ViewUpdate
<1> QED
  BY <1>2 DEF Heard

LEMMA PulledTyped ==
  ASSUME NEW v \in NodeView, NEW r \in Call
  PROVE  [v EXCEPT !.pulled = TRUE, !.pulledVer = r.ver,
                   !.pulledBytes = r.bytes, !.pullAge = 0] \in NodeView
<1> DEFINE v1 == [v EXCEPT !.pulled = TRUE]
           v2 == [v1 EXCEPT !.pulledVer = r.ver]
           v3 == [v2 EXCEPT !.pulledBytes = r.bytes]
           v4 == [v3 EXCEPT !.pullAge = 0]
<1>1. 0 \in Age /\ r.ver \in Version /\ r.bytes \in Bytes
  BY BoundAssumption DEF Age, Call
<1>2. v4 \in NodeView
  <2>1. v1 \in NodeView
    BY ViewUpdate
  <2> HIDE DEF v1
  <2>2. v2 \in NodeView
    BY <1>1, <2>1, ViewUpdate
  <2> HIDE DEF v2
  <2>3. v3 \in NodeView
    BY <1>1, <2>2, ViewUpdate
  <2> HIDE DEF v3
  <2> QED
    BY <1>1, <2>3, ViewUpdate
<1> QED
  BY <1>2

LEMMA OlderTyped ==
  ASSUME NEW v \in NodeView
  PROVE  [v EXCEPT !.seen = Older(@), !.pullAge = Older(@)] \in NodeView
<1> DEFINE v1 == [v EXCEPT !.seen = Older(v.seen)]
           v2 == [v1 EXCEPT !.pullAge = Older(v.pullAge)]
<1>1. Older(v.seen) \in Age /\ Older(v.pullAge) \in Age
  BY BoundAssumption DEF NodeView, Age, Older
<1>2. v1 \in NodeView
  BY <1>1, ViewUpdate
<1>3. v2 \in NodeView
  <2> HIDE DEF v1
  <2> QED
    BY <1>1, <1>2, ViewUpdate
<1>4. v2 = [v EXCEPT !.seen = Older(@), !.pullAge = Older(@)]
  BY DEF NodeView
<1> QED
  BY <1>3, <1>4

LEMMA TypeInit == Init => TypeOK
<1> SUFFICES ASSUME Init PROVE TypeOK
  OBVIOUS
<1>1. ChildTypes
  BY ConstantsTyped, SettingAssumption, BoundAssumption
     DEF Init, ChildTypes, Version, Bytes
<1>2. view = EmptyMap /\ detail = EmptyMap
  BY DEF Init
<1>3. view \in [DOMAIN view -> NodeView] /\ detail \in [DOMAIN detail -> Response]
  BY <1>2 DEF EmptyMap
<1>4. MainTypes
  BY <1>2, <1>3, ConstantsTyped DEF Init, MainTypes
<1>5. CallTypes
  BY ConstantsTyped DEF Init, CallTypes
<1> QED
  BY <1>1, <1>4, <1>5 DEF TypeOK

\* The child's own steps.
LEMMA TypeChild ==
  ASSUME TypeOK, NEW n \in Node, ChildNext(n)
  PROVE  TypeOK'
<1> USE SettingAssumption, BoundAssumption DEF TypeOK
<1>1. CASE AddUser(n)
  <2>1. ChildTypes'
    BY <1>1 DEF AddUser, ChildTypes, Version
  <2> QED
    BY <1>1, <2>1 DEF AddUser, mainVars, MainTypes, CallTypes
<1>2. CASE RemoveUser(n)
  <2>1. ver' \in [Node -> Version] /\ count' \in [Node -> Nat]
    BY <1>2 DEF RemoveUser, Found, ChildTypes, Version
  <2>2. total' \in [Node -> Bytes]
    BY <1>2 DEF RemoveUser, ChildTypes, Bytes
  <2> QED
    BY <1>2, <2>1, <2>2 DEF RemoveUser, mainVars, ChildTypes, MainTypes, CallTypes
<1>3. CASE HbPoll(n)
  <2>1. total' \in [Node -> Bytes]
    BY <1>3 DEF HbPoll, Polled, ChildTypes, Bytes
  <2>2. hb' \in [Node -> Goroutine]
    BY <1>3 DEF HbPoll, ChildTypes, Goroutine
  <2> QED
    BY <1>3, <2>1, <2>2 DEF HbPoll, mainVars, ChildTypes, MainTypes, CallTypes
<1>4. CASE HbReadVersion(n)
  <2>1. hb' \in [Node -> Goroutine]
    BY <1>4 DEF HbReadVersion, ChildTypes, Goroutine
  <2> QED
    BY <1>4, <2>1 DEF HbReadVersion, mainVars, ChildTypes, MainTypes, CallTypes
<1>5. CASE HbSend(n)
  <2>1. hb' \in [Node -> Goroutine] /\ beat' \in [Node -> 0 .. HeartbeatEvery]
    BY <1>5, ConstantsTyped DEF HbSend, ChildTypes
  <2>2. hbNet' \subseteq Heartbeat
    BY <1>5 DEF HbSend, ChildTypes, CallTypes, Heartbeat, Goroutine
  <2> QED
    BY <1>5, <2>1, <2>2 DEF HbSend, mainVars, ChildTypes, MainTypes, CallTypes
<1>6. CASE PullPoll(n)
  <2>1. total' \in [Node -> Bytes]
    BY <1>6 DEF PullPoll, Polled, ChildTypes, Bytes
  <2>2. rpc' \in Call
    BY <1>6 DEF PullPoll, CallTypes, Call
  <2> QED
    BY <1>6, <2>1, <2>2 DEF PullPoll, mainVars, ChildTypes, MainTypes, CallTypes
<1>7. CASE PullReadUsers(n)
  <2>1. rpc' \in Call
    BY <1>7 DEF PullReadUsers, Users, ChildTypes, CallTypes, Call
  <2> QED
    BY <1>7, <2>1 DEF PullReadUsers, childVars, mainVars, ChildTypes, MainTypes, CallTypes
<1>8. CASE PullReadVersion(n)
  <2>1. rpc' \in Call
    BY <1>8 DEF PullReadVersion, ChildTypes, CallTypes, Call
  <2> QED
    BY <1>8, <2>1 DEF PullReadVersion, childVars, mainVars, ChildTypes, MainTypes, CallTypes
<1>9. CASE ChildStop(n)
  <2>1. up' \in [Node -> BOOLEAN] /\ hb' \in [Node -> Goroutine]
    BY <1>9, ConstantsTyped DEF ChildStop, ChildTypes
  <2>2. rpc' \in Call
    BY <1>9 DEF ChildStop, CallTypes, Call
  <2> QED
    BY <1>9, <2>1, <2>2 DEF ChildStop, mainVars, ChildTypes, MainTypes, CallTypes
<1>10. CASE ChildStart(n)
  <2>1. ChildTypes'
    BY <1>10 DEF ChildStart, Loaded, ChildTypes
  <2> QED
    BY <1>10, <2>1 DEF ChildStart, mainVars, MainTypes, CallTypes
<1> QED
  BY <1>1, <1>2, <1>3, <1>4, <1>5, <1>6, <1>7, <1>8, <1>9, <1>10 DEF ChildNext

\* The steps of the main server, the network and the clock.
LEMMA TypeMain ==
  ASSUME TypeOK, [Next]_vars, \A n \in Node : ~ChildNext(n)
  PROVE  TypeOK'
<1> USE SettingAssumption, BoundAssumption DEF TypeOK
<1>1. ASSUME NEW m \in hbNet, HbDeliver(m) PROVE TypeOK'
  <2> DEFINE n == m.node
             v == KnownView(n)
  <2>1. n \in Node /\ m.ver \in Version /\ m.bytes \in Bytes
    BY DEF CallTypes, Heartbeat
  <2>2. v \in NodeView
    BY <2>1, ConstantsTyped DEF KnownView, MainTypes
  <2>3. Heard(v, m) \in NodeView
    BY <2>2, HeardTyped DEF CallTypes
  <2>4. /\ DOMAIN view' \subseteq Node
        /\ view' \in [DOMAIN view' -> NodeView]
    BY <1>1, <2>1, <2>3 DEF HbDeliver, MainTypes
  <2> QED
    BY <1>1, <2>4 DEF HbDeliver, childVars, ChildTypes, MainTypes, CallTypes
<1>2. ASSUME NEW m \in hbNet, HbLose(m) PROVE TypeOK'
  BY <1>2 DEF HbLose, childVars, mainVars, ChildTypes, MainTypes, CallTypes
<1>3. CASE SchedRound
  <2>1. \A n \in DOMAIN view : [view[n] EXCEPT !.down = TRUE] \in NodeView
    BY DEF MainTypes, NodeView
  <2>2. DOMAIN view' = DOMAIN view /\ view' \in [DOMAIN view' -> NodeView]
    BY <1>3, <2>1 DEF SchedRound, MainTypes
  <2>3. toPull' \subseteq Node
    BY <1>3 DEF SchedRound, Chosen, MainTypes
  <2> QED
    BY <1>3, <2>2, <2>3 DEF SchedRound, childVars, ChildTypes, MainTypes, CallTypes
<1>4. ASSUME NEW n \in Node, PullStart(n) PROVE TypeOK'
  <2>1. rpc' \in Call
    BY <1>4, ConstantsTyped DEF PullStart, CallTypes, Call
  <2> QED
    BY <1>4, <2>1 DEF PullStart, childVars, ChildTypes, MainTypes, CallTypes
<1>5. ASSUME NEW n \in Node, PullCommit(n) PROVE TypeOK'
  <2>1. rpc.at \in Version /\ rpc.ver \in Version /\ rpc.bytes \in Bytes
    BY DEF CallTypes, Call
  <2>2. /\ DOMAIN detail' \subseteq Node
        /\ detail' \in [DOMAIN detail' -> Response]
    BY <1>5, <2>1 DEF PullCommit, MainTypes, Response
  <2>3. \A i \in DOMAIN view :
          [view[i] EXCEPT !.pulled = TRUE, !.pulledVer = rpc.ver,
                          !.pulledBytes = rpc.bytes, !.pullAge = 0] \in NodeView
    BY PulledTyped DEF MainTypes, CallTypes
  <2>4. DOMAIN view' = DOMAIN view /\ view' \in [DOMAIN view' -> NodeView]
    BY <1>5, <2>3 DEF PullCommit, MainTypes
  <2> QED
    BY <1>5, <2>2, <2>4, ConstantsTyped
       DEF PullCommit, childVars, ChildTypes, MainTypes, CallTypes
<1>6. CASE PullFail
  BY <1>6, ConstantsTyped DEF PullFail, childVars, mainVars, ChildTypes, MainTypes, CallTypes
<1>7. CASE MainStop
  <2>1. /\ view' = EmptyMap /\ detail' = EmptyMap
        /\ DOMAIN EmptyMap \subseteq Node
    BY <1>7, ConstantsTyped DEF MainStop
  <2>2. view' \in [DOMAIN view' -> NodeView] /\ detail' \in [DOMAIN detail' -> Response]
    BY <2>1 DEF EmptyMap
  <2>3. DOMAIN view' \subseteq Node /\ DOMAIN detail' \subseteq Node
    BY <2>1
  <2>4. MainTypes'
    BY <1>7, <2>2, <2>3 DEF MainStop, MainTypes
  <2>5. ChildTypes'
    BY <1>7 DEF MainStop, childVars, ChildTypes
  <2>6. CallTypes'
    BY <1>7, ConstantsTyped DEF MainStop, CallTypes
  <2> QED
    BY <2>4, <2>5, <2>6
<1>8. CASE MainStart
  BY <1>8 DEF MainStart, childVars, ChildTypes, MainTypes, CallTypes
<1>9. CASE Tick
  <2>1. beat' \in [Node -> 0 .. HeartbeatEvery]
    <3>1. ASSUME NEW n \in Node
          PROVE  (IF up[n] THEN beat[n] - 1 ELSE beat[n]) \in 0 .. HeartbeatEvery
      <4>1. beat[n] \in 0 .. HeartbeatEvery
        BY DEF ChildTypes
      <4>2. up[n] => beat[n] > 0
        BY <1>9 DEF Tick
      <4> QED
        BY <4>1, <4>2
    <3>2. beat' = [n \in Node |-> IF up[n] THEN beat[n] - 1 ELSE beat[n]]
      BY <1>9 DEF Tick
    <3> QED
      BY <3>1, <3>2
  <2>2. \A n \in DOMAIN view :
          [view[n] EXCEPT !.seen = Older(@), !.pullAge = Older(@)] \in NodeView
    BY OlderTyped DEF MainTypes
  <2>3. DOMAIN view' = DOMAIN view /\ view' \in [DOMAIN view' -> NodeView]
    BY <1>9, <2>2 DEF Tick, MainTypes
  <2> QED
    BY <1>9, <2>1, <2>3 DEF Tick, ChildTypes, MainTypes, CallTypes
<1>10. CASE UNCHANGED vars
  BY <1>10 DEF vars, childVars, mainVars, ChildTypes, MainTypes, CallTypes
<1> QED
  BY <1>1, <1>2, <1>3, <1>4, <1>5, <1>6, <1>7, <1>8, <1>9, <1>10 DEF Next

LEMMA TypeNext == TypeOK /\ [Next]_vars => TypeOK'
BY TypeChild, TypeMain

\* Every reachable state is well typed, whatever the bounds and settings.
THEOREM TypeCorrect == Spec => []TypeOK
<1>1. QED BY TypeInit, TypeNext, PTL DEF Spec
-----------------------------------------------------------------------------
(***************************************************************************)
(* Versions: nothing runs ahead of the child it is about.                  *)
(***************************************************************************)

\* A child's version never decreases: the state file survives the process.
LEMMA VersionsGrow ==
  ASSUME TypeOK, [Next]_vars
  PROVE  \A i \in Node : ver[i] \in Nat /\ ver'[i] \in Nat /\ ver[i] <= ver'[i]
<1>1. \A i \in Node : ver[i] \in Nat
  BY BoundAssumption DEF TypeOK, ChildTypes, Version
<1>2. ASSUME NEW n \in Node, ver' = [ver EXCEPT ![n] = @ + 1]
      PROVE  \A i \in Node : ver'[i] \in Nat /\ ver[i] <= ver'[i]
  BY <1>1, <1>2 DEF TypeOK, ChildTypes
<1>3. CASE \E n \in Node : AddUser(n) \/ RemoveUser(n)
  BY <1>1, <1>2, <1>3 DEF AddUser, RemoveUser
<1>4. CASE UNCHANGED ver
  BY <1>1, <1>4
<1> QED
  BY <1>3, <1>4
     DEF Next, ChildNext, HbPoll, HbReadVersion, HbSend, PullPoll,
         PullReadUsers, PullReadVersion, ChildStop, ChildStart, Loaded,
         HbDeliver, HbLose, SchedRound, PullStart, PullCommit, PullFail,
         MainStop, MainStart, Tick, vars, childVars

LEMMA VersionInit == Init => VersionInv
BY ConstantsTyped
   DEF Init, VersionInv, NetVersions, BeatVersions, ViewVersions,
       DetailVersions, CallVersions, EmptyMap, IdleBeat

LEMMA VersionNext ==
  ASSUME TypeOK, VersionInv, [Next]_vars
  PROVE  VersionInv'
<1> DEFINE Grown == \A i \in Node :
              ver[i] \in Nat /\ ver'[i] \in Nat /\ ver[i] <= ver'[i]
<1>1. Grown
  BY VersionsGrow
<1> HIDE DEF Grown
<1>2. /\ \A m \in hbNet : m.node \in Node /\ m.ver \in Nat
      /\ \A n \in Node : hb[n].ver \in Nat
      /\ DOMAIN view \subseteq Node /\ DOMAIN detail \subseteq Node
      /\ \A n \in DOMAIN view : view[n].heardVer \in Nat /\ view[n].pulledVer \in Nat
      /\ \A n \in DOMAIN detail : detail[n].at \in Nat /\ detail[n].ver \in Nat
      /\ rpc.node \in Node /\ rpc.at \in Nat /\ rpc.ver \in Nat
  BY BoundAssumption
     DEF TypeOK, ChildTypes, MainTypes, CallTypes, Heartbeat, Goroutine,
         NodeView, Response, Call, Version
<1>3. NetVersions'
  <2>1. ASSUME UNCHANGED hbNet PROVE NetVersions'
    BY <1>1, <1>2, <2>1 DEF Grown, VersionInv, NetVersions
  <2>2. ASSUME NEW n \in Node, HbSend(n) PROVE NetVersions'
    BY <1>1, <1>2, <2>2 DEF Grown, VersionInv, NetVersions, BeatVersions, HbSend
  <2>3. ASSUME NEW m \in hbNet, HbDeliver(m) \/ HbLose(m) PROVE NetVersions'
    BY <1>1, <1>2, <2>3 DEF Grown, VersionInv, NetVersions, HbDeliver, HbLose
  <2> QED
    BY <2>1, <2>2, <2>3
       DEF Next, ChildNext, AddUser, RemoveUser, HbPoll, HbReadVersion,
           PullPoll, PullReadUsers, PullReadVersion, ChildStop, ChildStart,
           SchedRound, PullStart, PullCommit, PullFail, MainStop, MainStart,
           Tick, vars, childVars
<1>4. BeatVersions'
  <2>1. ASSUME UNCHANGED hb PROVE BeatVersions'
    BY <1>1, <1>2, <2>1 DEF Grown, VersionInv, BeatVersions
  <2>2. ASSUME NEW n \in Node, HbPoll(n) PROVE BeatVersions'
    BY <1>1, <1>2, <2>2
       DEF Grown, VersionInv, BeatVersions, HbPoll, TypeOK, ChildTypes, Goroutine
  <2>3. ASSUME NEW n \in Node, HbReadVersion(n) PROVE BeatVersions'
    BY <1>1, <1>2, <2>3
       DEF Grown, VersionInv, BeatVersions, HbReadVersion, TypeOK, ChildTypes
  <2>4. ASSUME NEW n \in Node, HbSend(n) \/ ChildStop(n) PROVE BeatVersions'
    BY <1>1, <1>2, <2>4
       DEF Grown, VersionInv, BeatVersions, HbSend, ChildStop, TypeOK,
           ChildTypes, IdleBeat
  <2> QED
    BY <2>1, <2>2, <2>3, <2>4
       DEF Next, ChildNext, AddUser, RemoveUser, PullPoll, PullReadUsers,
           PullReadVersion, ChildStart, HbDeliver, HbLose, SchedRound,
           PullStart, PullCommit, PullFail, MainStop, MainStart, Tick, vars,
           childVars
<1>5. ViewVersions'
  <2>1. ASSUME \A n \in DOMAIN view' :
                 /\ n \in DOMAIN view
                 /\ view'[n].heardVer = view[n].heardVer
                 /\ view'[n].pulledVer = view[n].pulledVer
        PROVE  ViewVersions'
    BY <1>1, <1>2, <2>1 DEF Grown, VersionInv, ViewVersions
  <2>2. ASSUME UNCHANGED view PROVE ViewVersions'
    BY <2>1, <2>2
  <2>3. ASSUME NEW m \in hbNet, HbDeliver(m) PROVE ViewVersions'
    <3>1. ver' = ver /\ DOMAIN view' = DOMAIN view \cup {m.node}
      BY <2>3 DEF HbDeliver, childVars
    <3>2. ASSUME NEW n \in DOMAIN view', n # m.node
          PROVE  view'[n] = view[n] /\ n \in DOMAIN view
      BY <2>3, <3>1, <3>2 DEF HbDeliver
    <3>3. KnownView(m.node) \in NodeView /\ KnownView(m.node).pulledVer <= ver[m.node]
      BY <1>1, <1>2, ConstantsTyped
         DEF Grown, KnownView, FreshView, VersionInv, ViewVersions, TypeOK, MainTypes
    <3>4. /\ view'[m.node].heardVer = m.ver
          /\ view'[m.node].pulledVer = KnownView(m.node).pulledVer
      BY <2>3, <3>1, <3>3 DEF HbDeliver, Heard, NodeView
    <3> QED
      BY <3>1, <3>2, <3>3, <3>4 DEF VersionInv, ViewVersions, NetVersions
  <2>4. CASE SchedRound
    <3>1. \A n \in DOMAIN view' :
            /\ n \in DOMAIN view
            /\ view'[n] = view[n] \/ view'[n] = [view[n] EXCEPT !.down = TRUE]
      BY <2>4 DEF SchedRound
    <3> QED
      BY <2>1, <3>1 DEF TypeOK, MainTypes, NodeView
  <2>5. ASSUME NEW n \in Node, PullCommit(n) PROVE ViewVersions'
    <3>1. ASSUME NEW i \in DOMAIN view'
          PROVE  /\ i \in DOMAIN view
                 /\ i # n => view'[i] = view[i]
                 /\ i = n => /\ view'[i].heardVer = view[i].heardVer
                             /\ view'[i].pulledVer = rpc.ver
      BY <2>5 DEF PullCommit, TypeOK, MainTypes, NodeView
    <3>2. ver' = ver /\ rpc.ver <= ver[n]
      BY <2>5 DEF PullCommit, childVars, VersionInv, CallVersions
    <3> QED
      BY <3>1, <3>2 DEF VersionInv, ViewVersions
  <2>6. CASE MainStop
    BY <2>6 DEF MainStop, EmptyMap, ViewVersions
  <2>7. CASE Tick
    <3>1. \A n \in DOMAIN view' :
            /\ n \in DOMAIN view
            /\ view'[n] = [view[n] EXCEPT !.seen = Older(@), !.pullAge = Older(@)]
      BY <2>7 DEF Tick
    <3> QED
      BY <2>1, <3>1, ZenonT(60) DEF TypeOK, MainTypes, NodeView
  <2> QED
    BY <2>2, <2>3, <2>4, <2>5, <2>6, <2>7
       DEF Next, ChildNext, AddUser, RemoveUser, HbPoll, HbReadVersion, HbSend,
           PullPoll, PullReadUsers, PullReadVersion, ChildStop, ChildStart,
           HbLose, PullStart, PullFail, MainStart, vars, mainVars
<1>6. DetailVersions'
  <2>1. ASSUME UNCHANGED detail PROVE DetailVersions'
    BY <1>1, <1>2, <2>1 DEF Grown, VersionInv, DetailVersions
  <2>2. ASSUME NEW n \in Node, PullCommit(n) PROVE DetailVersions'
    BY <1>2, <2>2
       DEF VersionInv, DetailVersions, CallVersions, PullCommit, childVars
  <2>3. CASE MainStop
    BY <2>3 DEF MainStop, EmptyMap, DetailVersions
  <2> QED
    BY <2>1, <2>2, <2>3
       DEF Next, ChildNext, AddUser, RemoveUser, HbPoll, HbReadVersion, HbSend,
           PullPoll, PullReadUsers, PullReadVersion, ChildStop, ChildStart,
           HbDeliver, HbLose, SchedRound, PullStart, PullFail, MainStart, Tick,
           vars, mainVars
<1>7. CallVersions'
  <2>1. ASSUME UNCHANGED <<rpc, detail>> PROVE CallVersions'
    BY <1>1, <1>2, <2>1 DEF Grown, VersionInv, CallVersions
  <2>2. ASSUME rpc'.pc \notin {"users", "answered"} PROVE CallVersions'
    BY <2>2 DEF CallVersions
  <2>3. ASSUME NEW n \in Node, PullPoll(n) PROVE CallVersions'
    BY <2>2, <2>3 DEF PullPoll, TypeOK, CallTypes, Call
  <2>4. ASSUME NEW n \in Node, PullReadUsers(n) PROVE CallVersions'
    <3>1. /\ rpc'.pc = "users" /\ rpc'.node = n /\ rpc'.at = ver[n]
          /\ ver' = ver /\ detail' = detail
      BY <2>4 DEF PullReadUsers, Users, TypeOK, CallTypes, Call, childVars, mainVars
    <3>2. n \in DOMAIN detail => detail[n].at <= ver[n]
      BY <1>1, <1>2 DEF Grown, VersionInv, DetailVersions
    <3>3. ver[n] \in Nat
      BY <1>1 DEF Grown
    <3> QED
      BY <3>1, <3>2, <3>3 DEF CallVersions
  <2>5. ASSUME NEW n \in Node, PullReadVersion(n) PROVE CallVersions'
    <3>1. /\ rpc'.node = n /\ rpc'.at = rpc.at /\ rpc'.ver = ver[n]
          /\ rpc.pc = "users" /\ rpc.node = n
          /\ ver' = ver /\ detail' = detail
      BY <2>5 DEF PullReadVersion, TypeOK, CallTypes, Call, childVars, mainVars
    <3>2. ver[n] \in Nat
      BY <1>1 DEF Grown
    <3> QED
      BY <3>1, <3>2 DEF VersionInv, CallVersions
  <2>6. ASSUME NEW n \in Node, PullStart(n) PROVE CallVersions'
    <3>1. CASE n \in Registered
      BY <2>2, <2>6, <3>1, ConstantsTyped DEF PullStart, Call
    <3>2. CASE n \notin Registered
      BY <2>1, <2>6, <3>2 DEF PullStart
    <3> QED
      BY <3>1, <3>2
  <2>7. ASSUME NEW n \in Node, PullCommit(n) PROVE CallVersions'
    BY <2>2, <2>7, ConstantsTyped DEF PullCommit
  <2>8. CASE PullFail \/ MainStop
    BY <2>2, <2>8, ConstantsTyped DEF PullFail, MainStop
  <2>9. ASSUME NEW n \in Node, ChildStop(n) PROVE CallVersions'
    <3>1. CASE rpc' = rpc
      BY <2>1, <2>9, <3>1 DEF ChildStop, mainVars
    <3>2. CASE rpc' = [rpc EXCEPT !.pc = "broken"]
      BY <2>2, <3>2 DEF TypeOK, CallTypes, Call
    <3> QED
      BY <2>9, <3>1, <3>2 DEF ChildStop
  <2> QED
    BY <2>1, <2>3, <2>4, <2>5, <2>6, <2>7, <2>8, <2>9
       DEF Next, ChildNext, AddUser, RemoveUser, HbPoll, HbReadVersion, HbSend,
           ChildStart, HbDeliver, HbLose, SchedRound, MainStart, Tick,
           vars, mainVars
<1> QED
  BY <1>3, <1>4, <1>5, <1>6, <1>7 DEF VersionInv

LEMMA VersionCorrect == Spec => []VersionInv
<1>1. TypeOK /\ VersionInv /\ [Next]_vars => VersionInv'
  BY VersionNext
<1> QED
  BY <1>1, VersionInit, TypeCorrect, PTL DEF Spec

\* The main server never believes a child to be further than it is, and never
\* labels a list with a version older than the list.
THEOREM NothingAheadCorrect == Spec => []NothingAhead
<1>1. VersionInv => NothingAhead
  BY DEF VersionInv, ViewVersions, DetailVersions, NothingAhead
<1> QED
  BY <1>1, VersionCorrect, PTL
-----------------------------------------------------------------------------
(***************************************************************************)
(* The main server's maps.                                                 *)
(***************************************************************************)
LEMMA ViewInit == Init => ViewInv /\ ViewMatchesDetail /\ DownNeverPulled
BY ConstantsTyped
   DEF Init, EmptyMap, ViewInv, ViewMatchesDetail, DownNeverPulled

\* Steps that touch none of the main server's state.
LEMMA QuietSteps ==
  ASSUME NEW n \in Node,
         \/ AddUser(n) \/ RemoveUser(n) \/ HbPoll(n) \/ HbReadVersion(n)
         \/ HbSend(n) \/ ChildStart(n)
  PROVE  UNCHANGED <<mainUp, view, detail, toPull, rpc>>
BY DEF AddUser, RemoveUser, HbPoll, HbReadVersion, HbSend, ChildStart, mainVars

\* Steps that only move the pull in progress along.
LEMMA ServeSteps ==
  ASSUME TypeOK, NEW n \in Node,
         PullPoll(n) \/ PullReadUsers(n) \/ PullReadVersion(n) \/ ChildStop(n)
  PROVE  /\ UNCHANGED <<mainUp, view, detail, toPull>>
         /\ rpc'.node = rpc.node
         /\ rpc'.pc = "idle" <=> rpc.pc = "idle"
BY DEF TypeOK, CallTypes, Call, PullPoll, PullReadUsers, PullReadVersion,
       ChildStop, mainVars

\* How each step that writes a view changes it.
LEMMA DeliverStep ==
  ASSUME TypeOK, NEW m \in hbNet, HbDeliver(m)
  PROVE  /\ mainUp /\ UNCHANGED <<mainUp, detail, toPull, rpc>>
         /\ m.node \in Node
         /\ DOMAIN view' = DOMAIN view \cup {m.node}
         /\ \A n \in DOMAIN view : n # m.node => view'[n] = view[n]
         /\ ~view'[m.node].down /\ view'[m.node].seen = 0
         /\ m.node \in DOMAIN view =>
              /\ view'[m.node].pulled = view[m.node].pulled
              /\ view'[m.node].pulledVer = view[m.node].pulledVer
              /\ view'[m.node].pulledBytes = view[m.node].pulledBytes
         /\ m.node \notin DOMAIN view => ~view'[m.node].pulled
<1>1. m.node \in Node
  BY DEF TypeOK, CallTypes, Heartbeat
<1>2. KnownView(m.node) \in NodeView
  BY ConstantsTyped DEF KnownView, TypeOK, MainTypes
<1>3. view'[m.node] = Heard(KnownView(m.node), m)
  BY DEF HbDeliver
<1>4. /\ ~view'[m.node].down /\ view'[m.node].seen = 0
      /\ view'[m.node].pulled = KnownView(m.node).pulled
      /\ view'[m.node].pulledVer = KnownView(m.node).pulledVer
      /\ view'[m.node].pulledBytes = KnownView(m.node).pulledBytes
  BY <1>2, <1>3 DEF Heard, NodeView
<1>5. /\ mainUp /\ UNCHANGED <<mainUp, detail, toPull, rpc>>
      /\ DOMAIN view' = DOMAIN view \cup {m.node}
      /\ \A n \in DOMAIN view : n # m.node => view'[n] = view[n]
  BY DEF HbDeliver
<1> QED
  BY <1>1, <1>4, <1>5 DEF KnownView, FreshView

LEMMA RoundStep ==
  ASSUME TypeOK, SchedRound
  PROVE  /\ mainUp /\ UNCHANGED <<mainUp, detail, rpc>>
         /\ rpc.pc = "idle"
         /\ DOMAIN view' = DOMAIN view
         /\ toPull' = Chosen
         /\ \A n \in DOMAIN view :
              /\ view'[n].seen = view[n].seen
              /\ view'[n].pulled = view[n].pulled
              /\ view'[n].pulledVer = view[n].pulledVer
              /\ view'[n].pulledBytes = view[n].pulledBytes
              /\ view'[n].down => view[n].down \/ MarkDown(view[n], Misses)
<1>1. \A n \in DOMAIN view :
        \/ view'[n] = view[n]
        \/ /\ MarkDown(view[n], Misses)
           /\ view'[n] = [view[n] EXCEPT !.down = TRUE]
  BY DEF SchedRound
<1>2. \A n \in DOMAIN view : view[n] \in NodeView
  BY DEF TypeOK, MainTypes
<1>3. \A n \in DOMAIN view :
        /\ view'[n].seen = view[n].seen
        /\ view'[n].pulled = view[n].pulled
        /\ view'[n].pulledVer = view[n].pulledVer
        /\ view'[n].pulledBytes = view[n].pulledBytes
        /\ view'[n].down => view[n].down \/ MarkDown(view[n], Misses)
  BY <1>1, <1>2 DEF NodeView
<1>4. /\ mainUp /\ UNCHANGED <<mainUp, detail, rpc>> /\ rpc.pc = "idle"
      /\ DOMAIN view' = DOMAIN view /\ toPull' = Chosen
  BY DEF SchedRound, SchedIdle
<1> QED
  BY <1>3, <1>4

LEMMA CommitStep ==
  ASSUME TypeOK, NEW n \in Node, PullCommit(n)
  PROVE  /\ mainUp /\ UNCHANGED <<mainUp, toPull>>
         /\ rpc.node = n /\ rpc.pc = "answered" /\ rpc'.pc = "idle"
         /\ DOMAIN view' = DOMAIN view
         /\ DOMAIN detail' = DOMAIN detail \cup {n}
         /\ detail'[n] = [at |-> rpc.at, ver |-> rpc.ver, bytes |-> rpc.bytes]
         /\ \A i \in DOMAIN detail : i # n => detail'[i] = detail[i]
         /\ \A i \in DOMAIN view : i # n => view'[i] = view[i]
         /\ n \in DOMAIN view =>
              /\ view'[n].seen = view[n].seen /\ view'[n].down = view[n].down
              /\ view'[n].pulled
              /\ view'[n].pulledVer = rpc.ver /\ view'[n].pulledBytes = rpc.bytes
BY ConstantsTyped DEF PullCommit, TypeOK, MainTypes, NodeView

LEMMA TickStep ==
  ASSUME TypeOK, Tick
  PROVE  /\ UNCHANGED <<mainUp, detail, toPull, rpc>>
         /\ DOMAIN view' = DOMAIN view
         /\ \A n \in DOMAIN view :
              /\ view'[n].down = view[n].down
              /\ view'[n].seen = Older(view[n].seen)
              /\ view'[n].pulled = view[n].pulled
              /\ view'[n].pulledVer = view[n].pulledVer
              /\ view'[n].pulledBytes = view[n].pulledBytes
BY DEF Tick, TypeOK, MainTypes, NodeView

LEMMA ViewNext ==
  ASSUME TypeOK, ViewInv, ViewMatchesDetail, DownNeverPulled, [Next]_vars
  PROVE  ViewInv' /\ ViewMatchesDetail' /\ DownNeverPulled'
<1>0. DOMAIN view \subseteq Node /\ DOMAIN detail \subseteq Node
  BY DEF TypeOK, MainTypes
<1> USE <1>0 DEF ViewInv, ViewMatchesDetail, DownNeverPulled, MarkDown
<1>1. ASSUME UNCHANGED <<mainUp, view, detail, toPull>>,
             rpc'.node = rpc.node, rpc'.pc = "idle" <=> rpc.pc = "idle"
      PROVE  ViewInv' /\ ViewMatchesDetail' /\ DownNeverPulled'
  BY <1>1
<1>2. ASSUME NEW n \in Node, ChildNext(n)
      PROVE  ViewInv' /\ ViewMatchesDetail' /\ DownNeverPulled'
  BY <1>1, <1>2, QuietSteps, ServeSteps DEF ChildNext
<1>3. ASSUME NEW m \in hbNet, HbDeliver(m)
      PROVE  ViewInv' /\ ViewMatchesDetail' /\ DownNeverPulled'
  <2>1. ViewInv'
    <3>1. \A n \in DOMAIN view' : view'[n].down =>
            n \in DOMAIN view /\ view'[n] = view[n]
      BY <1>3, DeliverStep
    <3>2. /\ mainUp /\ UNCHANGED <<mainUp, toPull, rpc>>
          /\ DOMAIN view \subseteq DOMAIN view'
      BY <1>3, DeliverStep
    <3> QED
      BY <3>1, <3>2
  <2>2. \A n \in Node :
          n \in DOMAIN detail' <=> n \in DOMAIN view' /\ view'[n].pulled
    BY <1>3, DeliverStep, ZenonT(60)
  <2>3. ViewMatchesDetail'
    <3>1. ASSUME NEW n \in DOMAIN detail
          PROVE  /\ view'[n].pulledVer = view[n].pulledVer
                 /\ view'[n].pulledBytes = view[n].pulledBytes
      BY <1>3, DeliverStep, ZenonT(60)
    <3>2. detail' = detail
      BY <1>3, DeliverStep
    <3> QED
      BY <2>2, <3>1, <3>2
  <2>4. DownNeverPulled'
    BY <1>3, DeliverStep, ZenonT(60)
  <2> QED
    BY <2>1, <2>3, <2>4
<1>4. ASSUME NEW m \in hbNet, HbLose(m)
      PROVE  ViewInv' /\ ViewMatchesDetail' /\ DownNeverPulled'
  BY <1>1, <1>4 DEF HbLose, mainVars
<1>5. CASE SchedRound
  <2>1. /\ Chosen \subseteq DOMAIN view
        /\ \A n \in Chosen : ~MarkDown(view[n], Misses)
    BY DEF Chosen
  <2>2. \A n \in DOMAIN view : view'[n].down => MarkDown(view[n], Misses)
    BY <1>5, RoundStep
  <2>3. ViewInv'
    BY <1>5, <2>1, <2>2, RoundStep
  <2>4. ViewMatchesDetail'
    BY <1>5, RoundStep
  <2>5. DownNeverPulled'
    BY <1>5, <2>1, <2>2, RoundStep
  <2> QED
    BY <2>3, <2>4, <2>5
<1>6. ASSUME NEW n \in Node, PullStart(n)
      PROVE  ViewInv' /\ ViewMatchesDetail' /\ DownNeverPulled'
  <2>1. /\ UNCHANGED <<mainUp, view, detail>>
        /\ rpc.pc = "idle" /\ n \in toPull /\ toPull' = toPull \ {n}
        /\ rpc' = rpc \/ rpc'.node = n
    BY <1>6, ConstantsTyped DEF PullStart, Call
  <2> QED
    BY <2>1
<1>7. ASSUME NEW n \in Node, PullCommit(n)
      PROVE  ViewInv' /\ ViewMatchesDetail' /\ DownNeverPulled'
  <2>1. n \in DOMAIN view
    BY <1>7, CommitStep
  <2>2. ViewInv' /\ DownNeverPulled'
    BY <1>7, <2>1, CommitStep, ZenonT(60)
  <2>3. \A i \in DOMAIN view : i # n => view'[i] = view[i]
    BY <1>7, CommitStep, ZenonT(60)
  <2>4. /\ DOMAIN view' = DOMAIN view /\ DOMAIN detail' = DOMAIN detail \cup {n}
        /\ view'[n].pulled
        /\ view'[n].pulledVer = rpc.ver /\ view'[n].pulledBytes = rpc.bytes
        /\ detail'[n].ver = rpc.ver /\ detail'[n].bytes = rpc.bytes
    <3>1. DOMAIN view' = DOMAIN view /\ DOMAIN detail' = DOMAIN detail \cup {n}
      BY <1>7, CommitStep
    <3>2. view'[n].pulled
      BY <1>7, <2>1, CommitStep
    <3>3. view'[n].pulledVer = rpc.ver /\ view'[n].pulledBytes = rpc.bytes
      BY <1>7, <2>1, CommitStep
    <3>4. detail'[n] = [at |-> rpc.at, ver |-> rpc.ver, bytes |-> rpc.bytes]
      BY <1>7, CommitStep
    <3>5. detail'[n].ver = rpc.ver /\ detail'[n].bytes = rpc.bytes
      BY <3>4
    <3> QED
      BY <3>1, <3>2, <3>3, <3>5
  <2>5. \A i \in DOMAIN detail : i # n => detail'[i] = detail[i]
    BY <1>7, CommitStep, ZenonT(60)
  <2>6. ASSUME NEW i \in Node
        PROVE  i \in DOMAIN detail' <=> i \in DOMAIN view' /\ view'[i].pulled
    <3>1. CASE i = n
      BY <2>1, <2>4, <3>1
    <3>2. CASE i # n
      <4>1. i \in DOMAIN detail' <=> i \in DOMAIN detail
        BY <2>4, <3>2
      <4>2. i \in DOMAIN view => view'[i] = view[i]
        BY <2>3, <3>2
      <4>3. i \in DOMAIN view' <=> i \in DOMAIN view
        BY <2>4
      <4> QED
        BY <4>1, <4>2, <4>3
    <3> QED
      BY <3>1, <3>2
  <2>7. ASSUME NEW i \in DOMAIN detail'
        PROVE  /\ view'[i].pulledVer = detail'[i].ver
               /\ view'[i].pulledBytes = detail'[i].bytes
    <3>1. CASE i = n
      BY <2>4, <3>1
    <3>2. CASE i # n
      <4>1. i \in DOMAIN detail /\ i \in DOMAIN view
        BY <2>4, <3>2
      <4> QED
        BY <2>3, <2>5, <3>2, <4>1
    <3> QED
      BY <3>1, <3>2
  <2>8. ViewMatchesDetail'
    BY <2>6, <2>7
  <2> QED
    BY <2>2, <2>8
<1>8. CASE PullFail
  BY <1>8, ConstantsTyped DEF PullFail, mainVars
<1>9. CASE MainStop
  BY <1>9, ConstantsTyped DEF MainStop
<1>10. CASE MainStart
  BY <1>1, <1>10 DEF MainStart
<1>11. CASE Tick
  <2>1. \A n \in DOMAIN view : view[n].seen > Misses => Older(view[n].seen) > Misses
    BY SettingsPositive, BoundAssumption
       DEF TypeOK, MainTypes, NodeView, Age, Older
  <2>2. ViewInv'
    BY <1>11, <2>1, TickStep
  <2>3. ViewMatchesDetail' /\ DownNeverPulled'
    BY <1>11, TickStep
  <2> QED
    BY <2>2, <2>3
<1>12. CASE UNCHANGED vars
  BY <1>1, <1>12 DEF vars, mainVars
<1> QED
  BY <1>2, <1>3, <1>4, <1>5, <1>6, <1>7, <1>8, <1>9, <1>10, <1>11, <1>12 DEF Next

LEMMA ViewCorrect == Spec => [](ViewInv /\ ViewMatchesDetail /\ DownNeverPulled)
<1>1. TypeOK /\ (ViewInv /\ ViewMatchesDetail /\ DownNeverPulled) /\ [Next]_vars
      => (ViewInv /\ ViewMatchesDetail /\ DownNeverPulled)'
  BY ViewNext
<1> QED
  BY <1>1, ViewInit, TypeCorrect, PTL DEF Spec

\* ShouldPull always compares with the response the main server holds.
THEOREM ViewMatchesDetailCorrect == Spec => []ViewMatchesDetail
BY ViewCorrect, PTL

\* A DOWN node is never pulled, nor waits to be.
THEOREM DownNeverPulledCorrect == Spec => []DownNeverPulled
BY ViewCorrect, PTL
-----------------------------------------------------------------------------
(***************************************************************************)
(* Refinement: the copies of the main server implement UserListReplica.    *)
(***************************************************************************)
LEMMA ReplicaInit == Init => Replica!Init
BY ConstantsTyped DEF Init, Replica!Init, Copy, EmptyMap

\* The abstract copy changes only when a pull is committed or the main server
\* stops; a commit moves one child's copy forward.
LEMMA ReplicaStep ==
  ASSUME TypeOK, VersionInv, [Next]_vars
  PROVE  [Replica!Next]_(Replica!vars)
<1> USE DEF Replica!vars
<1>1. CASE UNCHANGED <<ver, detail>>
  BY <1>1 DEF Copy
<1>2. ASSUME NEW n \in Node, AddUser(n) \/ RemoveUser(n)
      PROVE  Replica!Next
  <2>1. ver' = [ver EXCEPT ![n] = @ + 1] /\ detail' = detail
    BY <1>2 DEF AddUser, RemoveUser, mainVars
  <2>2. Replica!Change(n)
    BY <2>1 DEF Replica!Change, Copy
  <2> QED
    BY <2>2 DEF Replica!Next
<1>3. ASSUME NEW n \in Node, PullCommit(n)
      PROVE  Replica!Next
  <2>1. /\ ver' = ver /\ rpc.node = n
        /\ DOMAIN detail' = DOMAIN detail \cup {n}
        /\ detail'[n].at = rpc.at
        /\ \A i \in DOMAIN detail : i # n => detail'[i] = detail[i]
    BY <1>3 DEF PullCommit, childVars
  <2>2. /\ rpc.at \in Nat /\ ver[n] \in Nat /\ rpc.at <= ver[n]
        /\ n \in DOMAIN detail => detail[n].at <= rpc.at /\ detail[n].at \in Nat
    <3>1. rpc.pc = "answered" /\ rpc.node = n
      BY <1>3 DEF PullCommit
    <3>2. /\ rpc.at <= rpc.ver /\ rpc.ver <= ver[n]
          /\ n \in DOMAIN detail => detail[n].at <= rpc.at
      BY <3>1 DEF VersionInv, CallVersions
    <3>3. rpc.at \in Nat /\ rpc.ver \in Nat
      BY BoundAssumption DEF TypeOK, CallTypes, Call, Version
    <3>4. ver[n] \in Nat
      BY BoundAssumption DEF TypeOK, ChildTypes, Version
    <3>5. n \in DOMAIN detail => detail[n].at \in Nat
      <4>1. n \in DOMAIN detail => detail[n] \in Response
        BY DEF TypeOK, MainTypes
      <4> QED
        BY <4>1, BoundAssumption DEF Response, Version
    <3> QED
      BY <3>2, <3>3, <3>4, <3>5
  <2>3. Copy' = [Copy EXCEPT ![n] = rpc.at]
    BY <2>1 DEF Copy
  <2>4. rpc.at \in 0 .. ver[n] /\ (Copy[n] # -1 => rpc.at >= Copy[n])
    BY <2>2 DEF Copy
  <2>5. Replica!Refresh(n)
    BY <2>1, <2>3, <2>4 DEF Replica!Refresh
  <2> QED
    BY <2>5 DEF Replica!Next
<1>4. CASE MainStop
  <2>1. ver' = ver /\ DOMAIN detail' = {}
    BY <1>4, ConstantsTyped DEF MainStop, childVars
  <2> QED
    BY <2>1 DEF Replica!Next, Replica!Forget, Copy
<1> QED
  BY <1>1, <1>2, <1>3, <1>4
     DEF Next, ChildNext, HbPoll, HbReadVersion, HbSend, PullPoll,
         PullReadUsers, PullReadVersion, ChildStop, ChildStart, Loaded,
         HbDeliver, HbLose, SchedRound, PullStart, PullFail, MainStart, Tick,
         vars, childVars, mainVars

\* The main server holds, of every child, a list the child really had, and
\* moves only forward through them, whatever is lost, delayed or restarted.
THEOREM ReplicaImplemented == Spec => ImplementsReplica
<1>1. TypeOK /\ VersionInv /\ [Next]_vars => [Replica!Next]_(Replica!vars)
  BY ReplicaStep
<1> QED
  BY <1>1, ReplicaInit, TypeCorrect, VersionCorrect, PTL
     DEF Spec, ImplementsReplica, Replica!Spec
-----------------------------------------------------------------------------
(***************************************************************************)
(* No false DOWN on a prompt network.                                      *)
(***************************************************************************)
LEMMA PunctualInit == Init => PunctualInv
BY ConstantsTyped DEF Init, PunctualInv

LEMMA PunctualNext ==
  ASSUME ~Lossy, TypeOK, ViewInv, PunctualInv, [Next]_vars
  PROVE  PunctualInv'
<1>0. /\ \A n \in Node : beat[n] \in 0 .. HeartbeatEvery
      /\ DOMAIN view \subseteq Node
      /\ \A n \in DOMAIN view : view[n].seen \in 0 .. MaxAge
      /\ \A m \in hbNet : m.node \in Node
  BY DEF TypeOK, ChildTypes, MainTypes, CallTypes, NodeView, Age, Heartbeat
<1> USE SettingAssumption, BoundAssumption DEF PunctualInv
<1>1. ASSUME UNCHANGED <<up, beat, hbNet>>,
             \A n \in DOMAIN view' : n \in DOMAIN view /\ view'[n].seen = view[n].seen
      PROVE  PunctualInv'
  BY <1>1
<1>2. ASSUME NEW n \in Node, HbSend(n) PROVE PunctualInv'
  <2>1. view' = view /\ up' = up
    BY <1>2 DEF HbSend, mainVars
  <2>2. \A i \in Node : i # n => beat'[i] = beat[i]
    BY <1>2 DEF HbSend, TypeOK, ChildTypes
  <2>3. hbNet' = hbNet \cup {[node |-> n, ver |-> hb[n].ver, bytes |-> total[n]]}
    BY <1>2 DEF HbSend
  <2>4. hbNet \subseteq hbNet' /\ \E m \in hbNet' : m.node = n
    <3> DEFINE sent == [node |-> n, ver |-> hb[n].ver, bytes |-> total[n]]
    <3>1. sent.node = n
      OBVIOUS
    <3>2. sent \in hbNet' /\ hbNet \subseteq hbNet'
      BY <2>3
    <3> QED
      BY <3>1, <3>2
  <2>5. ASSUME NEW i \in DOMAIN view', up'[i], beat'[i] > 0,
               \A m \in hbNet' : m.node # i
        PROVE  view'[i].seen + beat'[i] <= HeartbeatEvery
    <3>1. i # n
      BY <2>4, <2>5
    <3>2. i \in Node /\ i \in DOMAIN view
      BY <1>0, <2>1
    <3>3. beat'[i] = beat[i] /\ up[i] /\ view'[i] = view[i]
      BY <2>1, <2>2, <2>5, <3>1, <3>2
    <3>4. \A m \in hbNet : m.node # i
      BY <2>4, <2>5
    <3> QED
      BY <2>5, <3>2, <3>3, <3>4
  <2> QED
    BY <2>5
<1>3. ASSUME NEW m \in hbNet, HbDeliver(m) PROVE PunctualInv'
  <2>1. up' = up /\ beat' = beat /\ hbNet' = hbNet \ {m}
    BY <1>3 DEF HbDeliver, childVars
  <2>2. /\ view'[m.node].seen = 0
        /\ \A i \in DOMAIN view' : i # m.node => i \in DOMAIN view /\ view'[i] = view[i]
    BY <1>3, DeliverStep
  <2>3. DOMAIN view' \subseteq Node
    BY <1>0, <1>3, DeliverStep
  <2>4. ASSUME NEW i \in DOMAIN view', i # m.node,
               up'[i], beat'[i] > 0, \A k \in hbNet' : k.node # i
        PROVE  view'[i].seen + beat'[i] <= HeartbeatEvery
    <3>1. \A k \in hbNet : k.node # i
      BY <2>1, <2>4
    <3> QED
      BY <2>1, <2>2, <2>4, <3>1
  <2>5. m.node \in DOMAIN view' => view'[m.node].seen + beat'[m.node] <= HeartbeatEvery
    BY <1>0, <2>1, <2>2
  <2> QED
    BY <2>4, <2>5
<1>4. ASSUME NEW m \in hbNet, HbLose(m) PROVE PunctualInv'
  <2>1. DOMAIN view' = {}
    BY <1>4 DEF HbLose, mainVars, ViewInv
  <2> QED
    BY <2>1
<1>5. ASSUME NEW n \in Node, ChildStop(n) PROVE PunctualInv'
  <2>1. /\ view' = view /\ beat' = beat /\ hbNet' = hbNet
        /\ \A i \in Node : up'[i] => up[i]
    BY <1>5 DEF ChildStop, mainVars, TypeOK, ChildTypes
  <2> QED
    BY <1>0, <2>1
<1>6. ASSUME NEW n \in Node, ChildStart(n) PROVE PunctualInv'
  <2>1. /\ view' = view /\ hbNet' = hbNet /\ beat'[n] = 0
        /\ \A i \in Node : i # n => up'[i] = up[i] /\ beat'[i] = beat[i]
    BY <1>6 DEF ChildStart, mainVars, TypeOK, ChildTypes
  <2> QED
    BY <1>0, <2>1
<1>7. CASE SchedRound
  BY <1>1, <1>7, RoundStep DEF SchedRound, childVars
<1>8. ASSUME NEW n \in Node, PullCommit(n) PROVE PunctualInv'
  <2>1. \A i \in DOMAIN view' : i \in DOMAIN view /\ view'[i].seen = view[i].seen
    BY <1>8, CommitStep
  <2> QED
    BY <1>1, <1>8, <2>1 DEF PullCommit, childVars
<1>9. CASE MainStop
  BY <1>9, ConstantsTyped DEF MainStop
<1>10. CASE Tick
  <2>1. /\ up' = up /\ hbNet' = hbNet /\ hbNet = {}
        /\ beat' = [n \in Node |-> IF up[n] THEN beat[n] - 1 ELSE beat[n]]
        /\ \A n \in Node : up[n] => beat[n] > 0
    BY <1>10 DEF Tick
  <2>2. /\ DOMAIN view' = DOMAIN view
        /\ \A n \in DOMAIN view : view'[n].seen = Older(view[n].seen)
    BY <1>10, TickStep
  <2>3. \A n \in DOMAIN view : Older(view[n].seen) <= view[n].seen + 1
    BY <1>0 DEF Older
  <2>4. ASSUME NEW n \in DOMAIN view, up[n]
        PROVE  view'[n].seen + beat'[n] <= HeartbeatEvery
    <3>1. view[n].seen + beat[n] <= HeartbeatEvery
      BY <1>0, <2>1, <2>4
    <3>2. beat'[n] = beat[n] - 1
      BY <1>0, <2>1, <2>4
    <3>3. view'[n].seen \in Int /\ view'[n].seen <= view[n].seen + 1
      BY <1>0, <2>2, <2>3 DEF Older
    <3> QED
      BY <1>0, <3>1, <3>2, <3>3
  <2> QED
    BY <2>1, <2>2, <2>4
<1> QED
  BY <1>1, <1>2, <1>3, <1>4, <1>5, <1>6, <1>7, <1>8, <1>9, <1>10
     DEF Next, ChildNext, AddUser, RemoveUser, HbPoll, HbReadVersion, PullPoll,
         PullReadUsers, PullReadVersion, PullStart, PullFail, MainStart,
         vars, childVars, mainVars

\* On a network that neither loses nor delays, with heartbeats at most one
\* interval rarer than the tolerated silence, a running child is never shown DOWN, except until the
\* first heartbeat after a restart arrives.
THEOREM NoFalseDownCorrect ==
  ASSUME ~Lossy, HeartbeatEvery <= Misses + 1
  PROVE  Spec => []NoFalseDown
<1>1. TypeOK /\ ViewInv /\ PunctualInv /\ [Next]_vars => PunctualInv'
  BY PunctualNext
<1>2. ASSUME TypeOK, ViewInv, PunctualInv PROVE NoFalseDown
  <2> SUFFICES ASSUME NEW n \in DOMAIN view, up[n], view[n].down, ~BeatPending(n)
               PROVE  FALSE
    BY DEF NoFalseDown
  <2>1. /\ beat[n] \in 0 .. HeartbeatEvery /\ beat[n] # 0
        /\ \A m \in hbNet : m.node # n
    BY <1>2 DEF BeatPending, TypeOK, ChildTypes, MainTypes
  <2>2. view[n].seen \in Int /\ view[n].seen > Misses
    BY <1>2 DEF ViewInv, MarkDown, TypeOK, MainTypes, NodeView, Age
  <2>3. view[n].seen + beat[n] <= HeartbeatEvery
    BY <1>2, <2>1, SettingAssumption DEF PunctualInv
  <2> QED
    BY <2>1, <2>2, <2>3, SettingsPositive, SettingAssumption
<1> QED
  BY <1>1, <1>2, PunctualInit, TypeCorrect, ViewCorrect, PTL DEF Spec
=============================================================================
