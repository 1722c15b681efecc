--------------------------- MODULE NodeStoreProofs ---------------------------
(***************************************************************************)
(* Proofs about the user list of NodeDaemon, in memory and on disk: its    *)
(* types, that no crash takes back what an answer promised, that the       *)
(* reconcile run spares those it should, and that no two users share an    *)
(* e-mail.                                                                 *)
(***************************************************************************)
EXTENDS NodeDaemon, UserStoreProofs, FiniteSetTheorems

\* What a look-up by reference finds is in the list it looked in.
LEMMA FoundIsThere ==
  ASSUME NEW S, S \subseteq User, NEW ref, NEW u \in FindUser(S, ref)
  PROVE  u \in S
<1>1. \A v \in S : v.id \in Nat
  BY NodeAssumption DEF User, Uuid
<1> QED
  BY <1>1, FindUserFinds

\* The daemon starts with well-typed state.
LEMMA TypeInit == Init => TypeOK
<1> SUFFICES ASSUME Init PROVE TypeOK
  OBVIOUS
<1>1. StoreTypes
  BY NodeAssumption DEF Init, StoreTypes
<1>2. NoRequest \in Request /\ IdleRec \in
        [set : SUBSET Email, page : Nat, todo : SUBSET User,
         any : BOOLEAN, steady : SUBSET Email]
  BY DEF NoRequest, Request, Ref, IdleRec
<1>3. ProcTypes
  BY <1>2, NodeAssumption DEF Init, ProcTypes, Where
<1>4. OutsideTypes
  BY DEF Init, OutsideTypes
<1> QED
  BY <1>1, <1>3, <1>4 DEF TypeOK

\* A process that answers and forgets its request keeps the types.
LEMMA DoneTypes ==
  ASSUME TypeOK, NEW p \in Proc, Done(p)
  PROVE  /\ mem' \in [{"daemon", "cli"} -> SUBSET User]
         /\ pc' \in [Proc -> Where]
         /\ req' \in [Proc -> Request]
         /\ mine' \in [Proc -> Uuid \cup {NoRef}]
<1>1. NoRequest \in Request /\ "idle" \in Where
  BY DEF NoRequest, Request, Ref, Where
<1>2. {} \in SUBSET User
  OBVIOUS
<1> QED
  BY <1>1, <1>2 DEF TypeOK, StoreTypes, ProcTypes, Done, Goto

\* Taking a request keeps the types.
LEMMA AcceptTypes ==
  ASSUME TypeOK, NEW p \in Proc, NEW r \in Request, Accept(p, r)
  PROVE  /\ pc' \in [Proc -> Where]
         /\ req' \in [Proc -> Request]
         /\ UNCHANGED <<up, disk, nextId, mine, xrayVars, rec, crashes, histVars>>
BY DEF TypeOK, ProcTypes, Accept, Goto, Where

\* The user made from a request is a user.
LEMMA NewUserTypes ==
  ASSUME NEW r \in Request, nextId \in Uuid
  PROVE  NewUser(r) \in User
BY DEF NewUser, User, Request, Source

\* Moving to another step keeps the program counters typed.
LEMMA GotoTypes ==
  ASSUME TypeOK, NEW p, NEW w \in Where, Goto(p, w)
  PROVE  pc' \in [Proc -> Where]
BY DEF TypeOK, ProcTypes, Goto

\* Going on after a change of the list keeps the types.
LEMMA AfterTypes ==
  ASSUME TypeOK, NEW p \in Proc, NEW ok, NEW id \in Uuid, After(p, ok, id)
  PROVE  /\ pc' \in [Proc -> Where]
         /\ req' \in [Proc -> Request]
         /\ mine' \in [Proc -> Uuid \cup {NoRef}]
<1>1. NoRequest \in Request
  BY DEF NoRequest, Request, Ref
<1> QED
  BY <1>1 DEF TypeOK, ProcTypes, After, Goto, Applying, Where

\* What applies the change of the creation of a user knows the user.
Under(p) == pc[p] \in {"snapshot", "open", "write", "reload", "reply"}
Creating(p) == req[p].kind \in {"create", "portal"}
MineTyped ==
  /\ \A p \in Proc : Under(p) /\ Creating(p) => mine[p] \in Uuid
  /\ ~Creating("reconciler")

\* Every step keeps the types.
LEMMA TypeNext ==
  ASSUME TypeOK, MineTyped, [Next]_vars
  PROVE  TypeOK'
<1> USE DEF TypeOK, StoreTypes, ProcTypes, OutsideTypes
<1>1. CASE UNCHANGED vars
  BY <1>1 DEF vars, storeVars, procVars, xrayVars, ssoVars, histVars
<1>2. ASSUME NEW t \in Thread, NEW r \in Requests, ApiCall(t, r)
      PROVE  TypeOK'
  <2>1. t \in Proc /\ r \in Request
    BY NodeAssumption DEF Proc, Daemon, Request
  <2> QED
    BY <1>2, <2>1, AcceptTypes DEF ApiCall, xrayVars, ssoVars, histVars
<1>3. ASSUME NEW t \in Thread, NEW e \in Email, PortalVisit(t, e) \/ WebhookCall(t, e)
      PROVE  TypeOK'
  <2> DEFINE r(kind) == [kind |-> kind, ref |-> e, ext |-> NoRef]
  <2>1. t \in Proc /\ \A kind \in {"portal", "revoke"} : r(kind) \in Request
    BY DEF Proc, Daemon, Request, Ref
  <2>2. CASE PortalVisit(t, e)
    BY <2>1, <2>2, AcceptTypes DEF PortalVisit, xrayVars, ssoVars, histVars
  <2>3. CASE WebhookCall(t, e)
    BY <2>1, <2>3, AcceptTypes DEF WebhookCall, xrayVars, histVars
  <2> QED
    BY <1>3, <2>2, <2>3
<1>4. ASSUME NEW r \in CliRequests, CliStart(r) PROVE TypeOK'
  <2>1. "cli" \in Proc /\ r \in Request
    BY NodeAssumption DEF Proc, Request
  <2>2. mem' \in [{"daemon", "cli"} -> SUBSET User]
    BY <1>4 DEF CliStart
  <2> QED
    BY <1>4, <2>1, <2>2, AcceptTypes DEF CliStart, xrayVars, ssoVars, histVars
<1>5. ASSUME NEW p \in Proc, Find(p) PROVE TypeOK'
  <2>1. CASE Goto(p, "change") /\ UNCHANGED <<mem, req, mine>>
    BY <1>5, <2>1, GotoTypes DEF Find, Where, xrayVars, ssoVars, histVars
  <2>2. CASE Done(p)
    BY <1>5, <2>2, DoneTypes DEF Find, xrayVars, ssoVars, histVars
  <2> QED
    BY <1>5, <2>1, <2>2 DEF Find
<1>6. ASSUME NEW p \in Proc, AddRefused(p) \/ RemoveRefused(p) PROVE TypeOK'
  <2>1. Done(p) /\ UNCHANGED <<up, disk, nextId, xrayVars, ssoVars, rec, crashes, histVars>>
    BY <1>6 DEF AddRefused, RemoveRefused
  <2> QED
    BY <2>1, DoneTypes DEF xrayVars, ssoVars, histVars
<1>7. ASSUME NEW p \in Proc, AddUser(p) PROVE TypeOK'
  <2>1. Home(p) \in {"daemon", "cli"}
    BY DEF Home
  <2>2. nextId \in Uuid /\ NewUser(req[p]) \in User
    BY <1>7, NewUserTypes DEF AddUser
  <2>3. mem' = [mem EXCEPT ![Home(p)] = mem[Home(p)] \cup {NewUser(req[p])}]
    BY <1>7 DEF AddUser
  <2>4. mem' \in [{"daemon", "cli"} -> SUBSET User]
    BY <2>1, <2>2, <2>3
  <2>5. PICK ok \in FlushOutcome : /\ disk' = IF ok THEN mem'[Home(p)] ELSE disk
                                   /\ After(p, ok, nextId)
    BY <1>7 DEF AddUser
  <2>6. disk' \subseteq User
    BY <2>1, <2>4, <2>5
  <2>7. nextId' \in NumEmails + 1 .. NumEmails + MaxUsers + 1
    BY <1>7, <2>2, NodeAssumption DEF AddUser, Uuid
  <2>8. UNCHANGED <<up, xrayVars, ssoVars, rec, crashes, histVars>>
    BY <1>7 DEF AddUser
  <2>9. /\ pc' \in [Proc -> Where] /\ req' \in [Proc -> Request]
        /\ mine' \in [Proc -> Uuid \cup {NoRef}]
    BY <2>2, <2>5, AfterTypes
  <2> QED
    BY <2>4, <2>6, <2>7, <2>8, <2>9 DEF xrayVars, ssoVars, histVars
<1>8. ASSUME NEW p \in Proc, RemoveUser(p) PROVE TypeOK'
  <2>1. Home(p) \in {"daemon", "cli"}
    BY DEF Home
  <2>2. PICK u \in FindUser(mem[Home(p)], req[p].ref), ok \in FlushOutcome :
          /\ mem' = [mem EXCEPT ![Home(p)] = @ \ {u}]
          /\ removed' = removed \cup {u.id}
          /\ disk' = IF ok THEN mem'[Home(p)] ELSE disk
          /\ After(p, ok, u.id)
    BY <1>8 DEF RemoveUser
  <2>3. u \in User
    BY <2>1, FoundIsThere
  <2>4. u.id \in Uuid
    BY <2>3 DEF User
  <2>5. mem' \in [{"daemon", "cli"} -> SUBSET User]
    BY <2>1, <2>2
  <2>6. disk' \subseteq User
    BY <2>1, <2>2, <2>5
  <2>7. UNCHANGED <<up, nextId, xrayVars, ssoVars, rec, crashes, acked, gone>>
    BY <1>8 DEF RemoveUser
  <2>8. /\ pc' \in [Proc -> Where] /\ req' \in [Proc -> Request]
        /\ mine' \in [Proc -> Uuid \cup {NoRef}]
    BY <2>2, <2>4, AfterTypes
  <2> QED
    BY <2>2, <2>4, <2>5, <2>6, <2>7, <2>8 DEF xrayVars, ssoVars
<1>9. CASE PollStats
  BY <1>9 DEF PollStats, procVars, xrayVars, ssoVars, histVars
<1>10. ASSUME NEW p \in Proc, ApplyStep(p) PROVE TypeOK'
  <2>1. Home(p) \in {"daemon", "cli"} /\ mem[Home(p)] \subseteq User
    BY DEF Home
  <2>2. Ids(mem[Home(p)]) \subseteq Uuid
    BY <2>1 DEF Ids, User
  <2>3. CASE TakeSnapshot(p)
    BY <2>2, <2>3, GotoTypes
       DEF TakeSnapshot, Where, storeVars, ssoVars, histVars
  <2>4. CASE OpenFile(p)
    BY <2>4, GotoTypes DEF OpenFile, Where, storeVars, ssoVars, histVars
  <2>5. CASE WriteFile(p)
    BY <2>5, GotoTypes DEF WriteFile, Where, storeVars, ssoVars, histVars
  <2>6. CASE Reload(p)
    BY <2>6, GotoTypes DEF Reload, Where, storeVars, ssoVars, histVars
  <2> QED
    BY <1>10, <2>3, <2>4, <2>5, <2>6 DEF ApplyStep
<1>11. ASSUME NEW p \in Proc, Reply(p) PROVE TypeOK'
  <2>1. /\ Done(p)
        /\ UNCHANGED <<up, disk, nextId, xrayVars, ssoVars, rec, crashes, removed>>
    BY <1>11 DEF Reply
  <2> QED
    BY <1>11, <2>1, DoneTypes DEF Reply, MineTyped, Under, Creating, xrayVars, ssoVars
<1>12. CASE RecStart
  BY <1>12, GotoTypes DEF RecStart, IdleRec, Where, storeVars, xrayVars, ssoVars, histVars
<1>13. ASSUME NEW set \in SUBSET Email, Fetched(set)
       PROVE  /\ pc' \in [Proc -> Where]
              /\ rec' \in [set : SUBSET Email, page : Nat, todo : SUBSET User,
                           any : BOOLEAN, steady : SUBSET Email]
  BY <1>13 DEF Fetched, Goto, IdleRec, Where
<1>14. \A k : PageOf(k) \subseteq Email
  BY DEF PageOf
<1>15. CASE RecFetch
  <2> DEFINE set == rec.set \cup PageOf(rec.page)
  <2>1. set \in SUBSET Email
    BY <1>14
  <2>2. UNCHANGED <<up, storeVars, req, mine, xrayVars, ssoVars, crashes, histVars>>
    BY <1>15 DEF RecFetch
  <2>3. \/ rec' = [rec EXCEPT !.set = set, !.page = @ + 1] /\ UNCHANGED pc
        \/ Fetched(set)
    BY <1>15, Zenon DEF RecFetch
  <2> HIDE DEF set
  <2>4. rec.page + 1 \in Nat
    OBVIOUS
  <2>5. ASSUME NEW next \in Nat
        PROVE  [rec EXCEPT !.set = set, !.page = next] \in
                 [set : SUBSET Email, page : Nat, todo : SUBSET User,
                  any : BOOLEAN, steady : SUBSET Email]
    BY <2>1
  <2>6. CASE rec' = [rec EXCEPT !.set = set, !.page = @ + 1] /\ UNCHANGED pc
    <3>1. rec' \in [set : SUBSET Email, page : Nat, todo : SUBSET User,
                    any : BOOLEAN, steady : SUBSET Email]
      BY <2>4, <2>5, <2>6, Zenon
    <3> QED
      BY <2>2, <2>6, <3>1 DEF storeVars, xrayVars, ssoVars, histVars
  <2>7. CASE Fetched(set)
    BY <1>13, <2>1, <2>2, <2>7 DEF storeVars, xrayVars, ssoVars, histVars
  <2> QED
    BY <2>3, <2>6, <2>7
<1>16. CASE RecFetchNothing
  BY <1>13, <1>16 DEF RecFetchNothing, storeVars, xrayVars, ssoVars, histVars
<1>17. CASE RecFetchFails
  BY <1>17, GotoTypes DEF RecFetchFails, IdleRec, Where, storeVars, xrayVars, ssoVars, histVars
<1>18. CASE RecList
  BY <1>18, GotoTypes DEF RecList, Where, storeVars, xrayVars, ssoVars, histVars
<1>19. CASE RecPrune
  <2> DEFINE next == First(rec.todo)
             hit  == FindUser(mem["daemon"], next.email)
  <2>1. hit \subseteq User
    BY FoundIsThere
  <2>2. Ids(hit) \subseteq Uuid
    BY <2>1 DEF Ids, User
  <2>3. PICK ok \in FlushOutcome :
          /\ mem' = [mem EXCEPT !["daemon"] = @ \ hit]
          /\ disk' = IF ok /\ hit # {} THEN mem'["daemon"] ELSE disk
          /\ removed' = removed \cup Ids(hit)
          /\ rec' = [rec EXCEPT !.todo = @ \ {next},
                                !.any = @ \/ (ok /\ hit # {})]
          /\ gone' = IF ok THEN gone \cup Ids(hit) ELSE gone
    BY <1>19 DEF RecPrune
  <2> HIDE DEF hit, next
  <2>4. mem' \in [{"daemon", "cli"} -> SUBSET User] /\ disk' \subseteq User
    BY <2>3
  <2>5. ok \in BOOLEAN
    BY DEF FlushOutcome
  <2>6. rec' \in [set : SUBSET Email, page : Nat, todo : SUBSET User,
                  any : BOOLEAN, steady : SUBSET Email]
    BY <2>3, <2>5
  <2>7. UNCHANGED <<up, nextId, procVars, xrayVars, ssoVars, crashes, acked>>
    BY <1>19 DEF RecPrune
  <2> QED
    BY <2>2, <2>3, <2>4, <2>6, <2>7 DEF procVars, xrayVars, ssoVars
<1>20. CASE RecPruned
  BY <1>20, GotoTypes
     DEF RecPruned, Applying, IdleRec, Where, storeVars, xrayVars, ssoVars, histVars
<1>21. ASSUME NEW e \in Email, Deactivate(e) \/ Reactivate(e) \/ LoseWebhook(e)
       PROVE  TypeOK'
  BY <1>21 DEF Deactivate, Reactivate, LoseWebhook, storeVars, procVars, xrayVars, histVars
<1>22. CASE Stop
  <2>1. NoRequest \in Request /\ "idle" \in Where
    BY DEF NoRequest, Request, Ref, Where
  <2>2. IdleRec \in [set : SUBSET Email, page : Nat, todo : SUBSET User,
                     any : BOOLEAN, steady : SUBSET Email]
    BY DEF IdleRec
  <2>3. pc' \in [Proc -> Where] /\ req' \in [Proc -> Request]
    BY <1>22, <2>1 DEF Stop
  <2>4. mine' \in [Proc -> Uuid \cup {NoRef}] /\ snap' \in [Proc -> SUBSET Uuid]
    BY <1>22 DEF Stop
  <2>5. crashes' \in 0 .. MaxCrashes
    <3>1. MaxCrashes \in Nat /\ crashes \in 0 .. MaxCrashes
      BY NodeAssumption
    <3>2. crashes' = crashes + 1 /\ crashes < MaxCrashes
      BY <1>22 DEF Stop
    <3> HIDE DEF TypeOK
    <3> QED
      BY <3>1, <3>2
  <2>7. up' \in BOOLEAN
    BY <1>22 DEF Stop
  <2>6. rec' = IdleRec /\ UNCHANGED <<storeVars, file, loaded, ssoVars, histVars>>
    BY <1>22 DEF Stop
  <2> QED
    BY <2>2, <2>3, <2>4, <2>5, <2>6, <2>7 DEF storeVars, ssoVars, histVars
<1>23. CASE Start
  BY <1>23 DEF Start, procVars, xrayVars, ssoVars, histVars
<1>24. Thread \subseteq Proc /\ "cli" \in Proc /\ "reconciler" \in Proc
  BY DEF Proc, Daemon
<1> HIDE DEF TypeOK, StoreTypes, ProcTypes, OutsideTypes
<1>25. ASSUME NEW p \in Proc, Handle(p) PROVE TypeOK'
  BY <1>5, <1>6, <1>7, <1>8, <1>10, <1>11, <1>25 DEF Handle
<1>26. CASE RecStep
  BY <1>12, <1>15, <1>16, <1>17, <1>18, <1>19, <1>20, <1>26 DEF RecStep
<1>27. CASE ApplyStep("reconciler") \/ Reply("reconciler")
  BY <1>10, <1>11, <1>24, <1>27
<1> QED
  BY <1>1, <1>2, <1>3, <1>4, <1>9, <1>21, <1>22, <1>23, <1>24, <1>25, <1>26,
     <1>27 DEF Next

\* Every step keeps what a creation knows of its user.
LEMMA MineNext ==
  ASSUME TypeOK, MineTyped, [Next]_vars
  PROVE  MineTyped'
<1> USE DEF MineTyped, Under, Creating
<1>1. CASE UNCHANGED <<pc, req, mine>>
  BY <1>1
<1>2. ~NoRequest.kind \in {"create", "portal"}
  BY DEF NoRequest
<1>3. ASSUME NEW p \in Proc, Done(p) PROVE MineTyped'
  BY <1>2, <1>3 DEF Done, Goto, TypeOK, ProcTypes
<1>4. ASSUME NEW p \in Proc \ {"reconciler"}, NEW r, Accept(p, r) PROVE MineTyped'
  BY <1>4 DEF Accept, Goto, TypeOK, ProcTypes
<1>5. Thread \cup {"cli"} \subseteq Proc \ {"reconciler"}
  BY NodeAssumption DEF Proc, Daemon
<1>6. ASSUME NEW p \in Proc \ {"reconciler"}, AddUser(p) \/ RemoveUser(p)
      PROVE  MineTyped'
  <2>1. PICK ok, id : After(p, ok, id) /\ (req[p].kind \in {"create", "portal"} => id \in Uuid)
    BY <1>6 DEF AddUser, RemoveUser
  <2> QED
    BY <2>1, <1>2 DEF After, Goto, TypeOK, ProcTypes
<1>7. ASSUME NEW p \in Proc, ApplyStep(p) PROVE MineTyped'
  BY <1>7 DEF ApplyStep, TakeSnapshot, OpenFile, WriteFile, Reload, Goto,
              TypeOK, ProcTypes
<1>8. ASSUME NEW w, Goto("reconciler", w), UNCHANGED <<req, mine>> PROVE MineTyped'
  BY <1>8 DEF Goto, TypeOK, ProcTypes
<1>9. CASE RecStep
  <2>1. ASSUME NEW set, Fetched(set), UNCHANGED <<req, mine>> PROVE MineTyped'
    BY <1>8, <2>1 DEF Fetched
  <2>2. CASE RecFetch \/ RecFetchNothing
    BY <1>1, <2>1, <2>2 DEF RecFetch, RecFetchNothing
  <2>3. CASE RecPrune
    BY <1>1, <2>3 DEF RecPrune, procVars
  <2> QED
    BY <1>8, <1>9, <2>2, <2>3 DEF RecStep, RecStart, RecFetchFails, RecList, RecPruned
<1>10. CASE Stop
  <2>1. /\ pc' = [p \in Proc |-> IF p \in Daemon THEN "idle" ELSE pc[p]]
        /\ req' = [p \in Proc |-> IF p \in Daemon THEN NoRequest ELSE req[p]]
        /\ mine' = [p \in Proc |-> IF p \in Daemon THEN NoRef ELSE mine[p]]
    BY <1>10 DEF Stop
  <2>2. "reconciler" \in Daemon /\ "reconciler" \in Proc
    BY DEF Proc, Daemon
  <2>3. ASSUME NEW p \in Proc, Under(p)', Creating(p)' PROVE (mine[p] \in Uuid)'
    BY <2>1, <2>3
  <2> QED
    BY <1>2, <2>1, <2>2, <2>3
<1>11. ASSUME NEW p \in Proc, Find(p) \/ AddRefused(p) \/ RemoveRefused(p) \/ Reply(p)
       PROVE  MineTyped'
  <2>1. CASE Done(p)
    BY <1>3, <2>1
  <2>2. CASE Goto(p, "change") /\ UNCHANGED <<mem, req, mine>>
    BY <2>2 DEF Goto, TypeOK, ProcTypes
  <2> QED
    BY <1>11, <2>1, <2>2 DEF Find, AddRefused, RemoveRefused, Reply
<1>12. ASSUME NEW p \in Thread \cup {"cli"}, Handle(p) PROVE MineTyped'
  BY <1>5, <1>6, <1>7, <1>11, <1>12 DEF Handle
<1>13. ASSUME NEW t \in Thread, NEW x, ApiCall(t, x) \/ PortalVisit(t, x) \/ WebhookCall(t, x)
       PROVE  MineTyped'
  BY <1>4, <1>5, <1>13 DEF ApiCall, PortalVisit, WebhookCall
<1>14. ASSUME NEW r, CliStart(r) PROVE MineTyped'
  BY <1>4, <1>5, <1>14 DEF CliStart
<1>15. CASE UNCHANGED vars
  BY <1>1, <1>15 DEF vars, procVars
<1>16. CASE PollStats \/ Start \/ \E e \in Email : Deactivate(e) \/ Reactivate(e) \/ LoseWebhook(e)
  BY <1>1, <1>16 DEF PollStats, Start, Deactivate, Reactivate, LoseWebhook, procVars
<1>17. "reconciler" \in Proc
  BY DEF Proc, Daemon
<1> HIDE DEF MineTyped, Under, Creating
<1> QED
  BY <1>7, <1>9, <1>10, <1>11, <1>12, <1>13, <1>14, <1>15, <1>16, <1>17 DEF Next

\* What no flush and no crash may lose: a created user is in both lists, or was
\* removed; a removed one is in neither, and no later user gets its id.
List == mem["daemon"]
Kept(i) == i \in removed \/ (i \in Ids(disk) /\ i \in Ids(List))
Past(i) == i \notin Ids(disk) /\ i \notin Ids(List) /\ i < nextId
DistinctIn(S) == \A u, v \in S : u.id = v.id => u = v
ListInv ==
  /\ \A u \in List \cup disk : u.id < nextId
  /\ DistinctIn(List) /\ DistinctIn(disk)
Persists == \A i \in Uuid : (Kept(i) => Kept(i)') /\ (Past(i) => Past(i)')

\* Nothing is lost while both lists stay.
LEMMA StoreUnchanged ==
  ASSUME ListInv, List' = List, disk' = disk, nextId' = nextId, removed' = removed
  PROVE  ListInv' /\ Persists
BY DEF ListInv, Persists, Kept, Past, DistinctIn

\* A new user gets a fresh id, so adding it loses nothing; flushed, it is kept.
LEMMA ListGrows ==
  ASSUME TypeOK, ListInv, NEW u, u.id = nextId, List' = List \cup {u},
         disk' = disk \/ disk' = List', nextId' = nextId + 1, removed' = removed
  PROVE  /\ ListInv' /\ Persists
         /\ disk' = List' => Kept(u.id)'
<1>1. nextId \in Int /\ \A i \in Uuid : i \in Int
  BY NodeAssumption DEF TypeOK, StoreTypes, Uuid
<1>2. \A v \in List \cup disk : v.id \in Int /\ v.id < nextId
  BY <1>1 DEF TypeOK, StoreTypes, ListInv, List, User
<1>3. DistinctIn(List')
  BY <1>1, <1>2 DEF ListInv, DistinctIn
<1>4. DistinctIn(disk')
  BY <1>3 DEF ListInv, DistinctIn
<1>5. \A v \in List' \cup disk' : v.id < nextId'
  BY <1>1, <1>2
<1>6. ListInv'
  BY <1>3, <1>4, <1>5 DEF ListInv, DistinctIn
<1>7. ASSUME NEW i \in Uuid, Kept(i) PROVE Kept(i)'
  BY <1>7 DEF Kept, Ids
<1>8. ASSUME NEW i \in Uuid, Past(i) PROVE Past(i)'
  BY <1>1, <1>8 DEF Past, Ids
<1>9. disk' = List' => Kept(u.id)'
  BY DEF Kept, Ids
<1> QED
  BY <1>6, <1>7, <1>8, <1>9 DEF Persists

\* Removing users loses only them; flushed, they are past.
LEMMA ListShrinks ==
  ASSUME TypeOK, ListInv, NEW S, S \subseteq List, List' = List \ S,
         disk' = disk \/ disk' = List', nextId' = nextId,
         removed' = removed \cup Ids(S)
  PROVE  /\ ListInv' /\ Persists
         /\ disk' = List' => \A i \in Ids(S) : Past(i)'
<1>1. ListInv'
  BY DEF ListInv, DistinctIn
<1>2. ASSUME NEW i \in Uuid, Kept(i) PROVE Kept(i)'
  BY <1>2 DEF Kept, Ids
<1>3. ASSUME NEW i \in Uuid, Past(i) PROVE Past(i)'
  BY <1>3 DEF Past, Ids
<1>4. ASSUME disk' = List', NEW i \in Ids(S) PROVE Past(i)'
  <2>1. PICK u \in S : u.id = i
    BY DEF Ids
  <2>2. i \notin Ids(List')
    BY <2>1 DEF Ids, ListInv, DistinctIn
  <2>3. i < nextId
    BY <2>1 DEF ListInv
  <2> QED
    BY <1>4, <2>2, <2>3 DEF Past
<1> QED
  BY <1>1, <1>2, <1>3, <1>4 DEF Persists

\* A flush of the list in memory loses nothing.
LEMMA StoreFlushed ==
  ASSUME ListInv, List' = List, disk' = List, nextId' = nextId, removed' = removed
  PROVE  ListInv' /\ Persists
BY DEF ListInv, Persists, Kept, Past, DistinctIn, Ids

\* A restart, which loads the state file, loses nothing.
LEMMA StoreLoaded ==
  ASSUME ListInv, List' = disk, disk' = disk, nextId' = nextId, removed' = removed
  PROVE  ListInv' /\ Persists
BY DEF ListInv, Persists, Kept, Past, DistinctIn, Ids

\* What a request under way found: a created user is kept, a removed one past.
Settled(p) ==
  Under(p) => IF Creating(p) THEN Kept(mine[p])
              ELSE mine[p] = NoRef \/ Past(mine[p])
\* The answers given, and those about to be given, are kept.
Answered ==
  /\ \A i \in acked : Kept(i)
  /\ \A i \in gone : Past(i)
  /\ \A p \in Proc : Settled(p)
\* Without a command, only the daemon touches the list and the file.
SurviveInv ==
  /\ ListInv /\ Answered
  /\ pc["cli"] = "idle" /\ mine["reconciler"] = NoRef

\* A step that disturbs nobody's answer, and answers only what is so, keeps them all.
LEMMA AnsweredNext ==
  ASSUME TypeOK, MineTyped, Answered, Persists,
         \A i \in acked' : i \in acked \/ Kept(i)',
         \A i \in gone' : i \in gone \/ Past(i)',
         \A p \in Proc : \/ Settled(p)'
                         \/ Under(p) /\ mine'[p] = mine[p] /\ req'[p] = req[p]
  PROVE  Answered'
<1>1. acked \subseteq Uuid /\ gone \subseteq Uuid /\ \A p \in Proc : mine[p] \in Uuid \cup {NoRef}
  BY DEF TypeOK, StoreTypes, ProcTypes
<1>2. \A i \in acked' : Kept(i)'
  BY <1>1 DEF Answered, Persists
<1>3. \A i \in gone' : Past(i)'
  BY <1>1 DEF Answered, Persists
<1>4. ASSUME NEW p \in Proc, Under(p), mine'[p] = mine[p], req'[p] = req[p]
      PROVE  Settled(p)'
  <2>1. CASE Creating(p)
    <3>1. mine[p] \in Uuid /\ Kept(mine[p])
      BY <1>4, <2>1 DEF Answered, Settled, MineTyped
    <3>2. PICK i \in Uuid : i = mine[p]
      BY <3>1
    <3>3. Kept(i)'
      BY <3>1, <3>2 DEF Persists
    <3>4. Creating(p)' /\ mine'[p] = i
      BY <1>4, <2>1, <3>2 DEF Creating
    <3> QED
      BY <3>3, <3>4 DEF Settled, Kept
  <2>2. CASE ~Creating(p)
    <3>1. PICK i \in Uuid \cup {NoRef} : i = mine[p]
      BY <1>1
    <3>2. i = NoRef \/ Past(i)
      BY <1>4, <2>2, <3>1 DEF Answered, Settled
    <3>3. i = NoRef \/ Past(i)'
      BY <3>1, <3>2 DEF Persists
    <3>4. ~Creating(p)' /\ mine'[p] = i
      BY <1>4, <2>2, <3>1 DEF Creating
    <3> QED
      BY <3>3, <3>4 DEF Settled, Past
  <2> QED
    BY <2>1, <2>2
<1> QED
  BY <1>2, <1>3, <1>4 DEF Answered

\* A step that leaves the store and the answers alone.
LEMMA QuietNext ==
  ASSUME TypeOK, MineTyped, SurviveInv,
         List' = List, UNCHANGED <<disk, nextId, removed, acked, gone>>,
         \A p \in Proc : \/ ~Under(p)'
                         \/ mine'[p] = NoRef /\ ~Creating(p)'
                         \/ Under(p) /\ mine'[p] = mine[p] /\ req'[p] = req[p]
  PROVE  ListInv' /\ Answered'
<1>1. ListInv' /\ Persists
  BY StoreUnchanged DEF SurviveInv
<1>2. \A p \in Proc : \/ Settled(p)'
                      \/ Under(p) /\ mine'[p] = mine[p] /\ req'[p] = req[p]
  BY DEF Settled
<1>3. Answered'
  BY <1>1, <1>2, AnsweredNext DEF SurviveInv
<1> QED
  BY <1>1, <1>3

\* Every step of the daemon keeps the invariant while nobody runs a command.
LEMMA SurviveNext ==
  ASSUME CliRequests = {}, TypeOK, MineTyped, SurviveInv, [Next]_vars
  PROVE  SurviveInv'
<1>1. Thread \subseteq Proc /\ "cli" \notin Thread /\ "reconciler" \notin Thread
  BY NodeAssumption DEF Proc, Daemon
<1>2. /\ pc \in [Proc -> Where] /\ req \in [Proc -> Request]
      /\ mine \in [Proc -> Uuid \cup {NoRef}]
      /\ "cli" \in Proc /\ "reconciler" \in Proc
      /\ mem \in [{"daemon", "cli"} -> SUBSET User]
  BY DEF TypeOK, ProcTypes, StoreTypes, Proc, Daemon
<1>3. NoRequest.kind \notin {"create", "portal"}
  BY DEF NoRequest
<1>4. ASSUME UNCHANGED <<mem, disk, nextId, pc, req, mine, acked, removed, gone>>
      PROVE  SurviveInv'
  <2>1. ListInv' /\ Answered'
    BY <1>4, QuietNext DEF List, Under, Creating
  <2> QED
    BY <1>4, <2>1 DEF SurviveInv
<1>5. ASSUME NEW t \in Thread, NEW x,
             ApiCall(t, x) \/ PortalVisit(t, x) \/ WebhookCall(t, x)
      PROVE  SurviveInv'
  <2>1. PICK r : Accept(t, r) /\ mem' = mem
    BY <1>5 DEF ApiCall, PortalVisit, WebhookCall
  <2>2. /\ UNCHANGED <<disk, nextId, mine, acked, removed, gone>>
        /\ \E w \in {"find", "change"} : pc' = [pc EXCEPT ![t] = w]
        /\ req' = [req EXCEPT ![t] = r]
    BY <2>1 DEF Accept, Goto, histVars
  <2>3. \A p \in Proc : \/ ~Under(p)'
                        \/ Under(p) /\ mine'[p] = mine[p] /\ req'[p] = req[p]
    BY <1>1, <1>2, <2>2 DEF Under
  <2>4. ListInv' /\ Answered'
    BY <2>1, <2>2, <2>3, QuietNext DEF List
  <2> QED
    BY <1>1, <1>2, <2>2, <2>4 DEF SurviveInv
<1>6. ASSUME NEW t \in Thread, Done(t), UNCHANGED <<disk, nextId, removed>>,
             \A i \in acked' : i \in acked \/ Kept(i)',
             \A i \in gone' : i \in gone \/ Past(i)'
      PROVE  SurviveInv'
  <2>1. mem' = mem /\ pc' = [pc EXCEPT ![t] = "idle"]
        /\ req' = [req EXCEPT ![t] = NoRequest]
        /\ mine' = [mine EXCEPT ![t] = NoRef]
    BY <1>1, <1>6 DEF Done, Goto
  <2>2. \A p \in Proc : \/ ~Under(p)'
                        \/ Under(p) /\ mine'[p] = mine[p] /\ req'[p] = req[p]
    BY <1>1, <1>2, <2>1 DEF Under
  <2>3. \A p \in Proc : \/ Settled(p)'
                        \/ Under(p) /\ mine'[p] = mine[p] /\ req'[p] = req[p]
    BY <2>2 DEF Settled
  <2>4. ListInv' /\ Persists
    BY <1>6, <2>1, StoreUnchanged DEF SurviveInv, List
  <2>5. Answered'
    BY <1>6, <2>3, <2>4, AnsweredNext DEF SurviveInv
  <2> QED
    BY <1>1, <1>2, <2>1, <2>4, <2>5 DEF SurviveInv
<1>7. ASSUME NEW t \in Thread, Find(t) \/ AddRefused(t) \/ RemoveRefused(t)
      PROVE  SurviveInv'
  <2>1. UNCHANGED <<disk, nextId, acked, removed, gone>>
    BY <1>7 DEF Find, AddRefused, RemoveRefused, histVars
  <2>2. CASE Done(t)
    BY <1>6, <2>1, <2>2
  <2>3. CASE Goto(t, "change") /\ UNCHANGED <<mem, req, mine>>
    <3>1. pc' = [pc EXCEPT ![t] = "change"]
      BY <2>3 DEF Goto
    <3>2. \A p \in Proc : \/ ~Under(p)'
                          \/ Under(p) /\ mine'[p] = mine[p] /\ req'[p] = req[p]
      BY <1>1, <1>2, <2>3, <3>1 DEF Under
    <3>3. ListInv' /\ Answered'
      BY <2>1, <2>3, <3>2, QuietNext DEF List
    <3> QED
      BY <1>1, <1>2, <2>3, <3>1, <3>3 DEF SurviveInv
  <2> QED
    BY <1>7, <2>2, <2>3 DEF Find, AddRefused, RemoveRefused
<1>8. ASSUME NEW t \in Thread, AddUser(t) PROVE SurviveInv'
  <2>0. PICK u : u = NewUser(req[t])
    OBVIOUS
  <2>1. u.id = nextId /\ Home(t) = "daemon"
    BY <1>1, <2>0 DEF NewUser, Home
  <2>2. PICK ok \in FlushOutcome :
          /\ disk' = IF ok THEN mem'[Home(t)] ELSE disk
          /\ After(t, ok, nextId)
    BY <1>8 DEF AddUser
  <2>3. /\ mem' = [mem EXCEPT !["daemon"] = mem["daemon"] \cup {u}]
        /\ nextId' = nextId + 1 /\ req[t].kind \in {"create", "portal"}
        /\ UNCHANGED <<acked, removed, gone>>
    BY <1>8, <2>0, <2>1 DEF AddUser, histVars
  <2>4. List' = List \cup {u}
    BY <1>2, <2>3 DEF List
  <2>5. disk' = disk \/ disk' = List'
    BY <2>1, <2>2 DEF List
  <2>6. /\ ListInv' /\ Persists
        /\ disk' = List' => Kept(u.id)'
    BY <2>1, <2>3, <2>4, <2>5, ListGrows DEF SurviveInv
  <2>7. ASSUME NEW p \in Proc
        PROVE  \/ Settled(p)'
               \/ Under(p) /\ mine'[p] = mine[p] /\ req'[p] = req[p]
    <3>1. CASE p # t
      BY <1>2, <2>2, <3>1 DEF After, Goto, Settled, Under
    <3>2. CASE p = t /\ ~ok
      BY <1>1, <1>2, <2>2, <3>2 DEF After, Goto, Succeeded, Settled, Under
    <3>3. CASE p = t /\ ok
      <4>1. mine'[p] = u.id /\ Kept(u.id)'
        BY <1>1, <1>2, <2>1, <2>2, <2>6, <3>3 DEF After, Succeeded, List
      <4>2. Creating(p)'
        BY <1>1, <1>2, <2>2, <2>3, <3>3 DEF After, Succeeded, Creating
      <4> QED
        BY <4>1, <4>2 DEF Settled, Kept
    <3> QED
      BY <3>1, <3>2, <3>3
  <2>8. Answered'
    BY <2>3, <2>6, <2>7, AnsweredNext DEF SurviveInv
  <2> QED
    BY <1>1, <1>2, <2>2, <2>6, <2>8 DEF SurviveInv, After, Goto
<1>9. ASSUME NEW t \in Thread, RemoveUser(t) PROVE SurviveInv'
  <2>1. Home(t) = "daemon" /\ List \subseteq User
    BY <1>1, <1>2 DEF Home, List
  <2>2. PICK u \in FindUser(mem["daemon"], req[t].ref), ok \in FlushOutcome :
          /\ mem' = [mem EXCEPT !["daemon"] = @ \ {u}]
          /\ removed' = removed \cup {u.id}
          /\ disk' = IF ok THEN mem'["daemon"] ELSE disk
          /\ After(t, ok, u.id)
    BY <1>9, <2>1 DEF RemoveUser
  <2>3. u \in List
    BY <2>1, FoundIsThere DEF List
  <2>4. /\ nextId' = nextId /\ req[t].kind \in {"delete", "revoke"}
        /\ UNCHANGED <<acked, gone>>
    BY <1>9 DEF RemoveUser
  <2>5. List' = List \ {u} /\ Ids({u}) = {u.id}
    BY <1>2, <2>2 DEF List, Ids
  <2>6. disk' = disk \/ disk' = List'
    BY <2>2 DEF List
  <2>7. /\ ListInv' /\ Persists
        /\ disk' = List' => \A i \in Ids({u}) : Past(i)'
    BY <2>2, <2>3, <2>4, <2>5, <2>6, ListShrinks DEF SurviveInv
  <2>8. ASSUME NEW p \in Proc
        PROVE  \/ Settled(p)'
               \/ Under(p) /\ mine'[p] = mine[p] /\ req'[p] = req[p]
    <3>1. CASE p # t
      BY <1>2, <2>2, <3>1 DEF After, Goto, Settled, Under
    <3>2. CASE p = t /\ ~ok
      BY <1>1, <1>2, <2>2, <3>2 DEF After, Goto, Succeeded, Settled, Under
    <3>3. CASE p = t /\ ok
      <4>1. mine'[p] = u.id /\ Past(u.id)'
        BY <1>1, <1>2, <2>2, <2>5, <2>7, <3>3 DEF After, Succeeded, List
      <4>2. ~Creating(p)'
        BY <1>1, <1>2, <2>2, <2>4, <3>3 DEF After, Succeeded, Creating
      <4> QED
        BY <4>1, <4>2 DEF Settled, Past
    <3> QED
      BY <3>1, <3>2, <3>3
  <2>9. Answered'
    BY <2>4, <2>7, <2>8, AnsweredNext DEF SurviveInv
  <2> QED
    BY <1>1, <1>2, <2>2, <2>7, <2>9 DEF SurviveInv, After, Goto
<1>10. CASE PollStats
  <2>1. /\ List' = List /\ disk' = List /\ nextId' = nextId /\ removed' = removed
        /\ UNCHANGED <<pc, req, mine, acked, gone>>
    BY <1>10 DEF PollStats, List, procVars, histVars
  <2>2. ListInv' /\ Persists
    BY <2>1, StoreFlushed DEF SurviveInv
  <2>3. \A p \in Proc : \/ Settled(p)'
                        \/ Under(p) /\ mine'[p] = mine[p] /\ req'[p] = req[p]
    BY <2>1 DEF Settled, Under
  <2>4. Answered'
    BY <2>1, <2>2, <2>3, AnsweredNext DEF SurviveInv
  <2> QED
    BY <2>1, <2>2, <2>4 DEF SurviveInv
<1>11. CASE Start
  <2>1. /\ List' = disk /\ disk' = disk /\ nextId' = nextId /\ removed' = removed
        /\ UNCHANGED <<pc, req, mine, acked, gone>>
    BY <1>2, <1>11 DEF Start, List, procVars, histVars
  <2>2. ListInv' /\ Persists
    BY <2>1, StoreLoaded DEF SurviveInv
  <2>3. \A p \in Proc : \/ Settled(p)'
                        \/ Under(p) /\ mine'[p] = mine[p] /\ req'[p] = req[p]
    BY <2>1 DEF Settled, Under
  <2>4. Answered'
    BY <2>1, <2>2, <2>3, AnsweredNext DEF SurviveInv
  <2> QED
    BY <2>1, <2>2, <2>4 DEF SurviveInv
<1>12. CASE Stop
  <2>1. /\ UNCHANGED <<mem, disk, nextId, acked, removed, gone>>
        /\ pc' = [p \in Proc |-> IF p \in Daemon THEN "idle" ELSE pc[p]]
        /\ req' = [p \in Proc |-> IF p \in Daemon THEN NoRequest ELSE req[p]]
        /\ mine' = [p \in Proc |-> IF p \in Daemon THEN NoRef ELSE mine[p]]
    BY <1>12 DEF Stop, storeVars, histVars
  <2>2. \A p \in Proc : \/ ~Under(p)'
                        \/ Under(p) /\ mine'[p] = mine[p] /\ req'[p] = req[p]
    BY <2>1 DEF Under
  <2>3. ListInv' /\ Answered'
    BY <2>1, <2>2, QuietNext DEF List
  <2>4. pc'["cli"] = "idle" /\ mine'["reconciler"] = NoRef
    BY <1>2, <2>1 DEF SurviveInv
  <2> QED
    BY <2>3, <2>4 DEF SurviveInv
<1>13. ASSUME NEW p \in Proc \ {"cli"}, ApplyStep(p) PROVE SurviveInv'
  <2>1. /\ UNCHANGED <<mem, disk, nextId, req, mine, acked, removed, gone>>
        /\ Under(p) /\ \E w : pc' = [pc EXCEPT ![p] = w]
    BY <1>13
       DEF ApplyStep, TakeSnapshot, OpenFile, WriteFile, Reload, Goto, Under,
           storeVars, histVars
  <2>2. \A q \in Proc : \/ ~Under(q)'
                        \/ Under(q) /\ mine'[q] = mine[q] /\ req'[q] = req[q]
    BY <1>2, <2>1 DEF Under
  <2>3. ListInv' /\ Answered'
    BY <2>1, <2>2, QuietNext DEF List
  <2> QED
    BY <1>2, <1>13, <2>1, <2>3 DEF SurviveInv
<1>14. ASSUME NEW t \in Thread, Reply(t) PROVE SurviveInv'
  <2>1. /\ Done(t) /\ UNCHANGED <<disk, nextId, removed>> /\ Under(t)
    BY <1>14 DEF Reply, Under
  <2>2. mem' = mem
    BY <1>1, <2>1 DEF Done
  <2>3. PICK i \in Uuid \cup {NoRef} : i = mine[t]
    BY <1>1, <1>2
  <2>4. Persists
    BY <2>1, <2>2, StoreUnchanged DEF SurviveInv, List
  <2>5. Settled(t)
    BY <1>1 DEF SurviveInv, Answered
  <2>6. CASE Creating(t)
    <3>1. i \in Uuid /\ Kept(i)
      BY <1>1, <2>1, <2>3, <2>5, <2>6 DEF MineTyped, Settled
    <3>2. Kept(i)'
      BY <2>4, <3>1 DEF Persists
    <3>3. acked' = acked \cup {i} /\ gone' = gone
      BY <1>14, <2>3, <2>6 DEF Reply, Creating
    <3>4. \A k \in acked' : k \in acked \/ Kept(k)'
      BY <3>2, <3>3
    <3> QED
      BY <1>6, <2>1, <3>3, <3>4
  <2>7. CASE ~Creating(t)
    <3>1. i = NoRef \/ Past(i)
      BY <2>1, <2>3, <2>5, <2>7 DEF Settled
    <3>2. i = NoRef \/ Past(i)'
      BY <2>3, <2>4, <3>1 DEF Persists
    <3>3. acked' = acked /\ gone' = gone \cup ({i} \ {NoRef})
      BY <1>14, <2>3, <2>7 DEF Reply, Creating
    <3>4. \A k \in gone' : k \in gone \/ Past(k)'
      BY <3>2, <3>3
    <3> QED
      BY <1>6, <2>1, <3>3, <3>4
  <2> QED
    BY <2>6, <2>7
<1>15. ASSUME NEW w, pc' = [pc EXCEPT !["reconciler"] = w],
              UNCHANGED <<mem, disk, nextId, req, mine, acked, removed, gone>>
       PROVE  SurviveInv'
  <2>1. \A p \in Proc : \/ mine'[p] = NoRef /\ ~Creating(p)'
                        \/ ~Under(p)'
                        \/ Under(p) /\ mine'[p] = mine[p] /\ req'[p] = req[p]
    BY <1>2, <1>15 DEF Under, Creating, SurviveInv, MineTyped
  <2>2. ListInv' /\ Answered'
    BY <1>15, <2>1, QuietNext DEF List
  <2> QED
    BY <1>2, <1>15, <2>2 DEF SurviveInv
<1>16. ASSUME NEW set, Fetched(set),
              UNCHANGED <<mem, disk, nextId, req, mine, acked, removed, gone>>
       PROVE  SurviveInv'
  BY <1>15, <1>16 DEF Fetched, Goto
<1>17. CASE RecPrune
  <2> DEFINE hit == FindUser(mem["daemon"], First(rec.todo).email)
  <2>1. hit \subseteq List
    BY <1>2, FoundIsThere DEF List
  <2>2. PICK ok \in FlushOutcome :
          /\ mem' = [mem EXCEPT !["daemon"] = @ \ hit]
          /\ disk' = IF ok /\ hit # {} THEN mem'["daemon"] ELSE disk
          /\ removed' = removed \cup Ids(hit)
          /\ gone' = IF ok THEN gone \cup Ids(hit) ELSE gone
    BY <1>17 DEF RecPrune
  <2>3. UNCHANGED <<nextId, pc, req, mine, acked>>
    BY <1>17 DEF RecPrune, procVars
  <2> HIDE DEF hit
  <2>4. List' = List \ hit
    BY <1>2, <2>2 DEF List
  <2>5. disk' = disk \/ disk' = List'
    BY <2>2 DEF List
  <2>6. /\ ListInv' /\ Persists
        /\ disk' = List' => \A i \in Ids(hit) : Past(i)'
    BY <2>1, <2>2, <2>3, <2>4, <2>5, ListShrinks DEF SurviveInv
  <2>7. ASSUME NEW i \in gone' PROVE i \in gone \/ Past(i)'
    <3>1. CASE ok /\ hit # {}
      BY <2>2, <2>6, <2>7, <3>1 DEF List
    <3>2. CASE ~(ok /\ hit # {})
      BY <2>2, <2>7, <3>2 DEF Ids
    <3> QED
      BY <3>1, <3>2
  <2>8. \A p \in Proc : \/ Settled(p)'
                        \/ Under(p) /\ mine'[p] = mine[p] /\ req'[p] = req[p]
    BY <2>3 DEF Settled, Under
  <2>9. Answered'
    BY <2>3, <2>6, <2>7, <2>8, AnsweredNext DEF SurviveInv
  <2> QED
    BY <2>3, <2>6, <2>9 DEF SurviveInv
<1>18. CASE RecStep
  <2>1. CASE RecStart \/ RecFetchFails \/ RecList \/ RecPruned
    BY <1>15, <2>1
       DEF RecStart, RecFetchFails, RecList, RecPruned, Goto, storeVars, histVars
  <2>2. CASE RecFetch \/ RecFetchNothing
    <3>1. UNCHANGED <<mem, disk, nextId, req, mine, acked, removed, gone>>
      BY <2>2 DEF RecFetch, RecFetchNothing, storeVars, histVars
    <3>2. pc' = pc \/ \E set : Fetched(set)
      BY <2>2 DEF RecFetch, RecFetchNothing
    <3> QED
      BY <1>4, <1>16, <3>1, <3>2
  <2> QED
    BY <1>17, <1>18, <2>1, <2>2 DEF RecStep
<1>19. CASE Reply("reconciler")
  <2>1. /\ mem' = mem /\ UNCHANGED <<disk, nextId, removed>>
        /\ pc' = [pc EXCEPT !["reconciler"] = "idle"]
        /\ req' = [req EXCEPT !["reconciler"] = NoRequest]
        /\ mine' = [mine EXCEPT !["reconciler"] = NoRef]
    BY <1>19 DEF Reply, Done, Goto
  <2>2. acked' = acked /\ gone' = gone
    BY <1>19 DEF Reply, SurviveInv, MineTyped, Creating
  <2>3. \A p \in Proc : \/ ~Under(p)'
                        \/ Under(p) /\ mine'[p] = mine[p] /\ req'[p] = req[p]
    BY <1>2, <2>1 DEF Under
  <2>4. ListInv' /\ Answered'
    BY <2>1, <2>2, <2>3, QuietNext DEF List
  <2> QED
    BY <1>2, <2>1, <2>4 DEF SurviveInv
<1>20. ASSUME NEW e, Deactivate(e) \/ Reactivate(e) \/ LoseWebhook(e)
       PROVE  SurviveInv'
  BY <1>4, <1>20 DEF Deactivate, Reactivate, LoseWebhook, storeVars, procVars, histVars
<1>21. CASE UNCHANGED vars
  BY <1>4, <1>21 DEF vars, storeVars, procVars, histVars
<1>22. ASSUME NEW t \in Thread, Handle(t) PROVE SurviveInv'
  BY <1>1, <1>7, <1>8, <1>9, <1>13, <1>14, <1>22 DEF Handle
<1>23. ~Handle("cli")
  BY DEF Handle, Find, AddRefused, AddUser, RemoveRefused, RemoveUser, ApplyStep,
         TakeSnapshot, OpenFile, WriteFile, Reload, Reply, SurviveInv
<1> QED
  BY <1>2, <1>5, <1>10, <1>11, <1>12, <1>13, <1>18, <1>19, <1>20, <1>21, <1>22,
     <1>23 DEF Next

\* The invariants hold at the start.
LEMMA SurviveInit == Init => MineTyped /\ SurviveInv
<1> SUFFICES ASSUME Init PROVE MineTyped /\ SurviveInv
  OBVIOUS
<1>1. "cli" \in Proc /\ "reconciler" \in Proc
  BY DEF Proc, Daemon
<1>2. MineTyped /\ \A p \in Proc : Settled(p)
  BY <1>1 DEF Init, MineTyped, Under, Settled, Creating, NoRequest
<1>3. ListInv
  BY DEF Init, ListInv, List, DistinctIn
<1>4. acked = {} /\ gone = {} /\ pc["cli"] = "idle" /\ mine["reconciler"] = NoRef
  BY <1>1 DEF Init
<1> QED
  BY <1>2, <1>3, <1>4 DEF SurviveInv, Answered

\* Every state of the daemon, the command line and the reconciler is
\* well typed, whatever the number of handlers, people, users and requests.
THEOREM TypeCorrect == Spec => []TypeOK
<1>1. Init => TypeOK /\ MineTyped
  BY TypeInit, SurviveInit
<1>2. TypeOK /\ MineTyped /\ [Next]_vars => (TypeOK /\ MineTyped)'
  BY TypeNext, MineNext
<1> QED
  BY <1>1, <1>2, PTL DEF Spec

\* A user whose creation was answered with success is on disk until it is
\* removed, and one whose removal was answered never comes back, across every
\* crash and restart, as long as no command writes the state file next to the
\* daemon (Store.flush and Store.load, internal/store/store.go).
THEOREM AcknowledgedSurvivesCorrect ==
  ASSUME CliRequests = {}
  PROVE  Spec => []AcknowledgedSurvives
<1>1. Init => TypeOK /\ MineTyped /\ SurviveInv
  BY TypeInit, SurviveInit
<1>2. TypeOK /\ MineTyped /\ SurviveInv /\ [Next]_vars
        => (TypeOK /\ MineTyped /\ SurviveInv)'
  BY TypeNext, MineNext, SurviveNext
<1>3. SurviveInv => AcknowledgedSurvives
  BY DEF SurviveInv, Answered, Kept, Past, AcknowledgedSurvives
<1> QED
  BY <1>1, <1>2, <1>3, PTL DEF Spec

-----------------------------------------------------------------------------
(***************************************************************************)
(* The reconcile run.  It removes by e-mail whom the active set it fetched *)
(* lacks; between fetching, listing and removing, people come and go and   *)
(* so do users.                                                            *)
(***************************************************************************)

\* A user of the portal has no external id, so that only its own e-mail finds it.
PlainUser(u) == u.src = "authentik" => u.ext = NoRef
PlainRequest(r) == r.kind = "portal" => r.ext = NoRef
PlainUsers(S) == \A u \in S : PlainUser(u)

\* All active people fit on one page.
OnePage == NumEmails <= PageSize

\* Nobody active since the run began is missing from what was fetched, nor on
\* the list of those to remove.
SteadyInv ==
  /\ rec.steady \subseteq active
  /\ pc["reconciler"] = "fetch" => rec.page = 1 /\ rec.set = {}
  /\ pc["reconciler"] = "list" => rec.steady \subseteq rec.set
  /\ \A u \in rec.todo : u.email \in Email /\ u.email \notin rec.steady

\* So are the users there are, and those that requests will make.
PlainInv ==
  /\ PlainUsers(mem["daemon"]) /\ PlainUsers(mem["cli"]) /\ PlainUsers(disk)
  /\ \A p \in Proc : PlainRequest(req[p])

\* The first page is everybody who is active, and there is no second.
LEMMA FirstPageIsAll ==
  ASSUME OnePage, active \subseteq Email
  PROVE  PageOf(1) = active /\ ~MorePages(1)
<1>1. NumEmails \in Nat /\ PageSize \in Nat
  BY NodeAssumption
<1>2. IsFiniteSet(Email) /\ Cardinality(Email) = NumEmails
  BY <1>1, FS_Interval DEF Email
<1>3. ASSUME NEW S, S \subseteq active
      PROVE  IsFiniteSet(S) /\ Cardinality(S) \in Nat /\ Cardinality(S) <= PageSize
  <2>1. IsFiniteSet(S) /\ Cardinality(S) \in Nat /\ Cardinality(S) <= Cardinality(Email)
    BY <1>2, <1>3, FS_Subset, FS_CardinalityType
  <2> QED
    BY <1>1, <1>2, <2>1 DEF OnePage
<1>4. ASSUME NEW e \in active
      PROVE  e \in PageOf(1)
  <2> DEFINE S == {f \in active : f <= e}
  <2>1. e \in S
    BY <1>1 DEF Email
  <2>2. IsFiniteSet(S) /\ Cardinality(S) \in Nat /\ Cardinality(S) <= PageSize
    BY <1>3
  <2>3. Cardinality(S) # 0
    BY <2>1, <2>2, FS_EmptySet
  <2>4. Rank(e) = Cardinality(S)
    BY DEF Rank
  <2> HIDE DEF S
  <2>5. Rank(e) \in (1 - 1) * PageSize + 1 .. 1 * PageSize
    BY <1>1, <2>2, <2>3, <2>4
  <2> QED
    BY <2>5 DEF PageOf
<1>5. PageOf(1) = active
  BY <1>4 DEF PageOf
<1>6. Cardinality(active) <= PageSize /\ Cardinality(active) \in Nat
  BY <1>3
<1>7. ~MorePages(1)
  BY <1>1, <1>6 DEF MorePages
<1> QED
  BY <1>5, <1>7

\* A user of the portal that RemoveUser finds by an e-mail has that e-mail; others
\* may have it for an external id.
LEMMA FoundByEmail ==
  ASSUME NEW S, S \subseteq User, PlainUsers(S), NEW e \in Email,
         NEW u \in FindUser(S, e)
  PROVE  u \in S /\ (u.src = "authentik" => u.email = e)
<1>1. \A v \in S : v.id \in Nat
  BY NodeAssumption DEF User, Uuid
<1> DEFINE M == Matching(S, e)
<1>2. M \subseteq S /\ M # {} /\ u = First(M) /\ \A v \in M : e \in {v.id, v.email, v.ext}
  BY DEF FindUser, Matching, MatchRef
<1> HIDE DEF M
<1>3. First(M) \in M
  BY <1>1, <1>2, FirstIsThere
<1>4. u \in S /\ u \in User /\ e \in {u.id, u.email, u.ext}
  BY <1>2, <1>3
<1>5. u.id # e
  <2>1. u.id \in Uuid
    BY <1>4 DEF User
  <2> QED
    BY <2>1, NodeAssumption DEF Uuid, Email
<1>6. u.src = "authentik" => u.ext # e
  BY <1>4 DEF PlainUsers, PlainUser, NoRef, Email
<1> QED
  BY <1>4, <1>5, <1>6

\* Who of the portal leaves the list in a removal of the run has not been active since
\* it began.
LEMMA PruneSpares ==
  ASSUME TypeOK, SteadyInv, PlainInv, RecPrune
  PROVE  \A u \in mem["daemon"] \ mem'["daemon"] :
           u.src = "authentik" => u.email \notin rec.steady
<1>1. mem \in [{"daemon", "cli"} -> SUBSET User] /\ rec.todo \subseteq User
  BY DEF TypeOK, StoreTypes, ProcTypes
<1>2. PICK w : w = First(rec.todo)
  OBVIOUS
<1>3. w \in rec.todo
  <2>1. \A v \in rec.todo : v.id \in Nat
    BY <1>1, NodeAssumption DEF User, Uuid
  <2>2. rec.todo # {}
    BY DEF RecPrune
  <2> QED
    BY <1>2, <2>1, <2>2, FirstIsThere
<1>4. w.email \in Email /\ w.email \notin rec.steady
  BY <1>3 DEF SteadyInv
<1>5. mem' = [mem EXCEPT !["daemon"] = @ \ FindUser(mem["daemon"], w.email)]
  BY <1>2 DEF RecPrune
<1>6. mem'["daemon"] = mem["daemon"] \ FindUser(mem["daemon"], w.email)
  BY <1>1, <1>5
<1>7. ASSUME NEW u \in mem["daemon"] \ mem'["daemon"]
      PROVE  u.src = "authentik" => u.email = w.email
  BY <1>1, <1>4, <1>6, <1>7, FoundByEmail DEF PlainInv
<1> QED
  BY <1>4, <1>7

\* At first nobody is active since a run began, and there are no users.
LEMMA SteadyInit == Init => SteadyInv /\ PlainInv
<1> SUFFICES ASSUME Init
             PROVE  SteadyInv /\ PlainInv
  OBVIOUS
<1>1. rec = IdleRec /\ pc["reconciler"] = "idle" /\ disk = {}
      /\ mem["daemon"] = {} /\ mem["cli"] = {}
      /\ \A p \in Proc : req[p] = NoRequest
  BY DEF Init, Proc, Daemon
<1> QED
  BY <1>1 DEF SteadyInv, PlainInv, IdleRec, NoRequest, PlainRequest, PlainUsers

\* The run's own steps keep what it knows.
LEMMA RunKeepsSteady ==
  ASSUME OnePage, TypeOK, SteadyInv, RecStep
  PROVE  SteadyInv'
<1>1. /\ rec \in [set : SUBSET Email, page : Nat, todo : SUBSET User,
                  any : BOOLEAN, steady : SUBSET Email]
      /\ pc \in [Proc -> Where] /\ "reconciler" \in Proc /\ active \subseteq Email
  BY DEF TypeOK, ProcTypes, OutsideTypes, Proc, Daemon
<1>2. \A w : Goto("reconciler", w) => pc'["reconciler"] = w
  BY <1>1 DEF Goto
<1>3. ASSUME rec' = IdleRec, pc'["reconciler"] \notin {"fetch", "list"}
      PROVE  SteadyInv'
  BY <1>3 DEF SteadyInv, IdleRec
<1>4. CASE RecStart
  <2>1. pc'["reconciler"] = "fetch" /\ rec' = [IdleRec EXCEPT !.steady = active]
        /\ active' = active
    BY <1>2, <1>4 DEF RecStart, ssoVars
  <2>2. /\ rec'.steady = active /\ rec'.page = 1 /\ rec'.set = {} /\ rec'.todo = {}
    BY <2>1 DEF IdleRec
  <2> QED
    BY <2>1, <2>2 DEF SteadyInv
<1>5. CASE RecFetch
  <2>1. rec.page = 1 /\ rec.set = {} /\ active' = active
    BY <1>5 DEF RecFetch, SteadyInv, ssoVars
  <2>2. PageOf(rec.page) = active /\ ~MorePages(rec.page)
    BY <1>1, <2>1, FirstPageIsAll
  <2>3. Fetched(active)
    <3>1. rec.set \cup PageOf(rec.page) = active
      BY <2>1, <2>2
    <3> QED
      BY <1>5, <2>2, <3>1 DEF RecFetch
  <2>4. CASE Usable(active)
    <3>1. rec' = [rec EXCEPT !.set = active] /\ pc'["reconciler"] = "list"
      BY <1>2, <2>3, <2>4 DEF Fetched
    <3>2. rec'.set = active /\ rec'.steady = rec.steady /\ rec'.todo = rec.todo
      BY <1>1, <3>1
    <3> QED
      BY <2>1, <3>1, <3>2 DEF SteadyInv
  <2>5. CASE ~Usable(active)
    BY <1>2, <1>3, <2>3, <2>5 DEF Fetched
  <2> QED
    BY <2>4, <2>5
<1>6. CASE RecFetchNothing
  <2>1. ~Usable({})
    BY DEF Usable
  <2> QED
    BY <1>2, <1>3, <1>6, <2>1 DEF RecFetchNothing, Fetched
<1>7. CASE RecFetchFails
  BY <1>2, <1>3, <1>7 DEF RecFetchFails
<1>8. CASE RecList
  <2> DEFINE missing == {u \in mem["daemon"] : /\ u.src = "authentik" /\ u.email # NoRef
                                               /\ u.email \notin rec.set}
  <2>1. pc'["reconciler"] = "prune" /\ rec.steady \subseteq rec.set /\ active' = active
        /\ rec' = [rec EXCEPT !.set = {}, !.todo = missing]
    BY <1>2, <1>8 DEF RecList, SteadyInv, ssoVars
  <2>2. \A u \in missing : u.email \in Email /\ u.email \notin rec.steady
    <3>1. mem["daemon"] \subseteq User
      BY DEF TypeOK, StoreTypes
    <3> QED
      BY <2>1, <3>1 DEF User
  <2> HIDE DEF missing
  <2>3. rec'.todo = missing /\ rec'.steady = rec.steady
    BY <1>1, <2>1
  <2> QED
    BY <2>1, <2>2, <2>3 DEF SteadyInv
<1>9. CASE RecPrune
  <2>1. PICK w, any : rec' = [rec EXCEPT !.todo = @ \ {w}, !.any = any]
    BY <1>9 DEF RecPrune
  <2>2. rec'.todo \subseteq rec.todo /\ rec'.steady = rec.steady /\ rec'.set = rec.set
        /\ rec'.page = rec.page
    BY <1>1, <2>1
  <2>3. UNCHANGED <<pc, active>>
    BY <1>9 DEF RecPrune, procVars, ssoVars
  <2> QED
    BY <2>2, <2>3 DEF SteadyInv
<1>10. CASE RecPruned
  <2>1. pc'["reconciler"] \notin {"fetch", "list"} /\ rec' = IdleRec
    BY <1>2, <1>10 DEF RecPruned, Applying
  <2> QED
    BY <1>3, <2>1
<1> QED
  BY <1>4, <1>5, <1>6, <1>7, <1>8, <1>9, <1>10 DEF RecStep

\* The users there are in memory and on disk.
Everyone == mem["daemon"] \cup mem["cli"] \cup disk

\* A step that makes no user but those of N, and takes no request but such.
LEMMA PlainFrame ==
  ASSUME PlainInv, NEW N, PlainUsers(N),
         mem'["daemon"] \subseteq Everyone \cup N, mem'["cli"] \subseteq Everyone \cup N,
         disk' \subseteq Everyone \cup N,
         \A p \in Proc : req'[p] = req[p] \/ PlainRequest(req'[p])
  PROVE  PlainInv'
<1>1. PlainUsers(Everyone \cup N)
  BY DEF PlainInv, PlainUsers, Everyone
<1>2. PlainUsers(mem'["daemon"]) /\ PlainUsers(mem'["cli"]) /\ PlainUsers(disk')
  BY <1>1 DEF PlainUsers
<1>3. \A p \in Proc : PlainRequest(req'[p])
  BY DEF PlainInv
<1> QED
  BY <1>2, <1>3 DEF PlainInv, PlainUsers, PlainUser, PlainRequest

\* ... and most make none.
LEMMA PlainQuiet ==
  ASSUME PlainInv, mem'["daemon"] \subseteq Everyone, mem'["cli"] \subseteq Everyone,
         disk' \subseteq Everyone,
         \A p \in Proc : req'[p] = req[p] \/ PlainRequest(req'[p])
  PROVE  PlainInv'
<1>1. PlainUsers({})
  BY DEF PlainUsers
<1> QED
  BY <1>1, PlainFrame

\* The empty request is not the portal's.
LEMMA NoRequestIsPlain == PlainRequest(NoRequest)
BY DEF PlainRequest, NoRequest

\* A user has the external id of its request.
LEMMA NewUserIsPlain ==
  ASSUME NEW r, PlainRequest(r), r.kind \in {"create", "portal"}
  PROVE  PlainUser(NewUser(r))
BY DEF PlainUser, PlainRequest, NewUser

\* The steps of the handlers and the command line.
LEMMA HandleKeepsPlain ==
  ASSUME TypeOK, PlainInv, NEW p \in Proc, Handle(p)
  PROVE  PlainInv'
<1>1. /\ mem \in [{"daemon", "cli"} -> SUBSET User] /\ req \in [Proc -> Request]
      /\ Home(p) \in {"daemon", "cli"}
  BY DEF TypeOK, StoreTypes, ProcTypes, Home
<1>2. mem["daemon"] \subseteq Everyone /\ mem["cli"] \subseteq Everyone
      /\ disk \subseteq Everyone
  BY DEF Everyone
<1>3. ASSUME Done(p), UNCHANGED disk
      PROVE  PlainInv'
  <2>1. mem'["daemon"] \subseteq mem["daemon"] /\ mem'["cli"] \subseteq mem["cli"]
    BY <1>1, <1>3 DEF Done
  <2>2. \A q \in Proc : req'[q] = req[q] \/ req'[q] = NoRequest
    BY <1>1, <1>3 DEF Done
  <2> QED
    BY <1>2, <1>3, <2>1, <2>2, PlainQuiet, NoRequestIsPlain
<1>4. CASE Find(p)
  <2>1. CASE Done(p)
    BY <1>3, <1>4, <2>1 DEF Find
  <2>2. CASE UNCHANGED <<mem, req, mine>>
    BY <1>2, <1>4, <2>2, PlainQuiet DEF Find
  <2> QED
    BY <1>4, <2>1, <2>2 DEF Find
<1>5. CASE AddRefused(p) \/ RemoveRefused(p) \/ Reply(p)
  BY <1>3, <1>5 DEF AddRefused, RemoveRefused, Reply
<1>6. ASSUME NEW ok, NEW id, After(p, ok, id)
      PROVE  \A q \in Proc : req'[q] = req[q] \/ PlainRequest(req'[q])
  <2>1. \A q \in Proc : req'[q] = req[q] \/ req'[q] = NoRequest
    BY <1>1, <1>6 DEF After
  <2> QED
    BY <2>1, NoRequestIsPlain
<1>7. CASE AddUser(p)
  <2>1. PICK u, ok : /\ u = NewUser(req[p])
                     /\ mem' = [mem EXCEPT ![Home(p)] = @ \cup {u}]
                     /\ disk' = mem'[Home(p)] \/ disk' = disk
                     /\ After(p, ok, nextId)
    BY <1>7 DEF AddUser
  <2>2. PlainUsers({u})
    <3>1. PlainRequest(req[p]) /\ req[p].kind \in {"create", "portal"}
      BY <1>7 DEF AddUser, PlainInv
    <3> QED
      BY <2>1, <3>1, NewUserIsPlain DEF PlainUsers
  <2>3. /\ mem'["daemon"] \subseteq mem["daemon"] \cup {u}
        /\ mem'["cli"] \subseteq mem["cli"] \cup {u}
    BY <1>1, <2>1
  <2>4. disk' \subseteq Everyone \cup {u}
    BY <1>1, <1>2, <2>1, <2>3
  <2> QED
    BY <1>2, <1>6, <2>1, <2>2, <2>3, <2>4, PlainFrame
<1>8. CASE RemoveUser(p)
  <2>1. PICK u, ok : /\ mem' = [mem EXCEPT ![Home(p)] = @ \ {u}]
                     /\ disk' = mem'[Home(p)] \/ disk' = disk
                     /\ After(p, ok, u.id)
    BY <1>8 DEF RemoveUser
  <2>2. mem'["daemon"] \subseteq mem["daemon"] /\ mem'["cli"] \subseteq mem["cli"]
    BY <1>1, <2>1
  <2>3. disk' \subseteq Everyone
    BY <1>1, <1>2, <2>1, <2>2
  <2> QED
    BY <1>2, <1>6, <2>1, <2>2, <2>3, PlainQuiet
<1>9. CASE ApplyStep(p)
  <2>1. UNCHANGED <<mem, disk, req>>
    BY <1>9 DEF ApplyStep, TakeSnapshot, OpenFile, WriteFile, Reload, storeVars
  <2> QED
    BY <1>2, <2>1, PlainQuiet
<1> QED
  BY <1>4, <1>5, <1>7, <1>8, <1>9 DEF Handle

\* Every step keeps the users of the portal without external ids: requests to the
\* API and to the command line make none.
LEMMA PlainNext ==
  ASSUME TypeOK, PlainInv, [Next]_vars
  PROVE  PlainInv'
<1>1. /\ mem \in [{"daemon", "cli"} -> SUBSET User] /\ req \in [Proc -> Request]
      /\ Thread \cup {"cli", "reconciler"} \subseteq Proc
  BY DEF TypeOK, StoreTypes, ProcTypes, Proc, Daemon
<1>2. mem["daemon"] \subseteq Everyone /\ mem["cli"] \subseteq Everyone
      /\ disk \subseteq Everyone
  BY DEF Everyone
<1>3. ASSUME UNCHANGED <<mem, disk, req>>
      PROVE  PlainInv'
  BY <1>2, <1>3, PlainQuiet
<1>4. ASSUME NEW p \in Proc, NEW r, PlainRequest(r), Accept(p, r)
      PROVE  \A q \in Proc : req'[q] = req[q] \/ PlainRequest(req'[q])
  BY <1>1, <1>4 DEF Accept
<1>5. ASSUME NEW t \in Thread, NEW r \in Requests, ApiCall(t, r)
      PROVE  PlainInv'
  <2>1. PlainRequest(r)
    BY NodeAssumption DEF PlainRequest
  <2> QED
    BY <1>1, <1>2, <1>4, <1>5, <2>1, PlainQuiet DEF ApiCall, Accept
<1>6. ASSUME NEW t \in Thread, NEW e \in Email, PortalVisit(t, e) \/ WebhookCall(t, e)
      PROVE  PlainInv'
  <2>1. PICK r : PlainRequest(r) /\ Accept(t, r)
    BY <1>6 DEF PortalVisit, WebhookCall, PlainRequest
  <2>2. UNCHANGED <<mem, disk>>
    BY <1>6 DEF PortalVisit, WebhookCall, Accept
  <2> QED
    BY <1>1, <1>2, <1>4, <2>1, <2>2, PlainQuiet
<1>7. ASSUME NEW r \in CliRequests, CliStart(r)
      PROVE  PlainInv'
  <2>1. PlainRequest(r) /\ Accept("cli", r)
    BY <1>7, NodeAssumption DEF PlainRequest, CliStart
  <2>2. mem'["daemon"] = mem["daemon"] /\ mem'["cli"] = disk /\ disk' = disk
    BY <1>1, <1>7 DEF CliStart, Accept
  <2> QED
    BY <1>1, <1>2, <1>4, <2>1, <2>2, PlainQuiet
<1>8. CASE RecStep
  <2>1. CASE RecPrune
    <3>1. PICK S : /\ mem' = [mem EXCEPT !["daemon"] = @ \ S]
                   /\ disk' = mem'["daemon"] \/ disk' = disk
      BY <2>1 DEF RecPrune
    <3>2. mem'["daemon"] \subseteq mem["daemon"] /\ mem'["cli"] = mem["cli"] /\ req' = req
      BY <1>1, <2>1, <3>1 DEF RecPrune, procVars
    <3> QED
      BY <1>2, <3>1, <3>2, PlainQuiet
  <2>2. CASE ~RecPrune
    BY <1>3, <1>8, <2>2
       DEF RecStep, RecStart, RecFetch, RecFetchNothing, RecFetchFails, RecList, RecPruned,
           storeVars
  <2> QED
    BY <2>1, <2>2
<1>9. ASSUME NEW e \in Email, Deactivate(e) \/ Reactivate(e) \/ LoseWebhook(e)
      PROVE  PlainInv'
  BY <1>3, <1>9 DEF Deactivate, Reactivate, LoseWebhook, storeVars, procVars
<1>10. CASE PollStats
  BY <1>2, <1>10, PlainQuiet DEF PollStats, procVars
<1>11. CASE Stop
  <2>1. \A q \in Proc : req'[q] = req[q] \/ req'[q] = NoRequest
    BY <1>11 DEF Stop
  <2>2. UNCHANGED <<mem, disk>>
    BY <1>11 DEF Stop, storeVars
  <2> QED
    BY <1>2, <2>1, <2>2, PlainQuiet, NoRequestIsPlain
<1>12. CASE Start
  <2>1. mem'["daemon"] = disk /\ mem'["cli"] = mem["cli"] /\ UNCHANGED <<disk, req>>
    BY <1>1, <1>12 DEF Start, procVars
  <2> QED
    BY <1>2, <2>1, PlainQuiet
<1>13. CASE UNCHANGED vars
  BY <1>3, <1>13 DEF vars, storeVars, procVars
<1>14. ASSUME NEW p \in Thread \cup {"cli"}, Handle(p)
       PROVE  PlainInv'
  BY <1>1, <1>14, HandleKeepsPlain
<1>15. CASE ApplyStep("reconciler") \/ Reply("reconciler")
  BY <1>1, <1>15, HandleKeepsPlain DEF Handle
<1> QED
  BY <1>5, <1>6, <1>7, <1>8, <1>9, <1>10, <1>11, <1>12, <1>13, <1>14, <1>15 DEF Next

\* A step beside the run leaves what it fetched and its list, and the place of the
\* run unless that is in an Apply.
LEMMA BesideKeepsSteady ==
  ASSUME SteadyInv, rec' = rec, rec.steady \subseteq active',
         \/ pc'["reconciler"] = pc["reconciler"]
         \/ pc'["reconciler"] \notin {"fetch", "list"}
  PROVE  SteadyInv'
BY DEF SteadyInv

\* Every step keeps what the run knows.
LEMMA SteadyNext ==
  ASSUME OnePage, TypeOK, SteadyInv, [Next]_vars
  PROVE  SteadyInv'
<1>1. /\ pc \in [Proc -> Where] /\ "reconciler" \in Proc /\ rec.steady \subseteq active
      /\ "reconciler" \notin Thread \cup {"cli"} /\ Thread \cup {"cli"} \subseteq Proc
      /\ rec \in [set : SUBSET Email, page : Nat, todo : SUBSET User,
                  any : BOOLEAN, steady : SUBSET Email]
  BY NodeAssumption DEF TypeOK, ProcTypes, Proc, Daemon, SteadyInv
<1>2. ASSUME NEW p \in Thread \cup {"cli"}, NEW w, Goto(p, w)
      PROVE  pc'["reconciler"] = pc["reconciler"]
  BY <1>1, <1>2 DEF Goto
<1>3. ASSUME NEW p \in Thread \cup {"cli"}, NEW r, Accept(p, r), UNCHANGED active
      PROVE  SteadyInv'
  <2>1. pc'["reconciler"] = pc["reconciler"] /\ rec' = rec
    BY <1>2, <1>3 DEF Accept
  <2> QED
    BY <1>1, <1>3, <2>1, BesideKeepsSteady
<1>4. ASSUME NEW t \in Thread, NEW x,
             ApiCall(t, x) \/ PortalVisit(t, x) \/ WebhookCall(t, x)
      PROVE  SteadyInv'
  BY <1>3, <1>4 DEF ApiCall, PortalVisit, WebhookCall, ssoVars
<1>5. ASSUME NEW r, CliStart(r)
      PROVE  SteadyInv'
  BY <1>3, <1>5 DEF CliStart, ssoVars
<1>6. ASSUME NEW p \in Proc, Handle(p)
      PROVE  UNCHANGED <<rec, active>> /\ \E w : Goto(p, w)
  BY <1>6 DEF Handle, Find, AddRefused, AddUser, RemoveRefused, RemoveUser, ApplyStep,
              TakeSnapshot, OpenFile, WriteFile, Reload, Reply, Done, After, ssoVars
<1>7. ASSUME NEW p \in Thread \cup {"cli"}, Handle(p)
      PROVE  SteadyInv'
  <2>1. UNCHANGED <<rec, active>> /\ \E w : Goto(p, w)
    BY <1>1, <1>6, <1>7
  <2>2. pc'["reconciler"] = pc["reconciler"]
    BY <1>2, <2>1
  <2> QED
    BY <1>1, <2>1, <2>2, BesideKeepsSteady
<1>8. CASE ApplyStep("reconciler") \/ Reply("reconciler")
  <2>1. UNCHANGED <<rec, active>>
    BY <1>1, <1>6, <1>8 DEF Handle
  <2>2. pc'["reconciler"] \in {"open", "write", "reload", "reply", "idle"}
    BY <1>1, <1>8 DEF ApplyStep, TakeSnapshot, OpenFile, WriteFile, Reload, Reply, Done, Goto
  <2> QED
    BY <1>1, <2>1, <2>2, BesideKeepsSteady
<1>9. ASSUME NEW e \in Email, Deactivate(e)
      PROVE  SteadyInv'
  <2>1. /\ active' = active \ {e} /\ rec' = [rec EXCEPT !.steady = @ \ {e}] /\ pc' = pc
    BY <1>9 DEF Deactivate, procVars
  <2>2. /\ rec'.steady = rec.steady \ {e} /\ rec'.set = rec.set /\ rec'.page = rec.page
        /\ rec'.todo = rec.todo
    BY <1>1, <2>1
  <2> QED
    BY <2>1, <2>2 DEF SteadyInv
<1>10. ASSUME NEW e \in Email, Reactivate(e) \/ LoseWebhook(e)
       PROVE  SteadyInv'
  <2>1. active \subseteq active' /\ UNCHANGED <<rec, pc>>
    BY <1>10 DEF Reactivate, LoseWebhook, procVars
  <2> QED
    BY <1>1, <2>1, BesideKeepsSteady
<1>11. CASE PollStats \/ Start \/ UNCHANGED vars
  <2>1. UNCHANGED <<rec, pc, active>>
    BY <1>11 DEF PollStats, Start, vars, procVars, ssoVars
  <2> QED
    BY <1>1, <2>1, BesideKeepsSteady
<1>12. CASE Stop
  <2>1. rec' = IdleRec /\ pc'["reconciler"] = "idle"
    BY <1>1, <1>12 DEF Stop, Daemon
  <2> QED
    BY <2>1 DEF SteadyInv, IdleRec
<1>13. CASE RecStep
  BY <1>13, RunKeepsSteady
<1> QED
  BY <1>4, <1>5, <1>7, <1>8, <1>9, <1>10, <1>11, <1>12, <1>13 DEF Next

\* Only a removal of the run changes its list while it takes users out.
LEMMA OnlyRecPruneRemoves ==
  ASSUME TypeOK, Next, pc["reconciler"] = "prune", rec'.todo # rec.todo,
         mem'["daemon"] # mem["daemon"]
  PROVE  RecPrune
<1>1. ASSUME rec' = rec
      PROVE  FALSE
  BY <1>1
<1>2. CASE RecStep
  <2>1. \/ RecPrune
        \/ mem' = mem
    BY <1>2 DEF RecStep, RecStart, RecFetch, RecFetchNothing, RecFetchFails, RecList,
                RecPruned, storeVars
  <2> QED
    BY <2>1
<1>3. ASSUME NEW t \in Thread, NEW x,
             ApiCall(t, x) \/ PortalVisit(t, x) \/ WebhookCall(t, x)
      PROVE  FALSE
  BY <1>1, <1>3 DEF ApiCall, PortalVisit, WebhookCall, Accept
<1>4. ASSUME NEW p, Handle(p)
      PROVE  FALSE
  BY <1>1, <1>4 DEF Handle, Find, AddRefused, AddUser, RemoveRefused, RemoveUser,
                    ApplyStep, TakeSnapshot, OpenFile, WriteFile, Reload, Reply
<1>5. ASSUME NEW r, CliStart(r)
      PROVE  FALSE
  BY <1>1, <1>5 DEF CliStart, Accept
<1>6. ASSUME NEW e, Deactivate(e) \/ Reactivate(e) \/ LoseWebhook(e)
      PROVE  FALSE
  BY <1>6 DEF Deactivate, Reactivate, LoseWebhook, storeVars
<1>7. CASE PollStats \/ Start
  BY <1>1, <1>7 DEF PollStats, Start
<1>8. CASE Stop
  BY <1>8 DEF Stop, storeVars
<1> QED
  BY <1>2, <1>3, <1>4, <1>5, <1>6, <1>7, <1>8 DEF Next, Handle

\* Where the active people fit on one page, no user of the portal whose person has
\* been active since a reconcile run began is removed by that run, whatever
\* the API answers, whoever comes and goes in Authentik meanwhile, and whatever
\* other handlers do to the list between its fetching, listing and removing.
THEOREM SteadyNeverPrunedCorrect ==
  ASSUME OnePage
  PROVE  Spec => SteadyNeverPruned
<1>1. Init => TypeOK /\ MineTyped
  BY TypeInit, SurviveInit
<1>2. TypeOK /\ MineTyped /\ [Next]_vars => (TypeOK /\ MineTyped)'
  BY TypeNext, MineNext
<1>3. Init => SteadyInv /\ PlainInv
  BY SteadyInit
<1>4. TypeOK /\ SteadyInv /\ PlainInv /\ [Next]_vars => (SteadyInv /\ PlainInv)'
  BY SteadyNext, PlainNext
<1>5. ASSUME TypeOK, SteadyInv, PlainInv, [Next]_vars
      PROVE  [\A u \in mem["daemon"] \ mem'["daemon"] :
                u.src = "authentik" /\ u.email \in rec.steady
                  => ~(pc["reconciler"] = "prune" /\ rec'.todo # rec.todo)]_vars
  <2> SUFFICES ASSUME Next, NEW u \in mem["daemon"] \ mem'["daemon"],
                      u.src = "authentik", u.email \in rec.steady,
                      pc["reconciler"] = "prune", rec'.todo # rec.todo
               PROVE  FALSE
    BY <1>5
  <2>1. RecPrune
    BY <1>5, OnlyRecPruneRemoves
  <2> QED
    BY <1>5, <2>1, PruneSpares
<1> QED
  BY <1>1, <1>2, <1>3, <1>4, <1>5, PTL DEF Spec, SteadyNeverPruned

-----------------------------------------------------------------------------
(***************************************************************************)
(* E-mails, for any number of handlers, people, users and requests.        *)
(***************************************************************************)
\* A list with unique e-mails keeps them when users leave it.
LEMMA SmallerIsUnique ==
  ASSUME NEW S, NEW T, UniqueIn(S), T \subseteq S
  PROVE  UniqueIn(T)
BY DEF UniqueIn

\* A list with unique e-mails keeps them when a user comes who is not Taken.
LEMMA LargerIsUnique ==
  ASSUME NEW S, UniqueIn(S), NEW u, ~Taken(S, u.email)
  PROVE  UniqueIn(S \cup {u})
BY DEF UniqueIn, Taken

\* The e-mail of a new user is the one of the request, or empty.
LEMMA NewUserEmail ==
  ASSUME NEW r, NEW S, ~Taken(S, r.ref)
  PROVE  ~Taken(S, NewUser(r).email)
<1>1. NewUser(r).email = IF r.ref \in Email THEN r.ref ELSE NoRef
  BY DEF NewUser
<1> QED
  BY <1>1 DEF Taken

\* E-mails are unique in the copy of the command line too.
Copies == {"daemon", "cli"}
UniqueInv ==
  /\ mem = [d \in Copies |-> mem[d]]
  /\ \A d \in Copies : UniqueIn(mem[d])
  /\ UniqueIn(disk)

LEMMA UniqueInit == Init => UniqueInv
<1> SUFFICES ASSUME Init PROVE UniqueInv
  OBVIOUS
<1>1. mem = [d \in Copies |-> {}] /\ disk = {}
  BY DEF Init, Copies
<1>2. UniqueIn({})
  BY DEF UniqueIn
<1>3. \A d \in Copies : mem[d] = {}
  BY <1>1
<1> QED
  BY <1>1, <1>2, <1>3 DEF UniqueInv

\* A step that replaces one copy by a list with unique e-mails, and the state
\* file by nothing, by that list or by another copy.
LEMMA OneCopyChanges ==
  ASSUME UniqueInv, NEW c \in Copies, NEW S, UniqueIn(S),
         mem' = [mem EXCEPT ![c] = S],
         disk' = disk \/ \E d \in Copies : disk' = mem'[d]
  PROVE  UniqueInv'
<1>1. mem' = [d \in Copies |-> IF d = c THEN S ELSE mem[d]]
  BY DEF UniqueInv
<1>2. \A d \in Copies : UniqueIn(mem'[d])
  BY <1>1 DEF UniqueInv
<1>3. mem' = [d \in Copies |-> mem'[d]]
  BY <1>1
<1> QED
  BY <1>2, <1>3 DEF UniqueInv, UniqueIn

\* The end of a request empties at most the copy of the command line.
LEMMA DoneKeepsUnique ==
  ASSUME UniqueInv, NEW p, Done(p), disk' = disk
  PROVE  UniqueInv'
<1>1. CASE p = "cli"
  <2>1. mem' = [mem EXCEPT !["cli"] = {}]
    BY <1>1 DEF Done
  <2>2. UniqueIn({})
    BY DEF UniqueIn
  <2> QED
    BY <2>1, <2>2, OneCopyChanges DEF Copies
<1>2. CASE p # "cli"
  <2>1. mem' = mem
    BY <1>2 DEF Done
  <2> QED
    BY <2>1 DEF UniqueInv, UniqueIn
<1> QED
  BY <1>1, <1>2

LEMMA UniqueNext ==
  ASSUME UniqueInv, [Next]_vars
  PROVE  UniqueInv'
<1>1. CASE UNCHANGED <<mem, disk>>
  BY <1>1 DEF UniqueInv, UniqueIn
<1>2. ASSUME NEW r, CliStart(r) PROVE UniqueInv'
  <2>1. mem' = [mem EXCEPT !["cli"] = disk] /\ disk' = disk
    BY <1>2 DEF CliStart, Accept
  <2> QED
    BY <2>1, OneCopyChanges DEF UniqueInv, Copies
<1>3. ASSUME NEW p, Find(p) \/ AddRefused(p) \/ RemoveRefused(p) \/ Reply(p)
      PROVE  UniqueInv'
  <2>1. disk' = disk /\ (mem' = mem \/ Done(p))
    BY <1>3 DEF Find, AddRefused, RemoveRefused, Reply
  <2> QED
    BY <1>1, <2>1, DoneKeepsUnique
<1>4. ASSUME NEW p, AddUser(p) PROVE UniqueInv'
  <2> DEFINE d == Home(p)
             S == mem[d] \cup {NewUser(req[p])}
  <2>1. d \in Copies
    BY DEF Home, Copies
  <2>2. ~Taken(mem[d], NewUser(req[p]).email)
    BY <1>4, NewUserEmail DEF AddUser
  <2>3. UniqueIn(S)
    BY <2>1, <2>2, LargerIsUnique DEF UniqueInv
  <2>4. mem' = [mem EXCEPT ![d] = S]
    BY <1>4 DEF AddUser
  <2>5. disk' = disk \/ disk' = mem'[d]
    BY <1>4 DEF AddUser
  <2> HIDE DEF d, S
  <2> QED
    BY <2>1, <2>3, <2>4, <2>5, OneCopyChanges
<1>5. ASSUME NEW p, RemoveUser(p) PROVE UniqueInv'
  <2> DEFINE d == Home(p)
  <2>1. d \in Copies
    BY DEF Home, Copies
  <2>2. PICK u : /\ mem' = [mem EXCEPT ![d] = @ \ {u}]
                 /\ disk' = disk \/ disk' = mem'[d]
    BY <1>5 DEF RemoveUser
  <2>3. UniqueIn(mem[d] \ {u})
    BY <2>1, SmallerIsUnique DEF UniqueInv
  <2>4. mem' = [mem EXCEPT ![d] = mem[d] \ {u}]
    BY <2>2
  <2> HIDE DEF d
  <2> QED
    BY <2>1, <2>2, <2>3, <2>4, OneCopyChanges
<1>6. CASE PollStats
  <2>1. mem' = mem /\ disk' = mem["daemon"]
    BY <1>6 DEF PollStats
  <2> QED
    BY <2>1 DEF UniqueInv, UniqueIn, Copies
<1>7. CASE RecPrune
  <2> DEFINE hit == FindUser(mem["daemon"], First(rec.todo).email)
             S == mem["daemon"] \ hit
  <2>1. mem' = [mem EXCEPT !["daemon"] = S]
    BY <1>7 DEF RecPrune
  <2>2. disk' = disk \/ disk' = mem'["daemon"]
    BY <1>7 DEF RecPrune
  <2>3. UniqueIn(S)
    BY SmallerIsUnique DEF UniqueInv, Copies
  <2> HIDE DEF S
  <2> QED
    BY <2>1, <2>2, <2>3, OneCopyChanges DEF Copies
<1>8. CASE Start
  <2>1. mem' = [mem EXCEPT !["daemon"] = disk] /\ disk' = disk
    BY <1>8 DEF Start
  <2> QED
    BY <2>1, OneCopyChanges DEF UniqueInv, Copies
<1>9. ASSUME NEW p, ApplyStep(p) PROVE UniqueInv'
  BY <1>1, <1>9
     DEF ApplyStep, TakeSnapshot, OpenFile, WriteFile, Reload, storeVars
<1>10. ASSUME NEW t, NEW x, ApiCall(t, x) \/ PortalVisit(t, x) \/ WebhookCall(t, x)
       PROVE  UniqueInv'
  BY <1>1, <1>10 DEF ApiCall, PortalVisit, WebhookCall, Accept
<1>11. CASE RecStep
  BY <1>1, <1>7, <1>11
     DEF RecStep, RecStart, RecFetch, RecFetchNothing, RecFetchFails, RecList,
         RecPruned, storeVars
<1>12. ASSUME NEW e, Deactivate(e) \/ Reactivate(e) \/ LoseWebhook(e)
       PROVE  UniqueInv'
  BY <1>1, <1>12 DEF Deactivate, Reactivate, LoseWebhook, storeVars
<1>13. CASE Stop
  BY <1>1, <1>13 DEF Stop, storeVars
<1>14. CASE UNCHANGED vars
  BY <1>1, <1>14 DEF vars, storeVars
<1>15. ASSUME NEW p, Handle(p) PROVE UniqueInv'
  BY <1>3, <1>4, <1>5, <1>9, <1>15 DEF Handle
<1> QED
  BY <1>2, <1>3, <1>6, <1>8, <1>9, <1>10, <1>11, <1>12, <1>13, <1>14, <1>15
     DEF Next

\* Whatever handlers, reconcile runs, command lines, failing flushes and
\* crashes do in whatever order, no two users share an e-mail.
THEOREM UniqueEmailsCorrect == Spec => []UniqueEmails
<1>1. UniqueInv => UniqueEmails
  BY DEF UniqueInv, UniqueEmails, Copies
<1> QED
  BY <1>1, UniqueInit, UniqueNext, PTL DEF Spec
=============================================================================
