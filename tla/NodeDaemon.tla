----------------------------- MODULE NodeDaemon -----------------------------
(***************************************************************************)
(* A serving node: the daemon's user store, everything that changes it     *)
(* concurrently, and the Xray configuration made from it.                  *)
(*                                                                         *)
(*   - HTTP handlers, each a goroutine: POST and DELETE of the user API    *)
(*     (userapi.go), the portal (portal.go), the Authentik webhook         *)
(*     (webhook.go);                                                       *)
(*   - the reconcile goroutine (reconcile.go);                             *)
(*   - the stats poller, which flushes the store;                          *)
(*   - the command line, another process with its own copy of the store.   *)
(*                                                                         *)
(* Every call to the store is one critical section, so an action does one  *)
(* call; what a handler learned from an earlier call may be stale by then. *)
(* Render, write and reload (xray.Apply) run outside the store's lock.     *)
(***************************************************************************)
EXTENDS UserStore

CONSTANTS
  Thread,       \* HTTP handlers that may run at the same time
  NumEmails,    \* people, identified by their e-mails 1 .. NumEmails
  MaxUsers,     \* bound: users ever created
  Requests,     \* what clients may send to the user API
  CliRequests,  \* what an operator may type
  Portal,       \* is the portal with the webhook in use?
  Reconcile,    \* is the reconcile backstop in use?
  PageSize,     \* users per page of the Authentik API
  XrayManaged,  \* is xray.config_path set?
  FlushFails,   \* may writing the state file fail?
  ReloadFails,  \* may reloading Xray fail?
  MaxCrashes    \* bound: crashes of the daemon

Email == 1 .. NumEmails
Uuid  == NumEmails + 1 .. NumEmails + MaxUsers
Ref   == {NoRef} \cup Email \cup Uuid

User == [id : Uuid, email : Email \cup {NoRef}, ext : Ref, src : Source]
Request ==
  [kind : {"create", "delete", "portal", "revoke"}, ref : Ref, ext : Ref]

ASSUME NodeAssumption ==
  /\ NumEmails \in Nat \ {0} /\ MaxUsers \in Nat /\ PageSize \in Nat \ {0}
  /\ MaxCrashes \in Nat
  /\ Portal \in BOOLEAN /\ Reconcile \in BOOLEAN /\ XrayManaged \in BOOLEAN
  /\ FlushFails \in BOOLEAN /\ ReloadFails \in BOOLEAN
  /\ Requests \subseteq [kind : {"create", "delete"}, ref : Ref, ext : Ref]
  /\ CliRequests \subseteq [kind : {"create", "delete"}, ref : Ref, ext : Ref]
  /\ \A r \in Requests \cup CliRequests :
       r.kind = "create" => r.ref \in Email \cup {NoRef}
  /\ "cli" \notin Thread /\ "reconciler" \notin Thread

Daemon == Thread \cup {"reconciler"}
Proc   == Daemon \cup {"cli"}

VARIABLES
  up,       \* the daemon runs
  mem,      \* the store's list in the memory of the daemon and of the CLI
  disk,     \* the list in state.json
  nextId,   \* the next uuid
  pc, req,  \* where each process is, and what it was asked
  mine,     \* the user it created or removed
  snap,     \* the Users() it applies
  file,     \* the Xray configuration file
  loaded,   \* the users the running Xray admits
  active,   \* e-mails active in Authentik
  events,   \* webhook calls under way
  rec,      \* the reconcile goroutine: e-mails fetched, next page, users left,
            \* and (history) the e-mails active ever since its run began
  crashes,  \* crashes so far (only to bound them)
  acked,    \* history: users whose creation was answered with success
  removed,  \* history: users taken out of the list
  gone      \* history: users whose removal was answered with success

storeVars == <<mem, disk, nextId>>
procVars  == <<pc, req, mine>>
xrayVars  == <<snap, file, loaded>>
ssoVars   == <<active, events>>
histVars  == <<acked, removed, gone>>
vars == <<up, storeVars, procVars, xrayVars, ssoVars, rec, crashes, histVars>>
-----------------------------------------------------------------------------
NoRequest == [kind |-> "delete", ref |-> NoRef, ext |-> NoRef]
IdleRec   ==
  [set |-> {}, page |-> 1, todo |-> {}, any |-> FALSE, steady |-> {}]

Init ==
  /\ up = TRUE
  /\ mem = [d \in {"daemon", "cli"} |-> {}]
  /\ disk = {}
  /\ nextId = NumEmails + 1
  /\ pc = [p \in Proc |-> "idle"]
  /\ req = [p \in Proc |-> NoRequest]
  /\ mine = [p \in Proc |-> NoRef]
  /\ snap = [p \in Proc |-> {}]
  /\ file = [users |-> {}, valid |-> TRUE]
  /\ loaded = {}
  /\ active = Email
  /\ events = {}
  /\ rec = IdleRec
  /\ crashes = 0
  /\ acked = {} /\ removed = {} /\ gone = {}

\* The copy of the store a process works on.
Home(p) == IF p = "cli" THEN "cli" ELSE "daemon"

Goto(p, where) == pc' = [pc EXCEPT ![p] = where]

\* The end of a request; the command line exits.
Done(p) ==
  /\ Goto(p, "idle")
  /\ req' = [req EXCEPT ![p] = NoRequest]
  /\ mine' = [mine EXCEPT ![p] = NoRef]
  /\ mem' = IF p = "cli" THEN [mem EXCEPT ![p] = {}] ELSE mem

\* After a change of the list; Apply does nothing without a config path.
Applying == IF XrayManaged THEN "snapshot" ELSE "reply"
-----------------------------------------------------------------------------
(***************************************************************************)
(* Requests arrive.  The proxy in front of the portal lets only people     *)
(* through whom Authentik knows as active.                                 *)
(***************************************************************************)
Accept(p, r) ==
  /\ pc[p] = "idle"
  /\ req' = [req EXCEPT ![p] = r]
  /\ Goto(p, IF r.kind \in {"portal", "revoke"} THEN "find" ELSE "change")
  /\ UNCHANGED <<up, disk, nextId, mine, xrayVars, rec, crashes, histVars>>

ApiCall(t, r) == up /\ Accept(t, r) /\ UNCHANGED <<mem, ssoVars>>

PortalVisit(t, e) ==
  /\ up /\ Portal /\ e \in active
  /\ Accept(t, [kind |-> "portal", ref |-> e, ext |-> NoRef])
  /\ UNCHANGED <<mem, ssoVars>>

WebhookCall(t, e) ==
  /\ up /\ e \in events
  /\ events' = events \ {e}
  /\ Accept(t, [kind |-> "revoke", ref |-> e, ext |-> NoRef])
  /\ UNCHANGED <<mem, active>>

\* The command line opens the state file.
CliStart(r) ==
  /\ Accept("cli", r)
  /\ mem' = [mem EXCEPT !["cli"] = disk]
  /\ UNCHANGED ssoVars

\* What FindUser returned decides: the portal creates only somebody it does
\* not know, the webhook removes only what the portal created.
Wanted(p, found) ==
  IF req[p].kind = "portal" THEN found = {}
  ELSE \E u \in found : u.src = "authentik"

Find(t) ==
  /\ pc[t] = "find"
  /\ IF Wanted(t, FindUser(mem["daemon"], req[t].ref))
     THEN Goto(t, "change") /\ UNCHANGED <<mem, req, mine>>
     ELSE Done(t)
  /\ UNCHANGED <<up, disk, nextId, xrayVars, ssoVars, rec, crashes, histVars>>
-----------------------------------------------------------------------------
(***************************************************************************)
(* The store's changes: the list in memory changes first, then the whole   *)
(* list is flushed.  When the flush fails the call returns an error and    *)
(* the list in memory stays changed.                                       *)
(***************************************************************************)
FlushOutcome == IF FlushFails THEN BOOLEAN ELSE {TRUE}

\* Mutant: an error of the flush is not returned.
SucceededAnyway(ok) == TRUE

\* The store call, and with it the request, succeeds.
Succeeded(ok) == ok

\* What follows the store call that created or removed user `id`.
After(p, ok, id) ==
  /\ Goto(p, IF Succeeded(ok) THEN Applying ELSE "idle")
  /\ mine' = [mine EXCEPT ![p] = IF Succeeded(ok) THEN id ELSE NoRef]
  /\ req' = [req EXCEPT ![p] = IF Succeeded(ok) THEN @ ELSE NoRequest]

\* Mutant: an error of the uuid generator is ignored.
NewUserWithoutUuid(r) ==
  [id |-> NoRef, email |-> r.ref, ext |-> r.ext, src |-> "manual"]

NewUser(r) ==
  [id |-> nextId, email |-> IF r.ref \in Email THEN r.ref ELSE NoRef,
   ext |-> r.ext, src |-> IF r.kind = "portal" THEN "authentik" ELSE "manual"]

\* AddUser fails; so does generating a uuid, which the bound stands for.  The
\* portal then shows the user it finds: no state changes.
AddRefused(p) ==
  /\ pc[p] = "change" /\ req[p].kind \in {"create", "portal"}
  /\ Taken(mem[Home(p)], req[p].ref) \/ nextId \notin Uuid
  /\ Done(p)
  /\ UNCHANGED <<up, disk, nextId, xrayVars, ssoVars, rec, crashes, histVars>>

AddUser(p) ==
  /\ pc[p] = "change" /\ req[p].kind \in {"create", "portal"}
  /\ ~Taken(mem[Home(p)], req[p].ref) /\ nextId \in Uuid
  /\ mem' = [mem EXCEPT ![Home(p)] = @ \cup {NewUser(req[p])}]
  /\ nextId' = nextId + 1
  /\ \E ok \in FlushOutcome :
       /\ disk' = IF ok THEN mem'[Home(p)] ELSE disk
       /\ After(p, ok, nextId)
  /\ UNCHANGED <<up, xrayVars, ssoVars, rec, crashes, histVars>>

RemoveRefused(p) ==
  /\ pc[p] = "change" /\ req[p].kind \in {"delete", "revoke"}
  /\ Matching(mem[Home(p)], req[p].ref) = {}
  /\ Done(p)
  /\ UNCHANGED <<up, disk, nextId, xrayVars, ssoVars, rec, crashes, histVars>>

\* The first match goes, whoever that is by now.
RemoveUser(p) ==
  /\ pc[p] = "change" /\ req[p].kind \in {"delete", "revoke"}
  /\ \E u \in FindUser(mem[Home(p)], req[p].ref), ok \in FlushOutcome :
       /\ mem' = [mem EXCEPT ![Home(p)] = @ \ {u}]
       /\ removed' = removed \cup {u.id}
       /\ disk' = IF ok THEN mem'[Home(p)] ELSE disk
       /\ After(p, ok, u.id)
  /\ UNCHANGED <<up, nextId, xrayVars, ssoVars, rec, crashes, acked, gone>>

\* UpdateTraffic: the counters of a known user, and a flush of everything.
PollStats ==
  /\ up /\ mem["daemon"] # {}
  /\ disk' = mem["daemon"]
  /\ UNCHANGED <<up, mem, nextId, procVars, xrayVars, ssoVars, rec, crashes,
                 histVars>>
-----------------------------------------------------------------------------
(***************************************************************************)
(* xray.Apply(cfg, st.Users()): a copy of the list, WriteFile (truncate,   *)
(* then write) and a reload; nothing orders the calls of two goroutines.   *)
(***************************************************************************)
TakeSnapshot(p) ==
  /\ pc[p] = "snapshot"
  /\ snap' = [snap EXCEPT ![p] = Ids(mem[Home(p)])]
  /\ Goto(p, "open")
  /\ UNCHANGED <<up, storeVars, req, mine, file, loaded, ssoVars, rec, crashes,
                 histVars>>

OpenFile(p) ==
  /\ pc[p] = "open"
  /\ file' = [users |-> {}, valid |-> FALSE]
  /\ Goto(p, "write")
  /\ UNCHANGED <<up, storeVars, req, mine, snap, loaded, ssoVars, rec, crashes,
                 histVars>>

\* Written over a longer text of another goroutine that opened the file at
\* the same time, the new text keeps the end of the old one.
WriteFile(p) ==
  /\ pc[p] = "write"
  /\ file' = IF Cardinality(file.users) > Cardinality(snap[p])
             THEN [file EXCEPT !.valid = FALSE]
             ELSE [users |-> snap[p], valid |-> TRUE]
  /\ Goto(p, "reload")
  /\ UNCHANGED <<up, storeVars, req, mine, snap, loaded, ssoVars, rec, crashes,
                 histVars>>

\* `systemctl reload xray`, or else restart: Xray stops when it cannot read
\* its configuration.  The caller only logs an error.
Reload(p) ==
  /\ pc[p] = "reload"
  /\ \/ loaded' = IF file.valid THEN file.users ELSE {}
     \/ ReloadFails /\ loaded' = loaded
  /\ snap' = [snap EXCEPT ![p] = {}]
  /\ Goto(p, "reply")
  /\ UNCHANGED <<up, storeVars, req, mine, file, ssoVars, rec, crashes,
                 histVars>>

\* The answer to the client.
Reply(p) ==
  /\ pc[p] = "reply"
  /\ IF req[p].kind \in {"create", "portal"}
     THEN acked' = acked \cup {mine[p]} /\ UNCHANGED gone
     ELSE gone' = gone \cup ({mine[p]} \ {NoRef}) /\ UNCHANGED acked
  /\ Done(p)
  /\ UNCHANGED <<up, disk, nextId, xrayVars, ssoVars, rec, crashes, removed>>
-----------------------------------------------------------------------------
(***************************************************************************)
(* The reconcile run: page after page of the active users, then the list   *)
(* of the store, then one removal after the other, then one Apply.         *)
(***************************************************************************)
Rank(e) == Cardinality({f \in active : f <= e})

\* Mutant: the filter on is_active is lost.
PageOfEverybody(k) == Email

\* Authentik answers with the current members of the page.
PageOf(k) == {e \in active : Rank(e) \in (k - 1) * PageSize + 1 .. k * PageSize}

MorePages(k) == k * PageSize < Cardinality(active)

\* Mutant: an empty answer is believed.
AlwaysUsable(set) == TRUE

\* The fail-safe: an empty active set prunes nobody.
Usable(set) == set # {}

RecStart ==
  /\ up /\ Reconcile /\ pc["reconciler"] = "idle"
  /\ Goto("reconciler", "fetch")
  /\ rec' = [IdleRec EXCEPT !.steady = active]
  /\ UNCHANGED <<up, storeVars, req, mine, xrayVars, ssoVars, crashes, histVars>>

\* The pages are complete: list the store, or leave it alone.
Fetched(set) ==
  /\ rec' = IF Usable(set) THEN [rec EXCEPT !.set = set] ELSE IdleRec
  /\ Goto("reconciler", IF Usable(set) THEN "list" ELSE "idle")

\* A page beyond the last is an error of the API.
RecFetch ==
  /\ pc["reconciler"] = "fetch"
  /\ rec.page = 1 \/ PageOf(rec.page) # {}
  /\ LET set == rec.set \cup PageOf(rec.page) IN
       IF MorePages(rec.page)
       THEN /\ rec' = [rec EXCEPT !.set = set, !.page = @ + 1]
            /\ UNCHANGED pc
       ELSE Fetched(set)
  /\ UNCHANGED <<up, storeVars, req, mine, xrayVars, ssoVars, crashes, histVars>>

\* An API that lost its permission answers with an empty list.
RecFetchNothing ==
  /\ pc["reconciler"] = "fetch" /\ rec.page = 1
  /\ Fetched({})
  /\ UNCHANGED <<up, storeVars, req, mine, xrayVars, ssoVars, crashes, histVars>>

RecFetchFails ==
  /\ pc["reconciler"] = "fetch"
  /\ rec' = IdleRec
  /\ Goto("reconciler", "idle")
  /\ UNCHANGED <<up, storeVars, req, mine, xrayVars, ssoVars, crashes, histVars>>

RecList ==
  /\ pc["reconciler"] = "list"
  /\ rec' = [rec EXCEPT !.set = {}, !.todo =
       {u \in mem["daemon"] : /\ u.src = "authentik" /\ u.email # NoRef
                              /\ u.email \notin rec.set}]
  /\ Goto("reconciler", "prune")
  /\ UNCHANGED <<up, storeVars, req, mine, xrayVars, ssoVars, crashes, histVars>>

\* RemoveUser by e-mail; an error counts as not removed.
RecPrune ==
  /\ pc["reconciler"] = "prune" /\ rec.todo # {}
  /\ LET next == First(rec.todo)
         hit  == FindUser(mem["daemon"], next.email)
     IN \E ok \in FlushOutcome :
          /\ mem' = [mem EXCEPT !["daemon"] = @ \ hit]
          /\ disk' = IF ok /\ hit # {} THEN mem'["daemon"] ELSE disk
          /\ removed' = removed \cup Ids(hit)
          /\ rec' = [rec EXCEPT !.todo = @ \ {next},
                                !.any = @ \/ (ok /\ hit # {})]
          /\ gone' = IF ok THEN gone \cup Ids(hit) ELSE gone
  /\ UNCHANGED <<up, nextId, procVars, xrayVars, ssoVars, crashes, acked>>

RecPruned ==
  /\ pc["reconciler"] = "prune" /\ rec.todo = {}
  /\ Goto("reconciler", IF rec.any THEN Applying ELSE "idle")
  /\ rec' = IdleRec
  /\ UNCHANGED <<up, storeVars, req, mine, xrayVars, ssoVars, crashes, histVars>>
-----------------------------------------------------------------------------
(***************************************************************************)
(* Authentik: people are deactivated and reactivated.  A deactivation is   *)
(* announced by a webhook call, which may come late or not at all.         *)
(***************************************************************************)
Deactivate(e) ==
  /\ Portal /\ e \in active
  /\ active' = active \ {e}
  /\ events' = events \cup {e}
  /\ rec' = [rec EXCEPT !.steady = @ \ {e}]
  /\ UNCHANGED <<up, storeVars, procVars, xrayVars, crashes, histVars>>

Reactivate(e) ==
  /\ Portal /\ e \notin active
  /\ active' = active \cup {e}
  /\ UNCHANGED <<up, storeVars, procVars, xrayVars, events, rec, crashes,
                 histVars>>

LoseWebhook(e) ==
  /\ e \in events
  /\ events' = events \ {e}
  /\ UNCHANGED <<up, storeVars, procVars, xrayVars, active, rec, crashes,
                 histVars>>

\* The daemon stops anywhere: also SIGTERM does not wait for its handlers.
Stop ==
  /\ up /\ crashes < MaxCrashes
  /\ up' = FALSE /\ crashes' = crashes + 1
  /\ pc' = [p \in Proc |-> IF p \in Daemon THEN "idle" ELSE pc[p]]
  /\ req' = [p \in Proc |-> IF p \in Daemon THEN NoRequest ELSE req[p]]
  /\ mine' = [p \in Proc |-> IF p \in Daemon THEN NoRef ELSE mine[p]]
  /\ snap' = [p \in Proc |-> IF p \in Daemon THEN {} ELSE snap[p]]
  /\ rec' = IdleRec
  /\ UNCHANGED <<storeVars, file, loaded, ssoVars, histVars>>

\* Open; the Xray configuration is left as it is.
Start ==
  /\ ~up
  /\ up' = TRUE
  /\ mem' = [mem EXCEPT !["daemon"] = disk]
  /\ UNCHANGED <<disk, nextId, procVars, xrayVars, ssoVars, rec, crashes,
                 histVars>>
-----------------------------------------------------------------------------
ApplyStep(p) == TakeSnapshot(p) \/ OpenFile(p) \/ WriteFile(p) \/ Reload(p)

Handle(p) ==
  \/ Find(p) \/ AddRefused(p) \/ AddUser(p) \/ RemoveRefused(p) \/ RemoveUser(p)
  \/ ApplyStep(p) \/ Reply(p)

RecStep ==
  \/ RecStart \/ RecFetch \/ RecFetchNothing \/ RecFetchFails
  \/ RecList \/ RecPrune \/ RecPruned

Next ==
  \/ \E t \in Thread :
       \/ \E r \in Requests : ApiCall(t, r)
       \/ \E e \in Email : PortalVisit(t, e) \/ WebhookCall(t, e)
  \/ \E p \in Thread \cup {"cli"} : Handle(p)
  \/ \E r \in CliRequests : CliStart(r)
  \/ RecStep \/ ApplyStep("reconciler") \/ Reply("reconciler")
  \/ \E e \in Email : Deactivate(e) \/ Reactivate(e) \/ LoseWebhook(e)
  \/ PollStats \/ Stop \/ Start

Spec == Init /\ [][Next]_vars

\* Goroutines run, the reconcile ticker fires, and the Authentik API answers
\* infinitely often if it is asked infinitely often.
Fairness ==
  /\ \A t \in Thread : WF_vars(Handle(t))
  /\ WF_vars(RecStart) /\ SF_vars(RecFetch) /\ WF_vars(RecFetchFails)
  /\ WF_vars(RecList)
  /\ WF_vars(RecPrune) /\ WF_vars(RecPruned)
  /\ WF_vars(ApplyStep("reconciler")) /\ WF_vars(Reply("reconciler"))

FairSpec == Spec /\ Fairness
-----------------------------------------------------------------------------
(***************************************************************************)
(* Properties.                                                             *)
(***************************************************************************)
Where ==
  {"idle", "find", "change", "snapshot", "open", "write", "reload", "reply",
   "fetch", "list", "prune"}

StoreTypes ==
  /\ mem \in [{"daemon", "cli"} -> SUBSET User] /\ disk \subseteq User
  /\ nextId \in NumEmails + 1 .. NumEmails + MaxUsers + 1
  /\ acked \subseteq Uuid /\ removed \subseteq Uuid /\ gone \subseteq Uuid

ProcTypes ==
  /\ pc \in [Proc -> Where]
  /\ req \in [Proc -> Request]
  /\ mine \in [Proc -> Uuid \cup {NoRef}]
  /\ rec \in [set : SUBSET Email, page : Nat, todo : SUBSET User,
              any : BOOLEAN, steady : SUBSET Email]
  /\ up \in BOOLEAN /\ crashes \in 0 .. MaxCrashes

OutsideTypes ==
  /\ snap \in [Proc -> SUBSET Uuid] /\ loaded \subseteq Uuid
  /\ file \in [users : SUBSET Uuid, valid : BOOLEAN]
  /\ active \subseteq Email /\ events \subseteq Email

\* Every variable holds what the code's types and the bounds allow.
TypeOK == StoreTypes /\ ProcTypes /\ OutsideTypes

\* Racing portal visits, API calls and reconcile runs never leave two users
\* with the same e-mail, in memory or in the state file, although all of them
\* look first and create later.
UniqueIn(S) ==
  \A u, v \in S : u.email = v.email /\ u.email # NoRef => u = v
UniqueEmails == UniqueIn(mem["daemon"]) /\ UniqueIn(disk)

\* What was answered with success survives a crash: a created user is in the
\* state file unless somebody removed it, a removed one is not there, whatever
\* flush failed in between.  docs/AUTHENTIK.md also gives `vlr user rm` as the
\* way to revoke by hand.  With that command in use it fails: the daemon's next
\* flush writes the daemon's own list, with the removed user.
AcknowledgedSurvives ==
  /\ acked \subseteq Ids(disk) \cup removed
  /\ gone \cap Ids(disk) = {}

\* reconcile.go: the run removes users whose e-mail "is no longer active".
\* Nobody who has been active since the run began is removed by it, whatever
\* the API answers.  It takes that the active users fit on one page and
\* that no external id is somebody else's e-mail.
SteadyNeverPruned ==
  [][\A u \in mem["daemon"] \ mem'["daemon"] :
       u.src = "authentik" /\ u.email \in rec.steady
         => ~(pc["reconciler"] = "prune" /\ rec'.todo # rec.todo)]_vars

\* However webhook calls are lost or delayed and the daemon crashes: somebody
\* who stays deactivated ends without a portal user (while others are active).
DeactivatedIsRevoked ==
  \A e \in Email :
    <>[](up /\ e \notin active /\ active # {})
      => <>[](\A u \in mem["daemon"] : u.src = "authentik" => u.email # e)

\* webhook.go: the node removes the user "and reloads Xray, so access is pulled
\* immediately".  Once nothing is under way, Xray admits nobody whose removal
\* was answered with success.  Fails: another goroutine may apply an older list
\* last.
RevokedIsOut ==
  (\A p \in Proc : pc[p] = "idle") => gone \cap loaded = {}
=============================================================================
