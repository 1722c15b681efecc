----------------------------- MODULE UserRecords ----------------------------
(***************************************************************************)
(* What changes in a user after its creation: the traffic counters, which  *)
(* a poll copies from Xray into the store (internal/cascade/stats.go), and *)
(* the token of the subscription link, which Open gives to the users of an *)
(* older version and `vlr user rotate` replaces.                           *)
(*                                                                         *)
(*   - pollers: the heartbeat loop and the handler of a pull each query    *)
(*     Xray and then update one user after the other;                      *)
(*   - handlers that add, remove and show users, and xray.Apply after a    *)
(*     change, which restarts Xray (one step: NodeDaemon has its races);   *)
(*   - the command line (`user link`, `user rotate`), another process with *)
(*     its own copy of the store;                                          *)
(*   - the clients of Xray, whose traffic it counts from its last start.   *)
(***************************************************************************)
EXTENDS UserStore

CONSTANTS
  Poller,       \* goroutines that may poll at the same time
  NumEmails,    \* e-mails 1 .. NumEmails
  MaxUsers,     \* bound: users ever created
  Legacy,       \* users of a version without sub_token
  MaxTokens,    \* bound: tokens ever generated
  MaxBytes,     \* bound: units of traffic of one client
  ReuseEmail,   \* may a second user get the e-mail of a removed one?
  Changes,      \* do handlers add and remove users?
  Portal,       \* do people open the portal?
  Operator,     \* is the command line in use?
  Beside,       \* ... while the daemon runs?
  FlushFails,   \* calls of the store whose flush may fail
  ReloadFails,  \* may reloading Xray fail?
  MaxCrashes    \* bound: crashes of the daemon

Email == 1 .. NumEmails
Uuid  == NumEmails + 1 .. NumEmails + MaxUsers
Ref   == Email \cup Uuid

NoToken == 0
Token   == 1 .. MaxTokens

\* Uplink is what the user sent (tx), downlink what it received (rx).
Traffic == [rx : 0 .. MaxBytes, tx : 0 .. MaxBytes]
Nothing == [rx |-> 0, tx |-> 0]

User == [id : Uuid, email : Email \cup {NoRef}, ext : {NoRef},
         rx : 0 .. MaxBytes, tx : 0 .. MaxBytes,
         token : Token \cup {NoToken}]

ASSUME RecordsAssumption ==
  /\ NumEmails \in Nat /\ MaxUsers \in Nat /\ MaxTokens \in Nat
  /\ MaxBytes \in Nat /\ MaxCrashes \in Nat
  /\ Legacy \in Nat /\ Legacy <= NumEmails /\ Legacy <= MaxUsers
  /\ {ReuseEmail, Changes, Portal, Operator, Beside, ReloadFails}
       \subseteq BOOLEAN
  /\ FlushFails \subseteq {"add", "remove", "poll", "rotate"}

VARIABLES
  up,       \* the daemon runs
  mem,      \* the users in the daemon's memory
  disk,     \* the users in state.json
  nextId,   \* the next uuid
  nextTok,  \* the next token
  clients,  \* the users Xray admits, with the names it counts them under
  counter,  \* its counters, by name
  dirty,    \* an Apply is under way
  poll,     \* per poller: the counters it read and the names left to update
  cli,      \* the command line: what it does and its copy of the users
  crashes,  \* crashes so far (only to bound them)
  moved,    \* history: what each user really sent and received
  used,     \* history: e-mails ever given to a user
  handed,   \* history: links somebody was given
  revoked,  \* history: tokens of which a rotation said that they are revoked
  gone      \* history: users taken out of the list

storeVars == <<mem, disk, nextId, nextTok>>
xrayVars  == <<clients, counter, dirty>>
linkVars  == <<handed, revoked>>
histVars  == <<moved, used, linkVars, gone>>
vars == <<up, storeVars, xrayVars, poll, cli, crashes, histVars>>
-----------------------------------------------------------------------------
\* Mutant: every client is counted under its e-mail, an empty one too.
EmailOnly(u) == u.email

\* StatID: the e-mail, or else the uuid.
StatID(u) == IF u.email # NoRef THEN u.email ELSE u.id

Client(u) == [id |-> u.id, stat |-> StatID(u)]

IdlePoll == [todo |-> {}, read |-> [i \in Ref |-> Nothing]]
IdleCli  == [pc |-> "idle", mem |-> {}]

LegacyUsers ==
  {[id |-> NumEmails + i, email |-> i, ext |-> NoRef, rx |-> 0, tx |-> 0,
    token |-> NoToken] : i \in 1 .. Legacy}

\* The node is upgraded: the daemon is about to open the state file.
Init ==
  /\ up = FALSE
  /\ mem = {} /\ disk = LegacyUsers
  /\ nextId = NumEmails + Legacy + 1 /\ nextTok = 1
  /\ clients = {Client(u) : u \in LegacyUsers}
  /\ counter = [i \in Ref |-> Nothing]
  /\ dirty = FALSE
  /\ poll = [p \in Poller |-> IdlePoll]
  /\ cli = IdleCli
  /\ crashes = 0
  /\ moved = [i \in Uuid |-> Nothing]
  /\ used = 1 .. Legacy
  /\ handed = {} /\ revoked = {} /\ gone = {}

FlushOutcome(call) == IF call \in FlushFails THEN BOOLEAN ELSE {TRUE}
-----------------------------------------------------------------------------
(***************************************************************************)
(* Open: the users without a token get one, and then the file is written   *)
(* before anybody sees the tokens.  When that fails, so does Open.         *)
(***************************************************************************)
Untokened(S) == {u \in S : u.token = NoToken}

Backfilled(S) ==
  {IF u.token = NoToken
   THEN [u EXCEPT !.token =
           nextTok + Cardinality({v \in Untokened(S) : v.id < u.id})]
   ELSE u : u \in S}

\* Mutant: the new tokens stay in memory.
NotPersisted == disk

\* What is in the file after Open.
AfterOpen == IF Untokened(disk) = {} THEN disk ELSE Backfilled(disk)

Open ==
  /\ nextTok + Cardinality(Untokened(disk)) <= MaxTokens + 1
  /\ nextTok' = nextTok + Cardinality(Untokened(disk))
  /\ disk' = AfterOpen

Start ==
  /\ ~up /\ (Beside \/ cli.pc = "idle")
  /\ Open
  /\ mem' = Backfilled(disk)
  /\ up' = TRUE
  /\ UNCHANGED <<nextId, xrayVars, poll, cli, crashes, histVars>>

\* Xray is another service and runs on.
Crash ==
  /\ up /\ crashes < MaxCrashes
  /\ up' = FALSE /\ mem' = {} /\ dirty' = FALSE
  /\ poll' = [p \in Poller |-> IdlePoll]
  /\ crashes' = crashes + 1
  /\ UNCHANGED <<disk, nextId, nextTok, clients, counter, cli, histVars>>
-----------------------------------------------------------------------------
(***************************************************************************)
(* The handlers.  The answer to a creation and the portal's page show the  *)
(* link of the user that FindUser returns.                                 *)
(***************************************************************************)
Link(u) == [id |-> u.id, token |-> u.token]

NewUser(email) ==
  [id |-> nextId, email |-> email, ext |-> NoRef, rx |-> 0, tx |-> 0,
   token |-> nextTok]

\* A failed flush is answered with an error and leaves the user in memory.
AddUser(email) ==
  /\ up /\ Changes /\ nextId \in Uuid /\ nextTok \in Token
  /\ ~Taken(mem, email) /\ (ReuseEmail \/ email \notin used)
  /\ mem' = mem \cup {NewUser(email)}
  /\ nextId' = nextId + 1 /\ nextTok' = nextTok + 1
  /\ used' = used \cup ({email} \ {NoRef})
  /\ \E ok \in FlushOutcome("add") :
       /\ disk' = IF ok THEN mem' ELSE disk
       /\ dirty' = (dirty \/ ok)
       /\ handed' = IF ok THEN handed \cup {Link(NewUser(email))} ELSE handed
  /\ UNCHANGED <<up, clients, counter, poll, cli, crashes, moved, revoked, gone>>

RemoveUser(ref) ==
  /\ up /\ Changes
  /\ \E u \in FindUser(mem, ref), ok \in FlushOutcome("remove") :
       /\ mem' = mem \ {u}
       /\ gone' = gone \cup {u.id}
       /\ disk' = IF ok THEN mem' ELSE disk
       /\ dirty' = (dirty \/ ok)
  /\ UNCHANGED <<up, nextId, nextTok, clients, counter, poll, cli, crashes,
                 moved, used, linkVars>>

\* The portal shows a user it knows, one whose flush failed too.
Show(ref) ==
  /\ up /\ Portal
  /\ \E u \in FindUser(mem, ref) : handed' = handed \cup {Link(u)}
  /\ UNCHANGED <<up, storeVars, xrayVars, poll, cli, crashes, moved, used,
                 revoked, gone>>

\* Xray starts again with the users of the list and without counters; when
\* the reload fails, it goes on as it was.
Apply ==
  /\ up /\ dirty
  /\ dirty' = FALSE
  /\ \/ /\ clients' = {Client(u) : u \in mem}
        /\ counter' = [i \in Ref |-> Nothing]
     \/ ReloadFails /\ UNCHANGED <<clients, counter>>
  /\ UNCHANGED <<up, storeVars, poll, cli, crashes, histVars>>
-----------------------------------------------------------------------------
(***************************************************************************)
(* Traffic and the poll.                                                   *)
(***************************************************************************)
Count(c, dir) ==
  /\ c \in clients /\ moved[c.id].rx + moved[c.id].tx < MaxBytes
  /\ counter' = [counter EXCEPT ![c.stat][dir] = @ + 1]
  /\ moved' = [moved EXCEPT ![c.id][dir] = @ + 1]
  /\ UNCHANGED <<up, storeVars, clients, dirty, poll, cli, crashes, used,
                 linkVars, gone>>

\* Xray lists the names that moved something since it started.
Listed == {i \in Ref : counter[i] # Nothing}

\* Mutant: the directions are swapped.
Swapped(c) == [rx |-> c.tx, tx |-> c.rx]

\* The aggregation of the answer: downlink to rx, uplink to tx.
Reading(c) == c

PollRead(p) ==
  /\ up /\ poll[p].todo = {} /\ Listed # {}
  /\ poll' = [poll EXCEPT ![p] =
       [todo |-> Listed, read |-> [i \in Ref |-> Reading(counter[i])]]]
  /\ UNCHANGED <<up, storeVars, xrayVars, cli, crashes, histVars>>

\* UpdateTraffic matches the uuid or the e-mail.
ByStat(S, i) == {u \in S : u.id = i \/ (u.email # NoRef /\ u.email = i)}

\* Mutant: the counters are added up.
Added(u, c) == [u EXCEPT !.rx = @ + c.rx, !.tx = @ + c.tx]

Updated(u, c) == [u EXCEPT !.rx = c.rx, !.tx = c.tx]

UpdateTraffic(S, i, c) ==
  IF ByStat(S, i) = {} THEN S
  ELSE LET u == First(ByStat(S, i)) IN (S \ {u}) \cup {Updated(u, c)}

\* Mutant: the poll ends with the first error.
StopAtError(p, i, ok) == IF ok THEN poll[p].todo \ {i} ELSE {}

\* An error is remembered and the loop goes on.
LeftAfter(p, i, ok) == poll[p].todo \ {i}

\* One call of UpdateTraffic, in any order of the names.  It fails for a user
\* it does not find, and when the flush fails.
PollUpdate(p) ==
  \E i \in poll[p].todo, ok \in FlushOutcome("poll") :
    LET found == ByStat(mem, i) # {}
        left  == LeftAfter(p, i, found /\ ok) IN
    /\ up
    /\ mem' = UpdateTraffic(mem, i, poll[p].read[i])
    /\ disk' = IF found /\ ok THEN mem' ELSE disk
    /\ poll' = [poll EXCEPT ![p] =
         IF left = {} THEN IdlePoll ELSE [@ EXCEPT !.todo = left]]
    /\ UNCHANGED <<up, nextId, nextTok, xrayVars, cli, crashes, histVars>>
-----------------------------------------------------------------------------
(***************************************************************************)
(* The command line: Open, then one command on its own copy.               *)
(***************************************************************************)
CliOpen(what) ==
  /\ Operator /\ cli.pc = "idle" /\ (Beside \/ ~up)
  /\ Open
  /\ cli' = [pc |-> what, mem |-> Backfilled(disk)]
  /\ UNCHANGED <<up, mem, nextId, xrayVars, poll, crashes, histVars>>

CliLink(ref) ==
  /\ cli.pc = "link"
  /\ cli' = IdleCli
  /\ handed' = handed \cup {Link(u) : u \in FindUser(cli.mem, ref)}
  /\ UNCHANGED <<up, storeVars, xrayVars, poll, crashes, moved, used, revoked,
                 gone>>

Rotated(u) == [u EXCEPT !.token = nextTok]

\* Mutant: the new token is not written.
RotatedInMemory(u) == disk

\* What RotateSubToken flushes: its whole copy.
RotatedFile(u) == (cli.mem \ {u}) \cup {Rotated(u)}

\* `vlr user rotate` prints that the old link is revoked, and the new one; it
\* prints nothing when the flush fails.
CliRotate(ref) ==
  /\ cli.pc = "rotate" /\ nextTok \in Token
  /\ cli' = IdleCli
  /\ nextTok' = nextTok + 1
  /\ \E u \in FindUser(cli.mem, ref), ok \in FlushOutcome("rotate") :
       /\ disk' = IF ok THEN RotatedFile(u) ELSE disk
       /\ revoked' = IF ok THEN revoked \cup {u.token} ELSE revoked
       /\ handed' = IF ok THEN handed \cup {Link(Rotated(u))} ELSE handed
  /\ UNCHANGED <<up, mem, nextId, xrayVars, poll, crashes, moved, used, gone>>

\* Nobody matches, or no token can be generated.
CliRefused(ref) ==
  /\ cli.pc = "rotate"
  /\ FindUser(cli.mem, ref) = {} \/ nextTok \notin Token
  /\ cli' = IdleCli
  /\ UNCHANGED <<up, storeVars, xrayVars, poll, crashes, histVars>>
-----------------------------------------------------------------------------
Next ==
  \/ Start \/ Crash \/ Apply
  \/ \E e \in Email \cup {NoRef} : AddUser(e)
  \/ \E r \in Ref :
       RemoveUser(r) \/ Show(r) \/ CliLink(r) \/ CliRotate(r) \/ CliRefused(r)
  \/ \E c \in clients, dir \in {"rx", "tx"} : Count(c, dir)
  \/ \E p \in Poller : PollRead(p) \/ PollUpdate(p)
  \/ \E what \in {"link", "rotate"} : CliOpen(what)

Spec == Init /\ [][Next]_vars

\* systemd starts the daemon again, the tickers fire, and goroutines run.
Fairness ==
  /\ WF_vars(Start)
  /\ \A p \in Poller : WF_vars(PollRead(p)) /\ WF_vars(PollUpdate(p))

FairSpec == Spec /\ Fairness
-----------------------------------------------------------------------------
(***************************************************************************)
(* Properties.                                                             *)
(***************************************************************************)
\* Every variable holds what the code's types and the bounds allow.
TypeOK ==
  /\ up \in BOOLEAN /\ dirty \in BOOLEAN /\ crashes \in 0 .. MaxCrashes
  /\ mem \subseteq User /\ disk \subseteq User
  /\ nextId \in NumEmails + 1 .. NumEmails + MaxUsers + 1
  /\ nextTok \in 1 .. MaxTokens + 1
  /\ clients \subseteq [id : Uuid, stat : Ref]
  /\ counter \in [Ref -> Traffic]
  /\ poll \in [Poller -> [todo : SUBSET Ref, read : [Ref -> Traffic]]]
  /\ cli.pc \in {"idle", "link", "rotate"} /\ cli.mem \subseteq User
  /\ moved \in [Uuid -> Traffic] /\ used \subseteq Email
  /\ handed \subseteq [id : Uuid, token : Token]
  /\ revoked \subseteq Token /\ gone \subseteq Uuid

\* No user is charged for traffic that is not its own, nor twice for the same:
\* whatever polls overlap and whenever Xray starts again, the stored counters
\* stay within what the user itself moved, each direction for itself.  It
\* takes that no e-mail is given to a second user, since Xray counts by e-mail.
OwnCounters ==
  \A u \in mem \cup disk : u.rx <= moved[u.id].rx /\ u.tx <= moved[u.id].tx

\* The poll keeps going when a user it read of is gone or a flush fails: when
\* the traffic ends, each user's counters come to those Xray has for it.
CaughtUp ==
  <>[](\A u \in mem : StatID(u) \in Listed
         => counter[StatID(u)] = [rx |-> u.rx, tx |-> u.tx])

\* What /base64/<token> answers from; of a stopped daemon, what it will.
Served == IF up THEN mem ELSE disk

\* A link somebody was given works through crashes and restarts until its user
\* is removed or the link is revoked.  It takes that the flush of AddUser
\* succeeds (the portal shows the user that AddUser left in memory) and that
\* no command runs beside the daemon.
LinkKept ==
  \A l \in handed :
    l.id \in gone \/ l.token \in revoked \/ \E u \in Served : Link(u) = l

\* A link that `vlr user rotate` called revoked is served by nobody any more,
\* whatever is flushed later and however often the daemon starts.  It takes
\* that the command does not run beside the daemon.
RevokedIsDead == \A u \in Served : u.token \notin revoked
=============================================================================
