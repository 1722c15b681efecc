-------------------------- MODULE UserRecordsProofs -------------------------
(***************************************************************************)
(* Proofs about UserRecords, for every number of users, e-mails, tokens,   *)
(* pollers and crashes: the types; that no user is charged for traffic of  *)
(* another; that subscription links last until they are revoked, and no    *)
(* longer.                                                                 *)
(***************************************************************************)
EXTENDS UserRecords, UserStoreProofs, FiniteSetTheorems
-----------------------------------------------------------------------------
(***************************************************************************)
(* Lists of users, and what Open and UpdateTraffic make of them.           *)
(***************************************************************************)

\* Uuids and e-mails are numbers, and different ones.
LEMMA Numbers ==
  /\ Email \subseteq Nat /\ Uuid \subseteq Nat
  /\ NoRef \notin Ref /\ Email \cap Uuid = {}
  /\ Email = 1 .. NumEmails /\ \A i \in Uuid : i > NumEmails
  /\ NoToken \notin Token /\ Token \subseteq Nat
BY RecordsAssumption DEF Email, Uuid, Ref, NoRef, NoToken, Token

\* A list is finite, younger than n, and its users are told apart by the names
\* Xray counts them under.
Unique(S)   == \A u, v \in S : StatID(u) = StatID(v) => u.id = v.id
Young(S, n) == \A u \in S : u.id < n
List(S, n)  == S \subseteq User /\ IsFiniteSet(S) /\ Unique(S) /\ Young(S, n)

Tokened(S) == \A u \in S : u.token # NoToken

\* The users of T are users of S, with other counters or tokens perhaps.
SameClients(T, S) == \A w \in T : \E u \in S : Client(w) = Client(u)

\* ... and have the counters they had there.
SameUsers(T, S) ==
  \A w \in T : \E u \in S : Client(w) = Client(u) /\ w.rx = u.rx /\ w.tx = u.tx

\* Client sees the uuid and the name.
LEMMA ClientIs ==
  ASSUME NEW u, NEW w
  PROVE  /\ Client(u) = Client(w) <=> u.id = w.id /\ StatID(u) = StatID(w)
         /\ u.id = w.id /\ u.email = w.email => Client(u) = Client(w)
BY DEF Client, StatID

\* A list made of the users of a list is a list.
LEMMA ListOfSame ==
  ASSUME NEW S, NEW T, NEW n, List(S, n), T \subseteq User, IsFiniteSet(T),
         SameClients(T, S)
  PROVE  List(T, n)
<1>1. \A w \in T : \E u \in S : w.id = u.id /\ StatID(w) = StatID(u)
  BY ClientIs DEF SameClients
<1>2. Young(T, n)
  BY <1>1 DEF List, Young
<1>3. Unique(T)
  BY <1>1 DEF List, Unique
<1> QED
  BY <1>2, <1>3 DEF List

\* A part of a list is a list.
LEMMA ListOfPart ==
  ASSUME NEW S, NEW T, NEW n, List(S, n), T \subseteq S
  PROVE  List(T, n)
<1>1. IsFiniteSet(T)
  BY FS_Subset DEF List
<1> QED
  BY <1>1 DEF List, Unique, Young

\* A list has room for a user who is younger and whose e-mail is not Taken.
LEMMA ListWithNew ==
  ASSUME NEW S, NEW n \in Nat, List(S, n), NEW u \in User, u.id = n,
         ~Taken(S, u.email)
  PROVE  List(S \cup {u}, n + 1)
<1>1. IsFiniteSet(S \cup {u})
  BY FS_AddElement DEF List
<1>2. \A v \in S : v.id \in Nat /\ v.id < n
  BY Numbers DEF List, Young, User
<1>3. Young(S \cup {u}, n + 1)
  BY <1>2 DEF Young
<1>4. \A v \in S : StatID(v) # StatID(u)
  <2> TAKE v \in S
  <2>1. v \in User
    BY DEF List
  <2>2. v.email \in Email \cup {NoRef} /\ u.email \in Email \cup {NoRef}
        /\ v.id \in Uuid /\ u.id \in Uuid
    BY <2>1 DEF User
  <2>3. v.id # u.id
    BY <1>2
  <2>4. u.email = NoRef \/ v.email # u.email
    BY DEF Taken
  <2> QED
    BY <2>2, <2>3, <2>4, Numbers DEF StatID, Ref
<1>5. Unique(S \cup {u})
  BY <1>4 DEF List, Unique
<1> QED
  BY <1>1, <1>3, <1>5 DEF List

\* How many users without a token are older than u.
Earlier(S, u) == {v \in Untokened(S) : v.id < u.id}

\* Fewer are older than u than there are, and more the younger u is.
LEMMA EarlierCount ==
  ASSUME NEW S, S \subseteq User, IsFiniteSet(S), NEW u \in Untokened(S)
  PROVE  /\ Cardinality(Earlier(S, u)) \in Nat
         /\ Cardinality(Untokened(S)) \in Nat
         /\ Cardinality(Earlier(S, u)) < Cardinality(Untokened(S))
         /\ \A w \in Untokened(S) : u.id < w.id =>
              Cardinality(Earlier(S, u)) < Cardinality(Earlier(S, w))
<1>1. IsFiniteSet(Untokened(S))
  BY FS_Subset DEF Untokened
<1>2. \A v \in Untokened(S) : IsFiniteSet(Earlier(S, v)) /\ v.id \in Nat
  BY <1>1, FS_Subset, Numbers DEF Earlier, Untokened, User
<1>3. /\ Cardinality(Untokened(S)) \in Nat
      /\ \A v \in Untokened(S) : Cardinality(Earlier(S, v)) \in Nat
  BY <1>1, <1>2, FS_CardinalityType
<1>4. u \notin Earlier(S, u)
  <2>1. u.id \in Nat /\ ~(u.id < u.id)
    BY <1>2
  <2> QED
    BY <2>1 DEF Earlier
<1>5. ASSUME NEW T, IsFiniteSet(T), Earlier(S, u) \subseteq T, u \in T
      PROVE  Cardinality(Earlier(S, u)) < Cardinality(T)
  <2>1. Earlier(S, u) \in SUBSET T /\ T # Earlier(S, u)
    BY <1>4, <1>5
  <2>2. Cardinality(Earlier(S, u)) <= Cardinality(T)
        /\ Cardinality(T) # Cardinality(Earlier(S, u))
    BY <2>1, <1>5, FS_Subset
  <2>3. Cardinality(T) \in Nat
    BY <1>5, FS_CardinalityType
  <2> QED
    BY <1>3, <2>2, <2>3
<1>6. Cardinality(Earlier(S, u)) < Cardinality(Untokened(S))
  BY <1>1, <1>5 DEF Earlier
<1>7. ASSUME NEW w \in Untokened(S), u.id < w.id
      PROVE  Cardinality(Earlier(S, u)) < Cardinality(Earlier(S, w))
  <2>1. ASSUME NEW v \in Untokened(S), v.id < u.id
        PROVE  v.id < w.id
    <3>1. v.id \in Nat /\ u.id \in Nat /\ w.id \in Nat
      BY <1>2
    <3> QED
      BY <1>7, <2>1, <3>1
  <2>2. Earlier(S, u) \subseteq Earlier(S, w) /\ u \in Earlier(S, w)
    BY <1>7, <2>1 DEF Earlier
  <2> QED
    BY <2>2, <1>2, <1>5
<1> QED
  BY <1>3, <1>6, <1>7

\* What Open makes of one user of S.
Given(S, u) ==
  IF u.token = NoToken
  THEN [u EXCEPT !.token = nextTok + Cardinality(Earlier(S, u))] ELSE u

\* Open maps every user to what it is given.
LEMMA BackfilledIs ==
  ASSUME NEW S
  PROVE  Backfilled(S) = {Given(S, u) : u \in S}
BY DEF Backfilled, Given, Earlier

\* There are tokens enough for Open.
Room(S) == nextTok + Cardinality(Untokened(S)) <= MaxTokens + 1

\* A user keeps everything but a missing token, and gets one of the next.
LEMMA GivenIs ==
  ASSUME NEW S, S \subseteq User, IsFiniteSet(S), Room(S),
         nextTok \in 1 .. MaxTokens + 1, NEW u \in S
  PROVE  /\ Given(S, u) \in User
         /\ Given(S, u).id = u.id /\ Given(S, u).email = u.email
         /\ Given(S, u).rx = u.rx /\ Given(S, u).tx = u.tx
         /\ u.token # NoToken => Given(S, u) = u
         /\ u.token = NoToken =>
              /\ Given(S, u).token = nextTok + Cardinality(Earlier(S, u))
              /\ Given(S, u).token \in nextTok .. nextTok + Cardinality(Untokened(S)) - 1
         /\ Given(S, u).token \in Token
<1>1. u \in User
  OBVIOUS
<1>2. CASE u.token # NoToken
  <2>1. Given(S, u) = u /\ u.token \in Token
    BY <1>1, <1>2 DEF Given, User
  <2> QED
    BY <1>1, <1>2, <2>1
<1>3. CASE u.token = NoToken
  <2>1. u \in Untokened(S)
    BY <1>3 DEF Untokened
  <2>2. PICK t : t = nextTok + Cardinality(Earlier(S, u))
    OBVIOUS
  <2>3. t \in nextTok .. nextTok + Cardinality(Untokened(S)) - 1
    BY <2>1, <2>2, EarlierCount
  <2>4. Cardinality(Untokened(S)) \in Nat
    BY <2>1, EarlierCount
  <2>5. t \in Token
    BY <2>3, <2>4, RecordsAssumption DEF Room, Token
  <2>6. Given(S, u) = [u EXCEPT !.token = t]
    BY <1>3, <2>2 DEF Given
  <2>7. /\ Given(S, u) \in User /\ Given(S, u).token = t
        /\ Given(S, u).id = u.id /\ Given(S, u).email = u.email
        /\ Given(S, u).rx = u.rx /\ Given(S, u).tx = u.tx
    BY <1>1, <2>5, <2>6 DEF User
  <2> QED
    BY <1>3, <2>2, <2>3, <2>5, <2>7
<1> QED
  BY <1>2, <1>3

\* Open leaves a list with tokens, of the same users with the same counters.
LEMMA BackfilledKeeps ==
  ASSUME NEW S, NEW n, List(S, n), Room(S), nextTok \in 1 .. MaxTokens + 1
  PROVE  /\ List(Backfilled(S), n)
         /\ Tokened(Backfilled(S))
         /\ SameUsers(Backfilled(S), S)
<1> DEFINE B == {Given(S, u) : u \in S}
<1>1. S \subseteq User /\ IsFiniteSet(S)
  BY DEF List
<1>2. \A u \in S : /\ Given(S, u) \in User /\ Given(S, u).token \in Token
                   /\ Given(S, u).id = u.id /\ Given(S, u).email = u.email
                   /\ Given(S, u).rx = u.rx /\ Given(S, u).tx = u.tx
  BY <1>1, GivenIs
<1>3. IsFiniteSet(B)
  <2> DEFINE f == [u \in S |-> Given(S, u)]
  <2>1. f \in Surjection(S, B)
    BY DEF Surjection
  <2> QED
    BY <1>1, <2>1, FS_Surjection
<1>4. B \subseteq User
  BY <1>2
<1>5. \A u \in S : Client(Given(S, u)) = Client(u)
  BY <1>2, ClientIs
<1>6. SameUsers(B, S) /\ SameClients(B, S)
  BY <1>2, <1>5 DEF SameUsers, SameClients
<1>7. Tokened(B)
  BY <1>2, Numbers DEF Tokened
<1>8. List(B, n)
  BY <1>3, <1>4, <1>6, ListOfSame
<1> QED
  BY <1>6, <1>7, <1>8, BackfilledIs

\* When nobody is without a token, the file is not written: it has them all.
LEMMA AfterOpenIs ==
  ASSUME disk \subseteq User
  PROVE  AfterOpen = Backfilled(disk)
<1>1. CASE Untokened(disk) = {}
  <2>1. \A u \in disk : Given(disk, u) = u
    BY <1>1 DEF Given, Untokened
  <2>2. {Given(disk, u) : u \in disk} = disk
    BY <2>1
  <2> QED
    BY <1>1, <2>2, BackfilledIs DEF AfterOpen
<1>2. CASE Untokened(disk) # {}
  BY <1>2 DEF AfterOpen
<1> QED
  BY <1>1, <1>2
-----------------------------------------------------------------------------
(***************************************************************************)
(* Types.  A counter of Xray fits its type because it is within what its   *)
(* client moved; that takes names that tell the clients apart.             *)
(***************************************************************************)

\* The lists of the daemon, of the file and of the command line.
Lists ==
  /\ List(mem, nextId) /\ List(disk, nextId) /\ List(cli.mem, nextId)
  /\ Tokened(mem) /\ Tokened(cli.mem)

Within(a, b) == a.rx <= b.rx /\ a.tx <= b.tx

\* What Xray counts under a name is the traffic of one of its clients.
Counted ==
  /\ \A c, d \in clients : c.stat = d.stat => c.id = d.id
  /\ \A c \in clients : Within(counter[c.stat], moved[c.id])
  /\ \A i \in Uuid : moved[i].rx + moved[i].tx <= MaxBytes

TypeInv == TypeOK /\ Lists /\ Counted

\* No traffic is traffic.
LEMMA NothingIs == Nothing \in Traffic /\ Nothing.rx = 0 /\ Nothing.tx = 0
BY RecordsAssumption DEF Nothing, Traffic

\* A user without counters is within everything.
LEMMA NothingWithin ==
  ASSUME NEW a \in Traffic
  PROVE  Within(Nothing, a)
BY NothingIs, RecordsAssumption DEF Within, Traffic

\* A poller at rest holds a typed reading.
LEMMA IdlePollIs ==
  ASSUME NEW p
  PROVE  IdlePoll \in [todo : SUBSET Ref, read : [Ref -> Traffic]]
BY NothingIs DEF IdlePoll

\* The name of a user is a reference.
LEMMA ClientType ==
  ASSUME NEW u \in User
  PROVE  Client(u) \in [id : Uuid, stat : Ref]
BY DEF User, Client, StatID, Ref

\* The clients of a list are told apart by their names.
LEMMA ClientsOfList ==
  ASSUME NEW S, NEW n, List(S, n), NEW C, \A c \in C : \E u \in S : c = Client(u)
  PROVE  /\ C \subseteq [id : Uuid, stat : Ref]
         /\ \A c, d \in C : c.stat = d.stat => c.id = d.id
<1>1. \A u \in S : Client(u) \in [id : Uuid, stat : Ref]
                   /\ Client(u).id = u.id /\ Client(u).stat = StatID(u)
  BY ClientType DEF List, Client
<1> QED
  BY <1>1 DEF List, Unique

\* UpdateTraffic changes the counters of one user that goes by the name, or
\* nothing.
LEMMA UpdateTrafficIs ==
  ASSUME NEW S, S \subseteq User, NEW i \in Ref, NEW c \in Traffic
  PROVE  \/ UpdateTraffic(S, i, c) = S
         \/ \E u \in ByStat(S, i) :
              /\ UpdateTraffic(S, i, c) = (S \ {u}) \cup {Updated(u, c)}
              /\ u \in S /\ i \in {u.id, StatID(u)}
<1>1. CASE ByStat(S, i) = {}
  BY <1>1 DEF UpdateTraffic
<1>2. CASE ByStat(S, i) # {}
  <2> DEFINE M == ByStat(S, i)
  <2>1. M \subseteq S /\ M # {} /\ \A v \in M : v.id \in Nat
    BY <1>2, Numbers DEF ByStat, User
  <2> HIDE DEF M
  <2>2. First(M) \in M
    BY <2>1, FirstIsThere
  <2>3. PICK u \in M : u = First(M)
    BY <2>2
  <2>4. u \in S /\ i \in {u.id, StatID(u)}
    BY <2>1, <2>3 DEF M, ByStat, StatID
  <2>5. UpdateTraffic(S, i, c) = (S \ {u}) \cup {Updated(u, c)}
    BY <1>2, <2>3 DEF UpdateTraffic, M
  <2> QED
    BY <2>3, <2>4, <2>5 DEF M
<1> QED
  BY <1>1, <1>2

\* Updated changes the counters only.
LEMMA UpdatedIs ==
  ASSUME NEW u \in User, NEW c \in Traffic
  PROVE  /\ Updated(u, c) \in User
         /\ Updated(u, c).id = u.id /\ Updated(u, c).email = u.email
         /\ Updated(u, c).token = u.token
         /\ Updated(u, c).rx = c.rx /\ Updated(u, c).tx = c.tx
         /\ Client(Updated(u, c)) = Client(u)
<1>1. /\ Updated(u, c) \in User
      /\ Updated(u, c).id = u.id /\ Updated(u, c).email = u.email
      /\ Updated(u, c).token = u.token
      /\ Updated(u, c).rx = c.rx /\ Updated(u, c).tx = c.tx
  BY DEF Updated, User, Traffic
<1> QED
  BY <1>1, ClientIs

\* An update makes no new user, and takes no token.
LEMMA UpdateTrafficKeeps ==
  ASSUME NEW S, NEW n, List(S, n), NEW i \in Ref, NEW c \in Traffic
  PROVE  /\ List(UpdateTraffic(S, i, c), n)
         /\ SameClients(UpdateTraffic(S, i, c), S)
         /\ Tokened(S) => Tokened(UpdateTraffic(S, i, c))
<1> DEFINE T == UpdateTraffic(S, i, c)
<1>0. S \subseteq User
  BY DEF List
<1>1. CASE T = S
  BY <1>1 DEF SameClients
<1>2. CASE \E u \in S : T = (S \ {u}) \cup {Updated(u, c)}
  <2>1. PICK u \in S : T = (S \ {u}) \cup {Updated(u, c)}
    BY <1>2
  <2>2. /\ Updated(u, c) \in User /\ Client(Updated(u, c)) = Client(u)
        /\ Updated(u, c).token = u.token
    BY <1>0, UpdatedIs
  <2>3. T \subseteq User /\ SameClients(T, S)
    BY <1>0, <2>1, <2>2 DEF SameClients
  <2>4. IsFiniteSet(T)
    <3>1. IsFiniteSet(S \ {u})
      BY FS_RemoveElement DEF List
    <3> QED
      BY <2>1, <3>1, FS_AddElement
  <2>5. Tokened(S) => Tokened(T)
    BY <2>1, <2>2 DEF Tokened
  <2> QED
    BY <2>3, <2>4, <2>5, ListOfSame
<1> QED
  BY <1>0, <1>1, <1>2, UpdateTrafficIs

\* The daemon is about to open a list of users without tokens.
LEMMA TypeInit == Init => TypeInv
<1> SUFFICES ASSUME Init PROVE TypeInv
  OBVIOUS
<1>1. Legacy \in Nat /\ Legacy <= NumEmails /\ Legacy <= MaxUsers
  BY RecordsAssumption
<1>2. \A u \in LegacyUsers : \E i \in 1 .. Legacy :
        u.id = NumEmails + i /\ u.email = i /\ u \in User
  <2> DEFINE L(i) == [id |-> NumEmails + i, email |-> i, ext |-> NoRef, rx |-> 0,
                      tx |-> 0, token |-> NoToken]
  <2>1. \A i \in 1 .. Legacy : L(i) \in User
    BY RecordsAssumption DEF User, Uuid, Email
  <2>2. \A i \in 1 .. Legacy : L(i).id = NumEmails + i /\ L(i).email = i
    OBVIOUS
  <2> QED
    BY <2>1, <2>2 DEF LegacyUsers
<1>3. IsFiniteSet(LegacyUsers)
  <2> DEFINE f == [i \in 1 .. Legacy |->
                     [id |-> NumEmails + i, email |-> i, ext |-> NoRef, rx |-> 0,
                      tx |-> 0, token |-> NoToken]]
  <2>1. f \in Surjection(1 .. Legacy, LegacyUsers)
    BY DEF Surjection, LegacyUsers
  <2>2. IsFiniteSet(1 .. Legacy)
    BY <1>1, FS_Interval
  <2> QED
    BY <2>1, <2>2, FS_Surjection
<1>4. \A u \in LegacyUsers : StatID(u) = u.email
  BY <1>1, <1>2 DEF StatID, NoRef
<1>5. List(LegacyUsers, nextId)
  <2>1. Unique(LegacyUsers)
    BY <1>2, <1>4 DEF Unique
  <2>2. Young(LegacyUsers, nextId)
    BY <1>1, <1>2, RecordsAssumption DEF Young, Init
  <2>3. LegacyUsers \subseteq User
    BY <1>2
  <2> QED
    BY <1>3, <2>1, <2>2, <2>3 DEF List
<1>6. List({}, nextId) /\ Tokened({})
  BY FS_EmptySet DEF List, Unique, Young, Tokened
<1>7. Lists
  BY <1>5, <1>6 DEF Lists, Init, IdleCli
<1>8. /\ clients \subseteq [id : Uuid, stat : Ref]
      /\ \A c, d \in clients : c.stat = d.stat => c.id = d.id
  <2>1. \A c \in clients : \E u \in LegacyUsers : c = Client(u)
    BY DEF Init
  <2> QED
    BY <1>5, <2>1, ClientsOfList
<1>9. /\ moved \in [Uuid -> Traffic] /\ counter \in [Ref -> Traffic]
      /\ \A i \in Uuid : moved[i] = Nothing
      /\ \A i \in Ref : counter[i] = Nothing
  BY NothingIs DEF Init
<1>10. Counted
  <2>1. \A c \in clients : Within(counter[c.stat], moved[c.id])
    BY <1>8, <1>9, NothingWithin
  <2>2. \A i \in Uuid : moved[i].rx + moved[i].tx <= MaxBytes
    BY <1>9, NothingIs, RecordsAssumption
  <2> QED
    BY <1>8, <2>1, <2>2 DEF Counted
<1>11. TypeOK
  <2>1. nextId \in NumEmails + 1 .. NumEmails + MaxUsers + 1
        /\ nextTok \in 1 .. MaxTokens + 1 /\ crashes \in 0 .. MaxCrashes
    BY <1>1, RecordsAssumption DEF Init
  <2>2. used \subseteq Email
    BY <1>1, RecordsAssumption DEF Init, Email
  <2>3. poll \in [Poller -> [todo : SUBSET Ref, read : [Ref -> Traffic]]]
    BY IdlePollIs DEF Init
  <2>4. up \in BOOLEAN /\ dirty \in BOOLEAN
    BY DEF Init
  <2>5. mem \subseteq User /\ disk \subseteq User /\ cli.mem \subseteq User
    BY <1>7 DEF Lists, List
  <2>6. cli.pc \in {"idle", "link", "rotate"}
    BY DEF Init, IdleCli
  <2>7. handed = {} /\ revoked = {} /\ gone = {}
    BY DEF Init
  <2> QED
    BY <1>8, <1>9, <2>1, <2>2, <2>3, <2>4, <2>5, <2>6, <2>7 DEF TypeOK
<1> QED
  BY <1>7, <1>10, <1>11 DEF TypeInv

\* Open writes the list it returns, with a token for everybody.
LEMMA OpenKeeps ==
  ASSUME TypeInv, Open
  PROVE  /\ disk' = Backfilled(disk)
         /\ List(disk', nextId) /\ Tokened(disk') /\ SameUsers(disk', disk)
         /\ nextTok' \in 1 .. MaxTokens + 1
<1>1. List(disk, nextId) /\ nextTok \in 1 .. MaxTokens + 1
  BY DEF TypeInv, TypeOK, Lists
<1>2. Room(disk)
  BY DEF Open, Room
<1>3. disk \subseteq User /\ IsFiniteSet(disk)
  BY <1>1 DEF List
<1>4. disk' = Backfilled(disk)
  BY <1>3, AfterOpenIs DEF Open
<1>5. /\ List(Backfilled(disk), nextId) /\ Tokened(Backfilled(disk))
      /\ SameUsers(Backfilled(disk), disk)
  BY <1>1, <1>2, BackfilledKeeps
<1>6. IsFiniteSet(Untokened(disk))
  BY <1>3, FS_Subset DEF Untokened
<1>7. Cardinality(Untokened(disk)) \in Nat
  BY <1>6, FS_CardinalityType
<1>8. nextTok' \in 1 .. MaxTokens + 1
  BY <1>1, <1>7, RecordsAssumption DEF Open
<1> QED
  BY <1>4, <1>5, <1>8

\* What the outside of the lists owes to the types.
LEMMA CountedFrame ==
  ASSUME Counted, UNCHANGED <<clients, counter, moved>>
  PROVE  Counted'
BY DEF Counted, Within

\* The steps of the daemon and of the command line, one lemma each.
LEMMA TypeStart == ASSUME TypeInv, Start PROVE TypeInv'
<1>1. disk' = Backfilled(disk) /\ List(disk', nextId) /\ Tokened(disk')
      /\ nextTok' \in 1 .. MaxTokens + 1
  BY OpenKeeps DEF Start
<1>2. mem' = disk' /\ UNCHANGED <<nextId, clients, counter, dirty, poll, cli, crashes,
        moved, used, handed, revoked, gone>> /\ up' = TRUE
  BY <1>1 DEF Start, xrayVars, histVars, linkVars
<1>3. Lists'
  BY <1>1, <1>2 DEF TypeInv, Lists
<1>4. Counted'
  BY <1>2, CountedFrame DEF TypeInv
<1>5. mem' \subseteq User /\ disk' \subseteq User
  BY <1>1, <1>2 DEF List
<1>6. TypeOK'
  BY <1>1, <1>2, <1>5 DEF TypeInv, TypeOK
<1> QED
  BY <1>3, <1>4, <1>6 DEF TypeInv

\* The command line reads what it has written.
LEMMA TypeCliOpen ==
  ASSUME TypeInv, NEW what \in {"link", "rotate"}, CliOpen(what)
  PROVE  TypeInv'
<1>1. disk' = Backfilled(disk) /\ List(disk', nextId) /\ Tokened(disk')
      /\ nextTok' \in 1 .. MaxTokens + 1
  BY OpenKeeps DEF CliOpen
<1>2. cli'.mem = disk' /\ cli'.pc = what /\ UNCHANGED <<up, mem, nextId, clients,
        counter, dirty, poll, crashes, moved, used, handed, revoked, gone>>
  BY <1>1 DEF CliOpen, xrayVars, histVars, linkVars
<1>3. Lists'
  BY <1>1, <1>2 DEF TypeInv, Lists
<1>4. Counted'
  BY <1>2, CountedFrame DEF TypeInv
<1>5. cli'.mem \subseteq User /\ disk' \subseteq User
  BY <1>1, <1>2 DEF List
<1>6. TypeOK'
  BY <1>1, <1>2, <1>5 DEF TypeInv, TypeOK
<1> QED
  BY <1>3, <1>4, <1>6 DEF TypeInv

\* Nobody is a list.
LEMMA EmptyList ==
  ASSUME NEW n
  PROVE  List({}, n) /\ Tokened({})
BY FS_EmptySet DEF List, Unique, Young, Tokened

\* A crash empties the memory.
LEMMA TypeCrash == ASSUME TypeInv, Crash PROVE TypeInv'
<1>1. mem' = {} /\ UNCHANGED <<disk, nextId, nextTok, clients, counter, cli,
        moved, used, handed, revoked, gone>> /\ up' = FALSE /\ dirty' = FALSE
  BY DEF Crash, histVars, linkVars
<1>2. Lists'
  BY <1>1, EmptyList DEF TypeInv, Lists
<1>3. Counted'
  BY <1>1, CountedFrame DEF TypeInv
<1>4. poll' \in [Poller -> [todo : SUBSET Ref, read : [Ref -> Traffic]]]
  BY IdlePollIs DEF Crash
<1>5. crashes' \in 0 .. MaxCrashes
  BY RecordsAssumption DEF Crash, TypeInv, TypeOK
<1>6. TypeOK'
  BY <1>1, <1>4, <1>5 DEF TypeInv, TypeOK
<1> QED
  BY <1>2, <1>3, <1>6 DEF TypeInv

\* A handler or a poll replaces the daemon's list, and the file by it or not.
LEMMA MemChanges ==
  ASSUME Lists, nextId' = nextId, cli' = cli,
         List(mem', nextId), Tokened(mem'), disk' = mem' \/ disk' = disk
  PROVE  Lists' /\ mem' \subseteq User /\ disk' \subseteq User
<1>1. Lists'
  BY DEF Lists
<1>2. mem' \subseteq User /\ disk' \subseteq User
  BY DEF Lists, List
<1> QED
  BY <1>1, <1>2

\* The user a creation makes.
LEMMA NewUserIs ==
  ASSUME TypeOK, NEW email \in Email \cup {NoRef}, nextId \in Uuid, nextTok \in Token
  PROVE  /\ NewUser(email) \in User
         /\ NewUser(email).id = nextId /\ NewUser(email).email = email
         /\ NewUser(email).token = nextTok
         /\ NewUser(email).rx = 0 /\ NewUser(email).tx = 0
BY RecordsAssumption DEF NewUser, User

\* The link of a user with a token.
LEMMA LinkIs ==
  ASSUME NEW u \in User, u.token # NoToken
  PROVE  Link(u) \in [id : Uuid, token : Token]
BY DEF Link, User

\* A creation puts one younger user in the list.
LEMMA TypeAddUser ==
  ASSUME TypeInv, NEW email \in Email \cup {NoRef}, AddUser(email)
  PROVE  TypeInv'
<1> DEFINE u == NewUser(email)
<1>1. nextId \in Uuid /\ nextTok \in Token /\ ~Taken(mem, email)
  BY DEF AddUser
<1>2. u \in User /\ u.id = nextId /\ u.email = email /\ u.token = nextTok
  BY <1>1, NewUserIs DEF TypeInv
<1> HIDE DEF u
<1>3. /\ mem' = mem \cup {u} /\ nextId' = nextId + 1 /\ nextTok' = nextTok + 1
      /\ used' = used \cup ({email} \ {NoRef})
      /\ disk' = mem' \/ disk' = disk
      /\ handed' \subseteq handed \cup {Link(u)}
      /\ UNCHANGED <<up, clients, counter, poll, cli, crashes, moved, revoked, gone>>
  BY DEF AddUser, u
<1>4. dirty' \in BOOLEAN
  BY DEF AddUser, FlushOutcome, TypeInv, TypeOK
<1>5. nextId \in Nat
  BY <1>1, Numbers
<1>6. List(mem', nextId')
  BY <1>1, <1>2, <1>3, <1>5, ListWithNew DEF TypeInv, Lists
<1>7. ASSUME NEW S, List(S, nextId)
      PROVE  List(S, nextId')
  <2>1. \A v \in S : v.id \in Nat
    BY <1>7, Numbers DEF List, User
  <2> QED
    BY <1>3, <1>5, <1>7, <2>1 DEF List, Young
<1>8. Tokened(mem')
  BY <1>1, <1>2, <1>3, Numbers DEF TypeInv, Lists, Tokened
<1>9. List(disk, nextId') /\ List(cli.mem, nextId')
  BY <1>7 DEF TypeInv, Lists
<1>10. Lists'
  BY <1>3, <1>6, <1>8, <1>9 DEF Lists, TypeInv
<1>11. Counted'
  BY <1>3, CountedFrame DEF TypeInv
<1>12. nextId' \in NumEmails + 1 .. NumEmails + MaxUsers + 1
       /\ nextTok' \in 1 .. MaxTokens + 1
  BY <1>1, <1>3, RecordsAssumption DEF Uuid, Token
<1>13. used' \subseteq Email
  BY <1>3 DEF TypeInv, TypeOK
<1>14. handed' \subseteq [id : Uuid, token : Token]
  <2>1. Link(u) \in [id : Uuid, token : Token]
    BY <1>1, <1>2, Numbers, LinkIs
  <2> QED
    BY <1>3, <2>1 DEF TypeInv, TypeOK
<1>15. mem' \subseteq User /\ disk' \subseteq User
  BY <1>10 DEF Lists, List
<1>16. TypeOK'
  BY <1>3, <1>4, <1>12, <1>13, <1>14, <1>15 DEF TypeInv, TypeOK
<1> QED
  BY <1>10, <1>11, <1>16 DEF TypeInv

\* A user that a look-up finds is in the list.
LEMMA FoundIs ==
  ASSUME NEW S, S \subseteq User, NEW ref, NEW u \in FindUser(S, ref)
  PROVE  u \in S /\ u \in User
<1>1. \A v \in S : v.id \in Nat
  BY Numbers DEF User
<1> QED
  BY <1>1, FindUserFinds

\* A removal leaves a part of the list.
LEMMA TypeRemoveUser ==
  ASSUME TypeInv, NEW ref \in Ref, RemoveUser(ref)
  PROVE  TypeInv'
<1>1. PICK u \in FindUser(mem, ref), ok \in FlushOutcome("remove") :
        /\ mem' = mem \ {u} /\ gone' = gone \cup {u.id}
        /\ disk' = IF ok THEN mem' ELSE disk
        /\ dirty' = (dirty \/ ok)
  BY DEF RemoveUser
<1>2. UNCHANGED <<up, nextId, nextTok, clients, counter, poll, cli, crashes,
                  moved, used, handed, revoked>>
  BY DEF RemoveUser, linkVars
<1>3. List(mem, nextId) /\ Tokened(mem) /\ mem \subseteq User
  BY DEF TypeInv, Lists, List
<1>4. u \in User
  BY <1>3, FoundIs
<1>5. List(mem', nextId) /\ Tokened(mem')
  BY <1>1, <1>3, ListOfPart DEF Tokened
<1>6. disk' = mem' \/ disk' = disk
  BY <1>1
<1>7. Lists' /\ mem' \subseteq User /\ disk' \subseteq User
  BY <1>2, <1>5, <1>6, MemChanges DEF TypeInv
<1>8. Counted'
  BY <1>2, CountedFrame DEF TypeInv
<1>9. dirty' \in BOOLEAN
  BY <1>1 DEF FlushOutcome, TypeInv, TypeOK
<1>10. gone' \subseteq Uuid
  BY <1>1, <1>4 DEF User, TypeInv, TypeOK
<1>11. TypeOK'
  BY <1>2, <1>7, <1>9, <1>10 DEF TypeInv, TypeOK
<1> QED
  BY <1>7, <1>8, <1>11 DEF TypeInv

\* What shows links and leaves the lists keeps the types.
LEMMA TypeShow ==
  ASSUME TypeInv, NEW ref \in Ref, Show(ref)
  PROVE  TypeInv'
<1>1. PICK u \in FindUser(mem, ref) : handed' = handed \cup {Link(u)}
  BY DEF Show
<1>2. UNCHANGED <<up, mem, disk, nextId, nextTok, clients, counter, dirty, poll, cli,
                  crashes, moved, used, revoked, gone>>
  BY DEF Show, storeVars, xrayVars
<1>3. u \in mem /\ u \in User
  BY FoundIs DEF TypeInv, TypeOK
<1>4. Link(u) \in [id : Uuid, token : Token]
  BY <1>3, LinkIs DEF TypeInv, Lists, Tokened
<1>5. Lists' /\ Counted'
  BY <1>2, CountedFrame DEF TypeInv, Lists
<1>6. TypeOK'
  BY <1>1, <1>2, <1>4 DEF TypeInv, TypeOK
<1> QED
  BY <1>5, <1>6 DEF TypeInv

\* A link that is printed has a token: Open has seen to it.
LEMMA TypeCliLink ==
  ASSUME TypeInv, NEW ref \in Ref, CliLink(ref)
  PROVE  TypeInv'
<1>1. handed' = handed \cup {Link(u) : u \in FindUser(cli.mem, ref)}
      /\ cli'.pc = "idle" /\ cli'.mem = {}
  BY DEF CliLink, IdleCli
<1>2. UNCHANGED <<up, mem, disk, nextId, nextTok, clients, counter, dirty, poll,
                  crashes, moved, used, revoked, gone>>
  BY DEF CliLink, storeVars, xrayVars
<1>3. \A u \in FindUser(cli.mem, ref) : u \in cli.mem /\ u \in User
  BY FoundIs DEF TypeInv, TypeOK
<1>4. \A u \in FindUser(cli.mem, ref) : Link(u) \in [id : Uuid, token : Token]
  BY <1>3, LinkIs DEF TypeInv, Lists, Tokened
<1>5. Lists' /\ Counted'
  BY <1>1, <1>2, CountedFrame, EmptyList DEF TypeInv, Lists
<1>6. TypeOK'
  BY <1>1, <1>2, <1>4 DEF TypeInv, TypeOK
<1> QED
  BY <1>5, <1>6 DEF TypeInv

\* A refused command changes nothing.
LEMMA TypeCliRefused ==
  ASSUME TypeInv, NEW ref \in Ref, CliRefused(ref)
  PROVE  TypeInv'
<1>1. cli'.pc = "idle" /\ cli'.mem = {}
  BY DEF CliRefused, IdleCli
<1>2. UNCHANGED <<up, mem, disk, nextId, nextTok, clients, counter, dirty, poll,
                  crashes, moved, used, handed, revoked, gone>>
  BY DEF CliRefused, storeVars, xrayVars, histVars, linkVars
<1>3. Lists' /\ Counted'
  BY <1>1, <1>2, CountedFrame, EmptyList DEF TypeInv, Lists
<1>4. TypeOK'
  BY <1>1, <1>2 DEF TypeInv, TypeOK
<1> QED
  BY <1>3, <1>4 DEF TypeInv

\* A rotation replaces one token by the next.
LEMMA RotatedIs ==
  ASSUME NEW u \in User, nextTok \in Token
  PROVE  /\ Rotated(u) \in User /\ Rotated(u).token = nextTok
         /\ Rotated(u).id = u.id /\ Rotated(u).email = u.email
         /\ Rotated(u).rx = u.rx /\ Rotated(u).tx = u.tx
         /\ Client(Rotated(u)) = Client(u)
<1>1. /\ Rotated(u) \in User /\ Rotated(u).token = nextTok
      /\ Rotated(u).id = u.id /\ Rotated(u).email = u.email
      /\ Rotated(u).rx = u.rx /\ Rotated(u).tx = u.tx
  BY DEF Rotated, User
<1> QED
  BY <1>1, ClientIs

\* A rotation writes the list with one more token.
LEMMA TypeCliRotate ==
  ASSUME TypeInv, NEW ref \in Ref, CliRotate(ref)
  PROVE  TypeInv'
<1>1. PICK u \in FindUser(cli.mem, ref), ok \in FlushOutcome("rotate") :
        /\ disk' = IF ok THEN RotatedFile(u) ELSE disk
        /\ revoked' = IF ok THEN revoked \cup {u.token} ELSE revoked
        /\ handed' = IF ok THEN handed \cup {Link(Rotated(u))} ELSE handed
  BY DEF CliRotate
<1>2. cli'.pc = "idle" /\ cli'.mem = {} /\ nextTok' = nextTok + 1 /\ nextTok \in Token
  BY DEF CliRotate, IdleCli
<1>3. UNCHANGED <<up, mem, nextId, clients, counter, dirty, poll,
                  crashes, moved, used, gone>>
  BY DEF CliRotate, xrayVars
<1>4. u \in cli.mem /\ u \in User /\ u.token \in Token
  <2>1. u \in cli.mem /\ u \in User
    BY FoundIs DEF TypeInv, TypeOK
  <2> QED
    BY <2>1 DEF TypeInv, Lists, Tokened, User
<1>5. /\ Rotated(u) \in User /\ Rotated(u).token = nextTok
      /\ Client(Rotated(u)) = Client(u)
  BY <1>2, <1>4, RotatedIs
<1>6. List(RotatedFile(u), nextId)
  <2>1. List(cli.mem, nextId)
    BY DEF TypeInv, Lists
  <2>2. RotatedFile(u) \subseteq User /\ SameClients(RotatedFile(u), cli.mem)
    BY <1>4, <1>5, <2>1 DEF RotatedFile, SameClients, List
  <2>3. IsFiniteSet(cli.mem \ {u})
    BY <2>1, FS_RemoveElement DEF List
  <2>4. IsFiniteSet(RotatedFile(u))
    BY <2>3, FS_AddElement DEF RotatedFile
  <2> QED
    BY <2>1, <2>2, <2>4, ListOfSame
<1>7. List(disk', nextId)
  BY <1>1, <1>6 DEF TypeInv, Lists
<1>8. Lists'
  BY <1>2, <1>3, <1>7, EmptyList DEF TypeInv, Lists
<1>9. Counted'
  BY <1>3, CountedFrame DEF TypeInv
<1>10. Link(Rotated(u)) \in [id : Uuid, token : Token]
  BY <1>2, <1>5, LinkIs, Numbers
<1>11. nextTok' \in 1 .. MaxTokens + 1
  BY <1>2, RecordsAssumption DEF Token
<1>12. disk' \subseteq User
  BY <1>7 DEF List
<1>13. revoked' \subseteq Token /\ handed' \subseteq [id : Uuid, token : Token]
  BY <1>1, <1>4, <1>10 DEF TypeInv, TypeOK
<1>14. TypeOK'
  BY <1>2, <1>3, <1>11, <1>12, <1>13 DEF TypeInv, TypeOK
<1> QED
  BY <1>8, <1>9, <1>14 DEF TypeInv

\* Xray starts again with a list and without counters.
LEMMA TypeApply == ASSUME TypeInv, Apply PROVE TypeInv'
<1>1. UNCHANGED <<up, mem, disk, nextId, nextTok, poll, cli, crashes,
                  moved, used, handed, revoked, gone>> /\ dirty' = FALSE
  BY DEF Apply, storeVars, histVars, linkVars
<1>2. Lists'
  BY <1>1 DEF TypeInv, Lists
<1>3. counter' \in [Ref -> Traffic] /\ clients' \subseteq [id : Uuid, stat : Ref]
      /\ Counted'
  <2>1. CASE UNCHANGED <<clients, counter>>
    BY <1>1, <2>1, CountedFrame DEF TypeInv, TypeOK
  <2>2. CASE clients' = {Client(u) : u \in mem} /\ counter' = [i \in Ref |-> Nothing]
    <3>1. /\ clients' \subseteq [id : Uuid, stat : Ref]
          /\ \A c, d \in clients' : c.stat = d.stat => c.id = d.id
      <4>1. \A c \in clients' : \E u \in mem : c = Client(u)
        BY <2>2
      <4> QED
        BY <4>1, ClientsOfList DEF TypeInv, Lists
    <3>2. counter' \in [Ref -> Traffic] /\ \A i \in Ref : counter'[i] = Nothing
      BY <2>2, NothingIs
    <3>3. \A c \in clients' : Within(counter'[c.stat], moved'[c.id])
      BY <1>1, <3>1, <3>2, NothingWithin DEF TypeInv, TypeOK
    <3> QED
      BY <1>1, <3>1, <3>2, <3>3 DEF Counted, TypeInv
  <2> QED
    BY <2>1, <2>2 DEF Apply
<1>4. TypeOK'
  BY <1>1, <1>3 DEF TypeInv, TypeOK
<1> QED
  BY <1>2, <1>3, <1>4 DEF TypeInv

\* One more unit in one direction, at one place of a table of traffic.
Plus(t, dir) == [t EXCEPT ![dir] = @ + 1]

\* One direction grows by one, the other stays.
LEMMA PlusIs ==
  ASSUME NEW t \in Traffic, NEW dir \in {"rx", "tx"}
  PROVE  /\ t.rx \in Nat /\ t.tx \in Nat
         /\ Plus(t, dir).rx = IF dir = "rx" THEN t.rx + 1 ELSE t.rx
         /\ Plus(t, dir).tx = IF dir = "tx" THEN t.tx + 1 ELSE t.tx
         /\ Plus(t, dir) = [rx |-> Plus(t, dir).rx, tx |-> Plus(t, dir).tx]
<1>1. t.rx \in Nat /\ t.tx \in Nat
  BY RecordsAssumption DEF Traffic
<1>2. CASE dir = "rx"
  <2>1. Plus(t, dir) = [t EXCEPT !["rx"] = t["rx"] + 1]
    BY <1>2 DEF Plus
  <2>2. Plus(t, dir) = [rx |-> t.rx + 1, tx |-> t.tx]
    BY <2>1 DEF Traffic
  <2> QED
    BY <1>1, <1>2, <2>2
<1>3. CASE dir = "tx"
  <2>1. Plus(t, dir) = [t EXCEPT !["tx"] = t["tx"] + 1]
    BY <1>3 DEF Plus
  <2>2. Plus(t, dir) = [rx |-> t.rx, tx |-> t.tx + 1]
    BY <2>1 DEF Traffic
  <2> QED
    BY <1>1, <1>3, <2>2
<1> QED
  BY <1>2, <1>3

\* What traffic does to the two tables.
LEMMA CountIs ==
  ASSUME TypeInv, NEW c \in clients, NEW dir \in {"rx", "tx"}, Count(c, dir)
  PROVE  /\ \A i \in Ref : counter'[i] = IF i = c.stat THEN Plus(counter[i], dir)
                                         ELSE counter[i]
         /\ \A i \in Uuid : moved'[i] = IF i = c.id THEN Plus(moved[i], dir)
                                        ELSE moved[i]
         /\ counter' \in [Ref -> Traffic] /\ moved' \in [Uuid -> Traffic]
         /\ \A i \in Uuid : moved'[i].rx + moved'[i].tx <= MaxBytes
         /\ \A i \in Uuid : Within(moved[i], moved'[i])
         /\ Within(counter'[c.stat], moved'[c.id])
<1>1. c.stat \in Ref /\ c.id \in Uuid
  BY DEF TypeInv, TypeOK
<1>2. counter \in [Ref -> Traffic] /\ moved \in [Uuid -> Traffic]
  BY DEF TypeInv, TypeOK
<1>3. counter' = [counter EXCEPT ![c.stat] = Plus(counter[c.stat], dir)]
      /\ moved' = [moved EXCEPT ![c.id] = Plus(moved[c.id], dir)]
  BY DEF Count, Plus
<1>4. PICK m, k : m = moved[c.id] /\ k = counter[c.stat]
  OBVIOUS
<1>5. m \in Traffic /\ k \in Traffic /\ Within(k, m) /\ m.rx + m.tx < MaxBytes
  BY <1>1, <1>2, <1>4 DEF TypeInv, Counted, Count
<1>6. /\ Within(Plus(k, dir), Plus(m, dir)) /\ Within(m, Plus(m, dir))
      /\ Plus(m, dir).rx + Plus(m, dir).tx <= MaxBytes
  BY PlusIs, <1>5, RecordsAssumption DEF Within
<1>7. Plus(k, dir) \in Traffic /\ Plus(m, dir) \in Traffic
  <2>1. /\ Plus(m, dir).rx \in 0 .. MaxBytes /\ Plus(m, dir).tx \in 0 .. MaxBytes
        /\ Plus(k, dir).rx \in 0 .. MaxBytes /\ Plus(k, dir).tx \in 0 .. MaxBytes
    BY PlusIs, <1>5, <1>6, RecordsAssumption DEF Within
  <2> QED
    BY PlusIs, <1>5, <2>1 DEF Traffic
<1>8. /\ counter' \in [Ref -> Traffic] /\ moved' \in [Uuid -> Traffic]
      /\ \A i \in Ref : counter'[i] = IF i = c.stat THEN Plus(k, dir) ELSE counter[i]
      /\ \A j \in Uuid : moved'[j] = IF j = c.id THEN Plus(m, dir) ELSE moved[j]
  BY <1>1, <1>2, <1>3, <1>4, <1>7
<1>9. \A i \in Uuid : moved'[i].rx + moved'[i].tx <= MaxBytes
  BY <1>6, <1>8 DEF TypeInv, Counted
<1>10. \A i \in Uuid : Within(moved[i], moved'[i])
  <2>1. \A i \in Uuid : Within(moved[i], moved[i])
    BY <1>2, PlusIs DEF Within
  <2> QED
    BY <1>4, <1>6, <1>8, <2>1
<1>11. Within(counter'[c.stat], moved'[c.id])
  BY <1>1, <1>6, <1>8
<1> QED
  BY <1>4, <1>8, <1>9, <1>10, <1>11

\* Within is transitive.
LEMMA WithinTrans ==
  ASSUME NEW a \in Traffic, NEW b \in Traffic, NEW c \in Traffic,
         Within(a, b), Within(b, c)
  PROVE  Within(a, c)
BY RecordsAssumption DEF Within, Traffic

\* Traffic is counted for both tables at once, so the bound on what a client
\* moves bounds what is counted.
LEMMA TypeCount ==
  ASSUME TypeInv, NEW c \in clients, NEW dir \in {"rx", "tx"}, Count(c, dir)
  PROVE  TypeInv'
<1>1. UNCHANGED <<up, mem, disk, nextId, nextTok, clients, dirty, poll, cli, crashes,
                  used, handed, revoked, gone>>
  BY DEF Count, storeVars, linkVars
<1>2. Lists'
  BY <1>1 DEF TypeInv, Lists
<1>3. counter' \in [Ref -> Traffic] /\ moved' \in [Uuid -> Traffic]
  BY CountIs
<1>4. TypeOK'
  BY <1>1, <1>3 DEF TypeInv, TypeOK
<1>5. ASSUME NEW d \in clients
      PROVE  Within(counter'[d.stat], moved'[d.id])
  <2>1. d.stat \in Ref /\ d.id \in Uuid
    BY DEF TypeInv, TypeOK
  <2>2. CASE d.stat = c.stat
    <3>1. d.id = c.id
      BY <2>2 DEF TypeInv, Counted
    <3> QED
      BY <2>2, <3>1, CountIs
  <2>3. CASE d.stat # c.stat
    <3>1. counter'[d.stat] = counter[d.stat]
      BY <2>1, <2>3, CountIs
    <3>2. Within(counter[d.stat], moved[d.id]) /\ Within(moved[d.id], moved'[d.id])
      BY <2>1, CountIs DEF TypeInv, Counted
    <3>3. /\ counter[d.stat] \in Traffic
          /\ moved[d.id] \in Traffic /\ moved'[d.id] \in Traffic
      BY <1>3, <2>1 DEF TypeInv, TypeOK
    <3> QED
      BY <3>1, <3>2, <3>3, WithinTrans
  <2> QED
    BY <2>2, <2>3
<1>6. \A i \in Uuid : moved'[i].rx + moved'[i].tx <= MaxBytes
  BY CountIs
<1>7. Counted'
  BY <1>1, <1>5, <1>6 DEF Counted, TypeInv
<1> QED
  BY <1>2, <1>4, <1>7 DEF TypeInv

\* A poll reads typed counters.
LEMMA TypePollRead ==
  ASSUME TypeInv, NEW p \in Poller, PollRead(p)
  PROVE  TypeInv'
<1>1. UNCHANGED <<up, mem, disk, nextId, nextTok, clients, counter, dirty, cli,
                  crashes, moved, used, handed, revoked, gone>>
  BY DEF PollRead, storeVars, xrayVars, histVars, linkVars
<1>2. Lists' /\ Counted'
  BY <1>1, CountedFrame DEF TypeInv, Lists
<1>3. [i \in Ref |-> Reading(counter[i])] \in [Ref -> Traffic] /\ Listed \subseteq Ref
  BY DEF Reading, Listed, TypeInv, TypeOK
<1>4. poll' \in [Poller -> [todo : SUBSET Ref, read : [Ref -> Traffic]]]
  BY <1>3 DEF PollRead, TypeInv, TypeOK
<1>5. TypeOK'
  BY <1>1, <1>4 DEF TypeInv, TypeOK
<1> QED
  BY <1>2, <1>5 DEF TypeInv

\* A poller that updates one user goes on with the names left.
LEMMA PollUpdateIs ==
  ASSUME TypeInv, NEW p \in Poller, PollUpdate(p)
  PROVE  /\ \E i \in poll[p].todo :
              /\ i \in Ref /\ poll[p].read[i] \in Traffic
              /\ mem' = UpdateTraffic(mem, i, poll[p].read[i])
         /\ disk' = mem' \/ disk' = disk
         /\ UNCHANGED <<up, nextId, nextTok, clients, counter, dirty, cli, crashes,
                        moved, used, handed, revoked, gone>>
         /\ poll' \in [Poller -> [todo : SUBSET Ref, read : [Ref -> Traffic]]]
         /\ \A q \in Poller : poll'[q].read = poll[q].read \/ poll'[q] = IdlePoll
<1>1. PICK i \in poll[p].todo :
        /\ mem' = UpdateTraffic(mem, i, poll[p].read[i])
        /\ disk' = mem' \/ disk' = disk
        /\ \E left \in SUBSET poll[p].todo :
             poll' = [poll EXCEPT ![p] =
               IF left = {} THEN IdlePoll ELSE [@ EXCEPT !.todo = left]]
  BY DEF PollUpdate, LeftAfter
<1>2. /\ poll[p] \in [todo : SUBSET Ref, read : [Ref -> Traffic]]
      /\ poll \in [Poller -> [todo : SUBSET Ref, read : [Ref -> Traffic]]]
  BY DEF TypeInv, TypeOK
<1>3. i \in Ref /\ poll[p].read[i] \in Traffic
  BY <1>1, <1>2
<1>4. PICK left \in SUBSET poll[p].todo :
        poll' = [poll EXCEPT ![p] =
          IF left = {} THEN IdlePoll ELSE [@ EXCEPT !.todo = left]]
  BY <1>1
<1>5. PICK r : r = IF left = {} THEN IdlePoll ELSE [poll[p] EXCEPT !.todo = left]
  OBVIOUS
<1>6. r \in [todo : SUBSET Ref, read : [Ref -> Traffic]]
      /\ (r.read = poll[p].read \/ r = IdlePoll)
  BY <1>2, <1>4, <1>5, IdlePollIs
<1>7. poll' = [poll EXCEPT ![p] = r]
  BY <1>4, <1>5
<1>8. /\ poll' \in [Poller -> [todo : SUBSET Ref, read : [Ref -> Traffic]]]
      /\ \A q \in Poller : poll'[q].read = poll[q].read \/ poll'[q] = IdlePoll
  BY <1>2, <1>6, <1>7
<1>9. UNCHANGED <<up, nextId, nextTok, clients, counter, dirty, cli, crashes,
                  moved, used, handed, revoked, gone>>
  BY DEF PollUpdate, xrayVars, histVars, linkVars
<1> QED
  BY <1>1, <1>3, <1>8, <1>9

\* An update stores a typed reading.
LEMMA TypePollUpdate ==
  ASSUME TypeInv, NEW p \in Poller, PollUpdate(p)
  PROVE  TypeInv'
<1>1. PICK i \in Ref :
        /\ poll[p].read[i] \in Traffic
        /\ mem' = UpdateTraffic(mem, i, poll[p].read[i])
  BY PollUpdateIs
<1>2. UNCHANGED <<up, nextId, nextTok, clients, counter, dirty, cli, crashes,
                  moved, used, handed, revoked, gone>>
      /\ (disk' = mem' \/ disk' = disk)
      /\ poll' \in [Poller -> [todo : SUBSET Ref, read : [Ref -> Traffic]]]
  BY PollUpdateIs
<1>3. List(mem', nextId) /\ Tokened(mem')
  BY <1>1, UpdateTrafficKeeps DEF TypeInv, Lists
<1>4. Lists' /\ mem' \subseteq User /\ disk' \subseteq User
  BY <1>2, <1>3, MemChanges DEF TypeInv
<1>5. Counted'
  BY <1>2, CountedFrame DEF TypeInv
<1>6. TypeOK'
  BY <1>2, <1>4 DEF TypeInv, TypeOK
<1> QED
  BY <1>4, <1>5, <1>6 DEF TypeInv

\* A stuttering step.
LEMMA TypeStutter == ASSUME TypeInv, UNCHANGED vars PROVE TypeInv'
<1>1. UNCHANGED <<up, mem, disk, nextId, nextTok, clients, counter, dirty, poll, cli,
                  crashes, moved, used, handed, revoked, gone>>
  BY DEF vars, storeVars, xrayVars, histVars, linkVars
<1>2. Lists' /\ Counted' /\ TypeOK'
  BY <1>1, CountedFrame DEF TypeInv, Lists, TypeOK
<1> QED
  BY <1>2 DEF TypeInv

\* Every step keeps the types.
LEMMA TypeNext == ASSUME TypeInv, [Next]_vars PROVE TypeInv'
<1>1. CASE Start
  BY <1>1, TypeStart
<1>2. CASE Crash
  BY <1>2, TypeCrash
<1>3. CASE Apply
  BY <1>3, TypeApply
<1>4. CASE \E e \in Email \cup {NoRef} : AddUser(e)
  BY <1>4, TypeAddUser
<1>5. CASE \E r \in Ref : RemoveUser(r)
  BY <1>5, TypeRemoveUser
<1>6. CASE \E r \in Ref : Show(r)
  BY <1>6, TypeShow
<1>7. CASE \E r \in Ref : CliLink(r)
  BY <1>7, TypeCliLink
<1>8. CASE \E r \in Ref : CliRotate(r)
  BY <1>8, TypeCliRotate
<1>9. CASE \E r \in Ref : CliRefused(r)
  BY <1>9, TypeCliRefused
<1>10. CASE \E c \in clients, dir \in {"rx", "tx"} : Count(c, dir)
  BY <1>10, TypeCount
<1>11. CASE \E p \in Poller : PollRead(p)
  BY <1>11, TypePollRead
<1>12. CASE \E p \in Poller : PollUpdate(p)
  BY <1>12, TypePollUpdate
<1>13. CASE \E what \in {"link", "rotate"} : CliOpen(what)
  BY <1>13, TypeCliOpen
<1>14. CASE UNCHANGED vars
  BY <1>14, TypeStutter
<1> QED
  BY <1>1, <1>2, <1>3, <1>4, <1>5, <1>6, <1>7, <1>8, <1>9, <1>10, <1>11, <1>12,
     <1>13, <1>14 DEF Next

\* The inductive invariant holds throughout.
LEMMA TypesHold == Spec => []TypeInv
<1>1. Init => TypeInv
  BY TypeInit
<1>2. TypeInv /\ [Next]_vars => TypeInv'
  BY TypeNext
<1> QED
  BY <1>1, <1>2, PTL DEF Spec

\* Every variable of the daemon, the command line, the file and Xray keeps the
\* types of the code, with any number of users, polls and crashes.
THEOREM TypeCorrect == Spec => []TypeOK
<1>1. TypeInv => TypeOK
  BY DEF TypeInv
<1> QED
  BY <1>1, TypesHold, PTL
-----------------------------------------------------------------------------
(***************************************************************************)
(* Counters.  A name was given to one user, for ever; so whatever is       *)
(* counted or was read under a name, however late it is stored, is traffic *)
(* of the user it is stored to.                                            *)
(***************************************************************************)

Everyone == mem \cup disk \cup cli.mem

\* Whom a name stands for: the users of the lists, and the clients of Xray,
\* which may be users that were removed since it started.
Named == {Client(u) : u \in Everyone} \cup clients

\* The names given so far.
Known == used \cup {i \in Uuid : i < nextId}

\* Each name is one user's, was given once, and is an e-mail or the user's uuid.
OneOwner(N, K) ==
  /\ \A c, d \in N : c.stat = d.stat => c.id = d.id
  /\ \A c \in N : c.stat \in K /\ (c.stat \in Email \/ c.stat = c.id)

\* A table of traffic by name, of Xray or read by a poll some time ago, has
\* nothing of a user that the user did not move.
Bounded(f, N, m, K) ==
  /\ \A c \in N : Within(f[c.stat], m[c.id])
  /\ \A i \in Uuid : Within(f[i], m[i])
  /\ \A i \in Ref \ K : f[i] = Nothing

OwnInv ==
  /\ OneOwner(Named, Known)
  /\ Bounded(counter, Named, moved, Known)
  /\ \A p \in Poller : Bounded(poll[p].read, Named, moved, Known)
  /\ \A u \in Everyone : Within(u, moved[u.id])

Table == [Ref -> Traffic]
NoTraffic == [i \in Ref |-> Nothing]

\* Names are of uuids.
LEMMA NamedTypes ==
  ASSUME TypeInv
  PROVE  /\ Everyone \subseteq User
         /\ Named \subseteq [id : Uuid, stat : Ref]
         /\ counter \in Table /\ moved \in [Uuid -> Traffic]
         /\ \A p \in Poller : poll[p].read \in Table
<1>1. Everyone \subseteq User
  BY DEF Everyone, TypeInv, TypeOK
<1>2. Named \subseteq [id : Uuid, stat : Ref]
  BY <1>1, ClientType DEF Named, TypeInv, TypeOK
<1> QED
  BY <1>1, <1>2 DEF TypeInv, TypeOK, Table

\* A table without traffic charges nobody.
LEMMA NoTrafficBounded ==
  ASSUME NEW N, N \subseteq [id : Uuid, stat : Ref], NEW K,
         NEW m \in [Uuid -> Traffic]
  PROVE  Bounded(NoTraffic, N, m, K)
<1>1. \A i \in Ref : NoTraffic[i] = Nothing
  BY DEF NoTraffic
<1>2. \A i \in Uuid : i \in Ref /\ m[i] \in Traffic
  BY DEF Ref
<1>3. \A c \in N : c.stat \in Ref /\ c.id \in Uuid
  OBVIOUS
<1> QED
  BY <1>1, <1>2, <1>3, NothingWithin DEF Bounded

\* Fewer names need less.
LEMMA BoundedFewer ==
  ASSUME NEW f, NEW N, NEW m, NEW K, Bounded(f, N, m, K), NEW M, M \subseteq N
  PROVE  Bounded(f, M, m, K)
BY DEF Bounded

\* A name given to a new user had no traffic.
LEMMA BoundedOneMore ==
  ASSUME NEW f \in Table, NEW N, NEW m \in [Uuid -> Traffic], NEW K,
         Bounded(f, N, m, K), NEW c \in [id : Uuid, stat : Ref], c.stat \notin K,
         NEW L, K \subseteq L, NEW M, M \subseteq N \cup {c}
  PROVE  Bounded(f, M, m, L)
<1>1. f[c.stat] = Nothing /\ m[c.id] \in Traffic
  BY DEF Bounded
<1>2. Within(f[c.stat], m[c.id])
  BY <1>1, NothingWithin
<1> QED
  BY <1>2 DEF Bounded

\* More traffic leaves room.
LEMMA BoundedLater ==
  ASSUME NEW f \in Table, NEW N, N \subseteq [id : Uuid, stat : Ref],
         NEW m \in [Uuid -> Traffic], NEW K, Bounded(f, N, m, K),
         NEW n \in [Uuid -> Traffic], \A i \in Uuid : Within(m[i], n[i])
  PROVE  Bounded(f, N, n, K)
<1>1. \A i \in Uuid : i \in Ref
  BY DEF Ref
<1>2. \A c \in N : c.stat \in Ref /\ c.id \in Uuid
  OBVIOUS
<1>3. \A i \in Ref : f[i] \in Traffic
  BY DEF Table
<1>4. ASSUME NEW i \in Ref, NEW j \in Uuid, Within(f[i], m[j])
      PROVE  Within(f[i], n[j])
  <2>1. f[i] \in Traffic /\ m[j] \in Traffic /\ n[j] \in Traffic /\ Within(m[j], n[j])
    BY <1>3
  <2> QED
    BY <1>4, <2>1, WithinTrans
<1> QED
  BY <1>1, <1>2, <1>4 DEF Bounded

\* Steps that give no new name and count no traffic: the users are users there
\* were, and tables are cleared or copied.
LEMMA OwnFrame ==
  ASSUME TypeInv, TypeInv', OwnInv, UNCHANGED <<nextId, used, moved>>,
         \A w \in Everyone' : \E u \in Everyone : Client(w) = Client(u),
         \A w \in Everyone' : Within(w, moved[w.id]),
         \A c \in clients' : c \in Named,
         counter' = counter \/ counter' = NoTraffic,
         \A p \in Poller : \/ poll'[p].read = poll[p].read
                           \/ poll'[p].read = counter
                           \/ poll'[p].read = NoTraffic
  PROVE  OwnInv'
<1>1. Named' \subseteq Named
  BY DEF Named
<1>2. Known' = Known /\ moved' = moved
  BY DEF Known
<1>3. Named' \subseteq [id : Uuid, stat : Ref] /\ moved \in [Uuid -> Traffic]
  BY <1>1, NamedTypes
<1>4. Bounded(NoTraffic, Named', moved, Known)
  BY <1>3, NoTrafficBounded
<1>5. Bounded(counter, Named', moved, Known)
  BY <1>1, BoundedFewer DEF OwnInv
<1>6. \A p \in Poller : Bounded(poll[p].read, Named', moved, Known)
  BY <1>1, BoundedFewer DEF OwnInv
<1>7. Bounded(counter', Named', moved', Known')
  BY <1>2, <1>4, <1>5
<1>8. \A p \in Poller : Bounded(poll'[p].read, Named', moved', Known')
  BY <1>2, <1>4, <1>5, <1>6
<1>9. OneOwner(Named', Known')
  BY <1>1, <1>2 DEF OneOwner, OwnInv
<1>10. \A u \in Everyone' : Within(u, moved'[u.id])
  BY <1>2
<1> QED
  BY <1>7, <1>8, <1>9, <1>10 DEF OwnInv

\* ... in most of them the tables stay, and the users' counters do.
LEMMA OwnQuiet ==
  ASSUME TypeInv, TypeInv', OwnInv,
         UNCHANGED <<nextId, used, moved, clients, counter, poll>>,
         SameUsers(mem', Everyone), SameUsers(disk', Everyone),
         SameUsers(cli'.mem, Everyone)
  PROVE  OwnInv'
<1>1. \A w \in Everyone' : \E u \in Everyone :
        Client(w) = Client(u) /\ w.rx = u.rx /\ w.tx = u.tx
  BY DEF Everyone, SameUsers
<1>2. \A w \in Everyone' : Within(w, moved[w.id])
  BY <1>1, ClientIs DEF OwnInv, Within
<1>3. \A c \in clients' : c \in Named
  BY DEF Named
<1>4. \A p \in Poller : poll'[p].read = poll[p].read
  OBVIOUS
<1> QED
  BY <1>1, <1>2, <1>3, <1>4, OwnFrame

\* A part of a list has its users.
LEMMA SameUsersOfPart ==
  ASSUME NEW T, NEW S, T \subseteq S
  PROVE  SameUsers(T, S)
BY DEF SameUsers

\* Before anything moved, nothing is counted.
LEMMA OwnInit == Init => OwnInv
<1> SUFFICES ASSUME Init PROVE OwnInv
  OBVIOUS
<1>1. TypeInv
  BY TypeInit
<1>2. mem = {} /\ disk = LegacyUsers /\ cli.mem = {} /\ used = 1 .. Legacy
      /\ clients = {Client(u) : u \in LegacyUsers}
  BY DEF Init, IdleCli
<1>3. Everyone = LegacyUsers /\ Named = {Client(u) : u \in LegacyUsers}
  BY <1>2 DEF Everyone, Named
<1>4. \A u \in LegacyUsers : u.email \in 1 .. Legacy /\ u.rx = 0 /\ u.tx = 0
  BY DEF LegacyUsers
<1>5. \A u \in LegacyUsers : StatID(u) \in used /\ StatID(u) \in Email
  BY <1>2, <1>4, RecordsAssumption DEF StatID, NoRef, Email
<1>6. Unique(LegacyUsers)
  BY <1>1, <1>2 DEF TypeInv, Lists, List
<1>7. \A c \in Named : \E u \in LegacyUsers : c.id = u.id /\ c.stat = StatID(u)
  BY <1>3 DEF Client
<1>8. OneOwner(Named, Known)
  BY <1>5, <1>6, <1>7 DEF OneOwner, Known, Unique
<1>9. counter = NoTraffic /\ \A p \in Poller : poll[p].read = NoTraffic
  BY DEF Init, NoTraffic, IdlePoll
<1>10. Bounded(NoTraffic, Named, moved, Known)
  BY <1>1, NamedTypes, NoTrafficBounded
<1>11. \A u \in Everyone : Within(u, moved[u.id])
  <2>1. \A i \in Uuid : moved[i] = Nothing
    BY DEF Init
  <2>2. \A u \in Everyone : u.id \in Uuid /\ u.rx = 0 /\ u.tx = 0
    BY <1>1, <1>3, <1>4, NamedTypes DEF User
  <2> QED
    BY <2>1, <2>2, NothingIs DEF Within
<1> QED
  BY <1>8, <1>9, <1>10, <1>11 DEF OwnInv

\* Users of a list are users of a larger one.
LEMMA SameUsersMore ==
  ASSUME NEW T, NEW S, NEW R, SameUsers(T, S), S \subseteq R
  PROVE  SameUsers(T, R)
BY DEF SameUsers

\* The lists are part of everyone.
LEMMA EveryoneHas == mem \subseteq Everyone /\ disk \subseteq Everyone
                     /\ cli.mem \subseteq Everyone
BY DEF Everyone

\* The lists have the users they have.
LEMMA ListsAreSame ==
  /\ SameUsers(mem, Everyone) /\ SameUsers(disk, Everyone)
  /\ SameUsers(cli.mem, Everyone) /\ SameUsers({}, Everyone)
BY EveryoneHas, SameUsersOfPart

\* Open gives tokens and leaves names and counters.
LEMMA OwnStart == ASSUME TypeInv, TypeInv', OwnInv, Start PROVE OwnInv'
<1>1. disk' = Backfilled(disk) /\ SameUsers(disk', disk)
  BY OpenKeeps DEF Start
<1>2. mem' = disk' /\ UNCHANGED <<nextId, clients, counter, poll, cli, moved, used>>
  BY <1>1 DEF Start, xrayVars, histVars
<1>3. SameUsers(disk', Everyone)
  BY <1>1, EveryoneHas, SameUsersMore
<1> QED
  BY <1>2, <1>3, ListsAreSame, OwnQuiet

\* So does it for the command line.
LEMMA OwnCliOpen ==
  ASSUME TypeInv, TypeInv', OwnInv, NEW what \in {"link", "rotate"}, CliOpen(what)
  PROVE  OwnInv'
<1>1. disk' = Backfilled(disk) /\ SameUsers(disk', disk)
  BY OpenKeeps DEF CliOpen
<1>2. cli'.mem = disk' /\ UNCHANGED <<mem, nextId, clients, counter, poll, moved, used>>
  BY <1>1 DEF CliOpen, xrayVars, histVars
<1>3. SameUsers(disk', Everyone)
  BY <1>1, EveryoneHas, SameUsersMore
<1> QED
  BY <1>2, <1>3, ListsAreSame, OwnQuiet

\* A removal leaves a part of the users.
LEMMA OwnRemoveUser ==
  ASSUME TypeInv, TypeInv', OwnInv, NEW ref \in Ref, RemoveUser(ref)
  PROVE  OwnInv'
<1>1. mem' \subseteq mem /\ (disk' = mem' \/ disk' = disk)
      /\ UNCHANGED <<nextId, clients, counter, poll, cli, moved, used>>
  BY DEF RemoveUser
<1>2. SameUsers(mem', Everyone)
  BY <1>1, EveryoneHas, SameUsersOfPart
<1> QED
  BY <1>1, <1>2, ListsAreSame, OwnQuiet

\* Showing a link changes no counter.
LEMMA OwnShow ==
  ASSUME TypeInv, TypeInv', OwnInv, NEW ref \in Ref, Show(ref)
  PROVE  OwnInv'
<1>1. UNCHANGED <<mem, disk, nextId, clients, counter, poll, cli, moved, used>>
  BY DEF Show, storeVars, xrayVars
<1> QED
  BY <1>1, ListsAreSame, OwnQuiet

\* A command that ends without writing.
LEMMA OwnCliEnds ==
  ASSUME TypeInv, TypeInv', OwnInv, NEW ref \in Ref, CliLink(ref) \/ CliRefused(ref)
  PROVE  OwnInv'
<1>1. UNCHANGED <<mem, disk, nextId, clients, counter, poll, moved, used>>
      /\ cli'.mem = {}
  BY DEF CliLink, CliRefused, IdleCli, storeVars, xrayVars, histVars
<1> QED
  BY <1>1, ListsAreSame, OwnQuiet

\* A rotation writes back counters of the copy, that are still within.
LEMMA OwnCliRotate ==
  ASSUME TypeInv, TypeInv', OwnInv, NEW ref \in Ref, CliRotate(ref)
  PROVE  OwnInv'
<1>1. PICK u \in FindUser(cli.mem, ref) : disk' = RotatedFile(u) \/ disk' = disk
  BY DEF CliRotate
<1>2. UNCHANGED <<mem, nextId, clients, counter, poll, moved, used>>
      /\ cli'.mem = {} /\ nextTok \in Token
  BY DEF CliRotate, IdleCli, xrayVars
<1>3. u \in cli.mem /\ u \in User
  BY FoundIs DEF TypeInv, TypeOK
<1>4. Client(Rotated(u)) = Client(u) /\ Rotated(u).rx = u.rx /\ Rotated(u).tx = u.tx
  BY <1>2, <1>3, RotatedIs
<1>5. SameUsers(RotatedFile(u), cli.mem)
  BY <1>3, <1>4 DEF SameUsers, RotatedFile
<1>6. SameUsers(disk', Everyone)
  BY <1>1, <1>5, EveryoneHas, SameUsersMore, ListsAreSame
<1> QED
  BY <1>2, <1>6, ListsAreSame, OwnQuiet

\* The daemon stops: its polls and what they read are gone.
LEMMA OwnCrash == ASSUME TypeInv, TypeInv', OwnInv, Crash PROVE OwnInv'
<1>1. mem' = {} /\ UNCHANGED <<disk, nextId, clients, counter, cli, moved, used>>
      /\ poll' = [p \in Poller |-> IdlePoll]
  BY DEF Crash, histVars
<1>2. Everyone' \subseteq Everyone
  BY <1>1 DEF Everyone
<1>3. \A p \in Poller : poll'[p].read = NoTraffic
  BY <1>1 DEF IdlePoll, NoTraffic
<1>4. \A w \in Everyone' : Within(w, moved[w.id])
  BY <1>2 DEF OwnInv
<1>5. \A w \in Everyone' : \E u \in Everyone : Client(w) = Client(u)
  BY <1>2
<1>6. \A c \in clients' : c \in Named
  BY <1>1 DEF Named
<1> QED
  BY <1>1, <1>3, <1>4, <1>5, <1>6, OwnFrame

\* Xray starts again with users of the list, or stays.
LEMMA OwnApply == ASSUME TypeInv, TypeInv', OwnInv, Apply PROVE OwnInv'
<1>1. UNCHANGED <<mem, disk, nextId, poll, cli, moved, used>>
      /\ \/ UNCHANGED <<clients, counter>>
         \/ clients' = {Client(u) : u \in mem} /\ counter' = NoTraffic
  BY DEF Apply, storeVars, histVars, NoTraffic
<1>2. Everyone' = Everyone
  BY <1>1 DEF Everyone
<1>3. \A c \in clients' : c \in Named
  BY <1>1 DEF Named, Everyone
<1>4. \A w \in Everyone' : Within(w, moved[w.id])
  BY <1>2 DEF OwnInv
<1>5. \A w \in Everyone' : \E u \in Everyone : Client(w) = Client(u)
  BY <1>2
<1>6. \A p \in Poller : poll'[p].read = poll[p].read
  BY <1>1
<1>7. counter' = counter \/ counter' = NoTraffic
  BY <1>1
<1> QED
  BY <1>1, <1>3, <1>4, <1>5, <1>6, <1>7, OwnFrame

\* A poll takes a copy of the counters.
LEMMA OwnPollRead ==
  ASSUME TypeInv, TypeInv', OwnInv, NEW p \in Poller, PollRead(p)
  PROVE  OwnInv'
<1>1. UNCHANGED <<mem, disk, nextId, clients, counter, cli, moved, used>>
  BY DEF PollRead, storeVars, xrayVars, histVars
<1>2. [i \in Ref |-> Reading(counter[i])] = counter
  BY DEF Reading, TypeInv, TypeOK
<1>3. poll' = [poll EXCEPT ![p] = [todo |-> Listed, read |-> counter]]
  BY <1>2 DEF PollRead
<1>4. \A q \in Poller : poll'[q].read = poll[q].read \/ poll'[q].read = counter
  BY <1>3 DEF TypeInv, TypeOK
<1>5. Everyone' = Everyone
  BY <1>1 DEF Everyone
<1>6. \A w \in Everyone' : Within(w, moved[w.id])
  BY <1>5 DEF OwnInv
<1>7. \A w \in Everyone' : \E u \in Everyone : Client(w) = Client(u)
  BY <1>5
<1>8. \A c \in clients' : c \in Named
  BY <1>1 DEF Named
<1> QED
  BY <1>1, <1>4, <1>6, <1>7, <1>8, OwnFrame

\* An update writes what was read under a name of the user, however long ago.
LEMMA OwnPollUpdate ==
  ASSUME TypeInv, TypeInv', OwnInv, NEW p \in Poller, PollUpdate(p)
  PROVE  OwnInv'
<1>1. PICK i \in Ref :
        /\ poll[p].read[i] \in Traffic
        /\ mem' = UpdateTraffic(mem, i, poll[p].read[i])
  BY PollUpdateIs
<1>2. UNCHANGED <<nextId, clients, counter, cli, moved, used>>
      /\ (disk' = mem' \/ disk' = disk)
      /\ \A q \in Poller : poll'[q].read = poll[q].read \/ poll'[q] = IdlePoll
  BY PollUpdateIs
<1>3. PICK r : r = poll[p].read[i]
  OBVIOUS
<1>4. mem \subseteq User
  BY DEF TypeInv, TypeOK
<1>5. \A w \in mem' : (\E u \in Everyone : Client(w) = Client(u))
                      /\ Within(w, moved[w.id])
  <2>1. CASE mem' = mem
    BY <2>1, EveryoneHas DEF OwnInv
  <2>2. CASE \E u \in ByStat(mem, i) :
               /\ mem' = (mem \ {u}) \cup {Updated(u, r)}
               /\ u \in mem /\ i \in {u.id, StatID(u)}
    <3>1. PICK u \in mem : /\ mem' = (mem \ {u}) \cup {Updated(u, r)}
                           /\ i \in {u.id, StatID(u)}
      BY <2>2
    <3>2. u \in User /\ u.id \in Uuid
      BY <1>4 DEF User
    <3>3. /\ Client(Updated(u, r)) = Client(u) /\ Updated(u, r).id = u.id
          /\ Updated(u, r).rx = r.rx /\ Updated(u, r).tx = r.tx
      BY <1>1, <1>3, <3>2, UpdatedIs
    <3>4. Within(r, moved[u.id])
      <4>1. CASE i = u.id
        BY <1>3, <3>2, <4>1 DEF OwnInv, Bounded
      <4>2. CASE i = StatID(u)
        <5>1. Client(u) \in Named /\ Client(u).id = u.id /\ Client(u).stat = i
          BY <3>1, <4>2 DEF Named, Everyone, Client
        <5> QED
          BY <1>3, <5>1 DEF OwnInv, Bounded
      <4> QED
        BY <3>1, <4>1, <4>2
    <3>5. Within(Updated(u, r), moved[Updated(u, r).id])
      BY <3>3, <3>4 DEF Within
    <3> QED
      BY <3>1, <3>3, <3>5, EveryoneHas DEF OwnInv
  <2> QED
    BY <1>1, <1>3, <1>4, <2>1, <2>2, UpdateTrafficIs
<1>6. \A w \in Everyone' : (\E u \in Everyone : Client(w) = Client(u))
                           /\ Within(w, moved[w.id])
  BY <1>2, <1>5 DEF Everyone, OwnInv
<1>7. \A c \in clients' : c \in Named
  BY <1>2 DEF Named
<1>8. \A q \in Poller : poll'[q].read = poll[q].read \/ poll'[q].read = NoTraffic
  BY <1>2 DEF IdlePoll, NoTraffic
<1> QED
  BY <1>2, <1>6, <1>7, <1>8, OwnFrame

\* A new user gets a name nobody had before, since no e-mail is given twice.
LEMMA OwnAddUser ==
  ASSUME TypeInv, TypeInv', OwnInv, ~ReuseEmail,
         NEW email \in Email \cup {NoRef}, AddUser(email)
  PROVE  OwnInv'
<1> DEFINE u == NewUser(email)
           c == Client(u)
<1>1. nextId \in Uuid /\ nextTok \in Token /\ email \notin used
  BY DEF AddUser
<1>2. /\ u \in User /\ u.id = nextId /\ u.email = email
      /\ u.rx = 0 /\ u.tx = 0
  BY <1>1, NewUserIs DEF TypeInv
<1>3. c \in [id : Uuid, stat : Ref] /\ c.id = nextId
      /\ c.stat = IF email # NoRef THEN email ELSE nextId
  BY <1>2, ClientType DEF Client, StatID
<1> HIDE DEF u
<1>4. /\ mem' = mem \cup {u} /\ nextId' = nextId + 1
      /\ used' = used \cup ({email} \ {NoRef})
      /\ disk' = mem' \/ disk' = disk
      /\ UNCHANGED <<clients, counter, poll, cli, moved>>
  BY DEF AddUser, u
<1> HIDE DEF c
<1>5. Everyone' \subseteq Everyone \cup {u}
  BY <1>4 DEF Everyone
<1>6. Named' \subseteq Named \cup {c}
  BY <1>4, <1>5 DEF Named, c
<1>7. Known \subseteq Known'
  <2>1. \A i \in Uuid : i < nextId => i < nextId'
    BY <1>1, <1>4, Numbers
  <2> QED
    BY <1>4, <2>1 DEF Known
<1>8. c.stat \notin Known
  <2>1. CASE email # NoRef
    <3>1. c.stat = email /\ email \in Email /\ email \notin Uuid
      BY <1>3, <2>1, Numbers
    <3> QED
      BY <1>1, <3>1 DEF Known
  <2>2. CASE email = NoRef
    <3>1. c.stat = nextId /\ nextId \notin used /\ ~(nextId < nextId)
      BY <1>1, <1>3, <2>2, Numbers DEF TypeInv, TypeOK
    <3> QED
      BY <3>1 DEF Known
  <2> QED
    BY <2>1, <2>2
<1>9. c.stat \in Known' /\ (c.stat \in Email \/ c.stat = c.id)
  <2>1. CASE email # NoRef
    BY <1>3, <1>4, <2>1 DEF Known
  <2>2. CASE email = NoRef
    <3>1. c.stat = nextId /\ nextId < nextId'
      BY <1>1, <1>3, <1>4, <2>2, Numbers
    <3> QED
      BY <1>1, <1>3, <3>1 DEF Known
  <2> QED
    BY <2>1, <2>2
<1>10. OneOwner(Named', Known')
  <2>1. \A d \in Named : d.stat \in Known /\ d.stat # c.stat
    BY <1>8 DEF OwnInv, OneOwner
  <2> QED
    BY <1>6, <1>7, <1>9, <2>1 DEF OwnInv, OneOwner
<1>11. ASSUME NEW f \in Table, Bounded(f, Named, moved, Known)
       PROVE  Bounded(f, Named', moved', Known')
  <2>1. Bounded(f, Named', moved, Known')
    BY <1>3, <1>6, <1>7, <1>8, <1>11, NamedTypes, BoundedOneMore
  <2> QED
    BY <1>4, <2>1
<1>12. Bounded(counter', Named', moved', Known')
  BY <1>4, <1>11, NamedTypes DEF OwnInv
<1>13. \A p \in Poller : Bounded(poll'[p].read, Named', moved', Known')
  BY <1>4, <1>11, NamedTypes DEF OwnInv
<1>14. Within(u, moved[u.id])
  <2>1. moved[u.id] \in Traffic
    BY <1>1, <1>2, NamedTypes
  <2> QED
    BY <1>2, <2>1, NothingWithin, NothingIs DEF Within
<1>15. \A w \in Everyone' : Within(w, moved'[w.id])
  BY <1>4, <1>5, <1>14 DEF OwnInv
<1> QED
  BY <1>10, <1>12, <1>13, <1>15 DEF OwnInv

\* Traffic is counted under the name of the user that moves it.
LEMMA OwnCount ==
  ASSUME TypeInv, TypeInv', OwnInv, NEW c \in clients, NEW dir \in {"rx", "tx"},
         Count(c, dir)
  PROVE  OwnInv'
<1>1. UNCHANGED <<mem, disk, nextId, clients, poll, cli, used>>
  BY DEF Count, storeVars
<1>2. Named' = Named /\ Known' = Known /\ Everyone' = Everyone
  BY <1>1 DEF Named, Known, Everyone
<1>3. /\ counter \in Table /\ counter' \in Table
      /\ moved \in [Uuid -> Traffic] /\ moved' \in [Uuid -> Traffic]
      /\ Named \subseteq [id : Uuid, stat : Ref] /\ c \in Named
      /\ \A p \in Poller : poll[p].read \in Table
  BY NamedTypes, CountIs DEF Table, Named
<1>4. \A i \in Uuid : Within(moved[i], moved'[i])
  BY CountIs
<1>5. \A p \in Poller : Bounded(poll'[p].read, Named', moved', Known')
  <2> TAKE p \in Poller
  <2>1. Bounded(poll[p].read, Named, moved, Known) /\ poll[p].read \in Table
    BY <1>3 DEF OwnInv
  <2>2. Bounded(poll[p].read, Named, moved', Known)
    BY <1>3, <1>4, <2>1, BoundedLater
  <2> QED
    BY <1>1, <1>2, <2>2
<1>6. Bounded(counter, Named, moved', Known)
  BY <1>3, <1>4, BoundedLater DEF OwnInv
<1>7. /\ \A i \in Ref : i # c.stat => counter'[i] = counter[i]
      /\ Within(counter'[c.stat], moved'[c.id])
      /\ c.stat \in Ref /\ c.id \in Uuid /\ c.stat \in Known
      /\ c.stat \in Email \/ c.stat = c.id
  BY <1>3, CountIs DEF OwnInv, OneOwner
<1>8. Bounded(counter', Named, moved', Known)
  <2>1. ASSUME NEW d \in Named
        PROVE  Within(counter'[d.stat], moved'[d.id])
    <3>1. CASE d.stat = c.stat
      <4>1. d.id = c.id
        BY <1>3, <3>1 DEF OwnInv, OneOwner
      <4> QED
        BY <1>7, <3>1, <4>1
    <3>2. CASE d.stat # c.stat
      <4>1. d.stat \in Ref
        BY <1>3
      <4>2. counter'[d.stat] = counter[d.stat]
        BY <1>7, <3>2, <4>1
      <4> QED
        BY <1>6, <4>2 DEF Bounded
    <3> QED
      BY <3>1, <3>2
  <2>2. ASSUME NEW i \in Uuid
        PROVE  Within(counter'[i], moved'[i])
    <3>1. CASE i = c.stat
      <4>1. i = c.id
        BY <1>7, <3>1, Numbers
      <4> QED
        BY <1>7, <3>1, <4>1
    <3>2. CASE i # c.stat
      <4>1. counter'[i] = counter[i]
        BY <1>7, <3>2 DEF Ref
      <4> QED
        BY <1>6, <4>1 DEF Bounded
    <3> QED
      BY <3>1, <3>2
  <2>3. \A i \in Ref \ Known : counter'[i] = Nothing
    BY <1>6, <1>7 DEF Bounded
  <2> QED
    BY <2>1, <2>2, <2>3 DEF Bounded
<1>9. \A w \in Everyone : Within(w, moved'[w.id])
  <2> TAKE w \in Everyone
  <2>1. w \in User
    BY NamedTypes
  <2>2. PICK a : a = [rx |-> w.rx, tx |-> w.tx]
    OBVIOUS
  <2>3. a \in Traffic /\ w.id \in Uuid /\ a.rx = w.rx /\ a.tx = w.tx
    BY <2>1, <2>2 DEF User, Traffic
  <2>4. Within(a, moved[w.id])
    BY <2>3 DEF OwnInv, Within
  <2>5. Within(a, moved'[w.id])
    BY <1>3, <1>4, <2>3, <2>4, WithinTrans
  <2> QED
    BY <2>3, <2>5 DEF Within
<1> QED
  BY <1>2, <1>5, <1>8, <1>9 DEF OwnInv

\* A stuttering step.
LEMMA OwnStutter ==
  ASSUME TypeInv, TypeInv', OwnInv, UNCHANGED vars
  PROVE  OwnInv'
<1>1. UNCHANGED <<mem, disk, nextId, clients, counter, poll, cli, moved, used>>
  BY DEF vars, storeVars, xrayVars, histVars
<1> QED
  BY <1>1, ListsAreSame, OwnQuiet

\* Every step keeps the invariant, where e-mails are not given twice.
LEMMA OwnNext ==
  ASSUME ~ReuseEmail, TypeInv, TypeInv', OwnInv, [Next]_vars
  PROVE  OwnInv'
<1>1. CASE Start
  BY <1>1, OwnStart
<1>2. CASE Crash
  BY <1>2, OwnCrash
<1>3. CASE Apply
  BY <1>3, OwnApply
<1>4. CASE \E e \in Email \cup {NoRef} : AddUser(e)
  BY <1>4, OwnAddUser
<1>5. CASE \E r \in Ref : RemoveUser(r)
  BY <1>5, OwnRemoveUser
<1>6. CASE \E r \in Ref : Show(r)
  BY <1>6, OwnShow
<1>7. CASE \E r \in Ref : CliLink(r) \/ CliRefused(r)
  BY <1>7, OwnCliEnds
<1>8. CASE \E r \in Ref : CliRotate(r)
  BY <1>8, OwnCliRotate
<1>9. CASE \E c \in clients, dir \in {"rx", "tx"} : Count(c, dir)
  BY <1>9, OwnCount
<1>10. CASE \E p \in Poller : PollRead(p)
  BY <1>10, OwnPollRead
<1>11. CASE \E p \in Poller : PollUpdate(p)
  BY <1>11, OwnPollUpdate
<1>12. CASE \E what \in {"link", "rotate"} : CliOpen(what)
  BY <1>12, OwnCliOpen
<1>13. CASE UNCHANGED vars
  BY <1>13, OwnStutter
<1> QED
  BY <1>1, <1>2, <1>3, <1>4, <1>5, <1>6, <1>7, <1>8, <1>9, <1>10, <1>11, <1>12,
     <1>13 DEF Next

\* Where no e-mail is given to a second user, no user is ever charged for traffic
\* that is not its own, nor twice for the same, whatever polls overlap and
\* whenever Xray, the daemon or the command line read and write in between.
THEOREM OwnCountersCorrect ==
  ASSUME ~ReuseEmail
  PROVE  Spec => []OwnCounters
<1>1. Init => OwnInv
  BY OwnInit
<1>2. TypeInv /\ TypeInv' /\ OwnInv /\ [Next]_vars => OwnInv'
  BY OwnNext
<1>3. OwnInv => OwnCounters
  BY DEF OwnInv, OwnCounters, Within, Everyone
<1> QED
  BY <1>1, <1>2, <1>3, TypesHold, PTL DEF Spec
-----------------------------------------------------------------------------
(***************************************************************************)
(* Links.  Tokens grow, so a revoked one is not made again, and the only   *)
(* other copy of the list is the one a command has of the same file.       *)
(***************************************************************************)

\* While no command runs beside the daemon, its copy is the file or nothing.
Orderly ==
  /\ up => cli.pc = "idle"
  /\ ~up => mem = {}
  /\ cli.mem = IF cli.pc = "idle" THEN {} ELSE disk

Distinct(S) == \A u, v \in S : u.id = v.id => u = v

\* The tokens of a list are none of those to come (from n on) nor of those
\* revoked (R), and two users do not share one.
Tokens(S, n, R) ==
  /\ \A u \in S : u.token < n /\ u.token \notin R
  /\ \A t \in R : t < n
  /\ \A u, v \in S : u.token = v.token /\ u.token # NoToken => u.id = v.id

TokenInv ==
  /\ Orderly
  /\ Distinct(mem) /\ Distinct(disk)
  /\ Tokens(mem \cup disk, nextTok, revoked)

\* Tokens depends on links alone.
SameLinks(T, S) == \A w \in T : \E u \in S : Link(w) = Link(u)

\* A link is the uuid and the token.
LEMMA LinkEquals ==
  ASSUME NEW u, NEW w
  PROVE  Link(u) = Link(w) <=> u.id = w.id /\ u.token = w.token
BY DEF Link

\* Tokens and uuids are numbers.
LEMMA TokenNumber ==
  ASSUME NEW u \in User
  PROVE  u.token \in Nat /\ u.id \in Nat
<1>1. u.token \in Token \cup {NoToken} /\ u.id \in Uuid
  BY DEF User
<1>2. Token \subseteq Nat /\ Uuid \subseteq Nat
  BY Numbers
<1>3. NoToken \in Nat
  BY DEF NoToken
<1> QED
  BY <1>1, <1>2, <1>3

\* Lists with the same links have the same tokens.
LEMMA TokensOfSame ==
  ASSUME NEW S, NEW T, NEW n, NEW R, Tokens(S, n, R), SameLinks(T, S)
  PROVE  Tokens(T, n, R)
<1>1. \A w \in T : \E u \in S : w.id = u.id /\ w.token = u.token
  BY LinkEquals DEF SameLinks
<1> QED
  BY <1>1 DEF Tokens

\* A user made now, with the next token, shares it with nobody.
LEMMA TokensWithNew ==
  ASSUME NEW S, S \subseteq User, NEW n \in Token, NEW R, R \subseteq Token,
         Tokens(S, n, R), NEW u, u.token = n
  PROVE  Tokens(S \cup {u}, n + 1, R)
<1>1. /\ n \in Nat
      /\ \A v \in S : v.token \in Nat /\ v.token < n
      /\ \A t \in R : t \in Nat /\ t < n
  BY Numbers, TokenNumber DEF Tokens
<1>2. \A v \in S \cup {u} : v.token < n + 1
  BY <1>1
<1>3. \A t \in R : t < n + 1 /\ t # n
  BY <1>1
<1>4. \A v \in S : v.token # n
  BY <1>1
<1> QED
  BY <1>2, <1>3, <1>4 DEF Tokens

\* Open gives different tokens, that nobody had.
LEMMA BackfilledTokens ==
  ASSUME NEW S, S \subseteq User, IsFiniteSet(S), Room(S), Distinct(S),
         nextTok \in 1 .. MaxTokens + 1, NEW R, R \subseteq Token,
         Tokens(S, nextTok, R)
  PROVE  /\ Tokens(Backfilled(S), nextTok + Cardinality(Untokened(S)), R)
         /\ Distinct(Backfilled(S))
         /\ \A u \in S : u.token # NoToken => u \in Backfilled(S)
<1> DEFINE k == Cardinality(Untokened(S))
<1>1. k \in Nat
  <2>1. IsFiniteSet(Untokened(S))
    BY FS_Subset DEF Untokened
  <2> QED
    BY <2>1, FS_CardinalityType
<1>2. \A u \in S : /\ Given(S, u).id = u.id /\ Given(S, u).token \in Token
                   /\ u.token # NoToken => Given(S, u) = u
                   /\ u.token = NoToken =>
                        /\ Given(S, u).token = nextTok + Cardinality(Earlier(S, u))
                        /\ Given(S, u).token \in nextTok .. nextTok + k - 1
  BY GivenIs
<1> HIDE DEF k
<1>3. nextTok \in Nat /\ \A u \in S : u.id \in Nat /\ u.token \in Nat /\ u.token < nextTok
  BY RecordsAssumption, TokenNumber DEF Tokens
<1>4. \A t \in R : t \in Nat /\ t < nextTok
  BY Numbers DEF Tokens
<1>5. \A u \in S : Given(S, u).token < nextTok + k /\ Given(S, u).token \notin R
  <2> TAKE u \in S
  <2>1. CASE u.token # NoToken
    <3>1. Given(S, u).token = u.token /\ u.token \notin R
      BY <1>2, <2>1 DEF Tokens
    <3> QED
      BY <1>1, <1>3, <3>1
  <2>2. CASE u.token = NoToken
    <3>1. PICK t : t = Given(S, u).token
      OBVIOUS
    <3>2. t \in nextTok .. nextTok + k - 1
      BY <1>2, <2>2, <3>1
    <3> QED
      BY <1>1, <1>3, <1>4, <3>1, <3>2
  <2> QED
    BY <2>1, <2>2
<1>6. ASSUME NEW u \in S, NEW w \in S, Given(S, u).token = Given(S, w).token
      PROVE  u.id = w.id
  <2>1. CASE u.token # NoToken /\ w.token # NoToken
    BY <1>2, <1>6, <2>1 DEF Tokens
  <2>2. ASSUME NEW a \in S, NEW b \in S, Given(S, a).token = Given(S, b).token,
               a.token # NoToken, b.token = NoToken
        PROVE  FALSE
    <3>1. a.token < nextTok /\ Given(S, a).token = a.token
      BY <1>2, <1>3, <2>2
    <3>2. PICK t : t = a.token
      OBVIOUS
    <3>3. t \in nextTok .. nextTok + k - 1
      BY <1>2, <2>2, <3>1, <3>2
    <3>4. t < nextTok
      BY <3>1, <3>2
    <3> QED
      BY <1>1, <1>3, <3>3, <3>4
  <2>3. CASE u.token = NoToken /\ w.token = NoToken
    <3>1. u \in Untokened(S) /\ w \in Untokened(S)
      BY <2>3 DEF Untokened
    <3>2. PICK a, b : a = Cardinality(Earlier(S, u)) /\ b = Cardinality(Earlier(S, w))
      OBVIOUS
    <3>3. a \in Nat /\ b \in Nat
      BY <3>1, <3>2, EarlierCount
    <3>4. nextTok + a = nextTok + b
      BY <1>2, <1>6, <2>3, <3>2
    <3>5. a = b
      BY <1>3, <3>3, <3>4
    <3>6. ~(u.id < w.id) /\ ~(w.id < u.id)
      <4>1. u.id < w.id => a < b
        BY <3>1, <3>2, EarlierCount
      <4>2. w.id < u.id => b < a
        BY <3>1, <3>2, EarlierCount
      <4> QED
        BY <3>3, <3>5, <4>1, <4>2
    <3> QED
      BY <1>3, <3>6
  <2> QED
    BY <1>6, <2>1, <2>2, <2>3
<1>7. Tokens(Backfilled(S), nextTok + k, R)
  <2>1. \A t \in R : t < nextTok + k
    BY <1>1, <1>3, <1>4
  <2>2. \A x \in Backfilled(S) : \E u \in S : x = Given(S, u)
    BY BackfilledIs
  <2>3. \A x, y \in Backfilled(S) : x.token = y.token => x.id = y.id
    BY <1>2, <1>6, <2>2
  <2> QED
    BY <1>5, <2>1, <2>2, <2>3 DEF Tokens
<1>8. Distinct(Backfilled(S))
  <2>1. \A x \in Backfilled(S) : \E u \in S : x = Given(S, u)
    BY BackfilledIs
  <2> QED
    BY <1>2, <2>1 DEF Distinct
<1>9. \A u \in S : u.token # NoToken => u \in Backfilled(S)
  BY <1>2, BackfilledIs
<1> QED
  BY <1>7, <1>8, <1>9 DEF k

\* What Open does to the file.
LEMMA OpenTokens ==
  ASSUME TypeInv, Distinct(disk), Tokens(disk, nextTok, revoked), Open
  PROVE  /\ Tokens(disk', nextTok', revoked) /\ Distinct(disk')
         /\ \A u \in disk : u.token # NoToken => u \in disk'
<1>1. disk \subseteq User /\ IsFiniteSet(disk) /\ nextTok \in 1 .. MaxTokens + 1
      /\ revoked \subseteq Token
  BY DEF TypeInv, TypeOK, Lists, List
<1>2. Room(disk) /\ nextTok' = nextTok + Cardinality(Untokened(disk))
  BY DEF Open, Room
<1>3. disk' = Backfilled(disk)
  BY OpenKeeps
<1> QED
  BY <1>1, <1>2, <1>3, BackfilledTokens

\* At first nobody has a token.
LEMMA TokenInit == Init => TokenInv
<1> SUFFICES ASSUME Init PROVE TokenInv
  OBVIOUS
<1>1. \A u \in LegacyUsers : u.token = NoToken /\ u.email \in 1 .. Legacy
                             /\ u.id = NumEmails + u.email
  BY DEF LegacyUsers
<1>2. mem = {} /\ disk = LegacyUsers /\ nextTok = 1 /\ revoked = {}
  BY DEF Init
<1>3. Orderly
  BY DEF Orderly, Init, IdleCli
<1>4. Distinct(LegacyUsers)
  <2> SUFFICES ASSUME NEW u \in LegacyUsers, NEW v \in LegacyUsers, u.id = v.id
               PROVE  u = v
    BY DEF Distinct
  <2>1. u.email = v.email
    BY <1>1, RecordsAssumption
  <2> QED
    BY <2>1 DEF LegacyUsers
<1>5. Tokens(mem \cup disk, nextTok, revoked)
  BY <1>1, <1>2 DEF Tokens, NoToken
<1> QED
  BY <1>2, <1>3, <1>4, <1>5 DEF TokenInv, Distinct

\* What TypeInv says of tokens.
LEMMA SharedTypes ==
  ASSUME TypeInv
  PROVE  /\ mem \subseteq User /\ disk \subseteq User /\ cli.mem \subseteq User
         /\ revoked \subseteq Token
         /\ \A u \in mem : u.token \in Token
         /\ \A u \in cli.mem : u.token \in Token
BY DEF TypeInv, TypeOK, Lists, Tokened, User

\* Steps that make no token: the users in memory and in the file have links that
\* were there.
LEMMA TokenFrame ==
  ASSUME TokenInv, Orderly', UNCHANGED <<nextTok, revoked>>,
         Distinct(mem'), Distinct(disk'),
         SameLinks(mem', mem \cup disk), SameLinks(disk', mem \cup disk)
  PROVE  TokenInv'
<1>1. SameLinks(mem' \cup disk', mem \cup disk)
  BY DEF SameLinks
<1>2. Tokens(mem' \cup disk', nextTok, revoked)
  BY <1>1, TokensOfSame DEF TokenInv
<1> QED
  BY <1>2 DEF TokenInv

\* A part of a list has its links.
LEMMA PartOfLinks ==
  ASSUME NEW T, NEW S, T \subseteq S
  PROVE  SameLinks(T, S)
BY DEF SameLinks

\* Steps that leave both lists.
LEMMA TokenQuiet ==
  ASSUME TokenInv, Orderly', UNCHANGED <<mem, disk, nextTok, revoked>>
  PROVE  TokenInv'
<1>1. SameLinks(mem', mem \cup disk) /\ SameLinks(disk', mem \cup disk)
  BY PartOfLinks
<1>2. Distinct(mem') /\ Distinct(disk')
  BY DEF TokenInv
<1> QED
  BY <1>1, <1>2, TokenFrame

\* With the daemon up nobody else has a copy.
LEMMA UpOrderly ==
  ASSUME Orderly, up, up' = up, cli' = cli
  PROVE  Orderly'
BY DEF Orderly

\* The daemon loads what it has written.
LEMMA TokenStart == ASSUME TypeInv, TokenInv, ~Beside, Start PROVE TokenInv'
<1>1. mem = {} /\ cli.pc = "idle" /\ cli.mem = {}
  BY DEF Start, TokenInv, Orderly
<1>2. up' = TRUE /\ cli' = cli /\ revoked' = revoked
  BY DEF Start, histVars, linkVars
<1>3. Tokens(disk, nextTok, revoked) /\ Distinct(disk)
  BY <1>1 DEF TokenInv
<1>4. disk' = Backfilled(disk) /\ Open
  BY OpenKeeps DEF Start
<1>5. Tokens(disk', nextTok', revoked) /\ Distinct(disk')
  BY <1>3, <1>4, OpenTokens
<1>6. mem' = disk'
  BY <1>4 DEF Start
<1>7. Orderly'
  BY <1>1, <1>2 DEF Orderly
<1>8. mem' \cup disk' = disk'
  BY <1>6
<1> QED
  BY <1>2, <1>5, <1>6, <1>7, <1>8 DEF TokenInv

\* The command line has a copy of the file, and the daemon none.
LEMMA TokenCliOpen ==
  ASSUME TypeInv, TokenInv, ~Beside, NEW what \in {"link", "rotate"}, CliOpen(what)
  PROVE  TokenInv'
<1>1. ~up /\ mem = {}
  BY DEF CliOpen, TokenInv, Orderly
<1>2. up' = up /\ mem' = mem /\ revoked' = revoked
  BY DEF CliOpen, histVars, linkVars
<1>3. Tokens(disk, nextTok, revoked) /\ Distinct(disk)
  BY <1>1 DEF TokenInv
<1>4. disk' = Backfilled(disk) /\ Open
  BY OpenKeeps DEF CliOpen
<1>5. Tokens(disk', nextTok', revoked) /\ Distinct(disk')
  BY <1>3, <1>4, OpenTokens
<1>6. cli'.mem = disk' /\ cli'.pc = what
  BY <1>4 DEF CliOpen
<1>7. Orderly'
  BY <1>1, <1>2, <1>6 DEF Orderly
<1>8. mem' \cup disk' = disk'
  BY <1>1, <1>2
<1>9. Distinct(mem')
  BY <1>1, <1>2 DEF Distinct
<1> QED
  BY <1>2, <1>5, <1>7, <1>8, <1>9 DEF TokenInv

\* A crash leaves the file as the only list.
LEMMA TokenCrash == ASSUME TokenInv, Crash PROVE TokenInv'
<1>1. mem' = {} /\ up' = FALSE /\ up /\ UNCHANGED <<disk, nextTok, cli, revoked>>
  BY DEF Crash, histVars, linkVars
<1>2. Orderly'
  BY <1>1 DEF TokenInv, Orderly
<1>3. SameLinks(mem', mem \cup disk) /\ SameLinks(disk', mem \cup disk)
  BY <1>1, PartOfLinks
<1>4. Distinct(mem') /\ Distinct(disk')
  BY <1>1 DEF TokenInv, Distinct
<1> QED
  BY <1>1, <1>2, <1>3, <1>4, TokenFrame

\* A creation takes the next token.
LEMMA TokenAddUser ==
  ASSUME TypeInv, TokenInv, NEW email \in Email \cup {NoRef}, AddUser(email)
  PROVE  TokenInv'
<1> DEFINE u == NewUser(email)
<1>1. up /\ nextId \in Uuid /\ nextTok \in Token
  BY DEF AddUser
<1>2. u \in User /\ u.id = nextId /\ u.token = nextTok
  BY <1>1, NewUserIs DEF TypeInv
<1> HIDE DEF u
<1>3. /\ mem' = mem \cup {u} /\ nextTok' = nextTok + 1
      /\ disk' = mem' \/ disk' = disk
      /\ UNCHANGED <<up, cli, revoked>>
  BY DEF AddUser, u
<1>4. \A v \in mem : v.id # nextId
  <2>1. \A v \in mem : v.id \in Nat /\ v.id < nextId
    BY SharedTypes, TokenNumber DEF TypeInv, Lists, List, Young
  <2> QED
    BY <2>1
<1>5. Distinct(mem')
  BY <1>2, <1>3, <1>4 DEF TokenInv, Distinct
<1>6. Distinct(disk')
  BY <1>3, <1>5 DEF TokenInv
<1>7. Tokens((mem \cup disk) \cup {u}, nextTok', revoked)
  <2>1. mem \cup disk \subseteq User /\ revoked \subseteq Token
        /\ Tokens(mem \cup disk, nextTok, revoked)
    BY SharedTypes DEF TokenInv
  <2> QED
    BY <1>1, <1>2, <1>3, <2>1, TokensWithNew
<1>8. SameLinks(mem' \cup disk', (mem \cup disk) \cup {u})
  BY <1>3, PartOfLinks
<1>9. Tokens(mem' \cup disk', nextTok', revoked')
  BY <1>3, <1>7, <1>8, TokensOfSame
<1>10. Orderly'
  BY <1>1, <1>3, UpOrderly DEF TokenInv
<1> QED
  BY <1>5, <1>6, <1>9, <1>10 DEF TokenInv

\* A removal makes no token.
LEMMA TokenRemoveUser ==
  ASSUME TokenInv, NEW ref \in Ref, RemoveUser(ref)
  PROVE  TokenInv'
<1>1. /\ mem' \subseteq mem
      /\ disk' = mem' \/ disk' = disk
      /\ up
      /\ UNCHANGED <<up, nextTok, cli, revoked>>
  BY DEF RemoveUser, linkVars
<1>2. Orderly'
  BY <1>1, UpOrderly DEF TokenInv
<1>3. SameLinks(mem', mem \cup disk) /\ SameLinks(disk', mem \cup disk)
  BY <1>1, PartOfLinks
<1>4. Distinct(mem') /\ Distinct(disk')
  BY <1>1 DEF TokenInv, Distinct
<1> QED
  BY <1>1, <1>2, <1>3, <1>4, TokenFrame

\* An update leaves all links.
LEMMA UpdateTrafficLinks ==
  ASSUME NEW S, S \subseteq User, NEW i \in Ref, NEW c \in Traffic
  PROVE  /\ SameLinks(UpdateTraffic(S, i, c), S)
         /\ SameLinks(S, UpdateTraffic(S, i, c))
         /\ Distinct(S) => Distinct(UpdateTraffic(S, i, c))
<1>1. CASE UpdateTraffic(S, i, c) = S
  BY <1>1 DEF SameLinks
<1>2. CASE \E u \in S : UpdateTraffic(S, i, c) = (S \ {u}) \cup {Updated(u, c)}
  <2>1. PICK u \in S : UpdateTraffic(S, i, c) = (S \ {u}) \cup {Updated(u, c)}
    BY <1>2
  <2>2. Updated(u, c).id = u.id /\ Updated(u, c).token = u.token
    BY UpdatedIs
  <2>3. Link(Updated(u, c)) = Link(u)
    BY <2>2, LinkEquals
  <2>4. Distinct(S) => Distinct(UpdateTraffic(S, i, c))
    BY <2>1, <2>2 DEF Distinct
  <2>5. SameLinks(UpdateTraffic(S, i, c), S)
    BY <2>1, <2>3 DEF SameLinks
  <2>6. SameLinks(S, UpdateTraffic(S, i, c))
    BY <2>1, <2>3 DEF SameLinks
  <2> QED
    BY <2>4, <2>5, <2>6
<1> QED
  BY <1>1, <1>2, UpdateTrafficIs

\* A poll updates counters and leaves the links.
LEMMA PollUpdateLinks ==
  ASSUME TypeInv, NEW p \in Poller, PollUpdate(p)
  PROVE  /\ SameLinks(mem', mem) /\ SameLinks(mem, mem')
         /\ Distinct(mem) => Distinct(mem')
         /\ disk' = mem' \/ disk' = disk
         /\ up
         /\ UNCHANGED <<up, nextTok, cli, handed, revoked, gone>>
<1>1. PICK i \in Ref :
        /\ poll[p].read[i] \in Traffic
        /\ mem' = UpdateTraffic(mem, i, poll[p].read[i])
  BY PollUpdateIs
<1>2. /\ SameLinks(mem', mem) /\ SameLinks(mem, mem')
      /\ Distinct(mem) => Distinct(mem')
  BY <1>1, SharedTypes, UpdateTrafficLinks
<1>3. up /\ nextTok' = nextTok
  BY DEF PollUpdate
<1>4. /\ disk' = mem' \/ disk' = disk
      /\ UNCHANGED <<up, cli, handed, revoked, gone>>
  BY PollUpdateIs
<1> QED
  BY <1>2, <1>3, <1>4

\* ... and so the tokens.
LEMMA TokenPollUpdate ==
  ASSUME TypeInv, TokenInv, NEW p \in Poller, PollUpdate(p)
  PROVE  TokenInv'
<1>1. Orderly'
  BY PollUpdateLinks, UpOrderly DEF TokenInv
<1>2. SameLinks(mem', mem \cup disk) /\ SameLinks(disk', mem \cup disk)
  BY PollUpdateLinks DEF SameLinks
<1>3. Distinct(mem') /\ Distinct(disk')
  BY PollUpdateLinks DEF TokenInv
<1> QED
  BY <1>1, <1>2, <1>3, PollUpdateLinks, TokenFrame

\* What a rotation writes: the token is replaced, and nobody had the same.
LEMMA TokenCliRotate ==
  ASSUME TypeInv, TokenInv, NEW ref \in Ref, CliRotate(ref)
  PROVE  TokenInv'
<1>1. PICK u \in FindUser(cli.mem, ref) :
        \/ disk' = disk /\ revoked' = revoked
        \/ disk' = RotatedFile(u) /\ revoked' = revoked \cup {u.token}
  BY DEF CliRotate
<1>2. /\ cli.pc = "rotate" /\ cli'.pc = "idle" /\ cli'.mem = {}
      /\ nextTok \in Token /\ nextTok' = nextTok + 1
      /\ UNCHANGED <<up, mem>>
  BY DEF CliRotate, IdleCli
<1>3. ~up /\ mem = {} /\ cli.mem = disk
  BY <1>2 DEF TokenInv, Orderly
<1>4. Orderly'
  BY <1>2, <1>3 DEF Orderly
<1>5. u \in disk /\ u \in User /\ u.token \in Token
  BY <1>3, FoundIs, SharedTypes
<1>6. /\ Rotated(u).token = nextTok /\ Rotated(u).id = u.id
  BY <1>2, <1>5, RotatedIs
<1>7. Distinct(disk) /\ Tokens(disk, nextTok, revoked)
  BY <1>3 DEF TokenInv
<1>8. disk \subseteq User /\ revoked \subseteq Token
  BY SharedTypes
<1>9. \A v \in disk : v.token \in Nat /\ v.token < nextTok
  BY <1>7, <1>8, TokenNumber DEF Tokens
<1>10. nextTok \in Nat
  BY <1>2, Numbers
<1>11. \A t \in revoked \cup {u.token} : t \in Nat /\ t < nextTok
  BY <1>5, <1>7, <1>8, <1>9, Numbers DEF Tokens
<1>12. CASE disk' = disk /\ revoked' = revoked
  <2>1. Tokens(disk, nextTok + 1, revoked)
    <3>1. \A v \in disk : v.token < nextTok + 1
      BY <1>9, <1>10
    <3>2. \A t \in revoked : t < nextTok + 1
      BY <1>10, <1>11
    <3> QED
      BY <1>7, <3>1, <3>2 DEF Tokens
  <2>2. mem' \cup disk' = disk /\ Distinct(mem')
    BY <1>2, <1>3, <1>12 DEF Distinct
  <2> QED
    BY <1>2, <1>4, <1>7, <1>12, <2>1, <2>2 DEF TokenInv
<1>13. CASE disk' = RotatedFile(u) /\ revoked' = revoked \cup {u.token}
  <2>1. disk' = (disk \ {u}) \cup {Rotated(u)}
    BY <1>3, <1>13 DEF RotatedFile
  <2>2. \A v \in disk \ {u} : v.id # u.id /\ v.token # u.token
    <3>1. \A v \in disk \ {u} : v.id # u.id
      BY <1>5, <1>7 DEF Distinct
    <3> QED
      BY <1>5, <1>7, <3>1, Numbers DEF Tokens
  <2>3. Distinct(disk')
    BY <1>6, <1>7, <2>1, <2>2 DEF Distinct
  <2>4. \A v \in disk' : v.token < nextTok + 1 /\ v.token \notin revoked'
    <3>1. \A v \in disk \ {u} : v.token < nextTok + 1 /\ v.token \notin revoked'
      BY <1>7, <1>9, <1>10, <1>13, <2>2 DEF Tokens
    <3>2. nextTok < nextTok + 1 /\ nextTok \notin revoked'
      BY <1>10, <1>11, <1>13
    <3> QED
      BY <1>6, <2>1, <3>1, <3>2
  <2>5. \A t \in revoked' : t < nextTok + 1
    BY <1>10, <1>11, <1>13
  <2>6. \A v \in disk \ {u} : v.token # nextTok
    BY <1>9, <1>10
  <2>7. \A v, w \in disk' : v.token = w.token /\ v.token # NoToken => v.id = w.id
    BY <1>6, <1>7, <2>1, <2>6 DEF Tokens
  <2>8. Tokens(disk', nextTok', revoked')
    BY <1>2, <2>4, <2>5, <2>7 DEF Tokens
  <2>9. mem' \cup disk' = disk' /\ Distinct(mem')
    BY <1>2, <1>3 DEF Distinct
  <2> QED
    BY <1>4, <2>3, <2>8, <2>9 DEF TokenInv
<1> QED
  BY <1>1, <1>12, <1>13

\* Every step keeps the invariant, where no command runs beside the daemon.
LEMMA TokenNext ==
  ASSUME ~Beside, TypeInv, TokenInv, [Next]_vars
  PROVE  TokenInv'
<1>1. CASE Start
  BY <1>1, TokenStart
<1>2. CASE Crash
  BY <1>2, TokenCrash
<1>3. CASE \E e \in Email \cup {NoRef} : AddUser(e)
  BY <1>3, TokenAddUser
<1>4. CASE \E r \in Ref : RemoveUser(r)
  BY <1>4, TokenRemoveUser
<1>5. CASE \E r \in Ref : CliLink(r) \/ CliRefused(r)
  <2>1. /\ UNCHANGED <<mem, disk, nextTok, revoked, up>>
        /\ cli'.pc = "idle" /\ cli'.mem = {} /\ cli.pc # "idle"
    BY <1>5 DEF CliLink, CliRefused, IdleCli, storeVars, histVars, linkVars
  <2>2. Orderly'
    BY <2>1 DEF TokenInv, Orderly
  <2> QED
    BY <2>1, <2>2, TokenQuiet
<1>6. CASE \E r \in Ref : CliRotate(r)
  BY <1>6, TokenCliRotate
<1>7. CASE \E p \in Poller : PollUpdate(p)
  BY <1>7, TokenPollUpdate
<1>8. CASE \E what \in {"link", "rotate"} : CliOpen(what)
  BY <1>8, TokenCliOpen
<1>9. CASE \/ Apply \/ UNCHANGED vars
           \/ \E r \in Ref : Show(r)
           \/ \E c \in clients, dir \in {"rx", "tx"} : Count(c, dir)
           \/ \E p \in Poller : PollRead(p)
  <2>1. UNCHANGED <<up, mem, disk, nextTok, cli, revoked>>
    BY <1>9 DEF Apply, Show, Count, PollRead, vars, storeVars, histVars, linkVars
  <2>2. Orderly'
    BY <2>1 DEF TokenInv, Orderly
  <2> QED
    BY <2>1, <2>2, TokenQuiet
<1> QED
  BY <1>1, <1>2, <1>3, <1>4, <1>5, <1>6, <1>7, <1>8, <1>9 DEF Next

\* Where no command runs beside the daemon, a token of which `vlr user rotate` said
\* that it is revoked is in no list that is or will be served: no crash, no failed
\* flush, no backfill and no later user brings it back (RotateSubToken, Open).
THEOREM RevokedIsDeadCorrect ==
  ASSUME ~Beside
  PROVE  Spec => []RevokedIsDead
<1>1. Init => TokenInv
  BY TokenInit
<1>2. TypeInv /\ TokenInv /\ [Next]_vars => TokenInv'
  BY TokenNext
<1>3. TokenInv => RevokedIsDead
  BY DEF TokenInv, Tokens, RevokedIsDead, Served
<1> QED
  BY <1>1, <1>2, <1>3, TypesHold, PTL DEF Spec

\* A link that leads to a user of S.
Opens(S, l) == \E u \in S : Link(u) = l

\* The links of the daemon's memory are on disk, so a crash loses none; and those
\* handed out are served, unless their user left or they were revoked.
KeptInv ==
  /\ \A u \in mem : Opens(disk, Link(u))
  /\ \A l \in handed : l.id \in gone \/ l.token \in revoked \/ Opens(Served, l)

\* Lists with the same links open the same.
LEMMA OpensSame ==
  ASSUME NEW S, NEW T, SameLinks(S, T), NEW l, Opens(S, l)
  PROVE  Opens(T, l)
BY DEF SameLinks, Opens

\* The link of a user leads to it.
LEMMA OpensOwn ==
  ASSUME NEW S, NEW u \in S
  PROVE  Opens(S, Link(u))
BY DEF Opens

\* At first no link was given.
LEMMA KeptInit == Init => KeptInv
BY DEF Init, KeptInv

\* Steps that leave the lists, the links and those who left.
LEMMA KeptQuiet ==
  ASSUME KeptInv, UNCHANGED <<up, mem, disk, handed, revoked, gone>>
  PROVE  KeptInv'
<1>1. Served' = Served
  BY DEF Served
<1> QED
  BY <1>1 DEF KeptInv, Opens, Link

\* Open keeps the links that are served.
LEMMA OpenLinks ==
  ASSUME TypeInv, TokenInv, KeptInv, ~up, Open
  PROVE  \A l \in handed : l.id \in gone \/ l.token \in revoked \/ Opens(disk', l)
<1>1. Distinct(disk) /\ Tokens(disk, nextTok, revoked)
  BY DEF TokenInv, Tokens
<1>2. \A u \in disk : u.token # NoToken => u \in disk'
  BY <1>1, OpenTokens
<1> TAKE l \in handed
<1>3. CASE Opens(Served, l)
  <2>1. PICK u \in disk : Link(u) = l
    BY <1>3 DEF Served, Opens
  <2>2. u.token = l.token
    BY <2>1 DEF Link
  <2>3. l.token # NoToken
    BY Numbers DEF TypeInv, TypeOK
  <2> QED
    BY <1>2, <2>1, <2>2, <2>3 DEF Opens
<1> QED
  BY <1>3 DEF KeptInv

\* A start loads all links of the file.
LEMMA KeptStart == ASSUME TypeInv, TokenInv, KeptInv, Start PROVE KeptInv'
<1>1. ~up /\ Open /\ up' = TRUE /\ mem' = disk'
      /\ UNCHANGED <<handed, revoked, gone>>
  BY OpenKeeps DEF Start, histVars, linkVars
<1>2. Served' = disk'
  BY <1>1 DEF Served
<1>3. \A l \in handed' : l.id \in gone' \/ l.token \in revoked' \/ Opens(Served', l)
  BY <1>1, <1>2, OpenLinks
<1>4. \A u \in mem' : Opens(disk', Link(u))
  BY <1>1, OpensOwn
<1> QED
  BY <1>3, <1>4 DEF KeptInv, Opens, Link

\* The file keeps its links.
LEMMA KeptCliOpen ==
  ASSUME TypeInv, TokenInv, KeptInv, ~Beside, NEW what, CliOpen(what)
  PROVE  KeptInv'
<1>1. ~up /\ Open /\ UNCHANGED <<up, mem, handed, revoked, gone>>
  BY DEF CliOpen, histVars, linkVars
<1>2. Served' = disk' /\ mem' = {}
  BY <1>1 DEF Served, TokenInv, Orderly
<1>3. \A l \in handed' : l.id \in gone' \/ l.token \in revoked' \/ Opens(Served', l)
  BY <1>1, <1>2, OpenLinks
<1> QED
  BY <1>2, <1>3 DEF KeptInv, Opens, Link

\* The links of the memory were on disk.
LEMMA KeptCrash == ASSUME KeptInv, Crash PROVE KeptInv'
<1>1. up /\ up' = FALSE /\ mem' = {} /\ UNCHANGED <<disk, handed, revoked, gone>>
  BY DEF Crash, histVars, linkVars
<1>2. Served = mem /\ Served' = disk
  BY <1>1 DEF Served
<1>3. \A l : Opens(mem, l) => Opens(disk, l)
  BY DEF KeptInv, Opens
<1>4. \A l \in handed' : l.id \in gone' \/ l.token \in revoked' \/ Opens(Served', l)
  BY <1>1, <1>2, <1>3 DEF KeptInv
<1> QED
  BY <1>1, <1>4 DEF KeptInv, Opens, Link

\* The flush of a creation succeeds, so memory and file are the same again.
LEMMA KeptAddUser ==
  ASSUME KeptInv, "add" \notin FlushFails, NEW email, AddUser(email)
  PROVE  KeptInv'
<1> DEFINE u == NewUser(email)
<1>1. FlushOutcome("add") = {TRUE}
  BY DEF FlushOutcome
<1>2. /\ up /\ mem' = mem \cup {u} /\ disk' = mem'
      /\ handed' = handed \cup {Link(u)}
      /\ UNCHANGED <<up, revoked, gone>>
  BY <1>1 DEF AddUser
<1> HIDE DEF u
<1>3. Served = mem /\ Served' = mem'
  BY <1>2 DEF Served
<1>4. \A l : Opens(mem, l) => Opens(mem', l)
  BY <1>2 DEF Opens
<1>5. Opens(mem', Link(u))
  BY <1>2, OpensOwn
<1>6. \A l \in handed' : l.id \in gone' \/ l.token \in revoked' \/ Opens(Served', l)
  BY <1>2, <1>3, <1>4, <1>5 DEF KeptInv
<1>7. \A v \in mem' : Opens(disk', Link(v))
  BY <1>2, OpensOwn
<1> QED
  BY <1>6, <1>7 DEF KeptInv, Opens, Link

\* A removal takes the links of a user who is gone; when its flush fails, the file
\* has more links than the memory.
LEMMA KeptRemoveUser ==
  ASSUME TypeInv, KeptInv, NEW ref, RemoveUser(ref)
  PROVE  KeptInv'
<1>1. PICK u \in FindUser(mem, ref) :
        /\ mem' = mem \ {u} /\ gone' = gone \cup {u.id}
        /\ disk' = mem' \/ disk' = disk
  BY DEF RemoveUser
<1>2. up /\ UNCHANGED <<up, handed, revoked>>
  BY DEF RemoveUser, linkVars
<1>3. Served = mem /\ Served' = mem'
  BY <1>2 DEF Served
<1>4. ASSUME NEW l, Opens(mem, l)
      PROVE  l.id \in gone' \/ Opens(mem', l)
  <2>1. PICK v \in mem : Link(v) = l
    BY <1>4 DEF Opens
  <2>2. CASE v = u
    BY <1>1, <2>1, <2>2 DEF Link
  <2>3. CASE v # u
    BY <1>1, <2>1, <2>3 DEF Opens
  <2> QED
    BY <2>2, <2>3
<1>5. \A l \in handed' : l.id \in gone' \/ l.token \in revoked' \/ Opens(Served', l)
  BY <1>1, <1>2, <1>3, <1>4 DEF KeptInv
<1>6. \A v \in mem' : Opens(disk', Link(v))
  BY <1>1, OpensOwn DEF KeptInv
<1> QED
  BY <1>5, <1>6 DEF KeptInv, Opens, Link

\* The portal shows links that are served.
LEMMA KeptShow ==
  ASSUME TypeInv, KeptInv, NEW ref, Show(ref)
  PROVE  KeptInv'
<1>1. PICK u \in FindUser(mem, ref) : handed' = handed \cup {Link(u)}
  BY DEF Show
<1>2. up /\ UNCHANGED <<up, mem, disk, revoked, gone>>
  BY DEF Show, storeVars
<1>3. Served = mem /\ Served' = mem
  BY <1>2 DEF Served
<1>4. u \in mem
  BY FoundIs, SharedTypes
<1>5. \A l \in handed' : l.id \in gone' \/ l.token \in revoked' \/ Opens(Served', l)
  BY <1>1, <1>2, <1>3, <1>4, OpensOwn DEF KeptInv
<1>6. \A v \in mem' : Opens(disk', Link(v))
  BY <1>2 DEF KeptInv
<1> QED
  BY <1>5, <1>6 DEF KeptInv, Opens, Link

\* The links are those there were.
LEMMA KeptPollUpdate ==
  ASSUME TypeInv, KeptInv, NEW p \in Poller, PollUpdate(p)
  PROVE  KeptInv'
<1>1. /\ SameLinks(mem', mem) /\ SameLinks(mem, mem')
      /\ disk' = mem' \/ disk' = disk
      /\ up
      /\ UNCHANGED <<up, handed, revoked, gone>>
  BY PollUpdateLinks
<1>2. Served = mem /\ Served' = mem'
  BY <1>1 DEF Served
<1>3. \A l : Opens(mem, l) => Opens(mem', l)
  BY <1>1, OpensSame
<1>4. \A l \in handed' : l.id \in gone' \/ l.token \in revoked' \/ Opens(Served', l)
  BY <1>1, <1>2, <1>3 DEF KeptInv
<1>5. \A w \in mem' : Opens(disk', Link(w))
  <2>1. CASE disk' = mem'
    BY <2>1, OpensOwn
  <2>2. CASE disk' = disk
    BY <1>1, <2>2 DEF SameLinks, KeptInv
  <2> QED
    BY <1>1, <2>1, <2>2
<1> QED
  BY <1>4, <1>5 DEF KeptInv, Opens, Link

\* A link that is printed is in the file.
LEMMA KeptCliLink ==
  ASSUME TypeInv, TokenInv, KeptInv, NEW ref, CliLink(ref)
  PROVE  KeptInv'
<1>1. /\ handed' = handed \cup {Link(u) : u \in FindUser(cli.mem, ref)}
      /\ cli.pc # "idle" /\ UNCHANGED <<up, mem, disk, revoked, gone>>
  BY DEF CliLink, storeVars
<1>2. cli.mem = disk /\ Served = disk /\ Served' = disk
  BY <1>1 DEF Served, TokenInv, Orderly
<1>3. \A u \in FindUser(cli.mem, ref) : u \in disk
  BY <1>2, FoundIs, SharedTypes
<1>4. \A l \in handed' : l.id \in gone' \/ l.token \in revoked' \/ Opens(Served', l)
  BY <1>1, <1>2, <1>3, OpensOwn DEF KeptInv
<1>5. \A v \in mem' : Opens(disk', Link(v))
  BY <1>1 DEF KeptInv
<1> QED
  BY <1>4, <1>5 DEF KeptInv, Opens, Link

\* The link that a rotation takes out is revoked.
LEMMA KeptCliRotate ==
  ASSUME TypeInv, TokenInv, KeptInv, NEW ref, CliRotate(ref)
  PROVE  KeptInv'
<1>1. PICK u \in FindUser(cli.mem, ref) :
        \/ UNCHANGED <<disk, revoked, handed>>
        \/ /\ disk' = RotatedFile(u) /\ revoked' = revoked \cup {u.token}
           /\ handed' = handed \cup {Link(Rotated(u))}
  BY DEF CliRotate
<1>2. cli.pc = "rotate" /\ UNCHANGED <<up, mem, gone>>
  BY DEF CliRotate
<1>3. ~up /\ mem = {} /\ cli.mem = disk
  BY <1>2 DEF TokenInv, Orderly
<1>4. Served = disk /\ Served' = disk'
  BY <1>2, <1>3 DEF Served
<1>5. CASE UNCHANGED <<disk, revoked, handed>>
  BY <1>2, <1>5, KeptQuiet
<1>6. CASE /\ disk' = RotatedFile(u) /\ revoked' = revoked \cup {u.token}
           /\ handed' = handed \cup {Link(Rotated(u))}
  <2>1. disk' = (disk \ {u}) \cup {Rotated(u)}
    BY <1>3, <1>6 DEF RotatedFile
  <2>2. ASSUME NEW l, Opens(disk, l)
        PROVE  l.token \in revoked' \/ Opens(disk', l)
    <3>1. PICK v \in disk : Link(v) = l
      BY <2>2 DEF Opens
    <3>2. CASE v = u
      BY <1>6, <3>1, <3>2 DEF Link
    <3>3. CASE v # u
      BY <2>1, <3>1, <3>3 DEF Opens
    <3> QED
      BY <3>2, <3>3
  <2>3. Opens(disk', Link(Rotated(u)))
    BY <2>1, OpensOwn
  <2>4. \A l \in handed' : l.id \in gone' \/ l.token \in revoked' \/ Opens(Served', l)
    BY <1>2, <1>4, <1>6, <2>2, <2>3 DEF KeptInv
  <2>5. mem' = {}
    BY <1>2, <1>3
  <2> QED
    BY <2>4, <2>5 DEF KeptInv, Opens, Link
<1> QED
  BY <1>1, <1>5, <1>6

\* Every step keeps the invariant.
LEMMA KeptNext ==
  ASSUME ~Beside, "add" \notin FlushFails, TypeInv, TokenInv, KeptInv, [Next]_vars
  PROVE  KeptInv'
<1>1. CASE Start
  BY <1>1, KeptStart
<1>2. CASE Crash
  BY <1>2, KeptCrash
<1>3. CASE \E e \in Email \cup {NoRef} : AddUser(e)
  BY <1>3, KeptAddUser
<1>4. CASE \E r \in Ref : RemoveUser(r)
  BY <1>4, KeptRemoveUser
<1>5. CASE \E r \in Ref : Show(r)
  BY <1>5, KeptShow
<1>6. CASE \E r \in Ref : CliLink(r)
  BY <1>6, KeptCliLink
<1>7. CASE \E r \in Ref : CliRotate(r)
  BY <1>7, KeptCliRotate
<1>8. CASE \E p \in Poller : PollUpdate(p)
  BY <1>8, KeptPollUpdate
<1>9. CASE \E what \in {"link", "rotate"} : CliOpen(what)
  BY <1>9, KeptCliOpen
<1>10. CASE \/ Apply \/ UNCHANGED vars
            \/ \E r \in Ref : CliRefused(r)
            \/ \E c \in clients, dir \in {"rx", "tx"} : Count(c, dir)
            \/ \E p \in Poller : PollRead(p)
  <2>1. UNCHANGED <<up, mem, disk, handed, revoked, gone>>
    BY <1>10 DEF Apply, CliRefused, Count, PollRead, vars, storeVars, histVars, linkVars
  <2> QED
    BY <2>1, KeptQuiet
<1> QED
  BY <1>1, <1>2, <1>3, <1>4, <1>5, <1>6, <1>7, <1>8, <1>9, <1>10 DEF Next

\* Where no command runs beside the daemon and the flush of a creation does not
\* fail, a subscription link somebody was given opens a list that is served, through
\* crashes, upgrades and failed flushes of anything else, until its user is removed
\* or the link is revoked.
THEOREM LinkKeptCorrect ==
  ASSUME ~Beside, "add" \notin FlushFails
  PROVE  Spec => []LinkKept
<1>1. Init => TokenInv /\ KeptInv
  BY TokenInit, KeptInit
<1>2. TypeInv /\ TokenInv /\ KeptInv /\ [Next]_vars => (TokenInv /\ KeptInv)'
  BY TokenNext, KeptNext
<1>3. KeptInv => LinkKept
  BY DEF KeptInv, LinkKept, Opens
<1> QED
  BY <1>1, <1>2, <1>3, TypesHold, PTL DEF Spec
=============================================================================
