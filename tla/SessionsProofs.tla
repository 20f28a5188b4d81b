--------------------------- MODULE SessionsProofs ---------------------------
(* Proofs about Sessions, for every number of requests and every spelling. *)
EXTENDS Sessions, SequenceTheorems, FiniteSetTheorems, WellFoundedInduction,
        TLAPS

(***************************************************************************)
(* Why a name is listed once, though a registration does not look whether  *)
(* its session has the name: who is listed has a row, and the name of a    *)
(* registration had none when it was about to be added, so that no session *)
(* loaded before lists it.                                                 *)
(***************************************************************************)
Accounts == Seq(SessionAccount)
SessionRecord ==
  [accounts : Accounts, authenticateOptions : Account \cup {Null}]
RequestRecord ==
  [at : Place, kind : Kind, session : SessionRecord,
   account : Account \cup {Null}, failed : Nat]

Once(accounts) ==
  \A i, j \in 1 .. Len(accounts) :
    accounts[i].account = accounts[j].account => i = j
HaveRows(accounts, rows) ==
  \A i \in 1 .. Len(accounts) : UserOf[accounts[i].account] \in rows
Lists(accounts, a) == \E i \in 1 .. Len(accounts) : accounts[i].account = a

ListOK(accounts, rows) ==
  accounts \in Accounts /\ Once(accounts) /\ HaveRows(accounts, rows)

HasRow(a, rows) == a \in Account /\ UserOf[a] \in rows

SessionOK(s, rows) ==
  /\ s \in SessionRecord
  /\ ListOK(s.accounts, rows)
  /\ s.authenticateOptions # Null => HasRow(s.authenticateOptions, rows)

RequestOK(q, rows) ==
  /\ q \in RequestRecord
  /\ SessionOK(q.session, rows)
  /\ q.kind \in {"register", "login", "options"} => q.account \in Account
  /\ q.kind = "verify" => HasRow(q.account, rows)
  /\ q.at = "created" =>
       /\ q.kind = "register" /\ HasRow(q.account, rows)
       /\ ~Lists(q.session.accounts, q.account)
  /\ q.at = "verify" => q.kind = "verify"
  /\ q.at = "run" => Lists(q.session.accounts, q.account)

SessionsInv ==
  /\ registered \in SUBSET User
  /\ SessionOK(stored, registered)
  /\ req = [r \in Request |-> req[r]]
  /\ \A r \in Request : req[r] = Idle \/ RequestOK(req[r], registered)

-----------------------------------------------------------------------------
(* Lists of accounts                                                       *)

\* More rows leave lists, sessions and requests in order.
LEMMA MoreRows ==
  ASSUME NEW rows, NEW more, rows \subseteq more
  PROVE  /\ \A s : SessionOK(s, rows) => SessionOK(s, more)
         /\ \A q : RequestOK(q, rows) => RequestOK(q, more)
<1>1. \A accounts : ListOK(accounts, rows) => ListOK(accounts, more)
  BY DEF ListOK, HaveRows
<1>2. \A a : HasRow(a, rows) => HasRow(a, more)
  BY DEF HasRow
<1>3. \A s : SessionOK(s, rows) => SessionOK(s, more)
  BY <1>1, <1>2 DEF SessionOK
<1>4. QED  BY <1>2, <1>3 DEF RequestOK

\* Of some places there is a first one.
LEMMA FirstExists ==
  ASSUME NEW n \in Nat, NEW S, S \subseteq 1 .. n, S # {}
  PROVE  \E i \in S : \A j \in 1 .. i - 1 : j \notin S
<1>1. S \subseteq Nat
  OBVIOUS
<1>2. PICK i \in S : \A j \in S : ~(<<j, i>> \in OpToRel(<, Nat))
  BY <1>1, NatLessThanWellFounded, WFMin
<1>3. \A j \in S : ~(j < i)
  BY <1>1, <1>2 DEF OpToRel
<1>4. \A j \in 1 .. i - 1 : j < i
  BY <1>1
<1>5. QED  BY <1>3, <1>4

\* What findIndex finds
LEMMA FirstIndexFinds ==
  ASSUME NEW accounts \in Accounts, NEW a
  PROVE  /\ \A i \in IndexOfAccount(accounts, a) :
              i \in 1 .. Len(accounts) /\ accounts[i].account = a
         /\ Lists(accounts, a) <=> IndexOfAccount(accounts, a) # {}
<1> DEFINE S == {i \in 1 .. Len(accounts) : accounts[i].account = a}
<1>1. DOMAIN accounts = 1 .. Len(accounts) /\ Len(accounts) \in Nat
  BY DEF Accounts
<1>2. IndexOfAccount(accounts, a) =
        {i \in S : \A j \in 1 .. i - 1 : accounts[j].account # a}
  BY <1>1 DEF IndexOfAccount, FirstIndex
<1>3. ASSUME S # {} PROVE IndexOfAccount(accounts, a) # {}
  <2>1. PICK i \in S : \A j \in 1 .. i - 1 : j \notin S
    BY <1>1, <1>3, FirstExists
  <2>2. i \in 1 .. Len(accounts)
    OBVIOUS
  <2>3. \A j \in 1 .. i - 1 : j \in 1 .. Len(accounts)
    BY <1>1, <2>2
  <2>4. \A j \in 1 .. i - 1 : accounts[j].account # a
    BY <2>1, <2>3
  <2>5. QED  BY <1>2, <2>1, <2>4
<1>4. QED  BY <1>2, <1>3 DEF Lists

\* The same for whoever has another spelling of the name
LEMMA UserNotFound ==
  ASSUME NEW accounts \in Accounts, NEW a \in Account,
         IndexOfUser(accounts, UserOf[a]) = {}
  PROVE  ~Lists(accounts, a)
<1> DEFINE u == UserOf[a]
           S == {i \in 1 .. Len(accounts) : UserOf[accounts[i].account] = u}
<1>1. DOMAIN accounts = 1 .. Len(accounts) /\ Len(accounts) \in Nat
  BY DEF Accounts
<1>2. IndexOfUser(accounts, u) =
        {i \in S : \A j \in 1 .. i - 1 : UserOf[accounts[j].account] # u}
  BY <1>1 DEF IndexOfUser, FirstIndex
<1>3. ASSUME S # {} PROVE IndexOfUser(accounts, u) # {}
  <2>1. PICK i \in S : \A j \in 1 .. i - 1 : j \notin S
    BY <1>1, <1>3, FirstExists
  <2>2. i \in 1 .. Len(accounts)
    OBVIOUS
  <2>3. \A j \in 1 .. i - 1 : j \in 1 .. Len(accounts)
    BY <1>1, <2>2
  <2>4. \A j \in 1 .. i - 1 : UserOf[accounts[j].account] # u
    BY <2>1, <2>3
  <2>5. QED  BY <1>2, <2>1, <2>4
<1>4. QED  BY <1>3 DEF Lists

\* A name that is not listed is pushed ...
LEMMA PushOK ==
  ASSUME NEW accounts, NEW rows, ListOK(accounts, rows), NEW a,
         HasRow(a, rows), ~Lists(accounts, a)
  PROVE  ListOK(WithLogin(accounts, {}, a), rows)
<1> DEFINE entry == [account |-> a, isLoggedIn |-> TRUE]
           new == Append(accounts, entry)
<1>1. accounts \in Seq(SessionAccount) /\ Len(accounts) \in Nat
  BY DEF ListOK, Accounts
<1>2. entry \in SessionAccount /\ entry.account = a
  BY DEF HasRow, SessionAccount
<1> HIDE DEF entry
<1>3. /\ new \in Accounts /\ Len(new) = Len(accounts) + 1
      /\ \A i \in 1 .. Len(accounts) : new[i] = accounts[i]
      /\ new[Len(accounts) + 1] = entry
  BY <1>1, <1>2, AppendProperties DEF Accounts
<1>4. \A i \in 1 .. Len(new) : i \in 1 .. Len(accounts) \/ i = Len(accounts) + 1
  BY <1>1, <1>3
<1> HIDE DEF new
<1>5. Once(new)
  BY <1>2, <1>3, <1>4 DEF ListOK, Once, Lists
<1>6. HaveRows(new, rows)
  BY <1>2, <1>3, <1>4 DEF ListOK, HaveRows, HasRow
<1>7. WithLogin(accounts, {}, a) = new
  BY DEF WithLogin, new, entry
<1>8. QED  BY <1>3, <1>5, <1>6, <1>7 DEF ListOK

\* ... and one that is listed is logged in where it is.
LEMMA LoginOK ==
  ASSUME NEW accounts, NEW rows, ListOK(accounts, rows), NEW a, NEW is,
         is # {}
  PROVE  ListOK(WithLogin(accounts, is, a), rows)
<1> DEFINE new == [i \in 1 .. Len(accounts) |->
                     [accounts[i] EXCEPT !.isLoggedIn = @ \/ i \in is]]
<1>1. /\ accounts \in Seq(SessionAccount) /\ Len(accounts) \in Nat
      /\ DOMAIN accounts = 1 .. Len(accounts)
  BY DEF ListOK, Accounts
<1>2. \A i \in 1 .. Len(accounts) : accounts[i] \in SessionAccount
  BY <1>1
<1>3. \A i \in 1 .. Len(accounts) :
        /\ new[i] \in SessionAccount
        /\ new[i].account = accounts[i].account
  BY <1>2 DEF SessionAccount
<1>4. new \in Accounts /\ Len(new) = Len(accounts)
  BY <1>1, <1>3 DEF Accounts
<1>5. WithLogin(accounts, is, a) = new
  BY <1>1 DEF WithLogin
<1> HIDE DEF new
<1>6. Once(new) /\ HaveRows(new, rows)
  BY <1>3, <1>4 DEF ListOK, Once, HaveRows
<1>7. QED  BY <1>4, <1>5, <1>6 DEF ListOK

\* splice takes one out, and those behind it are one place further ahead.
LEMMA WithoutAre ==
  ASSUME NEW accounts \in Accounts, NEW i \in 1 .. Len(accounts)
  PROVE  /\ Without(accounts, i) \in Accounts
         /\ Len(Without(accounts, i)) = Len(accounts) - 1
         /\ \A k \in 1 .. Len(accounts) - 1 :
              Without(accounts, i)[k] = accounts[IF k < i THEN k ELSE k + 1]
<1> DEFINE n == Len(accounts)
           front == SubSeq(accounts, 1, i - 1)
           back == SubSeq(accounts, i + 1, n)
           new == front \o back
           Was(k) == IF k < i THEN k ELSE k + 1
<1>1. accounts \in Seq(SessionAccount) /\ n \in Nat /\ i \in 1 .. n
  BY DEF Accounts
<1>2. /\ front \in Seq(SessionAccount) /\ Len(front) = i - 1
      /\ \A k \in 1 .. i - 1 : front[k] = accounts[k]
  BY <1>1
<1>3. /\ back \in Seq(SessionAccount) /\ Len(back) = n - i
      /\ \A k \in 1 .. n - i : back[k] = accounts[i + k]
  BY <1>1
<1> HIDE DEF n, front, back
<1>4. /\ new \in Seq(SessionAccount) /\ Len(new) = Len(front) + Len(back)
      /\ \A k \in 1 .. Len(front) + Len(back) :
           new[k] = IF k <= Len(front) THEN front[k] ELSE back[k - Len(front)]
  BY <1>2, <1>3, ConcatProperties
<1> HIDE DEF new
<1>5. Len(new) = n - 1 /\ \A k \in 1 .. n - 1 : new[k] = accounts[Was(k)]
  <2>1. Len(new) = n - 1
    BY <1>1, <1>2, <1>3, <1>4
  <2>2. ASSUME NEW k \in 1 .. n - 1, k < i PROVE new[k] = accounts[Was(k)]
    BY <1>1, <1>2, <1>3, <1>4, <2>2
  <2>3. ASSUME NEW k \in 1 .. n - 1, ~(k < i) PROVE new[k] = accounts[Was(k)]
    <3> DEFINE m == k - (i - 1)
    <3>1. m \in 1 .. n - i /\ i + m = k + 1 /\ ~(k <= i - 1)
      BY <1>1, <2>3
    <3>2. k \in 1 .. Len(front) + Len(back) /\ k - Len(front) = m
      BY <1>1, <1>2, <1>3, <2>3
    <3>3. new[k] = back[m]
      BY <1>2, <1>4, <3>1, <3>2
    <3> HIDE DEF m
    <3>4. back[m] = accounts[i + m]
      BY <1>3, <3>1
    <3>5. QED  BY <2>3, <3>1, <3>3, <3>4
  <2>4. QED  BY <2>1, <2>2, <2>3
<1>6. Without(accounts, i) = new
  BY DEF Without, RemoveAt, new, front, back, n
<1>7. QED  BY <1>4, <1>5, <1>6 DEF Accounts, n

LEMMA WithoutOK ==
  ASSUME NEW accounts, NEW rows, ListOK(accounts, rows),
         NEW i \in 1 .. Len(accounts)
  PROVE  ListOK(Without(accounts, i), rows)
<1> DEFINE n == Len(accounts)
           new == Without(accounts, i)
           Was(k) == IF k < i THEN k ELSE k + 1
<1>1. accounts \in Accounts /\ n \in Nat /\ i \in 1 .. n
  BY DEF ListOK, Accounts
<1>2. /\ new \in Accounts /\ Len(new) = n - 1
      /\ \A k \in 1 .. n - 1 : new[k] = accounts[Was(k)]
  BY <1>1, WithoutAre
<1>3. /\ \A k \in 1 .. n - 1 : Was(k) \in 1 .. n
      /\ \A k, l \in 1 .. n - 1 : Was(k) = Was(l) => k = l
  BY <1>1
<1> HIDE DEF new, Was, n
<1>4. Once(new) /\ HaveRows(new, rows)
  BY <1>2, <1>3 DEF ListOK, Once, HaveRows, n
<1>5. QED  BY <1>2, <1>4 DEF ListOK, new

-----------------------------------------------------------------------------
(* The steps of a request                                                  *)

\* A step that changes one request and no session
LEMMA RequestStepOK ==
  ASSUME SessionsInv, NEW r \in Request, NEW q,
         req' = [req EXCEPT ![r] = q], UNCHANGED stored,
         registered \subseteq registered', registered' \in SUBSET User,
         q = Idle \/ RequestOK(q, registered')
  PROVE  SessionsInv'
<1>1. /\ req' = [p \in Request |-> req'[p]]
      /\ \A p \in Request : req'[p] = IF p = r THEN q ELSE req[p]
  BY DEF SessionsInv
<1>2. \A p \in Request : req'[p] = Idle \/ RequestOK(req'[p], registered')
  BY <1>1, MoreRows DEF SessionsInv
<1>3. SessionOK(stored', registered')
  BY MoreRows DEF SessionsInv
<1>4. QED  BY <1>1, <1>2, <1>3 DEF SessionsInv

\* A response that may have stored a session
LEMMA AnswerStepOK ==
  ASSUME SessionsInv, NEW r \in Request, Ends(r), UNCHANGED registered,
         SessionOK(stored', registered)
  PROVE  SessionsInv'
<1>1. /\ req' = [p \in Request |-> req'[p]]
      /\ \A p \in Request : req'[p] = Idle \/ req'[p] = req[p]
  BY DEF SessionsInv, Ends
<1>2. QED  BY <1>1 DEF SessionsInv

LEMMA ProcessEndsOK ==
  ASSUME SessionsInv, ProcessEnds
  PROVE  SessionsInv'
BY DEF SessionsInv, ProcessEnds

\* A request that is at some place is one in order, with a session in order.
LEMMA AtOK ==
  ASSUME SessionsInv, NEW r \in Request, NEW place \in Place,
         Waits(r, place)
  PROVE  /\ RequestOK(req[r], registered) /\ req[r] \in RequestRecord
         /\ req[r].at = place
         /\ SessionOK(req[r].session, registered)
         /\ req[r].session \in SessionRecord
         /\ ListOK(req[r].session.accounts, registered)
         /\ req[r].session.accounts \in Accounts
<1>1. req[r].at = place /\ place # "idle"
  BY DEF Waits, Place
<1>2. req[r] # Idle
  BY <1>1 DEF Idle
<1>3. RequestOK(req[r], registered)
  BY <1>2 DEF SessionsInv
<1>4. QED  BY <1>1, <1>3 DEF RequestOK, SessionOK, ListOK

\* Going on to a place that asks for nothing new
LEMMA GoToOK ==
  ASSUME SessionsInv, NEW r \in Request, NEW place \in Place,
         Waits(r, place), NEW next \in {"query", "verify", "forgotten"},
         GoTo(r, next),
         next = "verify" => req[r].kind = "verify",
         UNCHANGED <<stored, registered>>
  PROVE  SessionsInv'
<1> DEFINE q == [req[r] EXCEPT !.at = next]
<1>1. RequestOK(req[r], registered) /\ req[r] \in RequestRecord
  BY AtOK
<1>2. /\ q \in RequestRecord /\ q.at = next /\ q.kind = req[r].kind
      /\ q.session = req[r].session /\ q.account = req[r].account
  BY <1>1 DEF RequestRecord, Place
<1>3. req' = [req EXCEPT ![r] = q]
  BY DEF GoTo
<1> HIDE DEF q
<1>4. RequestOK(q, registered)
  BY <1>1, <1>2 DEF RequestOK
<1>5. QED  BY <1>3, <1>4, RequestStepOK DEF SessionsInv

\* What a request stores when only the list has changed
LEMMA StoreAccountsOK ==
  ASSUME SessionsInv, NEW r \in Request, NEW place \in Place,
         Waits(r, place), NEW accounts, ListOK(accounts, registered),
         AnswerWithAccounts(r, accounts), UNCHANGED registered
  PROVE  SessionsInv'
<1>1. SessionOK(req[r].session, registered) /\ req[r].session \in SessionRecord
  BY AtOK
<1>2. stored' = [req[r].session EXCEPT !.accounts = accounts] /\ Ends(r)
  BY DEF AnswerWithAccounts, AnswerAndStore
<1>3. /\ stored' \in SessionRecord /\ stored'.accounts = accounts
      /\ stored'.authenticateOptions = req[r].session.authenticateOptions
  BY <1>1, <1>2 DEF SessionRecord, ListOK
<1>4. SessionOK(stored', registered)
  BY <1>1, <1>3 DEF SessionOK
<1>5. QED  BY <1>2, <1>4, AnswerStepOK

-----------------------------------------------------------------------------
(* The beginnings                                                          *)

\* A new request, with a session in order
LEMMA NewRequestOK ==
  ASSUME SessionsInv, NEW r \in Request, NEW kind \in Kind,
         NEW place \in {"getConn", "query", "run"}, NEW session,
         SessionOK(session, registered), NEW account \in Account \cup {Null},
         kind \in {"register", "login", "options"} => account \in Account,
         kind = "verify" => HasRow(account, registered),
         place = "run" => Lists(session.accounts, account),
         Loads(r, NewRequest(kind, place, session, account))
  PROVE  SessionsInv'
<1> DEFINE q == NewRequest(kind, place, session, account)
<1>1. /\ q \in RequestRecord /\ q.at = place /\ q.kind = kind
      /\ q.session = session /\ q.account = account
  BY DEF NewRequest, RequestRecord, Place, SessionOK
<1>2. req' = [req EXCEPT ![r] = q] /\ UNCHANGED <<stored, registered>>
  BY DEF Loads
<1> HIDE DEF q
<1>3. RequestOK(q, registered)
  BY <1>1 DEF RequestOK
<1>4. QED  BY <1>2, <1>3, RequestStepOK DEF SessionsInv

LEMMA AsksOK ==
  ASSUME SessionsInv, NEW r \in Request, NEW kind \in Kind, NEW session,
         SessionOK(session, registered), NEW account \in Account \cup {Null},
         kind \in {"register", "login", "options"} => account \in Account,
         kind = "verify" => HasRow(account, registered),
         AsksForConnection(r, kind, session, account)
  PROVE  SessionsInv'
<1>1. PICK place \in {"getConn", "query"} :
        Loads(r, NewRequest(kind, place, session, account))
  BY DEF AsksForConnection
<1>2. QED  BY <1>1, NewRequestOK

LEMMA BeginOK ==
  ASSUME SessionsInv, NEW r \in Request, Begin(r)
  PROVE  SessionsInv'
<1>1. /\ SessionOK(stored, registered) /\ stored \in SessionRecord
      /\ stored.accounts \in Seq(SessionAccount)
      /\ DOMAIN stored.accounts = 1 .. Len(stored.accounts)
  BY DEF SessionsInv, SessionOK, ListOK, Accounts
<1>2. SessionOK(Empty, registered)
  BY DEF Empty, SessionOK, SessionRecord, ListOK, Accounts, Once, HaveRows
<1>3. CASE \E a \in Account, kind \in {"register", "login", "options"} :
             AsksForConnection(r, kind, stored, a)
  BY <1>1, <1>3, AsksOK DEF Kind
<1>4. CASE Verify(r)
  <2> DEFINE session == [stored EXCEPT !.authenticateOptions = Null]
  <2>1. /\ session \in SessionRecord /\ session.accounts = stored.accounts
        /\ session.authenticateOptions = Null
    BY <1>1 DEF SessionRecord
  <2>2. HasRow(stored.authenticateOptions, registered)
    BY <1>1, <1>4 DEF Verify, SessionOK
  <2> HIDE DEF session
  <2>3. SessionOK(session, registered)
    BY <1>1, <2>1 DEF SessionOK
  <2>4. AsksForConnection(r, "verify", session, stored.authenticateOptions)
    BY <1>4 DEF Verify, session
  <2>5. QED  BY <2>2, <2>3, <2>4, AsksOK DEF Kind, HasRow
<1>5. CASE AsksForConnection(r, "plain", Empty, Null)
  BY <1>2, <1>5, AsksOK DEF Kind
<1>6. CASE AsksForConnection(r, "registration", stored, Null)
  BY <1>1, <1>6, AsksOK DEF Kind
<1>7. CASE \E i \in DOMAIN stored.accounts, kind \in {"logout", "delete"} :
             Runs(r, kind, i)
  <2>1. PICK i \in 1 .. Len(stored.accounts), kind \in {"logout", "delete"} :
          Loads(r, NewRequest(kind, "run", stored, stored.accounts[i].account))
    BY <1>1, <1>7 DEF Runs
  <2>2. stored.accounts[i] \in SessionAccount
    BY <1>1
  <2>3. stored.accounts[i].account \in Account
    BY <2>2 DEF SessionAccount
  <2>4. Lists(stored.accounts, stored.accounts[i].account)
    BY DEF Lists
  <2>5. QED  BY <1>1, <2>1, <2>3, <2>4, NewRequestOK DEF Kind
<1>8. QED
  BY <1>3, <1>4, <1>5, <1>6, <1>7
     DEF Begin, Credentials, Options, ListUsers, UserRoute, Registration

-----------------------------------------------------------------------------
(* The ways on                                                             *)

LEMMA PollsOK ==
  ASSUME SessionsInv, NEW r \in Request, Polls(r)
  PROVE  SessionsInv'
<1>1. CASE TakeConnection(r)
  BY <1>1, GoToOK DEF TakeConnection, Place
<1>2. CASE PollFails(r)
  <2> DEFINE q == [req[r] EXCEPT !.failed = Counted(@)]
  <2>1. /\ RequestOK(req[r], registered) /\ req[r] \in RequestRecord
        /\ req' = [req EXCEPT ![r] = q] /\ UNCHANGED <<stored, registered>>
    BY <1>2, AtOK DEF PollFails, Place
  <2>2. /\ q \in RequestRecord /\ q.at = req[r].at /\ q.kind = req[r].kind
        /\ q.session = req[r].session /\ q.account = req[r].account
    BY <2>1 DEF RequestRecord, Counted
  <2> HIDE DEF q
  <2>3. RequestOK(q, registered)
    BY <2>1, <2>2 DEF RequestOK
  <2>4. QED  BY <2>1, <2>3, RequestStepOK DEF SessionsInv
<1>3. CASE GivesUp(r)
  BY <1>3, ProcessEndsOK DEF GivesUp
<1>4. CASE ConnectionRefused(r)
  BY <1>4, GoToOK DEF ConnectionRefused, Place
<1>5. QED  BY <1>1, <1>2, <1>3, <1>4 DEF Polls

\* The row of a registration is new, so that no session lists its name: the
\* one the request has loaded does not, when it comes to push it.
LEMMA CreateUserOK ==
  ASSUME SessionsInv, NEW r \in Request, CreateUser(r)
  PROVE  SessionsInv'
<1> DEFINE a == req[r].account
           q == [req[r] EXCEPT !.at = "created"]
<1>1. /\ Waits(r, "query") /\ req[r].kind = "register"
      /\ UserOf[a] \notin registered
      /\ registered' = registered \cup {UserOf[a]}
      /\ req' = [req EXCEPT ![r] = q] /\ UNCHANGED stored
  BY DEF CreateUser, Executes, Exists, GoTo
<1>2. RequestOK(req[r], registered) /\ req[r] \in RequestRecord
      /\ ListOK(req[r].session.accounts, registered)
  BY <1>1, AtOK DEF Place
<1>3. a \in Account
  BY <1>1, <1>2 DEF RequestOK
<1>4. UserOf[a] \in User
  BY <1>3, SessionsAssumption
<1>5. registered \subseteq registered' /\ registered' \in SUBSET User
  BY <1>1, <1>4 DEF SessionsInv
<1>6. ~Lists(req[r].session.accounts, a)
  BY <1>1, <1>2 DEF ListOK, HaveRows, Lists
<1>7. HasRow(a, registered')
  BY <1>1, <1>3 DEF HasRow
<1>8. /\ q \in RequestRecord /\ q.at = "created" /\ q.kind = req[r].kind
      /\ q.session = req[r].session /\ q.account = a
  BY <1>2 DEF RequestRecord, Place
<1>9. RequestOK(req[r], registered')
  BY <1>2, <1>5, MoreRows
<1> HIDE DEF q, a
<1>10. RequestOK(q, registered')
  BY <1>1, <1>3, <1>6, <1>7, <1>8, <1>9 DEF RequestOK
<1>11. QED  BY <1>1, <1>5, <1>10, RequestStepOK

LEMMA RegisterOK ==
  ASSUME SessionsInv, NEW r \in Request, Register(r)
  PROVE  SessionsInv'
<1> DEFINE accounts == req[r].session.accounts
           a == req[r].account
<1>1. /\ Waits(r, "created") /\ UNCHANGED registered
      /\ AnswerWithAccounts(r, WithLogin(accounts, {}, a))
  BY DEF Register
<1>2. /\ ListOK(accounts, registered) /\ HasRow(a, registered)
      /\ ~Lists(accounts, a)
  BY <1>1, AtOK DEF Place, RequestOK
<1>3. ListOK(WithLogin(accounts, {}, a), registered)
  BY <1>2, PushOK
<1>4. QED  BY <1>1, <1>3, StoreAccountsOK DEF Place

LEMMA LoginStepOK ==
  ASSUME SessionsInv, NEW r \in Request, Login(r)
  PROVE  SessionsInv'
<1> DEFINE accounts == req[r].session.accounts
           a == req[r].account
           is == IndexOfAccount(accounts, a)
<1>1. /\ Waits(r, "query") /\ UNCHANGED registered /\ Exists(a)
      /\ req[r].kind = "login"
      /\ AnswerWithAccounts(r, WithLogin(accounts, is, a))
  BY DEF Login, Executes
<1>2. /\ ListOK(accounts, registered) /\ accounts \in Accounts
      /\ HasRow(a, registered)
  BY <1>1, AtOK DEF Place, RequestOK, HasRow, Exists
<1>3. Lists(accounts, a) <=> is # {}
  BY <1>2, FirstIndexFinds
<1> HIDE DEF accounts, a, is
<1>4. ListOK(WithLogin(accounts, is, a), registered)
  BY <1>2, <1>3, PushOK, LoginOK
<1>5. QED  BY <1>1, <1>4, StoreAccountsOK DEF Place

LEMMA PasskeyLoginOK ==
  ASSUME SessionsInv, NEW r \in Request, PasskeyLogin(r)
  PROVE  SessionsInv'
<1> DEFINE accounts == req[r].session.accounts
           a == req[r].account
           is == IndexOfUser(accounts, UserOf[a])
<1>1. /\ Waits(r, "verify") /\ UNCHANGED registered
      /\ AnswerWithAccounts(r, WithLogin(accounts, is, a))
  BY DEF PasskeyLogin
<1>2. /\ ListOK(accounts, registered) /\ accounts \in Accounts
      /\ HasRow(a, registered)
  BY <1>1, AtOK DEF Place, RequestOK
<1>3. is = {} => ~Lists(accounts, a)
  BY <1>2, UserNotFound DEF HasRow
<1> HIDE DEF accounts, a, is
<1>4. ListOK(WithLogin(accounts, is, a), registered)
  BY <1>2, <1>3, PushOK, LoginOK
<1>5. QED  BY <1>1, <1>4, StoreAccountsOK DEF Place

\* The requests that store their session with the list they loaded
LEMMA StoresOK ==
  ASSUME SessionsInv, NEW r \in Request,
         StoreOptions(r) \/ StoreChallenge(r) \/ PasskeyRefused(r)
  PROVE  SessionsInv'
<1>1. CASE StoreOptions(r)
  <2>1. /\ Waits(r, "query") /\ req[r].kind = "options"
        /\ Exists(req[r].account) /\ Ends(r) /\ UNCHANGED registered
        /\ stored' = [req[r].session EXCEPT
                        !.authenticateOptions = req[r].account]
    BY <1>1 DEF StoreOptions, Executes, AnswerAndStore
  <2>2. /\ SessionOK(req[r].session, registered)
        /\ req[r].session \in SessionRecord
        /\ HasRow(req[r].account, registered)
    BY <2>1, AtOK DEF Place, RequestOK, HasRow, Exists
  <2>3. /\ stored' \in SessionRecord
        /\ stored'.accounts = req[r].session.accounts
        /\ stored'.authenticateOptions = req[r].account
    BY <2>1, <2>2 DEF SessionRecord, HasRow
  <2>4. SessionOK(stored', registered)
    BY <2>2, <2>3 DEF SessionOK
  <2>5. QED  BY <2>1, <2>4, AnswerStepOK
<1>2. CASE StoreChallenge(r) \/ PasskeyRefused(r)
  <2>1. /\ Waits(r, "query") \/ Waits(r, "verify")
        /\ Ends(r) /\ stored' = req[r].session /\ UNCHANGED registered
    BY <1>2 DEF StoreChallenge, PasskeyRefused, Executes, AnswerAndStore
  <2>2. SessionOK(stored', registered)
    BY <2>1, AtOK DEF Place
  <2>3. QED  BY <2>1, <2>2, AnswerStepOK
<1>3. QED  BY <1>1, <1>2

\* A name the session lists is found again when the request runs.
LEMMA LogoutOK ==
  ASSUME SessionsInv, NEW r \in Request, Logout(r) \/ Delete(r)
  PROVE  SessionsInv'
<1> DEFINE accounts == req[r].session.accounts
           i == IndexIn(r)
<1>1. Waits(r, "run") /\ UNCHANGED registered
  BY DEF Logout, Delete
<1>2. /\ ListOK(accounts, registered) /\ accounts \in Accounts
      /\ Lists(accounts, req[r].account)
      /\ SessionOK(req[r].session, registered)
      /\ req[r].session \in SessionRecord
  BY <1>1, AtOK DEF Place, RequestOK
<1>3. i \in 1 .. Len(accounts)
  BY <1>2, FirstIndexFinds DEF IndexIn
<1>4. CASE Logout(r)
  <2> DEFINE entry == [accounts[i] EXCEPT !.isLoggedIn = FALSE]
             new == [accounts EXCEPT ![i] = entry]
  <2>1. Ends(r) /\ stored' = [req[r].session EXCEPT !.accounts = new]
    BY <1>4 DEF Logout, AnswerAndStore
  <2>2. accounts[i] \in SessionAccount
    BY <1>2, <1>3 DEF Accounts
  <2>3. entry \in SessionAccount /\ entry.account = accounts[i].account
    BY <2>2 DEF SessionAccount
  <2> HIDE DEF entry, i
  <2>4. /\ new \in Accounts /\ Len(new) = Len(accounts)
        /\ \A k \in 1 .. Len(accounts) : new[k].account = accounts[k].account
    BY <1>2, <1>3, <2>3 DEF Accounts
  <2> HIDE DEF new
  <2>5. ListOK(new, registered)
    BY <1>2, <2>4 DEF ListOK, Once, HaveRows
  <2>6. /\ stored' \in SessionRecord /\ stored'.accounts = new
        /\ stored'.authenticateOptions = req[r].session.authenticateOptions
    BY <1>2, <2>1, <2>4 DEF SessionRecord
  <2>7. SessionOK(stored', registered)
    BY <1>2, <2>5, <2>6 DEF SessionOK
  <2>8. QED  BY <1>1, <2>1, <2>7, AnswerStepOK
<1>5. CASE Delete(r)
  <2>1. AnswerWithAccounts(r, Without(accounts, i))
    BY <1>5 DEF Delete
  <2>2. ListOK(Without(accounts, i), registered)
    BY <1>2, <1>3, WithoutOK
  <2>3. QED  BY <1>1, <2>1, <2>2, StoreAccountsOK DEF Place
<1>6. QED  BY <1>4, <1>5

LEMMA AnsweredOK ==
  ASSUME SessionsInv, NEW r \in Request, Answered(r)
  PROVE  SessionsInv'
<1>1. CASE AnswerPlain(r)
  BY <1>1, AnswerStepOK DEF AnswerPlain, AnswerOnly, SessionsInv
<1>2. CASE CredentialMissing(r)
  BY <1>2, ProcessEndsOK DEF CredentialMissing
<1>3. CASE CredentialFound(r)
  BY <1>3, GoToOK DEF CredentialFound, Executes, Place
<1>4. QED
  BY <1>1, <1>2, <1>3, CreateUserOK, RegisterOK, LoginStepOK, PasskeyLoginOK,
     StoresOK, LogoutOK
     DEF Answered

-----------------------------------------------------------------------------
(* The theorems                                                            *)

\* The invariant holds in every state, whatever is scheduled.
THEOREM SessionsInvariant == SafetySpec => []SessionsInv
<1>1. Init => SessionsInv
  BY DEF Init, Empty, SessionsInv, SessionOK, SessionRecord, ListOK, Accounts,
         Once, HaveRows
<1>2. SessionsInv /\ [Next]_vars => SessionsInv'
  <2> SUFFICES ASSUME SessionsInv, [Next]_vars
               PROVE  SessionsInv'
    OBVIOUS
  <2>1. CASE \E r \in Request : Begin(r)
    BY <2>1, BeginOK
  <2>2. CASE \E r \in Request : Polls(r)
    BY <2>2, PollsOK
  <2>3. CASE \E r \in Request : Answered(r)
    BY <2>3, AnsweredOK
  <2>4. CASE \E r \in Request : QueryFails(r)
    BY <2>4, ProcessEndsOK DEF QueryFails
  <2>5. CASE Restart
    BY <2>5 DEF Restart, SessionsInv
  <2>6. CASE UNCHANGED vars
    BY <2>6 DEF vars, SessionsInv
  <2>7. QED  BY <2>1, <2>2, <2>3, <2>4, <2>5, <2>6 DEF Next
<1>3. QED  BY <1>1, <1>2, PTL DEF SafetySpec

\* However many requests of a browser overlap, fail or are cut off, and
\* whichever names MariaDB takes for the same, no name is listed twice.
THEOREM NamesAreListedOnce == SafetySpec => []NoAccountTwice
<1>1. SessionsInv => NoAccountTwice
  BY DEF SessionsInv, SessionOK, ListOK, Accounts, Once, NoAccountTwice
<1>2. QED  BY SessionsInvariant, <1>1, PTL

-----------------------------------------------------------------------------
(***************************************************************************)
(* The connections of the pool.  At any time a connection is idle, held by *)
(* a request, or missing; no request holds more than one, and the finitely *)
(* many that hold one are counted by Missing.                              *)
(***************************************************************************)
Holding == {r \in Request : Holds(r)}

PoolInv ==
  /\ req = [r \in Request |-> req[r]]
  /\ IsFiniteSet(Holding)
  /\ idle \in Nat
  /\ idle + Cardinality(Holding) <= Connections

LEMMA MissingIs ==
  ASSUME PoolInv
  PROVE  /\ Cardinality(Holding) \in Nat
         /\ Missing = Connections - (idle + Cardinality(Holding))
         /\ Missing \in Nat
<1>1. Cardinality(Holding) \in Nat
  BY FS_CardinalityType DEF PoolInv
<1>2. Missing = Connections - idle - Cardinality(Holding)
  BY DEF Missing, Holding
<1>3. QED  BY <1>1, <1>2, SessionsAssumption DEF PoolInv

\* What a step does to the pool and to the request it is about: it takes a
\* connection, gives one back, keeps the one it held, or does none of these.
Takes(r) ==
  ~Holds(r) /\ Holding' = Holding \cup {r} /\ idle > 0 /\ idle' = idle - 1
GivesBack(r) ==
  Holds(r) /\ Holding' = Holding \ {r} /\ idle' = idle + 1
KeepsForGood(r) ==
  Holds(r) /\ Holding' = Holding \ {r} /\ idle' = idle
SamePool == Holding' = Holding /\ idle' = idle
NewPool == Holding' = {} /\ idle' = Connections

RequestsStay == req' = [r \in Request |-> req'[r]]

LEMMA TakesOK ==
  ASSUME PoolInv, NEW r \in Request, RequestsStay, Takes(r) \/ GivesBack(r)
  PROVE  PoolInv' /\ Missing' = Missing
<1> DEFINE n == Cardinality(Holding)
           m == Cardinality(Holding')
<1>1. n \in Nat /\ IsFiniteSet(Holding)
  BY MissingIs DEF PoolInv
<1>2. IsFiniteSet(Holding') /\ m \in Nat /\ idle' \in Nat
        /\ idle' + m = idle + n
  <2>1. CASE Takes(r)
    <3>1. r \notin Holding /\ Holding' = Holding \cup {r}
      BY <2>1 DEF Takes, Holding
    <3>2. IsFiniteSet(Holding') /\ m = n + 1
      BY <1>1, <3>1, FS_AddElement
    <3>3. QED  BY <1>1, <2>1, <3>2 DEF Takes, PoolInv
  <2>2. CASE GivesBack(r)
    <3>1. r \in Holding /\ Holding' = Holding \ {r}
      BY <2>2 DEF GivesBack, Holding
    <3>2. IsFiniteSet(Holding') /\ m = n - 1
      BY <1>1, <3>1, FS_RemoveElement
    <3>3. m \in Nat
      BY <3>2, FS_CardinalityType
    <3>4. QED  BY <1>1, <2>2, <3>2, <3>3 DEF GivesBack, PoolInv
  <2>3. QED  BY <2>1, <2>2
<1>3. PoolInv'
  BY <1>2 DEF PoolInv, RequestsStay
<1>4. Missing = Connections - (idle + n)
  BY MissingIs
<1>5. Missing' = Connections - (idle' + m)
  <2>1. Missing' = Connections - idle' - m
    BY DEF Missing, Holding
  <2>2. QED  BY <1>2, <2>1, SessionsAssumption
<1>6. QED  BY <1>2, <1>3, <1>4, <1>5

LEMMA KeepsOK ==
  ASSUME PoolInv, NEW r \in Request, RequestsStay, KeepsForGood(r)
  PROVE  PoolInv' /\ Missing' = Missing + 1
<1> DEFINE n == Cardinality(Holding)
           m == Cardinality(Holding')
<1>1. n \in Nat /\ IsFiniteSet(Holding)
  BY MissingIs DEF PoolInv
<1>2. r \in Holding /\ Holding' = Holding \ {r} /\ idle' = idle
  BY DEF KeepsForGood, Holding
<1>3. IsFiniteSet(Holding') /\ m = n - 1
  BY <1>1, <1>2, FS_RemoveElement
<1>4. m \in Nat
  BY <1>3, FS_CardinalityType
<1>5. PoolInv'
  BY <1>1, <1>2, <1>3, <1>4, SessionsAssumption DEF PoolInv, RequestsStay
<1>6. Missing = Connections - idle - n
  BY DEF Missing, Holding
<1>7. Missing' = Connections - idle' - m
  BY DEF Missing, Holding
<1>8. QED
  BY <1>1, <1>2, <1>3, <1>4, <1>5, <1>6, <1>7, SessionsAssumption DEF PoolInv

LEMMA SamePoolOK ==
  ASSUME PoolInv, RequestsStay, SamePool
  PROVE  PoolInv' /\ Missing' = Missing
BY DEF PoolInv, RequestsStay, SamePool, Missing, Holding

LEMMA NewPoolOK ==
  ASSUME RequestsStay, NewPool
  PROVE  PoolInv' /\ Missing' = 0
<1>1. IsFiniteSet({}) /\ Cardinality({}) = 0
  BY FS_EmptySet
<1>2. Missing' = Connections - idle' - Cardinality(Holding')
  BY DEF Missing, Holding
<1>3. QED
  BY <1>1, <1>2, SessionsAssumption DEF PoolInv, RequestsStay, NewPool

-----------------------------------------------------------------------------
(* Which of these each step does                                           *)

\* Only the request a step is about may come to hold a connection or not.
LEMMA HoldingAfter ==
  ASSUME PoolInv, NEW r \in Request, NEW q, req' = [req EXCEPT ![r] = q]
  PROVE  /\ RequestsStay
         /\ Holding' = IF q.at \in {"query", "created", "verify"}
                       THEN Holding \cup {r} ELSE Holding \ {r}
<1>1. \A p \in Request : req'[p] = IF p = r THEN q ELSE req[p]
  BY DEF PoolInv
<1>2. \A p \in Request : Holds(p)' <=> req'[p].at \in {"query", "created", "verify"}
  BY DEF Holds
<1>3. \A p \in Request : p # r => (Holds(p)' <=> Holds(p))
  BY <1>1 DEF Holds
<1>4. Holding' = {p \in Request : Holds(p)'}
  BY DEF Holding
<1>5. RequestsStay
  BY DEF RequestsStay, PoolInv
<1>6. QED
  BY <1>1, <1>2, <1>3, <1>4, <1>5 DEF Holding

\* A request that ends holds no connection.
LEMMA EndsHolding ==
  ASSUME PoolInv, NEW r \in Request, Ends(r)
  PROVE  RequestsStay /\ Holding' = Holding \ {r} /\ req'[r] = Idle
<1>1. req' = [req EXCEPT ![r] = Idle]
  BY DEF Ends
<1>2. Idle.at \notin {"query", "created", "verify"}
  BY DEF Idle
<1>3. RequestsStay /\ Holding' = Holding \ {r}
  BY <1>1, <1>2, HoldingAfter
<1>4. QED  BY <1>1, <1>3 DEF PoolInv

\* The end of one that held a connection and released it
LEMMA EndsReleased ==
  ASSUME PoolInv, NEW r \in Request, NEW place \in {"query", "created", "verify"},
         Waits(r, place), Ends(r), Release
  PROVE  RequestsStay /\ GivesBack(r)
BY EndsHolding DEF GivesBack, Waits, Holds, Release

LEMMA ProcessEndsPool ==
  ASSUME ProcessEnds
  PROVE  RequestsStay /\ NewPool
<1>1. \A r \in Request : ~Holds(r)'
  BY DEF ProcessEnds, Holds, Idle
<1>2. Holding' = {}
  BY <1>1 DEF Holding
<1>3. QED  BY <1>2 DEF ProcessEnds, RequestsStay, NewPool

\* The place of a request that goes on
LEMMA GoToPool ==
  ASSUME SessionsInv, PoolInv, NEW r \in Request, NEW place \in Place,
         Waits(r, place), NEW next \in {"query", "created", "verify"},
         GoTo(r, next)
  PROVE  RequestsStay /\ Holding' = Holding \cup {r}
<1> DEFINE q == [req[r] EXCEPT !.at = next]
<1>1. q.at = next
  BY AtOK DEF RequestRecord
<1>2. req' = [req EXCEPT ![r] = q]
  BY DEF GoTo
<1> HIDE DEF q
<1>3. QED  BY <1>1, <1>2, HoldingAfter

LEMMA BeginPool ==
  ASSUME PoolInv, NEW r \in Request, Begin(r)
  PROVE  RequestsStay /\ (Takes(r) \/ SamePool)
<1>1. ASSUME NEW kind, NEW session, NEW account,
             AsksForConnection(r, kind, session, account)
      PROVE  RequestsStay /\ (Takes(r) \/ SamePool)
  <2>1. ASSUME NEW place, idle > 0, idle' = idle - 1, place = "query",
               Loads(r, NewRequest(kind, place, session, account))
        PROVE  RequestsStay /\ Takes(r)
    <3> DEFINE q == NewRequest(kind, place, session, account)
    <3>1. q.at = "query" /\ req' = [req EXCEPT ![r] = q] /\ req[r] = Idle
      BY <2>1 DEF NewRequest, Loads
    <3> HIDE DEF q
    <3>2. RequestsStay /\ Holding' = Holding \cup {r}
      BY <3>1, HoldingAfter
    <3>3. QED  BY <2>1, <3>1, <3>2 DEF Takes, Holds, Idle
  <2>2. ASSUME NEW place, idle' = idle, place = "getConn",
               Loads(r, NewRequest(kind, place, session, account))
        PROVE  RequestsStay /\ SamePool
    <3> DEFINE q == NewRequest(kind, place, session, account)
    <3>1. q.at = "getConn" /\ req' = [req EXCEPT ![r] = q] /\ req[r] = Idle
      BY <2>2 DEF NewRequest, Loads
    <3> HIDE DEF q
    <3>2. RequestsStay /\ Holding' = Holding \ {r}
      BY <3>1, HoldingAfter
    <3>3. QED  BY <2>2, <3>1, <3>2 DEF SamePool, Holding, Holds, Idle
  <2>3. QED  BY <1>1, <2>1, <2>2 DEF AsksForConnection
<1>2. ASSUME NEW kind, NEW i, Runs(r, kind, i)
      PROVE  RequestsStay /\ SamePool
  <2> DEFINE q == NewRequest(kind, "run", stored, stored.accounts[i].account)
  <2>1. /\ q.at = "run" /\ req' = [req EXCEPT ![r] = q] /\ req[r] = Idle
        /\ idle' = idle
    BY <1>2 DEF NewRequest, Loads, Runs
  <2> HIDE DEF q
  <2>2. RequestsStay /\ Holding' = Holding \ {r}
    BY <2>1, HoldingAfter
  <2>3. QED  BY <2>1, <2>2 DEF SamePool, Holding, Holds, Idle
<1>3. CASE \E kind, session, account :
             AsksForConnection(r, kind, session, account)
  BY <1>1, <1>3
<1>4. CASE \E kind, i : Runs(r, kind, i)
  BY <1>2, <1>4
<1>5. QED
  BY <1>3, <1>4 DEF Begin, Credentials, Options, Verify, ListUsers, UserRoute,
                    Registration

LEMMA PollsPool ==
  ASSUME SessionsInv, PoolInv, NEW r \in Request, Polls(r)
  PROVE  RequestsStay /\ (Takes(r) \/ SamePool \/ NewPool)
<1>1. CASE TakeConnection(r)
  <2>1. RequestsStay /\ Holding' = Holding \cup {r}
    BY <1>1, GoToPool DEF TakeConnection, Place
  <2>2. QED  BY <1>1, <2>1 DEF TakeConnection, Takes, Waits, Holds
<1>2. CASE PollFails(r)
  <2> DEFINE q == [req[r] EXCEPT !.failed = Counted(@)]
  <2>1. /\ req[r] \in RequestRecord /\ req[r].at = "getConn"
        /\ req' = [req EXCEPT ![r] = q] /\ idle' = idle
    BY <1>2, AtOK DEF PollFails, Place
  <2>2. q.at = "getConn"
    BY <2>1 DEF RequestRecord
  <2> HIDE DEF q
  <2>3. RequestsStay /\ Holding' = Holding \ {r}
    BY <2>1, <2>2, HoldingAfter
  <2>4. QED  BY <2>1, <2>3 DEF SamePool, Holding, Holds
<1>3. CASE GivesUp(r)
  BY <1>3, ProcessEndsPool DEF GivesUp
<1>4. CASE ConnectionRefused(r)
  <2> DEFINE q == [req[r] EXCEPT !.at = "forgotten"]
  <2>1. /\ req[r] \in RequestRecord /\ req[r].at = "getConn"
        /\ req' = [req EXCEPT ![r] = q] /\ idle' = idle
    BY <1>4, AtOK DEF ConnectionRefused, Waits, GoTo, Place
  <2>2. q.at = "forgotten"
    BY <2>1 DEF RequestRecord
  <2> HIDE DEF q
  <2>3. RequestsStay /\ Holding' = Holding \ {r}
    BY <2>1, <2>2, HoldingAfter
  <2>4. QED  BY <2>1, <2>3 DEF SamePool, Holding, Holds
<1>5. QED  BY <1>1, <1>2, <1>3, <1>4 DEF Polls

\* A login with a passkey that pushes a new entry answers without a release,
\* and the entry it has pushed is the last of the session that is stored.
LEMMA PasskeyLoginPool ==
  ASSUME SessionsInv, PoolInv, NEW r \in Request, PasskeyLogin(r)
  PROVE  /\ RequestsStay
         /\ \/ GivesBack(r)
            \/ /\ KeepsForGood(r)
               /\ req[r].at = "verify" /\ req'[r] = Idle
               /\ Len(stored'.accounts) > 0
               /\ Last(stored'.accounts).isLoggedIn
<1> DEFINE accounts == req[r].session.accounts
           a == req[r].account
           is == IndexOfUser(accounts, UserOf[a])
<1>1. /\ Waits(r, "verify") /\ Ends(r)
      /\ IF is = {} THEN UNCHANGED idle ELSE Release
      /\ stored' = [req[r].session EXCEPT !.accounts = WithLogin(accounts, is, a)]
  BY DEF PasskeyLogin, AnswerWithAccounts, AnswerAndStore
<1>2. RequestsStay /\ Holding' = Holding \ {r} /\ req'[r] = Idle
  BY <1>1, EndsHolding
<1>3. CASE is # {}
  BY <1>1, <1>3, EndsReleased
<1>4. CASE is = {}
  <2>1. KeepsForGood(r) /\ req[r].at = "verify"
    BY <1>1, <1>2, <1>4 DEF KeepsForGood, Waits, Holds
  <2>2. /\ accounts \in Seq(SessionAccount)
        /\ req[r].session \in SessionRecord
    BY <1>1, AtOK DEF Place, Accounts
  <2> DEFINE entry == [account |-> a, isLoggedIn |-> TRUE]
  <2>3. stored'.accounts = Append(accounts, entry)
    BY <1>1, <1>4, <2>2 DEF WithLogin, SessionRecord
  <2> HIDE DEF accounts
  <2>4. /\ Len(stored'.accounts) = Len(accounts) + 1 /\ Len(accounts) \in Nat
        /\ stored'.accounts[Len(accounts) + 1] = entry
    BY <2>2, <2>3
  <2>5. Last(stored'.accounts) = entry
    BY <2>4 DEF Last
  <2>6. QED  BY <1>2, <2>1, <2>4, <2>5
<1>5. QED  BY <1>3, <1>4

\* On every other path a request ends on, it gives back what it held.
LEMMA AnsweredPool ==
  ASSUME SessionsInv, PoolInv, NEW r \in Request, Answered(r), ~PasskeyLogin(r)
  PROVE  RequestsStay /\ (GivesBack(r) \/ SamePool \/ NewPool)
<1>1. CASE \/ AnswerPlain(r) \/ Login(r) \/ StoreOptions(r)
           \/ StoreChallenge(r)
  <2>1. Waits(r, "query") /\ Ends(r) /\ Release
    BY <1>1 DEF AnswerPlain, Login, StoreOptions, StoreChallenge, Executes,
                AnswerOnly, AnswerAndStore, AnswerWithAccounts
  <2>2. QED  BY <2>1, EndsReleased
<1>2. CASE Register(r)
  BY <1>2, EndsReleased DEF Register, AnswerWithAccounts, AnswerAndStore
<1>3. CASE PasskeyRefused(r)
  BY <1>3, EndsReleased DEF PasskeyRefused, AnswerAndStore, RefusedReleases
<1>4. CASE CreateUser(r) \/ CredentialFound(r)
  <2>1. /\ Waits(r, "query") /\ idle' = idle
        /\ GoTo(r, "created") \/ GoTo(r, "verify")
    BY <1>4 DEF CreateUser, CredentialFound, Executes
  <2>2. RequestsStay /\ Holding' = Holding \cup {r}
    BY <2>1, GoToPool DEF Place
  <2>3. QED  BY <2>1, <2>2 DEF SamePool, Holding, Holds, Waits
<1>5. CASE Logout(r) \/ Delete(r)
  <2>1. Waits(r, "run") /\ Ends(r) /\ idle' = idle
    BY <1>5 DEF Logout, Delete, AnswerWithAccounts, AnswerAndStore
  <2>2. RequestsStay /\ Holding' = Holding \ {r}
    BY <2>1, EndsHolding
  <2>3. QED  BY <2>1, <2>2 DEF SamePool, Holding, Holds, Waits
<1>6. CASE CredentialMissing(r)
  BY <1>6, ProcessEndsPool DEF CredentialMissing
<1>7. QED
  BY <1>1, <1>2, <1>3, <1>4, <1>5, <1>6 DEF Answered

-----------------------------------------------------------------------------
(* The invariant of the pool, and what may make a connection missing       *)

LEMMA PoolStep ==
  ASSUME SessionsInv, PoolInv, [Next]_vars
  PROVE  /\ PoolInv'
         /\ Missing' > Missing =>
              /\ Missing' = Missing + 1
              /\ \E r \in Request : req[r].at = "verify" /\ req'[r] = Idle
              /\ Len(stored'.accounts) > 0
              /\ Last(stored'.accounts).isLoggedIn
<1>1. Missing \in Nat
  BY MissingIs
<1>2. ASSUME NEW r \in Request, RequestsStay,
             Takes(r) \/ GivesBack(r) \/ SamePool \/ NewPool
      PROVE  PoolInv' /\ ~(Missing' > Missing)
  <2>1. CASE Takes(r) \/ GivesBack(r)
    BY <1>1, <1>2, <2>1, TakesOK
  <2>2. CASE SamePool
    BY <1>1, <1>2, <2>2, SamePoolOK
  <2>3. CASE NewPool
    BY <1>1, <1>2, <2>3, NewPoolOK
  <2>4. QED  BY <1>2, <2>1, <2>2, <2>3
<1>3. ASSUME NEW r \in Request, Begin(r)
      PROVE  PoolInv' /\ ~(Missing' > Missing)
  BY <1>2, <1>3, BeginPool
<1>4. ASSUME NEW r \in Request, Polls(r)
      PROVE  PoolInv' /\ ~(Missing' > Missing)
  BY <1>2, <1>4, PollsPool
<1>5. ASSUME NEW r \in Request, Answered(r), ~PasskeyLogin(r)
      PROVE  PoolInv' /\ ~(Missing' > Missing)
  BY <1>2, <1>5, AnsweredPool
<1>6. ASSUME NEW r \in Request, QueryFails(r)
      PROVE  PoolInv' /\ ~(Missing' > Missing)
  BY <1>2, <1>6, ProcessEndsPool DEF QueryFails
<1>7. CASE \E r \in Request : PasskeyLogin(r)
  <2>1. PICK r \in Request : PasskeyLogin(r)
    BY <1>7
  <2>2. CASE GivesBack(r)
    BY <1>2, <2>1, <2>2, PasskeyLoginPool
  <2>3. CASE ~GivesBack(r)
    <3>1. /\ RequestsStay /\ KeepsForGood(r)
          /\ req[r].at = "verify" /\ req'[r] = Idle
          /\ Len(stored'.accounts) > 0
          /\ Last(stored'.accounts).isLoggedIn
      BY <2>1, <2>3, PasskeyLoginPool
    <3>2. PoolInv' /\ Missing' = Missing + 1
      BY <3>1, KeepsOK
    <3>3. QED  BY <3>1, <3>2
  <2>4. QED  BY <2>2, <2>3
<1>8. CASE Restart \/ UNCHANGED vars
  <2>1. UNCHANGED <<req, idle>>
    BY <1>8 DEF Restart, vars
  <2>2. RequestsStay /\ SamePool
    BY <2>1 DEF RequestsStay, SamePool, Holding, Holds, PoolInv
  <2>3. QED  BY <1>1, <2>2, SamePoolOK
<1>9. QED
  BY <1>3, <1>4, <1>5, <1>6, <1>7, <1>8 DEF Next

\* getConn and release (Database.ts:111-128): however requests begin, wait,
\* fail and end, every connection of the pool is idle, is one request's, or
\* has been kept by a login with a passkey; none is given back twice.
THEOREM PoolInvariant == SafetySpec => []PoolInv
<1>1. Init => PoolInv
  <2> SUFFICES ASSUME Init PROVE PoolInv
    OBVIOUS
  <2>1. \A r \in Request : ~Holds(r)
    BY DEF Init, Holds, Idle
  <2>2. Holding = {}
    BY <2>1 DEF Holding
  <2>3. IsFiniteSet(Holding) /\ Cardinality(Holding) = 0
    BY <2>2, FS_EmptySet
  <2>4. QED  BY <2>3, SessionsAssumption DEF PoolInv, Init
<1>2. SessionsInv /\ PoolInv /\ [Next]_vars => PoolInv'
  BY PoolStep
<1>3. QED  BY <1>1, <1>2, SessionsInvariant, PTL DEF SafetySpec

\* A connection is kept for good only by a login with a passkey that adds a
\* user to the session (user.ts:249-269), and by each of those only one: every
\* other path a request ends on gives back the connection it took.
THEOREM OnlyPasskeyLoginsLoseConnections ==
  SafetySpec => OnlyPasskeyLoginsKeepConnections
<1>1. SessionsInv /\ PoolInv /\ [Next]_vars =>
        [Missing' > Missing =>
           /\ Missing' = Missing + 1
           /\ \E r \in Request : req[r].at = "verify" /\ req'[r] = Idle
           /\ Len(stored'.accounts) > 0
           /\ Last(stored'.accounts).isLoggedIn]_vars
  BY PoolStep
<1>2. QED
  BY <1>1, SessionsInvariant, PoolInvariant, PTL
     DEF SafetySpec, OnlyPasskeyLoginsKeepConnections

-----------------------------------------------------------------------------
(***************************************************************************)
(* The session of a request.  One that was not stored since the request    *)
(* loaded it has the accounts the request will store; a plain request has  *)
(* none, and stores nothing.                                               *)
(***************************************************************************)
UpToDate(r) ==
  req[r] # Idle /\ ~stale[r] =>
    req[r].kind = "plain" \/ req[r].session.accounts = stored.accounts

FreshInv ==
  /\ stale = [r \in Request |-> stale[r]]
  /\ \A r \in Request : req[r] = Idle => ~stale[r]
  /\ \A r \in Request : UpToDate(r)

\* A request that begins or goes on with the session it has
LEMMA GoesOnFresh ==
  ASSUME SessionsInv, FreshInv, NEW r \in Request, NEW q, q # Idle,
         req' = [req EXCEPT ![r] = q], UNCHANGED <<stored, stale>>,
         \/ q.kind = "plain"
         \/ q.session.accounts = stored.accounts
         \/ /\ req[r] # Idle
            /\ q.kind = req[r].kind /\ q.session = req[r].session
  PROVE  FreshInv'
<1>1. \A p \in Request : req'[p] = IF p = r THEN q ELSE req[p]
  BY DEF SessionsInv
<1>2. UpToDate(r)'
  BY <1>1 DEF FreshInv, UpToDate
<1>3. \A p \in Request : p # r => UpToDate(p)'
  BY <1>1 DEF FreshInv, UpToDate
<1>4. QED  BY <1>1, <1>2, <1>3 DEF FreshInv

LEMMA BeginFresh ==
  ASSUME SessionsInv, FreshInv, NEW r \in Request, Begin(r)
  PROVE  FreshInv'
<1>1. ASSUME NEW kind, NEW place \in Place, NEW session, NEW account,
             kind = "plain" \/ session.accounts = stored.accounts,
             Loads(r, NewRequest(kind, place, session, account))
      PROVE  FreshInv'
  <2> DEFINE q == NewRequest(kind, place, session, account)
  <2>1. q.at = place /\ q.kind = kind /\ q.session = session
    BY DEF NewRequest
  <2>2. req' = [req EXCEPT ![r] = q] /\ UNCHANGED <<stored, stale>>
    BY <1>1 DEF Loads
  <2> HIDE DEF q
  <2>3. q # Idle
    BY <2>1 DEF Idle, Place
  <2>4. QED  BY <1>1, <2>1, <2>2, <2>3, GoesOnFresh
<1>2. ASSUME NEW kind, NEW session, NEW account,
             kind = "plain" \/ session.accounts = stored.accounts,
             AsksForConnection(r, kind, session, account)
      PROVE  FreshInv'
  BY <1>1, <1>2 DEF AsksForConnection, Place
<1>3. CASE Verify(r)
  <2> DEFINE session == [stored EXCEPT !.authenticateOptions = Null]
  <2>1. session.accounts = stored.accounts
    BY DEF SessionsInv, SessionOK, SessionRecord
  <2> HIDE DEF session
  <2>2. AsksForConnection(r, "verify", session, stored.authenticateOptions)
    BY <1>3 DEF Verify, session
  <2>3. QED  BY <1>2, <2>1, <2>2
<1>4. CASE \E i, kind : Runs(r, kind, i)
  BY <1>1, <1>4 DEF Runs, Place
<1>5. CASE ~Verify(r) /\ ~\E i, kind : Runs(r, kind, i)
  <2>1. \/ \E kind, a : AsksForConnection(r, kind, stored, a)
        \/ AsksForConnection(r, "plain", Empty, Null)
    BY <1>5 DEF Begin, Credentials, Options, ListUsers, UserRoute, Registration
  <2>2. QED  BY <1>2, <2>1
<1>6. QED  BY <1>3, <1>4, <1>5

LEMMA GoToFresh ==
  ASSUME SessionsInv, FreshInv, NEW r \in Request, NEW place \in Place,
         Waits(r, place), NEW next \in Place, GoTo(r, next),
         UNCHANGED <<stored, stale>>
  PROVE  FreshInv'
<1> DEFINE q == [req[r] EXCEPT !.at = next]
<1>1. /\ q.at = next /\ q.kind = req[r].kind /\ q.session = req[r].session
      /\ req' = [req EXCEPT ![r] = q] /\ req[r].at = place
  BY AtOK DEF RequestRecord, GoTo
<1> HIDE DEF q
<1>2. q # Idle /\ req[r] # Idle
  BY <1>1 DEF Idle, Place
<1>3. QED  BY <1>1, <1>2, GoesOnFresh

LEMMA AnswerFresh ==
  ASSUME SessionsInv, FreshInv, NEW r \in Request,
         AnswerOnly(r) \/ \E session : AnswerAndStore(r, session)
  PROVE  FreshInv'
<1>1. \A p \in Request : req'[p] = IF p = r THEN Idle ELSE req[p]
  BY DEF AnswerOnly, AnswerAndStore, Ends, SessionsInv
<1>2. CASE AnswerOnly(r)
  BY <1>1, <1>2 DEF AnswerOnly, FreshInv, UpToDate
<1>3. CASE \E session : AnswerAndStore(r, session)
  BY <1>1, <1>3 DEF AnswerAndStore, FreshInv, UpToDate
<1>4. QED  BY <1>2, <1>3

LEMMA FreshStep ==
  ASSUME SessionsInv, FreshInv, [Next]_vars
  PROVE  FreshInv'
<1>1. ASSUME ProcessEnds PROVE FreshInv'
  BY <1>1 DEF ProcessEnds, FreshInv, UpToDate
<1>2. CASE \E r \in Request : Begin(r)
  BY <1>2, BeginFresh
<1>3. CASE \E r \in Request : Polls(r)
  <2>1. PICK r \in Request : Polls(r)
    BY <1>3
  <2>2. CASE TakeConnection(r)
    BY <2>2, GoToFresh DEF TakeConnection, Place
  <2>3. CASE PollFails(r)
    <3> DEFINE q == [req[r] EXCEPT !.failed = Counted(@)]
    <3>1. /\ q.at = "getConn" /\ q.kind = req[r].kind
          /\ q.session = req[r].session /\ req' = [req EXCEPT ![r] = q]
          /\ req[r].at = "getConn" /\ UNCHANGED <<stored, stale>>
      BY <2>3, AtOK DEF PollFails, Place, RequestRecord
    <3> HIDE DEF q
    <3>2. q # Idle /\ req[r] # Idle
      BY <3>1 DEF Idle
    <3>3. QED  BY <3>1, <3>2, GoesOnFresh
  <2>4. CASE GivesUp(r)
    BY <1>1, <2>4 DEF GivesUp
  <2>5. CASE ConnectionRefused(r)
    BY <2>5, GoToFresh DEF ConnectionRefused, Place
  <2>6. QED  BY <2>1, <2>2, <2>3, <2>4, <2>5 DEF Polls
<1>4. CASE \E r \in Request : Answered(r)
  <2>1. PICK r \in Request : Answered(r)
    BY <1>4
  <2>2. CASE CreateUser(r) \/ CredentialFound(r)
    <3>1. /\ Waits(r, "query") /\ UNCHANGED <<stored, stale>>
          /\ GoTo(r, "created") \/ GoTo(r, "verify")
      BY <2>2 DEF CreateUser, CredentialFound, Executes
    <3>2. QED  BY <3>1, GoToFresh DEF Place
  <2>3. CASE CredentialMissing(r)
    BY <1>1, <2>3 DEF CredentialMissing
  <2>4. CASE AnswerPlain(r)
    BY <2>4, AnswerFresh DEF AnswerPlain
  <2>5. CASE \/ Register(r) \/ Login(r) \/ StoreOptions(r)
             \/ StoreChallenge(r) \/ PasskeyRefused(r) \/ PasskeyLogin(r)
             \/ Logout(r) \/ Delete(r)
    <3>1. \E session : AnswerAndStore(r, session)
      BY <2>5 DEF Register, Login, StoreOptions, StoreChallenge,
                  PasskeyRefused, PasskeyLogin, Logout, Delete,
                  AnswerWithAccounts
    <3>2. QED  BY <3>1, AnswerFresh
  <2>6. QED  BY <2>1, <2>2, <2>3, <2>4, <2>5 DEF Answered
<1>5. CASE \E r \in Request : QueryFails(r)
  BY <1>1, <1>5 DEF QueryFails
<1>6. CASE Restart \/ UNCHANGED vars
  BY <1>6 DEF Restart, vars, FreshInv, UpToDate
<1>7. QED  BY <1>2, <1>3, <1>4, <1>5, <1>6 DEF Next

LEMMA FreshInvariant == SafetySpec => []FreshInv
<1>1. Init => FreshInv
  BY DEF Init, FreshInv, UpToDate
<1>2. SessionsInv /\ FreshInv /\ [Next]_vars => FreshInv'
  BY FreshStep
<1>3. QED  BY <1>1, <1>2, SessionsInvariant, PTL DEF SafetySpec

-----------------------------------------------------------------------------
(***************************************************************************)
(* What an answer leaves alone.  Whom a request is about is read off its   *)
(* record, so that the places of the others are those of a fixed set of    *)
(* names.                                                                  *)
(***************************************************************************)
OthersOf(q) ==
  {a \in Account :
     \/ q.account = Null
     \/ IF q.kind = "verify" THEN UserOf[a] # UserOf[q.account]
                             ELSE a # q.account}
PlacesOf(accounts, names) ==
  {i \in 1 .. Len(accounts) : accounts[i].account \in names}
Alike(before, after, names) ==
  SameEntries(before, PlacesOf(before, names), after, PlacesOf(after, names))

\* Lists that have the same entries at the places of the others ...
LEMMA SamePlacesAlike ==
  ASSUME NEW before, NEW after, NEW names,
         PlacesOf(after, names) = PlacesOf(before, names),
         \A i \in PlacesOf(before, names) : after[i] = before[i]
  PROVE  Alike(before, after, names)
<1> DEFINE P == PlacesOf(before, names)
           to == [i \in P |-> i]
<1>1. to \in Bijection(P, P)
  BY DEF Bijection, Injection, Surjection, IsInjective
<1>2. \A i \in P : /\ after[to[i]] = before[i]
                   /\ \A j \in P : j < i => to[j] < to[i]
  OBVIOUS
<1>3. QED  BY <1>1, <1>2 DEF Alike, SameEntries

\* ... as after a push of an entry that is not one of them ...
LEMMA PushAlike ==
  ASSUME NEW accounts \in Accounts, NEW a, NEW names, a \notin names
  PROVE  Alike(accounts, WithLogin(accounts, {}, a), names)
<1> DEFINE entry == [account |-> a, isLoggedIn |-> TRUE]
           n == Len(accounts)
           new == WithLogin(accounts, {}, a)
<1>1. new = Append(accounts, entry) /\ entry.account = a
  BY DEF WithLogin
<1> HIDE DEF entry, new
<1>2. /\ n \in Nat /\ Len(new) = n + 1 /\ new[n + 1] = entry
      /\ \A i \in 1 .. n : new[i] = accounts[i]
  BY <1>1 DEF Accounts
<1>3. \A i : i \in 1 .. Len(new) <=> i \in 1 .. n \/ i = n + 1
  BY <1>2
<1>4. PlacesOf(new, names) = PlacesOf(accounts, names)
  BY <1>1, <1>2, <1>3 DEF PlacesOf
<1>5. \A i \in PlacesOf(accounts, names) : new[i] = accounts[i]
  BY <1>2 DEF PlacesOf
<1> QED  BY <1>4, <1>5, SamePlacesAlike DEF new

\* ... of a login of one that is listed and is not one of them ...
LEMMA LoginAlike ==
  ASSUME NEW accounts \in Accounts, NEW a, NEW names, NEW is, is # {},
         \A i \in is : i \in 1 .. Len(accounts) => accounts[i].account \notin names
  PROVE  Alike(accounts, WithLogin(accounts, is, a), names)
<1> DEFINE n == Len(accounts)
           new == WithLogin(accounts, is, a)
           Entry(i) == [accounts[i] EXCEPT !.isLoggedIn = @ \/ i \in is]
<1>1. /\ n \in Nat /\ DOMAIN accounts = 1 .. n
      /\ \A i \in 1 .. n : accounts[i] \in SessionAccount
  BY DEF Accounts
<1>2. new = [i \in 1 .. n |-> Entry(i)]
  BY <1>1 DEF WithLogin
<1>3. \A i \in 1 .. n : /\ Entry(i).account = accounts[i].account
                        /\ i \notin is => Entry(i) = accounts[i]
  <2> TAKE i \in 1 .. n
  <2>1. PICK b \in Account, l \in BOOLEAN :
          accounts[i] = [account |-> b, isLoggedIn |-> l]
    BY <1>1 DEF SessionAccount
  <2>2. Entry(i) = [account |-> b, isLoggedIn |-> (l \/ i \in is)]
    BY <2>1
  <2>3. i \notin is => (l \/ i \in is) = l
    BY <2>1
  <2>4. QED  BY <2>1, <2>2, <2>3
<1>4. Len(new) = n
  BY <1>1, <1>2
<1> HIDE DEF new, Entry
<1>5. PlacesOf(new, names) = PlacesOf(accounts, names)
  BY <1>2, <1>3, <1>4 DEF PlacesOf
<1>6. \A i \in PlacesOf(accounts, names) : new[i] = accounts[i]
  BY <1>2, <1>3 DEF PlacesOf
<1> QED  BY <1>5, <1>6, SamePlacesAlike DEF new

\* ... and of a logout.
LEMMA LogoutAlike ==
  ASSUME NEW accounts \in Accounts, NEW names, NEW i \in 1 .. Len(accounts),
         accounts[i].account \notin names
  PROVE  Alike(accounts, [accounts EXCEPT ![i].isLoggedIn = FALSE], names)
<1> DEFINE n == Len(accounts)
           entry == [accounts[i] EXCEPT !.isLoggedIn = FALSE]
           new == [accounts EXCEPT ![i] = entry]
<1>1. /\ n \in Nat /\ DOMAIN accounts = 1 .. n
      /\ accounts[i] \in SessionAccount
  BY DEF Accounts
<1>2. entry.account = accounts[i].account
  BY <1>1 DEF SessionAccount
<1> HIDE DEF entry
<1>3. /\ Len(new) = n
      /\ \A k \in 1 .. n : new[k] = IF k = i THEN entry ELSE accounts[k]
  BY <1>1 DEF Accounts
<1> HIDE DEF new
<1>4. PlacesOf(new, names) = PlacesOf(accounts, names)
  BY <1>2, <1>3 DEF PlacesOf
<1>5. \A k \in PlacesOf(accounts, names) : new[k] = accounts[k]
  BY <1>3 DEF PlacesOf
<1>6. Alike(accounts, new, names)
  BY <1>4, <1>5, SamePlacesAlike
<1> QED  BY <1>6 DEF new, entry

\* splice moves those behind the one that goes one place ahead.
LEMMA WithoutAlike ==
  ASSUME NEW accounts \in Accounts, NEW names, NEW i \in 1 .. Len(accounts),
         accounts[i].account \notin names
  PROVE  Alike(accounts, Without(accounts, i), names)
<1> DEFINE n == Len(accounts)
           new == Without(accounts, i)
           P == PlacesOf(accounts, names)
           Q == PlacesOf(new, names)
           At(k) == IF k < i THEN k ELSE k - 1
           Was(k) == IF k < i THEN k ELSE k + 1
           to == [k \in P |-> At(k)]
<1>1. n \in Nat /\ i \in 1 .. n
  BY DEF Accounts
<1>2. Len(new) = n - 1 /\ \A k \in 1 .. n - 1 : new[k] = accounts[Was(k)]
  BY WithoutAre
<1> HIDE DEF new
<1>3. \A k \in 1 .. n : k # i =>
        At(k) \in 1 .. n - 1 /\ Was(At(k)) = k
  BY <1>1
<1>4. \A k \in 1 .. n - 1 : Was(k) \in 1 .. n /\ Was(k) # i /\ At(Was(k)) = k
  BY <1>1
<1>5. \A k \in P : k \in 1 .. n /\ k # i
  BY DEF PlacesOf
<1> HIDE DEF Was
<1>6. \A k \in P : At(k) \in Q /\ new[At(k)] = accounts[k]
  BY <1>2, <1>3, <1>5 DEF PlacesOf
<1>7. \A k \in Q : Was(k) \in P /\ At(Was(k)) = k
  BY <1>2, <1>4 DEF PlacesOf
<1>8. \A k, l \in P : l < k => At(l) < At(k)
  BY <1>1, <1>5
<1>9. \A k, l \in P : At(k) = At(l) => k = l
  BY <1>3, <1>5
<1> HIDE DEF At, P, Q
<1>10. to \in Bijection(P, Q)
  BY <1>6, <1>7, <1>9 DEF Bijection, Injection, Surjection, IsInjective
<1>11. \A k \in P : /\ new[to[k]] = accounts[k]
                    /\ \A j \in P : j < k => to[j] < to[k]
  BY <1>6, <1>8
<1> HIDE DEF to
<1> QED  BY <1>10, <1>11 DEF Alike, SameEntries, P, Q, new

-----------------------------------------------------------------------------
(* What the answers do to the others of a session that is up to date       *)

LEMMA AnsweredAlike ==
  ASSUME SessionsInv, FreshInv, NEW r \in Request, ~stale[r],
         NEW place \in Place, Waits(r, place), req[r].kind # "plain"
  PROVE  /\ req[r].session.accounts = stored.accounts
         /\ stored.accounts \in Accounts
<1>1. req[r].at = place /\ place # "idle"
  BY DEF Waits, Place
<1>2. req[r] # Idle
  BY <1>1 DEF Idle
<1>3. QED  BY <1>2, AtOK DEF FreshInv, UpToDate

LEMMA StoresAlike ==
  ASSUME SessionsInv, FreshInv, NEW r \in Request, ~stale[r], Answered(r),
         req'[r] = Idle, up'
  PROVE  Alike(stored.accounts, stored'.accounts, OthersOf(req[r]))
<1> DEFINE q == req[r]
           accounts == stored.accounts
           names == OthersOf(q)
<1>1. ASSUME stored'.accounts = accounts
      PROVE  Alike(accounts, stored'.accounts, names)
  BY <1>1, SamePlacesAlike
<1>2. ASSUME NEW place \in Place, Waits(r, place), q.kind # "plain"
      PROVE  /\ q.session.accounts = accounts /\ accounts \in Accounts
             /\ q.session \in SessionRecord /\ RequestOK(q, registered)
  BY <1>2, AnsweredAlike, AtOK
<1>3. ASSUME NEW new, stored' = [q.session EXCEPT !.accounts = new],
             q.session \in SessionRecord
      PROVE  stored'.accounts = new
  BY <1>3 DEF SessionRecord
<1>4. ASSUME q.account \in Account, q.kind # "verify"
      PROVE  q.account \notin names
  BY <1>4, SessionsAssumption DEF OthersOf
<1>5. CASE AnswerPlain(r)
  BY <1>1, <1>5 DEF AnswerPlain, AnswerOnly
<1>6. CASE StoreOptions(r)
  <2>1. /\ Waits(r, "query") /\ q.kind = "options"
        /\ stored' = [q.session EXCEPT !.authenticateOptions = q.account]
    BY <1>6 DEF StoreOptions, Executes, AnswerAndStore
  <2>2. q.session \in SessionRecord /\ q.session.accounts = accounts
    BY <1>2, <2>1 DEF Place
  <2>3. stored'.accounts = accounts
    BY <2>1, <2>2 DEF SessionRecord
  <2>4. QED  BY <1>1, <2>3
<1>7. CASE StoreChallenge(r)
  <2>1. Waits(r, "query") /\ q.kind = "registration" /\ stored' = q.session
    BY <1>7 DEF StoreChallenge, Executes, AnswerAndStore
  <2>2. QED  BY <1>1, <1>2, <2>1 DEF Place
<1>8. CASE PasskeyRefused(r)
  <2>1. Waits(r, "verify") /\ stored' = q.session
    BY <1>8 DEF PasskeyRefused, AnswerAndStore
  <2>2. q.kind = "verify"
    BY <2>1, AtOK DEF Place, RequestOK
  <2>3. QED  BY <1>1, <1>2, <2>1, <2>2 DEF Place
<1>9. CASE Register(r)
  <2>1. Waits(r, "created")
        /\ stored' = [q.session EXCEPT
                        !.accounts = WithLogin(q.session.accounts, {}, q.account)]
    BY <1>9 DEF Register, AnswerWithAccounts, AnswerAndStore
  <2>2. q.kind = "register" /\ q.account \in Account
    BY <2>1, AtOK DEF Place, RequestOK, HasRow
  <2>3. /\ q.session.accounts = accounts /\ accounts \in Accounts
        /\ q.session \in SessionRecord
    BY <1>2, <2>1, <2>2 DEF Place
  <2>4. stored'.accounts = WithLogin(accounts, {}, q.account)
    BY <1>3, <2>1, <2>3
  <2>5. QED  BY <1>4, <2>2, <2>3, <2>4, PushAlike
<1>10. CASE Login(r)
  <2> DEFINE is == IndexOfAccount(accounts, q.account)
  <2>1. /\ Waits(r, "query") /\ q.kind = "login"
        /\ stored' = [q.session EXCEPT
                        !.accounts = WithLogin(q.session.accounts,
                          IndexOfAccount(q.session.accounts, q.account),
                          q.account)]
    BY <1>10 DEF Login, Executes, AnswerWithAccounts, AnswerAndStore
  <2>2. /\ q.session.accounts = accounts /\ accounts \in Accounts
        /\ q.session \in SessionRecord /\ q.account \in Account
    BY <1>2, <2>1 DEF Place, RequestOK
  <2>3. stored'.accounts = WithLogin(accounts, is, q.account)
    BY <1>3, <2>1, <2>2
  <2>4. q.account \notin names
    BY <1>4, <2>1, <2>2
  <2>5. \A i \in is : accounts[i].account = q.account
    BY <2>2, FirstIndexFinds
  <2> HIDE DEF is, names, accounts
  <2>6. Alike(accounts, WithLogin(accounts, is, q.account), names)
    BY <2>2, <2>4, <2>5, PushAlike, LoginAlike
  <2>7. QED  BY <2>3, <2>6 DEF names, accounts
<1>11. CASE PasskeyLogin(r)
  <2> DEFINE is == IndexOfUser(accounts, UserOf[q.account])
  <2>1. /\ Waits(r, "verify")
        /\ stored' = [q.session EXCEPT
                        !.accounts = WithLogin(q.session.accounts,
                          IndexOfUser(q.session.accounts, UserOf[q.account]),
                          q.account)]
    BY <1>11 DEF PasskeyLogin, AnswerWithAccounts, AnswerAndStore
  <2>2. q.kind = "verify" /\ q.account \in Account
    BY <2>1, AtOK DEF Place, RequestOK, HasRow
  <2>3. /\ q.session.accounts = accounts /\ accounts \in Accounts
        /\ q.session \in SessionRecord
    BY <1>2, <2>1, <2>2 DEF Place
  <2>4. stored'.accounts = WithLogin(accounts, is, q.account)
    BY <1>3, <2>1, <2>3
  <2>5. \A a \in names : UserOf[a] # UserOf[q.account]
    BY <2>2, SessionsAssumption DEF OthersOf
  <2>6. \A i \in is : UserOf[accounts[i].account] = UserOf[q.account]
    BY DEF IndexOfUser, FirstIndex
  <2> HIDE DEF is, names, accounts
  <2>7. Alike(accounts, WithLogin(accounts, is, q.account), names)
    BY <2>3, <2>5, <2>6, PushAlike, LoginAlike
  <2>8. QED  BY <2>4, <2>7 DEF names, accounts
<1>12. CASE Logout(r) \/ Delete(r)
  <2> DEFINE i == IndexIn(r)
  <2>1. Waits(r, "run") /\ q.kind \in {"logout", "delete"}
    BY <1>12 DEF Logout, Delete
  <2>2. /\ q.session.accounts = accounts /\ accounts \in Accounts
        /\ q.session \in SessionRecord /\ Lists(accounts, q.account)
    BY <1>2, <2>1 DEF Place, RequestOK, Waits
  <2>3. i \in 1 .. Len(accounts) /\ accounts[i].account = q.account
    BY <2>2, FirstIndexFinds DEF IndexIn
  <2>4. accounts[i] \in SessionAccount
    BY <2>2, <2>3 DEF Accounts
  <2>5. accounts[i].account \notin names
    BY <1>4, <2>1, <2>3, <2>4 DEF SessionAccount
  <2>6. CASE Logout(r)
    <3>1. stored' = [q.session EXCEPT
                       !.accounts = [q.session.accounts EXCEPT
                                       ![i].isLoggedIn = FALSE]]
      BY <2>6 DEF Logout, AnswerAndStore
    <3>2. stored'.accounts = [accounts EXCEPT ![i].isLoggedIn = FALSE]
      BY <1>3, <2>2, <3>1
    <3> HIDE DEF i, names, accounts
    <3>3. Alike(accounts, stored'.accounts, names)
      BY <2>2, <2>3, <2>5, <3>2, LogoutAlike
    <3>4. QED  BY <3>3 DEF names, accounts
  <2>7. CASE Delete(r)
    <3>1. stored' = [q.session EXCEPT !.accounts = Without(q.session.accounts, i)]
      BY <2>7 DEF Delete, AnswerWithAccounts, AnswerAndStore
    <3>2. stored'.accounts = Without(accounts, i)
      BY <1>3, <2>2, <3>1
    <3> HIDE DEF i, names, accounts
    <3>3. Alike(accounts, stored'.accounts, names)
      BY <2>2, <2>3, <2>5, <3>2, WithoutAlike
    <3>4. QED  BY <3>3 DEF names, accounts
  <2>8. QED  BY <1>12, <2>6, <2>7
<1>13. CASE CreateUser(r) \/ CredentialFound(r)
  <2>1. /\ Waits(r, "query")
        /\ GoTo(r, "created") \/ GoTo(r, "verify")
    BY <1>13 DEF CreateUser, CredentialFound, Executes
  <2>2. q \in RequestRecord
    BY <2>1, AtOK DEF Place
  <2>3. req'[r].at \in {"created", "verify"}
    BY <2>1, <2>2 DEF GoTo, SessionsInv, RequestRecord
  <2>4. QED  BY <2>3 DEF Idle
<1>14. CASE CredentialMissing(r)
  BY <1>14 DEF CredentialMissing, ProcessEnds
<1>15. QED
  BY <1>5, <1>6, <1>7, <1>8, <1>9, <1>10, <1>11, <1>12, <1>13, <1>14
     DEF Answered

\* While the process runs, only an answer ends a request.
LEMMA OnlyAnswersEnd ==
  ASSUME SessionsInv, Next, NEW r \in Request,
         req[r] # Idle, req'[r] = Idle, up'
  PROVE  Answered(r)
<1>1. ASSUME NEW p \in Request, NEW q, req' = [req EXCEPT ![p] = q]
      PROVE  p = r
  BY <1>1 DEF SessionsInv
<1>2. ~ProcessEnds
  BY DEF ProcessEnds
<1>3. CASE \E p \in Request : Begin(p)
  <2>1. PICK p \in Request : Begin(p)
    BY <1>3
  <2>2. \E q : Loads(p, q)
    BY <2>1 DEF Begin, Credentials, Options, Verify, ListUsers, UserRoute,
                Registration, Runs, AsksForConnection
  <2>3. QED  BY <1>1, <2>2 DEF Loads
<1>4. CASE \E p \in Request : Polls(p)
  <2>1. PICK p \in Request : Polls(p)
    BY <1>4
  <2>2. /\ Waits(p, "getConn")
        /\ \E q : req' = [req EXCEPT ![p] = q] /\ q.at # "idle"
    <3>1. Waits(p, "getConn") /\ req[p] \in RequestRecord
      BY <2>1, AtOK DEF Polls, TakeConnection, ConnectionRefused, PollFails,
                        GivesUp, Place
    <3>2. CASE TakeConnection(p)
      <4> DEFINE q == [req[p] EXCEPT !.at = "query"]
      <4>1. q.at = "query" /\ req' = [req EXCEPT ![p] = q]
        BY <3>1, <3>2 DEF TakeConnection, GoTo, RequestRecord
      <4> HIDE DEF q
      <4>2. QED  BY <3>1, <4>1
    <3>3. CASE PollFails(p)
      <4> DEFINE q == [req[p] EXCEPT !.failed = Counted(@)]
      <4>1. q.at = "getConn" /\ req' = [req EXCEPT ![p] = q]
        BY <3>1, <3>3 DEF PollFails, RequestRecord, Waits
      <4> HIDE DEF q
      <4>2. QED  BY <3>1, <4>1
    <3>4. CASE ConnectionRefused(p)
      <4> DEFINE q == [req[p] EXCEPT !.at = "forgotten"]
      <4>1. q.at = "forgotten" /\ req' = [req EXCEPT ![p] = q]
        BY <3>1, <3>4 DEF ConnectionRefused, GoTo, RequestRecord
      <4> HIDE DEF q
      <4>2. QED  BY <3>1, <4>1
    <3>5. QED  BY <1>2, <2>1, <3>2, <3>3, <3>4 DEF Polls, GivesUp
  <2>3. req'[r].at # "idle"
    BY <1>1, <2>2 DEF SessionsInv
  <2>4. QED  BY <2>3 DEF Idle
<1>5. CASE \E p \in Request : Answered(p)
  <2>1. PICK p \in Request : Answered(p)
    BY <1>5
  <2>2. \E q : req' = [req EXCEPT ![p] = q]
    BY <1>2, <2>1
       DEF Answered, AnswerPlain, CreateUser, Register, Login, StoreOptions,
           StoreChallenge, CredentialMissing, CredentialFound, PasskeyRefused,
           PasskeyLogin, Logout, Delete, AnswerOnly, AnswerWithAccounts,
           AnswerAndStore, Ends, GoTo
  <2>3. QED  BY <1>1, <2>1, <2>2
<1>6. CASE Restart
  BY <1>6 DEF Restart
<1>7. QED
  BY <1>2, <1>3, <1>4, <1>5, <1>6 DEF Next, QueryFails

\* The names of the others are those the property speaks of.
LEMMA OthersAre ==
  ASSUME NEW q, NEW accounts \in Accounts
  PROVE  {i \in DOMAIN accounts :
            \/ q.account = Null
            \/ IF q.kind = "verify"
               THEN UserOf[accounts[i].account] # UserOf[q.account]
               ELSE accounts[i].account # q.account}
           = PlacesOf(accounts, OthersOf(q))
<1>1. /\ DOMAIN accounts = 1 .. Len(accounts)
      /\ \A i \in 1 .. Len(accounts) : accounts[i] \in SessionAccount
  BY DEF Accounts
<1>2. \A i \in 1 .. Len(accounts) : accounts[i].account \in Account
  BY <1>1 DEF SessionAccount
<1>3. QED  BY <1>1, <1>2 DEF PlacesOf, OthersOf

\* A request whose session nobody has stored meanwhile changes, whatever it is
\* and however it ends, only the entry of the account it is about (user.ts,
\* helper/user.ts): the others are in the session as before, in their order.
\* So what a request undoes of another one's work, it undoes because the two
\* have overlapped.
THEOREM OthersAreLeftAlone == SafetySpec => OthersStayAsTheyAre
<1> DEFINE Other(r, entry) ==
             \/ req[r].account = Null
             \/ IF req[r].kind = "verify"
                THEN UserOf[entry.account] # UserOf[req[r].account]
                ELSE entry.account # req[r].account
           Others(r, accounts) ==
             {i \in DOMAIN accounts : Other(r, accounts[i])}
           Left == \A r \in Request :
             req[r] # Idle /\ req'[r] = Idle /\ up' /\ ~stale[r] =>
               SameEntries(stored.accounts, Others(r, stored.accounts),
                           stored'.accounts, Others(r, stored'.accounts))
<1>1. SessionsInv /\ SessionsInv' /\ FreshInv /\ [Next]_vars => [Left]_vars
  <2> SUFFICES ASSUME SessionsInv, SessionsInv', FreshInv, Next,
                      NEW r \in Request,
                      req[r] # Idle, req'[r] = Idle, up', ~stale[r]
               PROVE  SameEntries(stored.accounts, Others(r, stored.accounts),
                                  stored'.accounts, Others(r, stored'.accounts))
    OBVIOUS
  <2>1. Answered(r)
    BY OnlyAnswersEnd
  <2>2. Alike(stored.accounts, stored'.accounts, OthersOf(req[r]))
    BY <2>1, StoresAlike
  <2>3. stored.accounts \in Accounts /\ stored'.accounts \in Accounts
    BY DEF SessionsInv, SessionOK, ListOK
  <2>4. \A accounts \in Accounts :
          Others(r, accounts) = PlacesOf(accounts, OthersOf(req[r]))
    BY OthersAre
  <2> HIDE DEF Others
  <2>5. SameEntries(stored.accounts, Others(r, stored.accounts),
                    stored'.accounts, Others(r, stored'.accounts))
    BY <2>2, <2>3, <2>4 DEF Alike
  <2>6. QED  BY <2>5
<1>2. QED
  BY <1>1, SessionsInvariant, FreshInvariant, PTL
     DEF SafetySpec, OthersStayAsTheyAre
=============================================================================
