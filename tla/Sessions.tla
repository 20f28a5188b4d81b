------------------------------ MODULE Sessions ------------------------------
(***************************************************************************)
(* The session of a browser, which lists the accounts it is logged in as,  *)
(* and the connections to MariaDB its requests borrow: user.ts and the     *)
(* routers below it, helper/user.ts, Database.getConn.                     *)
(*                                                                         *)
(* express-session loads the session from Redis when a request begins, and *)
(* stores the whole of it when the request ends, if the request has changed*)
(* it.  In between the request waits for a connection, for its statements  *)
(* and for the verification of a passkey, while other requests of the same *)
(* browser run.  Redis keeps the session when the process ends.            *)
(*                                                                         *)
(* Handlers that only execute a statement (nicknames, passwords, tokens,   *)
(* lists) are one kind of request, "plain": what they change is of no      *)
(* account here.                                                           *)
(***************************************************************************)
EXTENDS FiniteSets, Naturals, Sequences, SequencesExt

CONSTANTS
  Request,      \* requests of the browser that may be under way at a time
  Account,      \* names as users write them
  User,         \* rows of accounts
  UserOf,       \* the row MariaDB finds for a name: it ignores case, ...
  Connections,  \* connectionLimit
  MaxFailed,    \* failed polls after which getConn gives up, 1000
  Null

ASSUME SessionsAssumption ==
  /\ UserOf \in [Account -> User]
  /\ Null \notin Account
  /\ Connections \in Nat \ {0}
  /\ MaxFailed \in Nat

VARIABLES
  stored,      \* the session in Redis: accounts and authenticateOptions
  registered,  \* users that have a row
  idle,        \* connections of the pool nobody has
  req,
  up,          \* the process runs
  stale        \* history: the session was stored since the request loaded it

vars == <<stored, registered, idle, req, up, stale>>

Kind == {"plain", "register", "login", "options", "verify",
         "registration", "logout", "delete"}
SessionAccount == [account: Account, isLoggedIn: BOOLEAN]
IsSession(s) ==
  /\ DOMAIN s = {"accounts", "authenticateOptions"}
  /\ s.accounts \in Seq(SessionAccount)
  /\ s.authenticateOptions \in Account \cup {Null}

Idle == [at |-> "idle"]
\* session: the request's own, if it may store it; account: whom it is about,
\* if anybody; failed: the polls of getConn
Place == {"getConn", "forgotten", "query", "created", "verify", "run"}

TypeOK ==
  /\ IsSession(stored)
  /\ registered \in SUBSET User
  /\ idle \in 0 .. Connections
  /\ \A r \in Request :
       req[r] # Idle =>
         /\ req[r].at \in Place /\ req[r].kind \in Kind
         /\ IsSession(req[r].session)
         /\ req[r].account \in Account \cup {Null}
         /\ req[r].failed \in 0 .. MaxFailed + 1
  /\ up \in BOOLEAN
  /\ stale \in [Request -> BOOLEAN]

Empty == [accounts |-> <<>>, authenticateOptions |-> Null]

Init ==
  /\ stored = Empty
  /\ registered = {}
  /\ idle = Connections
  /\ req = [r \in Request |-> Idle]
  /\ up = TRUE
  /\ stale = [r \in Request |-> FALSE]

-----------------------------------------------------------------------------
(* A list of accounts                                                      *)

\* findIndex: the first index, or none
FirstIndex(accounts, Test(_)) ==
  {i \in DOMAIN accounts :
     Test(accounts[i]) /\ \A j \in 1 .. i - 1 : ~Test(accounts[j])}
IndexOfAccount(accounts, a) ==
  LET IsIt(entry) == entry.account = a IN FirstIndex(accounts, IsIt)
IndexOfUser(accounts, u) ==
  LET IsIt(entry) == UserOf[entry.account] = u IN FirstIndex(accounts, IsIt)

LoggedIn(accounts, is) == \E i \in is : accounts[i].isLoggedIn

\* the account at the index found is logged in, or a new one pushed
WithLoginMutant(accounts, is, a) ==
  Append(accounts, [account |-> a, isLoggedIn |-> TRUE])
WithLogin(accounts, is, a) ==
  IF is = {}
  THEN Append(accounts, [account |-> a, isLoggedIn |-> TRUE])
  ELSE [i \in DOMAIN accounts |->
          [accounts[i] EXCEPT !.isLoggedIn = @ \/ i \in is]]

\* splice(userIndex, 1)
WithoutMutant(accounts, i) == SubSeq(accounts, 1, i - 1)
Without(accounts, i) == RemoveAt(accounts, i)

-----------------------------------------------------------------------------
(* How a request goes on and ends                                          *)

Waits(r, place) == up /\ req[r].at = place
GoTo(r, place) == req' = [req EXCEPT ![r].at = place]
Holds(r) == req[r].at \in {"query", "created", "verify"}

Ends(r) == req' = [req EXCEPT ![r] = Idle]

\* The end of a response that has left the session as it was.
AnswerOnly(r) ==
  /\ Ends(r)
  /\ stale' = [stale EXCEPT ![r] = FALSE]
  /\ UNCHANGED stored
\* The end of one that has changed it: the request's own is stored.
AnswerAndStore(r, session) ==
  /\ Ends(r)
  /\ stored' = session
  /\ stale' = [q \in Request |-> q # r /\ req[q] # Idle]

\* conn.release().  The second one of a refused registration does nothing.
ReleaseMutant == idle' = idle + 2
Release == idle' = idle + 1

\* A rejection nobody handles, of an async handler or of getConn.
ProcessEnds ==
  /\ up' = FALSE
  /\ req' = [r \in Request |-> Idle]
  /\ stale' = [r \in Request |-> FALSE]
  /\ idle' = Connections
  /\ UNCHANGED <<stored, registered>>

\* restart: unless-stopped
Restart ==
  /\ ~up
  /\ up' = TRUE
  /\ UNCHANGED <<stored, registered, idle, req, stale>>

-----------------------------------------------------------------------------
(* A request begins: the session is loaded, and the handler runs up to its *)
(* first await.                                                            *)

NewRequest(kind, place, session, account) ==
  [at |-> place, kind |-> kind, session |-> session, account |-> account,
   failed |-> 0]

Loads(r, request) ==
  /\ up
  /\ req[r] = Idle
  /\ req' = [req EXCEPT ![r] = request]
  /\ UNCHANGED <<stored, registered, up, stale>>

\* The first await is for a connection: one that is idle, or polls for one.
AsksForConnection(r, kind, session, account) ==
  \/ /\ idle > 0
     /\ idle' = idle - 1
     /\ Loads(r, NewRequest(kind, "query", session, account))
  \/ /\ idle = 0
     /\ Loads(r, NewRequest(kind, "getConn", session, account))
     /\ UNCHANGED idle

\* POST / and PUT /
Credentials(r, kind, a) ==
  /\ kind \in {"register", "login"}
  /\ AsksForConnection(r, kind, stored, a)

\* POST /generate-authentication-options
Options(r, a) ==
  /\ ~LoggedIn(stored.accounts, IndexOfAccount(stored.accounts, a))
  /\ AsksForConnection(r, "options", stored, a)

\* POST /verify-authentication takes the options out of the session.
Verify(r) ==
  /\ stored.authenticateOptions # Null
  /\ AsksForConnection(r, "verify",
                       [stored EXCEPT !.authenticateOptions = Null],
                       stored.authenticateOptions)

\* GET / asks for the rows of the accounts, if there are any.
ListUsers(r) ==
  /\ stored.accounts # <<>>
  /\ AsksForConnection(r, "plain", Empty, Null)

\* The routes under /:userIndex are for an index that is logged in.
IsLoggedInAt(i) == i \in DOMAIN stored.accounts /\ stored.accounts[i].isLoggedIn
UserRoute(r, i) ==
  /\ IsLoggedInAt(i)
  /\ AsksForConnection(r, "plain", Empty, Null)
Registration(r, i) ==
  /\ IsLoggedInAt(i)
  /\ AsksForConnection(r, "registration", stored, Null)
Runs(r, kind, i) ==
  /\ IsLoggedInAt(i)
  /\ kind \in {"logout", "delete"}
  /\ Loads(r, NewRequest(kind, "run", stored, stored.accounts[i].account))
  /\ UNCHANGED idle

-----------------------------------------------------------------------------
(* getConn, when there was no idle connection                               *)

TakeConnection(r) ==
  /\ Waits(r, "getConn")
  /\ req[r].failed <= MaxFailed
  /\ idle > 0
  /\ idle' = idle - 1
  /\ GoTo(r, "query")
  /\ UNCHANGED <<stored, registered, up, stale>>

\* The pool rejects: the connections it had are broken and it gets no other
\* in time.  clearInterval has ended the polls and nobody handles the
\* rejection, so the promise of getConn never settles.
ConnectionRefused(r) ==
  /\ Waits(r, "getConn")
  /\ req[r].failed <= MaxFailed
  /\ idle > 0
  /\ GoTo(r, "forgotten")
  /\ UNCHANGED <<stored, registered, idle, up, stale>>

\* failedTimes++
CountedMutant(failed) == failed
Counted(failed) == failed + 1
PollFails(r) ==
  /\ Waits(r, "getConn")
  /\ req[r].failed <= MaxFailed
  /\ idle = 0
  /\ req' = [req EXCEPT ![r].failed = Counted(@)]
  /\ UNCHANGED <<stored, registered, idle, up, stale>>

GivesUp(r) ==
  /\ Waits(r, "getConn")
  /\ req[r].failed > MaxFailed
  /\ ProcessEnds

-----------------------------------------------------------------------------
(* The statement of a request, and what it goes on with.  What it finds is *)
(* as the tables are.                                                      *)

Executes(r, kinds) == Waits(r, "query") /\ req[r].kind \in kinds
Exists(a) == UserOf[a] \in registered

\* or the pool rejects a request that did not poll
QueryFails(r) == Waits(r, "query") /\ ProcessEnds

\* The connection goes back, and the session stays as it is: also for names
\* that are taken, wrong passwords, accounts that are logged in already, and
\* users without passkeys.
AnswerPlain(r) ==
  /\ \/ Executes(r, {"plain", "login", "options"})
     \/ Executes(r, {"register"}) /\ Exists(req[r].account)
  /\ Release
  /\ AnswerOnly(r)
  /\ UNCHANGED <<registered, up>>

\* CREATE_USER; the handler goes on when MariaDB's answer has arrived.
CreateUser(r) ==
  /\ Executes(r, {"register"})
  /\ ~Exists(req[r].account)
  /\ registered' = registered \cup {UserOf[req[r].account]}
  /\ GoTo(r, "created")
  /\ UNCHANGED <<stored, idle, up, stale>>

\* What a request stores
AnswerWithAccounts(r, accounts) ==
  AnswerAndStore(r, [req[r].session EXCEPT !.accounts = accounts])

Register(r) ==
  /\ Waits(r, "created")
  /\ Release
  /\ AnswerWithAccounts(r, WithLogin(req[r].session.accounts, {},
                                     req[r].account))
  /\ UNCHANGED <<registered, up>>

\* QUERY_USER_BY_ACCOUNT_PASSWORD has found the user.
Login(r) ==
  LET accounts == req[r].session.accounts
      is == IndexOfAccount(accounts, req[r].account)
  IN
  /\ Executes(r, {"login"})
  /\ Exists(req[r].account)
  /\ ~LoggedIn(accounts, is)
  /\ Release
  /\ AnswerWithAccounts(r, WithLogin(accounts, is, req[r].account))
  /\ UNCHANGED <<registered, up>>

\* The user has passkeys.
StoreOptions(r) ==
  /\ Executes(r, {"options"})
  /\ Exists(req[r].account)
  /\ Release
  /\ AnswerAndStore(r, [req[r].session EXCEPT
                          !.authenticateOptions = req[r].account])
  /\ UNCHANGED <<registered, up>>

\* generate-registration-options and verify-registration of a passkey set
\* and take registerChallenge, so the session is stored.
StoreChallenge(r) ==
  /\ Executes(r, {"registration"})
  /\ Release
  /\ AnswerAndStore(r, req[r].session)
  /\ UNCHANGED <<registered, up>>

-----------------------------------------------------------------------------
(* POST /verify-authentication                                             *)

\* Without a credential, rawCredential is undefined and the handler throws.
CredentialMissing(r) == Executes(r, {"verify"}) /\ ProcessEnds

CredentialFound(r) ==
  /\ Executes(r, {"verify"})
  /\ GoTo(r, "verify")
  /\ UNCHANGED <<stored, registered, idle, up, stale>>

\* It throws or does not verify, or the user is logged in already.
\* The connection is released on each of these paths.
RefusedReleasesMutant == UNCHANGED idle
RefusedReleases == Release
PasskeyRefused(r) ==
  /\ Waits(r, "verify")
  /\ RefusedReleases
  /\ AnswerAndStore(r, req[r].session)
  /\ UNCHANGED <<registered, up>>

\* The connection of a login that pushes is not released.
PasskeyLogin(r) ==
  LET accounts == req[r].session.accounts
      is == IndexOfUser(accounts, UserOf[req[r].account])
  IN
  /\ Waits(r, "verify")
  /\ ~LoggedIn(accounts, is)
  /\ IF is = {} THEN UNCHANGED idle ELSE Release
  /\ AnswerWithAccounts(r, WithLogin(accounts, is, req[r].account))
  /\ UNCHANGED <<registered, up>>

-----------------------------------------------------------------------------
(* PUT /:userIndex/logout and DELETE /:userIndex                           *)

IndexIn(r) ==
  CHOOSE i \in IndexOfAccount(req[r].session.accounts, req[r].account) : TRUE

Logout(r) ==
  /\ Waits(r, "run")
  /\ req[r].kind = "logout"
  /\ AnswerAndStore(r, [req[r].session EXCEPT
                          !.accounts[IndexIn(r)].isLoggedIn = FALSE])
  /\ UNCHANGED <<registered, idle, up>>

Delete(r) ==
  /\ Waits(r, "run")
  /\ req[r].kind = "delete"
  /\ AnswerWithAccounts(r, Without(req[r].session.accounts, IndexIn(r)))
  /\ UNCHANGED <<registered, idle, up>>

-----------------------------------------------------------------------------

Begin(r) ==
  \/ \E a \in Account :
       \/ \E kind \in {"register", "login"} : Credentials(r, kind, a)
       \/ Options(r, a)
  \/ Verify(r) \/ ListUsers(r)
  \/ \E i \in DOMAIN stored.accounts :
       \/ UserRoute(r, i) \/ Registration(r, i)
       \/ \E kind \in {"logout", "delete"} : Runs(r, kind, i)

Polls(r) ==
  TakeConnection(r) \/ ConnectionRefused(r) \/ PollFails(r) \/ GivesUp(r)
Answered(r) ==
  \/ AnswerPlain(r) \/ CreateUser(r) \/ Register(r) \/ Login(r)
  \/ StoreOptions(r) \/ StoreChallenge(r)
  \/ CredentialMissing(r) \/ CredentialFound(r)
  \/ PasskeyRefused(r) \/ PasskeyLogin(r) \/ Logout(r) \/ Delete(r)

Next ==
  \/ \E r \in Request : Begin(r) \/ Polls(r) \/ Answered(r) \/ QueryFails(r)
  \/ Restart

\* The timer of a poll runs out again and again, MariaDB and Redis answer,
\* and the container is started again.
Fairness ==
  /\ \A r \in Request : WF_vars(Polls(r) \/ Answered(r))
  /\ WF_vars(Restart)

SafetySpec == Init /\ [][Next]_vars
Spec == SafetySpec /\ Fairness

-----------------------------------------------------------------------------
(* Properties                                                              *)

\* However the requests of a browser overlap, its session lists a name once:
\* the index a login answers is the only one of that name.
NoAccountTwice ==
  \A i, j \in DOMAIN stored.accounts :
    stored.accounts[i].account = stored.accounts[j].account => i = j

\* A session lists a user once: a second login is answered with HAS_LOGGED_IN
\* (user.ts:129-134).
NoUserTwice ==
  \A i, j \in DOMAIN stored.accounts :
    UserOf[stored.accounts[i].account] = UserOf[stored.accounts[j].account]
      => i = j

\* connections that are neither in the pool nor a request's
Missing == Connections - idle - Cardinality({r \in Request : Holds(r)})

\* A connection is kept for good only by a login with a passkey that adds a
\* user to the session.  Every other request, on whichever path it ends,
\* gives back the one it took.
OnlyPasskeyLoginsKeepConnections ==
  [][Missing' > Missing =>
       /\ Missing' = Missing + 1
       /\ \E r \in Request : req[r].at = "verify" /\ req'[r] = Idle
       /\ Len(stored'.accounts) > 0
       /\ Last(stored'.accounts).isLoggedIn]_vars

\* What one list has at some places and the other at others are the same
\* entries in the same order.
SameEntries(before, places, after, others) ==
  \E to \in Bijection(places, others) :
    \A i \in places : /\ after[to[i]] = before[i]
                      /\ \A j \in places : j < i => to[j] < to[i]

\* A request that did not overlap another one's end changes nothing in the
\* session but the account it is about (a passkey login is about a user, under
\* whichever name): no other account is logged in, logged out, listed in
\* another order or dropped on the way.
OthersStayAsTheyAre ==
  [][\A r \in Request :
       req[r] # Idle /\ req'[r] = Idle /\ up' /\ ~stale[r] =>
         LET IsOther(entry) ==
               \/ req[r].account = Null
               \/ IF req[r].kind = "verify"
                  THEN UserOf[entry.account] # UserOf[req[r].account]
                  ELSE entry.account # req[r].account
             Others(accounts) ==
               {i \in DOMAIN accounts : IsOther(accounts[i])}
         IN SameEntries(stored.accounts, Others(stored.accounts),
                        stored'.accounts, Others(stored'.accounts))]_vars

\* A request ends: it is answered, or the process ends and takes it along.
\* It does not wait for ever for a connection that does not come back; only
\* one whose connection the pool refuses after a poll is forgotten.
RequestsEnd ==
  \A r \in Request :
    req[r] # Idle ~> req[r] = Idle \/ req[r].at = "forgotten"

\* getConn settles its promise: with a connection, or after 1000 periods with
\* a rejection (Database.ts:116-119).
NoRequestIsForgotten == \A r \in Request : req[r].at # "forgotten"
=============================================================================
