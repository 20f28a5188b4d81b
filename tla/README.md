# TLA+ specifications of EnhServer

EnhServer is a backend for small multi-user games and tools: accounts with
passwords and passkeys, tables of variables with permissions, and a socket
server with rooms. It is a TypeScript monorepo: `Backend` (Node.js, Express,
socket.io, MariaDB, Redis), `Frontend` (browser) and `Deploy` (docker compose).
This directory holds specifications of its stateful parts, the TLC
configurations that check them on small instances, and proofs that hold for
instances of every size.

Paths below are relative to `src/`; `Manager/` stands for
`Backend/modules/SocketServer/Manager/`.

To run: `tlc -config RoomManager.cfg RoomManager` (the table in section 4
gives the module of each configuration), `tlapm SocketServerProofs.tla`.

## 1. Inventory

| Component | State | Operations | Module |
|---|---|---|---|
| Rooms (`Manager/RoomManager.ts`) | a record per room with the list of sockets and the decision maker; socket.io's own membership of rooms | create, join, leave, list, query; the loop over all rooms after a disconnection | `RoomManager` |
| Accounts of connections (`Manager/AccountManager.ts`, `SystemEventManager.ts`, `Backend/modules/jwtHelper.ts`) | a Map from connection to account | login (asynchronous verification), sending the former holder away, removal | `AccountManager` |
| Socket server (`SocketServer.ts`, `Manager/DisconnectManager.ts`, `UserEventManager.ts`) | the open connections | dispatch of events; the disconnect handler, which notifies others and cleans both tables | `SocketServer` (composes the two above) |
| Ids of rooms (`SocketServer/Helper/UidTable.ts`) | an insertion-ordered Map | generation of an id, deletion | `UidTable` |
| Schema updater (`Backend/database/Database.ts`, `schemas.ts`, `schema/*.ts`) | the tables, the row with their version | checkSchema, updateSchema | `SchemaUpdate` |
| Database connections (`Database.getConn`) | the pool | take, poll, give up, release | `Sessions` |
| Authentication methods (`routes/user/user.ts`, `subRoute/userPasskey.ts`) | password, allowPassword, passkeys of a user | change or (dis)allow the password, create or delete a passkey | `AuthMethods` |
| Sessions (`user.ts`, `routes/helper/user.ts`) | accounts stored in an HTTP session, options of a passkey login, challenges | register, login, passkey login, logout, deletion | `Sessions`; seen from a page: `LoginPages` |
| Tokens (`subRoute/userToken.ts`, `handler/tokenHandler.ts`) | token rows, Redis keys and the next id | create, delete, verify | API tokens: `VariableTables`; verification of login tokens: `AccountManager` |
| Permissions (`modules/Permission`, `permissionStatements.ts`) | permission entries per account, token and domain | insert, query, check | `VariableTables` |
| Variable tables (`modules/VariableTable`, `routes/variableTable`, `Manager/VariableTableManager.ts`) | tables and their variables | create, delete, read, write, over HTTP and sockets | `VariableTables` |
| Messages (`Manager/MessageManager.ts`) | none of its own | forwarding to rooms and sockets | not modelled |
| Emitter (`modules/Emitter`) | listener lists | on, once, off, emit | `Emitter`; a direct call in `SocketServer` |
| Logger, Pool (`modules/Console`, `modules/generic/Pool.ts`) | a pool of objects | output | not modelled |
| Frontend caches and users (`Frontend/src/ts/messages`) | a cache per user, the promise of the first list, the current user | list, refresh with retries, get, switch | `UserManager` |
| Frontend flows (`Frontend/src/ts/uis/base/flow`, pages `login`, `register`, `externalLogin`) | the page and flow shown, calls under way, the token handed over | forms, buttons, answers, countdown | `LoginPages` |
| Frontend pages | presentation | | not modelled: layout and texts |
| Deployment (`Deploy/docker-compose.yml`) | | restart of a container that ended | actions `Restart` and `Start` |

### How they interact

A socket event goes through `UserEventManager.parse`, or the emitter, to one
manager, on one event loop: everything between two `await`s is atomic. The
managers meet in three places. The disconnect handler asks Redis which sockets
there are (`fetchSockets`), then notifies those in rooms, starts
`roomManager.disconnect` and calls `accountManager.remove`. A login that takes
an account over calls `disconnect(true)` on the connection that held it, which
runs that handler in the middle of the login. And socket.io empties its own
membership of rooms when a connection closes, before any handler runs.

HTTP requests share only the database, Redis and the stored session; a handler
is a series of single statements without a transaction, so the statements of
two requests interleave freely.

Node.js ends a process in which a promise is rejected and nobody handles it;
several handlers throw in that way, and docker starts the container again
(`restart: unless-stopped`), with all tables in memory lost and the database
kept.

### What is hard here, and what makes each part correct

* **Rooms.** The count of a room's sockets is taken when `leaveRoom` calls
  `fetchSockets` and acted on when Redis has answered; in between, sockets join
  and leave and other answers arrive. Two tables, the record and socket.io's
  membership, must meet again (`ListFollowsMembers`); members must be told one
  decision maker (`MembersAgreeOnDM`); an empty room must go away
  (`EmptyRoomIsOnItsWayOut`, `EmptyRoomIsDestroyed`), a lost decision maker be
  replaced (`LostDMIsReplaced`, `DMRecovers`), a closed connection disappear
  (`ClosedIsForgotten`).
* **Accounts.** A login ends after `await verifyJWT`, when its connection may
  have closed, logged in elsewhere or lost the account to another one. One
  connection per account and host (`OneConnectionPerAccount`), bound to the last
  account it was told by a login with a token (`OpenConnectionKeepsItsAccount`),
  and removed for good (`RemovalIsFinal`).
* **The server.** A login runs the disconnect handlers of the connection it
  replaces in its middle, which must not disturb the accounts
  (`ImplementsAccounts`) and has to take that connection out of its rooms in time
  (`NobodyPlaysTwice`); room mates must learn of a disconnection
  (`MatesAreNoticed`).
* **Ids.** `generateUid` shares one iterator between the rounds of its outer
  loop, so that it compares an id with every key once, in insertion order,
  while the id grows. New ids must still be new (`FreshUntilReused`,
  `ExtensionsComeAfter`).
* **Schema.** DDL commits by itself; a start may be cut short anywhere, and the
  next must get to the same tables or stop (`ServesOnTheLatestTables`,
  `RowsTellTheTables`, `StopsThatAreRecovered`).
* **Authentication methods.** Handlers check, await, and write
  (`PasswordMatchesPermission`, `OneAtATimeKeepsAMethod`).
* **Sessions.** A request works on its own copy of the session and stores the
  whole of it when it ends: of two that overlap, one loses its changes. The
  list must stay one (`NoAccountTwice`), and a request that nobody overtook
  must leave other accounts alone (`OthersStayAsTheyAre`).
* **Database connections.** Every path of every handler has to give back the
  connection it took (`OnlyPasskeyLoginsKeepConnections` says which one does
  not), and whoever waits for one must not wait for ever (`RequestsEnd` says
  which ones do).
* **Variable tables and permissions.** A right is queried before the statement
  it allows, and tables, entries, tokens and rights may go in between
  (`StatementsAreAllowed`, `ChangesAreAllowed`); a row must not be made for what
  has gone (`RowsReferToRows`).
* **Emitter.** A listener may add, remove and emit while an emit runs, and emit
  replaces the list at its end (`ListIsAsExpected`, `OnlyEmitsForgetListeners`,
  `CalledAtMostItsTimes`).
* **Frontend users.** Refreshes, retries, lists and switches overlap, and all of
  them wait for one promise, which methods that wait for it begin again and which
  may be rejected (`LostIsNoticed`, `CallsEnd`, `OnlyLoggedInBecomeCurrent`).
* **Login pages.** Several answers may be under way when the user clicks again,
  and requests of this and other tabs store the session over each other; a
  login and a passkey must still go to the account they were asked for
  (`LoginGoesToItsUser`, `PasskeyGoesToItsUser`), and the game must get one token
  (`OneToken`).

`PROJECT.json` lists each hazard at its line with the properties that cover it.

## 2. Modules and the code

`MC*` modules give finite values to constants and name the symmetry sets;
`RoomManager` and `SchemaUpdate` need none. Each definition's lines are in `PROJECT.json`.

### RoomManager

| Code | Specification |
|---|---|
| `_uidManager`, `IRoomData.decisionMaker.list`, `.current` | `rooms`, `dmList`, `dmCurrent` |
| socket.io's rooms; open, closed connections | `members`; `conn` |
| calls of `fetchSockets` Redis has not answered | `pending`, a queue: Redis answers one connection in order |
| the loop of `disconnect(socket)` | `todo[s]`, the rooms it has still to visit |
| last CHANGE_DM event or answer to CREATE and JOIN | `told` |
| `onCreateRoom`, `onJoinRoom`, `onLeaveRoom` | `CreateRoom`, `JoinRoom`, `LeaveRoom` (up to the await) |
| `leaveRoom` after the await | `DestroyRoom`, `SelectDecisionMaker`, `SelectInMissingRoom` |
| `onDisconnect` up to, and after, its await | `Disconnect`, `ResumeDisconnect` |
| end and restart of the process | `SelectInMissingRoom`, `Restart` |

A leave call carries `occupied`, computed when the call is made: the in-memory
adapter answers with the sockets of that moment, after the round trip to Redis
has told it how many servers there are. The order in which the loop visits
rooms is left open. Requests the code refuses change no state and are
stuttering steps. Not modelled: a LEAVE for the private room socket.io keeps
under each socket's own id, and rooms on several servers at once (the records
are local to a process, and the deployment starts one).

### AccountManager

`bound` is the Map, `verifying` the LOGIN events at `await verifyJWT` (with the
account the verification will find, `NoUser` for an invalid token), `leaving`
the closed connections whose handler has not resumed. `LoginVerified` is the
whole continuation: preCheck, which sends away at most one holder, then
setValue. `LoginAsGuest` is the branch for the token "guest": an answer at once,
which leaves the binding as it was and logins under verification to go on.
`answered`, the account of the last login by token that a connection was
answered, and `guests`, who was last answered as a guest, are history variables.

### SocketServer

EXTENDS `RoomManager` and instantiates `AccountManager` with
`leaving <- {s : a notice of s is pending}`: the handler of a disconnection
that waits for Redis is one and the same for both parts. Its actions conjoin an
action of the rooms with what the step does to the accounts; `SentAway`, in a
login, is a whole `Disconnect`. That the server takes only steps of the rooms is
therefore a fact about the specification, not about the code, and no property. `noticed` and `together` are history variables:
who was told of whom, and who was in a room with a connection when it closed.

### UidTable

`keys` is the Map's key order. `GenerateUid` is one call: `Scan` passes over the
keys and appends a character per collision (`Grown`) (the second round of the outer loop
finds the iterator exhausted), `Set` puts a new key at the end. The area prefix
takes no part in the comparison of ids of one area and is left out.

### SchemaUpdate

Statements are records; `Accepted` says when MariaDB refuses one and `After`
what it does, both external. `Script` is the three versions in `schemas.ts`,
statement by statement; of a table only the columns, keys and constraints that
a later statement depends on are kept. `QueryFails` takes the `catch` branch of
updateSchema, `Stop` ends the process at any await. Left out: the deletion of
stored sessions in Redis that one version asks for, which nothing else reads.

### AuthMethods

One user's row and passkeys; each request of the two check-then-write handlers
is at one of its statements (`req`), the others are one statement.
`overlapped` is a history variable: a request began while another was under
way. Requests that are refused are stuttering steps. Left out: nicknames and the WebAuthn
challenge and counters, on which none of this state depends.

### Sessions

| Code | Specification |
|---|---|
| `accounts` and `authenticateOptions` of the session in Redis | `stored` |
| rows of the accounts' table | `registered`, one per user; `UserOf` gives the user a name finds, as MariaDB compares names without case |
| the pool of mariadb | `idle` |
| a request between two awaits, with its copy of the session | `req[r]`: at `getConn`, `forgotten` there, at a `query`, at the row it just `created`, at the `verify` of a passkey, or about to `run` its end |
| the process; docker's restart | `up`, `ProcessEnds`, `Restart` |
| `getConn`: take, poll again, give up; a rejection after a poll, which is swallowed | `TakeConnection`, `PollFails`, `GivesUp`; `ConnectionRefused` |
| `/register`, `/login`, `/generate-authenticate-options`, `/verify-authentication` | `Register` after `CreateUser`, `Login`, `StoreOptions`, `PasskeyLogin` and its refusals |
| `/:userIndex/logout`, deletion from the session, the passkey registration, all other routes below a user | `Logout`, `Delete`, `StoreChallenge`, `AnswerPlain` |

A statement that fails rejects in an async handler, which ends the process:
`QueryFails`. `stale[r]` is a history variable: another request has stored the
session since `r` loaded it. User rows are never deleted by any route, so
`registered` only grows. `verify-authentication` ends without `release` when the
user is added to the session (`PasskeyLogin`); of a refused registration, the
second `release` of one connection is taken to have no effect, as in mariadb.

### VariableTables

The rows of five tables are sets; `req[r]` is a request and what it waits for
(`check entry`, `entry id`, `permission`, `statement`, and the three steps that
make a table). Each of the 22 handlers of the three ways in is a record
(`UserCreate` ... `SocketList`): the way in, the statement, the right it needs
and how often it answers on refusal and on failure, because an answer sent
twice throws and ends the process. Statements delete by foreign keys as
the schema says (`DeleteTable`, `DeleteToken`). `held` is a history variable:
since the request began, its sender has had the right at some moment. No
statement of the code writes to `permissionEntry` or updates `permission`
(both permission routes look for a table under a column no row has, and always
answer `PERMISSION_DENIED`), so `Grant`, `Revoke` and `RowsByHand` are changes
somebody makes in the database: without them no right other than the owner's
would ever exist. A handler whose request the routes refuse before the first
query is a stuttering step.

### Emitter

`handlers` is `_handlers`, `entries` the `EmitterEntry` objects, `stack` the
emits that are running: which list each visits, how far it is and what its
filter has kept. `AddListener`, `RemoveListener`, `RemoveAll` and `Emit` happen
outside of emits or in the function of the listener that is being called
(`Call` ... `Return`). `RemoveAll` exchanges the object `_handlers`; an emit
that had begun writes into the old one and so changes nothing any more
(`current` is FALSE). `Throws` is an exception of a listener: whoever began one
of the emits may catch it, and that emit and those inside of it replace no list.
`expected` is a history variable, the list that adding and removing one after
the other would give; `disturbed` names the events that were used by a listener
while an emit of them was still to replace their list, and those whose emit was
left by an exception.

### UserManager

`caches`, `initPromise` and `current` are the fields of the class; a call is a
list of what it has still to do (`"ready"`, `"refresh"`, ...), so that the methods
that call each other share their steps. An answer may say anything:
other pages change the session between two answers. `Initialize` begins the
list, `ListCame` and `ListFails` end it; `Retry`, `Refreshed` and `RefreshFailed` are
the three outcomes of an answer to a refresh. What `refresh` saw decides whether
the cache is removed (`RemoveCache`), which begins a new list. Left out:
nicknames, and the age at which a cache is refreshed by itself (any read
may refresh).

### LoginPages

| Code | Specification |
|---|---|
| the page and its current flow, the buttons, `send`, tokens given to who asks | `tab` |
| asynchronous methods of the pages between two awaits | `calls`, with what each does, for whom, and the answer that came |
| the session: accounts with the challenge of a registration, `authenticateOptions` | `session` |
| the end of a request's handler | the actions of `Serve`, on the copy that was loaded, or on `session` itself if nobody stored meanwhile |
| the copy of the session a request works on, loaded when it begins and stored whole with the answer | `loaded` for the calls of the tab, `others` for other tabs and for requests whose call is over; `Loads`, `Stores`, `OtherLoads`, `OtherStores` |
| a lost request or answer | `Fail` |
| the browser's or the stick's dialog | `AuthenticatorAnswers`, `AuthenticatorThrows` |
| link, reload, `location.assign`, also at the end of the countdown of SuccessFlow | `Leave`, then `Opens` |

A challenge is the call it was made for: nobody answers it who did not get it,
and it is forgotten with the call. `showFlow` hides one flow and shows the next
without waiting and is one step. Of the handlers only the ends matter to the
pages: what a request reads and awaits before is in `Sessions`. `PlaceOf` looks
for the names a handler's `findIndex` accepts: the name that was typed, or, after
a passkey, any name of the user's row (`user.ts:250`). The current user is
anybody whenever a page reads it, since `UserManager` may have changed it.

## 3. Fairness

* `RoomManager.FairSpec`, `SocketServer.ServerFairSpec`: weak fairness of
  `Answer`, `RedisAnswers`: Redis answers calls and the event loop runs the
  continuation. Nothing is assumed of clients, nor of the restart.
* `AccountManager.AccountFairSpec`: weak fairness, per connection, of the end
  of a verification and of the removal. Each is a promise that settles.
* `SchemaUpdate.FairSpec`: weak fairness of `Run`: docker starts the container
  again and MariaDB answers. Stops and failures are bounded and not fair.
* `Sessions.Spec`: weak fairness of each request's polls and answers, and of
  the restart: timers run out, MariaDB and Redis answer, docker starts the
  container. Nothing says that a poll finds a connection: one that
  looks again and again gives up, and that rejection ends the process.
* `UserManager.FairSpec`: strong fairness, per call, of its next step, of the
  answer or timer it waits for, and of the end of the list it waits for. An
  answer is handled some time after it has come, but never between two steps of
  settled promises (`SettledFirst`): what enables it is taken away whenever
  another call runs, and given back, which is why weak fairness would not do.
  The event loop handles what is due in the order it came, so that no other
  call keeps an answer back for ever. What answers say is not assumed.
* All other modules are checked without fairness: they state no liveness.

## 4. Runs

`Sessions`, `Connections`, `Emitter`, `UserManager` and `LoginPages` also check
that no state is a deadlock. The others set `CHECK_DEADLOCK FALSE`: connections
never come back under the same name and ids are used up, so that a bounded
instance comes to rest; whether the system stops where it should go on is
asked by the liveness properties.

| Configuration (module) | Shows | Bounds and why they are enough |
|---|---|---|
| `RoomManager` | types, `ListFollowsMembers`, `MembersAgreeOnDM`, `EmptyRoomIsOnItsWayOut`, `LostDMIsReplaced`; `EmptyRoomIsDestroyed`, `DMRecovers`, `ClosedIsForgotten` | 3 sockets, 2 rooms, LEAVE when no call waits (disconnections queue up nevertheless): a member, one who leaves and one who joins in between, and a disconnect loop stopped at one room while the other changes |
| `AccountManager` (MC) | `OneConnectionPerAccount`, `OpenConnectionKeepsItsAccount`; `RemovalIsFinal` | 3 connections on 2 hosts, 2 accounts, 2 logins verified at a time: two logins race, and a third connection holds the account |
| `SocketServer` (MC) | types, `MatesAreNoticed`, `NobodyPlaysTwice`; `ImplementsAccounts` | 3 sockets, 1 room, 1 account, 1 login at a time: a login that sends a member of a room away |
| `UidTable` (MC) | `FreshUntilReused`, `ExtensionsComeAfter` | 2 characters, ids of 1 to 3, 3 keys: every chain of collisions up to two extensions |
| `SchemaUpdate` | `ServesOnTheLatestTables`, `RowsTellTheTables`; `StopsThatAreRecovered` | 3 stops or failures; the versions are the code's own |
| `AuthMethods` (MC) | `PasswordMatchesPermission`, `OneAtATimeKeepsAMethod` | 3 requests, 3 passkeys, 2 passwords |
| `VariableTables` (MC) | `StatementsAreAllowed`, `RowsReferToRows`; `ChangesAreAllowed` | 2 requests, 2 tables, 1 entry, 1 token, 1 user, key and value, one row of permission by hand: every pair of requests interleaves between any two queries, and an entry may be one of another table than the one checked |
| `Sessions` (MC) | `NoAccountTwice`; `OnlyPasskeyLoginsKeepConnections`, `OthersStayAsTheyAre` | 2 requests, one user under 2 spellings, 2 connections, one failed poll: each request may store over the other's, and a login by passkey finds a user under another name |
| `Connections` (MC of `Sessions`) | `RequestsEnd` | the same with one name: passkey logins drain the pool, requests poll in vain, and the process ends and starts again |
| `Emitter` (MC) | `ListIsAsExpected`, `CalledAtMostItsTimes`; `OnlyEmitsForgetListeners` | 2 events, 2 functions, 3 entries for one or for all emits, an emit within an emit: of the other event or of the same one |
| `UserManager` (MC) | types, `LostIsNoticed`; `CallsEnd`, `OnlyLoggedInBecomeCurrent` | 2 calls besides the list, 2 users, one retry: two refreshes and a list, or a switch, a refresh and a list |
| `LoginPages` (MC) | `OneToken`; `LoginGoesToItsUser`, `PasskeyGoesToItsUser` | 2 calls, 2 accounts, a list of 2, one copy of the session at a time that is older than what is stored: two logins under way, a session stored over another, an index that moves, two clicks |

Type invariants are checked where the run names them; those of the other
modules are implied by the invariants proved in section 5, or hold in the same
instances when added to the configuration.

Thirteen more configurations each check one property that a comment, a log line,
the changelog or a natural reading of the code suggests and that does not hold.
TLC finds a counterexample:

| Configuration (module) | What happens |
|---|---|
| `OnlyEmptyRoomsAreDestroyed` (`RoomManager`) | destroy logs "since no socket is in it", but a socket that joined after the count was taken is in the room that is destroyed |
| `LeaveIsAlwaysAnswered` (`RoomManager`) | `selectDecisionMaker` reads the record of a room destroyed meanwhile, throws, and ends the process instead of answering "Room not exist." |
| `BindingOfClosedGoes` (`MCAccountManager`) | a login verified after its connection closed and was removed binds it again; nothing removes that entry, unless the account logs in again |
| `NoticeStaysInArea` (`MCSocketServer`) | a disconnection is told to sockets in rooms of other areas, where the changelog says the same area |
| `RollbackRestoresTables` (`SchemaUpdate`) | after "Rollback" the executed statements are still in the database; a later start may then be refused at the same statement |
| `OneMethodLeft` (`MCAuthMethods`) | two overlapping requests (delete a passkey, disallow the password) each pass their check and together take the last way to log in |
| `OwnersHaveEveryRight` (`MCVariableTables`) | no route makes the row of `permissionEntry` that the default permission of a new table needs, so that its owner has no right on it by way of a token or a socket |
| `NoUserTwice` (`MCSessions`) | a session finds accounts by the name as it was typed and MariaDB without case: one user logs in twice under two spellings |
| `GuestIsNobody` (`MCAccountManager`) | a connection with an account logs in as a guest, is answered "Guest ..." and goes on acting for the account |
| `NoRequestIsForgotten` (`MCSessions`) | `getConn` ends its polls and then swallows the rejection of the pool (`Database.ts:125`): its promise never settles |
| `RejectionPasses` (`MCUserManager`) | a list that meets a cache without data is rejected, and `_initPromise` stays so for good (`UserManager.ts:35`): every later method throws |
| `LoginsAreKept` (`MCLoginPages`) | a request that began before a login stores its copy of the session over it: the page is told of a success the session has lost |
| `ButtonsKeepTheirAccounts` (`MCLoginPages`) | the session is stored over, or an account removed, after the buttons were made: a button hands over the token of another account than it names |

These runs bear on how the passing properties are worded: `MembersAgreeOnDM`
speaks of rooms with a record, since members of a destroyed room are on their
own, and `RemovalIsFinal` excepts a login under verification;
`NoAccountTwice` speaks of names, not of users, `OpenConnectionKeepsItsAccount`
of logins by token, `RequestsEnd` of requests that are not forgotten, and
`LoginGoesToItsUser` of the moment the server stores the session.

Some passing properties except the very case that can go wrong, and are then
about all others: `ListIsAsExpected` and `CalledAtMostItsTimes` except events that
listeners use while they are emitted (of those, `OnlyEmitsForgetListeners` says
what can be lost; a removed listener may come back, and one that emits its own
event be called too often), `OneAtATimeKeepsAMethod` requests that overlap
(`OneMethodLeft` shows what these can do), and `OthersStayAsTheyAre` requests
whose session was stored meanwhile.

## 5. Proofs

All theorems hold for every value of the constants that satisfies the named
assumptions: `Nobody` is no socket, `NoUser` no account, `Null` none of the
ids, rights, calls, account names, records or lists it is told from; `HostOf`,
`AreaOf` and `UserOf` are functions; the bounds are numbers. The bounds
(`MaxPending`, `MaxLogins`, `MaxFailed`, `MaxRetries`, `MaxUsers`, `MaxCopies`,
`MaxTimes`, `MaxDepth`, `MaxStops`) are arbitrary, so that the theorems do not depend on
them.

* **SocketServerProofs, the rooms.** The four safety properties are proved together:
  whether an empty room is on its way out depends on what its list holds, and
  that on who is in it. The inductive invariant `IInv` adds to them the types,
  `NoRecordNoList` (the list of any room has no duplicates, and is empty when
  the room has no record) and `OnlyClosedAreCleanedUp` (only closed connections
  have a notice or a loop under way, and only open ones are members). Without
  these, a `Splice` by a late answer might take out a socket that is in the
  room. Theorems: `RoomsTypeOK`, `ListAlwaysFollowsMembers`,
  `MembersAlwaysAgreeOnDM`, `EmptyRoomsAreOnTheirWayOut`,
  `LostDMIsAlwaysReplaced`. Lemmas on `Splice`, `Append` and `Tail` say what the
  lists hold afterwards.
* **AccountManagerProofs.** `OneConnectionPerAccount` and
  `OpenConnectionKeepsItsAccount`, strengthened by: a connection that is new
  has no login under verification, no account and no answer. A login as a guest
  changes nothing either speaks of.
  `RemovedStayUnbound` is the safety half of `RemovalIsFinal`: no step takes a
  connection out of `Gone`, the state the removal leaves it in
  (`RemovalLeavesGone`) when no login of it is under verification.
* **SocketServerProofs, the server.** Every step of the composed server is a
  step of `AccountManager` or leaves its variables alone
  (`ServerImplementsAccounts`); that it is one of `RoomManager` or leaves its
  alone is a lemma (`ServerImplementsRooms`), as the actions are built so. The
  theorem needs that a closed connection has one notice in the queue at most
  (`NoticesOnce`, with the lemmas on queues): only then does the answer to a
  notice take the connection out of `leaving`. With the refinements the
  invariants of the parts hold in the server (`ServerKeepsRooms`,
  `ServerKeepsAccounts`; the theorems of `AccountManagerProofs` are taken over
  by an instance of it). `NobodyEverPlaysTwice` puts the two parts together: only
  open connections are in rooms, an open one is bound to what it was answered,
  and an account to one connection of a host. `MatesAreAlwaysNoticed` adds that those who were in a
  room with a connection when it closed stay in it, close, or are told
  (`MatesStay`). All of these are in the inductive invariant `ServerInv`.
* **ListsProofs, the ids of the rooms.** One pass over the keys is enough, for
  any number of keys. The invariant: while no id of a deleted key was given again, a key comes after
  all keys it is an extension of (`InOrder`), and whatever a key extends is a key
  or was deleted (`PrefixesKnown`). A pass is a path of ids, one for each place;
  it only grows (`PathAgrees`), where it meets itself (`PathGrowsAtKeys`), and
  all it goes through are keys (`PathGoesThroughKeys`). If the id it ends with
  were a key, it was shorter at that place, so it has met itself further on -
  out of order (`NewIsFresh`). That a path exists and what holds along it is an
  induction over the places, done by the first place of a set, which exists
  since the order of the numbers is well-founded (`Places`).
* **ListsProofs, the emitter.** Two invariants in one (`EmitterInv`). Of every
  emit, whatever listeners do (`EmitsOK`): all it has visited it has kept or is
  used up, and all emits but the innermost are in a call. That suffices for
  `ListenersAreForgottenByEmits`. And of every event that is not disturbed
  (`EventOK`): its list, the lists of its emits and what they have kept name
  no entry twice, two emits of it have no entry in common and one of them at
  most is to replace the list (`ListsApart`); what that one has kept, followed by
  what it has not visited, is the list that is expected (`Remains` in
  `ListsAgree`), so that at its end the list becomes just that; and of each
  entry that is still in a list the calls so far and the times left are no more
  than the times given, a running call counted on one side only (`Counted`).
  Each action has two lemmas, one for each part. What is removed is the work of
  `Without`, a recursive function: `WithoutIs`, `WithoutNone` and `WithoutOne` say
  what it leaves, by an induction over places as above. Theorems:
  `EmitterInvariant`, `EmitterIsTyped`, `ListsAreAsExpected`, `CallsAreCounted`,
  `ListenersAreForgottenByEmits`.
* **DatabaseProofs, the methods of a user.** `ColumnsAgree` needs only the types of the columns;
  `ChecksSufficeOneAtATime` needs, for as long as requests did not overlap,
  that one is under way at most and that what it found when it checked is still
  so when it writes.
* **DatabaseProofs, the tables.** A start without a stop makes the tables
  `Made[0]`, `Made[1]`, ... `Made[29]`, one statement after the other. The invariant
  `SchemaInv`: however often starts were cut short, the tables are `Made[m]` for
  some m that fits the row, and a start that is behind m does not go wrong. It is
  behind in the second version, whose statements create what is missing and leave
  the rest as it is (`FirstTablesAgain`), or at the first two statements of the last
  version, which can be repeated; the third is then refused, since its column is
  there and no later statement drops it (`AlterationsAgain`, from
  `AlterationsAreHarmless`). So when a version is recorded its tables are complete
  (`RecordIs`). Theorems: `TablesInvariant`, `ServedTablesAreTheLatest`,
  `RowsAlwaysTellTheTables`. A statement that a later change of the schema adds
  must be of one of these kinds for the argument to hold.
* **VariableTablesProofs.** Ids are handed out once (`fresh`): whatever a
  request has checked of an id therefore stays true or is gone, and never
  becomes true of something else. The invariant says, for each place a
  request waits at, what its queries have established (the entry is one of the
  table, the sender owns it or held the right) and that rows refer to rows.
  Theorems: `OnlyAllowedStatementsRun`, `KeysHold`, `OnlyAllowedChanges`.
* **SessionsProofs.** Three invariants. `SessionsInv`, for `NamesAreListedOnce`: a
  list of accounts is one whether it is stored or a request's copy. What makes
  the push of a new account safe is that whoever is listed has a row, and that
  a name whose row a request has just created had none, so that no copy lists
  it. `PoolInv`, for `OnlyPasskeyLoginsLoseConnections`: the requests that hold
  a connection are finitely many, and with the idle ones they are no more than
  the pool has; each step takes a connection, gives one back, keeps one for
  good or does none of these. `FreshInv`, for `OthersAreLeftAlone`: a request
  whose session was not stored since it began has the accounts that are
  stored, so that what it stores differs by its own change alone; the lemmas
  `PushAlike`, `LoginAlike`, `LogoutAlike` and `WithoutAlike` say what each
  change leaves as it was, entry by entry and in order.
* **UserManagerProofs.** The order of what a call has still to do (`Follows`,
  `Ends`): what needs the user of a refresh comes right after it, what needs
  none comes after a wait. With it a refreshed cache that is listed has data
  when the call takes it, and a lost one has begun a list. Theorems:
  `UsersTypeCorrect`, `LostUsersAreNoticed`, `CurrentIsLoggedIn`. The first logged-in user of a list exists by
  well-foundedness of the numbers.
* **LoginPagesProofs.** What does not depend on whose copy of the session is
  stored last: the options of a login and the challenge of a passkey are
  forgotten with the call they were made for, in the session and in every copy,
  so that wherever one is left it is next to the account its call is about
  (`CopyOK`, `CopiesOK`), and a server that accepts an answer accepts it for that
  account. Each step ends calls (`CopyForgets`), continues them about the same
  accounts (`CopyGoesOn`, `Keeps`), or stores a copy as it was or with a change
  that keeps this. The other invariants: the pages for logging in know the name
  a call is about (`Meant`), and the flag of the buttons is set exactly from the
  click to the token (`TokensOK`). Theorems: `PagesInvariant`, `TypesAreKept`,
  `TokenOnce`, `LoginGoesToTheUser`, `PasskeyGoesToTheUser`.

Only model-checked: the liveness properties `EmptyRoomIsDestroyed`, `DMRecovers`,
`ClosedIsForgotten`, `RemovalIsFinal` (that the removal comes),
`StopsThatAreRecovered`, `RequestsEnd` and `CallsEnd`. Their proofs need ENABLED, which the
provers do not handle.

## 6. Not modelled

* **Messages between sockets** (`MessageManager`): forwards an event and
  answers, and keeps no state.
* **Logger and its pool**: output; loggers are never given back.
* **Login tokens' ids in Redis** (`userToken.ts:50`, `:51`): the next id is read
  and written back around an await, and neither write is waited for. The keys
  are read by the verification of a LOGIN alone, which is modelled by its outcome.
* **The deletion of stored sessions** by the schema updater, **nicknames**, and
  the **age** of frontend caches.
* **The other pages** (settings, navigation bar, layout, texts): they show what
  `UserManager` holds and call its methods.
* **Several server processes**: the deployment starts one.

## 7. Plan

1. Login tokens: rows of Redis with the next id, deletion and verification.
2. Theorems: type correctness of the remaining modules.
3. The composition of `LoginPages` with `UserManager`, so that the current user
   is its, not anybody.
