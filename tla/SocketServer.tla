----------------------------- MODULE SocketServer -----------------------------
(***************************************************************************)
(* The socket server as a whole: rooms (RoomManager), accounts             *)
(* (AccountManager) and the disconnect handler that serves both            *)
(* (DisconnectManager.ts, SystemEventManager.ts), joined by the Emitter,   *)
(* which calls its listeners at once.                                      *)
(*                                                                         *)
(* The components meet in three places: a login that takes an account over *)
(* closes the connection that had it, in the middle of the step; the       *)
(* onDisconnect of a connection tells the sockets in rooms, starts the     *)
(* loop over the rooms and removes the account in one step; and when the   *)
(* process ends all tables are lost together.  answered, guests, noticed   *)
(* and together are history variables.                                     *)
(***************************************************************************)
EXTENDS RoomManager, FiniteSets

CONSTANTS User, Host, HostOf, NoUser, MaxLogins,
  Area,
  AreaOf       \* the area a room was created in: the prefix of its id

ASSUME AccountsAssumption ==   \* of AccountManager
  NoUser \notin User /\ HostOf \in [Socket -> Host] /\ MaxLogins \in Nat
ASSUME AreaOfAssumption == AreaOf \in [RoomId -> Area]

VARIABLES
  bound,       \* AccountManager.map
  verifying,   \* LOGIN events at `await verifyJWT`
  answered,    \* the userId of the last login by token that was answered
  guests,      \* connections last answered as a guest
  noticed,     \* <<x, s>>: x was told that s disconnected
  together     \* <<x, s, r>>: x was in r when s, in r too, disconnected,
               \* and is still there, as is the record of r

serverVars == <<vars, bound, verifying, answered, guests, noticed, together>>

NoticeAhead(s) ==
  \E call \in Listed(pending) : call.kind = "notice" /\ call.sock = s

Accounts == INSTANCE AccountManager
              WITH leaving <- {s \in Socket : NoticeAhead(s)}

ServerTypeOK ==
  /\ TypeOK
  /\ Accounts!TypeOK
  /\ noticed \in SUBSET (Socket \X Socket)
  /\ together \in SUBSET (Socket \X Socket \X RoomId)

ServerInit ==
  /\ Init
  /\ bound = [s \in Socket |-> NoUser]
  /\ verifying = {}
  /\ answered = [s \in Socket |-> NoUser]
  /\ guests = {}
  /\ noticed = {}
  /\ together = {}

-----------------------------------------------------------------------------

accounts == <<bound, verifying, answered, guests>>
history == <<noticed, together>>

\* history of a connection that closes
Parting(s) ==
  LET left == {r \in rooms : s \in members[r]}
  IN  /\ together' = {p \in together : p[1] # s} \cup
           {p \in Socket \X {s} \X left : p[1] # s /\ p[1] \in members[p[3]]}
      /\ UNCHANGED noticed

Client(s) ==
  /\ \/ Connect(s)
     \/ \E r \in RoomId : CreateRoom(s, r) \/ JoinRoom(s, r)
  /\ UNCHANGED <<accounts, history>>

ClientLeaves(s, r) ==
  /\ LeaveRoom(s, r)
  /\ together' = {p \in together : ~(p[1] = s /\ p[3] = r)}
  /\ UNCHANGED <<accounts, noticed>>

Close(s) ==
  /\ Disconnect(s)
  /\ Parting(s)
  /\ UNCHANGED accounts

-----------------------------------------------------------------------------
(* LOGIN                                                                   *)

\* _sock.disconnect(true): socket.io calls the disconnect handler at once
SentAwayMutant(old) ==
  /\ conn' = [conn EXCEPT ![old] = "down"]
  /\ pending' = Append(pending, [kind |-> "notice", sock |-> old,
                                 present |-> Up \ {old}])
  /\ UNCHANGED <<members, fresh, rooms, dmList, dmCurrent, todo, told,
                 running, history>>
SentAway(old) == Disconnect(old) /\ Parting(old)

LoginAsGuest(s) ==
  /\ running
  /\ conn[s] = "up"
  /\ guests' = guests \cup {s}
  /\ UNCHANGED <<vars, bound, verifying, answered, history>>

Login(s, u) ==
  /\ running
  /\ conn[s] = "up"
  /\ Cardinality(verifying) < MaxLogins
  /\ verifying' = verifying \cup {<<s, u>>}
  /\ UNCHANGED <<vars, bound, answered, guests, history>>

LoginVerified(s, u) ==
  /\ running
  /\ u \in User
  /\ <<s, u>> \in verifying
  /\ verifying' = verifying \ {<<s, u>>}
  /\ answered' = [answered EXCEPT ![s] = u]
  /\ guests' = guests \ {s}
  /\ \/ /\ Accounts!Holders(s, u) = {}
        /\ bound' = [bound EXCEPT ![s] = u]
        /\ UNCHANGED <<vars, history>>
     \/ \E old \in Accounts!Holders(s, u) :
          /\ bound' = [bound EXCEPT ![old] = NoUser, ![s] = u]
          /\ \/ conn[old] = "up" /\ SentAway(old)
             \/ conn[old] # "up" /\ UNCHANGED <<vars, history>>

LoginRefused(s) ==
  /\ running
  /\ <<s, NoUser>> \in verifying
  /\ verifying' = verifying \ {<<s, NoUser>>}
  /\ UNCHANGED <<vars, bound, answered, guests, history>>

-----------------------------------------------------------------------------
(* Answers of Redis.                                                       *)

\* the sockets, of those there were, that are in some recorded room by now
NoticeGoesToMutant(s) ==
  {x \in Head(pending).present :
     \E r \in rooms : x \in members[r] /\ dmCurrent[r] = s}
NoticeGoesTo(s) ==
  {x \in Head(pending).present : \E r \in rooms : x \in members[r]}

\* accountManager.remove(socket)
BindingEmptiedMutant(s) == [bound EXCEPT ![s] = {}]
BindingKeptMutant(s) == bound
BindingRemoved(s) == [bound EXCEPT ![s] = NoUser]

OnDisconnect(s) ==
  /\ ResumeDisconnect(s)
  /\ noticed' = noticed \cup {<<x, s>> : x \in NoticeGoesTo(s)}
  /\ bound' = BindingRemoved(s)
  /\ UNCHANGED <<verifying, answered, guests, together>>

OnLeaveAnswered(r) ==
  \/ /\ DestroyRoom(r)
     /\ together' = {p \in together : p[3] # r}
     /\ UNCHANGED <<accounts, noticed>>
  \/ /\ SelectDecisionMaker(r)
     /\ UNCHANGED <<accounts, history>>
  \/ /\ SelectInMissingRoom(r)
     /\ bound' = [s \in Socket |-> NoUser]
     /\ verifying' = {}
     /\ together' = {}
     /\ UNCHANGED <<answered, guests, noticed>>

RestartServer == Restart /\ UNCHANGED <<accounts, history>>

RedisAnswers ==
  \/ \E s \in Socket : OnDisconnect(s)
  \/ \E r \in RoomId : OnLeaveAnswered(r)

ServerNext ==
  \/ \E s \in Socket : Client(s) \/ Close(s)
  \/ \E s \in Socket, r \in RoomId : ClientLeaves(s, r)
  \/ \E s \in Socket, u \in User \cup {NoUser} : Login(s, u)
  \/ \E s \in Socket, u \in User : LoginVerified(s, u)
  \/ \E s \in Socket : LoginAsGuest(s) \/ LoginRefused(s)
  \/ RedisAnswers
  \/ RestartServer

ServerSpec == ServerInit /\ [][ServerNext]_serverVars

\* Redis answers every call.
ServerFairSpec == ServerSpec /\ WF_serverVars(RedisAnswers)

-----------------------------------------------------------------------------

\* What the server does to the accounts are steps of AccountManager, a login
\* that closes another connection in the middle of itself included; the
\* disconnections that wait for Redis are the ones still to be removed.
ImplementsAccounts == Accounts!AccountSpec

\* Who was in a room with a connection when it closed, and stays in that
\* room while the room exists, has been told of it when onDisconnect has
\* run, whatever the order in which Redis answered.
MatesAreNoticed ==
  \A p \in together : NoticeAhead(p[2]) \/ <<p[1], p[2]>> \in noticed

\* Nobody plays twice: no two connections in a room, of one host, have been
\* told that they are the same account.  Whoever is replaced is out of its
\* rooms and told so before the new connection is answered, however late
\* either login was verified.
NobodyPlaysTwice ==
  \A r \in rooms : \A s, t \in members[r] :
    /\ answered[s] # NoUser
    /\ answered[s] = answered[t]
    /\ HostOf[s] = HostOf[t]
    => s = t

\* The changelog has the server "notify other users of the same area" of a
\* user who goes offline: whoever is told is in a room of an area of which a
\* room still lists the connection that closed.
NoticeStaysInArea ==
  [][\A p \in noticed' \ noticed :
       \E r, q \in rooms :
         /\ p[1] \in members[r]
         /\ p[2] \in Listed(dmList[q])
         /\ AreaOf[r] = AreaOf[q]]_serverVars
=============================================================================
