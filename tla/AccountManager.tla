---------------------------- MODULE AccountManager ----------------------------
(***************************************************************************)
(* Which account a connection is logged in as: AccountManager.ts, the      *)
(* LOGIN event of SystemEventManager.ts, and verifyJWT (jwtHelper.ts).     *)
(*                                                                         *)
(* A LOGIN waits for the verification of its token and for Redis before it *)
(* binds the connection; the connection may close, and other logins of the *)
(* same or another connection may finish, in between.  An account is bound *)
(* to one connection of a host at a time: a login sends the connection     *)
(* that holds it away.  A login as "guest" is answered at once and leaves  *)
(* the map alone: who was bound to an account stays so.                    *)
(***************************************************************************)
EXTENDS FiniteSets, Naturals

CONSTANTS
  Socket,
  User,        \* account ids, 0 for a token Redis has no account for included
  Host,
  HostOf,      \* the Host header of each connection's request
  NoUser,      \* no entry in the map, and the payload of an invalid token
  MaxLogins    \* bound: LOGIN events under verification at a time

ASSUME NoUserAssumption == NoUser \notin User
ASSUME HostOfAssumption == HostOf \in [Socket -> Host]
ASSUME MaxLoginsAssumption == MaxLogins \in Nat

VARIABLES
  conn,        \* [Socket -> {"new", "up", "down"}]
  bound,       \* AccountManager.map: the userId of each connection
  verifying,   \* LOGIN events at `await verifyJWT`, with what it will find
  leaving,     \* closed connections whose onDisconnect has not resumed
  answered,    \* history: the userId of the last login by token that a
               \* connection was answered
  guests       \* history: connections last answered as a guest

accountVars == <<conn, bound, verifying, leaving, answered, guests>>

TypeOK ==
  /\ conn \in [Socket -> {"new", "up", "down"}]
  /\ bound \in [Socket -> User \cup {NoUser}]
  /\ verifying \in SUBSET (Socket \X (User \cup {NoUser}))
  /\ leaving \in SUBSET Socket
  /\ answered \in [Socket -> User \cup {NoUser}]
  /\ guests \in SUBSET Socket

Init ==
  /\ conn = [s \in Socket |-> "new"]
  /\ bound = [s \in Socket |-> NoUser]
  /\ verifying = {}
  /\ leaving = {}
  /\ answered = [s \in Socket |-> NoUser]
  /\ guests = {}

-----------------------------------------------------------------------------
(* preCheck: the connections that hold the account on the same host, of    *)
(* which the first is sent away.                                           *)

HoldersMutant(s, u) == {old \in Socket : bound[old] = u /\ conn[old] = "up"}
Holders(s, u) == {old \in Socket : bound[old] = u /\ HostOf[old] = HostOf[s]}

\* _sock.disconnect(true)
SentAwayMutant(old) == conn
SentAway(old) == [conn EXCEPT ![old] = "down"]

\* map.delete(socket), in remove
RemovedMutant(s) == [bound EXCEPT ![s] = {}]
Removed(s) == [bound EXCEPT ![s] = NoUser]

-----------------------------------------------------------------------------

Connect(s) ==
  /\ conn[s] = "new"
  /\ conn' = [conn EXCEPT ![s] = "up"]
  /\ UNCHANGED <<bound, verifying, leaving, answered, guests>>

\* login with the token "guest": only an answer, "Guest ..."
LoginAsGuest(s) ==
  /\ conn[s] = "up"
  /\ guests' = guests \cup {s}
  /\ UNCHANGED <<conn, bound, verifying, leaving, answered>>

\* login with any other one, up to `await verifyJWT(token)`
Login(s, u) ==
  /\ conn[s] = "up"
  /\ Cardinality(verifying) < MaxLogins
  /\ verifying' = verifying \cup {<<s, u>>}
  /\ UNCHANGED <<conn, bound, leaving, answered, guests>>

\* login goes on, the token being valid: setValue(socket, "userId", u).
\* Nothing looks whether the connection is still there.
LoginVerified(s, u) ==
  /\ u \in User
  /\ <<s, u>> \in verifying
  /\ verifying' = verifying \ {<<s, u>>}
  /\ answered' = [answered EXCEPT ![s] = u]
  /\ guests' = guests \ {s}
  /\ \/ /\ Holders(s, u) = {}
        /\ bound' = [bound EXCEPT ![s] = u]
        /\ UNCHANGED <<conn, leaving>>
     \/ \E old \in Holders(s, u) :
          /\ bound' = [bound EXCEPT ![old] = NoUser, ![s] = u]
          /\ conn' = SentAway(old)
          /\ leaving' = IF conn[old] = "up" THEN leaving \cup {old} ELSE leaving

\* login goes on, the token being invalid: only an answer
LoginRefused(s) ==
  /\ <<s, NoUser>> \in verifying
  /\ verifying' = verifying \ {<<s, NoUser>>}
  /\ UNCHANGED <<conn, bound, leaving, answered, guests>>

Disconnect(s) ==
  /\ conn[s] = "up"
  /\ conn' = [conn EXCEPT ![s] = "down"]
  /\ leaving' = leaving \cup {s}
  /\ UNCHANGED <<bound, verifying, answered, guests>>

\* onDisconnect goes on: accountManager.remove(socket)
Remove(s) ==
  /\ s \in leaving
  /\ leaving' = leaving \ {s}
  /\ bound' = Removed(s)
  /\ UNCHANGED <<conn, verifying, answered, guests>>

\* The process ends, and with it the map and the events under way.
ProcessEnds ==
  /\ conn' = [s \in Socket |-> IF conn[s] = "up" THEN "down" ELSE conn[s]]
  /\ bound' = [s \in Socket |-> NoUser]
  /\ verifying' = {}
  /\ leaving' = {}
  /\ UNCHANGED <<answered, guests>>

AccountNext ==
  \/ \E s \in Socket :
       Connect(s) \/ LoginAsGuest(s) \/ LoginRefused(s) \/ Disconnect(s)
         \/ Remove(s)
  \/ \E s \in Socket, u \in User \cup {NoUser} : Login(s, u)
  \/ \E s \in Socket, u \in User : LoginVerified(s, u)
  \/ ProcessEnds

AccountSpec == Init /\ [][AccountNext]_accountVars

\* Verifications end and Redis answers.
AccountFairSpec ==
  /\ AccountSpec
  /\ \A s \in Socket :
       /\ WF_accountVars(Remove(s))
       /\ WF_accountVars(LoginRefused(s))
       /\ \A u \in User : WF_accountVars(LoginVerified(s, u))

-----------------------------------------------------------------------------

\* No account is bound to two connections of one host, closed ones
\* included: preCheck, which looks at one holder only, has never more than
\* one to look at.
OneConnectionPerAccount ==
  \A s, t \in Socket :
    /\ bound[s] # NoUser
    /\ bound[s] = bound[t]
    /\ HostOf[s] = HostOf[t]
    => s = t

\* An open connection is bound to the account of the last login by token that
\* it was answered, also when it has been a guest's since: a login that takes
\* an account away closes the connection that had it, and a late login never
\* unbinds another one.
OpenConnectionKeepsItsAccount ==
  \A s \in Socket : conn[s] = "up" => bound[s] = answered[s]

\* The removal that follows a disconnection ends the binding for good,
\* unless a login of the connection is still under verification.
RemovalIsFinal ==
  \A s \in Socket :
    (s \in leaving /\ \A u \in User : <<s, u>> \notin verifying)
      ~> [](bound[s] = NoUser)

-----------------------------------------------------------------------------
\* The changelog has the disconnect handler "clear the binding of socket
\* and account": the binding of a closed connection goes away.
BindingOfClosedGoes ==
  \A s \in Socket : conn[s] = "down" ~> bound[s] = NoUser

\* A guest acts for no account: a connection that was answered "Guest ..." is
\* bound to none.
GuestIsNobody ==
  \A s \in guests : conn[s] = "up" => bound[s] = NoUser
=============================================================================
