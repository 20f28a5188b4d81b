------------------------- MODULE AccountManagerProofs -------------------------
(* Proofs about AccountManager, for every set of connections, accounts and *)
(* hosts.                                                                  *)
EXTENDS AccountManager, TLAPS

(* The inductive invariant.  OpenConnectionKeepsItsAccount has to hold of  *)
(* connections to come as well: no login has been made for them.  Only     *)
(* closed ones may be removed.                                             *)

NotClosedKeepsItsAccount ==
  \A s \in Socket : conn[s] # "down" => bound[s] = answered[s]

LeavingAreClosed == \A s \in leaving : conn[s] = "down"

NewHaveNoLogin ==
  \A s \in Socket : conn[s] = "new" =>
    /\ answered[s] = NoUser
    /\ \A u \in User \cup {NoUser} : <<s, u>> \notin verifying

AccountInv ==
  /\ TypeOK
  /\ OneConnectionPerAccount
  /\ NotClosedKeepsItsAccount
  /\ LeavingAreClosed
  /\ NewHaveNoLogin

\* The empty map satisfies the invariant.
LEMMA InitAccountInv == Init => AccountInv
BY DEF Init, AccountInv, TypeOK, OneConnectionPerAccount,
       NotClosedKeepsItsAccount, LeavingAreClosed, NewHaveNoLogin

\* A login that finds no holder adds the only binding of the account.
LEMMA VerifiedWithoutHolder ==
  ASSUME AccountInv, NEW s \in Socket, NEW u \in User,
         answered' = [answered EXCEPT ![s] = u],
         Holders(s, u) = {},
         bound' = [bound EXCEPT ![s] = u],
         conn' = conn
  PROVE  OneConnectionPerAccount' /\ NotClosedKeepsItsAccount'
<1>1. \A x \in Socket : bound'[x] = IF x = s THEN u ELSE bound[x]
  BY DEF AccountInv, TypeOK
<1>2. \A x \in Socket : HostOf[x] = HostOf[s] => bound[x] # u
  BY DEF Holders
<1>3. OneConnectionPerAccount'
  BY <1>1, <1>2 DEF AccountInv, OneConnectionPerAccount
<1>4. NotClosedKeepsItsAccount'
  BY <1>1 DEF AccountInv, TypeOK, NotClosedKeepsItsAccount
<1>5. QED  BY <1>3, <1>4

\* A login that finds a holder takes the account from it, and there is no
\* second holder by the invariant.
LEMMA VerifiedWithHolder ==
  ASSUME AccountInv, NEW s \in Socket, NEW u \in User,
         answered' = [answered EXCEPT ![s] = u],
         NEW old \in Holders(s, u),
         bound' = [bound EXCEPT ![old] = NoUser, ![s] = u],
         conn' = [conn EXCEPT ![old] = "down"]
  PROVE  OneConnectionPerAccount' /\ NotClosedKeepsItsAccount'
<1>1. old \in Socket /\ bound[old] = u /\ HostOf[old] = HostOf[s]
  BY DEF Holders
<1>2. \A x \in Socket :
        bound'[x] = IF x = s THEN u ELSE IF x = old THEN NoUser ELSE bound[x]
  BY <1>1 DEF AccountInv, TypeOK
<1>3. u # NoUser
  BY NoUserAssumption
<1>4. \A x \in Socket :
        HostOf[x] = HostOf[s] /\ x # old => bound[x] # u
  BY <1>1, <1>3 DEF AccountInv, OneConnectionPerAccount
<1>5. OneConnectionPerAccount'
  BY <1>1, <1>2, <1>3, <1>4 DEF AccountInv, OneConnectionPerAccount
<1>6. NotClosedKeepsItsAccount'
  BY <1>1, <1>2 DEF AccountInv, TypeOK, NotClosedKeepsItsAccount
<1>7. QED  BY <1>5, <1>6

\* A login that completes preserves the invariant.
LEMMA LoginVerifiedInv ==
  ASSUME AccountInv, NEW s \in Socket, NEW u \in User, LoginVerified(s, u)
  PROVE  AccountInv'
<1>1. TypeOK'
  <2>1. /\ verifying' \in SUBSET (Socket \X (User \cup {NoUser}))
        /\ answered' \in [Socket -> User \cup {NoUser}]
        /\ guests' \in SUBSET Socket
    BY DEF LoginVerified, AccountInv, TypeOK
  <2>2. CASE Holders(s, u) = {} /\ bound' = [bound EXCEPT ![s] = u]
             /\ UNCHANGED <<conn, leaving>>
    BY <2>1, <2>2 DEF AccountInv, TypeOK
  <2>3. ASSUME NEW old \in Holders(s, u),
               bound' = [bound EXCEPT ![old] = NoUser, ![s] = u],
               conn' = SentAway(old),
               leaving' = IF conn[old] = "up" THEN leaving \cup {old}
                                              ELSE leaving
        PROVE  TypeOK'
    BY <2>1, <2>3 DEF AccountInv, TypeOK, Holders, SentAway
  <2>4. QED  BY <2>2, <2>3 DEF LoginVerified
<1>2. OneConnectionPerAccount' /\ NotClosedKeepsItsAccount'
  BY VerifiedWithoutHolder, VerifiedWithHolder DEF LoginVerified, SentAway
<1>3. LeavingAreClosed'
  <2>1. CASE UNCHANGED <<conn, leaving>>
    BY <2>1 DEF AccountInv, LeavingAreClosed
  <2>2. ASSUME NEW old \in Holders(s, u),
               conn' = SentAway(old),
               leaving' = IF conn[old] = "up" THEN leaving \cup {old}
                                              ELSE leaving
        PROVE  LeavingAreClosed'
    BY <2>2 DEF AccountInv, TypeOK, LeavingAreClosed, Holders, SentAway
  <2>3. QED  BY <2>1, <2>2 DEF LoginVerified
<1>4. NewHaveNoLogin'
  <2>1. conn[s] # "new"
    BY DEF LoginVerified, AccountInv, NewHaveNoLogin
  <2>2. \A x \in Socket : conn'[x] = "new" => conn[x] = "new"
    BY DEF LoginVerified, SentAway, Holders, AccountInv, TypeOK
  <2>3. /\ verifying' \subseteq verifying
        /\ \A x \in Socket : x # s => answered'[x] = answered[x]
    BY DEF LoginVerified, AccountInv, TypeOK
  <2>4. QED  BY <2>1, <2>2, <2>3 DEF AccountInv, NewHaveNoLogin
<1>5. QED  BY <1>1, <1>2, <1>3, <1>4 DEF AccountInv

\* The removal of a closed connection unbinds that connection only.
LEMMA RemoveInv ==
  ASSUME AccountInv, NEW s \in Socket, Remove(s)
  PROVE  AccountInv'
<1>1. TypeOK' /\ LeavingAreClosed'
  BY DEF Remove, Removed, AccountInv, TypeOK, LeavingAreClosed
<1>7. NewHaveNoLogin'
  BY DEF Remove, AccountInv, NewHaveNoLogin
<1>2. conn[s] = "down"
  BY DEF Remove, AccountInv, LeavingAreClosed
<1>3. \A x \in Socket : bound'[x] = IF x = s THEN NoUser ELSE bound[x]
  BY DEF Remove, Removed, AccountInv, TypeOK
<1>4. OneConnectionPerAccount'
  BY <1>3 DEF AccountInv, OneConnectionPerAccount
<1>5. NotClosedKeepsItsAccount'
  BY <1>2, <1>3 DEF Remove, AccountInv, NotClosedKeepsItsAccount
<1>6. QED  BY <1>1, <1>4, <1>5, <1>7 DEF AccountInv

\* The end of the process leaves no binding, and no login under way.
LEMMA ProcessEndsInv ==
  ASSUME AccountInv, ProcessEnds
  PROVE  AccountInv'
<1>1. \A x \in Socket :
        /\ bound'[x] = NoUser
        /\ conn'[x] = IF conn[x] = "up" THEN "down" ELSE conn[x]
  BY DEF ProcessEnds
<1>2. TypeOK'
  <2>1. conn' \in [Socket -> {"new", "up", "down"}]
    BY DEF ProcessEnds, AccountInv, TypeOK
  <2>2. bound' \in [Socket -> User \cup {NoUser}]
    BY DEF ProcessEnds
  <2>3. QED  BY <2>1, <2>2 DEF ProcessEnds, AccountInv, TypeOK
<1>3. OneConnectionPerAccount'
  BY <1>1 DEF OneConnectionPerAccount
<1>4. \A x \in Socket : conn'[x] # "down" => conn[x] = "new"
  BY <1>1 DEF AccountInv, TypeOK
<1>5. NotClosedKeepsItsAccount'
  BY <1>1, <1>4 DEF ProcessEnds, AccountInv, NotClosedKeepsItsAccount,
                    NewHaveNoLogin
<1>6. LeavingAreClosed' /\ NewHaveNoLogin'
  BY <1>4 DEF ProcessEnds, AccountInv, LeavingAreClosed, NewHaveNoLogin
<1>7. QED  BY <1>2, <1>3, <1>5, <1>6 DEF AccountInv

\* The steps that change no binding.
LEMMA OtherStepsInv ==
  ASSUME AccountInv, NEW s \in Socket, NEW u \in User \cup {NoUser},
         \/ Connect(s) \/ LoginAsGuest(s) \/ Login(s, u) \/ LoginRefused(s)
         \/ Disconnect(s)
  PROVE  AccountInv'
<1> USE DEF AccountInv, TypeOK, OneConnectionPerAccount,
            NotClosedKeepsItsAccount, LeavingAreClosed, NewHaveNoLogin
<1>1. CASE Connect(s)
  BY <1>1 DEF Connect
<1>2. CASE Login(s, u)
  BY <1>2 DEF Login
<1>3. CASE LoginRefused(s)
  BY <1>3 DEF LoginRefused
<1>4. CASE Disconnect(s)
  BY <1>4 DEF Disconnect
<1>5. CASE LoginAsGuest(s)
  BY <1>5 DEF LoginAsGuest
<1>6. QED  BY <1>1, <1>2, <1>3, <1>4, <1>5

\* Steps of others change nothing the invariant speaks of.
LEMMA AccountStutterInv ==
  ASSUME AccountInv, UNCHANGED accountVars
  PROVE  AccountInv'
BY DEF accountVars, AccountInv, TypeOK, OneConnectionPerAccount,
       NotClosedKeepsItsAccount, LeavingAreClosed, NewHaveNoLogin

\* The invariant holds in every state of the specification.
THEOREM AccountInvariant == AccountSpec => []AccountInv
<1>1. AccountInv /\ [AccountNext]_accountVars => AccountInv'
  <2> SUFFICES ASSUME AccountInv, [AccountNext]_accountVars
               PROVE  AccountInv'
    OBVIOUS
  <2>1. CASE \E s \in Socket :
               \/ Connect(s) \/ LoginAsGuest(s) \/ LoginRefused(s)
               \/ Disconnect(s) \/ Remove(s)
    BY <2>1, OtherStepsInv, RemoveInv
  <2>2. CASE \E s \in Socket, u \in User \cup {NoUser} : Login(s, u)
    BY <2>2, OtherStepsInv
  <2>3. CASE \E s \in Socket, u \in User : LoginVerified(s, u)
    BY <2>3, LoginVerifiedInv
  <2>4. CASE ProcessEnds
    BY <2>4, ProcessEndsInv
  <2>5. CASE UNCHANGED accountVars
    BY <2>5, AccountStutterInv
  <2>6. QED  BY <2>1, <2>2, <2>3, <2>4, <2>5 DEF AccountNext
<1>2. QED  BY InitAccountInv, <1>1, PTL DEF AccountSpec

\* However logins, their late verifications and disconnections interleave,
\* no account is bound to two connections of a host.
THEOREM AccountsHaveOneConnection == AccountSpec => []OneConnectionPerAccount
<1>1. AccountInv => OneConnectionPerAccount
  BY DEF AccountInv
<1>2. QED  BY AccountInvariant, <1>1, PTL

\* An open connection always acts for the account of its last login by token,
\* logins as a guest notwithstanding.
THEOREM OpenConnectionsKeepTheirAccount ==
  AccountSpec => []OpenConnectionKeepsItsAccount
<1>1. AccountInv => OpenConnectionKeepsItsAccount
  BY DEF AccountInv, NotClosedKeepsItsAccount, OpenConnectionKeepsItsAccount
<1>2. QED  BY AccountInvariant, <1>1, PTL

\* What RemovalIsFinal waits for: the connection is closed, bound to no
\* account, and no login of it is left to bind it again.
Gone(s) ==
  /\ conn[s] = "down"
  /\ bound[s] = NoUser
  /\ \A u \in User : <<s, u>> \notin verifying

\* No step brings a connection back that is gone.
LEMMA GoneStays ==
  ASSUME AccountInv, NEW s \in Socket, Gone(s), [AccountNext]_accountVars
  PROVE  Gone(s)'
<1> USE DEF Gone, AccountInv, TypeOK
<1>1. ASSUME NEW t \in Socket,
             \/ Connect(t) \/ LoginAsGuest(t) \/ LoginRefused(t)
             \/ Disconnect(t) \/ Remove(t)
      PROVE  Gone(s)'
  BY <1>1 DEF Connect, LoginAsGuest, LoginRefused, Disconnect, Remove,
              Removed
<1>2. ASSUME NEW t \in Socket, NEW u \in User \cup {NoUser}, Login(t, u)
      PROVE  Gone(s)'
  BY <1>2 DEF Login
<1>3. ASSUME NEW t \in Socket, NEW u \in User, LoginVerified(t, u)
      PROVE  Gone(s)'
  <2>1. t # s
    BY <1>3 DEF LoginVerified
  <2>2. CASE Holders(t, u) = {} /\ bound' = [bound EXCEPT ![t] = u]
             /\ UNCHANGED <<conn, leaving>>
    BY <1>3, <2>1, <2>2 DEF LoginVerified
  <2>3. CASE \E old \in Holders(t, u) :
               /\ bound' = [bound EXCEPT ![old] = NoUser, ![t] = u]
               /\ conn' = SentAway(old)
    BY <1>3, <2>1, <2>3 DEF LoginVerified, SentAway, Holders
  <2>4. QED  BY <1>3, <2>2, <2>3 DEF LoginVerified
<1>4. CASE ProcessEnds
  BY <1>4 DEF ProcessEnds
<1>5. CASE UNCHANGED accountVars
  BY <1>5 DEF accountVars
<1>6. QED  BY <1>1, <1>2, <1>3, <1>4, <1>5 DEF AccountNext

\* A closed connection whose binding has been removed, and that has no login
\* under verification, is never bound to an account again: the safety half
\* of RemovalIsFinal.  That the removal comes is left to fairness.
THEOREM RemovedStayUnbound ==
  ASSUME NEW s \in Socket
  PROVE  AccountSpec => [](Gone(s) => [](bound[s] = NoUser))
<1>1. AccountInv /\ Gone(s) /\ [AccountNext]_accountVars => Gone(s)'
  BY GoneStays
<1>2. Gone(s) => bound[s] = NoUser
  BY DEF Gone
<1>3. QED  BY AccountInvariant, <1>1, <1>2, PTL DEF AccountSpec

\* onDisconnect's removal, going on while no login of the connection is
\* under verification, leaves it gone.
LEMMA RemovalLeavesGone ==
  ASSUME NEW s \in Socket
  PROVE  AccountSpec =>
           [][(Remove(s) /\ \A u \in User : <<s, u>> \notin verifying)
                => Gone(s)']_accountVars
<1>1. AccountInv /\ [AccountNext]_accountVars =>
        [(Remove(s) /\ \A u \in User : <<s, u>> \notin verifying)
           => Gone(s)']_accountVars
  BY DEF AccountInv, TypeOK, LeavingAreClosed, Remove, Removed, Gone
<1>2. QED  BY AccountInvariant, <1>1, PTL DEF AccountSpec
=============================================================================
