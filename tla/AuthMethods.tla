----------------------------- MODULE AuthMethods -----------------------------
(***************************************************************************)
(* The ways a user may log in, password and passkeys, and the requests of  *)
(* the user's sessions that change them: user.ts, userPasskey.ts, and the  *)
(* statements they execute (accountStatements.ts).  One user; requests of  *)
(* different users touch different rows.                                   *)
(*                                                                         *)
(* A request is a series of statements, each atomic by itself; there is no *)
(* transaction around them, and every await lets the statements of other   *)
(* requests in between.  A request that is one statement is one action.    *)
(* overlapped is a history variable.                                       *)
(***************************************************************************)
EXTENDS FiniteSets, Naturals

CONSTANTS
  Request,     \* requests that may be under way at a time
  PasskeyId,   \* ids the table hands out, each once
  Password,
  NoPassword   \* NULL

ASSUME NoPasswordAssumption == NoPassword \notin Password

VARIABLES
  allowPassword,  \* columns of the user's row
  password,
  passkeys,       \* rows of the user in the passkey table
  freshIds,       \* ids not handed out yet
  req,            \* what each request waits for
  overlapped      \* a request began while another was under way

vars == <<allowPassword, password, passkeys, freshIds, req, overlapped>>
columns == <<allowPassword, password, passkeys, freshIds>>

Idle == [at |-> "idle"]

RequestState ==
  {Idle}
  \cup [at: {"count before disallow", "disallow"}, given: Password]
  \cup [at: {"query user", "count before delete", "delete"}, id: PasskeyId]

TypeOK ==
  /\ allowPassword \in BOOLEAN
  /\ password \in Password \cup {NoPassword}
  /\ passkeys \in SUBSET PasskeyId
  /\ freshIds \in SUBSET PasskeyId
  /\ req \in [Request -> RequestState]
  /\ overlapped \in BOOLEAN

\* CREATE_USER, with the column's default for allowPassword
Init ==
  /\ allowPassword = TRUE
  /\ password \in Password
  /\ passkeys = {}
  /\ freshIds = PasskeyId
  /\ req = [r \in Request |-> Idle]
  /\ overlapped = FALSE

\* The request goes on to what it waits for next.
GoesTo(r, state) ==
  /\ req' = [req EXCEPT ![r] = state]
  /\ UNCHANGED overlapped

\* A request begins, and waits.
Begins(r, state) ==
  /\ req[r] = Idle
  /\ req' = [req EXCEPT ![r] = state]
  /\ overlapped' = (overlapped \/ \E q \in Request : req[q] # Idle)

-----------------------------------------------------------------------------
(* PUT /:userIndex/password: one statement, UPDATE_PASSWORD.               *)

ChangePassword(old, new) ==
  /\ old # new
  /\ allowPassword
  /\ password = old
  /\ password' = new
  /\ UNCHANGED <<allowPassword, passkeys, freshIds, req, overlapped>>

-----------------------------------------------------------------------------
(* PUT /:userIndex/allow-password                                          *)

\* what UPDATE_ALLOW_PASSWORD makes of the password when it is disallowed
ClearedMutant(given) == given
ClearedToEmptyMutant(given) == ""
Cleared(given) == NoPassword

\* allowPassword: the statement's WHERE asks for a row without a password
AllowPassword(given) ==
  /\ password = NoPassword
  /\ allowPassword' = TRUE
  /\ password' = given
  /\ UNCHANGED <<passkeys, freshIds, req, overlapped>>

AskToDisallow(r, given) ==
  /\ Begins(r, [at |-> "count before disallow", given |-> given])
  /\ UNCHANGED columns

\* how many passkeys must be left for the password to go
EnoughToDisallowMutant == TRUE
EnoughToDisallow == Cardinality(passkeys) > 0

CountBeforeDisallow(r) ==
  /\ req[r].at = "count before disallow"
  /\ GoesTo(r, IF EnoughToDisallow
               THEN [at |-> "disallow", given |-> req[r].given]
               ELSE Idle)
  /\ UNCHANGED columns

Disallow(r) ==
  /\ req[r].at = "disallow"
  /\ IF password = req[r].given
     THEN allowPassword' = FALSE /\ password' = Cleared(req[r].given)
     ELSE UNCHANGED <<allowPassword, password>>
  /\ GoesTo(r, Idle)
  /\ UNCHANGED <<passkeys, freshIds>>

-----------------------------------------------------------------------------
(* POST /:userIndex/passkey/verify-registration: CREATE_PASSKEY            *)

CreatePasskey(id) ==
  /\ id \in freshIds
  /\ freshIds' = freshIds \ {id}
  /\ passkeys' = passkeys \cup {id}
  /\ UNCHANGED <<allowPassword, password, req, overlapped>>

-----------------------------------------------------------------------------
(* DELETE /:userIndex/passkey/:passkeyId                                   *)

\* checkUserIsPasskeyOwner has found the passkey.
AskToDelete(r, id) ==
  /\ id \in passkeys
  /\ Begins(r, [at |-> "query user", id |-> id])
  /\ UNCHANGED columns

\* QUERY_USER_BY_ID
QueryUser(r) ==
  /\ req[r].at = "query user"
  /\ GoesTo(r, [at |-> IF allowPassword THEN "delete"
                                        ELSE "count before delete",
                id |-> req[r].id])
  /\ UNCHANGED columns

\* how many passkeys there must be for one to go
EnoughToDeleteMutant == Cardinality(passkeys) > 0
EnoughToDelete == Cardinality(passkeys) > 1

CountBeforeDelete(r) ==
  /\ req[r].at = "count before delete"
  /\ GoesTo(r, IF EnoughToDelete THEN [at |-> "delete", id |-> req[r].id]
                                 ELSE Idle)
  /\ UNCHANGED columns

\* DELETE_PASSKEY_BY_ID
Delete(r) ==
  /\ req[r].at = "delete"
  /\ passkeys' = passkeys \ {req[r].id}
  /\ GoesTo(r, Idle)
  /\ UNCHANGED <<allowPassword, password, freshIds>>

-----------------------------------------------------------------------------

Next ==
  \/ \E old, new \in Password : ChangePassword(old, new)
  \/ \E p \in Password : AllowPassword(p)
  \/ \E r \in Request, p \in Password : AskToDisallow(r, p)
  \/ \E r \in Request : CountBeforeDisallow(r) \/ Disallow(r)
  \/ \E id \in PasskeyId : CreatePasskey(id)
  \/ \E r \in Request, id \in PasskeyId : AskToDelete(r, id)
  \/ \E r \in Request : QueryUser(r) \/ CountBeforeDelete(r) \/ Delete(r)

Spec == Init /\ [][Next]_vars

-----------------------------------------------------------------------------

\* Two columns say whether a user has a password, and no request, however
\* late its last statement, makes them disagree.
PasswordMatchesPermission == allowPassword <=> password # NoPassword

\* A user whose requests did not overlap has a way to log in: the counts
\* of both handlers suffice then.
OneAtATimeKeepsAMethod == overlapped \/ allowPassword \/ passkeys # {}

\* A user keeps at least one way to log in.  Both handlers refuse what would
\* take the last one, "because" it "is the only" one; that they count first
\* and write later makes it depend on how requests overlap.
OneMethodLeft == allowPassword \/ passkeys # {}
=============================================================================
