--------------------------- MODULE VariableTables ---------------------------
(***************************************************************************)
(* Variable tables, who may use them, and the three ways in: the routes of *)
(* a logged-in user (userVariableTable.ts), the routes of an API token     *)
(* (variableTable.ts) and the events of a socket (VariableTableManager.ts  *)
(* of the socket server).  All of them end in varTblMgr, which asks permMgr*)
(* for a right and then executes one statement.                            *)
(*                                                                         *)
(* A request waits at a place until the database has answered; every query *)
(* is one atomic step and takes a connection of its own, so requests       *)
(* interleave between any two of them.  Tables of the database are sets of *)
(* rows.  Left out: nicknames, on which nothing depends, and the texts.    *)
(***************************************************************************)
EXTENDS FiniteSets, Naturals

CONSTANTS
  Request,                  \* requests that may be under way at a time
  User, Host, Key, Value,
  Token, TableId, EntryId,  \* ids the tables hand out, each once
  ByHand,                   \* rights, domain, token, account of rows of
                            \* permission that are put in by hand
  Null

Right == {"pRead", "pWrite", "pUpdate", "pDelete"}

ASSUME VariableTablesAssumption ==
  Null \notin TableId \cup EntryId \cup Token \cup User \cup Right

TableRow == [id: TableId, belong_acc: User]
DataRow == [id: EntryId, table_id: TableId, varKey: Key, varValue: Value]
TokenRow == [id: Token, acc_id: User]
PermissionRow == [rEntryId: TableId \cup {Null}, tDomain: Host \cup {Null},
                  tTokenId: Token \cup {Null}, tAccountId: User \cup {Null},
                  rights: SUBSET Right]

VARIABLES
  varTableList, varTableData, jwtToken, permission,  \* rows
  permissionEntry,  \* tables that have a row there; the row is named by them
  fresh,            \* ids not handed out yet
  req,              \* what each request waits for
  up,               \* the process runs
  held              \* history: whether its sender has had the right a request
                    \* needs since it began

rows == <<varTableList, varTableData, jwtToken, permission, permissionEntry,
          fresh>>
vars == <<rows, req, up, held>>

-----------------------------------------------------------------------------
(* The handlers: the way in, what the statement does, the right it needs,  *)
(* and how often the handler answers when the right is missing and when    *)
(* the statement changed or found nothing.  A second res.send throws.      *)

Handler(via, does, needs, refused, failed) ==
  [via |-> via, does |-> does, needs |-> needs,
   refused |-> refused, failed |-> failed]

UserCreate == Handler("user", "create table", Null, 1, 1)
UserGet == Handler("user", "read", Null, 1, 1)
UserDelete == Handler("user", "delete table", Null, 1, 1)
UserRename == Handler("user", "rename table", Null, 1, 2)
UserList == Handler("user", "read", Null, 1, 1)
UserCreateEntry == Handler("user", "create entry", Null, 1, 1)
UserGetEntry == Handler("user", "read entry", Null, 1, 1)
UserDeleteEntry == Handler("user", "delete entry", Null, 1, 1)
UserUpdateEntry == Handler("user", "update entry", Null, 1, 1)

TokenCreate == Handler("token", "create table", Null, 1, 1)
TokenGet == Handler("token", "read", Null, 1, 1)
TokenDelete == Handler("token", "delete table", "pWrite", 2, 1)
TokenRename == Handler("token", "rename table", "pUpdate", 2, 2)
TokenList == Handler("token", "read", "pRead", 1, 1)
TokenCreateEntry == Handler("token", "create entry", "pWrite", 1, 1)
TokenGetEntry == Handler("token", "read entry", "pRead", 1, 1)
TokenDeleteEntry == Handler("token", "delete entry", "pDelete", 1, 1)
TokenUpdateEntry == Handler("token", "update entry", "pUpdate", 2, 1)

SocketDelete == Handler("socket", "delete key", "pDelete", 1, 1)
SocketSet == Handler("socket", "set key", "pWrite", 1, 1)
SocketGet == Handler("socket", "read", "pRead", 1, 1)
SocketList == Handler("socket", "read", "pRead", 1, 1)

CreatingHandlers == {UserCreate, TokenCreate}
UserHandlers ==
  {UserGet, UserDelete, UserRename, UserList, UserCreateEntry, UserGetEntry,
   UserDeleteEntry, UserUpdateEntry}
TokenHandlers ==
  {TokenGet, TokenDelete, TokenRename, TokenList, TokenCreateEntry,
   TokenGetEntry, TokenDeleteEntry, TokenUpdateEntry}
SocketHandlers == {SocketDelete, SocketSet, SocketGet, SocketList}
Handlers == CreatingHandlers \cup UserHandlers \cup TokenHandlers
              \cup SocketHandlers

NamesEntry(handler) ==
  handler.does \in {"read entry", "delete entry", "update entry"}

\* What a request asks: who sent it, on which table and, when the handler
\* does something to an entry, which one, under which key, with which value.
Asks(handler, accounts, tokens, domains) ==
  [handler: {handler}, account: accounts, token: tokens, domain: domains,
   table: TableId,
   entry: IF NamesEntry(handler) THEN EntryId ELSE {Null},
   key: IF handler.does \in {"create entry", "set key", "delete key"}
        THEN Key ELSE {Null},
   value: IF handler.does \in {"create entry", "set key", "update entry"}
          THEN Value ELSE {Null}]
Ask == [handler: Handlers, account: User \cup {Null},
        token: Token \cup {Null}, domain: Host \cup {Null}, table: TableId,
        entry: EntryId \cup {Null}, key: Key \cup {Null},
        value: Value \cup {Null}]

Idle == [at |-> "idle"]
Place == {"check entry", "entry id", "permission", "statement",
          "entry id of new table", "add permission"}
RequestState ==
  {Idle} \cup [at: Place, ask: Ask, rEntryId: TableId \cup {Null}]

TypeOK ==
  /\ varTableList \in SUBSET TableRow
  /\ varTableData \in SUBSET DataRow
  /\ jwtToken \in SUBSET TokenRow
  /\ permission \in SUBSET PermissionRow
  /\ permissionEntry \in SUBSET TableId
  /\ fresh \in SUBSET (TableId \cup EntryId \cup Token)
  /\ req \in [Request -> RequestState]
  /\ up \in BOOLEAN
  /\ held \in [Request -> BOOLEAN]

Init ==
  /\ varTableList = {} /\ varTableData = {} /\ jwtToken = {}
  /\ permission = {} /\ permissionEntry = {}
  /\ fresh = TableId \cup EntryId \cup Token
  /\ req = [r \in Request |-> Idle]
  /\ up = TRUE
  /\ held = [r \in Request |-> FALSE]

Tables == {row.id : row \in varTableList}
Tokens == {row.id : row \in jwtToken}
EntriesOf(t) == {row \in varTableData : row.table_id = t}

-----------------------------------------------------------------------------
(* permMgr                                                                 *)

\* the rows GET_PERMISSION finds; a row with NULL is for everyone
Matches(p, ask) ==
  /\ p.rEntryId = ask.table
  /\ p.tDomain \in {ask.domain, Null}
  /\ p.tTokenId \in {ask.token, Null}
  /\ p.tAccountId \in {ask.account, Null}

GrantedIn(rs, ask) == UNION {p.rights : p \in {p \in rs : Matches(p, ask)}}

\* GET_PERMISSION reads pDelete from pWrite.
ReportedMutant(granted) == Right
Reported(granted) ==
  {right \in Right : IF right = "pDelete" THEN "pWrite" \in granted
                                          ELSE right \in granted}

-----------------------------------------------------------------------------
(* A request goes on, ends, or ends the process.                           *)

Waits(r, place) == up /\ req[r].at = place
GoTo(r, place) ==
  /\ req' = [req EXCEPT ![r].at = place]
  /\ UNCHANGED up

\* res.send or the callback, once; the second res.send throws in an async
\* handler, nobody handles the rejection, and Node ends the process.
ProcessEnds == up' = FALSE /\ req' = [r \in Request |-> Idle]
Answer(r, times) ==
  IF times = 1 THEN req' = [req EXCEPT ![r] = Idle] /\ UNCHANGED up
               ELSE ProcessEnds
Succeeds(r) == Answer(r, 1)
Fails(r) == Answer(r, req[r].ask.handler.failed)

\* restart: unless-stopped
Restart ==
  /\ ~up
  /\ up' = TRUE
  /\ UNCHANGED <<rows, req>>

-----------------------------------------------------------------------------
(* A request begins.                                                       *)

Begins(r, place, ask) ==
  /\ up
  /\ req[r] = Idle
  /\ req' = [req EXCEPT ![r] = [at |-> place, ask |-> ask, rEntryId |-> Null]]
  /\ UNCHANGED <<rows, up>>

\* checkUserIsVariableTableOwner has found the row; else the answer is
\* PERMISSION_DENIED, and nothing has changed.
AskAsUser(r) ==
  \E handler \in UserHandlers :
    \E ask \in Asks(handler, User, {Null}, {Null}) :
      /\ [id |-> ask.table, belong_acc |-> ask.account] \in varTableList
      /\ Begins(r, IF NamesEntry(handler) THEN "check entry" ELSE "statement",
                ask)

\* EXTRACT_TOKEN has found the token.  The routes pass no account.
AskWithToken(r) ==
  \E handler \in TokenHandlers :
    \E ask \in Asks(handler, {Null}, Tokens, {Null}) :
      Begins(r, IF NamesEntry(handler) THEN "check entry"
                ELSE IF handler.needs = Null THEN "statement"
                ELSE "entry id",
             ask)

\* getPermissionObject has looked for the token.  The account the socket is
\* bound to counts only without one.
AskOnSocket(r) ==
  \E handler \in SocketHandlers :
    \E ask \in Asks(handler, {Null}, Tokens, Host)
                 \cup Asks(handler, User \cup {Null}, {Null}, Host) :
      Begins(r, "entry id", ask)

\* checkVariableTableIsEntryOwner
IsOfTableMutant(row, ask) == row.id = ask.entry
IsOfTable(row, ask) == row.id = ask.entry /\ row.table_id = ask.table
CheckEntry(r) ==
  /\ Waits(r, "check entry")
  /\ IF \E row \in varTableData : IsOfTable(row, req[r].ask)
     THEN GoTo(r, IF req[r].ask.handler.needs = Null THEN "statement"
                                                     ELSE "entry id")
     ELSE Answer(r, 1)
  /\ UNCHANGED rows

Refuse(r) == Answer(r, req[r].ask.handler.refused)

\* GET_ENTRY_ID_BY_VAR_TABLE_ID; without an entry nobody has a right.
QueryEntryId(r) ==
  /\ Waits(r, "entry id")
  /\ IF req[r].ask.table \in permissionEntry THEN GoTo(r, "permission")
                                             ELSE Refuse(r)
  /\ UNCHANGED rows

\* GET_PERMISSION
QueryPermission(r) ==
  /\ Waits(r, "permission")
  /\ IF req[r].ask.handler.needs
          \in Reported(GrantedIn(permission, req[r].ask))
     THEN GoTo(r, "statement")
     ELSE Refuse(r)
  /\ UNCHANGED rows

-----------------------------------------------------------------------------
(* The statements                                                          *)

Executes(r, does) == Waits(r, "statement") /\ req[r].ask.handler.does = does

Read(r) ==
  /\ \E does \in {"read", "read entry", "rename table"} : Executes(r, does)
  /\ IF req[r].ask.table \in Tables THEN Succeeds(r) ELSE Fails(r)
  /\ UNCHANGED rows

\* DELETE_TABLE_BY_ID, with what the foreign keys take along
DeleteTable(r) ==
  LET t == req[r].ask.table IN
  /\ Executes(r, "delete table")
  /\ IF t \in Tables THEN Succeeds(r) ELSE Fails(r)
  /\ varTableList' = {row \in varTableList : row.id # t}
  /\ varTableData' = varTableData \ EntriesOf(t)
  /\ permissionEntry' = permissionEntry \ {t}
  /\ permission' = {p \in permission : p.rEntryId # t}
  /\ UNCHANGED <<jwtToken, fresh>>

Insert(ask) ==
  \E id \in EntryId \cap fresh :
    /\ varTableData' = varTableData \cup
         {[id |-> id, table_id |-> ask.table,
           varKey |-> ask.key, varValue |-> ask.value]}
    /\ fresh' = fresh \ {id}
    /\ UNCHANGED <<varTableList, jwtToken, permission, permissionEntry>>

Changes(data) ==
  /\ varTableData' = data
  /\ UNCHANGED <<varTableList, jwtToken, permission, permissionEntry, fresh>>

\* the row UNIQUE (table_id, varKey) finds
SameKeyMutant(ask) == {row \in varTableData : row.varKey = ask.key}
SameKey(ask) == {row \in EntriesOf(ask.table) : row.varKey = ask.key}

\* what INSERT IGNORE inserts: the keys of both kinds hold afterwards
AcceptedMutant(ask) == SameKey(ask) = {}
Accepted(ask) == ask.table \in Tables /\ SameKey(ask) = {}

\* CREATE_ENTRY
CreateEntry(r) ==
  LET ask == req[r].ask IN
  /\ Executes(r, "create entry")
  /\ IF Accepted(ask)
     THEN Insert(ask) /\ Succeeds(r)
     ELSE Fails(r) /\ UNCHANGED rows

\* CREATE_OR_UPDATE_ENTRY; without IGNORE, the foreign key makes it throw
\* when the table is gone.
SetKey(r) ==
  LET ask == req[r].ask IN
  /\ Executes(r, "set key")
  /\ IF ask.table \notin Tables
     THEN ProcessEnds /\ UNCHANGED rows
     ELSE /\ Succeeds(r)
          /\ IF SameKey(ask) = {}
             THEN Insert(ask)
             ELSE Changes((varTableData \ SameKey(ask)) \cup
                   {[row EXCEPT !.varValue = ask.value] : row \in SameKey(ask)})

\* DELETE_ENTRY_BY_TABLE_ID_KEY
DeleteKey(r) ==
  /\ Executes(r, "delete key")
  /\ Changes(varTableData \ SameKey(req[r].ask))
  /\ IF SameKey(req[r].ask) # {} THEN Succeeds(r) ELSE Fails(r)

WithId(ask) == {row \in varTableData : row.id = ask.entry}

\* DELETE_ENTRY_BY_ID
DeleteEntry(r) ==
  /\ Executes(r, "delete entry")
  /\ Changes(varTableData \ WithId(req[r].ask))
  /\ IF WithId(req[r].ask) # {} THEN Succeeds(r) ELSE Fails(r)

\* UPDATE_ENTRY_VALUE_BY_ID
UpdateEntry(r) ==
  LET ask == req[r].ask IN
  /\ Executes(r, "update entry")
  /\ Changes((varTableData \ WithId(ask)) \cup
             {[row EXCEPT !.varValue = ask.value] : row \in WithId(ask)})
  /\ IF WithId(ask) # {} THEN Succeeds(r) ELSE Fails(r)

-----------------------------------------------------------------------------
(* createTableByUserId                                                     *)

\* CREATE_TABLE
CreateTable(r) ==
  \E ask \in Asks(UserCreate, User, {Null}, {Null})
               \cup Asks(TokenCreate, User, Token, {Null}) :
    /\ ask.token = Null \/ [id |-> ask.token, acc_id |-> ask.account] \in jwtToken
    /\ up /\ req[r] = Idle
    /\ ask.table \in fresh
    /\ varTableList' = varTableList \cup
         {[id |-> ask.table, belong_acc |-> ask.account]}
    /\ fresh' = fresh \ {ask.table}
    /\ req' = [req EXCEPT ![r] = [at |-> "entry id of new table",
                                  ask |-> ask, rEntryId |-> Null]]
    /\ UNCHANGED <<varTableData, jwtToken, permission, permissionEntry, up>>

QueryEntryIdOfNew(r) ==
  /\ Waits(r, "entry id of new table")
  /\ LET t == req[r].ask.table IN
     req' = [req EXCEPT
               ![r].at = "add permission",
               ![r].rEntryId = IF t \in permissionEntry THEN t ELSE Null]
  /\ UNCHANGED <<rows, up>>

\* the row for the account that made the table
DefaultPermissionMutant(r) ==
  [rEntryId |-> req[r].rEntryId, tDomain |-> Null,
   tTokenId |-> req[r].ask.account, tAccountId |-> Null, rights |-> Right]
DefaultPermission(r) ==
  [rEntryId |-> req[r].rEntryId, tDomain |-> Null,
   tTokenId |-> Null, tAccountId |-> req[r].ask.account, rights |-> Right]

\* insertOrUpdatePermission.  The ownership check is not awaited, a promise
\* is true, and ADD_PERMISSION follows whatever the check finds.  The foreign
\* key refuses an entry that went with its table; then the handler throws.
AddPermission(r) ==
  /\ Waits(r, "add permission")
  /\ IF req[r].rEntryId \in permissionEntry \cup {Null}
     THEN /\ permission' = permission \cup {DefaultPermission(r)}
          /\ Succeeds(r)
     ELSE ProcessEnds /\ UNCHANGED permission
  /\ UNCHANGED <<varTableList, varTableData, jwtToken, permissionEntry, fresh>>

-----------------------------------------------------------------------------
(* API tokens (userToken.ts): CREATE_TOKEN, DELETE_TOKEN_BY_ID             *)

CreateToken(k, u) ==
  /\ up
  /\ k \in fresh
  /\ fresh' = fresh \ {k}
  /\ jwtToken' = jwtToken \cup {[id |-> k, acc_id |-> u]}
  /\ UNCHANGED <<varTableList, varTableData, permission, permissionEntry,
                 req, up>>

\* checkUserIsTokenOwner has found the row.
DeleteToken(k) ==
  /\ up
  /\ k \in Tokens
  /\ jwtToken' = {row \in jwtToken : row.id # k}
  /\ permission' = {p \in permission : p.tTokenId # k}
  /\ UNCHANGED <<varTableList, varTableData, permissionEntry, fresh, req, up>>

-----------------------------------------------------------------------------
(* Rows no statement of the program makes: permissionEntry's, and further  *)
(* permissions.                                                            *)

Grant(p) ==
  /\ p.rEntryId \in Tables
  /\ p.tTokenId \in Tokens \cup {Null}
  /\ permissionEntry' = permissionEntry \cup {p.rEntryId}
  /\ permission' = permission \cup {p}
  /\ UNCHANGED <<varTableList, varTableData, jwtToken, fresh, req, up>>

Revoke(p) ==
  /\ p \in permission
  /\ permission' = permission \ {p}
  /\ UNCHANGED <<varTableList, varTableData, jwtToken, permissionEntry, fresh,
                 req, up>>

RowsByHand ==
  {[rEntryId |-> t, tDomain |-> b.tDomain, tTokenId |-> b.tTokenId,
    tAccountId |-> b.tAccountId, rights |-> b.rights]
     : t \in TableId, b \in ByHand}

-----------------------------------------------------------------------------

\* the right that governs what a handler needs
Governs(right) == IF right = "pDelete" THEN "pWrite" ELSE right

\* the history follows every step
Remembers ==
  held' = [r \in Request |->
             /\ req'[r] # Idle
             /\ \/ held[r]
                \/ Governs(req'[r].ask.handler.needs)
                     \in GrantedIn(permission', req'[r].ask)]

RequestStep(r) ==
  \/ AskAsUser(r) \/ AskWithToken(r) \/ AskOnSocket(r) \/ CreateTable(r)
  \/ CheckEntry(r) \/ QueryEntryId(r) \/ QueryPermission(r)
  \/ Read(r) \/ DeleteTable(r) \/ CreateEntry(r) \/ SetKey(r)
  \/ DeleteKey(r) \/ DeleteEntry(r) \/ UpdateEntry(r)
  \/ QueryEntryIdOfNew(r) \/ AddPermission(r)

TableNext ==
  \/ \E r \in Request : RequestStep(r)
  \/ \E k \in Token, u \in User : CreateToken(k, u)
  \/ \E k \in Token : DeleteToken(k)
  \/ \E p \in RowsByHand : Grant(p) \/ Revoke(p)
  \/ Restart

Next == TableNext /\ Remembers

Spec == Init /\ [][Next]_vars

-----------------------------------------------------------------------------
(* Properties                                                              *)

Owns(ask) == [id |-> ask.table, belong_acc |-> ask.account] \in varTableList

\* A request that is about to execute its statement is allowed to: it came in
\* by the routes of the table's owner, or somebody gave its sender the right
\* while it was under way; and the entry it names, if it is still there, is
\* one of the table it was checked for.  (The rows may change between the
\* queries: a right that was taken away meanwhile is still used.)
StatementsAreAllowed ==
  \A r \in Request : Waits(r, "statement") =>
    LET ask == req[r].ask IN
    /\ \/ ask.handler.via = "user" /\ (ask.table \in Tables => Owns(ask))
       \/ ask.handler.needs = Null
       \/ held[r]
    /\ \A row \in WithId(ask) : row.table_id = ask.table

\* What a table holds changes only by the statement of a request for that
\* table, or goes with the table; the tables of others are left alone.
ChangesAreAllowed ==
  [][\A t \in TableId :
       {row \in varTableData' : row.table_id = t} # EntriesOf(t) =>
         \E r \in Request :
           /\ Waits(r, "statement") /\ req[r].ask.table = t
           /\ \/ req[r].ask.handler.via = "user" /\ Owns(req[r].ask)
              \/ held[r]]_vars

\* The keys of the schema: an entry of a table, an entry of a permission and
\* a permission go with what they refer to, and none is made for what has gone
\* between the queries of the request that makes it.
RowsReferToRows ==
  /\ \A row \in varTableData : row.table_id \in Tables
  /\ permissionEntry \subseteq Tables
  /\ \A p \in permission : /\ p.rEntryId \in permissionEntry \cup {Null}
                           /\ p.tTokenId \in Tokens \cup {Null}

\* createTableByUserId gives the account that makes a table every right on it
\* (VariableTableManager.ts:222-231): once that is done, its owner has them
\* on every way in.
OwnersHaveEveryRight ==
  \A row \in varTableList :
    (\A r \in Request : req[r] # Idle => req[r].ask.table # row.id) =>
      \E p \in permission :
        /\ p.rEntryId = row.id /\ p.tAccountId = row.belong_acc
        /\ p.rights = Right
=============================================================================
