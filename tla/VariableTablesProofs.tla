------------------------- MODULE VariableTablesProofs -------------------------
(* Proofs about VariableTables, for all requests, rows, rights and hosts.  *)
EXTENDS VariableTables, TLAPS

(***************************************************************************)
(* Why what a request was checked for still holds when it executes: ids    *)
(* are handed out once, so the table and the entry it has asked about are  *)
(* never somebody else's or another table's, only gone.                    *)
(***************************************************************************)
\* A key and a value are of no account here.
AnyDataRow == [id : EntryId, table_id : TableId, varKey : Key \cup {Null},
               varValue : Value \cup {Null}]

RowTypes ==
  /\ varTableList \in SUBSET TableRow
  /\ varTableData \in SUBSET AnyDataRow
  /\ jwtToken \in SUBSET TokenRow
  /\ fresh \in SUBSET (TableId \cup EntryId \cup Token)

IdsAreUnique ==
  /\ \A row \in varTableList \cup varTableData : row.id \notin fresh
  /\ \A row, other \in varTableList : row.id = other.id => row = other
  /\ \A row, other \in varTableData : row.id = other.id => row = other

RowsInv == RowTypes /\ IdsAreUnique /\ RowsReferToRows

Requested == [at : Place, ask : Ask, rEntryId : TableId \cup {Null}]

\* What is known of a request: its sender owns the table, if it came by the
\* owner's routes; its entry was one of the table, once that was checked; and
\* the right it needs was given.
Checked == {"entry id", "permission", "statement"}
RequestOK(r) ==
  LET ask == req[r].ask IN
  /\ req[r] \in Requested
  /\ ask.handler.via = "user" =>
       ask.table \notin fresh /\ (ask.table \in Tables => Owns(ask))
  /\ req[r].at \in Checked =>
       IF ask.entry = Null THEN ~NamesEntry(ask.handler)
       ELSE ask.entry \notin fresh /\ \A row \in WithId(ask) : row.table_id = ask.table
  /\ req[r].at = "check entry" => NamesEntry(ask.handler)
  /\ req[r].at = "statement" =>
       ask.handler.via = "user" \/ ask.handler.needs = Null \/ held[r]

RequestsInv ==
  /\ req = [r \in Request |-> req[r]]
  /\ \A r \in Request : req[r] = Idle \/ RequestOK(r)
  /\ held = [r \in Request |-> held[r]]

TablesInv == RowsInv /\ RequestsInv /\ up \in BOOLEAN

\* A step that changes rows only so: rows that were not there have fresh ids,
\* or are entries of the table of one that had their id.
RowsGoOn ==
  /\ fresh' \subseteq fresh
  /\ \A row \in varTableList' : row \in varTableList \/ row.id \in fresh
  /\ \A row \in varTableData' :
       \/ \E old \in varTableData : old.id = row.id /\ old.table_id = row.table_id
       \/ row.id \in fresh

-----------------------------------------------------------------------------
(* Requests                                                                *)

LEMMA PlacesDiffer == Idle \notin Requested /\ Idle.at = "idle"
BY DEF Idle, Requested, Place

\* What a request was checked for outlives every such step.
LEMMA ChecksLast ==
  ASSUME TablesInv, RowsGoOn, NEW r \in Request,
         req[r] # Idle, req'[r] = req[r], held[r] => held'[r]
  PROVE  RequestOK(r)'
<1> DEFINE ask == req[r].ask
<1>1. RequestOK(r) /\ ask = req'[r].ask
  BY DEF TablesInv, RequestsInv
<1>2. ASSUME ask.handler.via = "user"
      PROVE  ask.table \notin fresh' /\ (ask.table \in Tables' => Owns(ask)')
  <2>1. ask.table \notin fresh /\ (ask.table \in Tables => Owns(ask))
    BY <1>1, <1>2 DEF RequestOK
  <2>2. ASSUME ask.table \in Tables' PROVE Owns(ask)'
    <3>1. PICK row \in varTableList' : row.id = ask.table
      BY <2>2 DEF Tables
    <3>2. row \in varTableList
      BY <2>1, <3>1 DEF RowsGoOn
    <3>3. [id |-> ask.table, belong_acc |-> ask.account] \in varTableList
      BY <2>1, <3>1, <3>2 DEF Tables, Owns
    <3>4. row = [id |-> ask.table, belong_acc |-> ask.account]
      BY <3>1, <3>2, <3>3 DEF TablesInv, RowsInv, IdsAreUnique
    <3>5. QED  BY <1>1, <3>1, <3>4 DEF Owns
  <2>3. QED  BY <2>1, <2>2 DEF RowsGoOn
<1>3. ASSUME req[r].at \in Checked, ask.entry # Null
      PROVE  /\ ask.entry \notin fresh'
             /\ \A row \in WithId(ask)' : row.table_id = ask.table
  <2>1. ask.entry \notin fresh /\ \A row \in WithId(ask) : row.table_id = ask.table
    BY <1>1, <1>3 DEF RequestOK
  <2>2. ASSUME NEW row \in varTableData', row.id = ask.entry
        PROVE  row.table_id = ask.table
    BY <2>1, <2>2 DEF RowsGoOn, WithId
  <2>3. QED  BY <1>1, <2>1, <2>2 DEF RowsGoOn, WithId
<1> HIDE DEF ask
<1>4. QED  BY <1>1, <1>2, <1>3 DEF RequestOK, ask

\* What is to be shown of a step
LEMMA StepOK ==
  ASSUME TablesInv, RowsGoOn, RowsInv', Remembers, up' \in BOOLEAN,
         req' = [r \in Request |-> req'[r]],
         \A r \in Request : \/ req'[r] = Idle
                            \/ req'[r] = req[r]
                            \/ RequestOK(r)'
  PROVE  TablesInv'
<1>1. /\ held' = [r \in Request |-> held'[r]]
      /\ \A r \in Request : req'[r] # Idle /\ held[r] => held'[r]
  BY DEF Remembers
<1>2. \A r \in Request : req'[r] = Idle \/ RequestOK(r)'
  BY <1>1, ChecksLast
<1>3. QED  BY <1>1, <1>2 DEF TablesInv, RequestsInv

\* Rows that stay as they are go on.
LEMMA SameRows ==
  ASSUME TablesInv, UNCHANGED rows
  PROVE  RowsInv' /\ RowsGoOn
BY DEF TablesInv, RowsInv, RowTypes, IdsAreUnique, RowsReferToRows, Tables,
       Tokens, RowsGoOn, rows

\* A response, or the end of the process, leaves all others as they are.
LEMMA AnswerOK ==
  ASSUME TablesInv, NEW r \in Request, NEW times, Answer(r, times)
  PROVE  /\ req' = [p \in Request |-> req'[p]] /\ up' \in BOOLEAN
         /\ \A p \in Request : req'[p] = Idle \/ req'[p] = req[p]
BY DEF Answer, ProcessEnds, TablesInv, RequestsInv

\* What is known of a request that waits
LEMMA WaitsOK ==
  ASSUME TablesInv, NEW r \in Request, NEW place \in Place, Waits(r, place)
  PROVE  /\ RequestOK(r) /\ req[r] \in Requested /\ req[r].at = place
         /\ req[r].ask \in Ask /\ up \in BOOLEAN
<1>1. req[r].at = place /\ req[r] # Idle
  <2>1. req[r].at = place /\ place # "idle"
    BY DEF Waits, Place
  <2>2. QED  BY <2>1, PlacesDiffer
<1>2. RequestOK(r) /\ req[r] \in Requested
  BY <1>1 DEF TablesInv, RequestsInv, RequestOK
<1>3. QED  BY <1>1, <1>2 DEF Requested, TablesInv

\* A request that goes on to a place it was checked for
LEMMA MovedOK ==
  ASSUME TablesInv, Remembers, UNCHANGED rows, NEW r \in Request,
         RequestOK(r), NEW next \in Checked, GoTo(r, next),
         LET ask == req[r].ask IN
         /\ IF ask.entry = Null THEN ~NamesEntry(ask.handler)
            ELSE ask.entry \notin fresh
                 /\ \A row \in WithId(ask) : row.table_id = ask.table
         /\ next = "statement" =>
              ask.handler.via = "user" \/ ask.handler.needs = Null \/ held'[r]
  PROVE  TablesInv'
<1>1. RowsInv' /\ RowsGoOn
  BY SameRows
<1>2. /\ req' = [p \in Request |-> req'[p]]
      /\ \A p \in Request : p # r => req'[p] = req[p]
      /\ req'[r] = [req[r] EXCEPT !.at = next] /\ up' = up
  BY DEF GoTo, TablesInv, RequestsInv
<1>3. req[r] \in Requested
  BY DEF RequestOK
<1>4. /\ req'[r] \in Requested /\ req'[r].ask = req[r].ask
      /\ req'[r].at = next
  BY <1>2, <1>3 DEF Requested, Place, Checked
<1>5. RequestOK(r)'
  BY <1>4 DEF RequestOK, Tables, Owns, WithId, rows, Checked
<1>6. QED  BY <1>1, <1>2, <1>5, StepOK DEF TablesInv

\* A step that only answers
LEMMA OnlyAnswersOK ==
  ASSUME TablesInv, Remembers, NEW r \in Request, NEW times,
         Answer(r, times), RowsInv', RowsGoOn
  PROVE  TablesInv'
BY AnswerOK, StepOK

LEMMA CheckEntryOK ==
  ASSUME TablesInv, Remembers, NEW r \in Request, CheckEntry(r)
  PROVE  TablesInv'
<1> DEFINE ask == req[r].ask
<1>1. Waits(r, "check entry") /\ UNCHANGED rows
  BY DEF CheckEntry
<1>2. RowsInv' /\ RowsGoOn /\ RequestOK(r)
  BY <1>1, SameRows, WaitsOK DEF Place
<1>3. CASE Answer(r, 1)
  BY <1>2, <1>3, OnlyAnswersOK
<1>4. CASE /\ \E row \in varTableData : IsOfTable(row, ask)
           /\ GoTo(r, IF ask.handler.needs = Null THEN "statement"
                                                  ELSE "entry id")
  <2>1. PICK row \in varTableData : row.id = ask.entry /\ row.table_id = ask.table
    BY <1>4 DEF IsOfTable
  <2>2. ask.entry # Null /\ ask.entry \notin fresh
    BY <2>1, VariableTablesAssumption
       DEF TablesInv, RowsInv, RowTypes, IdsAreUnique, AnyDataRow
  <2>3. \A other \in WithId(ask) : other.table_id = ask.table
    BY <2>1 DEF WithId, TablesInv, RowsInv, IdsAreUnique
  <2>4. QED  BY <1>1, <1>2, <1>4, <2>2, <2>3, MovedOK DEF Checked
<1>5. QED  BY <1>3, <1>4 DEF CheckEntry

LEMMA QueriesOK ==
  ASSUME TablesInv, Remembers, NEW r \in Request,
         QueryEntryId(r) \/ QueryPermission(r)
  PROVE  TablesInv'
<1> DEFINE ask == req[r].ask
<1>1. UNCHANGED rows /\ (Waits(r, "entry id") \/ Waits(r, "permission"))
  BY DEF QueryEntryId, QueryPermission
<1>2. /\ RowsInv' /\ RowsGoOn /\ RequestOK(r) /\ req[r].at \in Checked
      /\ req[r] \in Requested
  BY <1>1, SameRows, WaitsOK DEF Place, Checked
<1>3. CASE Refuse(r)
  BY <1>2, <1>3, OnlyAnswersOK DEF Refuse
<1>4. CASE GoTo(r, "permission")
  BY <1>1, <1>2, <1>4, MovedOK DEF RequestOK, Checked
<1>5. CASE /\ ask.handler.needs \in Reported(GrantedIn(permission, ask))
           /\ GoTo(r, "statement")
  <2>1. Governs(ask.handler.needs) \in GrantedIn(permission, ask)
    BY <1>5 DEF Reported, Governs
  <2>2. req'[r] = [req[r] EXCEPT !.at = "statement"] /\ permission' = permission
    BY <1>1, <1>5 DEF GoTo, rows, TablesInv, RequestsInv
  <2>3. req'[r].ask = ask /\ req'[r].at = "statement"
    BY <1>2, <2>2 DEF Requested
  <2>4. req'[r] # Idle
    BY <2>3 DEF Idle
  <2>5. held'[r]
    BY <2>1, <2>2, <2>3, <2>4 DEF Remembers
  <2>6. QED  BY <1>1, <1>2, <1>5, <2>5, MovedOK DEF RequestOK, Checked
<1>6. QED  BY <1>3, <1>4, <1>5 DEF QueryEntryId, QueryPermission

-----------------------------------------------------------------------------
(* The beginnings                                                          *)

\* Handlers by the way in
LEMMA HandlerKinds ==
  /\ \A h \in UserHandlers : h \in Handlers /\ h.via = "user"
  /\ \A h \in TokenHandlers : h \in Handlers /\ h.via = "token"
  /\ \A h \in SocketHandlers :
       h \in Handlers /\ h.via = "socket" /\ ~NamesEntry(h)
  /\ UserCreate \in Handlers /\ TokenCreate \in Handlers
  /\ UserCreate.via = "user" /\ TokenCreate.via = "token"
BY DEF Handlers, CreatingHandlers, UserHandlers, TokenHandlers, SocketHandlers,
       Handler, NamesEntry, UserCreate, UserGet, UserDelete, UserRename,
       UserList, UserCreateEntry, UserGetEntry, UserDeleteEntry,
       UserUpdateEntry, TokenCreate, TokenGet, TokenDelete, TokenRename,
       TokenList, TokenCreateEntry, TokenGetEntry, TokenDeleteEntry,
       TokenUpdateEntry, SocketDelete, SocketSet, SocketGet, SocketList

\* What a request may ask
LEMMA AsksOK ==
  ASSUME NEW handler \in Handlers, NEW accounts \in SUBSET (User \cup {Null}),
         NEW tokens \in SUBSET (Token \cup {Null}),
         NEW domains \in SUBSET (Host \cup {Null}),
         NEW ask \in Asks(handler, accounts, tokens, domains)
  PROVE  /\ ask \in Ask /\ ask.handler = handler
         /\ ask.table \in TableId /\ ask.account \in accounts
         /\ ~NamesEntry(handler) => ask.entry = Null
<1>1. /\ ask.entry \in EntryId \cup {Null}
      /\ ~NamesEntry(handler) => ask.entry = Null
  BY DEF Asks
<1>2. ask.key \in Key \cup {Null}
  BY DEF Asks
<1>3. ask.value \in Value \cup {Null}
  BY DEF Asks
<1>4. /\ ask = [handler |-> ask.handler, account |-> ask.account,
                token |-> ask.token, domain |-> ask.domain,
                table |-> ask.table, entry |-> ask.entry, key |-> ask.key,
                value |-> ask.value]
      /\ ask.handler = handler /\ ask.account \in accounts
      /\ ask.token \in tokens /\ ask.domain \in domains
      /\ ask.table \in TableId
  BY DEF Asks
<1>5. ask \in Ask
  BY <1>1, <1>2, <1>3, <1>4 DEF Ask
<1>6. QED  BY <1>1, <1>4, <1>5

\* A new request
LEMMA BeginsOK ==
  ASSUME TablesInv, Remembers, NEW r \in Request, NEW place \in Place,
         NEW ask \in Ask, Begins(r, place, ask),
         ask.handler.via = "user" => Owns(ask),
         place \in Checked => ask.entry = Null /\ ~NamesEntry(ask.handler),
         place = "check entry" => NamesEntry(ask.handler),
         place = "statement" =>
           ask.handler.via = "user" \/ ask.handler.needs = Null
  PROVE  TablesInv'
<1> DEFINE new == [at |-> place, ask |-> ask, rEntryId |-> Null]
<1>1. /\ req' = [p \in Request |-> req'[p]]
      /\ \A p \in Request : p # r => req'[p] = req[p]
      /\ req'[r] = new /\ UNCHANGED rows /\ up' = up
  BY DEF Begins, TablesInv, RequestsInv
<1>2. RowsInv' /\ RowsGoOn
  BY <1>1, SameRows
<1>3. new \in Requested /\ new.at = place /\ new.ask = ask
  BY DEF Requested
<1> HIDE DEF new
<1>4. ask.handler.via = "user" => ask.table \notin fresh
  <2> DEFINE row == [id |-> ask.table, belong_acc |-> ask.account]
  <2>1. row.id = ask.table
    OBVIOUS
  <2>2. Owns(ask) => row \in varTableList
    BY DEF Owns
  <2> HIDE DEF row
  <2>3. QED  BY <2>1, <2>2 DEF TablesInv, RowsInv, IdsAreUnique
<1>5. ask.handler.via = "user" => Owns(ask)'
  BY <1>1 DEF Owns, rows
<1>6. RequestOK(r)'
  BY <1>1, <1>3, <1>4, <1>5 DEF RequestOK, rows
<1>7. QED  BY <1>1, <1>2, <1>6, StepOK DEF TablesInv

LEMMA AskOK ==
  ASSUME TablesInv, Remembers, NEW r \in Request,
         AskAsUser(r) \/ AskWithToken(r) \/ AskOnSocket(r)
  PROVE  TablesInv'
<1>1. CASE AskAsUser(r)
  <2>1. PICK handler \in UserHandlers :
          \E ask \in Asks(handler, User, {Null}, {Null}) :
            /\ Owns(ask)
            /\ Begins(r, IF NamesEntry(handler) THEN "check entry"
                                                ELSE "statement", ask)
    BY <1>1 DEF AskAsUser, Owns
  <2>2. PICK ask \in Asks(handler, User, {Null}, {Null}) :
            /\ Owns(ask)
            /\ Begins(r, IF NamesEntry(handler) THEN "check entry"
                                                ELSE "statement", ask)
    BY <2>1
  <2>3. handler \in Handlers /\ handler.via = "user"
    BY HandlerKinds
  <2>4. /\ ask \in Ask /\ ask.handler = handler
        /\ ~NamesEntry(handler) => ask.entry = Null
    BY <2>3, AsksOK
  <2>5. QED  BY <2>2, <2>3, <2>4, BeginsOK DEF Place, Checked
<1>2. CASE AskWithToken(r)
  <2>1. PICK handler \in TokenHandlers :
          \E ask \in Asks(handler, {Null}, Tokens, {Null}) :
            Begins(r, IF NamesEntry(handler) THEN "check entry"
                      ELSE IF handler.needs = Null THEN "statement"
                      ELSE "entry id",
                   ask)
    BY <1>2 DEF AskWithToken
  <2> DEFINE place == IF NamesEntry(handler) THEN "check entry"
                      ELSE IF handler.needs = Null THEN "statement"
                      ELSE "entry id"
  <2> HIDE DEF place
  <2>2. PICK ask \in Asks(handler, {Null}, Tokens, {Null}) :
          Begins(r, place, ask)
    BY <2>1 DEF place
  <2>3. handler \in Handlers /\ handler.via = "token"
    BY HandlerKinds
  <2>4. /\ Tokens \in SUBSET (Token \cup {Null})
        /\ {Null} \in SUBSET (User \cup {Null})
        /\ {Null} \in SUBSET (Host \cup {Null})
    BY DEF Tokens, TablesInv, RowsInv, RowTypes, TokenRow
  <2>5. /\ ask \in Ask /\ ask.handler = handler
        /\ ~NamesEntry(handler) => ask.entry = Null
    BY <2>3, <2>4, AsksOK
  <2>6. /\ place \in {"check entry", "statement", "entry id"}
        /\ place = "check entry" <=> NamesEntry(handler)
        /\ place = "statement" => handler.needs = Null
    BY DEF place
  <2>7. QED  BY <2>2, <2>3, <2>5, <2>6, BeginsOK DEF Place, Checked
<1>3. CASE AskOnSocket(r)
  <2>1. PICK handler \in SocketHandlers :
          \E ask \in Asks(handler, {Null}, Tokens, Host)
                       \cup Asks(handler, User \cup {Null}, {Null}, Host) :
            Begins(r, "entry id", ask)
    BY <1>3 DEF AskOnSocket
  <2>2. PICK ask \in Asks(handler, {Null}, Tokens, Host)
                       \cup Asks(handler, User \cup {Null}, {Null}, Host) :
            Begins(r, "entry id", ask)
    BY <2>1
  <2>3. /\ handler \in Handlers /\ handler.via = "socket"
        /\ ~NamesEntry(handler)
    BY HandlerKinds
  <2>4. Tokens \subseteq Token
    BY DEF Tokens, TablesInv, RowsInv, RowTypes, TokenRow
  <2>5. ask \in Ask /\ ask.handler = handler /\ ask.entry = Null
    BY <2>3, <2>4, AsksOK
  <2>6. QED  BY <2>2, <2>3, <2>5, BeginsOK DEF Place, Checked
<1>4. QED  BY <1>1, <1>2, <1>3

-----------------------------------------------------------------------------
(* The statements                                                          *)

\* Rows of tables may go ...
LEMMA FewerRows ==
  ASSUME TablesInv, NEW data \in SUBSET varTableData, Changes(data)
  PROVE  RowsInv' /\ RowsGoOn
BY DEF TablesInv, RowsInv, RowTypes, IdsAreUnique, RowsReferToRows, Tables,
       Tokens, RowsGoOn, Changes

\* ... or get another value ...
LEMMA OtherValues ==
  ASSUME TablesInv, NEW S \in SUBSET varTableData, NEW v \in Value \cup {Null},
         Changes((varTableData \ S)
                   \cup {[row EXCEPT !.varValue = v] : row \in S})
  PROVE  RowsInv' /\ RowsGoOn
<1>1. \A row \in S : LET new == [row EXCEPT !.varValue = v] IN
        new \in AnyDataRow /\ new.id = row.id /\ new.table_id = row.table_id
  BY DEF TablesInv, RowsInv, RowTypes, AnyDataRow
<1>2. /\ varTableData' =
           (varTableData \ S) \cup {[row EXCEPT !.varValue = v] : row \in S}
      /\ UNCHANGED <<varTableList, jwtToken, permission, permissionEntry, fresh>>
  BY DEF Changes
<1>3. \A row \in varTableData' : \E old \in varTableData :
        /\ old.id = row.id /\ old.table_id = row.table_id
        /\ \/ row = old /\ old \notin S
           \/ row = [old EXCEPT !.varValue = v] /\ old \in S
  BY <1>1, <1>2
<1>4. RowTypes'
  BY <1>1, <1>2 DEF TablesInv, RowsInv, RowTypes
<1>5. IdsAreUnique'
  <2>1. \A row \in varTableList' \cup varTableData' : row.id \notin fresh'
    BY <1>2, <1>3 DEF TablesInv, RowsInv, IdsAreUnique
  <2>2. ASSUME NEW row \in varTableData', NEW other \in varTableData',
               row.id = other.id
        PROVE  row = other
    BY <1>3, <2>2 DEF TablesInv, RowsInv, IdsAreUnique
  <2>3. QED  BY <1>2, <2>1, <2>2 DEF TablesInv, RowsInv, IdsAreUnique
<1>6. RowsReferToRows'
  BY <1>2, <1>3 DEF TablesInv, RowsInv, RowsReferToRows, Tables, Tokens
<1>7. RowsGoOn
  BY <1>2, <1>3 DEF RowsGoOn
<1>8. QED  BY <1>4, <1>5, <1>6, <1>7 DEF RowsInv

\* ... and a new one has an id of its own.
LEMMA InsertOK ==
  ASSUME TablesInv, NEW ask \in Ask, ask.table \in Tables, Insert(ask)
  PROVE  RowsInv' /\ RowsGoOn
<1>1. PICK id \in EntryId \cap fresh :
        /\ varTableData' = varTableData \cup
             {[id |-> id, table_id |-> ask.table,
               varKey |-> ask.key, varValue |-> ask.value]}
        /\ fresh' = fresh \ {id}
        /\ UNCHANGED <<varTableList, jwtToken, permission, permissionEntry>>
  BY DEF Insert
<1> DEFINE new == [id |-> id, table_id |-> ask.table,
                   varKey |-> ask.key, varValue |-> ask.value]
<1>2. new \in AnyDataRow /\ new.id = id /\ new.table_id = ask.table
  BY DEF AnyDataRow, Ask
<1>3. varTableData' = varTableData \cup {new}
  BY <1>1
<1> HIDE DEF new
<1>4. RowTypes'
  BY <1>1, <1>2, <1>3 DEF TablesInv, RowsInv, RowTypes
<1>5. IdsAreUnique'
  BY <1>1, <1>2, <1>3 DEF TablesInv, RowsInv, IdsAreUnique
<1>6. RowsReferToRows'
  BY <1>1, <1>2, <1>3 DEF TablesInv, RowsInv, RowsReferToRows, Tables, Tokens
<1>7. RowsGoOn
  BY <1>1, <1>2, <1>3 DEF RowsGoOn
<1>8. QED  BY <1>4, <1>5, <1>6, <1>7 DEF RowsInv

\* A table goes with its entries, its entry of permissions and those.
LEMMA DeleteTableOK ==
  ASSUME TablesInv, NEW r \in Request, DeleteTable(r)
  PROVE  RowsInv' /\ RowsGoOn
<1> DEFINE t == req[r].ask.table
<1>1. /\ varTableList' = {row \in varTableList : row.id # t}
      /\ varTableData' = {row \in varTableData : row.table_id # t}
      /\ permissionEntry' = permissionEntry \ {t}
      /\ permission' = {p \in permission : p.rEntryId # t}
      /\ UNCHANGED <<jwtToken, fresh>>
  BY DEF DeleteTable, EntriesOf
<1> HIDE DEF t
<1>2. RowTypes' /\ IdsAreUnique' /\ RowsGoOn
  BY <1>1 DEF TablesInv, RowsInv, RowTypes, IdsAreUnique, RowsGoOn
<1>3. /\ \A x \in Tables : x # t => x \in Tables'
      /\ Tokens' = Tokens
  BY <1>1 DEF Tables, Tokens
<1>4. RowsReferToRows'
  BY <1>1, <1>3 DEF TablesInv, RowsInv, RowsReferToRows
<1>5. QED  BY <1>2, <1>4 DEF RowsInv

LEMMA StatementOK ==
  ASSUME TablesInv, Remembers, NEW r \in Request,
         \/ Read(r) \/ DeleteTable(r) \/ CreateEntry(r) \/ SetKey(r)
         \/ DeleteKey(r) \/ DeleteEntry(r) \/ UpdateEntry(r)
  PROVE  TablesInv'
<1> DEFINE ask == req[r].ask
<1>1. Waits(r, "statement")
  BY DEF Read, DeleteTable, CreateEntry, SetKey, DeleteKey, DeleteEntry,
         UpdateEntry, Executes
<1>2. ask \in Ask /\ ask.value \in Value \cup {Null}
  BY <1>1, WaitsOK DEF Place, Ask
<1>3. ASSUME ProcessEnds PROVE Answer(r, 2)
  BY <1>3 DEF Answer
<1>4. \E times : Answer(r, times)
  BY <1>3 DEF Read, DeleteTable, CreateEntry, SetKey, DeleteKey, DeleteEntry,
              UpdateEntry, Succeeds, Fails
<1>5. RowsInv' /\ RowsGoOn
  <2>1. CASE Read(r)
    BY <2>1, SameRows DEF Read
  <2>2. CASE DeleteTable(r)
    BY <2>2, DeleteTableOK
  <2>3. CASE CreateEntry(r)
    BY <1>2, <2>3, SameRows, InsertOK DEF CreateEntry, Accepted
  <2>4. CASE SetKey(r)
    <3>1. CASE UNCHANGED rows
      BY <3>1, SameRows
    <3>2. CASE ask.table \in Tables /\ Insert(ask)
      BY <1>2, <3>2, InsertOK
    <3>3. CASE Changes((varTableData \ SameKey(ask)) \cup
                 {[row EXCEPT !.varValue = ask.value] : row \in SameKey(ask)})
      <4>1. SameKey(ask) \in SUBSET varTableData
        BY DEF SameKey, EntriesOf
      <4>2. QED  BY <1>2, <3>3, <4>1, OtherValues
    <3>4. QED  BY <2>4, <3>1, <3>2, <3>3 DEF SetKey
  <2>5. CASE DeleteKey(r)
    BY <2>5, FewerRows DEF DeleteKey
  <2>6. CASE DeleteEntry(r)
    BY <2>6, FewerRows DEF DeleteEntry
  <2>7. CASE UpdateEntry(r)
    <3>1. WithId(ask) \in SUBSET varTableData
      BY DEF WithId
    <3>2. Changes((varTableData \ WithId(ask)) \cup
                 {[row EXCEPT !.varValue = ask.value] : row \in WithId(ask)})
      BY <2>7 DEF UpdateEntry
    <3>3. QED  BY <1>2, <3>1, <3>2, OtherValues
  <2>8. QED  BY <2>1, <2>2, <2>3, <2>4, <2>5, <2>6, <2>7
<1>6. QED  BY <1>4, <1>5, OnlyAnswersOK

-----------------------------------------------------------------------------
(* New tables, tokens and permissions                                      *)

LEMMA CreateTableOK ==
  ASSUME TablesInv, Remembers, NEW r \in Request, CreateTable(r)
  PROVE  TablesInv'
<1>1. PICK ask \in Asks(UserCreate, User, {Null}, {Null})
                    \cup Asks(TokenCreate, User, Token, {Null}) :
        /\ ask.table \in fresh
        /\ varTableList' = varTableList \cup
             {[id |-> ask.table, belong_acc |-> ask.account]}
        /\ fresh' = fresh \ {ask.table}
        /\ req' = [req EXCEPT ![r] = [at |-> "entry id of new table",
                                      ask |-> ask, rEntryId |-> Null]]
        /\ UNCHANGED <<varTableData, jwtToken, permission, permissionEntry, up>>
  BY DEF CreateTable
<1> DEFINE row == [id |-> ask.table, belong_acc |-> ask.account]
           new == [at |-> "entry id of new table", ask |-> ask, rEntryId |-> Null]
<1>2. /\ User \in SUBSET (User \cup {Null})
      /\ Token \in SUBSET (Token \cup {Null})
      /\ {Null} \in SUBSET (Token \cup {Null})
      /\ {Null} \in SUBSET (Host \cup {Null})
  OBVIOUS
<1>3. ask \in Ask /\ ask.account \in User /\ ask.table \in TableId
  <2>1. CASE ask \in Asks(UserCreate, User, {Null}, {Null})
    BY <1>2, <2>1, HandlerKinds, AsksOK
  <2>2. CASE ask \in Asks(TokenCreate, User, Token, {Null})
    BY <1>2, <2>2, HandlerKinds, AsksOK
  <2>3. QED  BY <2>1, <2>2
<1>4. row \in TableRow /\ row.id = ask.table
  BY <1>3 DEF TableRow
<1>5. varTableList' = varTableList \cup {row}
  BY <1>1
<1>6. Owns(ask)'
  BY <1>1 DEF Owns
<1> HIDE DEF row
<1>7. RowTypes' /\ RowsGoOn
  BY <1>1, <1>4, <1>5 DEF TablesInv, RowsInv, RowTypes, RowsGoOn
<1>8. IdsAreUnique'
  BY <1>1, <1>4, <1>5 DEF TablesInv, RowsInv, IdsAreUnique
<1>9. RowsReferToRows'
  BY <1>1, <1>5 DEF TablesInv, RowsInv, RowsReferToRows, Tables, Tokens
<1>10. /\ req' = [p \in Request |-> req'[p]]
       /\ \A p \in Request : p # r => req'[p] = req[p]
       /\ req'[r] = new
  BY <1>1 DEF TablesInv, RequestsInv
<1>11. new \in Requested /\ new.ask = ask /\ new.at = "entry id of new table"
  BY <1>3 DEF Requested, Place
<1> HIDE DEF new
<1>12. ask.table \notin fresh'
  BY <1>1
<1>13. RequestOK(r)'
  BY <1>6, <1>10, <1>11, <1>12 DEF RequestOK, Checked
<1>14. QED
  BY <1>1, <1>7, <1>8, <1>9, <1>10, <1>13, StepOK DEF RowsInv, TablesInv

LEMMA NewTableOK ==
  ASSUME TablesInv, Remembers, NEW r \in Request,
         QueryEntryIdOfNew(r) \/ AddPermission(r)
  PROVE  TablesInv'
<1>1. CASE QueryEntryIdOfNew(r)
  <2> DEFINE t == req[r].ask.table
             entry == IF t \in permissionEntry THEN t ELSE Null
             new == [req[r] EXCEPT !.at = "add permission", !.rEntryId = entry]
  <2>1. RequestOK(r) /\ req[r] \in Requested /\ req[r].ask \in Ask
    BY <1>1, WaitsOK DEF QueryEntryIdOfNew, Place
  <2>2. entry \in TableId \cup {Null}
    BY <2>1 DEF Ask
  <2>3. /\ req' = [p \in Request |-> req'[p]]
        /\ \A p \in Request : p # r => req'[p] = req[p]
        /\ req'[r] = new /\ UNCHANGED rows /\ up' = up
    BY <1>1 DEF QueryEntryIdOfNew, TablesInv, RequestsInv
  <2> HIDE DEF entry
  <2>4. /\ new \in Requested /\ new.ask = req[r].ask
        /\ new.at = "add permission"
    BY <2>1, <2>2 DEF Requested, Place
  <2> HIDE DEF new, t
  <2>5. RequestOK(r)'
    BY <2>1, <2>3, <2>4 DEF RequestOK, Checked, rows, Owns, Tables
  <2>6. QED  BY <2>3, <2>5, SameRows, StepOK DEF TablesInv
<1>2. CASE AddPermission(r)
  <2>1. \E times : Answer(r, times)
    <3>1. ProcessEnds => Answer(r, 2)
      BY DEF Answer
    <3>2. QED  BY <1>2, <3>1 DEF AddPermission, Succeeds
  <2>2. /\ UNCHANGED <<varTableList, varTableData, jwtToken, permissionEntry,
                      fresh>>
        /\ \A p \in permission' :
             \/ p \in permission
             \/ p.rEntryId \in permissionEntry \cup {Null} /\ p.tTokenId = Null
    <3> DEFINE p == DefaultPermission(r)
    <3>1. p.rEntryId = req[r].rEntryId /\ p.tTokenId = Null
      BY DEF DefaultPermission
    <3> HIDE DEF p
    <3>2. \/ permission' = permission
          \/ /\ req[r].rEntryId \in permissionEntry \cup {Null}
             /\ permission' = permission \cup {p}
      BY <1>2 DEF AddPermission, p
    <3>3. QED  BY <1>2, <3>1, <3>2 DEF AddPermission
  <2>3. RowsInv' /\ RowsGoOn
    BY <2>2 DEF TablesInv, RowsInv, RowTypes, IdsAreUnique, RowsReferToRows,
                Tables, Tokens, RowsGoOn
  <2>4. QED  BY <2>1, <2>3, OnlyAnswersOK
<1>3. QED  BY <1>1, <1>2

\* Steps of nobody's request
LEMMA OtherStepsOK ==
  ASSUME TablesInv, Remembers,
         \/ \E k \in Token, u \in User : CreateToken(k, u)
         \/ \E k \in Token : DeleteToken(k)
         \/ \E p \in RowsByHand : Grant(p) \/ Revoke(p)
         \/ Restart
  PROVE  TablesInv'
<1>1. UNCHANGED req /\ up' \in BOOLEAN
  BY DEF CreateToken, DeleteToken, Grant, Revoke, Restart, TablesInv
<1>2. RowsInv' /\ RowsGoOn
  <2>1. CASE \E k \in Token, u \in User : CreateToken(k, u)
    <3>1. PICK k \in Token, u \in User : CreateToken(k, u)
      BY <2>1
    <3>2. [id |-> k, acc_id |-> u] \in TokenRow
      BY DEF TokenRow
    <3>3. Tokens \subseteq Tokens' /\ Tables' = Tables
      BY <3>1 DEF CreateToken, Tokens, Tables
    <3>4. QED
      BY <3>1, <3>2, <3>3 DEF CreateToken, TablesInv, RowsInv, RowTypes,
         IdsAreUnique, RowsReferToRows, RowsGoOn
  <2>2. CASE \E k \in Token : DeleteToken(k)
    <3>1. PICK k \in Token : DeleteToken(k)
      BY <2>2
    <3>2. (\A x \in Tokens : x # k => x \in Tokens') /\ Tables' = Tables
      BY <3>1 DEF DeleteToken, Tokens, Tables
    <3>3. QED
      BY <3>1, <3>2 DEF DeleteToken, TablesInv, RowsInv, RowTypes,
         IdsAreUnique, RowsReferToRows, RowsGoOn
  <2>3. CASE \E p \in RowsByHand : Grant(p) \/ Revoke(p)
    BY <2>3 DEF Grant, Revoke, TablesInv, RowsInv, RowTypes, IdsAreUnique,
                RowsReferToRows, Tables, Tokens, RowsGoOn
  <2>4. CASE Restart
    BY <2>4, SameRows DEF Restart
  <2>5. QED  BY <2>1, <2>2, <2>3, <2>4
<1>3. req' = [r \in Request |-> req'[r]]
  BY <1>1 DEF TablesInv, RequestsInv
<1>4. QED  BY <1>1, <1>2, <1>3, StepOK

-----------------------------------------------------------------------------
(* The theorems                                                            *)

\* The invariant holds in every state of the specification.
THEOREM TablesInvariant == Spec => []TablesInv
<1>1. Init => TablesInv
  BY DEF Init, TablesInv, RowsInv, RowTypes, IdsAreUnique, RowsReferToRows,
         RequestsInv
<1>2. TablesInv /\ [Next]_vars => TablesInv'
  <2> SUFFICES ASSUME TablesInv, [Next]_vars
               PROVE  TablesInv'
    OBVIOUS
  <2>1. CASE TableNext /\ Remembers
    <3>1. ASSUME NEW r \in Request, RequestStep(r)
          PROVE  TablesInv'
      BY <2>1, <3>1, AskOK, CreateTableOK, CheckEntryOK, QueriesOK,
         StatementOK, NewTableOK
         DEF RequestStep
    <3>2. QED  BY <2>1, <3>1, OtherStepsOK DEF TableNext
  <2>2. CASE UNCHANGED vars
    <3>1. RowsInv'
      BY <2>2, SameRows DEF vars
    <3>2. RequestsInv'
      BY <2>2 DEF vars, rows, TablesInv, RequestsInv, RequestOK, Tables, Owns,
                  WithId
    <3>3. QED  BY <2>2, <3>1, <3>2 DEF vars, TablesInv
  <2>3. QED  BY <2>1, <2>2 DEF Next
<1>3. QED  BY <1>1, <1>2, PTL DEF Spec

\* However requests, deletions, new rows and withdrawn rights interleave, no
\* statement is about to run for a sender who neither owned the table nor was
\* given the right, or on an entry of another table.
THEOREM OnlyAllowedStatementsRun == Spec => []StatementsAreAllowed
<1>1. TablesInv => StatementsAreAllowed
  <2> SUFFICES ASSUME TablesInv, NEW r \in Request, Waits(r, "statement")
               PROVE  LET ask == req[r].ask IN
                      /\ \/ /\ ask.handler.via = "user"
                            /\ ask.table \in Tables => Owns(ask)
                         \/ ask.handler.needs = Null
                         \/ held[r]
                      /\ \A row \in WithId(ask) : row.table_id = ask.table
    BY DEF StatementsAreAllowed
  <2>1. RequestOK(r) /\ req[r].at = "statement"
    BY WaitsOK DEF Place
  <2>2. req[r].ask.entry = Null => WithId(req[r].ask) = {}
    BY VariableTablesAssumption
       DEF WithId, TablesInv, RowsInv, RowTypes, AnyDataRow
  <2>3. QED  BY <2>1, <2>2 DEF RequestOK, Checked
<1>2. QED  BY TablesInvariant, <1>1, PTL

\* No step leaves a row that refers to one that is gone.
THEOREM KeysHold == Spec => []RowsReferToRows
<1>1. TablesInv => RowsReferToRows
  BY DEF TablesInv, RowsInv
<1>2. QED  BY TablesInvariant, <1>1, PTL

-----------------------------------------------------------------------------
(* What a step does to the entries of a table                              *)

EntriesChange(t) == {row \in varTableData' : row.table_id = t} # EntriesOf(t)

IsAllowedTo(r, t) ==
  /\ Waits(r, "statement") /\ req[r].ask.table = t
  /\ \/ req[r].ask.handler.via = "user" /\ Owns(req[r].ask)
     \/ held[r]

\* The right a handler needs is none only for the owner's routes and where
\* nothing is written.
LEMMA WritersNeedARight ==
  /\ \A h \in UserHandlers \cup {UserCreate} : h.via = "user"
  /\ TokenCreate.does = "create table"
  /\ \A h \in TokenHandlers : h.does = "read" \/ h.needs # Null
  /\ \A h \in SocketHandlers : h.needs # Null
<1>1. \A right \in Right : right # Null
  BY VariableTablesAssumption
<1>2. /\ "pRead" # Null /\ "pWrite" # Null
      /\ "pUpdate" # Null /\ "pDelete" # Null
  BY <1>1 DEF Right
<1>3. /\ \A h \in UserHandlers \cup {UserCreate} : h.via = "user"
      /\ TokenCreate.does = "create table"
  BY HandlerKinds DEF TokenCreate, Handler
<1>4. \A h \in SocketHandlers : h.needs # Null
  <2>1. /\ SocketDelete.needs = "pDelete" /\ SocketSet.needs = "pWrite"
        /\ SocketGet.needs = "pRead" /\ SocketList.needs = "pRead"
    BY DEF SocketDelete, SocketSet, SocketGet, SocketList, Handler
  <2>2. QED  BY <1>2, <2>1 DEF SocketHandlers
<1>5. \A h \in TokenHandlers : h.does = "read" \/ h.needs # Null
  <2>1. /\ TokenGet.does = "read"
        /\ TokenDelete.needs = "pWrite" /\ TokenRename.needs = "pUpdate"
        /\ TokenList.needs = "pRead" /\ TokenCreateEntry.needs = "pWrite"
        /\ TokenGetEntry.needs = "pRead" /\ TokenDeleteEntry.needs = "pDelete"
        /\ TokenUpdateEntry.needs = "pUpdate"
    BY DEF TokenGet, TokenDelete, TokenRename, TokenList, TokenCreateEntry,
           TokenGetEntry, TokenDeleteEntry, TokenUpdateEntry, Handler
  <2>2. QED  BY <1>2, <2>1 DEF TokenHandlers
<1>6. QED  BY <1>3, <1>4, <1>5

\* A request that is about to write is one of the owner's or was given the
\* right.
LEMMA WritersAreAllowed ==
  ASSUME TablesInv, NEW r \in Request,
         NEW does \in {"delete table", "create entry", "set key",
                       "delete key", "delete entry", "update entry"},
         Executes(r, does), req[r].ask.table \in Tables
  PROVE  IsAllowedTo(r, req[r].ask.table)
<1> DEFINE handler == req[r].ask.handler
<1>1. Waits(r, "statement") /\ handler.does = does
  BY DEF Executes
<1>2. RequestOK(r) /\ req[r].at = "statement" /\ handler \in Handlers
  BY <1>1, WaitsOK DEF Place, Ask
<1>3. handler.via = "user" => Owns(req[r].ask)
  BY <1>2 DEF RequestOK
<1>4. handler.via # "user" => held[r]
  <2>1. handler.via # "user" => handler.needs # Null
    BY <1>1, <1>2, WritersNeedARight DEF Handlers, CreatingHandlers
  <2>2. QED  BY <1>2, <2>1 DEF RequestOK
<1>5. QED  BY <1>1, <1>3, <1>4 DEF IsAllowedTo

\* A new entry is one of the table the request names.
LEMMA InsertsIntoItsTable ==
  ASSUME NEW ask, Insert(ask), NEW t, EntriesChange(t)
  PROVE  ask.table = t
BY DEF Insert, EntriesChange, EntriesOf

\* So is an entry that gets another value or goes: of S, a set of entries of
\* table T, none is left, or other entries of T are there instead.
Replaces(S, T) ==
  /\ S \subseteq EntriesOf(T)
  /\ varTableData \ S \subseteq varTableData'
  /\ \A row \in varTableData' : row \in varTableData \/ row.table_id = T
  /\ varTableData' # varTableData => S # {}

LEMMA ReplacesInItsTable ==
  ASSUME TablesInv, NEW S, NEW T, Replaces(S, T), NEW t, EntriesChange(t)
  PROVE  t = T /\ t \in Tables
<1>1. t = T /\ S # {}
  BY DEF Replaces, EntriesChange, EntriesOf
<1>2. QED  BY <1>1 DEF Replaces, EntriesOf, TablesInv, RowsInv, RowsReferToRows

LEMMA TakingReplaces ==
  ASSUME NEW T, NEW S \in SUBSET EntriesOf(T), varTableData' = varTableData \ S
  PROVE  Replaces(S, T)
BY DEF Replaces, EntriesOf

LEMMA UpdatingReplaces ==
  ASSUME TablesInv, NEW T, NEW S \in SUBSET EntriesOf(T), NEW v,
         varTableData' = (varTableData \ S)
                           \cup {[row EXCEPT !.varValue = v] : row \in S}
  PROVE  Replaces(S, T)
<1>1. \A row \in S : [row EXCEPT !.varValue = v].table_id = T
  BY DEF EntriesOf, TablesInv, RowsInv, RowTypes, AnyDataRow
<1>2. QED  BY <1>1 DEF Replaces, EntriesOf

LEMMA StatementsChangeTheirTable ==
  ASSUME TablesInv, NEW r \in Request, NEW t, EntriesChange(t),
         \/ DeleteTable(r) \/ CreateEntry(r) \/ SetKey(r) \/ DeleteKey(r)
         \/ DeleteEntry(r) \/ UpdateEntry(r)
  PROVE  IsAllowedTo(r, t)
<1> DEFINE ask == req[r].ask
<1>1. /\ SameKey(ask) \in SUBSET EntriesOf(ask.table)
      /\ EntriesOf(ask.table) \in SUBSET EntriesOf(ask.table)
  BY DEF SameKey
<1>2. Waits(r, "statement") => WithId(ask) \in SUBSET EntriesOf(ask.table)
  <2>1. SUFFICES ASSUME Waits(r, "statement")
                 PROVE  \A row \in WithId(ask) : row.table_id = ask.table
    BY DEF WithId, EntriesOf
  <2>2. RequestOK(r) /\ req[r].at = "statement"
    BY <2>1, WaitsOK DEF Place
  <2>3. ask.entry = Null => WithId(ask) = {}
    BY VariableTablesAssumption
       DEF WithId, TablesInv, RowsInv, RowTypes, AnyDataRow
  <2>4. QED  BY <2>2, <2>3 DEF RequestOK, Checked
<1>3. UNCHANGED varTableData => FALSE
  BY DEF EntriesChange, EntriesOf
<1>4. CASE DeleteTable(r)
  <2>1. Replaces(EntriesOf(ask.table), ask.table)
    BY <1>1, <1>4, TakingReplaces DEF DeleteTable
  <2>2. ask.table = t /\ t \in Tables
    BY <2>1, ReplacesInItsTable
  <2>3. Executes(r, "delete table")
    BY <1>4 DEF DeleteTable
  <2>4. QED  BY <2>2, <2>3, WritersAreAllowed
<1>5. CASE CreateEntry(r)
  <2>1. Executes(r, "create entry") /\ Insert(ask) /\ ask.table \in Tables
    BY <1>3, <1>5 DEF CreateEntry, Accepted, rows
  <2>2. QED  BY <2>1, InsertsIntoItsTable, WritersAreAllowed
<1>6. CASE SetKey(r)
  <2>1. Executes(r, "set key") /\ ask.table \in Tables
    BY <1>3, <1>6 DEF SetKey, rows
  <2>2. CASE Insert(ask)
    BY <2>1, <2>2, InsertsIntoItsTable, WritersAreAllowed
  <2>3. CASE Changes((varTableData \ SameKey(ask)) \cup
                 {[row EXCEPT !.varValue = ask.value] : row \in SameKey(ask)})
    <3>1. Replaces(SameKey(ask), ask.table)
      BY <1>1, <2>3, UpdatingReplaces DEF Changes
    <3>2. ask.table = t
      BY <3>1, ReplacesInItsTable
    <3>3. QED  BY <2>1, <3>2, WritersAreAllowed
  <2>4. QED  BY <1>6, <2>1, <2>2, <2>3 DEF SetKey
<1>7. CASE DeleteKey(r)
  <2>1. Replaces(SameKey(ask), ask.table)
    BY <1>1, <1>7, TakingReplaces DEF DeleteKey, Changes
  <2>2. ask.table = t /\ t \in Tables
    BY <2>1, ReplacesInItsTable
  <2>3. Executes(r, "delete key")
    BY <1>7 DEF DeleteKey
  <2>4. QED  BY <2>2, <2>3, WritersAreAllowed
<1>8. CASE DeleteEntry(r)
  <2>1. Replaces(WithId(ask), ask.table)
    BY <1>2, <1>8, TakingReplaces DEF DeleteEntry, Changes, Executes
  <2>2. ask.table = t /\ t \in Tables
    BY <2>1, ReplacesInItsTable
  <2>3. Executes(r, "delete entry")
    BY <1>8 DEF DeleteEntry
  <2>4. QED  BY <2>2, <2>3, WritersAreAllowed
<1>9. CASE UpdateEntry(r)
  <2>1. Replaces(WithId(ask), ask.table)
    BY <1>2, <1>9, UpdatingReplaces DEF UpdateEntry, Changes, Executes
  <2>2. ask.table = t /\ t \in Tables
    BY <2>1, ReplacesInItsTable
  <2>3. Executes(r, "update entry")
    BY <1>9 DEF UpdateEntry
  <2>4. QED  BY <2>2, <2>3, WritersAreAllowed
<1>10. QED  BY <1>4, <1>5, <1>6, <1>7, <1>8, <1>9

\* All other steps leave the entries alone.
LEMMA OthersChangeNoEntry ==
  ASSUME [Next]_vars,
         ~ \E r \in Request :
             \/ DeleteTable(r) \/ CreateEntry(r) \/ SetKey(r) \/ DeleteKey(r)
             \/ DeleteEntry(r) \/ UpdateEntry(r)
  PROVE  UNCHANGED varTableData
<1>1. CASE UNCHANGED vars
  BY <1>1 DEF vars, rows
<1>2. CASE \E r \in Request : RequestStep(r)
  <2>1. PICK r \in Request : RequestStep(r)
    BY <1>2
  <2>2. CASE AskAsUser(r) \/ AskWithToken(r) \/ AskOnSocket(r)
    BY <2>2 DEF AskAsUser, AskWithToken, AskOnSocket, Begins, rows
  <2>3. CASE CheckEntry(r) \/ QueryEntryId(r) \/ QueryPermission(r) \/ Read(r)
             \/ QueryEntryIdOfNew(r)
    BY <2>3 DEF CheckEntry, QueryEntryId, QueryPermission, Read,
                QueryEntryIdOfNew, rows
  <2>4. CASE CreateTable(r) \/ AddPermission(r)
    BY <2>4 DEF CreateTable, AddPermission
  <2>5. QED  BY <2>1, <2>2, <2>3, <2>4 DEF RequestStep
<1>3. CASE \/ \E k \in Token, u \in User : CreateToken(k, u)
           \/ \E k \in Token : DeleteToken(k)
           \/ \E p \in RowsByHand : Grant(p) \/ Revoke(p)
           \/ Restart
  BY <1>3 DEF CreateToken, DeleteToken, Grant, Revoke, Restart, rows
<1>4. QED  BY <1>1, <1>2, <1>3 DEF Next, TableNext

\* The entries of a table change only by a request for it whose sender owned
\* the table or was given the right, however requests interleave.
THEOREM OnlyAllowedChanges == Spec => ChangesAreAllowed
<1>1. ASSUME TablesInv, [Next]_vars, NEW t \in TableId, EntriesChange(t)
      PROVE  \E r \in Request : IsAllowedTo(r, t)
  <2>1. ~ UNCHANGED varTableData
    BY <1>1 DEF EntriesChange, EntriesOf
  <2>2. PICK r \in Request :
          \/ DeleteTable(r) \/ CreateEntry(r) \/ SetKey(r) \/ DeleteKey(r)
          \/ DeleteEntry(r) \/ UpdateEntry(r)
    BY <1>1, <2>1, OthersChangeNoEntry
  <2>3. QED  BY <1>1, <2>2, StatementsChangeTheirTable
<1>2. TablesInv /\ [Next]_vars =>
        [\A t \in TableId :
           {row \in varTableData' : row.table_id = t} # EntriesOf(t) =>
             \E r \in Request :
               /\ Waits(r, "statement") /\ req[r].ask.table = t
               /\ \/ req[r].ask.handler.via = "user" /\ Owns(req[r].ask)
                  \/ held[r]]_vars
  BY <1>1 DEF EntriesChange, IsAllowedTo
<1>3. QED  BY TablesInvariant, <1>2, PTL DEF Spec, ChangesAreAllowed
=============================================================================
