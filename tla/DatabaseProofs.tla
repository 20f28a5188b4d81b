---------------------------- MODULE DatabaseProofs ----------------------------
(***************************************************************************)
(* Proofs about what the database keeps: the columns and passkeys of a     *)
(* user in AuthMethods, for every set of passkeys and passwords, and the   *)
(* tables in SchemaUpdate, for any number of stops and failures.           *)
(***************************************************************************)
EXTENDS AuthMethods, SchemaUpdate, FiniteSetTheorems, SequenceTheorems,
        WellFoundedInduction, TLAPS

-----------------------------------------------------------------------------
(* With any number of requests: the columns agree.                         *)

TypeAndColumns == TypeOK /\ PasswordMatchesPermission

\* A request that changes its state only keeps the types.
LEMMA RequestKeepsTypes ==
  ASSUME TypeAndColumns, NEW r \in Request, NEW state \in RequestState,
         GoesTo(r, state) \/ Begins(r, state),
         UNCHANGED columns
  PROVE  TypeAndColumns'
<1>1. req' \in [Request -> RequestState]
  BY DEF TypeAndColumns, TypeOK, GoesTo, Begins
<1>2. overlapped' \in BOOLEAN
  BY DEF TypeAndColumns, TypeOK, GoesTo, Begins
<1>3. QED
  BY <1>1, <1>2 DEF TypeAndColumns, TypeOK, PasswordMatchesPermission, columns

\* What a request carries depends on what it waits for.
LEMMA CarriedByPlace ==
  ASSUME NEW x \in RequestState
  PROVE  /\ x.at \in {"count before disallow", "disallow"} =>
              x.given \in Password
         /\ x.at \in {"query user", "count before delete", "delete"} =>
              x.id \in PasskeyId
<1>1. CASE x = Idle
  BY <1>1 DEF Idle
<1>2. CASE x \in [at: {"count before disallow", "disallow"}, given: Password]
  BY <1>2
<1>3. CASE x \in [at: {"query user", "count before delete", "delete"},
                 id: PasskeyId]
  BY <1>3
<1>4. QED  BY <1>1, <1>2, <1>3 DEF RequestState

\* The states the handlers make are states of a request.
LEMMA StatesOfRequests ==
  /\ Idle \in RequestState
  /\ \A p \in Password : \A place \in {"count before disallow", "disallow"} :
       [at |-> place, given |-> p] \in RequestState
  /\ \A id \in PasskeyId :
       \A place \in {"query user", "count before delete", "delete"} :
         [at |-> place, id |-> id] \in RequestState
BY DEF RequestState

\* Every step keeps types and columns.
LEMMA StepKeepsColumns ==
  ASSUME TypeAndColumns, [Next]_vars
  PROVE  TypeAndColumns'
<1> USE NoPasswordAssumption
<1>1. ASSUME NEW old \in Password, NEW new \in Password,
             ChangePassword(old, new)
      PROVE  TypeAndColumns'
  BY <1>1 DEF ChangePassword, TypeAndColumns, TypeOK,
              PasswordMatchesPermission
<1>2. ASSUME NEW p \in Password, AllowPassword(p)
      PROVE  TypeAndColumns'
  BY <1>2 DEF AllowPassword, TypeAndColumns, TypeOK,
              PasswordMatchesPermission
<1>3. ASSUME NEW r \in Request, NEW p \in Password, AskToDisallow(r, p)
      PROVE  TypeAndColumns'
  <2>1. [at |-> "count before disallow", given |-> p] \in RequestState
    BY DEF RequestState
  <2>2. QED  BY <1>3, <2>1, RequestKeepsTypes DEF AskToDisallow
<1>4. ASSUME NEW r \in Request, CountBeforeDisallow(r)
      PROVE  TypeAndColumns'
  <2>1. /\ [at |-> "disallow", given |-> req[r].given] \in RequestState
        /\ Idle \in RequestState
    BY <1>4, CarriedByPlace, StatesOfRequests
       DEF CountBeforeDisallow, TypeAndColumns, TypeOK
  <2>2. QED  BY <1>4, <2>1, RequestKeepsTypes DEF CountBeforeDisallow
<1>5. ASSUME NEW r \in Request, Disallow(r)
      PROVE  TypeAndColumns'
  <2>1. req' \in [Request -> RequestState]
    BY <1>5 DEF Disallow, GoesTo, TypeAndColumns, TypeOK, RequestState, Idle
  <2>2. overlapped' \in BOOLEAN
    BY <1>5 DEF Disallow, GoesTo, TypeAndColumns, TypeOK
  <2>3. QED
    BY <1>5, <2>1, <2>2 DEF Disallow, Cleared, TypeAndColumns, TypeOK,
                      PasswordMatchesPermission
<1>6. ASSUME NEW id \in PasskeyId, CreatePasskey(id)
      PROVE  TypeAndColumns'
  BY <1>6 DEF CreatePasskey, TypeAndColumns, TypeOK,
              PasswordMatchesPermission
<1>7. ASSUME NEW r \in Request, NEW id \in PasskeyId, AskToDelete(r, id)
      PROVE  TypeAndColumns'
  <2>1. [at |-> "query user", id |-> id] \in RequestState
    BY DEF RequestState
  <2>2. QED  BY <1>7, <2>1, RequestKeepsTypes DEF AskToDelete
<1>8. ASSUME NEW r \in Request, QueryUser(r)
      PROVE  TypeAndColumns'
  <2>1. [at |-> IF allowPassword THEN "delete" ELSE "count before delete",
         id |-> req[r].id] \in RequestState
    BY <1>8, CarriedByPlace, StatesOfRequests
       DEF QueryUser, TypeAndColumns, TypeOK
  <2>2. QED  BY <1>8, <2>1, RequestKeepsTypes DEF QueryUser
<1>9. ASSUME NEW r \in Request, CountBeforeDelete(r)
      PROVE  TypeAndColumns'
  <2>1. /\ [at |-> "delete", id |-> req[r].id] \in RequestState
        /\ Idle \in RequestState
    BY <1>9, CarriedByPlace, StatesOfRequests
       DEF CountBeforeDelete, TypeAndColumns, TypeOK
  <2>2. QED  BY <1>9, <2>1, RequestKeepsTypes DEF CountBeforeDelete
<1>10. ASSUME NEW r \in Request, Delete(r)
       PROVE  TypeAndColumns'
  <2>1. req' \in [Request -> RequestState]
    BY <1>10 DEF Delete, GoesTo, TypeAndColumns, TypeOK, RequestState, Idle
  <2>2. overlapped' \in BOOLEAN
    BY <1>10 DEF Delete, GoesTo, TypeAndColumns, TypeOK
  <2>3. QED
    BY <1>10, <2>1, <2>2 DEF Delete, TypeAndColumns, TypeOK,
                       PasswordMatchesPermission
<1>11. CASE UNCHANGED vars
  BY <1>11 DEF vars, TypeAndColumns, TypeOK, PasswordMatchesPermission
<1>12. QED
  BY <1>1, <1>2, <1>3, <1>4, <1>5, <1>6, <1>7, <1>8, <1>9, <1>10, <1>11
     DEF Next

\* The invariant holds in every state of the specification.
THEOREM ColumnsInvariant == Spec => []TypeAndColumns
<1>1. Init => TypeAndColumns
  BY NoPasswordAssumption DEF Init, TypeAndColumns, TypeOK,
     PasswordMatchesPermission, RequestState, Idle
<1>2. QED  BY <1>1, StepKeepsColumns, PTL DEF Spec

\* However requests overlap, the columns allowPassword and password agree.
THEOREM ColumnsAgree == Spec => []PasswordMatchesPermission
<1>1. TypeAndColumns => PasswordMatchesPermission
  BY DEF TypeAndColumns
<1>2. QED  BY ColumnsInvariant, <1>1, PTL

-----------------------------------------------------------------------------
(* One request at a time: a check still holds when the statement it        *)
(* guards is executed.                                                     *)

OneUnderWay == \A r, q \in Request : req[r] # Idle /\ req[q] # Idle => r = q

CheckedBeforeWritten ==
  \A r \in Request :
    /\ req[r].at = "disallow" => passkeys # {}
    /\ req[r].at = "delete" => allowPassword \/ passkeys \ {req[r].id} # {}

MethodInv ==
  /\ TypeAndColumns
  /\ IsFiniteSet(passkeys)
  /\ ~overlapped => OneUnderWay /\ OneMethodLeft /\ CheckedBeforeWritten

\* The handlers' counts mean what they are compared for.
LEMMA CountsMeanPasskeys ==
  ASSUME IsFiniteSet(passkeys)
  PROVE  /\ EnoughToDisallow => passkeys # {}
         /\ EnoughToDelete => \A id : passkeys \ {id} # {}
<1>1. EnoughToDisallow => passkeys # {}
  BY FS_EmptySet DEF EnoughToDisallow
<1>2. ASSUME EnoughToDelete, NEW id, passkeys \ {id} = {}
      PROVE  FALSE
  <2>1. CASE passkeys = {}
    BY <1>2, <2>1, FS_EmptySet DEF EnoughToDelete
  <2>2. CASE passkeys = {id}
    <3>1. Cardinality({id}) = 1
      BY FS_Singleton
    <3>2. QED  BY <1>2, <2>2, <3>1 DEF EnoughToDelete
  <2>3. QED  BY <1>2, <2>1, <2>2
<1>3. QED  BY <1>1, <1>2

\* The history is never forgotten, and while requests do not overlap one is
\* under way at most.
LEMMA StepKeepsOneUnderWay ==
  ASSUME MethodInv, [Next]_vars, ~overlapped'
  PROVE  ~overlapped /\ OneUnderWay'
<1>0. /\ req \in [Request -> RequestState]
      /\ ~overlapped => OneUnderWay
  BY DEF MethodInv, TypeAndColumns, TypeOK
<1> USE <1>0 DEF OneUnderWay, GoesTo, Begins
<1>1. ASSUME NEW r \in Request, NEW p \in Password, AskToDisallow(r, p)
      PROVE  ~overlapped /\ OneUnderWay'
  BY <1>1 DEF AskToDisallow
<1>2. ASSUME NEW r \in Request, NEW id \in PasskeyId, AskToDelete(r, id)
      PROVE  ~overlapped /\ OneUnderWay'
  BY <1>2 DEF AskToDelete
<1>3. ASSUME NEW r \in Request,
             \/ CountBeforeDisallow(r) \/ Disallow(r) \/ QueryUser(r)
             \/ CountBeforeDelete(r) \/ Delete(r)
      PROVE  ~overlapped /\ OneUnderWay'
  <2>1. req[r] # Idle
    <3>1. req[r].at # "idle"
      BY <1>3 DEF CountBeforeDisallow, Disallow, QueryUser,
                  CountBeforeDelete, Delete
    <3>2. Idle.at = "idle"
      BY DEF Idle
    <3>3. QED  BY <3>1, <3>2
  <2>2. PICK state : GoesTo(r, state)
    BY <1>3 DEF CountBeforeDisallow, Disallow, QueryUser, CountBeforeDelete,
                Delete
  <2>3. ~overlapped /\ \A q \in Request : q # r => req'[q] = req[q]
    BY <2>2
  <2>4. QED  BY <2>1, <2>3
<1>4. CASE \/ \E old, new \in Password : ChangePassword(old, new)
           \/ \E p \in Password : AllowPassword(p)
           \/ \E id \in PasskeyId : CreatePasskey(id)
           \/ UNCHANGED vars
  BY <1>4 DEF ChangePassword, AllowPassword, CreatePasskey, vars
<1>5. QED  BY <1>1, <1>2, <1>3, <1>4 DEF Next

\* Every step keeps the invariant: as long as requests do not overlap, none
\* takes the last method.
LEMMA StepKeepsMethod ==
  ASSUME MethodInv, [Next]_vars
  PROVE  MethodInv'
<1>1. TypeAndColumns'
  BY StepKeepsColumns DEF MethodInv
<1>2. IsFiniteSet(passkeys')
  <2>1. \A id : IsFiniteSet(passkeys \cup {id}) /\ IsFiniteSet(passkeys \ {id})
    BY FS_AddElement, FS_RemoveElement DEF MethodInv
  <2>2. columns' = columns => passkeys' = passkeys
    BY DEF columns
  <2>3. passkeys' = passkeys \/ \E id : \/ passkeys' = passkeys \cup {id}
                                        \/ passkeys' = passkeys \ {id}
    BY <2>2 DEF Next, vars, ChangePassword, AllowPassword, AskToDisallow,
           CountBeforeDisallow, Disallow, CreatePasskey, AskToDelete,
           QueryUser, CountBeforeDelete, Delete
  <2>4. QED  BY <2>1, <2>3 DEF MethodInv
<1>3. ASSUME ~overlapped'
      PROVE  OneMethodLeft' /\ CheckedBeforeWritten'
  <2>0. ~overlapped /\ OneUnderWay'
    BY <1>3, StepKeepsOneUnderWay
  <2>a. OneUnderWay /\ OneMethodLeft /\ CheckedBeforeWritten
    BY <2>0 DEF MethodInv
  <2>b. req \in [Request -> RequestState] /\ IsFiniteSet(passkeys)
    BY DEF MethodInv, TypeAndColumns, TypeOK
  <2> USE <2>a, <2>b DEF OneMethodLeft, CheckedBeforeWritten, columns
  <2>1. ASSUME NEW old \in Password, NEW new \in Password,
               ChangePassword(old, new)
        PROVE  OneMethodLeft' /\ CheckedBeforeWritten'
    BY <2>1 DEF ChangePassword
  <2>2. ASSUME NEW p \in Password, AllowPassword(p)
        PROVE  OneMethodLeft' /\ CheckedBeforeWritten'
    BY <2>2 DEF AllowPassword
  <2>3. ASSUME NEW id \in PasskeyId, CreatePasskey(id)
        PROVE  OneMethodLeft' /\ CheckedBeforeWritten'
    BY <2>3 DEF CreatePasskey
  <2>4. ASSUME NEW r \in Request, NEW p \in Password, AskToDisallow(r, p)
        PROVE  OneMethodLeft' /\ CheckedBeforeWritten'
    BY <2>4 DEF AskToDisallow, Begins
  <2>5. ASSUME NEW r \in Request, CountBeforeDisallow(r)
        PROVE  OneMethodLeft' /\ CheckedBeforeWritten'
    BY <2>5, CountsMeanPasskeys
       DEF CountBeforeDisallow, GoesTo, Idle
  <2>6. ASSUME NEW r \in Request, Disallow(r)
        PROVE  OneMethodLeft' /\ CheckedBeforeWritten'
    <3>1. passkeys # {} /\ passkeys' = passkeys
      BY <2>6 DEF Disallow
    <3>2. \A q \in Request : req'[q].at = "idle"
      BY <2>6 DEF Disallow, GoesTo, Idle, OneUnderWay
    <3>3. QED  BY <3>1, <3>2
  <2>7. ASSUME NEW r \in Request, NEW id \in PasskeyId, AskToDelete(r, id)
        PROVE  OneMethodLeft' /\ CheckedBeforeWritten'
    BY <2>7 DEF AskToDelete, Begins
  <2>8. ASSUME NEW r \in Request, QueryUser(r)
        PROVE  OneMethodLeft' /\ CheckedBeforeWritten'
    BY <2>8 DEF QueryUser, GoesTo
  <2>9. ASSUME NEW r \in Request, CountBeforeDelete(r)
        PROVE  OneMethodLeft' /\ CheckedBeforeWritten'
    BY <2>9, CountsMeanPasskeys
       DEF CountBeforeDelete, GoesTo, Idle
  <2>10. ASSUME NEW r \in Request, Delete(r)
         PROVE  OneMethodLeft' /\ CheckedBeforeWritten'
    <3>1. /\ allowPassword \/ passkeys \ {req[r].id} # {}
          /\ allowPassword' = allowPassword
          /\ passkeys' = passkeys \ {req[r].id}
      BY <2>10 DEF Delete
    <3>2. \A q \in Request : req'[q].at = "idle"
      BY <2>10 DEF Delete, GoesTo, Idle, OneUnderWay
    <3>3. QED  BY <3>1, <3>2
  <2>11. CASE UNCHANGED vars
    BY <2>11 DEF vars
  <2>12. QED
    BY <2>1, <2>2, <2>3, <2>4, <2>5, <2>6, <2>7, <2>8, <2>9, <2>10, <2>11
       DEF Next
<1>4. QED  BY <1>1, <1>2, <1>3, StepKeepsOneUnderWay DEF MethodInv

\* A user whose requests did not overlap has a way to log in, whatever the
\* passkeys and passwords: the handlers' checks suffice then.
THEOREM ChecksSufficeOneAtATime == Spec => []OneAtATimeKeepsAMethod
<1>1. Init => MethodInv
  <2>1. Init => TypeAndColumns
    BY NoPasswordAssumption DEF Init, TypeAndColumns, TypeOK,
       PasswordMatchesPermission, RequestState, Idle
  <2>2. Init => IsFiniteSet(passkeys)
    BY FS_EmptySet DEF Init
  <2>3. Init => OneUnderWay /\ OneMethodLeft /\ CheckedBeforeWritten
    BY DEF Init, OneUnderWay, OneMethodLeft, CheckedBeforeWritten, Idle
  <2>4. QED  BY <2>1, <2>2, <2>3 DEF MethodInv
<1>2. MethodInv /\ [Next]_vars => MethodInv'
  BY StepKeepsMethod
<1>3. MethodInv => OneAtATimeKeepsAMethod
  BY DEF MethodInv, OneMethodLeft, OneAtATimeKeepsAMethod
<1>4. QED  BY <1>1, <1>2, <1>3, PTL DEF Spec

-----------------------------------------------------------------------------
(* The tables, with any number of stops: places of lists                   *)

\* What holds at first and goes over to the next place holds at all of them.
LEMMA Places ==
  ASSUME NEW n \in Nat, NEW T, 0 \in T,
         \A i \in 1 .. n : i - 1 \in T => i \in T
  PROVE  \A i \in 0 .. n : i \in T
<1> DEFINE S == {i \in 0 .. n : i \notin T}
<1>1. CASE S = {}
  BY <1>1
<1>2. CASE S # {}
  <2>1. S \subseteq Nat
    OBVIOUS
  <2>2. PICK i \in S : \A j \in S : ~(<<j, i>> \in OpToRel(<, Nat))
    BY <1>2, <2>1, NatLessThanWellFounded, WFMin
  <2>3. \A j \in S : ~(j < i)
    BY <2>1, <2>2 DEF OpToRel
  <2>4. i \in 1 .. n /\ i - 1 \notin S /\ i - 1 \in 0 .. n
    BY <2>3
  <2>5. QED  BY <2>2, <2>4
<1>3. QED  BY <1>1, <1>2

-----------------------------------------------------------------------------
(* The statements                                                          *)

\* the statements of the versions before v
Before(v) == CASE v = 1 -> 0 [] v = 2 -> 1 [] v = 3 -> 7

\* The versions and how many statements each has
LEMMA ScriptIs ==
  /\ Latest = 3
  /\ Script[1] = SchemaTable /\ Script[2] = FirstTables
  /\ Script[3] = Alterations
  /\ Len(SchemaTable) = 1 /\ Len(FirstTables) = 6 /\ Len(Alterations) = 22
BY DEF Script, Latest, SchemaTable, FirstTables, Alterations

\* Each statement of the three versions
Statements ==
  {SchemaTable[1]} \cup {FirstTables[i] : i \in 1 .. 6}
  \cup {Alterations[i] : i \in 1 .. 22}

LEMMA StatementsAre ==
  /\ SchemaTable \in Seq(Statements)
  /\ FirstTables \in Seq(Statements)
  /\ Alterations \in Seq(Statements)
<1>1. SchemaTable = [i \in 1 .. 1 |-> SchemaTable[i]] /\ \A i \in 1 .. 1 : i = 1
  BY DEF SchemaTable
<1>2. FirstTables = [i \in 1 .. 6 |-> FirstTables[i]]
  BY DEF FirstTables
<1>3. Alterations = [i \in 1 .. 22 |-> Alterations[i]]
  BY DEF Alterations
<1>4. /\ \A i \in 1 .. 1 : SchemaTable[i] \in Statements
      /\ \A i \in 1 .. 6 : FirstTables[i] \in Statements
      /\ \A i \in 1 .. 22 : Alterations[i] \in Statements
  BY <1>1 DEF Statements
<1> HIDE DEF Statements
<1>5. SchemaTable \in Seq(Statements)
  BY <1>1, <1>4
<1>6. FirstTables \in Seq(Statements)
  BY <1>2, <1>4
<1>7. Alterations \in Seq(Statements)
  BY <1>3, <1>4
<1>8. QED  BY <1>5, <1>6, <1>7

\* The places of two lists one after the other
LEMMA ConcatIs ==
  ASSUME NEW S, NEW s \in Seq(S), NEW t \in Seq(S)
  PROVE  /\ s \o t \in Seq(S) /\ Len(s \o t) = Len(s) + Len(t)
         /\ \A i \in 1 .. Len(s) : (s \o t)[i] = s[i]
         /\ \A j \in 1 .. Len(t) : (s \o t)[Len(s) + j] = t[j]
<1> DEFINE u == s \o t
           m == Len(s)
           n == Len(t)
<1>1. /\ u \in Seq(S) /\ Len(u) = m + n
      /\ \A i \in 1 .. m + n : u[i] = IF i <= m THEN s[i] ELSE t[i - m]
  BY ConcatProperties
<1>2. m \in Nat /\ n \in Nat
  OBVIOUS
<1> HIDE DEF m, n, u
<1>3. \A i \in 1 .. m : u[i] = s[i]
  BY <1>1, <1>2
<1>4. ASSUME NEW j \in 1 .. n PROVE u[m + j] = t[j]
  <2>1. m + j \in 1 .. m + n /\ ~(m + j <= m) /\ (m + j) - m = j
    BY <1>2
  <2>2. QED  BY <1>1, <2>1
<1>5. QED  BY <1>1, <1>3, <1>4 DEF m, n, u

\* The statements of the versions one after the other
LEMMA AllStatementsAre ==
  /\ Len(AllStatements) = 29
  /\ AllStatements[1] = SchemaTable[1]
  /\ \A j \in 1 .. 6 : AllStatements[1 + j] = FirstTables[j]
  /\ \A j \in 1 .. 22 : AllStatements[7 + j] = Alterations[j]
<1>1. AllStatements = SchemaTable \o FirstTables \o Alterations
  BY ScriptIs DEF AllStatements
<1> DEFINE s == SchemaTable \o FirstTables
<1>2. /\ s \in Seq(Statements) /\ Len(s) = 1 + 6
      /\ \A i \in 1 .. 1 : s[i] = SchemaTable[i]
      /\ \A j \in 1 .. 6 : s[1 + j] = FirstTables[j]
  <2> DEFINE one == SchemaTable
             six == FirstTables
  <2>1. one \in Seq(Statements) /\ six \in Seq(Statements)
    BY StatementsAre
  <2>2. Len(one) = 1 /\ Len(six) = 6
    BY ScriptIs
  <2> HIDE DEF one, six, s
  <2>3. /\ one \o six \in Seq(Statements) /\ Len(one \o six) = Len(one) + Len(six)
        /\ \A i \in 1 .. Len(one) : (one \o six)[i] = one[i]
        /\ \A j \in 1 .. Len(six) : (one \o six)[Len(one) + j] = six[j]
    BY <2>1, ConcatIs
  <2>4. QED  BY <2>2, <2>3 DEF s, one, six
<1>3. 1 + 6 = 7 /\ 7 + 22 = 29 /\ 1 \in 1 .. 1 /\ 1 \in 1 .. 7
      /\ \A j \in 1 .. 6 : 1 + j \in 1 .. 7
  OBVIOUS
<1> HIDE DEF s
<1>4. /\ Len(s \o Alterations) = 7 + 22
      /\ \A i \in 1 .. 7 : (s \o Alterations)[i] = s[i]
      /\ \A j \in 1 .. 22 : (s \o Alterations)[7 + j] = Alterations[j]
  <2> DEFINE last == Alterations
  <2>1. s \in Seq(Statements) /\ last \in Seq(Statements)
    BY <1>2, StatementsAre
  <2>2. Len(s) = 7 /\ Len(last) = 22
    BY <1>2, <1>3, ScriptIs
  <2> HIDE DEF last
  <2>3. /\ Len(s \o last) = Len(s) + Len(last)
        /\ \A i \in 1 .. Len(s) : (s \o last)[i] = s[i]
        /\ \A j \in 1 .. Len(last) : (s \o last)[Len(s) + j] = last[j]
    BY <2>1, ConcatIs
  <2>4. QED  BY <2>2, <2>3 DEF last
<1>5. QED  BY <1>1, <1>2, <1>3, <1>4 DEF s

-----------------------------------------------------------------------------
(* The tables of a start without a stop                                    *)

\* f is the tables after each of the first n statements.
IsMade(f, n) ==
  f = [i \in 0 .. n |->
         IF i = 0 THEN {} ELSE After(f[i - 1], AllStatements[i])]

\* The recursive definition of Made defines something.
LEMMA MadeExists == \E f : IsMade(f, 29)
<1> DEFINE T == {i \in 0 .. 29 : \E f : IsMade(f, i)}
<1>1. 0 \in T
  <2> DEFINE f == [i \in 0 .. 0 |-> {}]
  <2>1. \A i \in 0 .. 0 : i = 0
    OBVIOUS
  <2>2. IsMade(f, 0)
    BY <2>1 DEF IsMade
  <2> HIDE DEF f
  <2>3. QED  BY <2>2
<1>2. ASSUME NEW i \in 1 .. 29, i - 1 \in T
      PROVE  i \in T
  <2>1. PICK f : IsMade(f, i - 1)
    BY <1>2
  <2> DEFINE Made1(before, j) == After(before, AllStatements[j])
             new == [j \in 0 .. i |-> IF j < i THEN f[j] ELSE Made1(f[i - 1], i)]
  <2>2. \A j \in 0 .. i : j = i \/ j \in 0 .. i - 1
    OBVIOUS
  <2>3. \A j \in 0 .. i - 1 : j - 1 < i /\ j < i /\ (j # 0 => j - 1 \in 0 .. i)
    OBVIOUS
  <2>4. \A j \in 0 .. i - 1 : f[j] = IF j = 0 THEN {} ELSE Made1(f[j - 1], j)
    BY <2>1 DEF IsMade
  <2> HIDE DEF Made1
  <2>5. \A j \in 0 .. i : new[j] = IF j = 0 THEN {} ELSE Made1(new[j - 1], j)
    BY <2>2, <2>3, <2>4
  <2>6. new = [j \in 0 .. i |-> new[j]]
    OBVIOUS
  <2> HIDE DEF new
  <2>7. new = [j \in 0 .. i |-> IF j = 0 THEN {} ELSE Made1(new[j - 1], j)]
    BY <2>5, <2>6
  <2>8. IsMade(new, i)
    BY <2>7 DEF IsMade, Made1
  <2>9. QED  BY <2>8
<1> HIDE DEF T
<1>3. 29 \in T
  BY <1>1, <1>2, Places
<1>4. QED  BY <1>3 DEF T

\* Each statement makes the next of these tables.
LEMMA MadeIs ==
  /\ Made[0] = {}
  /\ \A i \in 1 .. 29 : Made[i] = After(Made[i - 1], AllStatements[i])
<1> DEFINE F == CHOOSE f : IsMade(f, 29)
<1>1. IsMade(F, 29)
  BY MadeExists
<1>2. Made = F
  BY AllStatementsAre DEF Made, IsMade
<1> HIDE DEF F
<1>3. \A i \in 1 .. 29 : i \in 0 .. 29 /\ i # 0
  OBVIOUS
<1>4. QED  BY <1>1, <1>2, <1>3 DEF IsMade

-----------------------------------------------------------------------------
(* What the statements keep                                                *)

\* A table that exists is not created again, and none is lost.
LEMMA CreateIs ==
  ASSUME NEW d, NEW stmt, stmt.op = "create"
  PROVE  /\ d \subseteq After(d, stmt)
         /\ Exists(After(d, stmt), stmt.table)
         /\ Exists(d, stmt.table) => After(d, stmt) = d
BY DEF After, Exists

LEMMA FirstTablesAre == \A j \in 1 .. 6 : FirstTables[j].op = "create"
<1>1. \A table, parts, refs : Create(table, parts, refs).op = "create"
  BY DEF Create
<1>2. \A j \in 1 .. 6 : j = 1 \/ j = 2 \/ j = 3 \/ j = 4 \/ j = 5 \/ j = 6
  OBVIOUS
<1>3. /\ FirstTables[1].op = "create" /\ FirstTables[2].op = "create"
      /\ FirstTables[3].op = "create" /\ FirstTables[4].op = "create"
      /\ FirstTables[5].op = "create" /\ FirstTables[6].op = "create"
  BY <1>1 DEF FirstTables
<1>4. QED  BY <1>2, <1>3

\* The tables of the second version that have been made can be made again.
LEMMA FirstTablesAgain ==
  \A i \in 0 .. 6 :
    /\ Exists(Made[1 + i], "SCHEMA")
    /\ \A j \in 1 .. i : After(Made[1 + i], FirstTables[j]) = Made[1 + i]
<1> DEFINE Has(i) == /\ Exists(Made[1 + i], "SCHEMA")
                     /\ \A j \in 1 .. i : Exists(Made[1 + i], FirstTables[j].table)
           T == {i \in 0 .. 6 : Has(i)}
<1>1. 0 \in T
  <2>1. Made[1] = After(Made[0], SchemaTable[1])
    <3>1. 1 \in 1 .. 29 /\ 1 - 1 = 0
      OBVIOUS
    <3>2. QED  BY <3>1, MadeIs, AllStatementsAre
  <2>2. SchemaTable[1].op = "create" /\ SchemaTable[1].table = "SCHEMA"
    BY DEF SchemaTable, Create
  <2>3. Exists(Made[1], "SCHEMA")
    BY <2>1, <2>2, CreateIs
  <2>4. 1 + 0 = 1 /\ 1 .. 0 = {} /\ 0 \in 0 .. 6
    OBVIOUS
  <2>5. QED  BY <2>3, <2>4
<1>2. ASSUME NEW i \in 1 .. 6, i - 1 \in T
      PROVE  i \in T
  <2>1. Made[1 + i] = After(Made[i], FirstTables[i])
    <3>1. 1 + i \in 1 .. 29 /\ (1 + i) - 1 = i
      OBVIOUS
    <3>2. QED  BY <3>1, MadeIs, AllStatementsAre
  <2>2. /\ Made[i] \subseteq Made[1 + i]
        /\ Exists(Made[1 + i], FirstTables[i].table)
    BY <2>1, FirstTablesAre, CreateIs
  <2>3. 1 + (i - 1) = i /\ i \in 0 .. 6 /\ \A j \in 1 .. i : j = i \/ j \in 1 .. i - 1
    OBVIOUS
  <2>4. /\ Exists(Made[i], "SCHEMA")
        /\ \A j \in 1 .. i - 1 : Exists(Made[i], FirstTables[j].table)
    BY <1>2, <2>3
  <2>5. QED  BY <2>2, <2>3, <2>4 DEF Exists
<1> HIDE DEF T
<1>3. \A i \in 0 .. 6 : i \in T
  BY <1>1, <1>2, Places
<1>4. ASSUME NEW i \in 0 .. 6, NEW j \in 1 .. i
      PROVE  After(Made[1 + i], FirstTables[j]) = Made[1 + i]
  <2>1. Exists(Made[1 + i], FirstTables[j].table) /\ j \in 1 .. 6
    BY <1>3 DEF T
  <2>2. QED  BY <2>1, FirstTablesAre, CreateIs
<1>5. QED  BY <1>3, <1>4 DEF T

\* A statement that neither drops the table SCHEMA nor the column that the
\* third statement of the last version adds, and brings nothing back that the
\* first two have dropped.
Harmless(stmt) ==
  /\ stmt.op \in {"create", "dropTable", "modify", "dropIfExists", "add",
                  "drop", "rename"}
  /\ stmt.op = "dropTable" => stmt.table = "accountOptions"
  /\ stmt.op \in {"drop", "dropIfExists", "rename"} =>
       stmt.part # "table" /\ stmt.part # "created_at"
  /\ stmt.op \in {"create", "add", "rename"} => stmt.table # "accountOptions"
  /\ stmt.op = "create" => stmt.table # "varTableList"
  /\ stmt.op = "add" => stmt.part # "unique name"
  /\ stmt.op = "rename" => stmt.to # "unique name"

LEMMA AlterationsAreHarmless == \A j \in 1 .. 22 : Harmless(Alterations[j])
<1>1. Harmless(DropTable("accountOptions"))
  BY DEF Harmless, DropTable
<1>2. \A table, part :
        part # "table" /\ part # "created_at" =>
          Harmless(DropIfExists(table, part)) /\ Harmless(Drop(table, part))
  BY DEF Harmless, DropIfExists, Drop
<1>3. \A table, part :
        table # "accountOptions" /\ part # "unique name" =>
          Harmless(Add(table, part))
  BY DEF Harmless, Add
<1>4. Harmless(Modify("accounts"))
  BY DEF Harmless, Modify
<1>5. Harmless(Rename("varTableList", "name", "nickname"))
  BY DEF Harmless, Rename
<1>6. \A table, parts, refs :
        table # "accountOptions" /\ table # "varTableList" =>
          Harmless(Create(table, parts, refs))
  BY DEF Harmless, Create
<1>7. \A table : Harmless(DropReference(table))
  BY <1>2 DEF DropReference
<1>8. \A table : table # "accountOptions" => Harmless(AddReference(table))
  BY <1>3 DEF AddReference
<1>9. \A j \in 1 .. 22 :
        \/ j = 1 \/ j = 2 \/ j = 3 \/ j = 4 \/ j = 5 \/ j = 6 \/ j = 7 \/ j = 8
        \/ j = 9 \/ j = 10 \/ j = 11 \/ j = 12 \/ j = 13 \/ j = 14 \/ j = 15
        \/ j = 16 \/ j = 17 \/ j = 18 \/ j = 19 \/ j = 20 \/ j = 21 \/ j = 22
  OBVIOUS
<1>10. /\ Alterations[1] = DropTable("accountOptions")
       /\ Alterations[2] = DropIfExists("varTableList", "unique name")
       /\ Alterations[3] = Add("varTableList", "created_at")
       /\ Alterations[4] = Add("varTableData", "varKeyInTable")
       /\ Alterations[5] = Add("passkey", "nickname")
       /\ Alterations[6] = Add("passkey", "id")
       /\ Alterations[7] = Add("jwtToken", "nickname")
       /\ Alterations[8] = Add("accounts", "allowPassword, nickname")
       /\ Alterations[9] = Modify("accounts")
       /\ Alterations[10] = Rename("varTableList", "name", "nickname")
  BY DEF Alterations
<1>11. /\ Alterations[11] = DropReference("passkey")
       /\ Alterations[12] = AddReference("passkey")
       /\ Alterations[13] = DropReference("varTableList")
       /\ Alterations[14] = AddReference("varTableList")
       /\ Alterations[15] = DropReference("varTableData")
       /\ Alterations[16] = AddReference("varTableData")
       /\ Alterations[17] = DropReference("jwtToken")
       /\ Alterations[18] = AddReference("jwtToken")
  BY DEF Alterations
<1>12. \A j \in 19 .. 22 :
         \E table, parts, refs :
           /\ Alterations[j] = Create(table, parts, refs)
           /\ table # "accountOptions" /\ table # "varTableList"
  <2>1. \A j \in 19 .. 22 : j = 19 \/ j = 20 \/ j = 21 \/ j = 22
    OBVIOUS
  <2>2. /\ Alterations[19] = Create("groupList", {}, {"accounts"})
        /\ Alterations[20] = Create("groupContent", {},
                                    {"groupList", "jwtToken", "accounts"})
        /\ Alterations[21] = Create("permissionEntry", {}, {"varTableList"})
        /\ Alterations[22] =
             Create("permission", {},
                    {"permissionEntry", "jwtToken", "accounts", "groupList"})
    BY DEF Alterations
  <2>3. QED  BY <2>1, <2>2
<1>13. \A j \in 1 .. 10 : Harmless(Alterations[j])
  <2>1. \A j \in 1 .. 10 :
          \/ j = 1 \/ j = 2 \/ j = 3 \/ j = 4 \/ j = 5
          \/ j = 6 \/ j = 7 \/ j = 8 \/ j = 9 \/ j = 10
    OBVIOUS
  <2>2. /\ Harmless(Alterations[1]) /\ Harmless(Alterations[2])
        /\ Harmless(Alterations[3]) /\ Harmless(Alterations[4])
        /\ Harmless(Alterations[5]) /\ Harmless(Alterations[6])
        /\ Harmless(Alterations[7]) /\ Harmless(Alterations[8])
        /\ Harmless(Alterations[9]) /\ Harmless(Alterations[10])
    BY <1>1, <1>2, <1>3, <1>4, <1>5, <1>10
  <2>3. QED  BY <2>1, <2>2
<1>14. \A j \in 11 .. 18 : Harmless(Alterations[j])
  <2>1. \A j \in 11 .. 18 :
          \/ j = 11 \/ j = 12 \/ j = 13 \/ j = 14
          \/ j = 15 \/ j = 16 \/ j = 17 \/ j = 18
    OBVIOUS
  <2>2. /\ Harmless(Alterations[11]) /\ Harmless(Alterations[12])
        /\ Harmless(Alterations[13]) /\ Harmless(Alterations[14])
        /\ Harmless(Alterations[15]) /\ Harmless(Alterations[16])
        /\ Harmless(Alterations[17]) /\ Harmless(Alterations[18])
    BY <1>7, <1>8, <1>11
  <2>3. QED  BY <2>1, <2>2
<1>15. \A j \in 19 .. 22 : Harmless(Alterations[j])
  BY <1>6, <1>12
<1>16. \A j \in 1 .. 22 : j \in 1 .. 10 \/ j \in 11 .. 18 \/ j \in 19 .. 22
  OBVIOUS
<1>17. QED  BY <1>13, <1>14, <1>15, <1>16

NoOptions(d) == \A p \in d : p[1] # "accountOptions"
NotUnique(d) == <<"varTableList", "unique name">> \notin d
HasDates(d) == <<"varTableList", "created_at">> \in d

\* What the first three statements of the last version did stays so.
LEMMA HarmlessKeeps ==
  ASSUME NEW d, NEW stmt, Harmless(stmt)
  PROVE  /\ Exists(d, "SCHEMA") => Exists(After(d, stmt), "SCHEMA")
         /\ NoOptions(d) => NoOptions(After(d, stmt))
         /\ NotUnique(d) => NotUnique(After(d, stmt))
         /\ HasDates(d) => HasDates(After(d, stmt))
<1>1. CASE stmt.op = "create"
  BY <1>1 DEF Harmless, After, Exists, NoOptions, NotUnique, HasDates
<1>2. CASE stmt.op = "dropTable"
  BY <1>2 DEF Harmless, After, Exists, NoOptions, NotUnique, HasDates
<1>3. CASE stmt.op = "modify"
  BY <1>3 DEF Harmless, After, Exists, NoOptions, NotUnique, HasDates
<1>4. CASE stmt.op \in {"drop", "dropIfExists"}
  <2>1. After(d, stmt) = d \ {<<stmt.table, stmt.part>>}
    <3>1. CASE stmt.op = "drop"
      BY <3>1 DEF After
    <3>2. CASE stmt.op = "dropIfExists"
      BY <3>2 DEF After
    <3>3. QED  BY <1>4, <3>1, <3>2
  <2>2. stmt.part # "table" /\ stmt.part # "created_at"
    BY <1>4 DEF Harmless
  <2>3. QED  BY <2>1, <2>2 DEF Exists, NoOptions, NotUnique, HasDates
<1>5. CASE stmt.op = "add"
  <2>1. After(d, stmt) = d \cup {<<stmt.table, stmt.part>>}
    BY <1>5 DEF After
  <2>2. stmt.table # "accountOptions" /\ stmt.part # "unique name"
    BY <1>5 DEF Harmless
  <2>3. <<"varTableList", "unique name">> # <<stmt.table, stmt.part>>
    BY <2>2
  <2>4. NotUnique(d) => NotUnique(After(d, stmt))
    BY <2>1, <2>3 DEF NotUnique
  <2>5. <<stmt.table, stmt.part>>[1] = stmt.table
    OBVIOUS
  <2>6. NoOptions(d) => NoOptions(After(d, stmt))
    BY <2>1, <2>2, <2>5 DEF NoOptions
  <2>7. d \subseteq After(d, stmt)
    BY <2>1
  <2>8. QED  BY <2>4, <2>6, <2>7 DEF Exists, HasDates
<1>6. CASE stmt.op = "rename"
  <2>1. After(d, stmt) =
          (d \ {<<stmt.table, stmt.part>>}) \cup {<<stmt.table, stmt.to>>}
    BY <1>6 DEF After
  <2>2. /\ stmt.part # "table" /\ stmt.part # "created_at"
        /\ stmt.table # "accountOptions" /\ stmt.to # "unique name"
    BY <1>6 DEF Harmless
  <2>3. <<stmt.table, stmt.to>>[1] = stmt.table
    OBVIOUS
  <2>4. NoOptions(d) => NoOptions(After(d, stmt))
    BY <2>1, <2>2, <2>3 DEF NoOptions
  <2>5. NotUnique(d) => NotUnique(After(d, stmt))
    <3>1. <<"varTableList", "unique name">> # <<stmt.table, stmt.to>>
      BY <2>2
    <3>2. QED  BY <2>1, <3>1 DEF NotUnique
  <2>6. Exists(d, "SCHEMA") => Exists(After(d, stmt), "SCHEMA")
    BY <2>1, <2>2 DEF Exists
  <2>7. HasDates(d) => HasDates(After(d, stmt))
    BY <2>1, <2>2 DEF HasDates
  <2>8. QED  BY <2>4, <2>5, <2>6, <2>7
<1>7. QED  BY <1>1, <1>2, <1>3, <1>4, <1>5, <1>6 DEF Harmless

\* The first three statements of the last version
LEMMA FirstAlterations ==
  ASSUME NEW d
  PROVE  /\ After(d, Alterations[1]) = {p \in d : p[1] # "accountOptions"}
         /\ After(d, Alterations[2]) = d \ {<<"varTableList", "unique name">>}
         /\ After(d, Alterations[3]) = d \cup {<<"varTableList", "created_at">>}
         /\ Accepted(d, Alterations[3]) => <<"varTableList", "created_at">> \notin d
<1>1. Alterations[1] = [op |-> "dropTable", table |-> "accountOptions"]
  BY DEF Alterations, DropTable
<1>2. Alterations[2] = DropIfExists("varTableList", "unique name")
  BY DEF Alterations
<1>3. Alterations[3] = [op |-> "add", table |-> "varTableList",
                        part |-> "created_at"]
  BY DEF Alterations, Add
<1>4. After(d, Alterations[1]) = {p \in d : p[1] # "accountOptions"}
  BY <1>1 DEF After
<1>5. After(d, Alterations[2]) = d \ {<<"varTableList", "unique name">>}
  <2>1. ASSUME NEW table, NEW part
        PROVE  After(d, DropIfExists(table, part)) = d \ {<<table, part>>}
    BY DEF After, DropIfExists
  <2>2. QED  BY <1>2, <2>1
<1>6. /\ After(d, Alterations[3]) = d \cup {<<"varTableList", "created_at">>}
      /\ Accepted(d, Alterations[3]) => <<"varTableList", "created_at">> \notin d
  BY <1>3 DEF After, Accepted
<1>7. QED  BY <1>4, <1>5, <1>6

\* What a start finds when some of the last version's statements have been
\* executed: the first two change nothing, and the third is refused.
LEMMA AlterationsAgain ==
  \A i \in 0 .. 22 :
    /\ Exists(Made[7 + i], "SCHEMA")
    /\ i >= 1 => After(Made[7 + i], Alterations[1]) = Made[7 + i]
    /\ i >= 2 => After(Made[7 + i], Alterations[2]) = Made[7 + i]
    /\ i >= 3 => ~Accepted(Made[7 + i], Alterations[3])
<1> DEFINE Has(i) == /\ Exists(Made[7 + i], "SCHEMA")
                     /\ i >= 1 => NoOptions(Made[7 + i])
                     /\ i >= 2 => NotUnique(Made[7 + i])
                     /\ i >= 3 => HasDates(Made[7 + i])
           T == {i \in 0 .. 22 : Has(i)}
<1>2. 0 \in T
  <2>1. 7 + 0 = 7 /\ 1 + 6 = 7 /\ 6 \in 0 .. 6 /\ 0 \in 0 .. 22
        /\ ~(0 >= 1) /\ ~(0 >= 2) /\ ~(0 >= 3)
    OBVIOUS
  <2>2. Exists(Made[7], "SCHEMA")
    BY <2>1, FirstTablesAgain
  <2>3. QED  BY <2>1, <2>2
<1>3. ASSUME NEW i \in 1 .. 22, i - 1 \in T
      PROVE  i \in T
  <2>1. Made[7 + i] = After(Made[7 + (i - 1)], Alterations[i])
    <3>1. 7 + i \in 1 .. 29 /\ (7 + i) - 1 = 7 + (i - 1)
      OBVIOUS
    <3>2. QED  BY <3>1, MadeIs, AllStatementsAre
  <2> DEFINE before == Made[7 + (i - 1)]
             now == Made[7 + i]
  <2>2. /\ Exists(before, "SCHEMA")
        /\ i - 1 >= 1 => NoOptions(before)
        /\ i - 1 >= 2 => NotUnique(before)
        /\ i - 1 >= 3 => HasDates(before)
    BY <1>3
  <2>3. now = After(before, Alterations[i])
    BY <2>1
  <2> HIDE DEF before, now
  <2>4. /\ Exists(before, "SCHEMA") => Exists(now, "SCHEMA")
        /\ NoOptions(before) => NoOptions(now)
        /\ NotUnique(before) => NotUnique(now)
        /\ HasDates(before) => HasDates(now)
    BY <2>3, AlterationsAreHarmless, HarmlessKeeps
  <2>5. i = 1 => NoOptions(now)
    <3>1. After(before, Alterations[1]) =
            {p \in before : p[1] # "accountOptions"}
      BY FirstAlterations
    <3>2. QED  BY <2>3, <3>1 DEF NoOptions
  <2>6. i = 2 => NotUnique(now)
    <3>1. After(before, Alterations[2]) =
            before \ {<<"varTableList", "unique name">>}
      BY FirstAlterations
    <3>2. QED  BY <2>3, <3>1 DEF NotUnique
  <2>7. i = 3 => HasDates(now)
    BY <2>3, FirstAlterations DEF HasDates
  <2>8. /\ i >= 1 => i = 1 \/ i - 1 >= 1
        /\ i >= 2 => i = 2 \/ i - 1 >= 2
        /\ i >= 3 => i = 3 \/ i - 1 >= 3
        /\ i \in 0 .. 22
    OBVIOUS
  <2>9. QED  BY <2>2, <2>4, <2>5, <2>6, <2>7, <2>8 DEF now
<1> HIDE DEF T
<1>4. \A i \in 0 .. 22 : i \in T
  BY <1>2, <1>3, Places
<1>5. ASSUME NEW d
      PROVE  /\ NoOptions(d) => After(d, Alterations[1]) = d
             /\ NotUnique(d) => After(d, Alterations[2]) = d
             /\ HasDates(d) => ~Accepted(d, Alterations[3])
  <2>1. NoOptions(d) => After(d, Alterations[1]) = d
    <3>1. After(d, Alterations[1]) = {p \in d : p[1] # "accountOptions"}
      BY FirstAlterations
    <3>2. QED  BY <3>1 DEF NoOptions
  <2>2. NotUnique(d) => After(d, Alterations[2]) = d
    <3>1. After(d, Alterations[2]) = d \ {<<"varTableList", "unique name">>}
      BY FirstAlterations
    <3>2. QED  BY <3>1 DEF NotUnique
  <2>3. HasDates(d) => ~Accepted(d, Alterations[3])
    BY FirstAlterations DEF HasDates
  <2>4. QED  BY <2>1, <2>2, <2>3
<1>6. QED  BY <1>4, <1>5 DEF T

\* The table SCHEMA is there from the first statement on.
LEMMA SchemaExists ==
  /\ ~Exists(Made[0], "SCHEMA")
  /\ \A m \in 1 .. 29 : Exists(Made[m], "SCHEMA")
<1>1. ~Exists(Made[0], "SCHEMA")
  BY MadeIs DEF Exists
<1>2. ASSUME NEW m \in 1 .. 29
      PROVE  Exists(Made[m], "SCHEMA")
  <2>1. CASE m <= 7
    <3>1. m - 1 \in 0 .. 6 /\ 1 + (m - 1) = m
      BY <2>1
    <3>2. QED  BY <3>1, FirstTablesAgain
  <2>2. CASE ~(m <= 7)
    <3>1. m - 7 \in 0 .. 22 /\ 7 + (m - 7) = m
      BY <2>2
    <3>2. QED  BY <3>1, AlterationsAgain
  <2>3. QED  BY <2>1, <2>2
<1>3. QED  BY <1>1, <1>2

-----------------------------------------------------------------------------
(***************************************************************************)
(* The invariant: the tables are always those of a start without a stop    *)
(* after some number m of statements.  A start may be behind m, when an    *)
(* earlier one got further: in the second version, whose statements only   *)
(* create what is missing, and in the last one at its first two, which can *)
(* be repeated, and before the third, which is then refused.               *)
(***************************************************************************)
Reached(m) ==
  /\ db = Made[m]
  /\ row = 0 => m \in 0 .. 1
  /\ row = 1 => m \in 1 .. 7
  /\ row = 2 => m \in 7 .. 29
  /\ row = 3 => m = 29
  /\ pc = "update" =>
       /\ version = row + 1
       /\ Before(version) + done <= m
       /\ Before(version) + done < m => version = 2 \/ (version = 3 /\ done <= 2)

SchemaInv ==
  /\ row \in 0 .. 3 /\ version \in 1 .. 3 /\ done \in Nat
  /\ pc = "serve" => row = 3
  /\ \E m \in 0 .. 29 : Reached(m)

LEMMA BeforeIs == Before(1) = 0 /\ Before(2) = 1 /\ Before(3) = 7
  BY DEF Before

\* The database of a first start is empty.
LEMMA SchemaStarts == SchemaInit => SchemaInv
<1> SUFFICES ASSUME SchemaInit PROVE SchemaInv
  OBVIOUS
<1>1. Reached(0) /\ 0 \in 0 .. 29 /\ 0 \in 0 .. 1
  BY MadeIs DEF SchemaInit, Reached
<1>2. QED  BY <1>1 DEF SchemaInit, SchemaInv

\* A statement makes the next of these tables, or leaves them as they are.
LEMMA ExecuteOK == SchemaInv /\ Execute => SchemaInv'
<1> SUFFICES ASSUME SchemaInv, Execute PROVE SchemaInv'
  OBVIOUS
<1>1. PICK m \in 0 .. 29 : Reached(m)
  BY DEF SchemaInv
<1>2. /\ row \in 0 .. 3 /\ version \in 1 .. 3 /\ done \in Nat
      /\ pc = "update" /\ version = row + 1
      /\ done < Len(Script[version]) /\ Accepted(db, Script[version][done + 1])
      /\ db = Made[m] /\ db' = After(db, Script[version][done + 1])
      /\ done' = done + 1 /\ UNCHANGED <<row, pc, version>>
      /\ Before(version) + done <= m
      /\ Before(version) + done < m => version = 2 \/ (version = 3 /\ done <= 2)
  BY <1>1 DEF SchemaInv, Execute, Statement, Reached
<1>3. ASSUME NEW n \in 0 .. 29, Reached(n)'
      PROVE  SchemaInv'
  <2>1. done' \in Nat
    BY <1>2
  <2>2. QED  BY <1>2, <1>3, <2>1 DEF SchemaInv
<1>4. CASE row = 0
  <2>1. version = 1 /\ Script[version] = SchemaTable /\ done < 1
    BY <1>2, <1>4, ScriptIs
  <2>2. m = 0 /\ done = 0
    BY <1>1, <1>2, <1>4, <2>1, BeforeIs DEF Reached
  <2>3. db' = Made[1]
    <3>1. 1 \in 1 .. 29 /\ 1 - 1 = 0 /\ 0 + 1 = 1
      OBVIOUS
    <3>2. QED  BY <1>2, <2>1, <2>2, <3>1, MadeIs, AllStatementsAre
  <2>4. Reached(1)'
    BY <1>2, <1>4, <2>1, <2>2, <2>3, BeforeIs DEF Reached
  <2>5. QED  BY <1>3, <2>4
<1>5. CASE row = 1
  <2>0. version = 2
    BY <1>2, <1>5
  <2>1. version = 2 /\ Script[version] = FirstTables /\ done < 6
    BY <1>2, <2>0, ScriptIs
  <2>2. m \in 1 .. 7 /\ 1 + done <= m /\ done + 1 \in 1 .. 6
    BY <1>1, <1>2, <1>5, <2>1, BeforeIs DEF Reached
  <2>3. CASE 1 + done = m
    <3>1. m + 1 \in 1 .. 29 /\ (m + 1) - 1 = m /\ m + 1 = 1 + (done + 1)
      BY <1>2, <2>2, <2>3
    <3>2. db' = Made[m + 1]
      BY <1>2, <2>1, <2>2, <3>1, MadeIs, AllStatementsAre
    <3>3. m + 1 \in 1 .. 7 /\ 1 + (done + 1) <= m + 1 /\ m + 1 \in 0 .. 29
          /\ ~(1 + (done + 1) < m + 1)
      BY <1>2, <2>1, <2>2, <2>3
    <3>4. Reached(m + 1)'
      BY <1>2, <1>5, <2>1, <3>2, <3>3, BeforeIs DEF Reached
    <3>5. QED  BY <1>3, <3>3, <3>4
  <2>4. CASE 1 + done # m
    <3>1. m - 1 \in 0 .. 6 /\ 1 + (m - 1) = m /\ done + 1 \in 1 .. m - 1
          /\ 1 + (done + 1) <= m
      BY <1>2, <2>2, <2>4
    <3>2. db' = db
      BY <1>2, <2>1, <3>1, FirstTablesAgain
    <3>3. Reached(m)'
      BY <1>2, <1>5, <2>1, <2>2, <3>1, <3>2, BeforeIs DEF Reached
    <3>4. QED  BY <1>3, <3>3
  <2>5. QED  BY <2>3, <2>4
<1>6. CASE row = 2
  <2>0. version = 3
    BY <1>2, <1>6
  <2>1. version = 3 /\ Script[version] = Alterations /\ done < 22
    BY <1>2, <2>0, ScriptIs
  <2>2. m \in 7 .. 29 /\ 7 + done <= m /\ done + 1 \in 1 .. 22
    BY <1>1, <1>2, <1>6, <2>1, BeforeIs DEF Reached
  <2>3. CASE 7 + done = m
    <3>1. m + 1 \in 1 .. 29 /\ (m + 1) - 1 = m /\ m + 1 = 7 + (done + 1)
      <4>1. done \in Nat /\ done < 22
        BY <1>2, <2>1
      <4>2. QED  BY <2>3, <4>1
    <3>2. db' = Made[m + 1]
      BY <1>2, <2>1, <2>2, <3>1, MadeIs, AllStatementsAre
    <3>3. m + 1 \in 7 .. 29 /\ 7 + (done + 1) <= m + 1 /\ m + 1 \in 0 .. 29
          /\ ~(7 + (done + 1) < m + 1)
      BY <1>2, <2>1, <2>2, <2>3
    <3>4. Reached(m + 1)'
      BY <1>2, <1>6, <2>1, <3>2, <3>3, BeforeIs DEF Reached
    <3>5. QED  BY <1>3, <3>3, <3>4
  <2>4. CASE 7 + done # m
    <3>1. /\ m - 7 \in 0 .. 22 /\ 7 + (m - 7) = m
          /\ 7 + (done + 1) <= m
          /\ done = 0 \/ done = 1 \/ done = 2
          /\ m - 7 >= done + 1
      BY <1>2, <2>1, <2>2, <2>4, BeforeIs
    <3>2. done # 2
      <4>1. done = 2 => m - 7 >= 3 /\ done + 1 = 3
        BY <3>1
      <4>2. QED  BY <1>2, <2>1, <3>1, <4>1, AlterationsAgain
    <3>3. db' = db
      <4>1. /\ done = 0 => m - 7 >= 1 /\ done + 1 = 1
            /\ done = 1 => m - 7 >= 2 /\ done + 1 = 2
        BY <3>1
      <4>2. QED  BY <1>2, <2>1, <3>1, <3>2, <4>1, AlterationsAgain
    <3>4. done + 1 <= 2
      BY <3>1, <3>2
    <3>5. Reached(m)'
      BY <1>2, <1>6, <2>1, <2>2, <3>1, <3>3, <3>4, BeforeIs DEF Reached
    <3>6. QED  BY <1>3, <3>5
  <2>5. QED  BY <2>3, <2>4
<1>7. row # 3
  BY <1>2
<1>8. QED  BY <1>2, <1>4, <1>5, <1>6, <1>7

\* When a version is recorded its tables have been made.
LEMMA RecordIs ==
  ASSUME SchemaInv, Record
  PROVE  /\ row' = row + 1 /\ row \in 0 .. 2
         /\ db' = Made[Before(row') + Len(Script[row'])]
         /\ SchemaInv'
<1>1. PICK m \in 0 .. 29 : Reached(m)
  BY DEF SchemaInv
<1>2. /\ row \in 0 .. 3 /\ version \in 1 .. 3 /\ done \in Nat
      /\ version = row + 1 /\ row' = version
      /\ done = Len(Script[version]) /\ done' = 0
      /\ db = Made[m] /\ UNCHANGED db
      /\ Before(version) + done <= m
      /\ Before(version) + done < m => version = 2 \/ (version = 3 /\ done <= 2)
      /\ \/ version < 3 /\ version' = version + 1 /\ pc' = "update"
         \/ version = 3 /\ version' = version /\ pc' = "serve"
  BY <1>1, ScriptIs DEF SchemaInv, Record, MayRecord, Reached
<1>3. CASE row = 0
  <2>0. version = 1 /\ row' = 1
    BY <1>2, <1>3
  <2>1. version = 1 /\ done = 1 /\ m = 1 /\ 0 + 1 = 1
    <3>1. done = 1
      BY <1>2, <2>0, ScriptIs
    <3>2. QED  BY <1>1, <1>2, <2>0, <3>1, <1>3, BeforeIs DEF Reached
  <2>2. Reached(1)'
    BY <1>2, <2>1, BeforeIs DEF Reached
  <2>3. QED  BY <1>2, <1>3, <2>1, <2>2, ScriptIs, BeforeIs DEF SchemaInv
<1>4. CASE row = 1
  <2>0. version = 2 /\ row' = 2
    BY <1>2, <1>4
  <2>1. version = 2 /\ done = 6 /\ m = 7 /\ 1 + 6 = 7
    <3>1. done = 6
      BY <1>2, <2>0, ScriptIs
    <3>2. QED  BY <1>1, <1>2, <2>0, <3>1, <1>4, BeforeIs DEF Reached
  <2>2. Reached(7)'
    BY <1>2, <2>1, BeforeIs DEF Reached
  <2>3. SchemaInv'
    BY <1>2, <2>1, <2>2 DEF SchemaInv
  <2>4. Before(row') + Len(Script[row']) = 7
    BY <2>0, <2>1, ScriptIs, BeforeIs
  <2>5. QED  BY <1>2, <1>4, <2>0, <2>1, <2>3, <2>4
<1>5. CASE row = 2
  <2>0. version = 3 /\ row' = 3
    BY <1>2, <1>5
  <2>1. version = 3 /\ done = 22 /\ m = 29 /\ 7 + 22 = 29
    <3>1. done = 22
      BY <1>2, <2>0, ScriptIs
    <3>2. QED  BY <1>1, <1>2, <2>0, <3>1, <1>5, BeforeIs DEF Reached
  <2>2. Reached(29)'
    BY <1>2, <2>1, BeforeIs DEF Reached
  <2>3. SchemaInv'
    BY <1>2, <2>1, <2>2 DEF SchemaInv
  <2>4. Before(row') + Len(Script[row']) = 29
    BY <2>0, <2>1, ScriptIs, BeforeIs
  <2>5. QED  BY <1>2, <1>5, <2>0, <2>1, <2>3, <2>4
<1>6. row # 3
  BY <1>2
<1>7. QED  BY <1>2, <1>3, <1>4, <1>5, <1>6

\* A start finds the tables its row tells of, or more.
LEMMA CheckOK ==
  ASSUME SchemaInv, CheckFirstStart \/ CheckOldVersion \/ CheckUpToDate
  PROVE  SchemaInv'
<1>1. PICK m \in 0 .. 29 : Reached(m)
  BY DEF SchemaInv
<1>2. row \in 0 .. 3 /\ version \in 1 .. 3 /\ done \in Nat
  BY DEF SchemaInv
<1>3. ASSUME NEW v \in 1 .. 3, v = row + 1, Begin(v), Before(v) <= m,
             v = 1 => m = 0
      PROVE  SchemaInv'
  <2>1. /\ pc' = "update" /\ version' = v /\ done' = 0
        /\ UNCHANGED <<db, row, stops>>
    BY <1>3 DEF Begin
  <2>2. /\ Before(v) + 0 <= m
        /\ Before(v) + 0 < m => v = 2 \/ (v = 3 /\ 0 <= 2)
    BY <1>3, BeforeIs
  <2>3. Reached(m)'
    BY <1>1, <1>3, <2>1, <2>2 DEF Reached
  <2>4. QED  BY <1>2, <2>1, <2>3 DEF SchemaInv
<1>4. CASE CheckFirstStart
  <2>1. m = 0
    <3>1. ~Exists(Made[m], "SCHEMA")
      BY <1>1, <1>4 DEF CheckFirstStart, Reached
    <3>2. QED  BY <3>1, SchemaExists
  <2>2. row = 0
    BY <1>1, <1>2, <2>1 DEF Reached
  <2>3. QED  BY <1>3, <1>4, <2>1, <2>2, BeforeIs DEF CheckFirstStart
<1>5. CASE CheckOldVersion
  <2>1. row \in 1 .. 2 /\ Begin(row + 1)
    BY <1>5, ScriptIs DEF CheckOldVersion, FirstToRun
  <2>2. CASE row = 1
    BY <1>1, <1>3, <2>1, <2>2, BeforeIs DEF Reached
  <2>3. CASE row = 2
    BY <1>1, <1>3, <2>1, <2>3, BeforeIs DEF Reached
  <2>4. QED  BY <2>1, <2>2, <2>3
<1>6. CASE CheckUpToDate
  <2>1. row = 3 /\ pc' = "serve" /\ UNCHANGED <<db, row, version, done, stops>>
    BY <1>6, ScriptIs DEF CheckUpToDate
  <2>2. Reached(m)'
    BY <1>1, <2>1 DEF Reached
  <2>3. QED  BY <1>2, <2>1, <2>2 DEF SchemaInv
<1>7. QED  BY <1>4, <1>5, <1>6

\* A process that does not go on keeps all that counts.
LEMMA StopOK ==
  ASSUME SchemaInv, pc' \in {"down", "check", "failed"} \/ UNCHANGED pc,
         UNCHANGED <<db, row, version, done>>
  PROVE  SchemaInv'
<1>1. PICK m \in 0 .. 29 : Reached(m)
  BY DEF SchemaInv
<1>2. Reached(m)'
  BY <1>1 DEF Reached
<1>3. QED  BY <1>2 DEF SchemaInv

\* Each step keeps the invariant.
LEMMA SchemaStep == SchemaInv /\ [SchemaNext]_schemaVars => SchemaInv'
<1> SUFFICES ASSUME SchemaInv, [SchemaNext]_schemaVars PROVE SchemaInv'
  OBVIOUS
<1>1. CASE CheckFirstStart \/ CheckOldVersion \/ CheckUpToDate
  BY <1>1, CheckOK
<1>2. CASE Start \/ CheckWithoutRow \/ Refused \/ End \/ QueryFails \/ Stop
  <2>1. /\ pc' \in {"down", "check", "failed"}
        /\ UNCHANGED <<db, row, version, done>>
    BY <1>2 DEF Start, CheckWithoutRow, Refused, End, QueryFails, Stop
  <2>2. QED  BY <2>1, StopOK
<1>3. CASE Execute
  BY <1>3, ExecuteOK
<1>4. CASE Record
  BY <1>4, RecordIs
<1>5. CASE UNCHANGED schemaVars
  BY <1>5, StopOK DEF schemaVars
<1>6. QED  BY <1>1, <1>2, <1>3, <1>4, <1>5 DEF SchemaNext, Run

-----------------------------------------------------------------------------
(* The theorems about the tables                                           *)

\* TablesOf in terms of Made
LEMMA TablesAre ==
  /\ TablesOf(1) = Made[1] /\ TablesOf(2) = Made[7] /\ TablesOf(3) = Made[29]
  /\ \A v \in 1 .. 3 : TablesOf(v) = Made[Before(v) + Len(Script[v])]
<1>1. /\ Len(Script[1]) = 1 /\ Len(Script[2]) = 6 /\ Len(Script[3]) = 22
      /\ Len(AllStatements) = 29
  BY ScriptIs, AllStatementsAre
<1>2. TablesOf(1) = Made[1] /\ TablesOf(2) = Made[1 + 6] /\ TablesOf(3) = Made[29]
  BY <1>1 DEF TablesOf
<1>3. /\ Before(1) + 1 = 1 /\ Before(2) + 6 = 7 /\ Before(3) + 22 = 29
      /\ 1 + 6 = 7
      /\ \A v \in 1 .. 3 : v = 1 \/ v = 2 \/ v = 3
  BY BeforeIs
<1>4. /\ TablesOf(1) = Made[Before(1) + Len(Script[1])]
      /\ TablesOf(2) = Made[Before(2) + Len(Script[2])]
      /\ TablesOf(3) = Made[Before(3) + Len(Script[3])]
  BY <1>1, <1>2, <1>3
<1>5. QED  BY <1>2, <1>3, <1>4

\* The tables are at all times those of a start without a stop after some of
\* the statements, however often the process was stopped.
THEOREM TablesInvariant == SchemaSpec => []SchemaInv
<1>1. QED  BY SchemaStarts, SchemaStep, PTL DEF SchemaSpec

\* checkSchema and updateSchema (Database.ts): after any number of stops and
\* failures the server serves only on the tables of the latest version.
THEOREM ServedTablesAreTheLatest == SchemaSpec => []ServesOnTheLatestTables
<1>1. SchemaInv => ServesOnTheLatestTables
  <2> SUFFICES ASSUME SchemaInv, pc = "serve"
               PROVE  row = Latest /\ db = TablesOf(Latest)
    BY DEF ServesOnTheLatestTables
  <2>1. row = 3 /\ Latest = 3 /\ TablesOf(3) = Made[29]
    BY ScriptIs, TablesAre DEF SchemaInv
  <2>2. db = Made[29]
    BY <2>1 DEF SchemaInv, Reached
  <2>3. QED  BY <2>1, <2>2
<1>2. QED  BY <1>1, TablesInvariant, PTL

\* INSERT_STATEMENT of updateSchema: the row of a version is written after the
\* row of the version before it, and only when the tables are those of it.
THEOREM RowsAlwaysTellTheTables == SchemaSpec => RowsTellTheTables
<1>1. SchemaInv /\ [SchemaNext]_schemaVars =>
        [row' # row => row' = row + 1 /\ db' = TablesOf(row')]_schemaVars
  <2> SUFFICES ASSUME SchemaInv, SchemaNext, row' # row
               PROVE  row' = row + 1 /\ db' = TablesOf(row')
    OBVIOUS
  <2>1. Record
    BY DEF SchemaNext, Run, Start, CheckFirstStart, CheckOldVersion,
           CheckUpToDate, CheckWithoutRow, Execute, Refused, End, QueryFails,
           Stop, Begin
  <2>2. /\ row' = row + 1 /\ row \in 0 .. 2
        /\ db' = Made[Before(row') + Len(Script[row'])]
    BY <2>1, RecordIs
  <2>3. row' \in 1 .. 3
    BY <2>2
  <2>4. PICK v \in 1 .. 3 : v = row'
    BY <2>3
  <2>5. QED  BY <2>2, <2>4, TablesAre
<1>2. QED  BY <1>1, TablesInvariant, PTL DEF SchemaSpec, RowsTellTheTables
=============================================================================
