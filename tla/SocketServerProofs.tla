-------------------------- MODULE SocketServerProofs --------------------------
(* Proofs about RoomManager and SocketServer, for every set of sockets,    *)
(* rooms and users.  First the rooms by themselves: their invariant and    *)
(* what follows from it.  Then the server: it implements RoomManager and   *)
(* AccountManager, so that what holds of the rooms and of the accounts by  *)
(* themselves holds in the server, where logins close connections and the  *)
(* process loses all tables at once; and whoever shares a room with a      *)
(* connection that closes is told of it.                                   *)
EXTENDS SocketServer, TLAPS

-----------------------------------------------------------------------------
(* Sequences: what Append, Tail and Splice do to the elements.             *)

\* Appending adds one element.
LEMMA ListedAppend ==
  ASSUME NEW S, NEW q \in Seq(S), NEW e \in S
  PROVE  /\ Append(q, e) \in Seq(S)
         /\ Listed(Append(q, e)) = Listed(q) \cup {e}
BY DEF Listed

\* Dropping the head loses nothing but the head.
LEMMA ListedTail ==
  ASSUME NEW S, NEW q \in Seq(S), q # <<>>
  PROVE  /\ Head(q) \in S
         /\ Head(q) \in Listed(q)
         /\ Tail(q) \in Seq(S)
         /\ Listed(q) = Listed(Tail(q)) \cup {Head(q)}
<1>1. Listed(q) \subseteq Listed(Tail(q)) \cup {Head(q)}
  <2> SUFFICES ASSUME NEW i \in 1 .. Len(q), q[i] # Head(q)
               PROVE  q[i] \in Listed(Tail(q))
    BY DEF Listed
  <2>1. i - 1 \in 1 .. Len(Tail(q)) /\ Tail(q)[i - 1] = q[i]
    OBVIOUS
  <2>2. QED  BY <2>1 DEF Listed
<1>2. Listed(Tail(q)) \cup {Head(q)} \subseteq Listed(q)
  <2>1. \A i \in 1 .. Len(Tail(q)) :
          i + 1 \in 1 .. Len(q) /\ Tail(q)[i] = q[i + 1]
    OBVIOUS
  <2>2. 1 \in 1 .. Len(q) /\ Head(q) = q[1]
    OBVIOUS
  <2>3. QED  BY <2>1, <2>2 DEF Listed
<1>3. Head(q) \in S /\ Tail(q) \in Seq(S)
  OBVIOUS
<1>4. QED  BY <1>1, <1>2, <1>3

\* Splice takes a socket out of a list without duplicates, and only it.
LEMMA SpliceRemoves ==
  ASSUME NEW S, NEW list \in Seq(S), NEW s, NoDuplicates(list)
  PROVE  /\ Splice(list, s) \in Seq(S)
         /\ Listed(Splice(list, s)) = Listed(list) \ {s}
         /\ NoDuplicates(Splice(list, s))
<1>1. CASE s \notin Listed(list)
  BY <1>1 DEF Splice
<1>2. CASE s \in Listed(list)
  <2>1. PICK at \in 1 .. Len(list) : list[at] = s
    BY <1>2 DEF Listed
  <2> DEFINE short == [i \in 1 .. (Len(list) - 1) |->
                         IF i < at THEN list[i] ELSE list[i + 1]]
  <2>2. Splice(list, s) = short
    <3> DEFINE index == CHOOSE i \in 1 .. Len(list) :
                          list[i] = s /\ \A j \in 1 .. (i - 1) : list[j] # s
    <3>1. \A j \in 1 .. (at - 1) : j \in 1 .. Len(list) /\ j # at
      BY <2>1
    <3>2. \A j \in 1 .. (at - 1) : list[j] # s
      BY <2>1, <3>1 DEF NoDuplicates
    <3>3. index \in 1 .. Len(list) /\ list[index] = s
      BY <2>1, <3>2
    <3>4. index = at
      BY <2>1, <3>3 DEF NoDuplicates
    <3>5. QED  BY <1>2, <3>4 DEF Splice
  <2>3. short \in Seq(S) /\ Len(short) = Len(list) - 1
    BY <2>1
  <2>4. ASSUME NEW i \in 1 .. Len(short)
        PROVE  \/ i < at /\ short[i] = list[i] /\ i \in 1 .. Len(list)
               \/ i >= at /\ short[i] = list[i + 1] /\ i + 1 \in 1 .. Len(list)
    BY <2>1, <2>3
  <2>5. Listed(short) \subseteq Listed(list) \ {s}
    <3> SUFFICES ASSUME NEW i \in 1 .. Len(short)
                 PROVE  short[i] \in Listed(list) \ {s}
      BY DEF Listed
    <3>1. PICK j \in 1 .. Len(list) : short[i] = list[j] /\ j # at
      BY <2>4, <2>1
    <3>2. QED  BY <3>1, <2>1 DEF Listed, NoDuplicates
  <2>6. Listed(list) \ {s} \subseteq Listed(short)
    <3>1. SUFFICES ASSUME NEW i \in 1 .. Len(list), list[i] # s
                   PROVE  list[i] \in Listed(short)
      BY Zenon DEF Listed
    <3>2. \/ i < at /\ i \in 1 .. Len(short) /\ short[i] = list[i]
          \/ i - 1 \in 1 .. Len(short) /\ short[i - 1] = list[i]
      BY <3>1, <2>1, <2>3
    <3> HIDE DEF short
    <3>3. QED  BY <3>2 DEF Listed
  <2>7. NoDuplicates(short)
    <3> SUFFICES ASSUME NEW i \in 1 .. Len(short), NEW j \in 1 .. Len(short),
                        short[i] = short[j]
                 PROVE  i = j
      BY DEF NoDuplicates
    <3>1. CASE i < at /\ j < at
      BY <3>1, <2>4 DEF NoDuplicates
    <3>2. CASE i < at /\ j >= at
      <4>1. list[i] = list[j + 1] /\ i \in 1 .. Len(list)
                /\ j + 1 \in 1 .. Len(list)
        BY <3>2, <2>4, <2>1
      <4>2. QED  BY <4>1, <3>2, <2>1 DEF NoDuplicates
    <3>3. CASE i >= at /\ j < at
      <4>1. list[i + 1] = list[j] /\ j \in 1 .. Len(list)
                /\ i + 1 \in 1 .. Len(list)
        BY <3>3, <2>4, <2>1
      <4>2. QED  BY <4>1, <3>3, <2>1 DEF NoDuplicates
    <3>4. CASE i >= at /\ j >= at
      <4>1. list[i + 1] = list[j + 1] /\ i + 1 \in 1 .. Len(list)
                /\ j + 1 \in 1 .. Len(list)
        BY <3>4, <2>4, <2>1
      <4>2. QED  BY <4>1, <2>3 DEF NoDuplicates
    <3>5. QED  BY <3>1, <3>2, <3>3, <3>4, <2>3, <2>1
  <2>8. QED  BY <2>2, <2>3, <2>5, <2>6, <2>7
<1>3. QED  BY <1>1, <1>2

-----------------------------------------------------------------------------
(* The inductive invariant.  To the four properties it adds that a room    *)
(* without a record has an empty list and that only closed connections     *)
(* have a disconnection to carry out; both are needed for Splice to take   *)
(* out of a list only sockets that are not in the room.                    *)

NoRecordNoList ==
  \A r \in RoomId : NoDuplicates(dmList[r])
                      /\ (r \notin rooms => Listed(dmList[r]) = {})

OnlyClosedAreCleanedUp ==
  /\ \A s \in Socket : todo[s] # {} => conn[s] = "down"
  /\ \A call \in Listed(pending) :
       call.kind = "notice" => conn[call.sock] = "down"
  /\ \A r \in RoomId : members[r] \subseteq Up

IInv ==
  /\ TypeOK
  /\ NoRecordNoList
  /\ OnlyClosedAreCleanedUp
  /\ ListFollowsMembers
  /\ MembersAgreeOnDM
  /\ EmptyRoomIsOnItsWayOut
  /\ LostDMIsReplaced

\* The fields of the calls under way.
LEMMA CallFields ==
  ASSUME TypeOK
  PROVE  \A call \in Listed(pending) :
           /\ call.sock \in Socket
           /\ \/ /\ call \in LeaveCall
                 /\ call.kind = "leave"
                 /\ call.room \in RoomId
                 /\ call.occupied \in BOOLEAN
                 /\ call.closing \in BOOLEAN
              \/ call \in NoticeCall /\ call.kind = "notice"
<1>1. Listed(pending) \subseteq LeaveCall \cup NoticeCall
  BY DEF TypeOK, Listed
<1>2. ASSUME NEW call \in LeaveCall
      PROVE  /\ call.sock \in Socket
             /\ call.kind = "leave"
             /\ call.room \in RoomId
             /\ call.occupied \in BOOLEAN
             /\ call.closing \in BOOLEAN
  BY DEF LeaveCall
<1>3. ASSUME NEW call \in NoticeCall
      PROVE  call.sock \in Socket /\ call.kind = "notice"
  BY DEF NoticeCall
<1>4. QED  BY <1>1, <1>2, <1>3

LEMMA InitIInv == Init => IInv
<1> SUFFICES ASSUME Init PROVE IInv
  OBVIOUS
<1>1. Listed(<<>>) = {} /\ NoDuplicates(<<>>)
  BY DEF Listed, NoDuplicates
<1>2. TypeOK
  BY DEF Init, TypeOK
<1>3. NoRecordNoList /\ OnlyClosedAreCleanedUp
  BY <1>1 DEF Init, NoRecordNoList, OnlyClosedAreCleanedUp
<1>4. QED
  BY <1>2, <1>3 DEF Init, IInv, ListFollowsMembers, MembersAgreeOnDM,
                    EmptyRoomIsOnItsWayOut, LostDMIsReplaced

-----------------------------------------------------------------------------
(* Client steps.                                                           *)

LEMMA ConnectIInv ==
  ASSUME IInv, NEW s \in Socket, Connect(s)
  PROVE  IInv'
<1>1. TypeOK'
  BY DEF Connect, IInv, TypeOK
<1>2. \A x \in Socket : conn[x] = "down" <=> conn'[x] = "down"
  BY DEF Connect, IInv, TypeOK
<1>3. OnlyClosedAreCleanedUp'
  <2>1. Up \subseteq Up'
    BY DEF Connect, IInv, TypeOK, Up
  <2>2. \A call \in Listed(pending) : call.kind = "notice" => call.sock \in Socket
    BY CallFields DEF IInv
  <2>3. QED
    BY <1>2, <2>1, <2>2 DEF Connect, IInv, OnlyClosedAreCleanedUp
<1>4. ListFollowsMembers'
  <2>1. \A r \in RoomId : Listed(dmList[r]) \subseteq Socket
    BY DEF IInv, TypeOK, Listed
  <2>2. QED
    BY <1>2, <2>1 DEF Connect, IInv, TypeOK, ListFollowsMembers, CleanupAhead
<1>5. QED
  BY <1>1, <1>3, <1>4
     DEF Connect, IInv, NoRecordNoList, MembersAgreeOnDM,
         EmptyRoomIsOnItsWayOut, LostDMIsReplaced, LeaveAhead, CleanupAhead

LEMMA CreateRoomIInv ==
  ASSUME IInv, NEW s \in Socket, NEW r \in RoomId, CreateRoom(s, r)
  PROVE  IInv'
<1>1. TypeOK'
  BY DEF CreateRoom, IInv, TypeOK
<1>2. Listed(<<s>>) = {s} /\ NoDuplicates(<<s>>)
  BY DEF Listed, NoDuplicates
<1>3. dmList'[r] = <<s>> /\ members'[r] = {s} /\ dmCurrent'[r] = s
        /\ told'[r][s] = s
  BY DEF CreateRoom, IInv, TypeOK
<1>4. \A x \in RoomId \ {r} :
        /\ dmList'[x] = dmList[x]
        /\ members'[x] = members[x]
        /\ dmCurrent'[x] = dmCurrent[x]
        /\ told'[x] = told[x]
        /\ x \in rooms' <=> x \in rooms
  BY DEF CreateRoom, IInv, TypeOK
<1>5. NoRecordNoList'
  BY <1>2, <1>3, <1>4 DEF CreateRoom, IInv, NoRecordNoList
<1>6. OnlyClosedAreCleanedUp'
  BY <1>3, <1>4 DEF CreateRoom, IInv, OnlyClosedAreCleanedUp, Up
<1>7. rooms' \subseteq RoomId
  BY <1>1 DEF TypeOK
<1>8. ListFollowsMembers'
  BY <1>2, <1>3, <1>4, <1>7
     DEF CreateRoom, IInv, ListFollowsMembers, CleanupAhead
<1>9. MembersAgreeOnDM'
  BY <1>3, <1>4, <1>7 DEF IInv, MembersAgreeOnDM
<1>10. EmptyRoomIsOnItsWayOut'
  <2>1. SUFFICES ASSUME NEW x \in rooms', members'[x] = {}
                 PROVE  (\/ \E call \in Listed(pending) :
                               call.kind = "leave" /\ call.room = x
                                 /\ ~call.occupied
                         \/ \E y \in Socket : CleanupAhead(y, x))'
    BY DEF EmptyRoomIsOnItsWayOut
  <2>2. x \in rooms /\ members[x] = {}
    BY <2>1, <1>3, <1>4, <1>7
  <2>3. pending' = pending /\ todo' = todo
    BY DEF CreateRoom
  <2>4. QED
    BY <2>2, <2>3 DEF IInv, EmptyRoomIsOnItsWayOut, CleanupAhead
<1>11. LostDMIsReplaced'
  BY <1>3, <1>4, <1>7
     DEF CreateRoom, IInv, LostDMIsReplaced, LeaveAhead, CleanupAhead
<1>12. QED
  BY <1>1, <1>5, <1>6, <1>8, <1>9, <1>10, <1>11 DEF IInv

LEMMA JoinRoomIInv ==
  ASSUME IInv, NEW s \in Socket, NEW r \in RoomId, JoinRoom(s, r)
  PROVE  IInv'
<1>1. TypeOK'
  BY DEF JoinRoom, IInv, TypeOK, AnsweredDM
<1>2. s \notin Listed(dmList[r])
  BY DEF JoinRoom, JoinCheck, IInv, ListFollowsMembers
<1>3. /\ Listed(Append(dmList[r], s)) = Listed(dmList[r]) \cup {s}
      /\ NoDuplicates(Append(dmList[r], s))
  <2>1. dmList[r] \in Seq(Socket) /\ NoDuplicates(dmList[r])
    BY DEF IInv, TypeOK, NoRecordNoList
  <2>2. Listed(Append(dmList[r], s)) = Listed(dmList[r]) \cup {s}
    BY <2>1, ListedAppend
  <2>3. NoDuplicates(Append(dmList[r], s))
    BY <1>2, <2>1 DEF Listed, NoDuplicates
  <2>4. QED  BY <2>2, <2>3
<1>4. /\ dmList'[r] = Append(dmList[r], s)
      /\ members'[r] = members[r] \cup {s}
      /\ told'[r] = [told[r] EXCEPT ![s] = dmCurrent[r]]
      /\ told'[r][s] = dmCurrent[r]
      /\ \A x \in Socket \ {s} : told'[r][x] = told[r][x]
  BY DEF JoinRoom, AnsweredDM, IInv, TypeOK
<1>5. \A x \in RoomId \ {r} :
        /\ dmList'[x] = dmList[x]
        /\ members'[x] = members[x]
        /\ told'[x] = told[x]
  BY DEF JoinRoom, IInv, TypeOK
<1>6. rooms' = rooms /\ rooms \subseteq RoomId /\ r \in rooms
        /\ dmCurrent' = dmCurrent /\ \A x \in RoomId : members[x] \subseteq Socket
  BY DEF JoinRoom, JoinCheck, IInv, TypeOK
<1>7. NoRecordNoList'
  BY <1>3, <1>4, <1>5, <1>6 DEF IInv, NoRecordNoList
<1>8. OnlyClosedAreCleanedUp'
  BY <1>4, <1>5 DEF JoinRoom, IInv, OnlyClosedAreCleanedUp, Up
<1>9. ListFollowsMembers'
  <2> SUFFICES ASSUME NEW x \in rooms
               PROVE  /\ members'[x] \subseteq Listed(dmList'[x])
                      /\ \A y \in Listed(dmList'[x]) \ members'[x] :
                           conn'[y] = "down" /\ CleanupAhead(y, x)'
                      /\ NoDuplicates(dmList'[x])
    BY <1>6 DEF ListFollowsMembers
  <2>1. CASE x = r
    BY <2>1, <1>3, <1>4
       DEF JoinRoom, IInv, ListFollowsMembers, CleanupAhead
  <2>2. CASE x # r
    BY <2>2, <1>5, <1>6
       DEF JoinRoom, IInv, ListFollowsMembers, CleanupAhead
  <2>3. QED  BY <2>1, <2>2
<1>10. MembersAgreeOnDM'
  <2> SUFFICES ASSUME NEW x \in rooms, NEW y \in members'[x]
               PROVE  told'[x][y] = dmCurrent[x]
    BY <1>6 DEF MembersAgreeOnDM
  <2>1. CASE x = r /\ y = s
    BY <2>1, <1>4
  <2>2. CASE x = r /\ y # s
    <3>1. y \in members[r] /\ y \in Socket
      BY <2>2, <1>4, <1>6
    <3>2. QED  BY <3>1, <2>2, <1>4, <1>6 DEF IInv, MembersAgreeOnDM
  <2>3. CASE x # r
    BY <2>3, <1>5, <1>6 DEF IInv, MembersAgreeOnDM
  <2>4. QED  BY <2>1, <2>2, <2>3
<1>11. EmptyRoomIsOnItsWayOut'
  BY <1>4, <1>5, <1>6
     DEF JoinRoom, IInv, EmptyRoomIsOnItsWayOut, CleanupAhead
<1>12. LostDMIsReplaced'
  BY <1>4, <1>5, <1>6
     DEF JoinRoom, IInv, LostDMIsReplaced, LeaveAhead, CleanupAhead
<1>13. QED
  BY <1>1, <1>7, <1>8, <1>9, <1>10, <1>11, <1>12 DEF IInv

LEMMA LeaveRoomIInv ==
  ASSUME IInv, NEW s \in Socket, NEW r \in RoomId, LeaveRoom(s, r)
  PROVE  IInv'
<1> DEFINE call == LeaveCallOf(s, r, FALSE)
<1>1. /\ call \in LeaveCall \cup NoticeCall
      /\ call.kind = "leave" /\ call.room = r
      /\ call.occupied = (members[r] \ {s} # {})
      /\ pending' = Append(pending, call)
  BY DEF LeaveCallOf, LeaveCall, LeaveRoom
<1> HIDE DEF call
<1>2. /\ Splice(dmList[r], s) \in Seq(Socket)
      /\ Listed(Splice(dmList[r], s)) = Listed(dmList[r]) \ {s}
      /\ NoDuplicates(Splice(dmList[r], s))
  <2>1. dmList[r] \in Seq(Socket) /\ NoDuplicates(dmList[r])
    BY DEF IInv, TypeOK, NoRecordNoList
  <2>2. QED  BY <2>1, SpliceRemoves
<1>3. /\ pending' \in Seq(LeaveCall \cup NoticeCall)
      /\ Listed(pending') = Listed(pending) \cup {call}
  <2>1. pending \in Seq(LeaveCall \cup NoticeCall)
    BY DEF IInv, TypeOK
  <2>2. QED  BY <1>1, <2>1, ListedAppend
<1>4. /\ dmList'[r] = Splice(dmList[r], s)
      /\ members'[r] = members[r] \ {s}
      /\ \A x \in Socket \ {s} : told'[r][x] = told[r][x]
      /\ \A x \in RoomId \ {r} : /\ dmList'[x] = dmList[x]
                                 /\ members'[x] = members[x]
                                 /\ told'[x] = told[x]
  BY DEF LeaveRoom, IInv, TypeOK
<1>5. /\ rooms' = rooms /\ dmCurrent' = dmCurrent /\ todo' = todo
      /\ conn' = conn /\ rooms \subseteq RoomId
      /\ \A x \in RoomId : members[x] \subseteq Socket
  BY DEF LeaveRoom, IInv, TypeOK
<1>7. TypeOK'
  BY <1>2, <1>3 DEF LeaveRoom, IInv, TypeOK
<1>8. NoRecordNoList'
  BY <1>2, <1>4, <1>5 DEF IInv, NoRecordNoList
<1>9. OnlyClosedAreCleanedUp'
  BY <1>3, <1>4, <1>5, <1>1 DEF IInv, OnlyClosedAreCleanedUp, Up
<1>10. \A x \in Socket, y \in RoomId : CleanupAhead(x, y)' <=> CleanupAhead(x, y)
  BY <1>3, <1>5, <1>1 DEF CleanupAhead
<1>11. ListFollowsMembers'
  <2> SUFFICES ASSUME NEW x \in rooms
               PROVE  /\ members'[x] \subseteq Listed(dmList'[x])
                      /\ \A y \in Listed(dmList'[x]) \ members'[x] :
                           conn'[y] = "down" /\ CleanupAhead(y, x)'
                      /\ NoDuplicates(dmList'[x])
    BY <1>5 DEF ListFollowsMembers
  <2>1. Listed(dmList[x]) \subseteq Socket
    BY <1>5 DEF IInv, TypeOK, Listed
  <2>2. CASE x = r
    BY <2>1, <2>2, <1>2, <1>4, <1>5, <1>10 DEF IInv, ListFollowsMembers
  <2>3. CASE x # r
    BY <2>1, <2>3, <1>4, <1>5, <1>10 DEF IInv, ListFollowsMembers
  <2>4. QED  BY <2>2, <2>3
<1>12. MembersAgreeOnDM'
  <2> SUFFICES ASSUME NEW x \in rooms, NEW y \in members'[x]
               PROVE  told'[x][y] = dmCurrent[x]
    BY <1>5 DEF MembersAgreeOnDM
  <2>1. CASE x = r
    BY <2>1, <1>4, <1>5 DEF IInv, MembersAgreeOnDM
  <2>2. CASE x # r
    BY <2>2, <1>4, <1>5 DEF IInv, MembersAgreeOnDM
  <2>3. QED  BY <2>1, <2>2
<1>13. EmptyRoomIsOnItsWayOut'
  <2> SUFFICES ASSUME NEW x \in rooms, members'[x] = {}
               PROVE  \/ \E c \in Listed(pending') :
                           c.kind = "leave" /\ c.room = x /\ ~c.occupied
                      \/ \E y \in Socket : CleanupAhead(y, x)'
    BY <1>5 DEF EmptyRoomIsOnItsWayOut
  <2>1. CASE x = r
    BY <2>1, <1>3, <1>4, <1>1
  <2>2. CASE x # r
    BY <2>2, <1>3, <1>4, <1>5, <1>10 DEF IInv, EmptyRoomIsOnItsWayOut
  <2>3. QED  BY <2>1, <2>2
<1>14. LostDMIsReplaced'
  <2> SUFFICES ASSUME NEW x \in rooms, dmCurrent[x] \notin members'[x]
               PROVE  \/ \E c \in Listed(pending') :
                           c.kind = "leave" /\ c.room = x
                      \/ \E y \in Socket : CleanupAhead(y, x)'
    BY <1>5 DEF LostDMIsReplaced, LeaveAhead
  <2>1. CASE x = r
    BY <2>1, <1>3, <1>1
  <2>2. CASE x # r
    BY <2>2, <1>3, <1>4, <1>5, <1>10 DEF IInv, LostDMIsReplaced, LeaveAhead
  <2>3. QED  BY <2>1, <2>2
<1>15. QED
  BY <1>7, <1>8, <1>9, <1>11, <1>12, <1>13, <1>14 DEF IInv

LEMMA DisconnectIInv ==
  ASSUME IInv, NEW s \in Socket, Disconnect(s)
  PROVE  IInv'
<1> DEFINE call == [kind |-> "notice", sock |-> s, present |-> Up \ {s}]
<1>1. /\ call \in LeaveCall \cup NoticeCall
      /\ call.kind = "notice" /\ call.sock = s
      /\ pending' = Append(pending, call)
  BY DEF NoticeCall, Up, Disconnect
<1> HIDE DEF call
<1>2. /\ pending' \in Seq(LeaveCall \cup NoticeCall)
      /\ Listed(pending') = Listed(pending) \cup {call}
  <2>1. pending \in Seq(LeaveCall \cup NoticeCall)
    BY DEF IInv, TypeOK
  <2>2. QED  BY <1>1, <2>1, ListedAppend
<1>3. /\ \A x \in RoomId : /\ members'[x] = members[x] \ {s}
                           /\ \A y \in Socket \ {s} : told'[x][y] = told[x][y]
      /\ conn'[s] = "down"
      /\ \A y \in Socket \ {s} : conn'[y] = conn[y]
      /\ rooms' = rooms /\ dmCurrent' = dmCurrent /\ todo' = todo
      /\ dmList' = dmList /\ rooms \subseteq RoomId
      /\ \A x \in RoomId : members[x] \subseteq Socket
  BY DEF Disconnect, IInv, TypeOK
<1>4. TypeOK'
  BY <1>2 DEF Disconnect, IInv, TypeOK
<1>5. NoRecordNoList'
  BY <1>3 DEF IInv, NoRecordNoList
<1>6. OnlyClosedAreCleanedUp'
  <2>1. \A c \in Listed(pending) : c.sock \in Socket
    BY CallFields DEF IInv
  <2>2. QED
    BY <1>1, <1>2, <1>3, <2>1 DEF IInv, OnlyClosedAreCleanedUp, Up
<1>7. \A x \in Socket, y \in RoomId :
        CleanupAhead(x, y) \/ x = s => CleanupAhead(x, y)'
  BY <1>1, <1>2, <1>3 DEF CleanupAhead
<1>8. ListFollowsMembers'
  <2>1. \A x \in rooms : Listed(dmList[x]) \subseteq Socket
    BY <1>3 DEF IInv, TypeOK, Listed
  <2>2. QED
    BY <1>3, <1>7, <2>1 DEF IInv, ListFollowsMembers
<1>9. MembersAgreeOnDM'
  BY <1>3 DEF IInv, MembersAgreeOnDM
<1>10. EmptyRoomIsOnItsWayOut'
  BY <1>3, <1>7 DEF EmptyRoomIsOnItsWayOut
<1>11. LostDMIsReplaced'
  BY <1>3, <1>7 DEF LostDMIsReplaced
<1>12. QED
  BY <1>4, <1>5, <1>6, <1>8, <1>9, <1>10, <1>11 DEF IInv

-----------------------------------------------------------------------------
(* Answers of Redis.                                                       *)

\* What the steps have in common that take a call from the queue and then
\* go on with the disconnection of s in the rooms of T.
Progress(s, T, lists) ==
  /\ dmList' \in [RoomId -> Seq(Socket)]
  /\ todo' \in [Socket -> SUBSET RoomId]
  /\ pending' \in Seq(LeaveCall \cup NoticeCall)
  /\ \A r \in RoomId :
       /\ NoDuplicates(dmList'[r])
       /\ Listed(dmList'[r]) \subseteq Listed(lists[r])
       /\ Listed(lists[r]) \ {s} \subseteq Listed(dmList'[r])
       /\ r \notin T => dmList'[r] = lists[r]
  /\ \A r \in T :
       \/ r \in todo'[s]
       \/ /\ s \notin Listed(dmList'[r])
          /\ LeaveCallOf(s, r, TRUE) \in Listed(pending')
  /\ todo'[s] \subseteq T
  /\ \A x \in Socket \ {s} : todo'[x] = todo[x]
  /\ Listed(Tail(pending)) \subseteq Listed(pending')
  /\ \A call \in Listed(pending') :
       call.kind = "notice" => call \in Listed(pending)

LEMMA LeaveCallFields ==
  ASSUME NEW s \in Socket, NEW r \in RoomId, NEW closing \in BOOLEAN
  PROVE  /\ LeaveCallOf(s, r, closing) \in LeaveCall
         /\ LeaveCallOf(s, r, closing).kind = "leave"
         /\ LeaveCallOf(s, r, closing).sock = s
         /\ LeaveCallOf(s, r, closing).room = r
         /\ LeaveCallOf(s, r, closing).occupied = (members[r] \ {s} # {})
BY DEF LeaveCallOf, LeaveCall

LEMMA NextIterationProgress ==
  ASSUME TypeOK, pending # <<>>, NEW s \in Socket,
         NEW T \in SUBSET RoomId, NEW lists \in [RoomId -> Seq(Socket)],
         \A r \in RoomId : NoDuplicates(lists[r]),
         NextIteration(s, T, lists)
  PROVE  Progress(s, T, lists)
<1>1. /\ pending \in Seq(LeaveCall \cup NoticeCall)
      /\ Tail(pending) \in Seq(LeaveCall \cup NoticeCall)
      /\ Listed(Tail(pending)) \subseteq Listed(pending)
  <2>1. pending \in Seq(LeaveCall \cup NoticeCall)
    BY DEF TypeOK
  <2>2. QED  BY <2>1, ListedTail
<1>2. CASE /\ T = {}
           /\ dmList' = lists
           /\ todo' = [todo EXCEPT ![s] = {}]
           /\ pending' = Tail(pending)
  BY <1>1, <1>2 DEF Progress, TypeOK
<1>3. ASSUME NEW r \in T,
             dmList' = [lists EXCEPT ![r] = Splice(lists[r], s)],
             todo' = [todo EXCEPT ![s] = T \ {r}],
             pending' = Append(Tail(pending), LeaveCallOf(s, r, TRUE))
      PROVE  Progress(s, T, lists)
  <2> DEFINE call == LeaveCallOf(s, r, TRUE)
  <2>1. call \in LeaveCall \cup NoticeCall /\ call.kind = "leave"
    BY LeaveCallFields
  <2>2. pending' = Append(Tail(pending), call)
    BY <1>3
  <2> HIDE DEF call
  <2>3. /\ pending' \in Seq(LeaveCall \cup NoticeCall)
        /\ Listed(pending') = Listed(Tail(pending)) \cup {call}
    <3> DEFINE rest == Tail(pending)
    <3>1. rest \in Seq(LeaveCall \cup NoticeCall) /\ pending' = Append(rest, call)
      BY <1>1, <2>2
    <3> HIDE DEF rest
    <3>2. /\ pending' \in Seq(LeaveCall \cup NoticeCall)
          /\ Listed(pending') = Listed(rest) \cup {call}
      BY <2>1, <3>1, ListedAppend
    <3>3. QED  BY <3>2 DEF rest
  <2>4. /\ Splice(lists[r], s) \in Seq(Socket)
        /\ Listed(Splice(lists[r], s)) = Listed(lists[r]) \ {s}
        /\ NoDuplicates(Splice(lists[r], s))
    <3>1. lists[r] \in Seq(Socket) /\ NoDuplicates(lists[r])
      OBVIOUS
    <3>2. QED  BY <3>1, SpliceRemoves
  <2>5. /\ dmList' \in [RoomId -> Seq(Socket)]
        /\ dmList'[r] = Splice(lists[r], s)
        /\ \A x \in RoomId \ {r} : dmList'[x] = lists[x]
    BY <1>3, <2>4
  <2>6. /\ todo' \in [Socket -> SUBSET RoomId]
        /\ todo'[s] = T \ {r}
        /\ \A x \in Socket \ {s} : todo'[x] = todo[x]
    BY <1>3 DEF TypeOK
  <2>7. \A x \in RoomId :
          /\ NoDuplicates(dmList'[x])
          /\ Listed(dmList'[x]) \subseteq Listed(lists[x])
          /\ Listed(lists[x]) \ {s} \subseteq Listed(dmList'[x])
          /\ x \notin T => dmList'[x] = lists[x]
    <3> SUFFICES ASSUME NEW x \in RoomId
                 PROVE  /\ NoDuplicates(dmList'[x])
                        /\ Listed(dmList'[x]) \subseteq Listed(lists[x])
                        /\ Listed(lists[x]) \ {s} \subseteq Listed(dmList'[x])
                        /\ x \notin T => dmList'[x] = lists[x]
      OBVIOUS
    <3>1. CASE x = r
      BY <3>1, <2>4, <2>5
    <3>2. CASE x # r
      BY <3>2, <2>5
    <3>3. QED  BY <3>1, <3>2
  <2>8. \A x \in T :
          \/ x \in todo'[s]
          \/ /\ s \notin Listed(dmList'[x])
             /\ LeaveCallOf(s, x, TRUE) \in Listed(pending')
    <3> SUFFICES ASSUME NEW x \in T, x \notin todo'[s]
                 PROVE  /\ s \notin Listed(dmList'[x])
                        /\ LeaveCallOf(s, x, TRUE) \in Listed(pending')
      OBVIOUS
    <3>1. x = r
      BY <2>6
    <3>2. s \notin Listed(dmList'[x])
      BY <3>1, <2>4, <2>5
    <3>3. LeaveCallOf(s, x, TRUE) \in Listed(pending')
      BY <3>1, <2>3 DEF call
    <3>4. QED  BY <3>2, <3>3
  <2>9. QED
    BY <1>1, <2>1, <2>3, <2>5, <2>6, <2>7, <2>8 DEF Progress
<1>4. QED
  BY <1>2, <1>3 DEF NextIteration

LEMMA ReturnFromLeaveProgress ==
  ASSUME TypeOK, pending # <<>>, Head(pending).kind = "leave",
         NEW s, s = Head(pending).sock,
         NEW lists \in [RoomId -> Seq(Socket)],
         \A r \in RoomId : NoDuplicates(lists[r]),
         ReturnFromLeave(Head(pending), lists)
  PROVE  s \in Socket /\ Progress(s, todo[s], lists)
<1>1. /\ s \in Socket
      /\ Tail(pending) \in Seq(LeaveCall \cup NoticeCall)
      /\ Listed(Tail(pending)) \subseteq Listed(pending)
  <2>1. pending \in Seq(LeaveCall \cup NoticeCall)
    BY DEF TypeOK
  <2>2. QED  BY <2>1, ListedTail, CallFields
<1>2. todo[s] \in SUBSET RoomId
  BY <1>1 DEF TypeOK
<1>3. CASE dmList' = lists /\ pending' = Tail(pending) /\ todo' = todo
  BY <1>1, <1>2, <1>3 DEF Progress, TypeOK
<1>4. CASE NextIteration(s, todo[s], lists)
  BY <1>1, <1>2, <1>4, NextIterationProgress
<1>5. QED
  BY <1>1, <1>3, <1>4 DEF ReturnFromLeave

\* The call at the head is taken; what is left goes on with the rooms of T.
TakesHead(s, T, r) ==
  \/ Head(pending).kind = "leave" /\ T = todo[s]
  \/ Head(pending).kind = "notice" /\ Head(pending).sock = s /\ r \in T

\* A disconnection that was ahead in room r still is, or has just reached
\* it: then s is off the list and its leaveRoom is under way.
LEMMA CleanupSurvives ==
  ASSUME IInv, pending # <<>>, NEW s \in Socket, NEW T, NEW lists,
         Progress(s, T, lists), NEW r \in RoomId, TakesHead(s, T, r),
         NEW x \in Socket, CleanupAhead(x, r)
  PROVE  \/ CleanupAhead(x, r)'
         \/ /\ x = s
            /\ s \notin Listed(dmList'[r])
            /\ LeaveCallOf(s, r, TRUE) \in Listed(pending')
<1>1. Listed(pending) = Listed(Tail(pending)) \cup {Head(pending)}
  BY ListedTail DEF IInv, TypeOK
<1>2. CASE x # s
  BY <1>1, <1>2 DEF Progress, TakesHead, CleanupAhead
<1>3. CASE x = s
  <2>1. CASE r \in T
    BY <1>3, <2>1 DEF Progress, CleanupAhead
  <2>2. CASE r \notin T
    <3>1. Head(pending).kind = "leave" /\ r \notin todo[s]
      BY <2>2 DEF TakesHead
    <3>2. PICK call \in Listed(pending) : call.kind = "notice" /\ call.sock = s
      BY <1>3, <3>1 DEF CleanupAhead
    <3>3. call \in Listed(pending')
      BY <1>1, <3>1, <3>2 DEF Progress
    <3>4. QED  BY <1>3, <3>2, <3>3 DEF CleanupAhead
  <2>3. QED  BY <2>1, <2>2
<1>4. QED  BY <1>2, <1>3

\* The four properties, for one room.
RoomOK(r) ==
  /\ members[r] \subseteq Listed(dmList[r])
  /\ \A s \in Listed(dmList[r]) \ members[r] :
       conn[s] = "down" /\ CleanupAhead(s, r)
  /\ \A s \in members[r] : told[r][s] = dmCurrent[r]
  /\ members[r] = {} =>
       \/ \E call \in Listed(pending) :
            call.kind = "leave" /\ call.room = r /\ ~call.occupied
       \/ \E s \in Socket : CleanupAhead(s, r)
  /\ dmCurrent[r] \notin members[r] =>
       LeaveAhead(r) \/ \E s \in Socket : CleanupAhead(s, r)

LEMMA EveryRoomOK ==
  ASSUME TypeOK, NoRecordNoList
  PROVE  (\A r \in rooms : RoomOK(r))
           <=> /\ ListFollowsMembers
               /\ MembersAgreeOnDM
               /\ EmptyRoomIsOnItsWayOut
               /\ LostDMIsReplaced
BY DEF RoomOK, TypeOK, NoRecordNoList, ListFollowsMembers, MembersAgreeOnDM,
       EmptyRoomIsOnItsWayOut, LostDMIsReplaced

\* What the list of a room still lists, and its members, after such a step.
LEMMA ListAfterAnswer ==
  ASSUME IInv, pending # <<>>, NEW s \in Socket, NEW T, NEW lists,
         Progress(s, T, lists), NEW r \in rooms, TakesHead(s, T, r),
         T # {} => conn[s] = "down",
         lists[r] = dmList[r], members' = members, conn' = conn
  PROVE  /\ members'[r] \subseteq Listed(dmList'[r])
         /\ \A x \in Listed(dmList'[r]) \ members'[r] :
              conn'[x] = "down" /\ CleanupAhead(x, r)'
<1>1. r \in RoomId /\ RoomOK(r) /\ Listed(dmList[r]) \subseteq Socket
  BY EveryRoomOK DEF IInv, TypeOK, Listed
<1>2. members'[r] \subseteq Listed(dmList'[r])
  <2>1. CASE r \in T
    <3>1. s \notin members[r]
      BY <1>1, <2>1 DEF IInv, OnlyClosedAreCleanedUp, Up
    <3>2. QED  BY <1>1, <3>1 DEF RoomOK, Progress
  <2>2. CASE r \notin T
    BY <1>1, <2>2 DEF RoomOK, Progress
  <2>3. QED  BY <2>1, <2>2
<1>3. ASSUME NEW x \in Listed(dmList'[r]) \ members'[r]
      PROVE  conn'[x] = "down" /\ CleanupAhead(x, r)'
  <2>1. x \in Listed(dmList[r]) \ members[r] /\ x \in Socket
    BY <1>1, <1>3 DEF Progress
  <2>2. conn[x] = "down" /\ CleanupAhead(x, r)
    BY <1>1, <2>1 DEF RoomOK
  <2>3. \/ CleanupAhead(x, r)'
        \/ /\ x = s
           /\ s \notin Listed(dmList'[r])
           /\ LeaveCallOf(s, r, TRUE) \in Listed(pending')
    BY <1>1, <2>1, <2>2, CleanupSurvives
  <2>4. CleanupAhead(x, r)'
    BY <1>3, <2>3
  <2>5. QED  BY <2>2, <2>4
<1>4. QED  BY <1>2, <1>3

\* A room the answer is not about stays as it should be.
LEMMA OtherRoomOK ==
  ASSUME IInv, pending # <<>>, NEW s \in Socket, NEW T, NEW lists,
         Progress(s, T, lists), NEW r \in rooms, TakesHead(s, T, r),
         T # {} => conn[s] = "down",
         lists[r] = dmList[r], members' = members, conn' = conn,
         told'[r] = told[r], dmCurrent'[r] = dmCurrent[r],
         Head(pending).kind = "leave" => Head(pending).room # r
  PROVE  RoomOK(r)'
<1>1. r \in RoomId /\ RoomOK(r)
  BY EveryRoomOK DEF IInv, TypeOK
<1>2. Listed(pending) = Listed(Tail(pending)) \cup {Head(pending)}
  BY ListedTail DEF IInv, TypeOK
<1>3. ASSUME NEW call \in Listed(pending), call.kind = "leave", call.room = r
      PROVE  call \in Listed(pending')
  BY <1>2, <1>3 DEF Progress
<1>4. ASSUME NEW x \in Socket, CleanupAhead(x, r)
      PROVE  \/ \E y \in Socket : CleanupAhead(y, r)'
             \/ \E call \in Listed(pending') :
                  /\ call.kind = "leave"
                  /\ call.room = r
                  /\ members[r] = {} => ~call.occupied
  <2>1. CASE CleanupAhead(x, r)'
    BY <2>1
  <2>2. CASE LeaveCallOf(s, r, TRUE) \in Listed(pending')
    <3> DEFINE call == LeaveCallOf(s, r, TRUE)
    <3>1. /\ call.kind = "leave" /\ call.room = r
          /\ call.occupied = (members[r] \ {s} # {})
      BY DEF LeaveCallOf
    <3>2. call \in Listed(pending')
      BY <2>2
    <3> HIDE DEF call
    <3>3. QED  BY <3>1, <3>2
  <2>3. QED  BY <1>1, <1>4, <2>1, <2>2, CleanupSurvives
<1>5. members[r] = {} =>
        \/ \E call \in Listed(pending') :
             call.kind = "leave" /\ call.room = r /\ ~call.occupied
        \/ \E x \in Socket : CleanupAhead(x, r)'
  BY <1>1, <1>3, <1>4 DEF RoomOK
<1>6. dmCurrent[r] \notin members[r] =>
        \/ \E call \in Listed(pending') : call.kind = "leave" /\ call.room = r
        \/ \E x \in Socket : CleanupAhead(x, r)'
  BY <1>1, <1>3, <1>4 DEF RoomOK, LeaveAhead
<1>7. QED
  BY <1>1, <1>5, <1>6, ListAfterAnswer DEF RoomOK, LeaveAhead

LEMMA AnswerKeepsClosed ==
  ASSUME IInv, pending # <<>>, NEW s \in Socket, NEW T, NEW lists,
         Progress(s, T, lists), T # {} => conn[s] = "down",
         members' = members, conn' = conn
  PROVE  OnlyClosedAreCleanedUp'
<1>1. \A x \in Socket : todo'[x] # {} => conn[x] = "down"
  BY DEF IInv, OnlyClosedAreCleanedUp, Progress
<1>2. \A call \in Listed(pending') :
        call.kind = "notice" => conn[call.sock] = "down"
  BY DEF IInv, OnlyClosedAreCleanedUp, Progress
<1>3. QED
  BY <1>1, <1>2 DEF IInv, OnlyClosedAreCleanedUp, Up

LEMMA ResumeDisconnectIInv ==
  ASSUME IInv, NEW s \in Socket, ResumeDisconnect(s)
  PROVE  IInv'
<1>1. /\ pending # <<>> /\ Head(pending).kind = "notice"
      /\ Head(pending).sock = s
      /\ NextIteration(s, rooms, dmList)
      /\ conn' = conn /\ members' = members /\ rooms' = rooms
      /\ dmCurrent' = dmCurrent /\ told' = told
  BY DEF ResumeDisconnect, RoomsToLeave
<1>2. Progress(s, rooms, dmList)
  <2>1. /\ rooms \in SUBSET RoomId /\ dmList \in [RoomId -> Seq(Socket)]
        /\ \A r \in RoomId : NoDuplicates(dmList[r])
    BY DEF IInv, TypeOK, NoRecordNoList
  <2>2. QED
    BY <1>1, <2>1, NextIterationProgress DEF IInv
<1>3. conn[s] = "down"
  <2>1. Head(pending) \in Listed(pending)
    BY <1>1, ListedTail DEF IInv, TypeOK
  <2>2. QED
    BY <1>1, <2>1 DEF IInv, OnlyClosedAreCleanedUp
<1>4. TypeOK'
  BY <1>2 DEF ResumeDisconnect, IInv, TypeOK, Progress
<1>5. NoRecordNoList'
  BY <1>1, <1>2 DEF IInv, NoRecordNoList, Progress
<1>6. OnlyClosedAreCleanedUp'
  BY <1>1, <1>2, <1>3, AnswerKeepsClosed
<1>7. ASSUME NEW r \in rooms
      PROVE  RoomOK(r)'
  <2>1. TakesHead(s, rooms, r)
    BY <1>1 DEF TakesHead
  <2>2. QED
    BY <1>1, <1>2, <1>3, <2>1, OtherRoomOK
<1>8. (\A r \in rooms : RoomOK(r))'
  BY <1>1, <1>7
<1>9. ((\A r \in rooms : RoomOK(r)) <=> /\ ListFollowsMembers
                                        /\ MembersAgreeOnDM
                                        /\ EmptyRoomIsOnItsWayOut
                                        /\ LostDMIsReplaced)'
  BY <1>4, <1>5, EveryRoomOK, PTL
<1>10. QED
  BY <1>4, <1>5, <1>6, <1>8, <1>9 DEF IInv

LEMMA DestroyRoomIInv ==
  ASSUME IInv, NEW r \in RoomId, DestroyRoom(r)
  PROVE  IInv'
<1> DEFINE lists == [dmList EXCEPT ![r] = <<>>]
<1>1. /\ pending # <<>> /\ Head(pending).kind = "leave"
      /\ Head(pending).room = r
      /\ ReturnFromLeave(Head(pending), lists)
      /\ conn' = conn /\ members' = members /\ rooms' = rooms \ {r}
      /\ told' = told
  BY DEF DestroyRoom, LeaveAnswered
<1>2. /\ lists \in [RoomId -> Seq(Socket)]
      /\ Listed(lists[r]) = {}
      /\ \A x \in RoomId \ {r} : lists[x] = dmList[x]
      /\ \A x \in RoomId : NoDuplicates(lists[x])
  <2>1. Listed(<<>>) = {} /\ NoDuplicates(<<>>) /\ <<>> \in Seq(Socket)
    BY DEF Listed, NoDuplicates
  <2>2. QED  BY <2>1 DEF IInv, TypeOK, NoRecordNoList
<1> HIDE DEF lists
<1>3. PICK s : s = Head(pending).sock
  OBVIOUS
<1>4. s \in Socket /\ Progress(s, todo[s], lists)
  BY <1>1, <1>2, <1>3, ReturnFromLeaveProgress DEF IInv
<1>5. todo[s] # {} => conn[s] = "down"
  BY <1>4 DEF IInv, OnlyClosedAreCleanedUp
<1>6. TypeOK'
  BY <1>4 DEF DestroyRoom, IInv, TypeOK, Progress
<1>7. NoRecordNoList'
  <2> SUFFICES ASSUME NEW x \in RoomId
               PROVE  /\ NoDuplicates(dmList'[x])
                      /\ x \notin rooms' => Listed(dmList'[x]) = {}
    BY DEF NoRecordNoList
  <2>1. NoDuplicates(dmList'[x]) /\ Listed(dmList'[x]) \subseteq Listed(lists[x])
    BY <1>4 DEF Progress
  <2>2. x \notin rooms' => Listed(lists[x]) = {}
    BY <1>1, <1>2 DEF IInv, NoRecordNoList
  <2>3. QED  BY <2>1, <2>2
<1>8. OnlyClosedAreCleanedUp'
  BY <1>1, <1>4, <1>5, AnswerKeepsClosed
<1>9. ASSUME NEW x \in rooms \ {r}
      PROVE  RoomOK(x)'
  <2>1. x \in RoomId /\ lists[x] = dmList[x]
    BY <1>2 DEF IInv, TypeOK
  <2>2. dmCurrent'[x] = dmCurrent[x]
    BY <2>1 DEF DestroyRoom, IInv, TypeOK
  <2>3. TakesHead(s, todo[s], x)
    BY <1>1 DEF TakesHead
  <2>4. QED
    BY <1>1, <1>4, <1>5, <2>1, <2>2, <2>3, OtherRoomOK
<1>10. (\A x \in rooms : RoomOK(x))'
  BY <1>1, <1>9
<1>11. ((\A x \in rooms : RoomOK(x)) <=> /\ ListFollowsMembers
                                         /\ MembersAgreeOnDM
                                         /\ EmptyRoomIsOnItsWayOut
                                         /\ LostDMIsReplaced)'
  BY <1>6, <1>7, EveryRoomOK, PTL
<1>12. QED
  BY <1>6, <1>7, <1>8, <1>10, <1>11 DEF IInv

LEMMA SelectDecisionMakerIInv ==
  ASSUME IInv, NEW r \in RoomId, SelectDecisionMaker(r)
  PROVE  IInv'
<1> DEFINE dm == FirstListed(r)
<1>1. /\ pending # <<>> /\ Head(pending).kind = "leave"
      /\ Head(pending).room = r /\ Head(pending).occupied
      /\ ReturnFromLeave(Head(pending), dmList)
      /\ conn' = conn /\ members' = members /\ rooms' = rooms /\ r \in rooms
      /\ dmCurrent' = [dmCurrent EXCEPT ![r] = dm]
      /\ told' = [told EXCEPT ![r] = Announced(r, dm)]
  BY DEF SelectDecisionMaker, LeaveAnswered
<1>2. /\ dmList \in [RoomId -> Seq(Socket)]
      /\ \A x \in RoomId : NoDuplicates(dmList[x])
      /\ Listed(dmList[r]) \subseteq Socket
  BY DEF IInv, TypeOK, NoRecordNoList, Listed
<1>3. \/ dm = Nobody /\ Listed(dmList[r]) = {}
      \/ dm \in Listed(dmList[r])
  BY <1>2 DEF FirstListed, Listed
<1> HIDE DEF dm
<1>4. PICK s : s = Head(pending).sock
  OBVIOUS
<1>5. s \in Socket /\ Progress(s, todo[s], dmList)
  BY <1>1, <1>2, <1>4, ReturnFromLeaveProgress DEF IInv
<1>6. todo[s] # {} => conn[s] = "down"
  BY <1>5 DEF IInv, OnlyClosedAreCleanedUp
<1>7. /\ dmCurrent'[r] = dm
      /\ told'[r] = Announced(r, dm)
      /\ \A x \in RoomId \ {r} :
           dmCurrent'[x] = dmCurrent[x] /\ told'[x] = told[x]
      /\ rooms \subseteq RoomId
      /\ members[r] \subseteq Socket
  BY <1>1 DEF IInv, TypeOK
<1>8. TypeOK'
  <2>1. dm \in Socket \cup {Nobody}
    BY <1>2, <1>3
  <2>2. Announced(r, dm) \in [Socket -> Socket \cup {Nobody}]
    BY <2>1 DEF Announced, IInv, TypeOK
  <2>3. /\ dmList' \in [RoomId -> Seq(Socket)]
        /\ todo' \in [Socket -> SUBSET RoomId]
        /\ pending' \in Seq(LeaveCall \cup NoticeCall)
    BY <1>5 DEF Progress
  <2>4. fresh' = fresh /\ running' = running
    BY DEF SelectDecisionMaker
  <2>5. QED
    BY <1>1, <2>1, <2>2, <2>3, <2>4 DEF IInv, TypeOK
<1>9. NoRecordNoList'
  BY <1>1, <1>5 DEF IInv, NoRecordNoList, Progress
<1>10. OnlyClosedAreCleanedUp'
  BY <1>1, <1>5, <1>6, AnswerKeepsClosed
<1>11. ASSUME NEW x \in rooms \ {r}
       PROVE  RoomOK(x)'
  <2>1. TakesHead(s, todo[s], x)
    BY <1>1 DEF TakesHead
  <2>2. QED
    BY <1>1, <1>5, <1>6, <1>7, <1>11, <2>1, OtherRoomOK
<1>12. RoomOK(r)'
  <2>1. TakesHead(s, todo[s], r) /\ RoomOK(r)
    BY <1>1, EveryRoomOK DEF TakesHead, IInv
  <2>2. /\ members'[r] \subseteq Listed(dmList'[r])
        /\ \A x \in Listed(dmList'[r]) \ members'[r] :
             conn'[x] = "down" /\ CleanupAhead(x, r)'
    BY <1>1, <1>5, <1>6, <2>1, ListAfterAnswer
  <2>3. \A x \in members'[r] : told'[r][x] = dmCurrent'[r]
    BY <1>1, <1>7 DEF Announced
  <2>4. Listed(pending) = Listed(Tail(pending)) \cup {Head(pending)}
    BY <1>1, ListedTail DEF IInv, TypeOK
  <2>5. ASSUME NEW x \in Socket, CleanupAhead(x, r)
        PROVE  \/ \E y \in Socket : CleanupAhead(y, r)'
               \/ \E call \in Listed(pending') :
                    /\ call.kind = "leave"
                    /\ call.room = r
                    /\ members[r] = {} => ~call.occupied
    <3>1. CASE CleanupAhead(x, r)'
      BY <3>1
    <3>2. CASE LeaveCallOf(s, r, TRUE) \in Listed(pending')
      <4> DEFINE call == LeaveCallOf(s, r, TRUE)
      <4>1. /\ call.kind = "leave" /\ call.room = r
            /\ call.occupied = (members[r] \ {s} # {})
        BY DEF LeaveCallOf
      <4>2. call \in Listed(pending')
        BY <3>2
      <4> HIDE DEF call
      <4>3. QED  BY <4>1, <4>2
    <3>3. QED  BY <1>1, <1>5, <2>1, <2>5, <3>1, <3>2, CleanupSurvives
  <2>6. members[r] = {} =>
          \/ \E call \in Listed(pending') :
               call.kind = "leave" /\ call.room = r /\ ~call.occupied
          \/ \E x \in Socket : CleanupAhead(x, r)'
    <3>1. ASSUME NEW call \in Listed(pending), ~call.occupied
          PROVE  call \in Listed(pending')
      BY <1>1, <1>5, <2>4, <3>1 DEF Progress
    <3>2. QED  BY <2>1, <2>5, <3>1 DEF RoomOK
  <2>7. dm \notin members[r] =>
          \/ \E call \in Listed(pending') : call.kind = "leave" /\ call.room = r
          \/ \E x \in Socket : CleanupAhead(x, r)'
    <3>1. CASE Listed(dmList[r]) = {}
      BY <2>1, <2>6, <3>1 DEF RoomOK
    <3>2. CASE dm \in Listed(dmList[r]) \ members[r]
      <4>1. dm \in Socket /\ CleanupAhead(dm, r)
        BY <1>2, <2>1, <3>2 DEF RoomOK
      <4>2. QED  BY <4>1, <2>5
    <3>3. QED  BY <1>3, <3>1, <3>2
  <2>8. QED
    BY <1>1, <1>7, <2>2, <2>3, <2>6, <2>7 DEF RoomOK, LeaveAhead
<1>13. (\A x \in rooms : RoomOK(x))'
  BY <1>1, <1>11, <1>12
<1>14. ((\A x \in rooms : RoomOK(x)) <=> /\ ListFollowsMembers
                                         /\ MembersAgreeOnDM
                                         /\ EmptyRoomIsOnItsWayOut
                                         /\ LostDMIsReplaced)'
  BY <1>8, <1>9, EveryRoomOK, PTL
<1>15. QED
  BY <1>8, <1>9, <1>10, <1>13, <1>14 DEF IInv

LEMMA SelectInMissingRoomIInv ==
  ASSUME IInv, NEW r \in RoomId, SelectInMissingRoom(r)
  PROVE  IInv'
<1>1. Listed(<<>>) = {} /\ NoDuplicates(<<>>)
  BY DEF Listed, NoDuplicates
<1>2. TypeOK'
  <2>1. /\ <<>> \in Seq(Socket) /\ <<>> \in Seq(LeaveCall \cup NoticeCall)
        /\ [s \in Socket |-> Nobody] \in [Socket -> Socket \cup {Nobody}]
    OBVIOUS
  <2>2. /\ conn' \in [Socket -> {"new", "up", "down"}]
        /\ dmList' \in [RoomId -> Seq(Socket)]
        /\ pending' \in Seq(LeaveCall \cup NoticeCall)
    BY <2>1 DEF SelectInMissingRoom, IInv, TypeOK
  <2>3. told' \in [RoomId -> [Socket -> Socket \cup {Nobody}]]
    BY <2>1 DEF SelectInMissingRoom
  <2>4. QED
    BY <2>2, <2>3 DEF SelectInMissingRoom, IInv, TypeOK
<1>3. NoRecordNoList' /\ OnlyClosedAreCleanedUp'
  BY <1>1 DEF SelectInMissingRoom, NoRecordNoList, OnlyClosedAreCleanedUp
<1>4. rooms' = {}
  BY DEF SelectInMissingRoom
<1>5. QED
  BY <1>2, <1>3, <1>4 DEF IInv, ListFollowsMembers, MembersAgreeOnDM,
                          EmptyRoomIsOnItsWayOut, LostDMIsReplaced

LEMMA SameTablesIInv ==
  ASSUME IInv, running' \in BOOLEAN,
         UNCHANGED <<conn, members, fresh, rooms, dmList, dmCurrent, pending,
                     todo, told>>
  PROVE  IInv'
<1>1. TypeOK'
  BY DEF IInv, TypeOK
<1>2. NoRecordNoList' /\ OnlyClosedAreCleanedUp'
  BY DEF IInv, NoRecordNoList, OnlyClosedAreCleanedUp, Up
<1>3. \A s \in Socket, r \in RoomId : CleanupAhead(s, r)' <=> CleanupAhead(s, r)
  BY DEF CleanupAhead
<1>4. rooms \subseteq RoomId
        /\ \A r \in rooms : Listed(dmList[r]) \subseteq Socket
  BY DEF IInv, TypeOK, Listed
<1>5. ListFollowsMembers'
  BY <1>3, <1>4 DEF IInv, ListFollowsMembers
<1>6. MembersAgreeOnDM'
  BY DEF IInv, MembersAgreeOnDM
<1>7. EmptyRoomIsOnItsWayOut'
  BY <1>3, <1>4 DEF IInv, EmptyRoomIsOnItsWayOut
<1>8. LostDMIsReplaced'
  BY <1>3, <1>4 DEF IInv, LostDMIsReplaced, LeaveAhead
<1>9. QED
  BY <1>1, <1>2, <1>5, <1>6, <1>7, <1>8 DEF IInv

LEMMA RestartIInv ==
  ASSUME IInv, Restart
  PROVE  IInv'
BY SameTablesIInv DEF Restart

LEMMA StutterIInv ==
  ASSUME IInv, UNCHANGED vars
  PROVE  IInv'
<1>1. running' \in BOOLEAN
  BY DEF vars, IInv, TypeOK
<1>2. QED  BY <1>1, SameTablesIInv DEF vars

-----------------------------------------------------------------------------
(* The theorems.                                                           *)

\* Every step of the rooms preserves IInv.
LEMMA NextIInv ==
  ASSUME IInv, [Next]_vars
  PROVE  IInv'
<1>1. CASE \E s \in Socket : Connect(s) \/ Disconnect(s)
  BY <1>1, ConnectIInv, DisconnectIInv
<1>2. CASE \E s \in Socket, r \in RoomId :
             CreateRoom(s, r) \/ JoinRoom(s, r) \/ LeaveRoom(s, r)
  BY <1>2, CreateRoomIInv, JoinRoomIInv, LeaveRoomIInv
<1>3. CASE Answer
  BY <1>3, ResumeDisconnectIInv, DestroyRoomIInv, SelectDecisionMakerIInv,
     SelectInMissingRoomIInv DEF Answer
<1>4. CASE Restart
  BY <1>4, RestartIInv
<1>5. CASE UNCHANGED vars
  BY <1>5, StutterIInv
<1>6. QED  BY <1>1, <1>2, <1>3, <1>4, <1>5 DEF Next

\* IInv holds in every reachable state.
THEOREM RoomsInvariant == Spec => []IInv
<1>1. IInv /\ [Next]_vars => IInv'
  BY NextIInv
<1>2. QED  BY InitIInv, <1>1, PTL DEF Spec

\* Type correctness of the room tables, the call queue and the loops.
THEOREM RoomsTypeOK == Spec => []TypeOK
<1>1. IInv => TypeOK
  BY DEF IInv
<1>2. QED  BY RoomsInvariant, <1>1, PTL

\* However connections, requests and Redis answers interleave, the list of
\* a room covers its members and otherwise only sockets still to be removed.
THEOREM ListAlwaysFollowsMembers == Spec => []ListFollowsMembers
<1>1. IInv => ListFollowsMembers
  BY DEF IInv
<1>2. QED  BY RoomsInvariant, <1>1, PTL

\* Two members of a room never hold different decision makers to be it.
THEOREM MembersAlwaysAgreeOnDM == Spec => []MembersAgreeOnDM
<1>1. IInv => MembersAgreeOnDM
  BY DEF IInv
<1>2. QED  BY RoomsInvariant, <1>1, PTL

\* No empty room is ever left without the call that will destroy it.
THEOREM EmptyRoomsAreOnTheirWayOut == Spec => []EmptyRoomIsOnItsWayOut
<1>1. IInv => EmptyRoomIsOnItsWayOut
  BY DEF IInv
<1>2. QED  BY RoomsInvariant, <1>1, PTL

\* No room whose decision maker is not in it is ever left without the call
\* that will choose again.
THEOREM LostDMIsAlwaysReplaced == Spec => []LostDMIsReplaced
<1>1. IInv => LostDMIsReplaced
  BY DEF IInv
<1>2. QED  BY RoomsInvariant, <1>1, PTL

-----------------------------------------------------------------------------
(* The server implements the rooms.                                        *)

\* A login is a step of the rooms, that of the connection it closes, or
\* leaves them alone.
LEMMA LoginVerifiedIsRoomStep ==
  ASSUME NEW s \in Socket, NEW u \in User, LoginVerified(s, u)
  PROVE  [Next]_vars
<1>1. CASE UNCHANGED vars
  BY <1>1
<1>2. ASSUME NEW old \in Accounts!Holders(s, u), Disconnect(old)
      PROVE  [Next]_vars
  <2>1. old \in Socket
    BY DEF Accounts!Holders
  <2>2. QED  BY <1>2, <2>1 DEF Next
<1>3. QED  BY <1>1, <1>2 DEF LoginVerified, SentAway

\* Every step of the server is a step of the rooms or leaves them alone.
LEMMA ServerStepIsRoomStep ==
  ASSUME [ServerNext]_serverVars
  PROVE  [Next]_vars
<1>1. ASSUME NEW s \in Socket, Client(s) \/ Close(s)
      PROVE  [Next]_vars
  BY <1>1 DEF Client, Close, Next
<1>2. ASSUME NEW s \in Socket, NEW r \in RoomId, ClientLeaves(s, r)
      PROVE  [Next]_vars
  BY <1>2 DEF ClientLeaves, Next
<1>3. ASSUME NEW s \in Socket, NEW u \in User \cup {NoUser}, Login(s, u)
      PROVE  [Next]_vars
  BY <1>3 DEF Login
<1>4. ASSUME NEW s \in Socket, NEW u \in User, LoginVerified(s, u)
      PROVE  [Next]_vars
  BY <1>4, LoginVerifiedIsRoomStep
<1>5. ASSUME NEW s \in Socket, LoginAsGuest(s) \/ LoginRefused(s)
      PROVE  [Next]_vars
  BY <1>5 DEF LoginAsGuest, LoginRefused
<1>6. CASE RedisAnswers
  BY <1>6 DEF RedisAnswers, OnDisconnect, OnLeaveAnswered, Answer, Next
<1>7. CASE RestartServer
  BY <1>7 DEF RestartServer, Next
<1>8. CASE UNCHANGED serverVars
  BY <1>8 DEF serverVars
<1>9. QED
  BY <1>1, <1>2, <1>3, <1>4, <1>5, <1>6, <1>7, <1>8 DEF ServerNext

\* Every behaviour of the server is one of RoomManager.
LEMMA ServerImplementsRooms == ServerSpec => Spec
<1>1. ServerInit => Init
  BY DEF ServerInit
<1>2. [ServerNext]_serverVars => [Next]_vars
  BY ServerStepIsRoomStep
<1>3. QED  BY <1>1, <1>2, PTL DEF ServerSpec, Spec

\* In the server, too, the two tables of a room follow each other and the
\* members of a room were told the same decision maker.
THEOREM ServerKeepsRooms ==
  ServerSpec => [](ListFollowsMembers /\ MembersAgreeOnDM)
<1>1. ServerSpec => Spec
  BY ServerImplementsRooms
<1>2. QED
  BY <1>1, ListAlwaysFollowsMembers, MembersAlwaysAgreeOnDM, PTL

-----------------------------------------------------------------------------
(* The queue.  A connection closes once, so that it has one notice in the  *)
(* queue at most: when onDisconnect takes it, none is left.                *)

IsNoticeOf(call, s) == call.kind = "notice" /\ call.sock = s

NoticesOnce(queue) ==
  \A i, j \in 1 .. Len(queue) : \A s \in Socket :
    IsNoticeOf(queue[i], s) /\ IsNoticeOf(queue[j], s) => i = j

\* A call that is no notice, or the first of its connection, joins the queue.
LEMMA AppendNoticesOnce ==
  ASSUME NEW S, NEW queue \in Seq(S), NEW call \in S,
         NoticesOnce(queue),
         \A s \in Socket : IsNoticeOf(call, s) =>
           \A c \in Listed(queue) : ~IsNoticeOf(c, s)
  PROVE  NoticesOnce(Append(queue, call))
<1> DEFINE longer == Append(queue, call)
<1>1. /\ Len(longer) = Len(queue) + 1
      /\ longer[Len(queue) + 1] = call
      /\ \A i \in 1 .. Len(queue) : longer[i] = queue[i]
  OBVIOUS
<1> SUFFICES ASSUME NEW i \in 1 .. Len(longer), NEW j \in 1 .. Len(longer),
                    NEW s \in Socket,
                    IsNoticeOf(longer[i], s), IsNoticeOf(longer[j], s)
             PROVE  i = j
  BY DEF NoticesOnce
<1> HIDE DEF longer
<1>2. ASSUME NEW k \in 1 .. Len(queue) PROVE queue[k] \in Listed(queue)
  BY DEF Listed
<1>3. Len(queue) \in Nat
  OBVIOUS
<1>4. CASE i \in 1 .. Len(queue) /\ j \in 1 .. Len(queue)
  BY <1>1, <1>4 DEF NoticesOnce
<1>5. CASE i = Len(queue) + 1 /\ j \in 1 .. Len(queue)
  BY <1>1, <1>2, <1>5
<1>6. CASE j = Len(queue) + 1 /\ i \in 1 .. Len(queue)
  BY <1>1, <1>2, <1>6
<1>7. CASE i = Len(queue) + 1 /\ j = Len(queue) + 1
  BY <1>7
<1>8. QED  BY <1>1, <1>3, <1>4, <1>5, <1>6, <1>7

\* The head leaves the queue; if it was a notice, it was the last of its
\* connection.
LEMMA TailNoticesOnce ==
  ASSUME NEW S, NEW queue \in Seq(S), queue # <<>>, NoticesOnce(queue)
  PROVE  /\ NoticesOnce(Tail(queue))
         /\ \A s \in Socket : IsNoticeOf(Head(queue), s) =>
              \A c \in Listed(Tail(queue)) : ~IsNoticeOf(c, s)
<1> DEFINE rest == Tail(queue)
<1>1. /\ 1 \in 1 .. Len(queue) /\ queue[1] = Head(queue)
      /\ \A i \in 1 .. Len(rest) :
           i + 1 \in 1 .. Len(queue) /\ rest[i] = queue[i + 1] /\ i + 1 # 1
  OBVIOUS
<1> HIDE DEF rest
<1>2. NoticesOnce(rest)
  <2> SUFFICES ASSUME NEW i \in 1 .. Len(rest), NEW j \in 1 .. Len(rest),
                      NEW s \in Socket,
                      IsNoticeOf(rest[i], s), IsNoticeOf(rest[j], s)
               PROVE  i = j
    BY DEF NoticesOnce
  <2>1. i + 1 = j + 1
    BY <1>1 DEF NoticesOnce
  <2>2. QED  BY <2>1
<1>3. ASSUME NEW s \in Socket, IsNoticeOf(Head(queue), s),
             NEW c \in Listed(rest)
      PROVE  ~IsNoticeOf(c, s)
  <2>1. PICK i \in 1 .. Len(rest) : c = rest[i]
    BY DEF Listed
  <2>2. i + 1 \in 1 .. Len(queue) /\ c = queue[i + 1] /\ i + 1 # 1
    BY <1>1, <2>1
  <2>3. QED  BY <1>1, <1>3, <2>2 DEF NoticesOnce
<1>4. QED  BY <1>2, <1>3 DEF rest

\* A leaveRoom that waits is no notice.
LEMMA LeaveIsNoNotice ==
  ASSUME TypeOK, NEW s \in Socket, NEW r \in RoomId, NEW closing \in BOOLEAN
  PROVE  /\ LeaveCallOf(s, r, closing) \in LeaveCall \cup NoticeCall
         /\ \A x \in Socket : ~IsNoticeOf(LeaveCallOf(s, r, closing), x)
BY LeaveCallFields DEF IsNoticeOf

\* The notices in a queue, and so the connections still to be removed.
LEMMA NoticeAheadIs ==
  \A s \in Socket :
    NoticeAhead(s) <=> \E call \in Listed(pending) : IsNoticeOf(call, s)
BY DEF NoticeAhead, IsNoticeOf

\* A step that puts a leaveRoom at the end of the queue.
LEMMA LeaveJoinsQueue ==
  ASSUME TypeOK, NoticesOnce(pending), NEW s \in Socket, NEW r \in RoomId,
         pending' = Append(pending, LeaveCallOf(s, r, FALSE))
  PROVE  /\ NoticesOnce(pending')
         /\ \A x \in Socket : NoticeAhead(x)' <=> NoticeAhead(x)
<1> DEFINE call == LeaveCallOf(s, r, FALSE)
<1>1. /\ pending \in Seq(LeaveCall \cup NoticeCall)
      /\ call \in LeaveCall \cup NoticeCall
      /\ \A x \in Socket : ~IsNoticeOf(call, x)
  BY LeaveIsNoNotice DEF TypeOK
<1>2. pending' = Append(pending, call)
  OBVIOUS
<1> HIDE DEF call
<1>3. NoticesOnce(Append(pending, call))
  BY <1>1, AppendNoticesOnce
<1>4. Listed(Append(pending, call)) = Listed(pending) \cup {call}
  BY <1>1, ListedAppend
<1>5. QED  BY <1>1, <1>2, <1>3, <1>4 DEF NoticeAhead, IsNoticeOf

\* The step that closes a connection.
LEMMA NoticeJoinsQueue ==
  ASSUME IInv, NoticesOnce(pending), NEW s \in Socket, Disconnect(s)
  PROVE  /\ NoticesOnce(pending')
         /\ \A x \in Socket : NoticeAhead(x)' <=> NoticeAhead(x) \/ x = s
<1> DEFINE call == [kind |-> "notice", sock |-> s, present |-> Up \ {s}]
<1>1. /\ pending \in Seq(LeaveCall \cup NoticeCall)
      /\ call \in LeaveCall \cup NoticeCall
      /\ \A x \in Socket : IsNoticeOf(call, x) <=> x = s
  BY DEF IInv, TypeOK, NoticeCall, Up, IsNoticeOf
<1>2. pending' = Append(pending, call)
  BY DEF Disconnect
<1> HIDE DEF call
<1>3. \A c \in Listed(pending) : ~IsNoticeOf(c, s)
  BY DEF Disconnect, IInv, OnlyClosedAreCleanedUp, IsNoticeOf
<1>4. NoticesOnce(Append(pending, call))
  BY <1>1, <1>3, AppendNoticesOnce
<1>5. Listed(Append(pending, call)) = Listed(pending) \cup {call}
  BY <1>1, ListedAppend
<1>6. QED  BY <1>1, <1>2, <1>4, <1>5 DEF NoticeAhead, IsNoticeOf

\* A step that takes the head, and may go on to another room.
LEMMA HeadLeavesQueue ==
  ASSUME TypeOK, NoticesOnce(pending), pending # <<>>,
         \/ pending' = Tail(pending)
         \/ \E s \in Socket, r \in RoomId :
              pending' = Append(Tail(pending), LeaveCallOf(s, r, TRUE))
  PROVE  /\ NoticesOnce(pending')
         /\ \A c \in Listed(pending) : c # Head(pending) => c \in Listed(pending')
         /\ \A x \in Socket :
              NoticeAhead(x)' <=> NoticeAhead(x) /\ ~IsNoticeOf(Head(pending), x)
<1> DEFINE rest == Tail(pending)
<1>1. /\ pending \in Seq(LeaveCall \cup NoticeCall)
      /\ rest \in Seq(LeaveCall \cup NoticeCall)
      /\ Listed(pending) = Listed(rest) \cup {Head(pending)}
  <2>1. pending \in Seq(LeaveCall \cup NoticeCall)
    BY DEF TypeOK
  <2>2. QED  BY <2>1, ListedTail
<1>2. /\ NoticesOnce(rest)
      /\ \A x \in Socket : IsNoticeOf(Head(pending), x) =>
           \A c \in Listed(rest) : ~IsNoticeOf(c, x)
  BY <1>1, TailNoticesOnce
<1>3. \/ pending' = rest
      \/ \E s \in Socket, r \in RoomId :
           pending' = Append(rest, LeaveCallOf(s, r, TRUE))
  OBVIOUS
<1> HIDE DEF rest
<1>4. CASE pending' = rest
  BY <1>1, <1>2, <1>4 DEF NoticeAhead, IsNoticeOf
<1>5. ASSUME NEW s \in Socket, NEW r \in RoomId,
             pending' = Append(rest, LeaveCallOf(s, r, TRUE))
      PROVE  /\ NoticesOnce(pending')
             /\ Listed(pending') = Listed(rest) \cup {LeaveCallOf(s, r, TRUE)}
             /\ \A x \in Socket : ~IsNoticeOf(LeaveCallOf(s, r, TRUE), x)
  <2> DEFINE call == LeaveCallOf(s, r, TRUE)
  <2>1. /\ call \in LeaveCall \cup NoticeCall
        /\ \A x \in Socket : ~IsNoticeOf(call, x)
    BY LeaveIsNoNotice
  <2>2. pending' = Append(rest, call)
    BY <1>5
  <2> HIDE DEF call
  <2>3. NoticesOnce(Append(rest, call))
    BY <1>1, <1>2, <2>1, AppendNoticesOnce
  <2>4. Listed(Append(rest, call)) = Listed(rest) \cup {call}
    BY <1>1, <2>1, ListedAppend
  <2>5. NoticesOnce(pending') /\ Listed(pending') = Listed(rest) \cup {call}
    BY <2>2, <2>3, <2>4
  <2>6. QED  BY <2>1, <2>5 DEF call
<1>6. CASE \E s \in Socket, r \in RoomId :
             pending' = Append(rest, LeaveCallOf(s, r, TRUE))
  <2>1. PICK s \in Socket, r \in RoomId :
          pending' = Append(rest, LeaveCallOf(s, r, TRUE))
    BY <1>6
  <2>2. /\ NoticesOnce(pending')
        /\ Listed(pending') = Listed(rest) \cup {LeaveCallOf(s, r, TRUE)}
        /\ \A x \in Socket : ~IsNoticeOf(LeaveCallOf(s, r, TRUE), x)
    BY <1>5, <2>1
  <2>3. QED  BY <1>1, <1>2, <2>2 DEF NoticeAhead, IsNoticeOf
<1>7. QED  BY <1>3, <1>4, <1>6

\* Taking a notice, and the answer of a leaveRoom, take the head.
LEMMA NextIterationTakesHead ==
  ASSUME TypeOK, NEW s \in Socket, NEW T \in SUBSET RoomId, NEW lists,
         NextIteration(s, T, lists)
  PROVE  \/ pending' = Tail(pending)
         \/ \E x \in Socket, r \in RoomId :
              pending' = Append(Tail(pending), LeaveCallOf(x, r, TRUE))
BY DEF NextIteration

LEMMA ReturnFromLeaveTakesHead ==
  ASSUME TypeOK, pending # <<>>, NEW lists, Head(pending).kind = "leave",
         ReturnFromLeave(Head(pending), lists)
  PROVE  \/ pending' = Tail(pending)
         \/ \E x \in Socket, r \in RoomId :
              pending' = Append(Tail(pending), LeaveCallOf(x, r, TRUE))
<1>1. Head(pending).sock \in Socket
  <2>1. pending \in Seq(LeaveCall \cup NoticeCall)
    BY DEF TypeOK
  <2>2. QED  BY <2>1, ListedTail, CallFields
<1>2. todo[Head(pending).sock] \in SUBSET RoomId
  BY <1>1 DEF TypeOK
<1>3. CASE pending' = Tail(pending)
  BY <1>3
<1>4. CASE NextIteration(Head(pending).sock, todo[Head(pending).sock], lists)
  BY <1>1, <1>2, <1>4, NextIterationTakesHead
<1>5. QED  BY <1>3, <1>4 DEF ReturnFromLeave

-----------------------------------------------------------------------------
(* The inductive invariant.  The rooms bring IInv.  Beyond it: a           *)
(* connection has one notice in the queue at most; one that has not been   *)
(* opened has no account and no login; an id that was not drawn has no     *)
(* record; and whoever is to be told of a closed connection is among the   *)
(* sockets that were there when its notice was put in the queue.           *)

AccountTypes ==
  /\ bound \in [Socket -> User \cup {NoUser}]
  /\ verifying \in SUBSET (Socket \X (User \cup {NoUser}))
  /\ answered \in [Socket -> User \cup {NoUser}]
  /\ guests \in SUBSET Socket

NewAreUnbound ==
  \A s \in Socket : conn[s] = "new" =>
    bound[s] = NoUser /\ \A u \in User \cup {NoUser} : <<s, u>> \notin verifying

FreshHaveNoRecord == fresh \cap rooms = {}

HistoryTypes ==
  /\ noticed \in SUBSET (Socket \X Socket)
  /\ together \in SUBSET (Socket \X Socket \X RoomId)

\* x, who shared a recorded room with s when s closed
WillBeTold(x, s) ==
  \/ <<x, s>> \in noticed
  \/ \E call \in Listed(pending) : IsNoticeOf(call, s) /\ x \in call.present

MatesStay ==
  \A p \in together :
    /\ p[3] \in rooms
    /\ p[1] \in members[p[3]]
    /\ WillBeTold(p[1], p[2])

ServerInv ==
  /\ IInv
  /\ NoticesOnce(pending)
  /\ AccountTypes
  /\ NewAreUnbound
  /\ FreshHaveNoRecord
  /\ HistoryTypes
  /\ MatesStay

LEMMA InitServerInv == ServerInit => ServerInv
<1> SUFFICES ASSUME ServerInit PROVE ServerInv
  OBVIOUS
<1>1. IInv
  BY InitIInv DEF ServerInit
<1>2. NoticesOnce(pending) /\ FreshHaveNoRecord
  BY DEF ServerInit, Init, NoticesOnce, FreshHaveNoRecord
<1>3. AccountTypes /\ NewAreUnbound /\ HistoryTypes /\ MatesStay
  BY DEF ServerInit, AccountTypes, NewAreUnbound, HistoryTypes, MatesStay
<1>4. QED  BY <1>1, <1>2, <1>3 DEF ServerInv

\* What happens to the queue and to the notices in it, step by step.  A
\* connection goes from new to open to closed.
LEMMA QueueOfAStep ==
  ASSUME ServerInv, [Next]_vars
  PROVE  /\ NoticesOnce(pending')
         /\ FreshHaveNoRecord'
         /\ \A x \in Socket : conn'[x] = "new" => conn[x] = "new"
<1>1. TypeOK
  BY DEF ServerInv, IInv
<1>2. ASSUME NEW s \in Socket, Connect(s) \/ Disconnect(s)
      PROVE  /\ NoticesOnce(pending')
             /\ FreshHaveNoRecord'
             /\ \A x \in Socket : conn'[x] = "new" => conn[x] = "new"
  <2>1. NoticesOnce(pending')
    BY <1>2, NoticeJoinsQueue DEF ServerInv, Connect
  <2>2. \A x \in Socket : conn'[x] = "new" => conn[x] = "new"
    BY <1>1, <1>2 DEF Connect, Disconnect, TypeOK
  <2>3. FreshHaveNoRecord'
    BY <1>2 DEF Connect, Disconnect, ServerInv, FreshHaveNoRecord
  <2>4. QED  BY <2>1, <2>2, <2>3
<1>3. ASSUME NEW s \in Socket, NEW r \in RoomId,
             CreateRoom(s, r) \/ JoinRoom(s, r) \/ LeaveRoom(s, r)
      PROVE  /\ NoticesOnce(pending')
             /\ FreshHaveNoRecord'
             /\ conn' = conn
  <2>1. CASE CreateRoom(s, r) \/ JoinRoom(s, r)
    BY <2>1 DEF CreateRoom, JoinRoom, ServerInv, FreshHaveNoRecord
  <2>2. CASE LeaveRoom(s, r)
    BY <1>1, <2>2, LeaveJoinsQueue DEF LeaveRoom, ServerInv, FreshHaveNoRecord
  <2>3. QED  BY <1>3, <2>1, <2>2
<1>4. ASSUME NEW s \in Socket, ResumeDisconnect(s)
      PROVE  /\ NoticesOnce(pending')
             /\ FreshHaveNoRecord'
             /\ conn' = conn
  <2>1. RoomsToLeave(s) \in SUBSET RoomId
    BY <1>1 DEF TypeOK, RoomsToLeave
  <2>2. \/ pending' = Tail(pending)
        \/ \E x \in Socket, r \in RoomId :
             pending' = Append(Tail(pending), LeaveCallOf(x, r, TRUE))
    BY <1>1, <1>4, <2>1, NextIterationTakesHead DEF ResumeDisconnect
  <2>3. pending # <<>> /\ NoticesOnce(pending)
    BY <1>4 DEF ResumeDisconnect, ServerInv
  <2>4. NoticesOnce(pending')
    BY <1>1, <2>2, <2>3, HeadLeavesQueue
  <2>5. QED  BY <1>4, <2>4 DEF ResumeDisconnect, ServerInv, FreshHaveNoRecord
<1>5. ASSUME NEW r \in RoomId, DestroyRoom(r) \/ SelectDecisionMaker(r)
      PROVE  /\ NoticesOnce(pending')
             /\ FreshHaveNoRecord'
             /\ conn' = conn
  <2>1. /\ pending # <<>> /\ NoticesOnce(pending)
        /\ Head(pending).kind = "leave"
        /\ \E lists : ReturnFromLeave(Head(pending), lists)
    BY <1>5 DEF DestroyRoom, SelectDecisionMaker, LeaveAnswered, ServerInv
  <2>2. \/ pending' = Tail(pending)
        \/ \E x \in Socket, q \in RoomId :
             pending' = Append(Tail(pending), LeaveCallOf(x, q, TRUE))
    BY <1>1, <2>1, ReturnFromLeaveTakesHead
  <2>3. NoticesOnce(pending')
    BY <1>1, <2>1, <2>2, HeadLeavesQueue
  <2>4. QED
    BY <1>5, <2>3 DEF DestroyRoom, SelectDecisionMaker, ServerInv,
                      FreshHaveNoRecord
<1>6. ASSUME NEW r \in RoomId, SelectInMissingRoom(r)
      PROVE  /\ NoticesOnce(pending')
             /\ FreshHaveNoRecord'
             /\ \A x \in Socket : conn'[x] = "new" => conn[x] = "new"
  BY <1>6 DEF SelectInMissingRoom, NoticesOnce, FreshHaveNoRecord
<1>7. CASE Restart \/ UNCHANGED vars
  BY <1>7 DEF Restart, vars, ServerInv, FreshHaveNoRecord
<1>8. QED
  BY <1>2, <1>3, <1>4, <1>5, <1>6, <1>7 DEF Next, Answer

\* The account tables keep their types, and a connection to come has no
\* entry in them.
LEMMA AccountsOfAStep ==
  ASSUME ServerInv, [ServerNext]_serverVars,
         \A x \in Socket : conn'[x] = "new" => conn[x] = "new"
  PROVE  AccountTypes' /\ NewAreUnbound'
<1> USE DEF ServerInv, AccountTypes, NewAreUnbound
<1>1. CASE UNCHANGED accounts
  BY <1>1 DEF accounts
<1>2. ASSUME NEW s \in Socket, NEW u \in User \cup {NoUser}, Login(s, u)
      PROVE  AccountTypes' /\ NewAreUnbound'
  <2>1. conn' = conn /\ conn[s] # "new"
    BY <1>2 DEF Login, vars
  <2>2. QED  BY <1>2, <2>1 DEF Login
<1>3. ASSUME NEW s \in Socket, NEW u \in User, LoginVerified(s, u)
      PROVE  AccountTypes' /\ NewAreUnbound'
  <2>1. <<s, u>> \in verifying /\ conn[s] # "new"
    BY <1>3 DEF LoginVerified
  <2>2. /\ verifying' \in SUBSET (Socket \X (User \cup {NoUser}))
        /\ verifying' \subseteq verifying
        /\ answered' \in [Socket -> User \cup {NoUser}]
        /\ guests' \in SUBSET Socket
    BY <1>3 DEF LoginVerified
  <2>3. ASSUME NEW old \in Socket,
               bound' = [bound EXCEPT ![old] = NoUser, ![s] = u]
        PROVE  AccountTypes' /\ NewAreUnbound'
    <3>1. \A x \in Socket : x # s => bound'[x] \in {bound[x], NoUser}
      BY <2>3
    <3>2. bound' \in [Socket -> User \cup {NoUser}]
      BY <2>3
    <3>3. QED  BY <2>1, <2>2, <3>1, <3>2
  <2>4. CASE bound' = [bound EXCEPT ![s] = u]
    BY <2>1, <2>2, <2>4
  <2>5. QED
    BY <1>3, <2>3, <2>4 DEF LoginVerified, Accounts!Holders
<1>4. ASSUME NEW s \in Socket, LoginAsGuest(s) \/ LoginRefused(s)
      PROVE  AccountTypes' /\ NewAreUnbound'
  <2>1. conn' = conn
    BY <1>4 DEF LoginAsGuest, LoginRefused, vars
  <2>2. QED  BY <1>4, <2>1 DEF LoginAsGuest, LoginRefused
<1>5. ASSUME NEW s \in Socket, OnDisconnect(s)
      PROVE  AccountTypes' /\ NewAreUnbound'
  BY <1>5 DEF OnDisconnect, BindingRemoved
<1>6. CASE /\ bound' = [s \in Socket |-> NoUser]
           /\ verifying' = {}
           /\ UNCHANGED <<answered, guests>>
  BY <1>6
<1>7. ASSUME NEW s \in Socket, Client(s) \/ Close(s)
      PROVE  UNCHANGED accounts
  BY <1>7 DEF Client, Close
<1>8. ASSUME NEW s \in Socket, NEW r \in RoomId, ClientLeaves(s, r)
      PROVE  UNCHANGED accounts
  BY <1>8 DEF ClientLeaves
<1>9. ASSUME NEW r \in RoomId, OnLeaveAnswered(r)
      PROVE  AccountTypes' /\ NewAreUnbound'
  BY <1>1, <1>6, <1>9 DEF OnLeaveAnswered
<1>10. CASE RestartServer \/ UNCHANGED serverVars
  BY <1>1, <1>10 DEF RestartServer, serverVars, accounts
<1>11. QED
  BY <1>1, <1>2, <1>3, <1>4, <1>5, <1>7, <1>8, <1>9, <1>10
     DEF ServerNext, RedisAnswers

-----------------------------------------------------------------------------
(* Those who are to be told, step by step.                                 *)

\* Clients that come, create, join and leave.
LEMMA ClientKeepsMates ==
  ASSUME ServerInv, NEW s \in Socket, Client(s)
  PROVE  HistoryTypes' /\ MatesStay'
<1>1. /\ UNCHANGED <<noticed, together, pending>>
      /\ rooms \subseteq rooms'
      /\ \A r \in rooms : members[r] \subseteq members'[r]
  <2>1. CASE Connect(s)
    BY <2>1 DEF Client, Connect, history
  <2>2. ASSUME NEW r \in RoomId, CreateRoom(s, r)
        PROVE  /\ UNCHANGED pending
               /\ rooms \subseteq rooms'
               /\ \A x \in rooms : members[x] \subseteq members'[x]
    <3>1. r \notin rooms
      BY <2>2 DEF CreateRoom, ServerInv, FreshHaveNoRecord
    <3>2. QED  BY <2>2, <3>1 DEF CreateRoom, ServerInv, IInv, TypeOK
  <2>3. ASSUME NEW r \in RoomId, JoinRoom(s, r)
        PROVE  /\ UNCHANGED pending
               /\ rooms \subseteq rooms'
               /\ \A x \in rooms : members[x] \subseteq members'[x]
    BY <2>3 DEF JoinRoom, ServerInv, IInv, TypeOK
  <2>4. QED  BY <2>1, <2>2, <2>3 DEF Client, history
<1>2. QED
  BY <1>1 DEF ServerInv, HistoryTypes, MatesStay, WillBeTold

\* Who leaves a room need not be told any more.
LEMMA LeavingKeepsMates ==
  ASSUME ServerInv, NEW s \in Socket, NEW r \in RoomId, ClientLeaves(s, r)
  PROVE  HistoryTypes' /\ MatesStay'
<1>1. /\ together' = {p \in together : ~(p[1] = s /\ p[3] = r)}
      /\ noticed' = noticed /\ rooms' = rooms
      /\ members' = [members EXCEPT ![r] = @ \ {s}]
      /\ pending' = Append(pending, LeaveCallOf(s, r, FALSE))
  BY DEF ClientLeaves, LeaveRoom
<1>2. HistoryTypes'
  BY <1>1 DEF ServerInv, HistoryTypes
<1>3. Listed(pending) \subseteq Listed(pending')
  <2> DEFINE call == LeaveCallOf(s, r, FALSE)
  <2>1. /\ pending \in Seq(LeaveCall \cup NoticeCall)
        /\ call \in LeaveCall \cup NoticeCall
    BY LeaveIsNoNotice DEF ServerInv, IInv, TypeOK
  <2>2. pending' = Append(pending, call)
    BY <1>1
  <2> HIDE DEF call
  <2>3. QED  BY <2>1, <2>2, ListedAppend
<1>4. ASSUME NEW p \in together'
      PROVE  p[3] \in rooms' /\ p[1] \in members'[p[3]] /\ WillBeTold(p[1], p[2])'
  <2>1. p \in together /\ ~(p[1] = s /\ p[3] = r)
    BY <1>1
  <2>2. p[3] \in rooms /\ p[1] \in members[p[3]] /\ WillBeTold(p[1], p[2])
    BY <2>1 DEF ServerInv, MatesStay
  <2>3. p[3] \in RoomId
    BY <2>2 DEF ServerInv, IInv, TypeOK
  <2>4. p[1] \in members'[p[3]]
    BY <1>1, <2>1, <2>2, <2>3 DEF ServerInv, IInv, TypeOK
  <2>5. WillBeTold(p[1], p[2])'
    BY <1>1, <1>3, <2>2 DEF WillBeTold
  <2>6. QED  BY <1>1, <2>2, <2>4, <2>5
<1>5. QED  BY <1>2, <1>4 DEF MatesStay

\* A connection that closes: whoever is in a room with it is open, and so
\* among the sockets its notice was made with.
LEMMA PartingKeepsMates ==
  ASSUME ServerInv, NEW s \in Socket, Disconnect(s), Parting(s)
  PROVE  HistoryTypes' /\ MatesStay'
<1> DEFINE call == [kind |-> "notice", sock |-> s, present |-> Up \ {s}]
           left == {r \in rooms : s \in members[r]}
           new == {p \in Socket \X {s} \X left :
                     p[1] # s /\ p[1] \in members[p[3]]}
<1>1. /\ pending \in Seq(LeaveCall \cup NoticeCall)
      /\ rooms \subseteq RoomId
      /\ \A r \in RoomId : members[r] \subseteq Up
  BY DEF ServerInv, IInv, TypeOK, OnlyClosedAreCleanedUp
<1>2. /\ call \in LeaveCall \cup NoticeCall
      /\ IsNoticeOf(call, s) /\ call.present = Up \ {s}
      /\ pending' = Append(pending, call)
  BY DEF Disconnect, NoticeCall, Up, IsNoticeOf
<1>3. /\ together' = {p \in together : p[1] # s} \cup new
      /\ noticed' = noticed /\ rooms' = rooms
      /\ members' = [r \in RoomId |-> members[r] \ {s}]
  BY DEF Parting, Disconnect
<1> HIDE DEF call
<1>4. Listed(pending') = Listed(pending) \cup {call}
  BY <1>1, <1>2, ListedAppend
<1>5. HistoryTypes'
  <2>1. new \subseteq Socket \X Socket \X RoomId
    BY <1>1
  <2>2. QED  BY <1>3, <2>1 DEF ServerInv, HistoryTypes
<1>6. ASSUME NEW p \in together, p[1] # s
      PROVE  p[3] \in rooms' /\ p[1] \in members'[p[3]] /\ WillBeTold(p[1], p[2])'
  <2>1. p[3] \in rooms /\ p[1] \in members[p[3]] /\ WillBeTold(p[1], p[2])
    BY DEF ServerInv, MatesStay
  <2>2. p[1] \in members'[p[3]]
    BY <1>1, <1>3, <1>6, <2>1
  <2>3. WillBeTold(p[1], p[2])'
    BY <1>3, <1>4, <2>1 DEF WillBeTold
  <2>4. QED  BY <1>3, <2>1, <2>2, <2>3
<1>7. ASSUME NEW p \in new
      PROVE  p[3] \in rooms' /\ p[1] \in members'[p[3]] /\ WillBeTold(p[1], p[2])'
  <2>1. p[2] = s /\ p[3] \in rooms /\ p[1] # s /\ p[1] \in members[p[3]]
    OBVIOUS
  <2>2. p[1] \in members'[p[3]] /\ p[1] \in Up \ {s}
    BY <1>1, <1>3, <2>1
  <2>3. WillBeTold(p[1], p[2])'
    BY <1>2, <1>4, <2>1, <2>2 DEF WillBeTold, IsNoticeOf
  <2>4. QED  BY <1>3, <2>1, <2>2, <2>3
<1>8. QED  BY <1>3, <1>5, <1>6, <1>7 DEF MatesStay

\* onDisconnect tells those of them who are in a recorded room.
LEMMA OnDisconnectKeepsMates ==
  ASSUME ServerInv, NEW s \in Socket, OnDisconnect(s)
  PROVE  HistoryTypes' /\ MatesStay'
<1>1. /\ noticed' = noticed \cup {<<x, s>> : x \in NoticeGoesTo(s)}
      /\ together' = together /\ rooms' = rooms /\ members' = members
      /\ pending # <<>>
      /\ Head(pending).kind = "notice" /\ Head(pending).sock = s
      /\ NextIteration(s, RoomsToLeave(s), dmList)
  BY DEF OnDisconnect, ResumeDisconnect
<1>2. TypeOK /\ RoomsToLeave(s) \in SUBSET RoomId /\ NoticesOnce(pending)
  BY DEF ServerInv, IInv, TypeOK, RoomsToLeave
<1>3. \A c \in Listed(pending) : c # Head(pending) => c \in Listed(pending')
  BY <1>1, <1>2, NextIterationTakesHead, HeadLeavesQueue
<1>4. Head(pending).present \subseteq Socket
  <2>1. Head(pending) \in Listed(pending)
    BY <1>1, <1>2, ListedTail DEF TypeOK
  <2>2. Head(pending) \in NoticeCall
    BY <1>1, <1>2, <2>1, CallFields
  <2>3. QED  BY <2>2 DEF NoticeCall
<1>5. HistoryTypes'
  BY <1>1, <1>4 DEF ServerInv, HistoryTypes, NoticeGoesTo
<1>6. ASSUME NEW p \in together
      PROVE  WillBeTold(p[1], p[2])'
  <2>1. p[3] \in rooms /\ p[1] \in members[p[3]] /\ WillBeTold(p[1], p[2])
    BY DEF ServerInv, MatesStay
  <2>2. CASE <<p[1], p[2]>> \in noticed
    BY <1>1, <2>2 DEF WillBeTold
  <2>3. ASSUME NEW c \in Listed(pending), c # Head(pending),
               IsNoticeOf(c, p[2]), p[1] \in c.present
        PROVE  WillBeTold(p[1], p[2])'
    BY <1>3, <2>3 DEF WillBeTold, IsNoticeOf
  <2>4. CASE IsNoticeOf(Head(pending), p[2]) /\ p[1] \in Head(pending).present
    <3>1. p[1] \in NoticeGoesTo(s) /\ p[2] = s
      BY <1>1, <2>1, <2>4 DEF NoticeGoesTo, IsNoticeOf
    <3>2. QED  BY <1>1, <3>1 DEF WillBeTold
  <2>5. QED  BY <2>1, <2>2, <2>3, <2>4 DEF WillBeTold
<1>7. QED  BY <1>1, <1>5, <1>6 DEF ServerInv, MatesStay

\* The answer of a leaveRoom leaves the notices and the rooms' members as
\* they are; a room that is destroyed, and the end of the process, release
\* those who wait for a notice.
LEMMA LeaveAnsweredKeepsMates ==
  ASSUME ServerInv, NEW r \in RoomId, OnLeaveAnswered(r)
  PROVE  HistoryTypes' /\ MatesStay'
<1>1. CASE DestroyRoom(r) \/ SelectDecisionMaker(r)
  <2>1. /\ pending # <<>>
        /\ Head(pending).kind = "leave"
        /\ members' = members
    BY <1>1 DEF DestroyRoom, SelectDecisionMaker, LeaveAnswered
  <2>2. \E lists : ReturnFromLeave(Head(pending), lists)
    BY <1>1 DEF DestroyRoom, SelectDecisionMaker
  <2>3. TypeOK /\ NoticesOnce(pending)
    BY DEF ServerInv, IInv
  <2>4. \A c \in Listed(pending) : c # Head(pending) => c \in Listed(pending')
    BY <2>1, <2>3, <2>2, ReturnFromLeaveTakesHead, HeadLeavesQueue
  <2>5. \A x, s : WillBeTold(x, s) /\ noticed' = noticed => WillBeTold(x, s)'
    BY <2>1, <2>4 DEF WillBeTold, IsNoticeOf
  <2>6. CASE DestroyRoom(r)
    <3>1. /\ together' = {p \in together : p[3] # r} /\ noticed' = noticed
          /\ rooms' = rooms \ {r}
      BY <2>6 DEF OnLeaveAnswered, DestroyRoom, SelectDecisionMaker,
                  SelectInMissingRoom
    <3>2. QED  BY <2>1, <2>5, <3>1 DEF ServerInv, HistoryTypes, MatesStay
  <2>7. CASE SelectDecisionMaker(r)
    <3>1. together' = together /\ noticed' = noticed /\ rooms' = rooms
      BY <2>7 DEF OnLeaveAnswered, DestroyRoom, SelectDecisionMaker,
                  SelectInMissingRoom, history
    <3>2. QED  BY <2>1, <2>5, <3>1 DEF ServerInv, HistoryTypes, MatesStay
  <2>8. QED  BY <1>1, <2>6, <2>7
<1>2. CASE together' = {} /\ noticed' = noticed
  BY <1>2 DEF ServerInv, HistoryTypes, MatesStay
<1>3. QED  BY <1>1, <1>2 DEF OnLeaveAnswered

\* Steps of the accounts, and of nobody.
LEMMA SameRoomsKeepMates ==
  ASSUME ServerInv, UNCHANGED <<members, rooms, pending, noticed, together>>
  PROVE  HistoryTypes' /\ MatesStay'
BY DEF ServerInv, HistoryTypes, MatesStay, WillBeTold

-----------------------------------------------------------------------------
(* The theorems on the server's own tables.                                *)

LEMMA MatesOfAStep ==
  ASSUME ServerInv, [ServerNext]_serverVars
  PROVE  HistoryTypes' /\ MatesStay'
<1>1. CASE UNCHANGED <<vars, history>>
  BY <1>1, SameRoomsKeepMates DEF vars, history
<1>2. ASSUME NEW s \in Socket, NEW u \in User, LoginVerified(s, u)
      PROVE  HistoryTypes' /\ MatesStay'
  <2>1. ASSUME NEW old \in Accounts!Holders(s, u), SentAway(old)
        PROVE  HistoryTypes' /\ MatesStay'
    BY <2>1, PartingKeepsMates DEF SentAway, Accounts!Holders
  <2>2. QED  BY <1>1, <1>2, <2>1 DEF LoginVerified
<1>3. ASSUME NEW s \in Socket, Client(s) \/ Close(s)
      PROVE  HistoryTypes' /\ MatesStay'
  BY <1>3, ClientKeepsMates, PartingKeepsMates DEF Close
<1>4. ASSUME NEW s \in Socket, NEW r \in RoomId, ClientLeaves(s, r)
      PROVE  HistoryTypes' /\ MatesStay'
  BY <1>4, LeavingKeepsMates
<1>5. ASSUME NEW s \in Socket, NEW u \in User \cup {NoUser},
             Login(s, u) \/ LoginAsGuest(s) \/ LoginRefused(s)
      PROVE  UNCHANGED <<vars, history>>
  BY <1>5 DEF Login, LoginAsGuest, LoginRefused
<1>6. CASE RedisAnswers
  BY <1>6, OnDisconnectKeepsMates, LeaveAnsweredKeepsMates DEF RedisAnswers
<1>7. CASE RestartServer
  BY <1>7, SameRoomsKeepMates DEF RestartServer, Restart, history
<1>8. CASE UNCHANGED serverVars
  BY <1>8, SameRoomsKeepMates DEF serverVars, vars
<1>9. QED
  BY <1>1, <1>2, <1>3, <1>4, <1>5, <1>6, <1>7, <1>8 DEF ServerNext

\* Every step of the server preserves ServerInv.
LEMMA NextServerInv ==
  ASSUME ServerInv, [ServerNext]_serverVars
  PROVE  ServerInv'
<1>1. [Next]_vars
  BY ServerStepIsRoomStep
<1>2. IInv'
  BY <1>1, NextIInv DEF ServerInv
<1>3. /\ NoticesOnce(pending') /\ FreshHaveNoRecord'
      /\ \A x \in Socket : conn'[x] = "new" => conn[x] = "new"
  BY <1>1, QueueOfAStep
<1>4. AccountTypes' /\ NewAreUnbound'
  BY <1>3, AccountsOfAStep
<1>5. QED
  BY <1>2, <1>3, <1>4, MatesOfAStep DEF ServerInv

\* ServerInv holds in every reachable state.
THEOREM ServerInvariant == ServerSpec => []ServerInv
<1>1. ServerInv /\ [ServerNext]_serverVars => ServerInv'
  BY NextServerInv
<1>2. QED  BY InitServerInv, <1>1, PTL DEF ServerSpec

\* Type correctness of the server: rooms, accounts and who was told.
THEOREM ServerTypesOK == ServerSpec => []ServerTypeOK
<1>1. ServerInv => ServerTypeOK
  BY DEF ServerInv, IInv, TypeOK, AccountTypes, HistoryTypes, ServerTypeOK,
         Accounts!TypeOK
<1>2. QED  BY ServerInvariant, <1>1, PTL

\* Whoever shares a room with a connection that closes, by itself or by a
\* login elsewhere, and stays there, is told - in whatever order the calls
\* of both are answered.
THEOREM MatesAreAlwaysNoticed == ServerSpec => []MatesAreNoticed
<1>1. ServerInv => MatesAreNoticed
  BY DEF ServerInv, MatesStay, WillBeTold, MatesAreNoticed, NoticeAhead,
         IsNoticeOf
<1>2. QED  BY ServerInvariant, <1>1, PTL

-----------------------------------------------------------------------------
(* The server implements the accounts.                                     *)

\* The connections whose removal is ahead.
Leaving == {s \in Socket : NoticeAhead(s)}

\* Steps of a client in the rooms are not steps of the accounts.
LEMMA ClientOfAccounts ==
  ASSUME ServerInv, NEW s \in Socket, Client(s)
  PROVE  Accounts!Connect(s) \/ UNCHANGED Accounts!accountVars
<1>1. pending' = pending /\ UNCHANGED accounts
  BY DEF Client, Connect, CreateRoom, JoinRoom
<1>2. UNCHANGED Leaving
  BY <1>1 DEF Leaving, NoticeAhead
<1>3. CASE Connect(s)
  BY <1>1, <1>2, <1>3 DEF Connect, Accounts!Connect, accounts, Leaving
<1>4. CASE conn' = conn
  BY <1>1, <1>2, <1>4 DEF Accounts!accountVars, accounts, Leaving
<1>5. QED  BY <1>3, <1>4 DEF Client, CreateRoom, JoinRoom

\* The removal of a connection is ahead from when it closes...
LEMMA DisconnectLeaves ==
  ASSUME ServerInv, NEW s \in Socket, Disconnect(s)
  PROVE  /\ conn[s] = "up"
         /\ conn' = [conn EXCEPT ![s] = "down"]
         /\ Leaving' = Leaving \cup {s}
<1>1. \A x \in Socket : NoticeAhead(x)' <=> NoticeAhead(x) \/ x = s
  BY NoticeJoinsQueue DEF ServerInv
<1>2. Leaving' = Leaving \cup {s}
  BY <1>1 DEF Leaving
<1>3. QED  BY <1>2 DEF Disconnect

LEMMA CloseOfAccounts ==
  ASSUME ServerInv, NEW s \in Socket, Close(s)
  PROVE  Accounts!Disconnect(s)
BY DisconnectLeaves DEF Close, Accounts!Disconnect, accounts, Leaving

\* ... until its onDisconnect runs, and no longer.
LEMMA OnDisconnectOfAccounts ==
  ASSUME ServerInv, NEW s \in Socket, OnDisconnect(s)
  PROVE  Accounts!Remove(s)
<1>1. /\ TypeOK /\ NoticesOnce(pending) /\ pending # <<>>
      /\ RoomsToLeave(s) \in SUBSET RoomId
      /\ Head(pending).kind = "notice" /\ Head(pending).sock = s
      /\ NextIteration(s, RoomsToLeave(s), dmList)
  BY DEF OnDisconnect, ResumeDisconnect, ServerInv, IInv, TypeOK, RoomsToLeave
<1>2. \A x \in Socket : IsNoticeOf(Head(pending), x) <=> x = s
  BY <1>1 DEF IsNoticeOf
<1>3. \A x \in Socket : NoticeAhead(x)' <=> NoticeAhead(x) /\ x # s
  BY <1>1, <1>2, NextIterationTakesHead, HeadLeavesQueue
<1>4. Head(pending) \in Listed(pending)
  BY <1>1, ListedTail DEF TypeOK
<1>5. NoticeAhead(s)
  BY <1>1, <1>4 DEF NoticeAhead
<1>6. s \in Leaving /\ Leaving' = Leaving \ {s}
  BY <1>3, <1>5 DEF Leaving
<1>7. QED
  BY <1>6 DEF OnDisconnect, ResumeDisconnect, BindingRemoved, Accounts!Remove,
              Accounts!Removed, Leaving

\* leaveRoom does not know accounts, up to its await...
LEMMA ClientLeavesOfAccounts ==
  ASSUME ServerInv, NEW s \in Socket, NEW r \in RoomId, ClientLeaves(s, r)
  PROVE  UNCHANGED Accounts!accountVars
<1>1. \A x \in Socket : NoticeAhead(x)' <=> NoticeAhead(x)
  BY LeaveJoinsQueue DEF ClientLeaves, LeaveRoom, ServerInv, IInv
<1>2. UNCHANGED Leaving
  BY <1>1 DEF Leaving
<1>3. QED
  BY <1>2 DEF ClientLeaves, LeaveRoom, accounts, Accounts!accountVars, Leaving

\* ... and after it, unless it ends the process.
LEMMA LeaveAnsweredOfAccounts ==
  ASSUME ServerInv, NEW r \in RoomId, OnLeaveAnswered(r)
  PROVE  Accounts!ProcessEnds \/ UNCHANGED Accounts!accountVars
<1>1. CASE /\ DestroyRoom(r) \/ SelectDecisionMaker(r)
           /\ UNCHANGED accounts
  <2>1. /\ TypeOK /\ NoticesOnce(pending) /\ pending # <<>>
        /\ Head(pending).kind = "leave"
        /\ conn' = conn
    BY <1>1 DEF DestroyRoom, SelectDecisionMaker, LeaveAnswered, ServerInv, IInv
  <2>2. \E lists : ReturnFromLeave(Head(pending), lists)
    BY <1>1 DEF DestroyRoom, SelectDecisionMaker
  <2>3. \A x \in Socket : ~IsNoticeOf(Head(pending), x)
    BY <2>1 DEF IsNoticeOf
  <2>4. \A x \in Socket : NoticeAhead(x)' <=> NoticeAhead(x)
    BY <2>1, <2>2, <2>3, ReturnFromLeaveTakesHead, HeadLeavesQueue
  <2>5. UNCHANGED Leaving
    BY <2>4 DEF Leaving
  <2>6. QED
    BY <1>1, <2>1, <2>5 DEF accounts, Accounts!accountVars, Leaving
<1>2. CASE /\ SelectInMissingRoom(r)
           /\ bound' = [s \in Socket |-> NoUser]
           /\ verifying' = {}
           /\ UNCHANGED <<answered, guests>>
  <2>1. pending' = <<>>
    BY <1>2 DEF SelectInMissingRoom
  <2>2. Leaving' = {}
    BY <2>1 DEF Leaving, NoticeAhead, Listed
  <2>3. QED
    BY <1>2, <2>2 DEF SelectInMissingRoom, Accounts!ProcessEnds, Leaving
<1>3. QED  BY <1>1, <1>2 DEF OnLeaveAnswered

\* A login that takes an account over closes its holder, if that is open;
\* it is never one that was not opened yet.
LEMMA LoginVerifiedOfAccounts ==
  ASSUME ServerInv, NEW s \in Socket, NEW u \in User, LoginVerified(s, u)
  PROVE  Accounts!LoginVerified(s, u)
<1>1. ASSUME NEW old \in Accounts!Holders(s, u),
             \/ conn[old] = "up" /\ SentAway(old)
             \/ conn[old] # "up" /\ UNCHANGED <<vars, history>>
      PROVE  /\ conn' = Accounts!SentAway(old)
             /\ Leaving' = IF conn[old] = "up" THEN Leaving \cup {old}
                                               ELSE Leaving
  <2>1. old \in Socket /\ bound[old] = u /\ u # NoUser
    BY AccountsAssumption DEF Accounts!Holders
  <2>2. CASE conn[old] = "up" /\ SentAway(old)
    BY <2>1, <2>2, DisconnectLeaves DEF SentAway, Accounts!SentAway
  <2>3. CASE conn[old] # "up" /\ UNCHANGED <<vars, history>>
    <3>1. conn \in [Socket -> {"new", "up", "down"}] /\ conn[old] # "new"
      BY <2>1 DEF ServerInv, IInv, TypeOK, NewAreUnbound
    <3>2. conn[old] = "down"
      BY <2>1, <2>3, <3>1
    <3>3. conn' = conn /\ pending' = pending
      BY <2>3 DEF vars
    <3>4. conn' = Accounts!SentAway(old)
      BY <2>1, <3>1, <3>2, <3>3 DEF Accounts!SentAway
    <3>5. Leaving' = Leaving
      BY <3>3 DEF Leaving, NoticeAhead
    <3>6. QED  BY <2>3, <3>4, <3>5
  <2>4. QED  BY <1>1, <2>2, <2>3
<1>2. CASE /\ Accounts!Holders(s, u) = {}
           /\ bound' = [bound EXCEPT ![s] = u]
           /\ UNCHANGED <<vars, history>>
  <2>1. conn' = conn /\ pending' = pending
    BY <1>2 DEF vars
  <2>2. Leaving' = Leaving
    BY <2>1 DEF Leaving, NoticeAhead
  <2>3. QED
    BY <1>2, <2>1, <2>2 DEF LoginVerified, Accounts!LoginVerified, Leaving
<1>3. ASSUME NEW old \in Accounts!Holders(s, u),
             bound' = [bound EXCEPT ![old] = NoUser, ![s] = u],
             \/ conn[old] = "up" /\ SentAway(old)
             \/ conn[old] # "up" /\ UNCHANGED <<vars, history>>
      PROVE  Accounts!LoginVerified(s, u)
  <2>1. /\ conn' = Accounts!SentAway(old)
        /\ Leaving' = IF conn[old] = "up" THEN Leaving \cup {old}
                                          ELSE Leaving
    BY <1>1, <1>3
  <2>2. QED
    BY <1>3, <2>1 DEF LoginVerified, Accounts!LoginVerified, Leaving
<1>4. QED  BY <1>2, <1>3 DEF LoginVerified

\* Both modules count with the definition of FiniteSets.
LEMMA SameCardinality == Accounts!Cardinality(verifying) = Cardinality(verifying)
BY DEF Cardinality, Accounts!Cardinality

\* Every step of the server is a step of the accounts or leaves them alone.
LEMMA ServerStepIsAccountStep ==
  ASSUME ServerInv, [ServerNext]_serverVars
  PROVE  [Accounts!AccountNext]_Accounts!accountVars
<1> USE DEF Accounts!AccountNext
<1>1. CASE conn' = conn /\ pending' = pending /\ UNCHANGED accounts
  BY <1>1 DEF accounts, Accounts!accountVars, NoticeAhead
<1>2. ASSUME NEW s \in Socket, Client(s) \/ Close(s)
      PROVE  [Accounts!AccountNext]_Accounts!accountVars
  BY <1>2, ClientOfAccounts, CloseOfAccounts
<1>3. ASSUME NEW s \in Socket, NEW r \in RoomId, ClientLeaves(s, r)
      PROVE  [Accounts!AccountNext]_Accounts!accountVars
  BY <1>3, ClientLeavesOfAccounts
<1>4. ASSUME NEW s \in Socket, NEW u \in User \cup {NoUser}, Login(s, u)
      PROVE  Accounts!Login(s, u)
  <2>1. conn' = conn /\ Leaving' = Leaving
    BY <1>4 DEF Login, vars, NoticeAhead, Leaving
  <2>2. QED
    BY <1>4, <2>1, SameCardinality DEF Login, Accounts!Login, Leaving
<1>5. ASSUME NEW s \in Socket, NEW u \in User, LoginVerified(s, u)
      PROVE  Accounts!LoginVerified(s, u)
  BY <1>5, LoginVerifiedOfAccounts
<1>6. ASSUME NEW s \in Socket, LoginRefused(s)
      PROVE  Accounts!LoginRefused(s)
  <2>1. conn' = conn /\ Leaving' = Leaving
    BY <1>6 DEF LoginRefused, vars, NoticeAhead, Leaving
  <2>2. QED  BY <1>6, <2>1 DEF LoginRefused, Accounts!LoginRefused, Leaving
<1>10. ASSUME NEW s \in Socket, LoginAsGuest(s)
       PROVE  Accounts!LoginAsGuest(s)
  <2>1. conn' = conn /\ Leaving' = Leaving
    BY <1>10 DEF LoginAsGuest, vars, NoticeAhead, Leaving
  <2>2. QED  BY <1>10, <2>1 DEF LoginAsGuest, Accounts!LoginAsGuest, Leaving
<1>7. CASE RedisAnswers
  BY <1>7, OnDisconnectOfAccounts, LeaveAnsweredOfAccounts DEF RedisAnswers
<1>8. CASE RestartServer \/ UNCHANGED serverVars
  BY <1>1, <1>8 DEF RestartServer, Restart, serverVars, vars, accounts
<1>9. QED
  BY <1>2, <1>3, <1>4, <1>5, <1>6, <1>7, <1>8, <1>10 DEF ServerNext

\* The server implements the accounts, whoever sends a connection away and
\* whatever Redis still owes to the rooms.
THEOREM ServerImplementsAccounts == ServerSpec => ImplementsAccounts
<1>1. ServerInit => Accounts!Init
  BY DEF ServerInit, Init, Accounts!Init, NoticeAhead, Listed
<1>2. ServerInv /\ [ServerNext]_serverVars
        => [Accounts!AccountNext]_Accounts!accountVars
  BY ServerStepIsAccountStep
<1>3. QED
  BY <1>1, <1>2, ServerInvariant, PTL
     DEF ServerSpec, ImplementsAccounts, Accounts!AccountSpec

-----------------------------------------------------------------------------
(* With that, what is proved of the accounts by themselves holds in the    *)
(* server.  Proved is the module AccountManagerProofs with the same        *)
(* substitution, which brings its theorems.                                *)

Proved == INSTANCE AccountManagerProofs
            WITH leaving <- {s \in Socket : NoticeAhead(s)}

\* Both instances of AccountManager are one specification.
LEMMA SameAccounts == Accounts!AccountSpec => Proved!AccountSpec
<1>1. Accounts!Init => Proved!Init
  BY DEF Accounts!Init, Proved!Init
<1>2. ASSUME NEW s \in Socket, Accounts!Connect(s)
      PROVE  Proved!Connect(s)
  BY <1>2 DEF Accounts!Connect, Proved!Connect
<1>3. ASSUME NEW s \in Socket,
             Accounts!LoginAsGuest(s) \/ Accounts!LoginRefused(s)
      PROVE  Proved!LoginAsGuest(s) \/ Proved!LoginRefused(s)
  BY <1>3 DEF Accounts!LoginAsGuest, Proved!LoginAsGuest,
              Accounts!LoginRefused, Proved!LoginRefused
<1>4. ASSUME NEW s \in Socket, Accounts!Disconnect(s)
      PROVE  Proved!Disconnect(s)
  BY <1>4 DEF Accounts!Disconnect, Proved!Disconnect
<1>5. ASSUME NEW s \in Socket, Accounts!Remove(s)
      PROVE  Proved!Remove(s)
  BY <1>5 DEF Accounts!Remove, Proved!Remove, Accounts!Removed, Proved!Removed
<1>6. ASSUME NEW s \in Socket, NEW u \in User \cup {NoUser},
             Accounts!Login(s, u)
      PROVE  Proved!Login(s, u)
  <2>1. Proved!Cardinality(verifying) = Accounts!Cardinality(verifying)
    BY DEF Proved!Cardinality, Accounts!Cardinality
  <2>2. QED  BY <1>6, <2>1 DEF Accounts!Login, Proved!Login
<1>7. ASSUME NEW s \in Socket, NEW u \in User, Accounts!LoginVerified(s, u)
      PROVE  Proved!LoginVerified(s, u)
  <2>1. Accounts!Holders(s, u) = Proved!Holders(s, u)
    BY DEF Accounts!Holders, Proved!Holders
  <2>2. \A old \in Socket : Accounts!SentAway(old) = Proved!SentAway(old)
    BY DEF Accounts!SentAway, Proved!SentAway
  <2>3. \A old \in Accounts!Holders(s, u) : old \in Socket
    BY DEF Accounts!Holders
  <2>4. QED
    BY <1>7, <2>1, <2>2, <2>3 DEF Accounts!LoginVerified, Proved!LoginVerified
<1>8. Accounts!ProcessEnds => Proved!ProcessEnds
  BY DEF Accounts!ProcessEnds, Proved!ProcessEnds
<1>9. ASSUME [Accounts!AccountNext]_Accounts!accountVars
      PROVE  [Proved!AccountNext]_Proved!accountVars
  <2>1. CASE Accounts!AccountNext
    <3>1. CASE \E s \in Socket : \/ Accounts!Connect(s)
                                 \/ Accounts!LoginAsGuest(s)
                                 \/ Accounts!LoginRefused(s)
                                 \/ Accounts!Disconnect(s)
                                 \/ Accounts!Remove(s)
      BY <1>2, <1>3, <1>4, <1>5, <3>1 DEF Proved!AccountNext
    <3>2. CASE \E s \in Socket, u \in User \cup {NoUser} : Accounts!Login(s, u)
      BY <1>6, <3>2 DEF Proved!AccountNext
    <3>3. CASE \E s \in Socket, u \in User : Accounts!LoginVerified(s, u)
      BY <1>7, <3>3 DEF Proved!AccountNext
    <3>4. CASE Accounts!ProcessEnds
      BY <1>8, <3>4 DEF Proved!AccountNext
    <3>5. QED  BY <2>1, <3>1, <3>2, <3>3, <3>4 DEF Accounts!AccountNext
  <2>2. CASE UNCHANGED Accounts!accountVars
    BY <2>2 DEF Accounts!accountVars, Proved!accountVars
  <2>3. QED  BY <1>9, <2>1, <2>2
<1>10. QED
  BY <1>1, <1>9, PTL DEF Accounts!AccountSpec, Proved!AccountSpec

\* In the server, too, an account is bound to one connection of a host at a
\* time, and an open connection to the account of its last login by token.
THEOREM ServerKeepsAccounts ==
  ServerSpec => [](/\ Accounts!OneConnectionPerAccount
                   /\ Accounts!OpenConnectionKeepsItsAccount)
<1>1. ServerSpec => Proved!AccountSpec
  BY ServerImplementsAccounts, SameAccounts DEF ImplementsAccounts
<1>2. Proved!AccountSpec => []Proved!OneConnectionPerAccount
  BY Proved!AccountsHaveOneConnection, AccountsAssumption
<1>3. Proved!AccountSpec => []Proved!OpenConnectionKeepsItsAccount
  BY Proved!OpenConnectionsKeepTheirAccount, AccountsAssumption
<1>4. /\ Proved!OneConnectionPerAccount => Accounts!OneConnectionPerAccount
      /\ Proved!OpenConnectionKeepsItsAccount
           => Accounts!OpenConnectionKeepsItsAccount
  BY DEF Accounts!OneConnectionPerAccount, Proved!OneConnectionPerAccount,
         Accounts!OpenConnectionKeepsItsAccount,
         Proved!OpenConnectionKeepsItsAccount
<1>5. QED  BY <1>1, <1>2, <1>3, <1>4, PTL

\* No account is told to two connections in a room, of one host: who is in a
\* room is open, an open connection is bound to what it was told, and no
\* account is bound twice.
THEOREM NobodyEverPlaysTwice == ServerSpec => []NobodyPlaysTwice
<1>1. /\ ServerInv
      /\ Accounts!OneConnectionPerAccount
      /\ Accounts!OpenConnectionKeepsItsAccount
      => NobodyPlaysTwice
  <2> SUFFICES ASSUME ServerInv,
                      Accounts!OneConnectionPerAccount,
                      Accounts!OpenConnectionKeepsItsAccount,
                      NEW r \in rooms, NEW s \in members[r],
                      NEW t \in members[r],
                      answered[s] # NoUser, answered[s] = answered[t],
                      HostOf[s] = HostOf[t]
               PROVE  s = t
    BY DEF NobodyPlaysTwice
  <2>1. r \in RoomId /\ members[r] \subseteq Up
    BY DEF ServerInv, IInv, TypeOK, OnlyClosedAreCleanedUp
  <2>2. /\ s \in Socket /\ bound[s] = answered[s]
        /\ t \in Socket /\ bound[t] = answered[t]
    BY <2>1 DEF Up, Accounts!OpenConnectionKeepsItsAccount
  <2>3. QED  BY <2>2 DEF Accounts!OneConnectionPerAccount
<1>2. QED  BY <1>1, ServerInvariant, ServerKeepsAccounts, PTL
=============================================================================
