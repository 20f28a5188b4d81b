----------------------------- MODULE RoomManager -----------------------------
(***************************************************************************)
(* The rooms of the socket server: RoomManager.ts, driven by the sockets'  *)
(* connections and by DisconnectManager.ts.                                *)
(*                                                                         *)
(* Two tables describe a room and no code keeps them in step: the record   *)
(* in _uidManager (rooms, dmList, dmCurrent), which only RoomManager       *)
(* writes, and the membership socket.io keeps (members), which socket.io   *)
(* empties by itself when a connection closes.  leaveRoom and onDisconnect *)
(* stop at `await fetchSockets()`: the answer was computed when the call   *)
(* was made, and is acted upon only when Redis has answered PUBSUB NUMSUB. *)
(* Redis answers one connection in order, so the calls under way form a    *)
(* queue.  Everything between two awaits is one step of the event loop.    *)
(*                                                                         *)
(* Requests that are refused (an unknown or empty room id, a wrong         *)
(* password, a room already entered) change nothing: they are stuttering   *)
(* steps.  LIST and QUERY only read.  Room ids are never drawn twice (see  *)
(* UidTable), and clients send LEAVE for ids of rooms only, not for the    *)
(* private room socket.io keeps under each socket's own id.                *)
(***************************************************************************)
EXTENDS Naturals, Sequences

CONSTANTS
  Socket,      \* connections; one that closed never comes back
  RoomId,      \* ids generateUid may return
  Nobody,      \* JavaScript's undefined
  MaxPending   \* bound: clients send no LEAVE while this many calls wait

ASSUME NobodyAssumption == Nobody \notin Socket
ASSUME MaxPendingAssumption == MaxPending \in Nat

VARIABLES
  conn,        \* [Socket -> {"new", "up", "down"}]
  members,     \* socket.io: the sockets in each room
  fresh,       \* room ids not generated yet
  rooms,       \* ids with a record in _uidManager
  dmList,      \* decisionMaker.list of each record
  dmCurrent,   \* decisionMaker.current of each record
  pending,     \* fetchSockets() calls Redis has not answered, in order
  todo,        \* rooms the disconnect() loop of a socket has still to leave
  told,        \* the decision maker each member of a room was last told
  running      \* the process is up

vars == <<conn, members, fresh, rooms, dmList, dmCurrent, pending, todo,
          told, running>>

LeaveCall == [kind: {"leave"}, sock: Socket, room: RoomId,
              occupied: BOOLEAN, closing: BOOLEAN]
NoticeCall == [kind: {"notice"}, sock: Socket, present: SUBSET Socket]

TypeOK ==
  /\ conn \in [Socket -> {"new", "up", "down"}]
  /\ members \in [RoomId -> SUBSET Socket]
  /\ fresh \in SUBSET RoomId
  /\ rooms \in SUBSET RoomId
  /\ dmList \in [RoomId -> Seq(Socket)]
  /\ dmCurrent \in [RoomId -> Socket \cup {Nobody}]
  /\ pending \in Seq(LeaveCall \cup NoticeCall)
  /\ todo \in [Socket -> SUBSET RoomId]
  /\ told \in [RoomId -> [Socket -> Socket \cup {Nobody}]]
  /\ running \in BOOLEAN

Up == {s \in Socket : conn[s] = "up"}

Init ==
  /\ conn = [s \in Socket |-> "new"]
  /\ members = [r \in RoomId |-> {}]
  /\ fresh = RoomId
  /\ rooms = {}
  /\ dmList = [r \in RoomId |-> <<>>]
  /\ dmCurrent = [r \in RoomId |-> Nobody]
  /\ pending = <<>>
  /\ todo = [s \in Socket |-> {}]
  /\ told = [r \in RoomId |-> [s \in Socket |-> Nobody]]
  /\ running = TRUE

-----------------------------------------------------------------------------
(* The parts of the handlers.                                              *)

Listed(list) == {list[i] : i \in 1 .. Len(list)}

NoDuplicates(list) ==
  \A i, j \in 1 .. Len(list) : list[i] = list[j] => i = j

\* list.indexOf(s), and list.splice(index, 1) when it is found
SpliceMutant(list, s) == list
Splice(list, s) ==
  IF s \in Listed(list)
  THEN LET index == CHOOSE i \in 1 .. Len(list) :
                      list[i] = s /\ \A j \in 1 .. (i - 1) : list[j] # s
       IN  [i \in 1 .. (Len(list) - 1) |->
              IF i < index THEN list[i] ELSE list[i + 1]]
  ELSE list

\* decisionMaker.list[0]
FirstListed(r) == IF dmList[r] = <<>> THEN Nobody ELSE dmList[r][1]

\* the CHANGE_DM event reaches the sockets that are in the room now
AnnouncedMutant(r, dm) ==
  [s \in Socket |-> IF s = dm THEN dm ELSE told[r][s]]
Announced(r, dm) ==
  [s \in Socket |-> IF s \in members[r] THEN dm ELSE told[r][s]]

\* leaveRoom up to the await: socket.leave comes before fetchSockets, so s
\* is not among the sockets that are counted
LeaveCallOfMutant(s, r, closing) ==
  [kind |-> "leave", sock |-> s, room |-> r,
   occupied |-> members[r] # {}, closing |-> closing]
LeaveCallOf(s, r, closing) ==
  [kind |-> "leave", sock |-> s, room |-> r,
   occupied |-> members[r] \ {s} # {}, closing |-> closing]

\* disconnect() walks over all the rooms there are: the socket has left its
\* own when it runs, so they cannot be told from the others any more
RoomsToLeaveMutant(s) == {r \in rooms : s \in members[r]}
RoomsToLeave(s) == rooms

\* what a joining socket is answered
AnsweredDMMutant(r) == dmList[r]
AnsweredDM(r) == dmCurrent[r]

\* The disconnect() loop of s goes on with the rooms in todoRooms (in any
\* order; the code takes them in the order of creation), given the lists as
\* the finished iteration leaves them.
NextIteration(s, todoRooms, lists) ==
  \/ /\ todoRooms = {}
     /\ dmList' = lists
     /\ todo' = [todo EXCEPT ![s] = {}]
     /\ pending' = Tail(pending)
  \/ \E r \in todoRooms :
       /\ dmList' = [lists EXCEPT ![r] = Splice(lists[r], s)]
       /\ todo' = [todo EXCEPT ![s] = todoRooms \ {r}]
       /\ pending' = Append(Tail(pending), LeaveCallOf(s, r, TRUE))

\* leaveRoom returns to onLeaveRoom, which answers, or to the loop.
ReturnFromLeave(call, lists) ==
  \/ /\ ~call.closing
     /\ dmList' = lists
     /\ pending' = Tail(pending)
     /\ UNCHANGED todo
  \/ /\ call.closing
     /\ NextIteration(call.sock, todo[call.sock], lists)

-----------------------------------------------------------------------------
(* Clients.                                                                *)

Connect(s) ==
  /\ running
  /\ conn[s] = "new"
  /\ conn' = [conn EXCEPT ![s] = "up"]
  /\ UNCHANGED <<members, fresh, rooms, dmList, dmCurrent, pending, todo,
                 told, running>>

\* onCreateRoom
CreateRoom(s, r) ==
  /\ running
  /\ conn[s] = "up"
  /\ r \in fresh
  /\ fresh' = fresh \ {r}
  /\ rooms' = rooms \cup {r}
  /\ dmList' = [dmList EXCEPT ![r] = <<s>>]
  /\ dmCurrent' = [dmCurrent EXCEPT ![r] = s]
  /\ members' = [members EXCEPT ![r] = {s}]
  /\ told' = [told EXCEPT ![r][s] = s]
  /\ UNCHANGED <<conn, pending, todo, running>>

\* joinCheck answers SUCCESS
JoinCheck(s, r) == r \in rooms /\ s \notin members[r]

\* onJoinRoom
JoinRoom(s, r) ==
  /\ running
  /\ conn[s] = "up"
  /\ JoinCheck(s, r)
  /\ members' = [members EXCEPT ![r] = @ \cup {s}]
  /\ dmList' = [dmList EXCEPT ![r] = Append(@, s)]
  /\ told' = [told EXCEPT ![r][s] = AnsweredDM(r)]
  /\ UNCHANGED <<conn, fresh, rooms, dmCurrent, pending, todo, running>>

\* onLeaveRoom, of any room id a client has seen: a room without a record
\* and a room the socket is not in only change the answer
LeaveRoom(s, r) ==
  /\ running
  /\ conn[s] = "up"
  /\ r \notin fresh
  /\ Len(pending) < MaxPending
  /\ dmList' = [dmList EXCEPT ![r] = Splice(@, s)]
  /\ members' = [members EXCEPT ![r] = @ \ {s}]
  /\ told' = [told EXCEPT ![r][s] = Nobody]
  /\ pending' = Append(pending, LeaveCallOf(s, r, FALSE))
  /\ UNCHANGED <<conn, fresh, rooms, dmCurrent, todo, running>>

\* The connection of s closes: socket.io takes s out of its rooms, then
\* onDisconnect runs up to its await.
Disconnect(s) ==
  /\ running
  /\ conn[s] = "up"
  /\ conn' = [conn EXCEPT ![s] = "down"]
  /\ members' = [r \in RoomId |-> members[r] \ {s}]
  /\ told' = [r \in RoomId |-> [told[r] EXCEPT ![s] = Nobody]]
  /\ pending' = Append(pending, [kind |-> "notice", sock |-> s,
                                 present |-> Up \ {s}])
  /\ UNCHANGED <<fresh, rooms, dmList, dmCurrent, todo, running>>

-----------------------------------------------------------------------------
(* Answers of Redis.                                                       *)

\* onDisconnect goes on: roomManager.disconnect starts its loop.
ResumeDisconnect(s) ==
  /\ running
  /\ pending # <<>>
  /\ Head(pending).kind = "notice"
  /\ Head(pending).sock = s
  /\ NextIteration(s, RoomsToLeave(s), dmList)
  /\ UNCHANGED <<conn, members, fresh, rooms, dmCurrent, told, running>>

LeaveAnswered(r) ==
  /\ running
  /\ pending # <<>>
  /\ Head(pending).kind = "leave"
  /\ Head(pending).room = r

\* leaveRoom goes on: nobody was in the room, destroy(roomId)
DestroyRoom(r) ==
  /\ LeaveAnswered(r)
  /\ ~Head(pending).occupied
  /\ rooms' = rooms \ {r}
  /\ dmCurrent' = [dmCurrent EXCEPT ![r] = Nobody]
  /\ ReturnFromLeave(Head(pending), [dmList EXCEPT ![r] = <<>>])
  /\ UNCHANGED <<conn, members, fresh, told, running>>

\* leaveRoom goes on: selectDecisionMaker
SelectDecisionMaker(r) ==
  /\ LeaveAnswered(r)
  /\ Head(pending).occupied
  /\ r \in rooms
  /\ dmCurrent' = [dmCurrent EXCEPT ![r] = FirstListed(r)]
  /\ told' = [told EXCEPT ![r] = Announced(r, FirstListed(r))]
  /\ ReturnFromLeave(Head(pending), dmList)
  /\ UNCHANGED <<conn, members, fresh, rooms, running>>

\* selectDecisionMaker of a room without a record: reading decisionMaker of
\* undefined throws, no one catches the rejection, and Node ends the
\* process with all its connections and rooms.
SelectInMissingRoom(r) ==
  /\ LeaveAnswered(r)
  /\ Head(pending).occupied
  /\ r \notin rooms
  /\ running' = FALSE
  /\ conn' = [s \in Socket |-> IF conn[s] = "up" THEN "down" ELSE conn[s]]
  /\ members' = [x \in RoomId |-> {}]
  /\ rooms' = {}
  /\ dmList' = [x \in RoomId |-> <<>>]
  /\ dmCurrent' = [x \in RoomId |-> Nobody]
  /\ pending' = <<>>
  /\ todo' = [s \in Socket |-> {}]
  /\ told' = [x \in RoomId |-> [s \in Socket |-> Nobody]]
  /\ UNCHANGED fresh

\* docker compose starts the container again (restart: unless-stopped)
Restart ==
  /\ ~running
  /\ running' = TRUE
  /\ UNCHANGED <<conn, members, fresh, rooms, dmList, dmCurrent, pending,
                 todo, told>>

-----------------------------------------------------------------------------

Answer ==
  \/ \E s \in Socket : ResumeDisconnect(s)
  \/ \E r \in RoomId :
       DestroyRoom(r) \/ SelectDecisionMaker(r) \/ SelectInMissingRoom(r)

Next ==
  \/ \E s \in Socket : Connect(s) \/ Disconnect(s)
  \/ \E s \in Socket, r \in RoomId :
       CreateRoom(s, r) \/ JoinRoom(s, r) \/ LeaveRoom(s, r)
  \/ Answer
  \/ Restart

Spec == Init /\ [][Next]_vars

\* Redis goes on answering; clients need not do anything.
FairSpec == Spec /\ WF_vars(Answer)

-----------------------------------------------------------------------------
(* What keeps the two tables together.                                     *)

\* The disconnection of a socket has still to be carried out in room r.
CleanupAhead(s, r) ==
  \/ r \in todo[s]
  \/ \E call \in Listed(pending) : call.kind = "notice" /\ call.sock = s

LeaveAhead(r) ==
  \E call \in Listed(pending) : call.kind = "leave" /\ call.room = r

\* The record of a room lists each of its members, each socket once, and
\* beyond the members only sockets that are gone and whose disconnection
\* has still to be carried out in that room (leaveRoom, onJoinRoom, create
\* and the disconnect() loop write the list, socket.io the membership).
ListFollowsMembers ==
  \A r \in rooms :
    /\ members[r] \subseteq Listed(dmList[r])
    /\ \A s \in Listed(dmList[r]) \ members[r] :
         conn[s] = "down" /\ CleanupAhead(s, r)
    /\ NoDuplicates(dmList[r])

\* All members of a room were last told the same decision maker, the one
\* in the record: the answers to CREATE and JOIN and the CHANGE_DM events
\* never contradict each other.
MembersAgreeOnDM ==
  \A r \in rooms : \A s \in members[r] : told[r][s] = dmCurrent[r]

\* A room nobody is in has a call under way that will destroy it, or a
\* disconnection that will make one (leaveRoom, lines 126-133).
EmptyRoomIsOnItsWayOut ==
  \A r \in rooms :
    members[r] = {} =>
      \/ \E call \in Listed(pending) :
           call.kind = "leave" /\ call.room = r /\ ~call.occupied
      \/ \E s \in Socket : CleanupAhead(s, r)

\* When the decision maker of a room is not in it, leaveRoom has still to
\* choose again for that room.
LostDMIsReplaced ==
  \A r \in rooms :
    dmCurrent[r] \notin members[r] =>
      LeaveAhead(r) \/ \E s \in Socket : CleanupAhead(s, r)

\* A room everybody has left is destroyed, unless somebody joins it first.
EmptyRoomIsDestroyed ==
  \A r \in RoomId :
    (r \in rooms /\ members[r] = {}) ~> (r \notin rooms \/ members[r] # {})

\* A room does not stay without a decision maker that is in the room.
DMRecovers ==
  \A r \in RoomId :
    (r \in rooms /\ dmCurrent[r] \notin members[r])
      ~> (r \notin rooms \/ dmCurrent[r] \in members[r])

\* A connection that closed disappears from every record for good: no late
\* answer makes it the decision maker again.
ClosedIsForgotten ==
  \A s \in Socket :
    conn[s] = "down"
      ~> [](\A r \in RoomId : s \notin Listed(dmList[r]) /\ dmCurrent[r] # s)

-----------------------------------------------------------------------------
(* What the program says of itself and its steps do not keep.              *)

\* destroy() logs "since no socket is in it": a room is destroyed only when
\* it is empty.
OnlyEmptyRoomsAreDestroyed ==
  [][running' => \A r \in rooms \ rooms' : members[r] = {}]_vars

\* LEAVE of a room that does not exist is answered "Leave room failed,
\* reason: Room not exist.": it never ends the process.
LeaveIsAlwaysAnswered ==
  [][running => running']_vars
=============================================================================
