-------------------------- MODULE UserManagerProofs --------------------------
(* Proofs about UserManager, for every number of calls, users and retries. *)
EXTENDS UserManager, SequenceTheorems, WellFoundedInduction, TLAPS

(***************************************************************************)
(* What a call may still have to do.  "ready" comes first or not at all;   *)
(* what needs no user of its own comes after "ready" or "check" only, so   *)
(* that a call which waits, or begins anew, holds no user; and "refresh",  *)
(* "get" and "check" come one after another.                               *)
(***************************************************************************)
Starting == {"ready", "refresh", "switch"}
Follows(x, y) ==
  /\ y \in Starting => y # "ready" /\ x \in {"ready", "check"}
  /\ x = "refresh" => y = "get"
Ends(x) == x \notin {"refresh", "get"}

TodoOK(todo) ==
  /\ todo \in Seq(Todo)
  /\ \A k \in 1 .. Len(todo) - 1 : Follows(todo[k], todo[k + 1])
  /\ Len(todo) # 0 => Ends(todo[Len(todo)])

CallOK(call) ==
  /\ call \in CallRecord
  /\ TodoOK(call.todo)
  /\ ~call.fetches => call.todo # <<>> /\ call.cache # "new"
  /\ call.todo # <<>> /\ call.todo[1] \in Starting =>
       ~call.fetches /\ call.user = "lost"
  /\ call.waits => call.todo # <<>> /\ call.todo[1] = "ready"

CallsOK ==
  /\ calls = [c \in Call |-> calls[c]]
  /\ \A c \in Call : calls[c] = Null \/ CallOK(calls[c])

\* A call that runs holds what its listed cache holds.
HeldIsListed ==
  \A c \in Call :
    calls[c] # Null /\ ~calls[c].fetches /\ calls[c].cache = "listed"
      /\ calls[c].user # "lost" => caches[calls[c].index] = calls[c].user

UsersInv ==
  /\ TypeOK /\ CallsOK /\ HeldIsListed
  /\ LostIsNoticed

-----------------------------------------------------------------------------
(* Todo lists                                                              *)

\* The rest of a list is in order, and begins with what may follow its head.
LEMMA TailOK ==
  ASSUME NEW todo, TodoOK(todo), todo # <<>>
  PROVE  /\ TodoOK(Tail(todo))
         /\ Tail(todo) # <<>> => Follows(todo[1], Tail(todo)[1])
         /\ Tail(todo) = <<>> => Ends(todo[1])
         /\ Head(todo) = todo[1]
<1>1. todo \in Seq(Todo) /\ Len(todo) \in Nat \ {0}
  BY EmptySeq DEF TodoOK
<1>2. /\ Tail(todo) \in Seq(Todo)
      /\ Len(Tail(todo)) = Len(todo) - 1
      /\ \A k \in 1 .. Len(todo) - 1 : Tail(todo)[k] = todo[k + 1]
  BY <1>1
<1>3. \A k \in 1 .. Len(Tail(todo)) - 1 :
        Follows(Tail(todo)[k], Tail(todo)[k + 1])
  <2>1. TAKE k \in 1 .. Len(Tail(todo)) - 1
  <2>2. k + 1 \in 1 .. Len(todo) - 1 /\ k \in 1 .. Len(todo) - 1
    BY <1>1, <1>2
  <2>3. Follows(todo[k + 1], todo[(k + 1) + 1])
    BY <2>2 DEF TodoOK
  <2>4. QED  BY <1>2, <2>2, <2>3
<1>4. ASSUME Tail(todo) # <<>> PROVE Follows(todo[1], Tail(todo)[1])
  <2>1. Len(Tail(todo)) # 0
    BY <1>2, <1>4
  <2>2. 1 \in 1 .. Len(todo) - 1
    BY <1>1, <1>2, <2>1
  <2>3. Follows(todo[1], todo[1 + 1])
    BY <2>2 DEF TodoOK
  <2>4. QED  BY <1>2, <2>2, <2>3
<1>5. Len(Tail(todo)) # 0 => Ends(Tail(todo)[Len(Tail(todo))])
  BY <1>1, <1>2 DEF TodoOK
<1>6. ASSUME Tail(todo) = <<>> PROVE Ends(todo[1])
  <2> DEFINE rest == Tail(todo)
  <2>1. rest \in Seq(Todo) /\ rest = <<>> /\ Len(rest) = Len(todo) - 1
    BY <1>2, <1>6
  <2> HIDE DEF rest
  <2>2. Len(rest) = 0
    BY <2>1, EmptySeq
  <2>3. Len(todo) = 1
    BY <1>1, <2>1, <2>2
  <2>4. QED  BY <2>3 DEF TodoOK
<1>7. QED  BY <1>1, <1>2, <1>3, <1>4, <1>5, <1>6 DEF TodoOK

\* A list after which another one may come
LEMMA ConcatOK ==
  ASSUME NEW s, NEW t, TodoOK(s), TodoOK(t), s # <<>>,
         t # <<>> => Follows(s[Len(s)], t[1])
  PROVE  TodoOK(s \o t) /\ s \o t # <<>> /\ (s \o t)[1] = s[1]
<1> DEFINE new == s \o t
<1>1. /\ s \in Seq(Todo) /\ Len(s) \in Nat \ {0}
      /\ t \in Seq(Todo) /\ Len(t) \in Nat
  BY EmptySeq DEF TodoOK
<1>2. /\ new \in Seq(Todo) /\ Len(new) = Len(s) + Len(t)
      /\ \A k \in 1 .. Len(s) : new[k] = s[k]
      /\ \A k \in 1 .. Len(t) : new[k + Len(s)] = t[k]
  BY <1>1
<1>3. ASSUME NEW k \in 1 .. Len(new) - 1 PROVE Follows(new[k], new[k + 1])
  <2>1. CASE k < Len(s)
    <3>1. k \in 1 .. Len(s) - 1 /\ new[k] = s[k] /\ new[k + 1] = s[k + 1]
      BY <1>1, <1>2, <2>1
    <3>2. QED  BY <3>1 DEF TodoOK
  <2>2. CASE k = Len(s)
    <3>1. /\ Len(t) # 0 /\ new[k] = s[Len(s)]
          /\ new[k + 1] = new[1 + Len(s)] /\ 1 \in 1 .. Len(t)
      BY <1>1, <1>2, <2>2
    <3>2. new[k + 1] = t[1] /\ t # <<>>
      BY <1>1, <1>2, <3>1
    <3>3. QED  BY <3>1, <3>2
  <2>3. CASE k > Len(s)
    <3> DEFINE j == k - Len(s)
    <3>1. j \in 1 .. Len(t) - 1 /\ k = j + Len(s) /\ k + 1 = (j + 1) + Len(s)
      BY <1>1, <1>2, <2>3
    <3>2. j \in 1 .. Len(t) /\ j + 1 \in 1 .. Len(t)
      BY <1>1, <3>1
    <3>3. new[k] = t[j] /\ new[k + 1] = t[j + 1]
      BY <1>2, <3>1, <3>2
    <3>4. QED  BY <3>1, <3>3 DEF TodoOK
  <2>4. QED  BY <1>1, <1>2, <2>1, <2>2, <2>3
<1>4. new # <<>> /\ new[1] = s[1]
  BY <1>1, <1>2
<1>5. Ends(new[Len(new)])
  <2>1. CASE Len(t) = 0
    BY <1>1, <1>2, <2>1 DEF TodoOK
  <2>2. CASE Len(t) # 0
    <3>1. Len(t) \in 1 .. Len(t) /\ Len(new) = Len(t) + Len(s)
      BY <1>1, <1>2, <2>2
    <3>2. QED  BY <1>2, <2>2, <3>1 DEF TodoOK
  <2>3. QED  BY <2>1, <2>2
<1>6. QED  BY <1>2, <1>3, <1>4, <1>5 DEF TodoOK

\* The lists that calls begin with are in order.
LEMMA BeginOK ==
  ASSUME NEW todo \in {GetCurrentUser, GetUserByIndex, RefreshUser,
                       SwitchCurrentUserByIndex}
  PROVE  TodoOK(todo) /\ todo # <<>> /\ todo[1] = "ready"
<1>1. CASE todo = GetCurrentUser
  BY <1>1 DEF GetCurrentUser, TodoOK, Todo, Follows, Starting, Ends
<1>2. CASE todo = GetUserByIndex
  BY <1>2 DEF GetUserByIndex, TodoOK, Todo, Follows, Starting, Ends
<1>3. CASE todo = RefreshUser
  BY <1>3 DEF RefreshUser, TodoOK, Todo, Follows, Starting, Ends
<1>4. CASE todo = SwitchCurrentUserByIndex
  <2>1. /\ TodoOK(RefreshUser) /\ RefreshUser # <<>>
        /\ RefreshUser[1] = "ready" /\ RefreshUser[Len(RefreshUser)] = "check"
    BY DEF RefreshUser, TodoOK, Todo, Follows, Starting, Ends
  <2>2. TodoOK(<<"switch">>) /\ Follows("check", <<"switch">>[1])
    BY DEF TodoOK, Todo, Follows, Starting, Ends
  <2>3. QED  BY <1>4, <2>1, <2>2, ConcatOK DEF SwitchCurrentUserByIndex
<1>5. QED  BY <1>1, <1>2, <1>3, <1>4

\* The lists that calls go on with are in order, too.
LEMMA GoOnOK ==
  /\ TodoOK(<<>>) /\ TodoOK(<<"ready">>) /\ <<"ready">> # <<>>
  /\ <<"ready">>[1] = "ready"
  /\ LET find == GetUserByIndex \o <<"take">>
         getCurrent == GetCurrentUser \o <<"checkCurrent">> IN
     /\ TodoOK(find) /\ find # <<>> /\ find[1] = "ready"
     /\ TodoOK(getCurrent) /\ getCurrent # <<>> /\ getCurrent[1] = "ready"
<1>1. /\ TodoOK(<<>>) /\ TodoOK(<<"ready">>)
      /\ TodoOK(<<"take">>) /\ TodoOK(<<"checkCurrent">>)
      /\ Follows("find", <<"take">>[1])
      /\ Follows("getCurrent", <<"checkCurrent">>[1])
  BY DEF TodoOK, Todo, Follows, Starting, Ends
<1>2. /\ GetUserByIndex[Len(GetUserByIndex)] = "find"
      /\ GetCurrentUser[Len(GetCurrentUser)] = "getCurrent"
  BY DEF GetUserByIndex, GetCurrentUser
<1>3. /\ TodoOK(GetUserByIndex \o <<"take">>)
      /\ GetUserByIndex \o <<"take">> # <<>>
      /\ (GetUserByIndex \o <<"take">>)[1] = "ready"
  BY <1>1, <1>2, BeginOK, ConcatOK
<1>4. /\ TodoOK(GetCurrentUser \o <<"checkCurrent">>)
      /\ GetCurrentUser \o <<"checkCurrent">> # <<>>
      /\ (GetCurrentUser \o <<"checkCurrent">>)[1] = "ready"
  BY <1>1, <1>2, BeginOK, ConcatOK
<1>5. QED  BY <1>1, <1>3, <1>4

\* A call that has done its first step is in order, and holds a user only if
\* that step was none of those that start something.
LEMMA DoneOK ==
  ASSUME NEW call, CallOK(call), ~call.fetches
  PROVE  LET rest == Tail(call.todo) IN
         /\ call.todo # <<>> /\ Head(call.todo) = call.todo[1]
         /\ Done(call) = [call EXCEPT !.todo = rest]
         /\ TodoOK(rest)
         /\ rest # <<>> => Follows(Head(call.todo), rest[1])
         /\ rest = <<>> => Ends(Head(call.todo))
         /\ Head(call.todo) \in Starting => call.user = "lost"
<1>1. TodoOK(call.todo) /\ call.todo # <<>>
  BY DEF CallOK
<1>2. Done(call) = [call EXCEPT !.todo = Tail(call.todo)]
  BY DEF Done, Does
<1>3. QED  BY <1>1, <1>2, TailOK DEF CallOK

-----------------------------------------------------------------------------
(* The steps of a running call                                             *)

\* What is to be shown of a step that changes one running call, and no more
\* of the rest than initialize does.
LEMMA OneCallOK ==
  ASSUME UsersInv, NEW c \in Call, NEW call,
         calls' = [calls EXCEPT ![c] = call],
         UNCHANGED <<caches, missed>>,
         UNCHANGED initPromise \/ Initialize,
         current' \in Index \cup {Nobody},
         call # Null =>
           /\ CallOK(call)
           /\ ~call.fetches /\ call.cache = "listed" /\ call.user # "lost" =>
                caches[call.index] = call.user
  PROVE  UsersInv'
<1>1. /\ calls' = [d \in Call |-> calls'[d]]
      /\ \A d \in Call : calls'[d] = IF d = c THEN call ELSE calls[d]
  BY DEF UsersInv, CallsOK
<1>2. CallsOK'
  BY <1>1 DEF UsersInv, CallsOK
<1>3. HeldIsListed'
  BY <1>1 DEF UsersInv, HeldIsListed
<1>4. LostIsNoticed'
  BY DEF UsersInv, LostIsNoticed, Initialize
<1>6. TypeOK'
  <2>1. \A d \in Call : calls'[d] = Null \/ calls'[d] \in CallRecord
    BY <1>2 DEF CallsOK, CallOK
  <2>2. initPromise' \in {"undefined", "pending", "rejected"}
    BY DEF UsersInv, TypeOK, Initialize
  <2>3. QED  BY <2>1, <2>2 DEF UsersInv, TypeOK
<1>7. QED  BY <1>2, <1>3, <1>4, <1>6 DEF UsersInv

\* The same when the step ends in As
LEMMA GoesOnOK ==
  ASSUME UsersInv, NEW c \in Call, NEW call,
         GoesOn(c, call),
         UNCHANGED <<caches, missed>>,
         UNCHANGED initPromise \/ Initialize,
         current' \in Index \cup {Nobody},
         call.todo # <<>> =>
           /\ CallOK(call)
           /\ ~call.fetches /\ call.cache = "listed" /\ call.user # "lost" =>
                caches[call.index] = call.user
  PROVE  UsersInv'
<1> DEFINE as == As(call)
<1>1. as # Null => as = call /\ call.todo # <<>>
  BY DEF As
<1>2. calls' = [calls EXCEPT ![c] = as]
  BY DEF GoesOn
<1> HIDE DEF as
<1>3. QED  BY <1>1, <1>2, OneCallOK

\* What is known of a call that does a step
LEMMA RunsOK ==
  ASSUME UsersInv, NEW c \in Call, NEW what, At(c, what)
  PROVE  LET call == calls[c]
             rest == Tail(call.todo) IN
         /\ call # Null /\ CallOK(call) /\ ~call.fetches /\ ~call.waits
         /\ call \in CallRecord
         /\ call.todo # <<>> /\ call.todo[1] = what
         /\ call.cache \in {"listed", "dropped"}
         /\ Done(call) = [call EXCEPT !.todo = rest]
         /\ TodoOK(rest)
         /\ rest # <<>> => Follows(what, rest[1])
         /\ rest = <<>> => Ends(what)
         /\ what \in Starting => call.user = "lost"
         /\ call.cache = "listed" /\ call.user # "lost" =>
              caches[call.index] = call.user
         /\ current \in Index \cup {Nobody}
         /\ caches \in [Index -> CacheState]
<1>1. /\ calls[c] # Null /\ CallOK(calls[c])
      /\ ~calls[c].fetches /\ ~calls[c].waits
      /\ Head(calls[c].todo) = what
  BY DEF At, Runs, UsersInv, CallsOK
<1>2. calls[c] \in CallRecord /\ calls[c].cache # "new"
  BY <1>1 DEF CallOK
<1>3. calls[c].cache \in {"listed", "dropped"}
  BY <1>2 DEF CallRecord
<1>4. current \in Index \cup {Nobody} /\ caches \in [Index -> CacheState]
  BY DEF UsersInv, TypeOK
<1>5. calls[c].cache = "listed" /\ calls[c].user # "lost" =>
        caches[calls[c].index] = calls[c].user
  BY <1>1 DEF UsersInv, HeldIsListed
<1>6. QED  BY <1>1, <1>2, <1>3, <1>4, <1>5, DoneOK

\* A call that asks the server, and goes on with a list that starts nothing
LEMMA SentOK ==
  ASSUME NEW call \in CallRecord, ~call.waits, TodoOK(call.todo),
         call.todo # <<>> => call.todo[1] \notin Starting,
         NEW cache \in {"listed", "dropped", "new"}
  PROVE  LET new == Sent(call, cache) IN
         CallOK(new) /\ new.fetches /\ ~new.waits
<1> DEFINE new == Sent(call, cache)
<1>1. MaxRetries \in 0 .. MaxRetries
  BY UserManagerAssumption
<1>2. /\ new \in CallRecord /\ new.todo = call.todo
      /\ new.fetches /\ ~new.waits
  BY <1>1 DEF Sent, CallRecord
<1> HIDE DEF new
<1>3. QED  BY <1>2 DEF CallOK, new

LEMMA ReadyOK ==
  ASSUME UsersInv, NEW c \in Call, Ready(c)
  PROVE  UsersInv'
<1> DEFINE call == calls[c]
           rest == Tail(call.todo)
<1>1. /\ call \in CallRecord /\ CallOK(call) /\ ~call.fetches /\ ~call.waits
      /\ call.todo # <<>> /\ call.todo[1] = "ready" /\ call.user = "lost"
      /\ call.cache # "new"
      /\ Done(call) = [call EXCEPT !.todo = rest] /\ TodoOK(rest)
      /\ current \in Index \cup {Nobody}
  BY RunsOK DEF Ready, Starting
<1>2. UNCHANGED <<caches, initPromise, current, missed>>
  BY DEF Ready
<1> HIDE DEF call
<1>3. CASE GoesOn(c, Done(call))
  <2>1. rest # <<>> => CallOK(Done(call))
    BY <1>1 DEF CallOK, CallRecord, TodoOK
  <2>2. ~Done(call).waits /\ Done(call).user = "lost" /\ Done(call).todo = rest
    BY <1>1 DEF CallRecord
  <2>3. QED  BY <1>1, <1>2, <1>3, <2>1, <2>2, GoesOnOK
<1>4. CASE GoesOn(c, [call EXCEPT !.waits = TRUE]) /\ initPromise = "pending"
  <2> DEFINE new == [call EXCEPT !.waits = TRUE]
  <2>1. CallOK(new) /\ new.user = "lost"
    BY <1>1 DEF CallOK, CallRecord
  <2>2. QED  BY <1>1, <1>2, <1>4, <2>1, GoesOnOK
<1>5. CASE GoesOn(c, Does(call, <<>>))
  <2>1. Does(call, <<>>).todo = <<>>
    BY <1>1 DEF Does, CallRecord
  <2>2. QED  BY <1>1, <1>2, <1>5, <2>1, GoesOnOK
<1>6. QED  BY <1>3, <1>4, <1>5 DEF Ready, call

\* getData of the listed cache of a user
LEMMA GetDataOK ==
  ASSUME UsersInv, NEW c \in Call, NEW what \in {"find", "getCurrent"},
         At(c, what), NEW i \in Index, GetData(c, i),
         UNCHANGED <<caches, initPromise, current, missed>>
  PROVE  UsersInv'
<1> DEFINE call == calls[c]
           rest == Tail(call.todo)
           asked == [Done(call) EXCEPT !.index = i, !.cache = "listed"]
<1>1. /\ call \in CallRecord /\ ~call.fetches /\ ~call.waits
      /\ Done(call) = [call EXCEPT !.todo = rest] /\ TodoOK(rest)
      /\ rest # <<>> => rest[1] \notin Starting
      /\ current \in Index \cup {Nobody}
  BY RunsOK DEF Follows
<1> HIDE DEF call
<1>2. CASE caches[i] \in Status /\ GoesOn(c, [asked EXCEPT !.user = caches[i]])
  <2> DEFINE new == [asked EXCEPT !.user = caches[i]]
  <2>1. /\ new.todo = rest /\ new.index = i /\ new.user = caches[i]
        /\ ~new.waits
        /\ rest # <<>> => CallOK(new)
    BY <1>1, <1>2 DEF CallOK, CallRecord, TodoOK
  <2>2. QED  BY <1>1, <1>2, <2>1, GoesOnOK
<1>3. CASE calls' = [calls EXCEPT ![c] = Sent(asked, "listed")]
  <2> DEFINE new == Sent(asked, "listed")
  <2>1. asked \in CallRecord /\ asked.todo = rest /\ ~asked.waits
    BY <1>1 DEF CallRecord, TodoOK
  <2>2. CallOK(new) /\ new.fetches /\ ~new.waits
    BY <1>1, <2>1, SentOK
  <2>3. QED  BY <1>1, <1>3, <2>2, OneCallOK
<1>4. QED  BY <1>2, <1>3 DEF GetData, call

LEMMA FindOK ==
  ASSUME UsersInv, NEW c \in Call, Find(c)
  PROVE  UsersInv'
<1> DEFINE call == calls[c]
           rest == Tail(call.todo)
<1>1. /\ call \in CallRecord /\ ~call.fetches /\ ~call.waits
      /\ Done(call) = [call EXCEPT !.todo = rest] /\ TodoOK(rest)
      /\ rest # <<>> => rest[1] \notin Starting
      /\ current \in Index \cup {Nobody}
  BY RunsOK DEF Follows, Find
<1>2. At(c, "find") /\ UNCHANGED <<caches, initPromise, current, missed>>
  BY DEF Find
<1>3. call.index \in Index
  BY <1>1 DEF CallRecord
<1>4. CASE GetData(c, call.index)
  BY <1>2, <1>3, <1>4, GetDataOK
<1>5. CASE calls' = [calls EXCEPT ![c] = Sent(Done(@), "new")]
  <2> DEFINE new == Sent(Done(call), "new")
  <2>1. /\ Done(call) \in CallRecord /\ Done(call).todo = rest
        /\ ~Done(call).waits
    BY <1>1 DEF CallRecord, TodoOK
  <2>2. CallOK(new) /\ new.fetches /\ ~new.waits
    BY <1>1, <2>1, SentOK
  <2>3. calls' = [calls EXCEPT ![c] = new]
    BY <1>5
  <2>4. QED  BY <1>1, <1>2, <2>2, <2>3, OneCallOK
<1>6. QED  BY <1>4, <1>5 DEF Find

\* A call that needs the user it got no more
LEMMA UsedOK ==
  ASSUME UsersInv, NEW c \in Call, NEW what, At(c, what),
         NEW todo, TodoOK(todo)
  PROVE  LET call == calls[c]
             new == Does(Used(call), todo) IN
         /\ new.todo = todo /\ ~new.waits /\ new.user = "lost"
         /\ todo # <<>> => CallOK(new)
         /\ todo = Tail(call.todo) => new = Used(call)
<1> DEFINE call == calls[c]
           rest == Tail(call.todo)
<1>1. /\ call \in CallRecord /\ ~call.fetches /\ ~call.waits
      /\ Done(call) = [call EXCEPT !.todo = rest]
  BY RunsOK
<1> HIDE DEF call
<1>2. Used(call) = [call EXCEPT !.todo = rest, !.user = "lost",
                                !.cache = "dropped"]
  BY <1>1 DEF Used
<1>3. Does(Used(call), todo) = [call EXCEPT !.todo = todo, !.user = "lost",
                                            !.cache = "dropped"]
  BY <1>1, <1>2 DEF Does, CallRecord
<1>4. QED  BY <1>1, <1>2, <1>3 DEF CallOK, CallRecord, TodoOK, call

LEMMA GetCurrentOK ==
  ASSUME UsersInv, NEW c \in Call, GetCurrent(c)
  PROVE  UsersInv'
<1>1. At(c, "getCurrent") /\ UNCHANGED <<caches, initPromise, current, missed>>
  BY DEF GetCurrent
<1>2. CASE IsListed(current) /\ GetData(c, current)
  BY <1>1, <1>2, GetDataOK DEF IsListed
<1>3. CASE GoesOn(c, Used(calls[c]))
  <2>1. TodoOK(Tail(calls[c].todo)) /\ current \in Index \cup {Nobody}
    BY <1>1, RunsOK
  <2>2. QED  BY <1>1, <1>3, <2>1, UsedOK, GoesOnOK
<1>4. QED  BY <1>2, <1>3 DEF GetCurrent

LEMMA RefreshOK ==
  ASSUME UsersInv, NEW c \in Call, Refresh(c)
  PROVE  UsersInv'
<1> DEFINE call == calls[c]
           rest == Tail(call.todo)
<1>1. /\ call \in CallRecord /\ ~call.fetches /\ ~call.waits
      /\ call.cache # "new" /\ call.user = "lost"
      /\ Done(call) = [call EXCEPT !.todo = rest]
      /\ TodoOK(rest) /\ rest # <<>> /\ rest[1] = "get"
      /\ current \in Index \cup {Nobody}
  BY RunsOK DEF Follows, Ends, Starting, Refresh
<1>2. /\ UNCHANGED <<caches, initPromise, current, missed>>
      /\ \/ calls' = [calls EXCEPT ![c] = Sent(Done(call), "listed")]
         \/ calls' = [calls EXCEPT
              ![c] = Does(call, GetUserByIndex \o Tail(rest))]
  BY DEF Refresh
<1>3. TodoOK(Tail(rest)) /\ (Tail(rest) # <<>> => Follows("get", Tail(rest)[1]))
  BY <1>1, TailOK
<1> HIDE DEF call, rest
<1>4. CASE calls' = [calls EXCEPT ![c] = Sent(Done(call), "listed")]
  <2> DEFINE new == Sent(Done(call), "listed")
  <2>1. /\ Done(call) \in CallRecord /\ Done(call).todo = rest
        /\ ~Done(call).waits
    BY <1>1 DEF CallRecord, TodoOK
  <2>2. CallOK(new) /\ new.fetches /\ ~new.waits
    BY <1>1, <2>1, SentOK DEF Starting
  <2>3. QED  BY <1>1, <1>2, <1>4, <2>2, OneCallOK
<1>5. CASE calls' = [calls EXCEPT
             ![c] = Does(call, GetUserByIndex \o Tail(rest))]
  <2> DEFINE todo == GetUserByIndex \o Tail(rest)
             new == Does(call, todo)
  <2>1. /\ TodoOK(GetUserByIndex) /\ GetUserByIndex # <<>>
        /\ GetUserByIndex[1] = "ready"
        /\ GetUserByIndex[Len(GetUserByIndex)] = "find"
    BY BeginOK DEF GetUserByIndex
  <2>2. Tail(rest) # <<>> => Follows("find", Tail(rest)[1])
    BY <1>3 DEF Follows, Starting
  <2>3. TodoOK(todo) /\ todo # <<>> /\ todo[1] = "ready"
    BY <1>3, <2>1, <2>2, ConcatOK
  <2> HIDE DEF todo
  <2>4. CallOK(new) /\ ~new.waits /\ new.user = "lost"
    BY <1>1, <2>3 DEF CallOK, CallRecord, TodoOK, Does
  <2>5. QED  BY <1>1, <1>2, <1>5, <2>4, OneCallOK DEF todo
<1>6. QED  BY <1>2, <1>4, <1>5

LEMMA GetOK ==
  ASSUME UsersInv, NEW c \in Call, Get(c)
  PROVE  UsersInv'
<1> DEFINE call == calls[c]
           rest == Tail(call.todo)
           done == Done(call)
<1>1. /\ call \in CallRecord /\ ~call.fetches /\ ~call.waits
      /\ call.cache \in {"listed", "dropped"}
      /\ done = [call EXCEPT !.todo = rest]
      /\ TodoOK(rest) /\ rest # <<>> /\ rest[1] \notin Starting
      /\ call.cache = "listed" /\ call.user # "lost" =>
            caches[call.index] = call.user
      /\ current \in Index \cup {Nobody}
  BY RunsOK DEF Follows, Ends, Get
<1>2. /\ UNCHANGED <<caches, initPromise, current, missed>>
      /\ \/ calls' = [calls EXCEPT ![c] = done]
         \/ calls' = [calls EXCEPT ![c] = Sent(done, done.cache)]
  BY DEF Get
<1> HIDE DEF call, rest, done
<1>3. /\ done \in CallRecord /\ done.todo = rest /\ ~done.waits
      /\ ~done.fetches /\ done.cache = call.cache /\ done.user = call.user
      /\ done.index = call.index
  BY <1>1 DEF CallRecord, TodoOK
<1>4. CASE calls' = [calls EXCEPT ![c] = done]
  <2>1. CallOK(done)
    BY <1>1, <1>3 DEF CallOK
  <2>2. QED  BY <1>1, <1>2, <1>3, <1>4, <2>1, OneCallOK
<1>5. CASE calls' = [calls EXCEPT ![c] = Sent(done, done.cache)]
  <2> DEFINE new == Sent(done, done.cache)
  <2>1. CallOK(new) /\ new.fetches /\ ~new.waits
    BY <1>1, <1>3, SentOK
  <2>2. QED  BY <1>1, <1>2, <1>5, <2>1, OneCallOK
<1>6. QED  BY <1>2, <1>4, <1>5

LEMMA CheckOK ==
  ASSUME UsersInv, NEW c \in Call, Check(c)
  PROVE  UsersInv'
<1> DEFINE call == calls[c]
           rest == Tail(call.todo)
           again == <<"ready">> \o rest
<1>1. /\ At(c, "check") /\ TodoOK(rest)
      /\ rest # <<>> => rest[1] # "ready"
      /\ current \in Index \cup {Nobody}
  BY RunsOK DEF Follows, Check, Starting
<1>2. /\ UNCHANGED <<caches, current, missed>>
      /\ \/ Initialize /\ GoesOn(c, Does(Used(call), again))
         \/ GoesOn(c, Used(call)) /\ UNCHANGED initPromise
  BY DEF Check
<1>3. CASE Initialize /\ GoesOn(c, Does(Used(call), again))
  <2>1. /\ TodoOK(<<"ready">>) /\ <<"ready">> # <<>>
        /\ <<"ready">>[Len(<<"ready">>)] = "ready"
    BY GoOnOK
  <2>2. rest # <<>> => Follows("ready", rest[1])
    BY <1>1 DEF Follows
  <2>3. TodoOK(again)
    BY <1>1, <2>1, <2>2, ConcatOK
  <2> HIDE DEF again
  <2>4. QED  BY <1>1, <1>2, <1>3, <2>3, UsedOK, GoesOnOK
<1>4. CASE GoesOn(c, Used(call)) /\ UNCHANGED initPromise
  BY <1>1, <1>2, <1>4, UsedOK, GoesOnOK
<1>5. QED  BY <1>2, <1>3, <1>4

LEMMA SwitchOK ==
  ASSUME UsersInv, NEW c \in Call, Switch(c)
  PROVE  UsersInv'
<1> DEFINE call == calls[c]
           find == GetUserByIndex \o <<"take">>
<1>1. /\ call \in CallRecord /\ ~call.fetches /\ ~call.waits
      /\ call.cache # "new" /\ call.user = "lost"
      /\ current \in Index \cup {Nobody}
  BY RunsOK DEF Switch, Starting
<1>2. /\ UNCHANGED <<caches, initPromise, current, missed>>
      /\ \E todo \in {<<>>, find} : GoesOn(c, Does(call, todo))
  BY DEF Switch
<1>3. TodoOK(<<>>) /\ TodoOK(find) /\ find[1] = "ready"
  BY GoOnOK
<1> HIDE DEF call, find
<1>4. PICK todo \in {<<>>, find} : GoesOn(c, Does(call, todo))
  BY <1>2
<1> DEFINE new == Does(call, todo)
<1>5. /\ new.todo = todo /\ ~new.waits /\ new.user = "lost"
      /\ todo # <<>> => CallOK(new)
  BY <1>1, <1>3 DEF CallOK, CallRecord, TodoOK, Does
<1> HIDE DEF new
<1>6. GoesOn(c, new)
  BY <1>4 DEF new
<1>7. QED  BY <1>1, <1>2, <1>5, <1>6, GoesOnOK

LEMMA TakeOK ==
  ASSUME UsersInv, NEW c \in Call, Take(c)
  PROVE  UsersInv'
<1> DEFINE call == calls[c]
           getCurrent == GetCurrentUser \o <<"checkCurrent">>
<1>1. /\ At(c, "take") /\ TodoOK(Tail(call.todo)) /\ call \in CallRecord
      /\ current \in Index \cup {Nobody}
  BY RunsOK DEF Take
<1>2. /\ UNCHANGED <<caches, initPromise, missed>>
      /\ \/ current' = call.index /\ GoesOn(c, Used(call))
         \/ UNCHANGED current /\ GoesOn(c, Does(Used(call), getCurrent))
  BY DEF Take
<1>3. call.index \in Index
  BY <1>1 DEF CallRecord
<1>4. TodoOK(getCurrent)
  BY GoOnOK
<1> HIDE DEF getCurrent
<1>5. CASE current' = call.index /\ GoesOn(c, Used(call))
  <2>1. /\ ~Used(call).waits /\ Used(call).user = "lost"
        /\ Used(call).todo # <<>> => CallOK(Used(call))
    BY <1>1, UsedOK
  <2>2. QED  BY <1>2, <1>3, <1>5, <2>1, GoesOnOK
<1>6. CASE UNCHANGED current /\ GoesOn(c, Does(Used(call), getCurrent))
  BY <1>1, <1>2, <1>4, <1>6, UsedOK, GoesOnOK
<1>7. QED  BY <1>2, <1>5, <1>6

LEMMA CheckCurrentOK ==
  ASSUME UsersInv, NEW c \in Call, CheckCurrent(c)
  PROVE  UsersInv'
<1> DEFINE call == calls[c]
<1>1. /\ At(c, "checkCurrent") /\ TodoOK(Tail(call.todo))
      /\ current \in Index \cup {Nobody}
  BY RunsOK DEF CheckCurrent
<1>2. /\ UNCHANGED <<caches, current, missed>>
      /\ \/ Initialize /\ GoesOn(c, Does(Used(call), <<"ready">>))
         \/ GoesOn(c, Used(call)) /\ UNCHANGED initPromise
  BY DEF CheckCurrent
<1>3. CASE Initialize /\ GoesOn(c, Does(Used(call), <<"ready">>))
  <2>1. TodoOK(<<"ready">>)
    BY GoOnOK
  <2>2. QED  BY <1>1, <1>2, <1>3, <2>1, UsedOK, GoesOnOK
<1>4. CASE GoesOn(c, Used(call)) /\ UNCHANGED initPromise
  BY <1>1, <1>2, <1>4, UsedOK, GoesOnOK
<1>5. QED  BY <1>2, <1>3, <1>4

LEMMA SettlesOK ==
  ASSUME UsersInv, NEW c \in Call, Settles(c)
  PROVE  UsersInv'
BY ReadyOK, FindOK, GetCurrentOK, RefreshOK, GetOK, CheckOK, SwitchOK, TakeOK,
   CheckCurrentOK
   DEF Settles

-----------------------------------------------------------------------------
(* The beginnings of calls and the answers of the server                   *)

LEMMA BeginsOK ==
  ASSUME UsersInv, Begins
  PROVE  UsersInv'
<1>1. 0 \in Index
  BY UserManagerAssumption DEF Index
<1>2. PICK c \in Call, i \in Index,
           todo \in {GetCurrentUser, GetUserByIndex, RefreshUser,
                    SwitchCurrentUserByIndex} : Begin(c, i, todo)
  BY <1>1 DEF Begins
<1> DEFINE new == [todo |-> todo, index |-> i, waits |-> FALSE,
                   cache |-> "dropped", fetches |-> FALSE, retries |-> 0,
                   user |-> "lost"]
<1>3. TodoOK(todo) /\ todo # <<>>
  BY BeginOK
<1>4. 0 \in 0 .. MaxRetries
  BY UserManagerAssumption
<1>5. CallOK(new) /\ ~new.waits /\ new.user = "lost"
  BY <1>3, <1>4 DEF CallOK, CallRecord, TodoOK
<1>6. /\ calls' = [calls EXCEPT ![c] = new]
      /\ UNCHANGED <<caches, initPromise, current, missed>>
  BY <1>2 DEF Begin
<1> HIDE DEF new
<1>7. current \in Index \cup {Nobody}
  BY DEF UsersInv, TypeOK
<1>8. QED  BY <1>5, <1>6, <1>7, OneCallOK

\* Of the calls that wait, what is left of them holds no user and runs; when
\* everything is settled, all others are waiting for an answer.
LEMMA AwaitsOK ==
  ASSUME UsersInv, SettledFirst, NEW c \in Call
  PROVE  /\ Resumed(c) # Null =>
              /\ CallOK(Resumed(c)) /\ ~Resumed(c).waits
              /\ ~Resumed(c).fetches => Resumed(c).user = "lost"
         /\ Thrown(c) # Null =>
              CallOK(Thrown(c)) /\ Thrown(c).fetches /\ ~Thrown(c).waits
<1> DEFINE call == calls[c]
<1>1. call = Null \/ (CallOK(call) /\ call \in CallRecord)
  BY DEF UsersInv, CallsOK, CallOK
<1>2. CASE call = Null
  BY <1>2 DEF Resumed, Thrown, Waiting
<1>3. CASE call # Null /\ ~call.waits
  <2>1. call.fetches
    BY <1>3 DEF SettledFirst, Runs
  <2>2. QED  BY <1>1, <1>3, <2>1 DEF Resumed, Thrown, Waiting
<1>4. CASE call # Null /\ call.waits
  <2> DEFINE done == Done(call)
             new == [done EXCEPT !.waits = FALSE]
  <2>1. ~call.fetches /\ call.user = "lost" /\ call.todo[1] = "ready"
    BY <1>1, <1>4 DEF CallOK, Starting
  <2>2. /\ done = [call EXCEPT !.todo = Tail(call.todo)]
        /\ TodoOK(Tail(call.todo))
    BY <1>1, <1>4, <2>1, DoneOK
  <2> HIDE DEF call, done
  <2>3. /\ new.todo # <<>> => CallOK(new)
        /\ ~new.waits /\ new.user = "lost"
    BY <1>1, <1>4, <2>1, <2>2 DEF CallOK, CallRecord, TodoOK
  <2> HIDE DEF new
  <2>4. Resumed(c) = As(new) /\ Thrown(c) = Null
    BY <1>4 DEF Resumed, Thrown, Waiting, call, done, new
  <2>5. QED  BY <2>3, <2>4 DEF As
<1>5. QED  BY <1>2, <1>3, <1>4, <1>1 DEF CallRecord

\* A cache that goes leaves a call what it has got.
LEMMA OffOK ==
  ASSUME NEW call, call = Null \/ CallOK(call), NEW indices
  PROVE  LET off == Off(call, indices) IN
         off # Null =>
              /\ call # Null
              /\ CallOK(off) /\ off.waits = call.waits
              /\ off.fetches = call.fetches /\ off.user = call.user
              /\ off.index = call.index
              /\ off.cache = "listed" =>
                   call.cache = "listed" /\ call.index \notin indices
<1>1. CASE Off(call, indices) = call
  BY <1>1 DEF Off
<1>2. CASE call # Null /\ Off(call, indices) = [call EXCEPT !.cache = "dropped"]
  <2> DEFINE off == [call EXCEPT !.cache = "dropped"]
  <2>1. call \in CallRecord
    BY <1>2 DEF CallOK
  <2>2. /\ off \in CallRecord /\ off.todo = call.todo
        /\ off.waits = call.waits /\ off.cache = "dropped"
        /\ off.fetches = call.fetches /\ off.user = call.user
        /\ off.index = call.index
    BY <2>1 DEF CallRecord
  <2> HIDE DEF off
  <2>3. CallOK(off)
    BY <1>2, <2>2 DEF CallOK
  <2>4. QED  BY <1>2, <2>2, <2>3 DEF off
<1>3. QED  BY <1>1, <1>2 DEF Off

\* The first of the users that are logged in
LEMMA LeastExists ==
  ASSUME NEW S, S \subseteq Index, S # {}
  PROVE  \E i \in S : \A k \in S : i <= k
<1> DEFINE R == OpToRel(<, Nat)
<1>1. S \subseteq Nat
  BY UserManagerAssumption DEF Index
<1>2. PICK i \in S : \A k \in S : ~(<<k, i>> \in R)
  BY <1>1, NatLessThanWellFounded, WFMin
<1>3. \A k \in S : <<k, i>> \notin R => i <= k
  BY <1>1 DEF OpToRel
<1>4. QED  BY <1>2, <1>3

\* Who becomes current when the list has come
LEMMA CurrentOfOK ==
  ASSUME NEW loggedIn, loggedIn \subseteq Index
  PROVE  \/ CurrentOf(loggedIn) \in loggedIn
         \/ CurrentOf(loggedIn) = Nobody /\ loggedIn = {}
<1>1. CASE current \in loggedIn
  BY <1>1 DEF CurrentOf
<1>2. CASE current \notin loggedIn /\ loggedIn = {}
  BY <1>2 DEF CurrentOf
<1>3. CASE current \notin loggedIn /\ loggedIn # {}
  BY <1>3, LeastExists DEF CurrentOf
<1>4. QED  BY <1>1, <1>2, <1>3

LEMMA ListFailsOK ==
  ASSUME UsersInv, ListFails
  PROVE  UsersInv'
<1>1. /\ SettledFirst /\ calls' = [c \in Call |-> Resumed(c)]
      /\ initPromise' = "undefined" /\ missed' = TRUE
      /\ UNCHANGED <<caches, current>>
  BY DEF ListFails
<1>2. \A c \in Call : calls'[c] = Resumed(c)
  BY <1>1
<1>3. \A c \in Call : calls'[c] # Null =>
        /\ CallOK(calls'[c]) /\ ~calls'[c].waits
        /\ ~calls'[c].fetches => calls'[c].user = "lost"
  BY <1>1, <1>2, AwaitsOK
<1>4. CallsOK'
  BY <1>1, <1>2, <1>3 DEF CallsOK
<1>5. HeldIsListed'
  BY <1>3 DEF HeldIsListed
<1>6. LostIsNoticed'
  BY <1>1 DEF LostIsNoticed
<1>7. TypeOK'
  BY <1>1, <1>3 DEF TypeOK, CallOK, UsersInv
<1>8. QED  BY <1>4, <1>5, <1>6, <1>7 DEF UsersInv

\* What a list makes of the caches
LEMMA UpdatedOK ==
  ASSUME UsersInv, NEW users \in BoundedSeq(Status, MaxUsers), NEW lost,
         lost = {i \in Index : i < Len(users) /\ caches[i] = "lost"}
  PROVE  LET new == Updated(users, lost) IN
         /\ new \in [Index -> CacheState]
         /\ \A i \in Index : i < Len(users) => users[i + 1] \in Status
         /\ lost = {} => \A i \in Index :
              new[i] = IF i < Len(users) THEN users[i + 1] ELSE "none"
<1>1. PICK m \in 0 .. MaxUsers : users \in [1 .. m -> Status]
  BY DEF BoundedSeq, SeqOf
<1>2. m \in Nat /\ MaxUsers \in Nat
  BY UserManagerAssumption
<1>3. Len(users) = m
  BY <1>1, <1>2
<1>4. \A i \in Index : i < m => users[i + 1] \in Status
  <2>1. TAKE i \in Index
  <2>2. i \in Nat
    BY UserManagerAssumption DEF Index
  <2>3. i < m => i + 1 \in 1 .. m
    BY <1>2, <2>2
  <2>4. QED  BY <1>1, <2>3
<1>5. \A i \in Index : i \in Nat /\ (i < m <=> ~(i >= m))
  BY <1>2, UserManagerAssumption DEF Index
<1>6. caches \in [Index -> CacheState]
  BY DEF UsersInv, TypeOK
<1>7. Updated(users, lost) \in [Index -> CacheState]
  BY <1>3, <1>4, <1>5, <1>6 DEF Updated, CacheState
<1>8. QED  BY <1>3, <1>4, <1>5, <1>7 DEF Updated

LEMMA ListCameOK ==
  ASSUME UsersInv, NEW users \in BoundedSeq(Status, MaxUsers), ListCame(users)
  PROVE  /\ UsersInv'
         /\ current' # current =>
              \/ current' \in Index /\ caches'[current'] = "in"
              \/ current' = Nobody /\ \A i \in Index : caches'[i] # "in"
<1> DEFINE beyond == {i \in Index : i >= Len(users)}
           lost == {i \in Index \ beyond : caches[i] = "lost"}
           loggedIn == {i \in Index \ beyond : users[i + 1] = "in"}
<1>1. /\ SettledFirst /\ caches' = Updated(users, lost)
      /\ lost = {} =>
           /\ initPromise' = "undefined" /\ current' = CurrentOf(loggedIn)
           /\ calls' = [c \in Call |-> Off(Resumed(c), beyond)]
      /\ lost # {} =>
           /\ initPromise' = "rejected" /\ current' = current
           /\ calls' = [c \in Call |-> Off(Thrown(c), beyond)]
      /\ missed' = FALSE
  BY DEF ListCame
<1>2. Len(users) \in Nat /\ \A i \in Index : i \in Nat
  BY UserManagerAssumption DEF BoundedSeq, SeqOf, Index
<1>3. \A i \in Index : i \in beyond <=> ~(i < Len(users))
  BY <1>2
<1>4. lost = {i \in Index : i < Len(users) /\ caches[i] = "lost"}
  BY <1>3
<1>5. loggedIn \subseteq Index
      /\ \A i \in Index : i \in loggedIn <=> i < Len(users) /\ users[i + 1] = "in"
  BY <1>3
<1> HIDE DEF beyond, lost, loggedIn
<1>6. /\ caches' \in [Index -> CacheState]
      /\ \A i \in Index : i < Len(users) => users[i + 1] \in Status
      /\ lost = {} => \A i \in Index :
           caches'[i] = IF i < Len(users) THEN users[i + 1] ELSE "none"
  BY <1>1, <1>4, UpdatedOK
<1>7. \A c \in Call : calls'[c] # Null =>
        /\ CallOK(calls'[c]) /\ ~calls'[c].waits
        /\ ~calls'[c].fetches => calls'[c].user = "lost"
  <2> TAKE c \in Call
  <2>1. CASE lost = {}
    <3>1. calls'[c] = Off(Resumed(c), beyond)
      BY <1>1, <2>1
    <3>2. Resumed(c) = Null \/ CallOK(Resumed(c))
      BY <1>1, AwaitsOK
    <3>3. QED  BY <1>1, <3>1, <3>2, AwaitsOK, OffOK
  <2>2. CASE lost # {}
    <3>1. calls'[c] = Off(Thrown(c), beyond)
      BY <1>1, <2>2
    <3>2. Thrown(c) = Null \/ CallOK(Thrown(c))
      BY <1>1, AwaitsOK
    <3>3. QED  BY <1>1, <3>1, <3>2, AwaitsOK, OffOK
  <2>3. QED  BY <2>1, <2>2
<1>8. CallsOK'
  BY <1>1, <1>7 DEF CallsOK
<1>9. HeldIsListed'
  BY <1>7 DEF HeldIsListed
<1>10. LostIsNoticed'
  <2>1. CASE lost = {}
    <3>1. \A i \in Index : caches'[i] # "lost"
      BY <1>6, <2>1 DEF Status
    <3>2. QED  BY <3>1 DEF LostIsNoticed
  <2>2. CASE lost # {}
    BY <1>1, <2>2 DEF LostIsNoticed
  <2>3. QED  BY <2>1, <2>2
<1>11. current' # current =>
         \/ current' \in Index /\ caches'[current'] = "in"
         \/ current' = Nobody /\ \A i \in Index : caches'[i] # "in"
  <2>1. CASE lost = {}
    <3>1. \/ current' \in loggedIn
          \/ current' = Nobody /\ loggedIn = {}
      BY <1>1, <1>5, <2>1, CurrentOfOK
    <3>2. \A i \in Index : caches'[i] = "in" <=> i \in loggedIn
      BY <1>5, <1>6, <2>1
    <3>3. QED  BY <1>5, <3>1, <3>2
  <2>2. QED  BY <1>1, <2>1
<1>12. TypeOK'
  <2>1. current' \in Index \cup {Nobody}
    BY <1>11 DEF UsersInv, TypeOK
  <2>2. \A c \in Call : calls'[c] = Null \/ calls'[c] \in CallRecord
    BY <1>7 DEF CallOK
  <2>3. initPromise' \in {"undefined", "pending", "rejected"}
    BY <1>1
  <2>4. missed' \in BOOLEAN
    BY <1>1
  <2>5. QED  BY <1>6, <2>1, <2>2, <2>3, <2>4 DEF TypeOK
<1>13. QED  BY <1>8, <1>9, <1>10, <1>11, <1>12 DEF UsersInv

\* What is known of a call that waits for an answer, and of all others
LEMMA FetchingOK ==
  ASSUME UsersInv, NEW c \in Call, Fetching(c)
  PROVE  /\ calls[c] # Null /\ CallOK(calls[c]) /\ calls[c] \in CallRecord
         /\ calls[c].fetches /\ ~calls[c].waits
         /\ calls[c].todo # <<>> => calls[c].todo[1] \notin Starting
         /\ \A d \in Call : calls[d] # Null =>
              /\ CallOK(calls[d])
              /\ ~calls[d].fetches => calls[d].waits /\ calls[d].user = "lost"
<1>1. \A d \in Call : calls[d] # Null =>
        CallOK(calls[d]) /\ (calls[d].waits \/ calls[d].fetches)
  BY DEF UsersInv, CallsOK, Fetching, SettledFirst, Runs
<1>2. calls[c] # Null /\ calls[c].fetches
  BY DEF Fetching
<1>3. QED  BY <1>1, <1>2 DEF CallOK, Starting

LEMMA RetryOK ==
  ASSUME UsersInv, NEW c \in Call, Retry(c)
  PROVE  UsersInv'
<1> DEFINE call == calls[c]
           new == [call EXCEPT !.retries = Left(@)]
<1>1. /\ call \in CallRecord /\ CallOK(call) /\ call.fetches /\ ~call.waits
  BY FetchingOK DEF Retry
<1>2. /\ call.retries > 0 /\ calls' = [calls EXCEPT ![c] = new]
      /\ UNCHANGED <<caches, initPromise, current, missed>>
  BY DEF Retry
<1> HIDE DEF call
<1>3. Left(call.retries) \in 0 .. MaxRetries
  <2>1. call.retries \in 0 .. MaxRetries
    BY <1>1 DEF CallRecord
  <2>2. QED  BY <1>2, <2>1, UserManagerAssumption DEF Left
<1>4. /\ new \in CallRecord /\ new.todo = call.todo /\ new.fetches
      /\ ~new.waits
  BY <1>1, <1>3 DEF CallRecord
<1>5. CallOK(new)
  BY <1>1, <1>4 DEF CallOK
<1>6. current \in Index \cup {Nobody}
  BY DEF UsersInv, TypeOK
<1> HIDE DEF new
<1>7. QED  BY <1>2, <1>4, <1>5, <1>6, OneCallOK

\* A call whose answer has come
LEMMA GotOK ==
  ASSUME NEW call \in CallRecord, CallOK(call), call.fetches, ~call.waits,
         NEW cache \in {"listed", "dropped"},
         NEW user \in {"lost"} \cup Status
  PROVE  LET new == Got(call, cache, user) IN
         /\ new.todo = call.todo /\ new.index = call.index
         /\ ~new.waits /\ new.cache = cache /\ new.user = user
         /\ new.todo # <<>> => CallOK(new)
<1> DEFINE new == Got(call, cache, user)
<1>1. 0 \in 0 .. MaxRetries
  BY UserManagerAssumption
<1>2. /\ new \in CallRecord /\ new.todo = call.todo
      /\ new.index = call.index /\ ~new.waits /\ new.cache = cache
      /\ new.user = user /\ ~new.fetches
  BY <1>1 DEF Got, CallRecord
<1> HIDE DEF new
<1>3. new.todo # <<>> => CallOK(new)
  BY <1>2 DEF CallOK
<1>4. QED  BY <1>2, <1>3 DEF new

\* What is to be shown of a step that brings a call its answer: all others
\* hold no user, so that no cache they could disagree with is changed.
LEMMA AnswerOK ==
  ASSUME UsersInv, NEW c \in Call, Fetching(c),
         NEW cache \in {"listed", "dropped"},
         NEW user \in {"lost"} \cup Status,
         calls' = [d \in Call |-> calls'[d]],
         calls'[c] = As(Got(calls[c], cache, user)),
         \A d \in Call \ {c} : \/ calls'[d] = calls[d]
                              \/ calls'[d] = Off(calls[d], {calls[c].index}),
         caches' \in [Index -> CacheState],
         cache = "listed" /\ user # "lost" => caches'[calls[c].index] = user,
         UNCHANGED initPromise \/ Initialize,
         UNCHANGED <<current, missed>>,
         LostIsNoticed'
  PROVE  UsersInv'
<1> DEFINE new == Got(calls[c], cache, user)
<1>1. /\ new.index = calls[c].index /\ ~new.waits
      /\ new.cache = cache /\ new.user = user
      /\ new.todo # <<>> => CallOK(new)
  BY FetchingOK, GotOK
<1>2. calls'[c] # Null => calls'[c] = new /\ new.todo # <<>>
  BY DEF As
<1> HIDE DEF new
<1>3. \A d \in Call \ {c} : calls'[d] # Null =>
        /\ calls[d] # Null /\ CallOK(calls'[d])
        /\ calls'[d].waits = calls[d].waits
        /\ ~calls'[d].fetches => calls'[d].user = "lost"
  <2> TAKE d \in Call \ {c}
  <2>1. calls[d] # Null =>
          /\ CallOK(calls[d])
          /\ ~calls[d].fetches => calls[d].waits /\ calls[d].user = "lost"
    BY FetchingOK
  <2>2. CASE calls'[d] = calls[d]
    BY <2>1, <2>2
  <2>3. CASE calls'[d] = Off(calls[d], {calls[c].index})
    BY <2>1, <2>3, OffOK
  <2>4. QED  BY <2>2, <2>3
<1>4. CallsOK'
  BY <1>1, <1>2, <1>3 DEF CallsOK
<1>5. HeldIsListed'
  BY <1>1, <1>2, <1>3 DEF HeldIsListed
<1>7. TypeOK'
  <2>1. \A d \in Call : calls'[d] = Null \/ calls'[d] \in CallRecord
    BY <1>4 DEF CallsOK, CallOK
  <2>2. initPromise' \in {"undefined", "pending", "rejected"}
    BY DEF UsersInv, TypeOK, Initialize
  <2>3. QED  BY <2>1, <2>2 DEF UsersInv, TypeOK
<1>8. QED  BY <1>4, <1>5, <1>7 DEF UsersInv

LEMMA RefreshedOK ==
  ASSUME UsersInv, NEW c \in Call, Refreshed(c)
  PROVE  UsersInv'
<1> DEFINE call == calls[c]
           cache == IF call.cache = "new" THEN "listed" ELSE call.cache
<1>1. call \in CallRecord /\ Fetching(c)
  BY FetchingOK DEF Refreshed
<1>2. call.index \in Index /\ cache \in {"listed", "dropped"}
  BY <1>1 DEF CallRecord
<1>3. /\ caches' = IF cache = "listed" THEN [caches EXCEPT ![call.index] = "in"]
                   ELSE caches
      /\ calls' = [d \in Call |->
           IF d = c THEN As(Got(call, cache, "in"))
           ELSE IF call.cache = "new" THEN Off(calls[d], {call.index})
           ELSE calls[d]]
      /\ UNCHANGED <<initPromise, current, missed>>
  BY DEF Refreshed
<1>4. caches \in [Index -> CacheState] /\ "in" \in CacheState /\ "in" \in Status
  BY DEF UsersInv, TypeOK, CacheState, Status
<1> HIDE DEF call, cache
<1>5. /\ caches' \in [Index -> CacheState]
      /\ cache = "listed" => caches'[call.index] = "in"
      /\ \A i \in Index : caches'[i] = caches[i] \/ caches'[i] = "in"
  BY <1>2, <1>3, <1>4
<1>6. LostIsNoticed'
  BY <1>3, <1>5 DEF UsersInv, LostIsNoticed
<1>7. /\ calls' = [d \in Call |-> calls'[d]]
      /\ calls'[c] = As(Got(calls[c], cache, "in"))
      /\ \A d \in Call \ {c} : \/ calls'[d] = calls[d]
                              \/ calls'[d] = Off(calls[d], {calls[c].index})
  BY <1>3 DEF call
<1>8. cache = "listed" => caches'[calls[c].index] = "in"
  BY <1>5 DEF call
<1>9. QED
  BY <1>1, <1>2, <1>3, <1>4, <1>5, <1>6, <1>7, <1>8, AnswerOK

LEMMA RefreshFailedOK ==
  ASSUME UsersInv, NEW c \in Call, RefreshFailed(c)
  PROVE  UsersInv'
<1> DEFINE call == calls[c]
           cache == IF call.cache = "new" THEN "dropped" ELSE call.cache
<1>1. call \in CallRecord /\ Fetching(c)
  BY FetchingOK DEF RefreshFailed
<1>2. call.index \in Index /\ cache \in {"listed", "dropped"}
  BY <1>1 DEF CallRecord
<1>3. /\ \/ /\ caches' = [caches EXCEPT ![call.index] = "lost"]
            /\ Initialize
         \/ UNCHANGED <<caches, initPromise>>
      /\ calls' = [calls EXCEPT ![c] = As(Got(call, cache, "lost"))]
      /\ UNCHANGED <<current, missed>>
  BY DEF RefreshFailed, RemoveCache, GoesOn
<1>4. caches \in [Index -> CacheState] /\ "lost" \in CacheState
  BY DEF UsersInv, TypeOK, CacheState
<1>5. initPromise \in {"undefined", "pending", "rejected"}
  BY DEF UsersInv, TypeOK
<1> HIDE DEF call, cache
<1>6. caches' \in [Index -> CacheState]
  BY <1>2, <1>3, <1>4
<1>7. LostIsNoticed'
  <2>1. CASE Initialize
    BY <1>5, <2>1 DEF LostIsNoticed, Initialize
  <2>2. CASE UNCHANGED <<caches, initPromise>>
    BY <1>3, <2>2 DEF UsersInv, LostIsNoticed
  <2>3. QED  BY <1>3, <2>1, <2>2
<1>8. /\ calls' = [d \in Call |-> calls'[d]]
      /\ calls'[c] = As(Got(calls[c], cache, "lost"))
      /\ \A d \in Call \ {c} : calls'[d] = calls[d]
  BY <1>3 DEF call, UsersInv, CallsOK
<1>9. QED
  BY <1>1, <1>2, <1>3, <1>6, <1>7, <1>8, AnswerOK

-----------------------------------------------------------------------------
(* The theorems                                                            *)

\* The invariant holds in every state of the specification.
THEOREM UsersInvariant == Spec => []UsersInv
<1>1. Init => UsersInv
  <2> SUFFICES ASSUME Init  PROVE  UsersInv
    OBVIOUS
  <2>1. \A c \in Call : calls[c] = Null
    BY DEF Init
  <2>2. \A i \in Index : caches[i] = "none"
    BY DEF Init
  <2>3. TypeOK
    BY <2>1 DEF Init, TypeOK, CacheState
  <2>4. CallsOK /\ HeldIsListed
    BY <2>1 DEF Init, CallsOK, HeldIsListed
  <2>5. LostIsNoticed
    BY <2>2 DEF LostIsNoticed
  <2>6. QED  BY <2>3, <2>4, <2>5 DEF UsersInv
<1>2. UsersInv /\ [Next]_vars => UsersInv'
  <2> SUFFICES ASSUME UsersInv, [Next]_vars
               PROVE  UsersInv'
    OBVIOUS
  <2>1. CASE Begins
    BY <2>1, BeginsOK
  <2>2. CASE Lists
    BY <2>2, ListFailsOK, ListCameOK DEF Lists
  <2>3. CASE \E c \in Call : Settles(c)
    BY <2>3, SettlesOK
  <2>4. CASE \E c \in Call : Fetches(c)
    BY <2>4, RetryOK, RefreshedOK, RefreshFailedOK DEF Fetches
  <2>5. CASE UNCHANGED vars
    BY <2>5 DEF vars, UsersInv, TypeOK, CallsOK, HeldIsListed, LostIsNoticed
  <2>6. QED  BY <2>1, <2>2, <2>3, <2>4, <2>5 DEF Next
<1>3. QED  BY <1>1, <1>2, PTL DEF Spec

\* The manager's fields and the running calls keep their types.
THEOREM UsersTypeCorrect == Spec => []TypeOK
<1>1. UsersInv => TypeOK
  BY DEF UsersInv
<1>2. QED  BY UsersInvariant, <1>1, PTL

\* Whatever calls and answers interleave, a cache that has lost its user's
\* data is never left without a list on its way, rejected, or missed.
THEOREM LostUsersAreNoticed == Spec => []LostIsNoticed
<1>1. UsersInv => LostIsNoticed
  BY DEF UsersInv
<1>2. QED  BY UsersInvariant, <1>1, PTL

\* The page becomes that of a user only if it holds the user for logged in, or
\* the user was dropped while the answer was on its way; it becomes nobody's
\* only if nobody it holds is logged in.
THEOREM CurrentIsLoggedIn == Spec => OnlyLoggedInBecomeCurrent
<1> DEFINE Good ==
      \/ current' \in Index /\ caches'[current'] = "in"
      \/ \E c \in Call : At(c, "take") /\ calls[c].cache = "dropped"
      \/ current' = Nobody /\ \A i \in Index : caches'[i] # "in"
<1>1. ASSUME UsersInv, [Next]_vars, current' # current
      PROVE  Good
  <2>1. CASE Lists
    <3>1. PICK users \in BoundedSeq(Status, MaxUsers) : ListCame(users)
      BY <1>1, <2>1 DEF Lists, ListFails
    <3>2. QED  BY <1>1, <3>1, ListCameOK
  <2>2. CASE \E c \in Call : Take(c)
    <3>1. PICK c \in Call : Take(c)
      BY <2>2
    <3>2. /\ At(c, "take") /\ calls[c].user = "in" /\ caches' = caches
          /\ current' = calls[c].index
      BY <1>1, <3>1 DEF Take, Takes
    <3>3. /\ calls[c].index \in Index
          /\ calls[c].cache \in {"listed", "dropped"}
          /\ calls[c].cache = "listed" => caches[calls[c].index] = "in"
      BY <1>1, <3>2, RunsOK DEF CallRecord
    <3>4. QED  BY <3>2, <3>3
  <2>3. CASE ~Lists /\ ~\E c \in Call : Take(c)
    BY <1>1, <2>3
       DEF Next, vars, Begins, Begin, Settles, Ready, Find, GetCurrent, Refresh,
           Get, Check, Switch, CheckCurrent, Fetches, Retry, Refreshed,
           RefreshFailed
  <2>4. QED  BY <2>1, <2>2, <2>3
<1>2. UsersInv /\ [Next]_vars => [current' # current => Good]_vars
  BY <1>1
<1>3. QED
  BY UsersInvariant, <1>2, PTL DEF Spec, OnlyLoggedInBecomeCurrent
=============================================================================
