----------------------------- MODULE UserManager -----------------------------
(***************************************************************************)
(* The users of a browser page: managers/UserManager.ts on top of          *)
(* caches/BaseCache.ts, caches/UserCache.ts and services/UserServices.ts.  *)
(*                                                                         *)
(* The page keeps one cache per user of the session, by index, and the     *)
(* index of the user it works for.  Any number of asynchronous calls run   *)
(* at a time; between two awaits a call runs alone, and every promise that *)
(* is settled is followed before the next answer or timer (SettledFirst).  *)
(*                                                                         *)
(* A call is what it still has to do.  A cache object that is no longer in *)
(* _caches matters only to the calls that still refresh it, each of which  *)
(* goes on with what its own refresh got; so a call remembers if its cache *)
(* is the listed one, and only listed caches have a state.                 *)
(*                                                                         *)
(* Other pages and other calls of the API may change the session in any    *)
(* way between two answers of the server, and answers may overtake each    *)
(* other: an answer says anything here.                                    *)
(***************************************************************************)
EXTENDS Integers, Sequences, SequencesExt

CONSTANTS
  Call,       \* calls of the manager's methods that may run at a time
  MaxUsers,   \* users of a session
  MaxRetries, \* maxRetries of BaseCache.refresh, 15 in the code
  Null

ASSUME UserManagerAssumption == MaxUsers \in Nat \ {0} /\ MaxRetries \in Nat

Index == 0 .. MaxUsers - 1
Nobody == -1

\* isLoggedIn of a user as the server lists it
Status == {"in", "out"}
\* _caches[index]: none, one without data, or one with a user's data
CacheState == {"none", "lost"} \cup Status

VARIABLES
  caches,      \* _caches
  initPromise, \* _initPromise: "undefined", "pending" or "rejected"
  current,     \* _currentUserIndex, which the browser's storage keeps
  calls,       \* the running calls
  missed       \* history: the last request for all users had no success

vars == <<caches, initPromise, current, calls, missed>>

Todo == {"ready", "refresh", "get", "check", "find", "getCurrent", "switch",
         "take", "checkCurrent"}

\* index: the user it is about; waits: for _initPromise; cache: the object it
\* refreshes is listed, was listed, or is a new one; fetches: it waits for an
\* answer or a timer; retries: those left; user: the data it got.
CallRecord ==
  [todo : Seq(Todo), index : Index, waits : BOOLEAN,
   cache : {"listed", "dropped", "new"},
   fetches : BOOLEAN, retries : 0 .. MaxRetries, user : {"lost"} \cup Status]

TypeOK ==
  /\ caches \in [Index -> CacheState]
  /\ initPromise \in {"undefined", "pending", "rejected"}
  /\ current \in Index \cup {Nobody}
  /\ \A c \in Call : calls[c] = Null \/ calls[c] \in CallRecord
  /\ missed \in BOOLEAN

\* The constructor, in a browser that has stored some index or none
Init ==
  /\ caches = [i \in Index |-> "none"]
  /\ initPromise = "pending"
  /\ current \in Index \cup {Nobody}
  /\ calls = [c \in Call |-> Null]
  /\ missed = FALSE

-----------------------------------------------------------------------------
(* Calls                                                                   *)

\* Not held up by a promise, an answer or a timer
Runs(c) == calls[c] # Null /\ ~calls[c].waits /\ ~calls[c].fetches
SettledFirst == \A c \in Call : ~Runs(c)
At(c, what) == Runs(c) /\ Head(calls[c].todo) = what

\* The call goes on as this record, or is over.
As(call) == IF call.todo = <<>> THEN Null ELSE call
GoesOn(c, call) == calls' = [calls EXCEPT ![c] = As(call)]
Does(call, todo) == [call EXCEPT !.todo = todo]
Done(call) == Does(call, Tail(call.todo))
\* ... and it needs the user it got no more
Used(call) == [Done(call) EXCEPT !.user = "lost", !.cache = "dropped"]

Begin(c, i, todo) ==
  /\ calls[c] = Null /\ SettledFirst
  /\ calls' = [calls EXCEPT
       ![c] = [todo |-> todo, index |-> i, waits |-> FALSE,
               cache |-> "dropped", fetches |-> FALSE, retries |-> 0,
               user |-> "lost"]]
  /\ UNCHANGED <<caches, initPromise, current, missed>>

\* getUsers is one of these for every cache.
GetUserByIndex == <<"ready", "find">>
GetCurrentUser == <<"ready", "getCurrent">>
\* updateNickname, updatePassword and updateAllowPassword end with it.
RefreshUser == <<"ready", "refresh", "get", "check">>
SwitchCurrentUserByIndex == RefreshUser \o <<"switch">>

Begins == \E c \in Call :
  \/ Begin(c, 0, GetCurrentUser)
  \/ \E i \in Index :
       \E todo \in {GetUserByIndex, RefreshUser, SwitchCurrentUserByIndex} :
         Begin(c, i, todo)

-----------------------------------------------------------------------------
(* initialize, fecthLoggedInUsers and ready                                *)

Initialize ==
  initPromise' = IF initPromise = "undefined" THEN "pending" ELSE initPromise

\* await this._initPromise: a rejected one throws, here and in whoever awaits
\* this call.
Ready(c) ==
  /\ At(c, "ready")
  /\ \/ initPromise = "undefined" /\ GoesOn(c, Done(calls[c]))
     \/ initPromise = "pending" /\ GoesOn(c, [calls[c] EXCEPT !.waits = TRUE])
     \/ initPromise = "rejected" /\ GoesOn(c, Does(calls[c], <<>>))
  /\ UNCHANGED <<caches, initPromise, current, missed>>

Waiting(c) == calls[c] # Null /\ calls[c].waits
Resumed(c) ==
  IF Waiting(c) THEN As([Done(calls[c]) EXCEPT !.waits = FALSE]) ELSE calls[c]
Thrown(c) == IF Waiting(c) THEN Null ELSE calls[c]

\* The caches of these indices are replaced or removed.
Off(call, indices) ==
  IF call # Null /\ call.cache = "listed" /\ call.index \in indices
  THEN [call EXCEPT !.cache = "dropped"] ELSE call

\* The network or the server fails: nothing changes.
ListFails ==
  /\ SettledFirst
  /\ initPromise = "pending"
  /\ initPromise' = "undefined"
  /\ calls' = [c \in Call |-> Resumed(c)]
  /\ missed' = TRUE
  /\ UNCHANGED <<caches, current>>

\* The splice takes the caches beyond the list; the loop updates or adds one
\* for each user, up to one without data, whose cachedData.valueObject throws.
Updated(users, lost) ==
  [i \in Index |->
     IF i >= Len(users) THEN "none"
     ELSE IF \E k \in lost : k <= i THEN caches[i] ELSE users[i + 1]]

\* The current user if it is logged in, else the first one that is.
CurrentOf(loggedIn) ==
  IF current \in loggedIn THEN current
  ELSE IF loggedIn = {} THEN Nobody
  ELSE CHOOSE i \in loggedIn : \A k \in loggedIn : i <= k

ListCame(users) ==
  LET beyond == {i \in Index : i >= Len(users)}
      lost == {i \in Index \ beyond : caches[i] = "lost"} IN
  /\ SettledFirst
  /\ initPromise = "pending"
  /\ caches' = Updated(users, lost)
  /\ missed' = FALSE
  /\ IF lost = {}
     THEN /\ initPromise' = "undefined"
          /\ current' = CurrentOf({i \in Index \ beyond : users[i + 1] = "in"})
          /\ calls' = [c \in Call |-> Off(Resumed(c), beyond)]
     ELSE /\ initPromise' = "rejected"
          /\ calls' = [c \in Call |-> Off(Thrown(c), beyond)]
          /\ UNCHANGED current

-----------------------------------------------------------------------------
(* BaseCache.refresh and UserCache.fetchData                               *)

Sent(call, cache) ==
  [call EXCEPT !.cache = cache, !.fetches = TRUE, !.retries = MaxRetries]
Fetching(c) == SettledFirst /\ calls[c] # Null /\ calls[c].fetches

LeftMutant(retries) == retries - 2
Left(retries) == retries - 1

\* The network or the server fails; after a second the next try is sent.
Retry(c) ==
  /\ Fetching(c)
  /\ calls[c].retries > 0
  /\ calls' = [calls EXCEPT ![c].retries = Left(@)]
  /\ UNCHANGED <<caches, initPromise, current, missed>>

Got(call, cache, user) ==
  [call EXCEPT !.fetches = FALSE, !.retries = 0, !.cache = cache, !.user = user]

\* The data is there.  addUser lists its cache, in the place of one that came
\* in the meantime.
Refreshed(c) ==
  LET call == calls[c]
      cache == IF call.cache = "new" THEN "listed" ELSE call.cache IN
  /\ Fetching(c)
  /\ caches' = IF cache = "listed" THEN [caches EXCEPT ![call.index] = "in"]
               ELSE caches
  /\ calls' = [d \in Call |->
       IF d = c THEN As(Got(call, cache, "in"))
       ELSE IF call.cache = "new" THEN Off(calls[d], {call.index})
       ELSE calls[d]]
  /\ UNCHANGED <<initPromise, current, missed>>

\* HAS_NOT_LOGGED_IN, or no retry is left: onRefreshFailure sets the data to
\* undefined, which for a listed cache comes to onUserRefresh and removeCache.
RemoveCacheMutant == UNCHANGED initPromise
RemoveCache == Initialize

RefreshFailed(c) ==
  LET call == calls[c] IN
  /\ Fetching(c)
  /\ IF call.cache = "listed"
     THEN caches' = [caches EXCEPT ![call.index] = "lost"] /\ RemoveCache
     ELSE UNCHANGED <<caches, initPromise>>
  /\ GoesOn(c, Got(call, IF call.cache = "new" THEN "dropped" ELSE call.cache,
                   "lost"))
  /\ UNCHANGED <<current, missed>>

-----------------------------------------------------------------------------
(* What the calls do                                                       *)

\* getData of the listed cache: fresh data, or a refresh without or after it
GetData(c, i) ==
  LET call == [Done(calls[c]) EXCEPT !.index = i, !.cache = "listed"] IN
  \/ caches[i] \in Status /\ GoesOn(c, [call EXCEPT !.user = caches[i]])
  \/ calls' = [calls EXCEPT ![c] = Sent(call, "listed")]

IsListed(i) == i \in Index /\ caches[i] # "none"

\* getUserByIndex after ready: getData, or addUser
Find(c) ==
  LET i == calls[c].index IN
  /\ At(c, "find")
  /\ \/ IsListed(i) /\ GetData(c, i)
     \/ ~IsListed(i) /\ calls' = [calls EXCEPT ![c] = Sent(Done(@), "new")]
  /\ UNCHANGED <<caches, initPromise, current, missed>>

\* getCurrentUser after ready
GetCurrent(c) ==
  /\ At(c, "getCurrent")
  /\ \/ IsListed(current) /\ GetData(c, current)
     \/ ~IsListed(current) /\ GoesOn(c, Used(calls[c]))
  /\ UNCHANGED <<caches, initPromise, current, missed>>

\* refreshUser after ready: refresh and then getData, which refreshes again
\* if there is no data; or getUserByIndex
Refresh(c) ==
  LET call == calls[c] IN
  /\ At(c, "refresh")
  /\ calls' = [calls EXCEPT
       ![c] = IF IsListed(call.index) THEN Sent(Done(call), "listed")
              ELSE Does(call, GetUserByIndex \o Tail(Tail(call.todo)))]
  /\ UNCHANGED <<caches, initPromise, current, missed>>

GetMutant(c) ==
  LET call == calls[c] IN
  /\ At(c, "get")
  /\ calls' = [calls EXCEPT
       ![c] = IF call.user # "lost" THEN Done(call) ELSE Sent(call, call.cache)]
  /\ UNCHANGED <<caches, initPromise, current, missed>>
Get(c) ==
  LET call == Done(calls[c]) IN
  /\ At(c, "get")
  /\ calls' = [calls EXCEPT
       ![c] = IF call.user # "lost" THEN call ELSE Sent(call, call.cache)]
  /\ UNCHANGED <<caches, initPromise, current, missed>>

\* A current user that is not logged in: await this.initialize().
Check(c) ==
  LET call == calls[c] IN
  /\ At(c, "check")
  /\ IF call.index = current /\ call.user # "in"
     THEN Initialize /\ GoesOn(c, Does(Used(call), <<"ready">> \o Tail(call.todo)))
     ELSE GoesOn(c, Used(call)) /\ UNCHANGED initPromise
  /\ UNCHANGED <<caches, current, missed>>

\* switcCurrenthUserByIndex after refreshUser
Switch(c) ==
  LET call == calls[c] IN
  /\ At(c, "switch")
  /\ GoesOn(c, Does(call, IF call.index = current THEN <<>>
                          ELSE GetUserByIndex \o <<"take">>))
  /\ UNCHANGED <<caches, initPromise, current, missed>>

TakesMutant(user) == user # "lost"
Takes(user) == user = "in"

Take(c) ==
  LET call == calls[c] IN
  /\ At(c, "take")
  /\ IF Takes(call.user)
     THEN current' = call.index /\ GoesOn(c, Used(call))
     ELSE /\ GoesOn(c, Does(Used(call), GetCurrentUser \o <<"checkCurrent">>))
          /\ UNCHANGED current
  /\ UNCHANGED <<caches, initPromise, missed>>

CheckCurrent(c) ==
  LET call == calls[c] IN
  /\ At(c, "checkCurrent")
  /\ IF call.user # "in"
     THEN Initialize /\ GoesOn(c, Does(Used(call), <<"ready">>))
     ELSE GoesOn(c, Used(call)) /\ UNCHANGED initPromise
  /\ UNCHANGED <<caches, current, missed>>

-----------------------------------------------------------------------------

Settles(c) ==
  \/ Ready(c) \/ Find(c) \/ GetCurrent(c) \/ Refresh(c) \/ Get(c)
  \/ Check(c) \/ Switch(c) \/ Take(c) \/ CheckCurrent(c)
Fetches(c) == Retry(c) \/ Refreshed(c) \/ RefreshFailed(c)
Lists ==
  ListFails \/ \E users \in BoundedSeq(Status, MaxUsers) : ListCame(users)

Next ==
  \/ Begins \/ Lists
  \/ \E c \in Call : Settles(c) \/ Fetches(c)

Spec == Init /\ [][Next]_vars

\* Settled promises are followed, and a request ends with an answer or an error,
\* which is handled some time after it has come, whatever else is under way.
Awaited(c) == Settles(c) \/ Fetches(c) \/ (Waiting(c) /\ Lists)
Fairness == \A c \in Call : SF_vars(Awaited(c))

FairSpec == Spec /\ Fairness

-----------------------------------------------------------------------------
(* Properties                                                              *)

\* A user whose data a cache has lost does not stay so unnoticed: the list of
\* all users is being fetched, or was rejected, or could not be fetched.
LostIsNoticed ==
  (\E i \in Index : caches[i] = "lost") =>
    initPromise # "undefined" \/ missed

\* The page changes only to a user it holds for logged in at that moment, or
\* to nobody if it holds no one for logged in; or to a user that a list has
\* dropped while the last answer about it was on its way.
OnlyLoggedInBecomeCurrent ==
  [][current' # current =>
       \/ current' \in Index /\ caches'[current'] = "in"
       \/ \E c \in Call : At(c, "take") /\ calls[c].cache = "dropped"
       \/ current' = Nobody /\ \A i \in Index : caches'[i] # "in"]_vars

\* Every call ends, with a result or with the error of a rejected list: none
\* waits for ever for a list that only it would have fetched, and none refreshes
\* again and again, whatever the other calls do to the caches in the meantime.
CallsEnd == \A c \in Call : []<>(calls[c] = Null)

\* A list that could not be taken over is fetched anew.
RejectionPasses == initPromise = "rejected" ~> initPromise # "rejected"
=============================================================================
