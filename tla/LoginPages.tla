----------------------------- MODULE LoginPages -----------------------------
(***************************************************************************)
(* A tab that goes from page to page of logging in: LoginPage with its     *)
(* flows, RegisterPage with its flows, and ExternalLoginPage, which hands  *)
(* a token to the game that opened it; and the session at the server, as   *)
(* other tabs of the browser change it too.                                *)
(*                                                                         *)
(* A call is an asynchronous method of a page, between two of its awaits.  *)
(* The server works on a copy of the session, loaded when a request begins,*)
(* and stores the whole copy with the answer: of two requests that overlap,*)
(* of this tab or of others, the later one undoes what the earlier one     *)
(* stored.  A request in whose time nobody else stores is one step; the    *)
(* others load their copy first (Sessions has what happens in between).    *)
(* The request or its answer may be lost; the request of a call that is    *)
(* over is one of the other tabs'.                                         *)
(*                                                                         *)
(* A challenge is the call it was made for, and is forgotten with it:      *)
(* nobody else has an authenticator's answer to it.  Indices are those of  *)
(* the code plus one, so that 0 is nobody.  The current user is anybody    *)
(* (UserManager has it).  Texts of the pages are left out, _userIndex of   *)
(* RegisterPage with them.                                                 *)
(***************************************************************************)
EXTENDS FiniteSets, Integers, Sequences, SequencesExt

CONSTANTS
  Call,      \* asynchronous methods of a page that may run at a time
  Account,   \* names as users write them
  User,      \* rows of accounts
  UserOf,    \* the row MariaDB finds for a name: it ignores case, ...
  MaxUsers,  \* bound: accounts a session lists
  MaxCopies, \* bound: copies of the session that requests work on
  Null

VARIABLES
  tab,     \* the page the tab shows
  calls,
  session, \* accounts and authenticateOptions of the session, in Redis
  loaded,  \* the copy of the session that a call's request has loaded
  others   \* those that requests of other tabs have loaded

server == <<session, loaded, others>>
vars == <<tab, calls, session, loaded, others>>

Page == {"none", "login", "register", "external"}
Flow == {"account", "password", "passkey", "success", "input_info", "none"}
Does == {"options", "authenticate", "verify", "login", "switch", "register",
         "regOptions", "create", "regVerify", "token", "update"}
\* "failed" stands for every answer the page only reports.
Answer == {"none", "failed", "hasLoggedIn", "hasNotLoggedIn", "usePassword",
           "forbidden", "success"}
OrNull(S) == S \cup {Null}
Index == 0 .. MaxUsers

\* name: whom the page means; index: whom it asks for or was told; of: the
\* account the server made options or a token for.
CallRecord ==
  [does: Does, name: OrNull(Account), index: Index, of: OrNull(Account),
   answer: Answer]
Token == [name: OrNull(Account), of: OrNull(Account)]

ASSUME LoginPagesAssumption ==
  /\ MaxUsers \in Nat /\ MaxCopies \in Nat
  /\ UserOf \in [Account -> User]
  /\ Null \notin Call \cup CallRecord

Entry == [account: Account, isLoggedIn: BOOLEAN, challenge: OrNull(Call)]
IsSession(s) ==
  /\ s = [accounts |-> s.accounts, options |-> s.options]
  /\ s.accounts \in Seq(Entry) /\ Len(s.accounts) <= MaxUsers
  /\ s.options \in OrNull([challenge: Call, account: Account])

TabRecord ==
  [page: Page, flow: Flow, account: OrNull(Account),
   listed: OrNull(Seq(Account)), buttons: Seq(Account), send: BOOLEAN,
   handed: Seq(Token), allowGuest: BOOLEAN, selectCurrent: BOOLEAN]

TypeOK ==
  /\ tab \in TabRecord
  /\ calls \in [Call -> OrNull(CallRecord)]
  /\ IsSession(session)
  /\ \A c \in Call : loaded[c] = Null \/ IsSession(loaded[c])
  /\ \A s \in others : IsSession(s)

-----------------------------------------------------------------------------
(* Pages and calls                                                         *)

FirstFlow(page) ==
  CASE page = "login" -> "account" [] page = "register" -> "input_info"
    [] OTHER -> "none"

Given(page) == IF page = "external" THEN BOOLEAN ELSE {FALSE}

\* A page that was just opened, with or without the parameters allow_guest
\* and select_current; "none" while no page is loaded
Opened(page) ==
  [page: {page}, flow: {FirstFlow(page)}, account: {Null},
   listed: {Null}, buttons: {<<>>}, send: {FALSE}, handed: {<<>>},
   allowGuest: Given(page), selectCurrent: Given(page)]

New(does, name, index) ==
  [does |-> does, name |-> name, index |-> index, of |-> Null,
   answer |-> "none"]

\* ExternalLoginPage.createDomRoot calls updateUserButton.
FirstCalls(page) ==
  IF page = "external"
  THEN {[d \in Call |-> IF d = c THEN New("update", Null, 0) ELSE Null] :
          c \in Call}
  ELSE {[d \in Call |-> Null]}

Init ==
  /\ tab \in Opened("none") /\ calls \in FirstCalls("none")
  /\ session = [accounts |-> <<>>, options |-> Null]
  /\ loaded = [c \in Call |-> Null]
  /\ others = {}

IsIn(s, i) == i \in DOMAIN s.accounts /\ s.accounts[i].isLoggedIn
Names(s) == [i \in DOMAIN s.accounts |-> s.accounts[i].account]

Begin(does, name, index) ==
  /\ \E c \in Call : /\ calls[c] = Null
                     /\ calls' = [calls EXCEPT ![c] = New(does, name, index)]
  /\ UNCHANGED server
GoesOn(c, call) == calls' = [calls EXCEPT ![c] = call] /\ UNCHANGED server

Forgotten(s, gone) ==
  [accounts |-> [i \in DOMAIN s.accounts |->
     IF s.accounts[i].challenge \in gone
     THEN [s.accounts[i] EXCEPT !.challenge = Null] ELSE s.accounts[i]],
   options |-> IF s.options # Null /\ s.options.challenge \in gone
               THEN Null ELSE s.options]

\* These calls are over, and their challenges.
Forget(gone) ==
  /\ session' = Forgotten(session, gone)
  /\ loaded' = [c \in Call |-> IF c \in gone \/ loaded[c] = Null THEN Null
                              ELSE Forgotten(loaded[c], gone)]
  /\ others' = {Forgotten(s, gone) : s \in others}
End(c) ==
  /\ calls' = [calls EXCEPT ![c] = Null]
  /\ Forget({c})

\* location.assign, at the end of SuccessFlow's countdown too, a link, a reload:
\* the calls of the page are gone, and some page is opened.
Leave ==
  /\ tab' \in Opened("none") /\ calls' \in FirstCalls("none")
  /\ Forget(Call)
Opens(page) ==
  /\ tab.page = "none"
  /\ tab' \in Opened(page) /\ calls' \in FirstCalls(page)
  /\ UNCHANGED server

Shows(page, flow) == tab.page = page /\ tab.flow = flow
ShowFlow(flow) == tab' = [tab EXCEPT !.flow = flow]

-----------------------------------------------------------------------------
(* The server                                                              *)

Storing == {"options", "verify", "login", "register", "regOptions", "regVerify"}
Pending(c, does) ==
  calls[c] # Null /\ calls[c].does = does /\ calls[c].answer = "none"

Copies == Cardinality({c \in Call : loaded[c] # Null}) + Cardinality(others)

\* express-session loads the session, ...
Loads(c) ==
  /\ \E does \in Storing : Pending(c, does)
  /\ loaded[c] = Null
  /\ loaded' = [loaded EXCEPT ![c] = session]
  /\ UNCHANGED <<tab, calls, session, others>>
  /\ Copies' <= MaxCopies
Mine(c) == IF loaded[c] = Null THEN session ELSE loaded[c]

\* ... and stores the whole of it before the answer, if the handler changed it.
Stores(c, call, s) ==
  /\ calls' = [calls EXCEPT ![c] = call]
  /\ loaded' = [loaded EXCEPT ![c] = Null]
  /\ session' = s
  /\ UNCHANGED <<tab, others>>
Answered(c, answer) == [calls[c] EXCEPT !.answer = answer]
Reply(c, answer) == Stores(c, Answered(c, answer), session)

\* findIndex, for any of these names
PlaceOf(s, names) ==
  IF \E i \in DOMAIN s.accounts : s.accounts[i].account \in names
  THEN CHOOSE i \in DOMAIN s.accounts :
         /\ s.accounts[i].account \in names
         /\ \A k \in 1 .. i - 1 : s.accounts[k].account \notin names
  ELSE Len(s.accounts) + 1

\* isLoggedIn of the user at this place is set, or the user is added.
Entered(accounts, i, name) ==
  IF i \in DOMAIN accounts THEN [accounts EXCEPT ![i].isLoggedIn = TRUE]
  ELSE Append(accounts,
              [account |-> name, isLoggedIn |-> TRUE, challenge |-> Null])

\* Success with the index of the user, who is looked for under these names
Enter(c, name, names, options) ==
  LET s == Mine(c)
      i == PlaceOf(s, names) IN
  /\ i <= MaxUsers
  /\ Stores(c, [Answered(c, "success") EXCEPT !.index = i],
            [accounts |-> Entered(s.accounts, i, name), options |-> options])

GenerateOptions(c) ==
  LET name == calls[c].name IN
  /\ Pending(c, "options")
  /\ IF IsIn(Mine(c), PlaceOf(Mine(c), {name})) THEN Reply(c, "hasLoggedIn")
     ELSE \/ Reply(c, "usePassword")
          \/ Stores(c, Answered(c, "success"),
                    [Mine(c) EXCEPT
                       !.options = [challenge |-> c, account |-> name]])

MatchesMutant(c, options) == options # Null
Matches(c, options) == options # Null /\ options.challenge = c

\* The options are used up, whatever comes of it.  The user is found by its row.
VerifyAuthentication(c) ==
  LET s == Mine(c)
      row == {a \in Account : UserOf[a] = UserOf[s.options.account]} IN
  /\ Pending(c, "verify")
  /\ \/ Stores(c, Answered(c, "failed"), [s EXCEPT !.options = Null])
     \/ /\ Matches(c, s.options)
        /\ IF IsIn(s, PlaceOf(s, row))
           THEN Stores(c, Answered(c, "hasLoggedIn"),
                       [s EXCEPT !.options = Null])
           ELSE Enter(c, s.options.account, row, Null)

LoginByPassword(c) ==
  LET s == Mine(c)
      name == calls[c].name IN
  /\ Pending(c, "login")
  /\ IF IsIn(s, PlaceOf(s, {name})) THEN Reply(c, "hasLoggedIn")
     ELSE Reply(c, "forbidden") \/ Enter(c, name, {name}, s.options)

\* The user is a new one, and is looked for under no name.
Register(c) ==
  LET s == Mine(c)
      name == calls[c].name IN
  /\ Pending(c, "register")
  /\ \A a \in ToSet(Names(s)) : UserOf[a] # UserOf[name]
  /\ Enter(c, name, {}, s.options)

\* The challenge stays with the user of the session.
GenerateRegistration(c) ==
  LET s == Mine(c)
      i == calls[c].index IN
  /\ Pending(c, "regOptions")
  /\ IF IsIn(s, i)
     THEN Stores(c,
                 [Answered(c, "success") EXCEPT !.of = s.accounts[i].account],
                 [s EXCEPT !.accounts[i].challenge = c])
     ELSE Reply(c, "hasNotLoggedIn")

ExpectsMutant(s, i, c) ==
  \E k \in DOMAIN s.accounts : s.accounts[k].challenge = c
Expects(s, i, c) == s.accounts[i].challenge = c

\* ... and is used up, too.
VerifyRegistration(c) ==
  LET s == Mine(c)
      i == calls[c].index
      used == [s EXCEPT !.accounts[i].challenge = Null] IN
  /\ Pending(c, "regVerify")
  /\ IF IsIn(s, i)
     THEN \/ Stores(c, Answered(c, "failed"), used)
          \/ Expects(s, i, c) /\ Stores(c, Answered(c, "success"), used)
     ELSE Reply(c, "hasNotLoggedIn")

\* The session is only read.
CreateToken(c) ==
  LET i == calls[c].index IN
  /\ Pending(c, "token")
  /\ calls' = [calls EXCEPT ![c] =
       IF IsIn(session, i)
       THEN [@ EXCEPT !.answer = "success", !.of = session.accounts[i].account]
       ELSE [@ EXCEPT !.answer = "hasNotLoggedIn"]]
  /\ UNCHANGED <<tab, server>>

Serve(c) ==
  \/ Loads(c)
  \/ GenerateOptions(c) \/ VerifyAuthentication(c) \/ LoginByPassword(c)
  \/ Register(c) \/ GenerateRegistration(c) \/ VerifyRegistration(c)
  \/ CreateToken(c)

Requests == Storing \cup {"token"}
\* safeFetch: the request or its answer is lost, or an error comes.  The page
\* reports it, and asks for no token any more.
Fail(c) ==
  /\ calls[c] # Null /\ calls[c].does \in Requests
  /\ tab' = IF calls[c].does = "token" THEN [tab EXCEPT !.send = FALSE] ELSE tab
  /\ End(c)

\* What a request of another tab, or one whose call is over, may store: users
\* log in and out, are removed and added; options and challenges are used up or
\* are other ones.
Changed(s) ==
  LET at == DOMAIN s.accounts IN
  {[s EXCEPT !.accounts[i].isLoggedIn = is] : i \in at, is \in BOOLEAN}
  \cup {[s EXCEPT !.accounts = RemoveAt(@, i)] : i \in at}
  \cup {[s EXCEPT !.accounts = Entered(@, 0, name)] :
          name \in IF Len(s.accounts) < MaxUsers
                   THEN Account \ ToSet(Names(s)) ELSE {}}
  \cup {[s EXCEPT !.accounts[i].challenge = Null] : i \in at}
  \cup {[s EXCEPT !.options = Null]}

OtherLoads ==
  /\ others' = others \cup {session}
  /\ UNCHANGED <<tab, calls, session, loaded>>
  /\ Copies' <= MaxCopies
OtherStores ==
  /\ \E s \in others \cup {session} :
       /\ others' = others \ {s}
       /\ session' \in Changed(s)
  /\ UNCHANGED <<tab, calls, loaded>>

\* GET / lists the users that are logged out, too.
Listed == Names(session)

\* userManager gets the list of the session's users.
ManagerLists ==
  /\ tab.page = "external"
  /\ tab' = [tab EXCEPT !.listed = Listed]
  /\ UNCHANGED <<calls, server>>

-----------------------------------------------------------------------------
(* LoginPage                                                               *)

Got(c, does, answer) ==
  calls[c] # Null /\ calls[c].does = does /\ calls[c].answer = answer

\* The form of AccountFlow, and NEXT_STEP
AccountFormSubmit ==
  /\ Shows("login", "account")
  /\ \E name \in Account :
       /\ tab' = [tab EXCEPT !.account = name]
       /\ Begin("options", name, 0)

\* The retry button, the button for passwords and those of PasswordFlow
Retry ==
  /\ Shows("login", "passkey") /\ Begin("options", tab.account, 0)
  /\ UNCHANGED tab
UsePassword ==
  /\ Shows("login", "passkey") /\ ShowFlow("password")
  /\ UNCHANGED <<calls, server>>
PasswordFormSubmit ==
  /\ Shows("login", "password") /\ Begin("login", tab.account, 0)
  /\ UNCHANGED tab
CancelPassword ==
  /\ Shows("login", "password") /\ ShowFlow("account")
  /\ UNCHANGED <<calls, server>>

\* loginSuccess: the page counts down while the user manager switches.
LoginSuccess(c) ==
  /\ ShowFlow("success")
  /\ GoesOn(c, New("switch", Null, 0))

\* Answers that only change the flow
TurnsTo(c) ==
  CASE Got(c, "options", "usePassword") -> "password"
    [] OTHER -> "account"
TurnBack(c) ==
  /\ \E does \in {"options", "verify", "login"} :
       \E answer \in {"hasLoggedIn", "usePassword", "forbidden"} :
         Got(c, does, answer)
  /\ ShowFlow(TurnsTo(c)) /\ End(c)

\* PasskeyFlow.login goes on after the options came, ...
TryPasskey(c) ==
  /\ Got(c, "options", "success")
  /\ ShowFlow("passkey")
  /\ GoesOn(c, New("authenticate", calls[c].name, 0))
\* ... and after startAuthentication, or startRegistration on the other page.
AuthenticatorAnswers(c) ==
  /\ \/ /\ Got(c, "authenticate", "none")
        /\ GoesOn(c, New("verify", calls[c].name, 0))
     \/ /\ Got(c, "create", "none")
        /\ GoesOn(c, [calls[c] EXCEPT !.does = "regVerify"])
  /\ UNCHANGED tab
AuthenticatorThrows(c) ==
  /\ Got(c, "authenticate", "none") \/ Got(c, "create", "none")
  /\ End(c)
  /\ UNCHANGED tab
LoggedIn(c) ==
  /\ Got(c, "verify", "success") \/ Got(c, "login", "success")
  /\ LoginSuccess(c)

\* switcCurrenthUserByIndex, which takes the user or does not
Switched(c) ==
  /\ Got(c, "switch", "none")
  /\ End(c)
  /\ UNCHANGED tab

\* An alert
Reports(c) ==
  /\ \/ \E does \in {"verify", "regVerify"} : Got(c, does, "failed")
     \/ \E does \in {"regOptions", "regVerify"} : Got(c, does, "hasNotLoggedIn")
  /\ End(c)
  /\ UNCHANGED tab

-----------------------------------------------------------------------------
(* RegisterPage                                                            *)

InfoFormSubmit ==
  /\ Shows("register", "input_info")
  /\ \E name \in Account : Begin("register", name, 0)
  /\ UNCHANGED tab

\* onUserRegisterSuccess does not wait for the switch.
UserRegistered(c) ==
  /\ Got(c, "register", "success")
  /\ ShowFlow("passkey")
  /\ GoesOn(c, New("switch", Null, 0))

SkipPasskey ==
  /\ Shows("register", "passkey") /\ ShowFlow("success")
  /\ UNCHANGED <<calls, server>>

\* userManager.currentUserIndex, whoever it is, is read before the first await.
RegisterPasskey ==
  /\ Shows("register", "passkey")
  /\ \E i \in Index : Begin("regOptions", Null, i)
  /\ UNCHANGED tab
StartRegistration(c) ==
  /\ Got(c, "regOptions", "success")
  /\ GoesOn(c, [calls[c] EXCEPT !.does = "create", !.answer = "none"])
  /\ UNCHANGED tab
PasskeyRegistered(c) ==
  /\ Got(c, "regVerify", "success")
  /\ ShowFlow("success") /\ End(c)

-----------------------------------------------------------------------------
(* ExternalLoginPage                                                       *)

CanBeSent == ~tab.send

\* onLoginButtonClick
OtherLogin == tab.page = "external" /\ Leave

\* updateUserButton, when the manager has users.  Its caches may hold no data
\* of one of them, at which it throws.  select_current asks for a token.
UpdateUserButton(c) ==
  /\ Got(c, "update", "none")
  /\ tab.listed # Null
  /\ IF tab.listed = <<>> /\ ~tab.allowGuest THEN Leave
     ELSE \E k \in 0 .. Len(tab.listed) :
            LET shown == [tab EXCEPT !.buttons = SubSeq(tab.listed, 1, k)] IN
            \/ tab' = shown /\ End(c)
            \/ /\ tab.selectCurrent /\ CanBeSent
               /\ tab' = [shown EXCEPT !.send = TRUE]
               /\ \E i \in DOMAIN tab.listed :
                    GoesOn(c, New("token", tab.listed[i], i))

AccountButtonClick ==
  /\ tab.page = "external" /\ CanBeSent
  /\ \E i \in DOMAIN tab.buttons : Begin("token", tab.buttons[i], i)
  /\ tab' = [tab EXCEPT !.send = TRUE]

HandedMutant(token) == [tab EXCEPT !.handed = Append(@, token)]
\* sendToken: whoever asks gets the token from now on.
Handed(token) == [tab EXCEPT !.handed = Append(@, token), !.send = TRUE]

GuestButtonClick ==
  /\ tab.page = "external" /\ tab.allowGuest /\ CanBeSent
  /\ tab' = Handed([name |-> Null, of |-> Null])
  /\ UNCHANGED <<calls, server>>

\* The rest of onAccountButtonClick, after enableSendToken
TokenCame(c) ==
  /\ \/ /\ Got(c, "token", "success")
        /\ tab' = Handed([name |-> calls[c].name, of |-> calls[c].of])
        /\ End(c)
     \/ /\ Got(c, "token", "hasNotLoggedIn")
        /\ tab' = [tab EXCEPT !.send = FALSE]
        /\ GoesOn(c, New("update", Null, 0))

-----------------------------------------------------------------------------

Receive(c) ==
  \/ TurnBack(c) \/ TryPasskey(c) \/ LoggedIn(c) \/ Switched(c) \/ Reports(c)
  \/ UserRegistered(c) \/ StartRegistration(c) \/ PasskeyRegistered(c)
  \/ UpdateUserButton(c) \/ TokenCame(c)
Authenticator(c) == AuthenticatorAnswers(c) \/ AuthenticatorThrows(c)
Clicks ==
  \/ AccountFormSubmit \/ Retry \/ UsePassword \/ PasswordFormSubmit
  \/ CancelPassword \/ InfoFormSubmit \/ SkipPasskey \/ RegisterPasskey
  \/ OtherLogin \/ AccountButtonClick \/ GuestButtonClick

Next ==
  \/ \E c \in Call : Serve(c) \/ Fail(c) \/ Receive(c) \/ Authenticator(c)
  \/ Clicks \/ OtherLoads \/ OtherStores \/ ManagerLists
  \/ Leave \/ \E page \in Page \ {"none"} : Opens(page)

Spec == Init /\ [][Next]_vars

-----------------------------------------------------------------------------
(* Properties                                                              *)

\* A login is that of the user it was meant for: whoever asked for options in
\* the meantime, in the session's one place for them, whatever copies of the
\* session were stored back, and whichever name the session knows the user by,
\* the index of the answer is, in the session stored with it, that of the user
\* whose authenticator or password the call has sent.
LoginGoesToItsUser ==
  [][\A c \in Call : \A does \in {"verify", "login", "register"} :
       Pending(c, does) /\ calls'[c] # Null /\ calls'[c].answer = "success" =>
         UserOf[session'.accounts[calls'[c].index].account]
           = UserOf[calls[c].name]]_vars

\* A passkey is stored for the user whose account the authenticator was told,
\* though the index may have become somebody else's between the two requests,
\* or in the session while the second one worked on its copy.
PasskeyGoesToItsUser ==
  [][\A c \in Call :
       Pending(c, "regVerify") /\ calls'[c] # Null
         /\ calls'[c].answer = "success" =>
           Mine(c).accounts[calls[c].index].account = calls[c].of]_vars

\* The buttons are blocked exactly while one token is asked for or when one was
\* handed over, the user's or a guest's: the game gets one at most, and buttons
\* that a request has blocked come back whatever its answer is.
OneToken ==
  LET asked == {c \in Call : calls[c] # Null /\ calls[c].does = "token"} IN
  Len(tab.handed) + Cardinality(asked) = IF tab.send THEN 1 ELSE 0

\* A login that was answered with success is in the session at that index when
\* the page receives the answer (LoginPage.loginSuccess switches to it).
LoginsAreKept ==
  \A c \in Call : \A does \in {"verify", "login", "register"} :
    Got(c, does, "success") =>
      /\ calls[c].index \in DOMAIN session.accounts
      /\ UserOf[session.accounts[calls[c].index].account] = UserOf[calls[c].name]

\* The token that is handed over is of the account the button named.
ButtonsKeepTheirAccounts ==
  \A token \in ToSet(tab.handed) : token.name = token.of
=============================================================================
