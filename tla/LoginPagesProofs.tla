-------------------------- MODULE LoginPagesProofs --------------------------
(* Proofs about LoginPages, for every number of calls, accounts and copies *)
(* of the session.                                                         *)
EXTENDS LoginPages, SequenceTheorems, FiniteSetTheorems, WellFoundedInduction,
        TLAPS

(***************************************************************************)
(* Two things carry the properties.  A challenge is forgotten with the     *)
(* call it was made for, in the session and in every copy of it: wherever  *)
(* one is left, it is next to the account its call is about, however often *)
(* an old copy was stored over a newer session.  And the flag that blocks  *)
(* the buttons is set from the click to the token.                         *)
(***************************************************************************)

\* A token is asked for or was handed over, never both.
Asks(call) == call # Null /\ call.does = "token"
Asked == {c \in Call : Asks(calls[c])}
TokensOK ==
  IF tab.send
  THEN \/ tab.handed = <<>> /\ \E c \in Call : Asked = {c}
       \/ Len(tab.handed) = 1 /\ Asked = {}
  ELSE tab.handed = <<>> /\ Asked = {}

\* The options of a login were made for a call about that account, ...
OptionsOf(call, account) ==
  /\ call # Null
  /\ call.does \in {"options", "authenticate", "verify", "switch"}
  /\ call.does # "switch" => call.name = account
\* ... and a challenge for a passkey too.
ChallengeOf(call, account) ==
  /\ call # Null /\ call.of = account
  /\ call.does \in {"regOptions", "create", "regVerify"}
  /\ call.does = "regOptions" => call.answer = "success"

CopyOK(k, s) ==
  /\ IsSession(s)
  /\ s.options # Null => OptionsOf(k[s.options.challenge], s.options.account)
  /\ \A i \in DOMAIN s.accounts :
       s.accounts[i].challenge # Null =>
         ChallengeOf(k[s.accounts[i].challenge], s.accounts[i].account)
CopiesOK ==
  /\ CopyOK(calls, session)
  /\ \A c \in Call : loaded[c] # Null => CopyOK(calls, loaded[c])
  /\ \A s \in others : CopyOK(calls, s)

\* The account a login is for is known on the pages for it.
Meant(t, call) ==
  call # Null =>
    /\ call.does \in {"options", "authenticate", "verify", "login"} =>
         t.page = "login" /\ t.account \in Account /\ call.name \in Account
    /\ call.does = "register" => t.page = "register" /\ call.name \in Account
TabOK(t) ==
  /\ t \in TabRecord
  /\ DOMAIN t.buttons \subseteq Index
  /\ t.listed # Null => DOMAIN t.listed \subseteq Index
  /\ t.page = "login" /\ t.flow \in {"passkey", "password"} =>
       t.account \in Account
PagesOK ==
  /\ tab.page = "none" => \A c \in Call : calls[c] = Null
  /\ \A c \in Call : Meant(tab, calls[c])

Types ==
  /\ TabOK(tab)
  /\ calls \in [Call -> OrNull(CallRecord)]
  /\ loaded = [c \in Call |-> loaded[c]]

PagesInv == Types /\ PagesOK /\ TokensOK /\ CopiesOK

-----------------------------------------------------------------------------
(* What steps do to copies of the session                                  *)

\* A call goes on about the same account.
Keeps(p, q) ==
  /\ \A a : OptionsOf(p, a) => OptionsOf(q, a)
  /\ \A a : ChallengeOf(p, a) => ChallengeOf(q, a)

LEMMA SessionIs ==
  ASSUME NEW s, IsSession(s)
  PROVE  /\ s = [accounts |-> s.accounts, options |-> s.options]
         /\ s.accounts \in Seq(Entry)
         /\ Len(s.accounts) \in Nat /\ Len(s.accounts) <= MaxUsers
         /\ DOMAIN s.accounts = 1 .. Len(s.accounts)
         /\ DOMAIN s.accounts \subseteq Index
         /\ \A i \in DOMAIN s.accounts : s.accounts[i] \in Entry
         /\ s.options \in OrNull([challenge: Call, account: Account])
         /\ s.options # Null => s.options.challenge \in Call
                                  /\ s.options.account \in Account
<1>1. /\ s = [accounts |-> s.accounts, options |-> s.options]
      /\ s.accounts \in Seq(Entry) /\ Len(s.accounts) <= MaxUsers
      /\ s.options \in OrNull([challenge: Call, account: Account])
  BY DEF IsSession
<1>2. /\ Len(s.accounts) \in Nat
      /\ DOMAIN s.accounts = 1 .. Len(s.accounts)
      /\ \A i \in DOMAIN s.accounts : s.accounts[i] \in Entry
  BY <1>1
<1>3. DOMAIN s.accounts \subseteq Index
  BY <1>1, <1>2, LoginPagesAssumption DEF Index
<1>4. s.options # Null => s.options.challenge \in Call
                            /\ s.options.account \in Account
  BY <1>1 DEF OrNull
<1>5. QED  BY <1>1, <1>2, <1>3, <1>4

\* A session that was put together from its parts
LEMMA IsASession ==
  ASSUME NEW accounts \in Seq(Entry), Len(accounts) <= MaxUsers,
         NEW options \in OrNull([challenge: Call, account: Account])
  PROVE  IsSession([accounts |-> accounts, options |-> options])
BY DEF IsSession

LEMMA CopyGoesOn ==
  ASSUME NEW k, NEW q, NEW s, CopyOK(k, s), \A d \in Call : Keeps(k[d], q[d])
  PROVE  CopyOK(q, s)
<1>1. IsSession(s)
  BY DEF CopyOK
<1>2. \A i \in DOMAIN s.accounts : s.accounts[i].challenge \in OrNull(Call)
  BY <1>1, SessionIs DEF Entry
<1>3. s.options # Null => OptionsOf(q[s.options.challenge], s.options.account)
  BY <1>1, SessionIs DEF CopyOK, Keeps
<1>4. ASSUME NEW i \in DOMAIN s.accounts, s.accounts[i].challenge # Null
      PROVE  ChallengeOf(q[s.accounts[i].challenge], s.accounts[i].account)
  <2>1. s.accounts[i].challenge \in Call
    BY <1>2, <1>4 DEF OrNull
  <2>2. QED  BY <1>4, <2>1 DEF CopyOK, Keeps
<1>5. QED  BY <1>1, <1>3, <1>4 DEF CopyOK

LEMMA CopyForgets ==
  ASSUME NEW k, NEW q, NEW s, NEW gone, CopyOK(k, s),
         \A d \in Call : d \in gone \/ Keeps(k[d], q[d])
  PROVE  CopyOK(q, Forgotten(s, gone))
<1> DEFINE kept(i) == IF s.accounts[i].challenge \in gone
                      THEN [s.accounts[i] EXCEPT !.challenge = Null]
                      ELSE s.accounts[i]
           accounts == [i \in DOMAIN s.accounts |-> kept(i)]
           options == IF s.options # Null /\ s.options.challenge \in gone
                      THEN Null ELSE s.options
<1>1. /\ IsSession(s)
      /\ s.accounts \in Seq(Entry) /\ Len(s.accounts) \in Nat
      /\ Len(s.accounts) <= MaxUsers
      /\ DOMAIN s.accounts = 1 .. Len(s.accounts)
      /\ \A i \in DOMAIN s.accounts : s.accounts[i] \in Entry
      /\ s.options \in OrNull([challenge: Call, account: Account])
      /\ s.options # Null => s.options.challenge \in Call
  <2>1. IsSession(s)
    BY DEF CopyOK
  <2>2. QED  BY <2>1, SessionIs
<1>2. Forgotten(s, gone) = [accounts |-> accounts, options |-> options]
  BY DEF Forgotten
<1>3. ASSUME NEW i \in DOMAIN s.accounts
      PROVE  /\ kept(i) \in Entry /\ kept(i).account = s.accounts[i].account
             /\ kept(i).challenge # Null =>
                  /\ kept(i).challenge = s.accounts[i].challenge
                  /\ kept(i).challenge \in Call \ gone
  BY <1>1, LoginPagesAssumption DEF Entry, OrNull
<1> HIDE DEF kept
<1>4. /\ accounts \in Seq(Entry) /\ Len(accounts) = Len(s.accounts)
      /\ DOMAIN accounts = DOMAIN s.accounts
      /\ \A i \in DOMAIN accounts : accounts[i] = kept(i)
  <2>1. accounts \in [1 .. Len(s.accounts) -> Entry]
    BY <1>1, <1>3
  <2>2. QED  BY <1>1, <2>1
<1>5. /\ options \in OrNull([challenge: Call, account: Account])
      /\ options # Null => options = s.options /\ options.challenge \in Call \ gone
  BY <1>1 DEF OrNull
<1> HIDE DEF accounts, options
<1>6. IsSession([accounts |-> accounts, options |-> options])
  BY <1>1, <1>4, <1>5, IsASession
<1>7. options # Null => OptionsOf(q[options.challenge], options.account)
  BY <1>5 DEF CopyOK, Keeps
<1>8. ASSUME NEW i \in DOMAIN accounts, accounts[i].challenge # Null
      PROVE  ChallengeOf(q[accounts[i].challenge], accounts[i].account)
  <2>1. /\ i \in DOMAIN s.accounts /\ accounts[i].account = s.accounts[i].account
        /\ accounts[i].challenge = s.accounts[i].challenge
        /\ accounts[i].challenge \in Call \ gone
    BY <1>3, <1>4, <1>8
  <2>2. ChallengeOf(k[accounts[i].challenge], accounts[i].account)
    BY <1>8, <2>1 DEF CopyOK
  <2>3. QED  BY <2>1, <2>2 DEF Keeps
<1>9. QED  BY <1>2, <1>6, <1>7, <1>8 DEF CopyOK

\* One entry changes, the account excepted.
LEMMA EntryChanges ==
  ASSUME NEW k, NEW s, CopyOK(k, s), NEW i \in DOMAIN s.accounts, NEW q,
         NEW u \in Entry, u.account = s.accounts[i].account,
         u.challenge # Null => ChallengeOf(q[u.challenge], u.account),
         \A d \in Call : Keeps(k[d], q[d])
  PROVE  CopyOK(q, [s EXCEPT !.accounts[i] = u])
<1> DEFINE accounts == [s.accounts EXCEPT ![i] = u]
<1>1. CopyOK(q, s)
  BY CopyGoesOn
<1>2. /\ s = [accounts |-> s.accounts, options |-> s.options]
      /\ s.accounts \in Seq(Entry) /\ Len(s.accounts) <= MaxUsers
      /\ s.options \in OrNull([challenge: Call, account: Account])
  BY <1>1, SessionIs DEF CopyOK
<1>3. [s EXCEPT !.accounts[i] = u] = [accounts |-> accounts, options |-> s.options]
  BY <1>2
<1>4. /\ accounts \in Seq(Entry) /\ Len(accounts) <= MaxUsers
      /\ DOMAIN accounts = DOMAIN s.accounts
      /\ accounts[i] = u
      /\ \A j \in DOMAIN accounts \ {i} : accounts[j] = s.accounts[j]
  BY <1>2
<1> HIDE DEF accounts
<1>5. IsSession([accounts |-> accounts, options |-> s.options])
  BY <1>2, <1>4, IsASession
<1>6. \A j \in DOMAIN accounts : accounts[j].challenge # Null =>
        ChallengeOf(q[accounts[j].challenge], accounts[j].account)
  BY <1>1, <1>4 DEF CopyOK
<1>7. QED  BY <1>1, <1>3, <1>5, <1>6 DEF CopyOK

LEMMA OptionsUsedUp ==
  ASSUME NEW k, NEW s, CopyOK(k, s)
  PROVE  CopyOK(k, [s EXCEPT !.options = Null])
<1>1. /\ s = [accounts |-> s.accounts, options |-> s.options]
      /\ s.accounts \in Seq(Entry) /\ Len(s.accounts) <= MaxUsers
  BY SessionIs DEF CopyOK
<1>2. [s EXCEPT !.options = Null] = [accounts |-> s.accounts, options |-> Null]
  BY <1>1
<1>3. IsSession([accounts |-> s.accounts, options |-> Null])
  BY <1>1, IsASession DEF OrNull
<1>4. QED  BY <1>2, <1>3 DEF CopyOK

LEMMA EnteredIs ==
  ASSUME NEW k, NEW s, CopyOK(k, s), NEW i, NEW name \in Account,
         i \in DOMAIN s.accounts \/ Len(s.accounts) < MaxUsers,
         NEW options \in {Null, s.options}
  PROVE  LET accounts == Entered(s.accounts, i, name) IN
         /\ CopyOK(k, [accounts |-> accounts, options |-> options])
         /\ i \in DOMAIN s.accounts => accounts[i].account = s.accounts[i].account
         /\ i \notin DOMAIN s.accounts =>
              accounts[Len(s.accounts) + 1].account = name
<1> DEFINE n == Len(s.accounts)
           new == [account |-> name, isLoggedIn |-> TRUE, challenge |-> Null]
           accounts == Entered(s.accounts, i, name)
<1>1. IsSession(s)
  BY DEF CopyOK
<1>2. /\ s.accounts \in Seq(Entry) /\ n \in Nat /\ n <= MaxUsers
      /\ DOMAIN s.accounts = 1 .. n
      /\ \A j \in DOMAIN s.accounts : s.accounts[j] \in Entry
      /\ s.options \in OrNull([challenge: Call, account: Account])
  BY <1>1, SessionIs
<1>3. /\ new \in Entry /\ new.account = name /\ new.challenge = Null
      /\ options \in OrNull([challenge: Call, account: Account])
  BY <1>2 DEF Entry, OrNull
<1> HIDE DEF new
<1>4. /\ accounts \in Seq(Entry) /\ Len(accounts) <= MaxUsers
      /\ \A j \in DOMAIN accounts :
           \/ accounts[j].challenge = Null
           \/ /\ j \in DOMAIN s.accounts
              /\ accounts[j].challenge = s.accounts[j].challenge
              /\ accounts[j].account = s.accounts[j].account
      /\ i \in DOMAIN s.accounts => accounts[i].account = s.accounts[i].account
      /\ i \notin DOMAIN s.accounts => accounts[n + 1].account = name
  <2>1. CASE i \in DOMAIN s.accounts
    <3> DEFINE u == [s.accounts[i] EXCEPT !.isLoggedIn = TRUE]
    <3>1. accounts = [s.accounts EXCEPT ![i] = u]
      BY <2>1 DEF Entered
    <3>2. /\ u \in Entry /\ u.account = s.accounts[i].account
          /\ u.challenge = s.accounts[i].challenge
      BY <1>2, <2>1 DEF Entry
    <3> HIDE DEF u, accounts
    <3>3. /\ accounts \in Seq(Entry) /\ Len(accounts) = n
          /\ DOMAIN accounts = DOMAIN s.accounts /\ accounts[i] = u
          /\ \A j \in DOMAIN accounts \ {i} : accounts[j] = s.accounts[j]
      BY <1>2, <2>1, <3>1, <3>2
    <3>4. QED  BY <1>2, <2>1, <3>2, <3>3
  <2>2. CASE i \notin DOMAIN s.accounts
    <3>1. accounts = Append(s.accounts, new)
      BY <2>2 DEF Entered, new
    <3> HIDE DEF accounts
    <3>2. /\ accounts \in Seq(Entry) /\ Len(accounts) = n + 1
          /\ accounts[n + 1] = new
          /\ \A j \in 1 .. n : accounts[j] = s.accounts[j]
      BY <1>2, <1>3, <3>1
    <3>3. DOMAIN accounts = 1 .. n + 1 /\ \A j \in 1 .. n + 1 : j \in 1 .. n \/ j = n + 1
      BY <1>2, <3>2
    <3>4. n + 1 <= MaxUsers
      BY <1>2, <2>2, LoginPagesAssumption
    <3>5. QED  BY <1>2, <1>3, <2>2, <3>2, <3>3, <3>4
  <2>3. QED  BY <2>1, <2>2
<1> HIDE DEF accounts
<1>5. IsSession([accounts |-> accounts, options |-> options])
  BY <1>3, <1>4, IsASession
<1>6. \A j \in DOMAIN accounts : accounts[j].challenge # Null =>
        ChallengeOf(k[accounts[j].challenge], accounts[j].account)
  BY <1>4 DEF CopyOK
<1>7. CopyOK(k, [accounts |-> accounts, options |-> options])
  BY <1>5, <1>6 DEF CopyOK
<1>8. QED  BY <1>4, <1>7 DEF accounts

LEMMA RemovedIs ==
  ASSUME NEW k, NEW s, CopyOK(k, s), NEW i \in DOMAIN s.accounts
  PROVE  CopyOK(k, [s EXCEPT !.accounts = RemoveAt(@, i)])
<1> DEFINE users == s.accounts
           n == Len(users)
           front == SubSeq(users, 1, i - 1)
           back == SubSeq(users, i + 1, n)
<1>1. IsSession(s)
  BY DEF CopyOK
<1>2. /\ s = [accounts |-> users, options |-> s.options]
      /\ users \in Seq(Entry) /\ n \in Nat /\ n <= MaxUsers
      /\ DOMAIN users = 1 .. n /\ i \in 1 .. n
      /\ s.options \in OrNull([challenge: Call, account: Account])
  BY <1>1, SessionIs
<1>3. RemoveAt(s.accounts, i) = front \o back
  BY DEF RemoveAt
<1>4. /\ front \in Seq(Entry) /\ Len(front) = i - 1
      /\ \A j \in 1 .. i - 1 : front[j] = users[j]
  BY <1>2
<1>5. /\ back \in Seq(Entry) /\ Len(back) = n - i
      /\ \A j \in 1 .. n - i : back[j] = users[j + i]
  BY <1>2
<1> HIDE DEF front, back
<1>6. front \o back \in Seq(Entry)
  BY <1>4, <1>5
<1>7. Len(front \o back) = n - 1
  <2>1. Len(front \o back) = Len(front) + Len(back)
    BY <1>4, <1>5, ConcatProperties
  <2>2. QED  BY <1>2, <1>4, <1>5, <2>1
<1>8. ASSUME NEW j \in DOMAIN (front \o back)
      PROVE  \E m \in DOMAIN users : (front \o back)[j] = users[m]
  <2>1. j \in 1 .. n - 1
    BY <1>6, <1>7, <1>8
  <2>2. CASE j < i
    <3>1. (front \o back)[j] = front[j]
      BY <1>2, <1>4, <1>5, <2>1, <2>2
    <3>2. QED  BY <1>2, <1>4, <2>1, <2>2, <3>1
  <2>3. CASE ~(j < i)
    <3>1. j - (i - 1) \in 1 .. n - i /\ (j - (i - 1)) + i \in 1 .. n
      BY <1>2, <2>1, <2>3
    <3>2. (front \o back)[j] = back[j - (i - 1)]
      BY <1>2, <1>4, <1>5, <2>1, <2>3
    <3>3. QED  BY <1>2, <1>5, <3>1, <3>2
  <2>4. QED  BY <2>2, <2>3
<1> DEFINE rest == front \o back
           left == RemoveAt(s.accounts, i)
<1>9. /\ rest \in Seq(Entry) /\ Len(rest) <= MaxUsers
      /\ \A j \in DOMAIN rest : \E m \in DOMAIN users : rest[j] = users[m]
  BY <1>2, <1>6, <1>7, <1>8, LoginPagesAssumption
<1>10. left = rest
  BY <1>3
<1> HIDE DEF rest, left
<1>11. [s EXCEPT !.accounts = left] = [accounts |-> rest, options |-> s.options]
  BY <1>2, <1>10
<1>12. IsSession([accounts |-> rest, options |-> s.options])
  BY <1>2, <1>9, IsASession
<1>13. QED  BY <1>9, <1>11, <1>12 DEF CopyOK, left

\* Of some places there is a first one.
LEMMA FirstExists ==
  ASSUME NEW n \in Nat, NEW S, S \subseteq 1 .. n, S # {}
  PROVE  \E i \in S : \A j \in 1 .. i - 1 : j \notin S
<1>1. S \subseteq Nat
  OBVIOUS
<1>2. PICK i \in S : \A j \in S : ~(<<j, i>> \in OpToRel(<, Nat))
  BY <1>1, NatLessThanWellFounded, WFMin
<1>3. ~\E j \in S : j < i
  BY <1>1, <1>2 DEF OpToRel
<1>4. \A j \in 1 .. i - 1 : j < i
  BY <1>1
<1>5. QED  BY <1>3, <1>4

\* The place of a user is one that has such a name, or that after the last.
LEMMA PlaceOfIs ==
  ASSUME NEW s, IsSession(s), NEW names
  PROVE  \/ /\ PlaceOf(s, names) \in DOMAIN s.accounts
            /\ s.accounts[PlaceOf(s, names)].account \in names
         \/ /\ PlaceOf(s, names) = Len(s.accounts) + 1
            /\ PlaceOf(s, names) \notin DOMAIN s.accounts
<1> DEFINE users == s.accounts
           S == {i \in DOMAIN users : users[i].account \in names}
<1>1. Len(users) \in Nat /\ DOMAIN users = 1 .. Len(users)
  BY SessionIs
<1>2. CASE S = {}
  <2>1. PlaceOf(s, names) = Len(users) + 1
    BY <1>2 DEF PlaceOf
  <2>2. QED  BY <1>1, <2>1
<1>3. CASE S # {}
  <2>1. PICK i \in S : \A j \in 1 .. i - 1 : j \notin S
    BY <1>1, <1>3, FirstExists
  <2>2. \A j \in 1 .. i - 1 : users[j].account \notin names
    BY <1>1, <2>1
  <2>3. QED  BY <2>1, <2>2 DEF PlaceOf
<1>4. QED  BY <1>2, <1>3

-----------------------------------------------------------------------------
(* What steps do to all copies                                             *)

Becomes(c, q) == calls' = [calls EXCEPT ![c] = q]

LEMMA CallChanges ==
  ASSUME PagesInv, NEW c \in Call, NEW q, Becomes(c, q)
  PROVE  calls'[c] = q /\ \A d \in Call \ {c} : calls'[d] = calls[d]
BY DEF PagesInv, Types, Becomes

LEMMA CallsKeep ==
  ASSUME PagesInv, NEW c \in Call, NEW q, Becomes(c, q)
  PROVE  /\ \A d \in Call : d \in {c} \/ Keeps(calls[d], calls'[d])
         /\ Keeps(calls[c], q) => \A d \in Call : Keeps(calls[d], calls'[d])
<1>1. calls'[c] = q /\ \A d \in Call \ {c} : calls'[d] = calls[d]
  BY CallChanges
<1>2. \A p : Keeps(p, p)
  BY DEF Keeps
<1>3. QED  BY <1>1, <1>2

LEMMA MineOK ==
  ASSUME PagesInv, NEW c \in Call
  PROVE  CopyOK(calls, Mine(c)) /\ IsSession(Mine(c))
BY DEF PagesInv, CopiesOK, Mine, CopyOK

LEMMA CopiesGoOn ==
  ASSUME PagesInv, UNCHANGED server, \A d \in Call : Keeps(calls[d], calls'[d])
  PROVE  CopiesOK' /\ loaded' = [d \in Call |-> loaded'[d]]
<1>1. UNCHANGED session /\ UNCHANGED loaded /\ UNCHANGED others
  BY DEF server
<1>2. loaded' = [d \in Call |-> loaded'[d]]
  BY <1>1 DEF PagesInv, Types
<1>3. \A s : CopyOK(calls, s) => CopyOK(calls', s)
  BY CopyGoesOn
<1>4. QED  BY <1>1, <1>2, <1>3 DEF PagesInv, CopiesOK

LEMMA CopiesForget ==
  ASSUME PagesInv, NEW gone \in SUBSET Call, Forget(gone),
         \A d \in Call : d \in gone \/ Keeps(calls[d], calls'[d])
  PROVE  CopiesOK' /\ loaded' = [d \in Call |-> loaded'[d]]
<1>1. \A s : CopyOK(calls, s) => CopyOK(calls', Forgotten(s, gone))
  BY CopyForgets
<1>2. CopyOK(calls', session')
  BY <1>1 DEF PagesInv, CopiesOK, Forget
<1>3. /\ loaded' = [d \in Call |-> loaded'[d]]
      /\ \A d \in Call :
           loaded'[d] = IF d \in gone \/ loaded[d] = Null THEN Null
                        ELSE Forgotten(loaded[d], gone)
  BY DEF Forget
<1>4. \A d \in Call : loaded'[d] # Null => CopyOK(calls', loaded'[d])
  BY <1>1, <1>3 DEF PagesInv, CopiesOK
<1>5. \A s \in others' : CopyOK(calls', s)
  BY <1>1 DEF PagesInv, CopiesOK, Forget
<1>6. QED  BY <1>2, <1>3, <1>4, <1>5 DEF CopiesOK

-----------------------------------------------------------------------------
(* What steps do to the calls and the tab                                  *)

TabGoesOn ==
  /\ TabOK(tab') /\ tab'.page = tab.page
  /\ tab.account \in Account => tab'.account \in Account
TabStays == TabGoesOn /\ tab'.send = tab.send /\ tab'.handed = tab.handed

LEMMA TokensStay ==
  ASSUME PagesInv, NEW c \in Call, NEW q, Becomes(c, q), Asks(calls[c]) = Asks(q),
         tab'.send = tab.send, tab'.handed = tab.handed
  PROVE  TokensOK'
<1>1. \A d \in Call : Asks(calls'[d]) = Asks(calls[d])
  BY CallChanges
<1>2. Asked' = Asked
  BY <1>1 DEF Asked, Asks
<1>3. QED  BY <1>2 DEF PagesInv, TokensOK

\* A call on a page goes on or ends.
LEMMA CallOK ==
  ASSUME PagesInv, NEW c \in Call, NEW q \in OrNull(CallRecord), Becomes(c, q),
         tab.page # "none", Meant(tab', q), TabGoesOn, TokensOK', CopiesOK',
         loaded' = [d \in Call |-> loaded'[d]]
  PROVE  PagesInv'
<1>1. calls'[c] = q /\ \A d \in Call \ {c} : calls'[d] = calls[d]
  BY CallChanges
<1>2. \A p : Meant(tab, p) => Meant(tab', p)
  BY DEF Meant, TabGoesOn
<1>3. \A d \in Call : Meant(tab', calls'[d])
  BY <1>1, <1>2 DEF PagesInv, PagesOK
<1>4. PagesOK'
  BY <1>3 DEF PagesOK, Meant, TabGoesOn
<1>5. calls' \in [Call -> OrNull(CallRecord)]
  BY DEF PagesInv, Types, Becomes
<1>6. QED  BY <1>4, <1>5 DEF PagesInv, Types, TabGoesOn

LEMMA CallIs ==
  ASSUME PagesInv, NEW c \in Call, calls[c] # Null
  PROVE  /\ calls[c] \in CallRecord /\ tab.page # "none" /\ Meant(tab, calls[c])
         /\ calls[c].does \in Does /\ calls[c].name \in OrNull(Account)
         /\ calls[c].index \in Index /\ calls[c].of \in OrNull(Account)
         /\ calls[c].answer \in Answer
<1>1. calls[c] \in CallRecord
  BY DEF PagesInv, Types, OrNull
<1>2. tab.page # "none" /\ Meant(tab, calls[c])
  BY DEF PagesInv, PagesOK
<1>3. QED  BY <1>1, <1>2 DEF CallRecord

LEMMA EndOK ==
  ASSUME PagesInv, NEW c \in Call, End(c), calls[c] # Null, TabGoesOn, TokensOK'
  PROVE  PagesInv'
<1>1. Becomes(c, Null)
  BY DEF End, Becomes
<1>2. CopiesOK' /\ loaded' = [d \in Call |-> loaded'[d]]
  BY <1>1, CallsKeep, CopiesForget DEF End
<1>3. tab.page # "none" /\ Meant(tab', Null) /\ Null \in OrNull(CallRecord)
  BY CallIs DEF Meant, OrNull
<1>4. QED  BY <1>1, <1>2, <1>3, CallOK

\* A call that asks for no token ends.
LEMMA EndQuietlyOK ==
  ASSUME PagesInv, NEW c \in Call, End(c), calls[c] # Null, ~Asks(calls[c]),
         TabStays
  PROVE  PagesInv'
<1>1. Becomes(c, Null) /\ Asks(calls[c]) = Asks(Null)
  BY DEF End, Becomes, Asks
<1>2. TokensOK'
  BY <1>1, TokensStay DEF TabStays
<1>3. QED  BY <1>2, EndOK DEF TabStays

LEMMA ContinuesOK ==
  ASSUME PagesInv, NEW c \in Call, NEW q \in CallRecord, Becomes(c, q),
         UNCHANGED server, tab.page # "none", Keeps(calls[c], q),
         Meant(tab', q), TabGoesOn, TokensOK'
  PROVE  PagesInv'
<1>1. CopiesOK' /\ loaded' = [d \in Call |-> loaded'[d]]
  BY CallsKeep, CopiesGoOn
<1>2. QED  BY <1>1, CallOK DEF OrNull

LEMMA GoesOnOK ==
  ASSUME PagesInv, NEW c \in Call, NEW q \in CallRecord, GoesOn(c, q),
         calls[c] # Null, Asks(calls[c]) = Asks(q), Keeps(calls[c], q),
         Meant(tab', q), TabStays
  PROVE  PagesInv'
<1>1. Becomes(c, q) /\ UNCHANGED server /\ tab.page # "none"
  BY CallIs DEF GoesOn, Becomes
<1>2. TokensOK'
  BY <1>1, TokensStay DEF TabStays
<1>3. QED  BY <1>1, <1>2, ContinuesOK DEF TabStays

LEMMA NewOK ==
  ASSUME NEW does \in Does, NEW name \in OrNull(Account), NEW index \in Index
  PROVE  LET q == New(does, name, index) IN
         /\ q \in CallRecord /\ q # Null
         /\ q.does = does /\ q.name = name /\ q.index = index
         /\ q.of = Null /\ q.answer = "none"
BY LoginPagesAssumption DEF New, CallRecord, OrNull, Answer

LEMMA NullIndex == 0 \in Index /\ Null \in OrNull(Account)
BY LoginPagesAssumption DEF Index, OrNull

LEMMA BeginOK ==
  ASSUME PagesInv, NEW does \in Does \ {"token"}, NEW name \in OrNull(Account),
         NEW index \in Index, Begin(does, name, index), tab.page # "none",
         Meant(tab', New(does, name, index)), TabStays
  PROVE  PagesInv'
<1> DEFINE q == New(does, name, index)
<1>1. PICK c \in Call : calls[c] = Null /\ Becomes(c, q)
  BY DEF Begin, Becomes
<1>2. q \in CallRecord /\ q # Null /\ q.does = does
  BY NewOK
<1> HIDE DEF q
<1>3. Asks(calls[c]) = Asks(q) /\ Keeps(calls[c], q) /\ UNCHANGED server
  BY <1>1, <1>2 DEF Asks, Keeps, OptionsOf, ChallengeOf, Begin
<1>4. TokensOK'
  BY <1>1, <1>3, TokensStay DEF TabStays
<1>5. QED  BY <1>1, <1>2, <1>3, <1>4, ContinuesOK DEF TabStays, q

\* Steps that show another flow, or take a name
LEMMA ShowsSomething ==
  ASSUME PagesInv,
         \/ UNCHANGED tab
         \/ \E flow \in Flow :
              /\ ShowFlow(flow)
              /\ tab.page = "login" /\ flow \in {"passkey", "password"} =>
                   tab.account \in Account
         \/ \E name \in Account : tab' = [tab EXCEPT !.account = name]
  PROVE  TabStays
<1>1. TabOK(tab) /\ tab \in TabRecord
  BY DEF PagesInv, Types, TabOK
<1>2. CASE UNCHANGED tab
  BY <1>1, <1>2 DEF TabStays, TabGoesOn
<1>3. CASE \E flow \in Flow :
             /\ ShowFlow(flow)
             /\ tab.page = "login" /\ flow \in {"passkey", "password"} =>
                  tab.account \in Account
  <2>1. PICK flow \in Flow :
          /\ tab' = [tab EXCEPT !.flow = flow]
          /\ tab.page = "login" /\ flow \in {"passkey", "password"} =>
               tab.account \in Account
    BY <1>3 DEF ShowFlow
  <2>2. /\ tab' \in TabRecord /\ tab'.flow = flow
        /\ tab'.page = tab.page /\ tab'.account = tab.account
        /\ tab'.buttons = tab.buttons /\ tab'.listed = tab.listed
        /\ tab'.send = tab.send /\ tab'.handed = tab.handed
    BY <1>1, <2>1 DEF TabRecord
  <2>3. QED  BY <1>1, <2>1, <2>2 DEF TabStays, TabGoesOn, TabOK
<1>4. CASE \E name \in Account : tab' = [tab EXCEPT !.account = name]
  <2>1. PICK name \in Account : tab' = [tab EXCEPT !.account = name]
    BY <1>4
  <2>2. /\ tab' \in TabRecord /\ tab'.flow = tab.flow
        /\ tab'.page = tab.page /\ tab'.account \in Account
        /\ tab'.buttons = tab.buttons /\ tab'.listed = tab.listed
        /\ tab'.send = tab.send /\ tab'.handed = tab.handed
    BY <1>1, <2>1 DEF TabRecord, OrNull
  <2>3. QED  BY <1>1, <2>2 DEF TabStays, TabGoesOn, TabOK
<1>5. QED  BY <1>2, <1>3, <1>4

-----------------------------------------------------------------------------
(* The server                                                              *)

LEMMA CallsStayOK ==
  ASSUME PagesInv, UNCHANGED calls, TabStays, CopiesOK',
         loaded' = [d \in Call |-> loaded'[d]]
  PROVE  PagesInv'
<1>1. TokensOK'
  BY DEF TabStays, PagesInv, TokensOK, Asked
<1>2. PagesOK'
  BY DEF TabStays, TabGoesOn, PagesInv, PagesOK, Meant
<1>3. QED  BY <1>1, <1>2 DEF TabStays, TabGoesOn, PagesInv, Types

LEMMA LoadsOK ==
  ASSUME PagesInv, NEW c \in Call, Loads(c)
  PROVE  PagesInv'
<1>1. /\ UNCHANGED <<tab, calls, session, others>>
      /\ loaded' = [loaded EXCEPT ![c] = session]
  BY DEF Loads
<1>2. /\ loaded' = [d \in Call |-> loaded'[d]] /\ loaded'[c] = session
      /\ \A d \in Call \ {c} : loaded'[d] = loaded[d]
  BY <1>1 DEF PagesInv, Types
<1>3. CopiesOK'
  BY <1>1, <1>2 DEF PagesInv, CopiesOK
<1>4. TabStays
  BY <1>1, ShowsSomething
<1>5. QED  BY <1>1, <1>2, <1>3, <1>4, CallsStayOK

LEMMA OtherLoadsOK ==
  ASSUME PagesInv, OtherLoads
  PROVE  PagesInv'
<1>1. /\ UNCHANGED <<tab, calls, session, loaded>>
      /\ others' = others \cup {session}
  BY DEF OtherLoads
<1>2. CopiesOK' /\ loaded' = [d \in Call |-> loaded'[d]]
  BY <1>1 DEF PagesInv, CopiesOK, Types
<1>3. TabStays
  BY <1>1, ShowsSomething
<1>4. QED  BY <1>1, <1>2, <1>3, CallsStayOK

\* A call that gets its answer, ...
LEMMA AnswerIs ==
  ASSUME PagesInv, NEW c \in Call, NEW does, Pending(c, does),
         NEW answer \in Answer
  PROVE  LET q == Answered(c, answer) IN
         /\ q \in CallRecord /\ q # Null /\ q.answer = answer
         /\ q.does = does /\ q.name = calls[c].name /\ q.of = calls[c].of
<1> DEFINE q == Answered(c, answer)
<1>1. calls[c] # Null /\ calls[c].does = does /\ calls[c].answer = "none"
  BY DEF Pending
<1>2. calls[c] \in CallRecord
  BY <1>1, CallIs
<1>3. /\ q \in CallRecord /\ q.answer = answer /\ q.does = does
      /\ q.name = calls[c].name /\ q.of = calls[c].of
  BY <1>1, <1>2 DEF Answered, CallRecord
<1> HIDE DEF q
<1>4. q # Null
  BY <1>3, LoginPagesAssumption
<1>5. QED  BY <1>3, <1>4 DEF q

\* ... the index of a user with it, or an account
LEMMA AnswerWithIndexIs ==
  ASSUME PagesInv, NEW c \in Call, NEW does, Pending(c, does),
         NEW answer \in Answer, NEW index \in Index
  PROVE  LET q == [Answered(c, answer) EXCEPT !.index = index] IN
         /\ q \in CallRecord /\ q # Null /\ q.answer = answer
         /\ q.does = does /\ q.name = calls[c].name /\ q.of = calls[c].of
         /\ q.index = index
<1> DEFINE p == Answered(c, answer)
           q == [p EXCEPT !.index = index]
<1>1. /\ p \in CallRecord /\ p.answer = answer /\ p.does = does
      /\ p.name = calls[c].name /\ p.of = calls[c].of
  BY AnswerIs
<1> HIDE DEF p
<1>2. /\ q \in CallRecord /\ q.answer = answer /\ q.does = does
      /\ q.name = calls[c].name /\ q.of = calls[c].of /\ q.index = index
  BY <1>1 DEF CallRecord
<1> HIDE DEF q
<1>3. q # Null
  BY <1>2, LoginPagesAssumption
<1>4. QED  BY <1>2, <1>3 DEF p, q

LEMMA AnswerWithAccountIs ==
  ASSUME PagesInv, NEW c \in Call, NEW does, Pending(c, does),
         NEW answer \in Answer, NEW of \in OrNull(Account)
  PROVE  LET q == [Answered(c, answer) EXCEPT !.of = of] IN
         /\ q \in CallRecord /\ q # Null /\ q.answer = answer
         /\ q.does = does /\ q.name = calls[c].name /\ q.of = of
<1> DEFINE p == Answered(c, answer)
           q == [p EXCEPT !.of = of]
<1>1. /\ p \in CallRecord /\ p.answer = answer /\ p.does = does
      /\ p.name = calls[c].name
  BY AnswerIs
<1> HIDE DEF p
<1>2. /\ q \in CallRecord /\ q.answer = answer /\ q.does = does
      /\ q.name = calls[c].name /\ q.of = of
  BY <1>1 DEF CallRecord
<1> HIDE DEF q
<1>3. q # Null
  BY <1>2, LoginPagesAssumption
<1>4. QED  BY <1>2, <1>3 DEF p, q

LEMMA StoresOK ==
  ASSUME PagesInv, NEW c \in Call, NEW does \in Storing, Pending(c, does),
         NEW q \in CallRecord, NEW s, Stores(c, q, s),
         q # Null, q.does = does, q.name = calls[c].name,
         does = "regVerify" => q.of = calls[c].of,
         CopyOK(calls, s) \/ CopyOK(calls', s)
  PROVE  PagesInv'
<1>1. calls[c] # Null /\ calls[c].does = does /\ calls[c].answer = "none"
  BY DEF Pending
<1>2. /\ Becomes(c, q) /\ session' = s /\ UNCHANGED <<tab, others>>
      /\ loaded' = [loaded EXCEPT ![c] = Null]
  BY DEF Stores, Becomes
<1>3. does \in {"options", "verify", "login", "register", "regOptions", "regVerify"}
  BY DEF Storing
<1>4. Keeps(calls[c], q) /\ Asks(calls[c]) = Asks(q)
  BY <1>1, <1>3 DEF Keeps, OptionsOf, ChallengeOf, Asks
<1>5. \A d \in Call : Keeps(calls[d], calls'[d])
  BY <1>2, <1>4, CallsKeep
<1>6. \A t : CopyOK(calls, t) => CopyOK(calls', t)
  BY <1>5, CopyGoesOn
<1>7. /\ loaded' = [d \in Call |-> loaded'[d]]
      /\ \A d \in Call : loaded'[d] = IF d = c THEN Null ELSE loaded[d]
  BY <1>2 DEF PagesInv, Types
<1>8. CopiesOK'
  BY <1>2, <1>6, <1>7 DEF PagesInv, CopiesOK
<1>9. TabStays
  BY <1>2, ShowsSomething
<1>10. TokensOK'
  BY <1>2, <1>4, <1>9, TokensStay DEF TabStays
<1>11. tab.page # "none" /\ Meant(tab', q)
  BY <1>1, <1>2, CallIs DEF Meant
<1>12. QED  BY <1>2, <1>7, <1>8, <1>9, <1>10, <1>11, CallOK DEF TabStays, OrNull

LEMMA AnswersOK ==
  ASSUME PagesInv, NEW c \in Call, NEW does \in Storing, Pending(c, does),
         NEW answer \in Answer, NEW s, CopyOK(calls, s),
         Stores(c, Answered(c, answer), s)
  PROVE  PagesInv'
<1> DEFINE q == Answered(c, answer)
<1>1. q \in CallRecord /\ q # Null /\ q.does = does /\ q.name = calls[c].name
      /\ q.of = calls[c].of
  BY AnswerIs
<1> HIDE DEF q
<1>2. QED  BY <1>1, StoresOK DEF q

LEMMA ReplyOK ==
  ASSUME PagesInv, NEW c \in Call, NEW does \in Storing, Pending(c, does),
         NEW answer \in Answer, Reply(c, answer)
  PROVE  PagesInv'
BY AnswersOK DEF Reply, PagesInv, CopiesOK

\* Where the user is put that a login names
LEMMA EnterIs ==
  ASSUME NEW s, CopyOK(calls, s), NEW names, NEW name \in Account,
         NEW options \in {Null, s.options}, PlaceOf(s, names) <= MaxUsers
  PROVE  LET i == PlaceOf(s, names)
             accounts == Entered(s.accounts, i, name) IN
         /\ CopyOK(calls, [accounts |-> accounts, options |-> options])
         /\ i \in Index
         /\ accounts[i].account \in names \cup {name}
<1> DEFINE i == PlaceOf(s, names)
<1>1. /\ IsSession(s) /\ Len(s.accounts) \in Nat
      /\ DOMAIN s.accounts \subseteq Index
  BY SessionIs DEF CopyOK
<1>2. \/ i \in DOMAIN s.accounts /\ s.accounts[i].account \in names
      \/ i = Len(s.accounts) + 1 /\ i \notin DOMAIN s.accounts
  BY <1>1, PlaceOfIs
<1>3. i \in DOMAIN s.accounts \/ Len(s.accounts) < MaxUsers
  BY <1>1, <1>2, LoginPagesAssumption
<1>4. i \in Index
  BY <1>1, <1>2, LoginPagesAssumption DEF Index
<1> HIDE DEF i
<1>5. /\ CopyOK(calls, [accounts |-> Entered(s.accounts, i, name),
                        options |-> options])
      /\ i \in DOMAIN s.accounts =>
           Entered(s.accounts, i, name)[i].account = s.accounts[i].account
      /\ i \notin DOMAIN s.accounts =>
           Entered(s.accounts, i, name)[Len(s.accounts) + 1].account = name
  BY <1>3, EnteredIs
<1>6. Entered(s.accounts, i, name)[i].account \in names \cup {name}
  BY <1>2, <1>5
<1>7. QED  BY <1>4, <1>5, <1>6 DEF i

LEMMA EnterOK ==
  ASSUME PagesInv, NEW c \in Call, NEW does \in {"verify", "login", "register"},
         Pending(c, does), NEW names, NEW name \in Account,
         NEW options \in {Null, Mine(c).options}, Enter(c, name, names, options)
  PROVE  PagesInv'
<1> DEFINE s == Mine(c)
           i == PlaceOf(s, names)
           q == [Answered(c, "success") EXCEPT !.index = i]
           t == [accounts |-> Entered(s.accounts, i, name), options |-> options]
<1>1. i <= MaxUsers /\ Stores(c, q, t)
  BY DEF Enter
<1>2. CopyOK(calls, t) /\ i \in Index
  BY <1>1, MineOK, EnterIs
<1>3. q \in CallRecord /\ q # Null /\ q.does = does /\ q.name = calls[c].name
      /\ q.of = calls[c].of
  BY <1>2, AnswerWithIndexIs DEF Answer
<1>4. does \in Storing
  BY DEF Storing
<1> HIDE DEF q, t
<1>5. QED  BY <1>1, <1>2, <1>3, <1>4, StoresOK

LEMMA GenerateOptionsOK ==
  ASSUME PagesInv, NEW c \in Call, GenerateOptions(c)
  PROVE  PagesInv'
<1> DEFINE s == Mine(c)
           made == [challenge |-> c, account |-> calls[c].name]
<1>1. Pending(c, "options") /\ "options" \in Storing
  BY DEF GenerateOptions, Storing
<1>2. ASSUME NEW answer \in Answer, Reply(c, answer) PROVE PagesInv'
  BY <1>1, <1>2, ReplyOK
<1>3. ASSUME Stores(c, Answered(c, "success"), [s EXCEPT !.options = made])
      PROVE  PagesInv'
  <2>1. /\ calls[c] # Null /\ calls[c].does = "options"
        /\ calls[c].name \in Account
    BY <1>1, CallIs DEF Pending, Meant
  <2>2. CopyOK(calls, s) /\ IsSession(s)
    BY MineOK
  <2>3. /\ s = [accounts |-> s.accounts, options |-> s.options]
        /\ s.accounts \in Seq(Entry) /\ Len(s.accounts) <= MaxUsers
    BY <2>2, SessionIs
  <2> HIDE DEF s
  <2>4. [s EXCEPT !.options = made] = [accounts |-> s.accounts, options |-> made]
    BY <2>3
  <2>5. /\ made \in OrNull([challenge: Call, account: Account])
        /\ made.challenge = c /\ made.account = calls[c].name
    BY <2>1 DEF OrNull
  <2> HIDE DEF made
  <2>6. IsSession([accounts |-> s.accounts, options |-> made])
    BY <2>3, <2>5, IsASession
  <2>7. OptionsOf(calls[made.challenge], made.account)
    BY <2>1, <2>5 DEF OptionsOf
  <2>8. CopyOK(calls, [accounts |-> s.accounts, options |-> made])
    BY <2>2, <2>6, <2>7 DEF CopyOK
  <2>9. QED  BY <1>1, <1>3, <2>4, <2>8, AnswersOK DEF Answer
<1>4. QED  BY <1>2, <1>3 DEF GenerateOptions, Answer

LEMMA VerifyAuthenticationOK ==
  ASSUME PagesInv, NEW c \in Call, VerifyAuthentication(c)
  PROVE  PagesInv'
<1> DEFINE s == Mine(c)
           row == {a \in Account : UserOf[a] = UserOf[s.options.account]}
<1>1. Pending(c, "verify") /\ "verify" \in Storing
  BY DEF VerifyAuthentication, Storing
<1>2. CopyOK(calls, s) /\ IsSession(s)
  BY MineOK
<1>3. CopyOK(calls, [s EXCEPT !.options = Null])
  BY <1>2, OptionsUsedUp
<1>4. ASSUME NEW answer \in Answer,
             Stores(c, Answered(c, answer), [s EXCEPT !.options = Null])
      PROVE  PagesInv'
  BY <1>1, <1>3, <1>4, AnswersOK
<1>5. ASSUME Matches(c, s.options), Enter(c, s.options.account, row, Null)
      PROVE  PagesInv'
  <2>1. s.options.account \in Account
    BY <1>2, <1>5, SessionIs DEF Matches
  <2>2. QED  BY <1>1, <1>5, <2>1, EnterOK
<1>6. QED  BY <1>4, <1>5 DEF VerifyAuthentication, Answer

LEMMA LoginByPasswordOK ==
  ASSUME PagesInv, NEW c \in Call, LoginByPassword(c)
  PROVE  PagesInv'
<1>1. Pending(c, "login") /\ "login" \in Storing
  BY DEF LoginByPassword, Storing
<1>2. calls[c].name \in Account
  BY <1>1, CallIs DEF Pending, Meant
<1>3. ASSUME NEW answer \in Answer, Reply(c, answer) PROVE PagesInv'
  BY <1>1, <1>3, ReplyOK
<1>4. ASSUME Enter(c, calls[c].name, {calls[c].name}, Mine(c).options)
      PROVE  PagesInv'
  BY <1>1, <1>2, <1>4, EnterOK
<1>5. QED  BY <1>3, <1>4 DEF LoginByPassword, Answer

LEMMA RegisterOK ==
  ASSUME PagesInv, NEW c \in Call, Register(c)
  PROVE  PagesInv'
<1>1. Pending(c, "register") /\ Enter(c, calls[c].name, {}, Mine(c).options)
  BY DEF Register
<1>2. calls[c].name \in Account
  BY <1>1, CallIs DEF Pending, Meant
<1>3. QED  BY <1>1, <1>2, EnterOK

\* The challenge of one user is set or used up.
LEMMA ChallengeSet ==
  ASSUME NEW k, NEW s, CopyOK(k, s), NEW i \in DOMAIN s.accounts,
         NEW ch \in OrNull(Call), NEW q,
         ch # Null => ChallengeOf(q[ch], s.accounts[i].account),
         \A d \in Call : Keeps(k[d], q[d])
  PROVE  CopyOK(q, [s EXCEPT !.accounts[i].challenge = ch])
<1> DEFINE u == [s.accounts[i] EXCEPT !.challenge = ch]
<1>1. /\ s = [accounts |-> s.accounts, options |-> s.options]
      /\ s.accounts[i] \in Entry
  BY SessionIs DEF CopyOK
<1>2. u \in Entry /\ u.account = s.accounts[i].account /\ u.challenge = ch
  BY <1>1 DEF Entry
<1>3. [s EXCEPT !.accounts[i].challenge = ch] = [s EXCEPT !.accounts[i] = u]
  BY <1>1
<1> HIDE DEF u
<1>4. QED  BY <1>2, <1>3, EntryChanges

LEMMA GenerateRegistrationOK ==
  ASSUME PagesInv, NEW c \in Call, GenerateRegistration(c)
  PROVE  PagesInv'
<1> DEFINE s == Mine(c)
           i == calls[c].index
           of == s.accounts[i].account
           q == [Answered(c, "success") EXCEPT !.of = of]
<1>1. Pending(c, "regOptions") /\ "regOptions" \in Storing
  BY DEF GenerateRegistration, Storing
<1>2. CASE Reply(c, "hasNotLoggedIn")
  BY <1>1, <1>2, ReplyOK DEF Answer
<1>3. ASSUME IsIn(s, i), Stores(c, q, [s EXCEPT !.accounts[i].challenge = c])
      PROVE  PagesInv'
  <2>1. CopyOK(calls, s) /\ IsSession(s) /\ i \in DOMAIN s.accounts
    BY <1>3, MineOK DEF IsIn
  <2>2. s.accounts[i] \in Entry
    BY <2>1, SessionIs
  <2>3. of \in OrNull(Account)
    BY <2>2 DEF Entry, OrNull
  <2>4. /\ calls[c] # Null /\ calls[c].does = "regOptions"
        /\ calls[c].answer = "none"
        /\ q \in CallRecord /\ q # Null /\ q.does = "regOptions"
        /\ q.name = calls[c].name /\ q.of = of /\ q.answer = "success"
    BY <1>1, <2>3, AnswerWithAccountIs DEF Answer, Pending
  <2> HIDE DEF q, s, of
  <2>5. Becomes(c, q)
    BY <1>3 DEF Stores, Becomes
  <2>6. calls'[c] = q
    BY <2>5, CallChanges
  <2>7. Keeps(calls[c], q)
    BY <2>4 DEF Keeps, OptionsOf, ChallengeOf
  <2>8. \A d \in Call : Keeps(calls[d], calls'[d])
    BY <2>5, <2>7, CallsKeep
  <2>9. ChallengeOf(calls'[c], s.accounts[i].account)
    BY <2>4, <2>6 DEF ChallengeOf, of
  <2>10. CopyOK(calls', [s EXCEPT !.accounts[i].challenge = c])
    BY <2>1, <2>8, <2>9, ChallengeSet DEF OrNull
  <2>11. QED  BY <1>1, <1>3, <2>4, <2>10, StoresOK
<1>4. QED  BY <1>2, <1>3 DEF GenerateRegistration

LEMMA VerifyRegistrationOK ==
  ASSUME PagesInv, NEW c \in Call, VerifyRegistration(c)
  PROVE  PagesInv'
<1> DEFINE s == Mine(c)
           i == calls[c].index
<1>1. Pending(c, "regVerify") /\ "regVerify" \in Storing
  BY DEF VerifyRegistration, Storing
<1>2. CASE Reply(c, "hasNotLoggedIn")
  BY <1>1, <1>2, ReplyOK DEF Answer
<1>3. ASSUME IsIn(s, i), NEW answer \in {"failed", "success"},
             Stores(c, Answered(c, answer),
                    [s EXCEPT !.accounts[i].challenge = Null])
      PROVE  PagesInv'
  <2>1. CopyOK(calls, s) /\ i \in DOMAIN s.accounts
    BY <1>3, MineOK DEF IsIn
  <2>2. \A d \in Call : Keeps(calls[d], calls[d])
    BY DEF Keeps
  <2>3. CopyOK(calls, [s EXCEPT !.accounts[i].challenge = Null])
    BY <2>1, <2>2, NullIndex, ChallengeSet DEF OrNull
  <2>4. QED  BY <1>1, <1>3, <2>3, AnswersOK DEF Answer
<1>4. QED  BY <1>2, <1>3 DEF VerifyRegistration

LEMMA CreateTokenOK ==
  ASSUME PagesInv, NEW c \in Call, CreateToken(c)
  PROVE  PagesInv'
<1> DEFINE i == calls[c].index
           of == session.accounts[i].account
           yes == [calls[c] EXCEPT !.answer = "success", !.of = of]
           no == [calls[c] EXCEPT !.answer = "hasNotLoggedIn"]
           q == IF IsIn(session, i) THEN yes ELSE no
<1>1. /\ calls[c] # Null /\ calls[c].does = "token"
      /\ UNCHANGED <<tab, server>> /\ Becomes(c, q)
  BY DEF CreateToken, Pending, Becomes
<1>2. calls[c] \in CallRecord /\ tab.page # "none"
  BY <1>1, CallIs
<1>3. no \in CallRecord /\ no.does = "token"
  BY <1>1, <1>2 DEF CallRecord, Answer
<1>4. IsIn(session, i) => yes \in CallRecord /\ yes.does = "token"
  <2>1. SUFFICES ASSUME i \in DOMAIN session.accounts
                 PROVE  yes \in CallRecord /\ yes.does = "token"
    BY DEF IsIn
  <2>2. session.accounts[i] \in Entry
    BY <2>1, SessionIs DEF PagesInv, CopiesOK, CopyOK
  <2>3. of \in OrNull(Account)
    BY <2>2 DEF Entry, OrNull
  <2> HIDE DEF of
  <2>4. QED  BY <1>1, <1>2, <2>3 DEF CallRecord, Answer
<1>5. q \in CallRecord /\ q.does = "token"
  BY <1>3, <1>4
<1> HIDE DEF q
<1>6. q # Null
  BY <1>5, LoginPagesAssumption
<1>7. /\ Keeps(calls[c], q) /\ Asks(calls[c]) = Asks(q) /\ Meant(tab', q)
  BY <1>1, <1>5, <1>6 DEF Keeps, OptionsOf, ChallengeOf, Asks, Meant
<1>8. TabStays
  BY <1>1, ShowsSomething
<1>9. TokensOK'
  BY <1>1, <1>7, <1>8, TokensStay DEF TabStays
<1>10. QED  BY <1>1, <1>2, <1>5, <1>7, <1>8, <1>9, ContinuesOK DEF TabStays

LEMMA ServeOK ==
  ASSUME PagesInv, NEW c \in Call, Serve(c)
  PROVE  PagesInv'
BY LoadsOK, GenerateOptionsOK, VerifyAuthenticationOK, LoginByPasswordOK,
   RegisterOK, GenerateRegistrationOK, VerifyRegistrationOK, CreateTokenOK
   DEF Serve

\* What requests of other tabs store
LEMMA ChangedOK ==
  ASSUME NEW k, NEW s, CopyOK(k, s), NEW t \in Changed(s)
  PROVE  CopyOK(k, t)
<1> DEFINE at == DOMAIN s.accounts
<1>1. /\ s = [accounts |-> s.accounts, options |-> s.options]
      /\ \A i \in at : s.accounts[i] \in Entry
      /\ \A d \in Call : Keeps(k[d], k[d])
  BY SessionIs DEF CopyOK, Keeps
<1>2. ASSUME NEW i \in at, NEW is \in BOOLEAN
      PROVE  CopyOK(k, [s EXCEPT !.accounts[i].isLoggedIn = is])
  <2> DEFINE u == [s.accounts[i] EXCEPT !.isLoggedIn = is]
  <2>1. /\ u \in Entry /\ u.account = s.accounts[i].account
        /\ u.challenge = s.accounts[i].challenge
    BY <1>1 DEF Entry
  <2>2. [s EXCEPT !.accounts[i].isLoggedIn = is] = [s EXCEPT !.accounts[i] = u]
    BY <1>1
  <2> HIDE DEF u
  <2>3. u.challenge # Null => ChallengeOf(k[u.challenge], u.account)
    BY <2>1 DEF CopyOK
  <2>4. QED  BY <1>1, <2>1, <2>2, <2>3, EntryChanges
<1>3. ASSUME NEW i \in at PROVE CopyOK(k, [s EXCEPT !.accounts = RemoveAt(@, i)])
  BY RemovedIs
<1>4. ASSUME NEW name \in Account, Len(s.accounts) < MaxUsers
      PROVE  CopyOK(k, [s EXCEPT !.accounts = Entered(@, 0, name)])
  <2>1. CopyOK(k, [accounts |-> Entered(s.accounts, 0, name),
                   options |-> s.options])
    BY <1>4, EnteredIs
  <2> DEFINE left == Entered(s.accounts, 0, name)
  <2> HIDE DEF left
  <2>2. [s EXCEPT !.accounts = left] = [accounts |-> left, options |-> s.options]
    BY <1>1
  <2>3. QED  BY <2>1, <2>2 DEF left
<1>5. ASSUME NEW i \in at
      PROVE  CopyOK(k, [s EXCEPT !.accounts[i].challenge = Null])
  BY <1>1, NullIndex, ChallengeSet DEF OrNull
<1>6. CopyOK(k, [s EXCEPT !.options = Null])
  BY OptionsUsedUp
<1>7. QED  BY <1>2, <1>3, <1>4, <1>5, <1>6 DEF Changed

LEMMA OtherStoresOK ==
  ASSUME PagesInv, OtherStores
  PROVE  PagesInv'
<1>1. PICK s \in others \cup {session} :
        others' = others \ {s} /\ session' \in Changed(s)
  BY DEF OtherStores
<1>2. UNCHANGED <<tab, calls, loaded>>
  BY DEF OtherStores
<1>3. CopyOK(calls, s)
  BY <1>1 DEF PagesInv, CopiesOK
<1>4. CopyOK(calls, session')
  BY <1>1, <1>3, ChangedOK
<1>5. CopiesOK' /\ loaded' = [d \in Call |-> loaded'[d]]
  BY <1>1, <1>2, <1>4 DEF PagesInv, CopiesOK, Types
<1>6. TabStays
  BY <1>2, ShowsSomething
<1>7. QED  BY <1>2, <1>5, <1>6, CallsStayOK

-----------------------------------------------------------------------------
(* Pages that are left and opened                                          *)

\* A page that was just opened, and the calls it starts with
LEMMA PageIs ==
  ASSUME NEW page \in Page, NEW t \in Opened(page), NEW k \in FirstCalls(page)
  PROVE  /\ TabOK(t) /\ t.page = page /\ ~t.send /\ t.handed = <<>>
         /\ k \in [Call -> OrNull(CallRecord)]
         /\ \A c \in Call : k[c] = Null \/ k[c].does = "update"
         /\ page = "none" => \A c \in Call : k[c] = Null
         /\ \A c \in Call : Meant(t, k[c]) /\ ~Asks(k[c])
<1>1. /\ FirstFlow(page) \in Flow \ {"passkey", "password"}
      /\ Given(page) \subseteq BOOLEAN
  BY DEF FirstFlow, Flow, Given
<1>2. /\ <<>> \in Seq(Account) /\ <<>> \in Seq(Token) /\ DOMAIN <<>> \subseteq Index
      /\ Null \in OrNull(Account) /\ Null \in OrNull(Seq(Account))
  BY DEF OrNull
<1>3. /\ t \in TabRecord /\ t.page = page /\ ~t.send /\ t.handed = <<>>
      /\ t.flow = FirstFlow(page) /\ t.listed = Null /\ t.buttons = <<>>
  BY <1>1, <1>2 DEF Opened, TabRecord
<1>4. TabOK(t)
  BY <1>1, <1>2, <1>3 DEF TabOK
<1> DEFINE q == New("update", Null, 0)
<1>5. q \in CallRecord /\ q.does = "update"
  BY NewOK, NullIndex DEF Does
<1> HIDE DEF q
<1>6. \A c \in Call : k[c] = Null \/ k[c] = q
  BY DEF FirstCalls, q
<1>7. k = [c \in Call |-> k[c]] /\ (page = "none" => \A c \in Call : k[c] = Null)
  BY DEF FirstCalls
<1>8. k \in [Call -> OrNull(CallRecord)]
  BY <1>5, <1>6, <1>7 DEF OrNull
<1>9. \A c \in Call : k[c] = Null \/ k[c].does = "update"
  BY <1>5, <1>6
<1>10. \A c \in Call : Meant(t, k[c]) /\ ~Asks(k[c])
  BY <1>9 DEF Meant, Asks
<1>11. QED  BY <1>3, <1>4, <1>7, <1>8, <1>9, <1>10

LEMMA NewPageOK ==
  ASSUME PagesInv, NEW page \in Page, tab' \in Opened(page),
         calls' \in FirstCalls(page), CopiesOK',
         loaded' = [d \in Call |-> loaded'[d]]
  PROVE  PagesInv'
<1>1. /\ TabOK(tab') /\ tab'.page = page /\ ~tab'.send /\ tab'.handed = <<>>
      /\ calls' \in [Call -> OrNull(CallRecord)]
      /\ page = "none" => \A c \in Call : calls'[c] = Null
      /\ \A c \in Call : Meant(tab', calls'[c]) /\ ~Asks(calls'[c])
  BY PageIs
<1>2. Asked' = {}
  BY <1>1 DEF Asked, Asks
<1>3. TokensOK'
  BY <1>1, <1>2 DEF TokensOK
<1>4. PagesOK'
  BY <1>1 DEF PagesOK, Meant
<1>5. QED  BY <1>1, <1>3, <1>4 DEF PagesInv, Types

LEMMA LeaveOK ==
  ASSUME PagesInv, Leave
  PROVE  PagesInv'
<1>1. /\ tab' \in Opened("none") /\ calls' \in FirstCalls("none")
      /\ Forget(Call) /\ "none" \in Page
  BY DEF Leave, Page
<1>2. CopiesOK' /\ loaded' = [d \in Call |-> loaded'[d]]
  BY <1>1, CopiesForget
<1>3. QED  BY <1>1, <1>2, NewPageOK

LEMMA OpensOK ==
  ASSUME PagesInv, NEW page \in Page, Opens(page)
  PROVE  PagesInv'
<1>1. /\ tab' \in Opened(page) /\ calls' \in FirstCalls(page)
      /\ UNCHANGED server /\ \A c \in Call : calls[c] = Null
  BY DEF Opens, PagesInv, PagesOK
<1>2. \A c \in Call : Keeps(calls[c], calls'[c])
  BY <1>1 DEF Keeps, OptionsOf, ChallengeOf
<1>3. QED  BY <1>1, <1>2, CopiesGoOn, NewPageOK

-----------------------------------------------------------------------------
(* Steps about tokens                                                      *)

\* The token that was asked for is not asked for any more.
LEMMA AskedEnds ==
  ASSUME PagesInv, NEW c \in Call, Asks(calls[c]), NEW q, Becomes(c, q), ~Asks(q)
  PROVE  tab.send /\ tab.handed = <<>> /\ Asked' = {}
<1>1. c \in Asked
  BY DEF Asked
<1>2. tab.send /\ tab.handed = <<>> /\ Asked = {c}
  BY <1>1 DEF PagesInv, TokensOK
<1>3. calls'[c] = q /\ \A d \in Call \ {c} : calls'[d] = calls[d]
  BY CallChanges
<1>4. QED  BY <1>2, <1>3 DEF Asked, Asks

\* The first one is.
LEMMA AskedBegins ==
  ASSUME PagesInv, ~tab.send, NEW c \in Call, NEW q, Becomes(c, q), Asks(q)
  PROVE  tab.handed = <<>> /\ Asked' = {c}
<1>1. tab.handed = <<>> /\ Asked = {}
  BY DEF PagesInv, TokensOK
<1>2. calls'[c] = q /\ \A d \in Call \ {c} : calls'[d] = calls[d]
  BY CallChanges
<1>3. QED  BY <1>1, <1>2 DEF Asked, Asks

\* The flag of the tab changes, and what it shows.
LEMMA TabChanges ==
  ASSUME PagesInv, NEW send \in BOOLEAN, NEW handed \in Seq(Token),
         NEW buttons \in Seq(Account), DOMAIN buttons \subseteq Index,
         tab' = [tab EXCEPT !.send = send, !.handed = handed, !.buttons = buttons]
  PROVE  /\ TabGoesOn /\ tab'.send = send /\ tab'.handed = handed
         /\ tab'.buttons = buttons /\ tab'.listed = tab.listed
<1>1. TabOK(tab) /\ tab \in TabRecord
  BY DEF PagesInv, Types, TabOK
<1>2. /\ tab' \in TabRecord /\ tab'.send = send /\ tab'.handed = handed
      /\ tab'.page = tab.page /\ tab'.account = tab.account
      /\ tab'.flow = tab.flow
      /\ tab'.buttons = buttons /\ tab'.listed = tab.listed
  BY <1>1 DEF TabRecord
<1>3. QED  BY <1>1, <1>2 DEF TabGoesOn, TabOK

LEMMA TabIs ==
  ASSUME PagesInv
  PROVE  /\ tab \in TabRecord /\ TabOK(tab) /\ tab.send \in BOOLEAN
         /\ tab.handed \in Seq(Token) /\ tab.buttons \in Seq(Account)
         /\ DOMAIN tab.buttons \subseteq Index
         /\ tab.listed # Null =>
              tab.listed \in Seq(Account) /\ DOMAIN tab.listed \subseteq Index
<1>1. tab \in TabRecord /\ TabOK(tab)
  BY DEF PagesInv, Types, TabOK
<1>2. QED  BY <1>1 DEF TabRecord, TabOK, OrNull

LEMMA FlagChanges ==
  ASSUME PagesInv, NEW flag \in BOOLEAN, tab' = [tab EXCEPT !.send = flag]
  PROVE  /\ TabGoesOn /\ tab'.send = flag /\ tab'.handed = tab.handed
         /\ tab'.buttons = tab.buttons /\ tab'.listed = tab.listed
<1>1. /\ tab' \in TabRecord /\ tab'.send = flag /\ tab'.handed = tab.handed
      /\ tab'.page = tab.page /\ tab'.account = tab.account
      /\ tab'.flow = tab.flow
      /\ tab'.buttons = tab.buttons /\ tab'.listed = tab.listed
  BY TabIs DEF TabRecord
<1>2. QED  BY <1>1, TabIs DEF TabGoesOn, TabOK

LEMMA FailOK ==
  ASSUME PagesInv, NEW c \in Call, Fail(c)
  PROVE  PagesInv'
<1>1. End(c) /\ calls[c] # Null
  BY DEF Fail
<1>2. CASE calls[c].does # "token"
  <2>1. TabStays /\ ~Asks(calls[c])
    BY <1>2, ShowsSomething DEF Fail, Asks
  <2>2. QED  BY <1>1, <2>1, EndQuietlyOK
<1>3. CASE calls[c].does = "token"
  <2>1. Becomes(c, Null) /\ Asks(calls[c]) /\ ~Asks(Null)
    BY <1>1, <1>3 DEF End, Becomes, Asks
  <2>2. /\ TabGoesOn /\ tab'.send = FALSE /\ tab'.handed = tab.handed
    BY <1>3, FlagChanges DEF Fail
  <2>3. TokensOK'
    BY <2>1, <2>2, AskedEnds DEF TokensOK
  <2>4. QED  BY <1>1, <2>2, <2>3, EndOK
<1>4. QED  BY <1>2, <1>3

\* The button is blocked, the token is handed over and nobody asks any more.
LEMMA HandedIs ==
  ASSUME PagesInv, NEW token \in Token, tab' = Handed(token), tab.handed = <<>>
  PROVE  TabGoesOn /\ tab'.send = TRUE /\ Len(tab'.handed) = 1
<1>1. Append(tab.handed, token) = <<token>> /\ <<token>> \in Seq(Token)
      /\ Len(<<token>>) = 1
  OBVIOUS
<1>2. tab' = [tab EXCEPT !.handed = <<token>>, !.send = TRUE]
  BY <1>1 DEF Handed
<1>3. tab' = [tab EXCEPT !.send = TRUE, !.handed = <<token>>,
                         !.buttons = tab.buttons]
  BY <1>2, TabIs DEF TabRecord
<1>4. TabGoesOn /\ tab'.send = TRUE /\ tab'.handed = <<token>>
  BY <1>1, <1>3, TabIs, TabChanges
<1>5. QED  BY <1>1, <1>4

\* A token is asked for.
LEMMA AskOK ==
  ASSUME PagesInv, NEW c \in Call, NEW name \in OrNull(Account), NEW i \in Index,
         Becomes(c, New("token", name, i)), UNCHANGED server, tab.page # "none",
         ~tab.send, TabGoesOn, tab'.send, tab'.handed = tab.handed,
         calls[c] = Null \/ calls[c].does = "update"
  PROVE  PagesInv'
<1> DEFINE q == New("token", name, i)
<1>1. q \in CallRecord /\ q # Null /\ q.does = "token"
  BY NewOK DEF Does
<1>2. Becomes(c, q)
  OBVIOUS
<1> HIDE DEF q
<1>3. Keeps(calls[c], q) /\ Meant(tab', q) /\ Asks(q)
  BY <1>1 DEF Keeps, OptionsOf, ChallengeOf, Meant, Asks
<1>4. TokensOK'
  <2>1. tab.handed = <<>> /\ Asked' = {c}
    BY <1>2, <1>3, AskedBegins
  <2>2. QED  BY <2>1 DEF TokensOK
<1>5. QED  BY <1>1, <1>2, <1>3, <1>4, ContinuesOK

LEMMA AccountButtonClickOK ==
  ASSUME PagesInv, AccountButtonClick
  PROVE  PagesInv'
<1>1. PICK i \in DOMAIN tab.buttons : Begin("token", tab.buttons[i], i)
  BY DEF AccountButtonClick
<1>2. /\ i \in Index /\ ~tab.send /\ tab' = [tab EXCEPT !.send = TRUE]
      /\ tab.buttons[i] \in OrNull(Account) /\ tab.page # "none"
  <2>1. tab.buttons \in Seq(Account) /\ DOMAIN tab.buttons \subseteq Index
    BY TabIs
  <2>2. tab.buttons[i] \in Account
    BY <2>1
  <2>3. QED  BY <2>1, <2>2 DEF AccountButtonClick, CanBeSent, OrNull
<1>3. PICK c \in Call : /\ calls[c] = Null
                        /\ Becomes(c, New("token", tab.buttons[i], i))
  BY <1>1 DEF Begin, Becomes
<1>4. TabGoesOn /\ tab'.send = TRUE /\ tab'.handed = tab.handed
  BY <1>2, FlagChanges
<1>5. UNCHANGED server
  BY <1>1 DEF Begin
<1>6. QED  BY <1>2, <1>3, <1>4, <1>5, AskOK

LEMMA GuestButtonClickOK ==
  ASSUME PagesInv, GuestButtonClick
  PROVE  PagesInv'
<1> DEFINE token == [name |-> Null, of |-> Null]
<1>1. /\ token \in Token /\ tab' = Handed(token)
      /\ UNCHANGED <<calls, server>> /\ ~tab.send
  BY DEF GuestButtonClick, Token, OrNull, CanBeSent
<1> HIDE DEF token
<1>2. tab.handed = <<>> /\ Asked = {}
  BY <1>1 DEF PagesInv, TokensOK
<1>3. TabGoesOn /\ tab'.send = TRUE /\ Len(tab'.handed) = 1
  BY <1>1, <1>2, HandedIs
<1>4. Asked' = Asked
  BY <1>1 DEF Asked
<1>5. TokensOK'
  BY <1>2, <1>3, <1>4 DEF TokensOK
<1>6. \A d \in Call : Keeps(calls[d], calls'[d])
  BY <1>1 DEF Keeps
<1>7. CopiesOK' /\ loaded' = [d \in Call |-> loaded'[d]]
  BY <1>1, <1>6, CopiesGoOn
<1>8. PagesOK'
  BY <1>1, <1>3 DEF PagesInv, PagesOK, Meant, TabGoesOn
<1>9. QED  BY <1>1, <1>3, <1>5, <1>7, <1>8 DEF PagesInv, Types, TabGoesOn

\* The first names of a list
LEMMA ShownIs ==
  ASSUME PagesInv, tab.listed # Null, NEW k \in 0 .. Len(tab.listed)
  PROVE  LET shown == SubSeq(tab.listed, 1, k) IN
         shown \in Seq(Account) /\ DOMAIN shown \subseteq Index
<1>1. tab.listed \in Seq(Account) /\ DOMAIN tab.listed \subseteq Index
  BY TabIs
<1>2. QED  BY <1>1

LEMMA UpdateUserButtonOK ==
  ASSUME PagesInv, NEW c \in Call, UpdateUserButton(c)
  PROVE  PagesInv'
<1>1. /\ calls[c] # Null /\ calls[c].does = "update" /\ calls[c].answer = "none"
      /\ tab.listed # Null /\ ~Asks(calls[c])
  BY DEF UpdateUserButton, Got, Asks
<1>2. CASE Leave
  BY <1>2, LeaveOK
<1>3. ASSUME NEW k \in 0 .. Len(tab.listed), End(c),
             tab' = [tab EXCEPT !.buttons = SubSeq(tab.listed, 1, k)]
      PROVE  PagesInv'
  <2> DEFINE shown == SubSeq(tab.listed, 1, k)
  <2>1. shown \in Seq(Account) /\ DOMAIN shown \subseteq Index
    BY <1>1, ShownIs
  <2>2. tab' = [tab EXCEPT !.buttons = shown]
    BY <1>3
  <2> HIDE DEF shown
  <2>3. tab' = [tab EXCEPT !.send = tab.send, !.handed = tab.handed,
                           !.buttons = shown]
    BY <2>2, TabIs DEF TabRecord
  <2>4. TabStays
    BY <2>1, <2>3, TabIs, TabChanges DEF TabStays
  <2>5. QED  BY <1>1, <1>3, <2>4, EndQuietlyOK
<1>4. ASSUME NEW k \in 0 .. Len(tab.listed), CanBeSent,
             NEW i \in DOMAIN tab.listed,
             tab' = [[tab EXCEPT !.buttons = SubSeq(tab.listed, 1, k)]
                       EXCEPT !.send = TRUE],
             GoesOn(c, New("token", tab.listed[i], i))
      PROVE  PagesInv'
  <2> DEFINE shown == SubSeq(tab.listed, 1, k)
  <2>1. shown \in Seq(Account) /\ DOMAIN shown \subseteq Index
    BY <1>1, ShownIs
  <2>2. tab' = [[tab EXCEPT !.buttons = shown] EXCEPT !.send = TRUE]
    BY <1>4
  <2> HIDE DEF shown
  <2>3. tab' = [tab EXCEPT !.send = TRUE, !.handed = tab.handed,
                           !.buttons = shown]
    BY <2>2, TabIs DEF TabRecord
  <2>4. TabGoesOn /\ tab'.send = TRUE /\ tab'.handed = tab.handed
    BY <2>1, <2>3, TabIs, TabChanges
  <2>5. i \in Index /\ tab.listed[i] \in OrNull(Account)
    <3>1. tab.listed \in Seq(Account) /\ DOMAIN tab.listed \subseteq Index
      BY <1>1, TabIs
    <3>2. tab.listed[i] \in Account
      BY <1>4, <3>1
    <3>3. QED  BY <1>4, <3>1, <3>2 DEF OrNull
  <2>6. /\ Becomes(c, New("token", tab.listed[i], i))
        /\ UNCHANGED server /\ ~tab.send /\ tab.page # "none"
    BY <1>1, <1>4, CallIs DEF GoesOn, Becomes, CanBeSent
  <2>7. QED  BY <1>1, <2>4, <2>5, <2>6, AskOK
<1>5. QED  BY <1>2, <1>3, <1>4 DEF UpdateUserButton

LEMMA TokenCameOK ==
  ASSUME PagesInv, NEW c \in Call, TokenCame(c)
  PROVE  PagesInv'
<1>1. calls[c] # Null /\ Asks(calls[c]) /\ calls[c].does = "token"
  BY DEF TokenCame, Got, Asks
<1>2. ASSUME NEW token \in Token, tab' = Handed(token), End(c)
      PROVE  PagesInv'
  <2>1. Becomes(c, Null) /\ ~Asks(Null)
    BY <1>2 DEF End, Becomes, Asks
  <2>2. tab.handed = <<>> /\ Asked' = {}
    BY <1>1, <2>1, AskedEnds
  <2>3. TabGoesOn /\ tab'.send = TRUE /\ Len(tab'.handed) = 1
    BY <1>2, <2>2, HandedIs
  <2>4. TokensOK'
    BY <2>2, <2>3 DEF TokensOK
  <2>5. QED  BY <1>1, <1>2, <2>3, <2>4, EndOK
<1>3. ASSUME GoesOn(c, New("update", Null, 0)), tab' = [tab EXCEPT !.send = FALSE]
      PROVE  PagesInv'
  <2> DEFINE q == New("update", Null, 0)
  <2>1. q \in CallRecord /\ q # Null /\ q.does = "update"
    BY NullIndex, NewOK DEF Does
  <2>2. Becomes(c, q) /\ UNCHANGED server /\ tab.page # "none"
    BY <1>1, <1>3, CallIs DEF GoesOn, Becomes
  <2> HIDE DEF q
  <2>3. ~Asks(q) /\ Meant(tab', q) /\ Keeps(calls[c], q)
    BY <1>1, <2>1 DEF Asks, Meant, Keeps, OptionsOf, ChallengeOf
  <2>4. TabGoesOn /\ tab'.send = FALSE /\ tab'.handed = tab.handed
    BY <1>3, FlagChanges
  <2>5. TokensOK'
    BY <1>1, <2>2, <2>3, <2>4, AskedEnds DEF TokensOK
  <2>6. QED  BY <2>1, <2>2, <2>3, <2>4, <2>5, ContinuesOK
<1>4. [name |-> calls[c].name, of |-> calls[c].of] \in Token
  BY <1>1, CallIs DEF Token
<1>5. QED  BY <1>2, <1>3, <1>4 DEF TokenCame

LEMMA ManagerListsOK ==
  ASSUME PagesInv, ManagerLists
  PROVE  PagesInv'
<1> DEFINE names == Names(session)
<1>1. /\ tab' = [tab EXCEPT !.listed = names] /\ UNCHANGED <<calls, server>>
      /\ tab.page = "external"
  BY DEF ManagerLists, Listed
<1>2. /\ session.accounts \in Seq(Entry) /\ Len(session.accounts) \in Nat
      /\ DOMAIN session.accounts = 1 .. Len(session.accounts)
      /\ DOMAIN session.accounts \subseteq Index
      /\ \A i \in DOMAIN session.accounts : session.accounts[i] \in Entry
  BY SessionIs DEF PagesInv, CopiesOK, CopyOK
<1>3. names \in [1 .. Len(session.accounts) -> Account]
  BY <1>2 DEF Names, Entry
<1>4. names \in Seq(Account) /\ DOMAIN names \subseteq Index
  BY <1>2, <1>3
<1> HIDE DEF names
<1>5. /\ tab' \in TabRecord /\ tab'.listed = names /\ tab'.page = tab.page
      /\ tab'.buttons = tab.buttons /\ tab'.account = tab.account
      /\ tab'.flow = tab.flow
      /\ tab'.send = tab.send /\ tab'.handed = tab.handed
  BY <1>1, <1>4, TabIs DEF TabRecord, OrNull
<1>6. TabStays
  BY <1>1, <1>4, <1>5, TabIs DEF TabStays, TabGoesOn, TabOK
<1>7. \A d \in Call : Keeps(calls[d], calls'[d])
  BY <1>1 DEF Keeps
<1>8. QED  BY <1>1, <1>6, <1>7, CopiesGoOn, CallsStayOK

-----------------------------------------------------------------------------
(* Steps that answers, the authenticator and clicks cause                  *)

\* A call whose answer came
LEMMA GotIs ==
  ASSUME PagesInv, NEW c \in Call, NEW does, NEW answer, Got(c, does, answer)
  PROVE  /\ calls[c] # Null /\ calls[c] \in CallRecord
         /\ calls[c].does = does /\ calls[c].answer = answer
         /\ Meant(tab, calls[c]) /\ tab.page # "none"
         /\ does # "token" => ~Asks(calls[c])
BY CallIs DEF Got, Asks

\* A call of a login goes on about the same account.
LEMMA RenewOK ==
  ASSUME PagesInv, NEW c \in Call, NEW does \in {"authenticate", "verify"},
         NEW name \in OrNull(Account), GoesOn(c, New(does, name, 0)),
         calls[c] # Null, ~Asks(calls[c]), TabStays,
         Meant(tab', New(does, name, 0)),
         \A a : OptionsOf(calls[c], a) => a = name,
         \A a : ~ChallengeOf(calls[c], a)
  PROVE  PagesInv'
<1> DEFINE q == New(does, name, 0)
<1>1. q \in CallRecord /\ q # Null /\ q.does = does /\ q.name = name
  BY NullIndex, NewOK DEF Does
<1> HIDE DEF q
<1>2. Asks(calls[c]) = Asks(q) /\ Keeps(calls[c], q)
  BY <1>1 DEF Asks, Keeps, OptionsOf
<1>3. QED  BY <1>1, <1>2, GoesOnOK DEF q

LEMMA TurnBackOK ==
  ASSUME PagesInv, NEW c \in Call, TurnBack(c)
  PROVE  PagesInv'
<1>1. PICK does \in {"options", "verify", "login"},
           answer \in {"hasLoggedIn", "usePassword", "forbidden"} :
        Got(c, does, answer)
  BY DEF TurnBack
<1>2. /\ calls[c] # Null /\ ~Asks(calls[c]) /\ tab.account \in Account
  BY <1>1, GotIs DEF Meant
<1>3. TurnsTo(c) \in Flow
  BY DEF TurnsTo, Flow
<1>4. TabStays
  BY <1>2, <1>3, ShowsSomething DEF TurnBack
<1>5. QED  BY <1>2, <1>4, EndQuietlyOK DEF TurnBack

LEMMA TryPasskeyOK ==
  ASSUME PagesInv, NEW c \in Call, TryPasskey(c)
  PROVE  PagesInv'
<1> DEFINE name == calls[c].name
<1>1. /\ calls[c] # Null /\ calls[c].does = "options" /\ ~Asks(calls[c])
      /\ tab.page = "login" /\ tab.account \in Account /\ name \in Account
  BY GotIs DEF TryPasskey, Meant
<1>2. TabStays
  BY <1>1, ShowsSomething DEF TryPasskey, Flow
<1>3. GoesOn(c, New("authenticate", name, 0))
  BY DEF TryPasskey
<1>4. Meant(tab', New("authenticate", name, 0))
  BY <1>1, <1>2 DEF Meant, New, TabStays, TabGoesOn
<1>5. \A a : OptionsOf(calls[c], a) => a = name
  BY <1>1 DEF OptionsOf
<1>6. \A a : ~ChallengeOf(calls[c], a)
  BY <1>1 DEF ChallengeOf
<1>7. name \in OrNull(Account)
  BY <1>1 DEF OrNull
<1>8. QED  BY <1>1, <1>2, <1>3, <1>4, <1>5, <1>6, <1>7, RenewOK

LEMMA AuthenticatorAnswersOK ==
  ASSUME PagesInv, NEW c \in Call, AuthenticatorAnswers(c)
  PROVE  PagesInv'
<1>1. TabStays /\ tab' = tab
  BY ShowsSomething DEF AuthenticatorAnswers
<1>2. CASE Got(c, "authenticate", "none")
           /\ GoesOn(c, New("verify", calls[c].name, 0))
  <2> DEFINE name == calls[c].name
  <2>1. /\ calls[c] # Null /\ calls[c].does = "authenticate" /\ ~Asks(calls[c])
        /\ tab.page = "login" /\ tab.account \in Account /\ name \in Account
    BY <1>2, GotIs DEF Meant
  <2>2. Meant(tab', New("verify", name, 0))
    BY <1>1, <2>1 DEF Meant, New
  <2>3. \A a : OptionsOf(calls[c], a) => a = name
    BY <2>1 DEF OptionsOf
  <2>4. \A a : ~ChallengeOf(calls[c], a)
    BY <2>1 DEF ChallengeOf
  <2>5. name \in OrNull(Account)
    BY <2>1 DEF OrNull
  <2>6. QED  BY <1>1, <1>2, <2>1, <2>2, <2>3, <2>4, <2>5, RenewOK
<1>3. CASE Got(c, "create", "none")
           /\ GoesOn(c, [calls[c] EXCEPT !.does = "regVerify"])
  <2> DEFINE q == [calls[c] EXCEPT !.does = "regVerify"]
  <2>1. calls[c] # Null /\ calls[c] \in CallRecord /\ calls[c].does = "create"
    BY <1>3, GotIs
  <2>2. q \in CallRecord /\ q.does = "regVerify" /\ q.of = calls[c].of
    BY <2>1 DEF CallRecord, Does
  <2> HIDE DEF q
  <2>3. q # Null
    BY <2>2, LoginPagesAssumption
  <2>4. /\ Asks(calls[c]) = Asks(q) /\ Keeps(calls[c], q) /\ Meant(tab', q)
    BY <2>1, <2>2, <2>3 DEF Asks, Keeps, OptionsOf, ChallengeOf, Meant
  <2>5. QED  BY <1>1, <1>3, <2>1, <2>2, <2>4, GoesOnOK DEF q
<1>4. QED  BY <1>2, <1>3 DEF AuthenticatorAnswers

\* Calls that end without a change of the page
LEMMA EndsOnlyOK ==
  ASSUME PagesInv, NEW c \in Call,
         AuthenticatorThrows(c) \/ Switched(c) \/ Reports(c)
  PROVE  PagesInv'
<1>1. \E does \in Does \ {"token"}, answer \in Answer : Got(c, does, answer)
  BY DEF AuthenticatorThrows, Switched, Reports, Does, Answer
<1>2. calls[c] # Null /\ ~Asks(calls[c])
  BY <1>1, GotIs
<1>3. TabStays /\ End(c)
  BY ShowsSomething DEF AuthenticatorThrows, Switched, Reports
<1>4. QED  BY <1>2, <1>3, EndQuietlyOK

LEMMA LoggedInOK ==
  ASSUME PagesInv, NEW c \in Call, LoggedIn(c) \/ UserRegistered(c)
  PROVE  PagesInv'
<1>1. PICK does \in {"verify", "login", "register"} : Got(c, does, "success")
  BY DEF LoggedIn, UserRegistered
<1>2. /\ calls[c] # Null /\ calls[c].does = does /\ ~Asks(calls[c])
      /\ Meant(tab, calls[c])
  BY <1>1, GotIs
<1>3. GoesOn(c, New("switch", Null, 0))
  BY DEF LoggedIn, LoginSuccess, UserRegistered
<1>4. TabStays
  <2>1. CASE LoggedIn(c)
    BY <2>1, ShowsSomething DEF LoggedIn, LoginSuccess, Flow
  <2>2. CASE UserRegistered(c)
    <3>1. calls[c].does = "register"
      BY <2>2, GotIs DEF UserRegistered
    <3>2. tab.page = "register"
      BY <1>2, <3>1 DEF Meant
    <3>3. QED  BY <2>2, <3>2, ShowsSomething DEF UserRegistered, Flow
  <2>3. QED  BY <2>1, <2>2
<1>5. Meant(tab', New("switch", Null, 0))
  BY DEF Meant, New
<1>6. \A a : ~ChallengeOf(calls[c], a)
  BY <1>2 DEF ChallengeOf
<1> DEFINE q == New("switch", Null, 0)
<1>7. q \in CallRecord /\ q # Null /\ q.does = "switch"
  BY NullIndex, NewOK DEF Does
<1> HIDE DEF q
<1>8. Asks(calls[c]) = Asks(q) /\ Keeps(calls[c], q)
  BY <1>2, <1>6, <1>7 DEF Asks, Keeps, OptionsOf
<1>9. QED  BY <1>2, <1>3, <1>4, <1>5, <1>7, <1>8, GoesOnOK DEF q

LEMMA StartRegistrationOK ==
  ASSUME PagesInv, NEW c \in Call, StartRegistration(c)
  PROVE  PagesInv'
<1> DEFINE q == [calls[c] EXCEPT !.does = "create", !.answer = "none"]
<1>1. /\ calls[c] # Null /\ calls[c] \in CallRecord
      /\ calls[c].does = "regOptions"
  BY GotIs DEF StartRegistration
<1>2. q \in CallRecord /\ q.does = "create" /\ q.of = calls[c].of
  BY <1>1 DEF CallRecord, Does, Answer
<1>3. GoesOn(c, q) /\ TabStays
  BY ShowsSomething DEF StartRegistration
<1> HIDE DEF q
<1>4. q # Null
  BY <1>2, LoginPagesAssumption
<1>5. /\ Asks(calls[c]) = Asks(q) /\ Keeps(calls[c], q) /\ Meant(tab', q)
  BY <1>1, <1>2, <1>4 DEF Asks, Keeps, OptionsOf, ChallengeOf, Meant
<1>6. QED  BY <1>1, <1>2, <1>3, <1>5, GoesOnOK

LEMMA PasskeyRegisteredOK ==
  ASSUME PagesInv, NEW c \in Call, PasskeyRegistered(c)
  PROVE  PagesInv'
<1>1. calls[c] # Null /\ ~Asks(calls[c])
  BY GotIs DEF PasskeyRegistered
<1>2. TabStays /\ End(c)
  BY ShowsSomething DEF PasskeyRegistered, Flow
<1>3. QED  BY <1>1, <1>2, EndQuietlyOK

LEMMA ReceiveOK ==
  ASSUME PagesInv, NEW c \in Call, Receive(c) \/ Authenticator(c)
  PROVE  PagesInv'
BY TurnBackOK, TryPasskeyOK, LoggedInOK, EndsOnlyOK, StartRegistrationOK,
   PasskeyRegisteredOK, UpdateUserButtonOK, TokenCameOK, AuthenticatorAnswersOK
   DEF Receive, Authenticator

LEMMA ClicksOK ==
  ASSUME PagesInv, Clicks
  PROVE  PagesInv'
<1>1. /\ 0 \in Index /\ Null \in OrNull(Account) /\ Account \subseteq OrNull(Account)
  BY NullIndex DEF OrNull
<1>2. CASE AccountFormSubmit
  <2>1. PICK name \in Account :
          tab' = [tab EXCEPT !.account = name] /\ Begin("options", name, 0)
    BY <1>2 DEF AccountFormSubmit
  <2>2. TabStays /\ tab.page = "login" /\ tab'.account = name
    BY <1>2, <2>1, ShowsSomething, TabIs DEF AccountFormSubmit, Shows, TabRecord
  <2>3. Meant(tab', New("options", name, 0))
    BY <2>2 DEF Meant, New, TabStays, TabGoesOn
  <2>4. QED  BY <1>1, <2>1, <2>2, <2>3, BeginOK DEF Does
<1>3. CASE Retry \/ PasswordFormSubmit
  <2>1. PICK does \in {"options", "login"} : Begin(does, tab.account, 0)
    BY <1>3 DEF Retry, PasswordFormSubmit
  <2>2. TabStays /\ tab.page = "login" /\ tab.account \in Account /\ tab' = tab
    BY <1>3, ShowsSomething, TabIs DEF Retry, PasswordFormSubmit, Shows, TabOK
  <2>3. Meant(tab', New(does, tab.account, 0))
    BY <2>2 DEF Meant, New
  <2>4. QED  BY <1>1, <2>1, <2>2, <2>3, BeginOK DEF Does
<1>4. CASE InfoFormSubmit
  <2>1. PICK name \in Account : Begin("register", name, 0)
    BY <1>4 DEF InfoFormSubmit
  <2>2. TabStays /\ tab.page = "register" /\ tab' = tab
    BY <1>4, ShowsSomething DEF InfoFormSubmit, Shows
  <2>3. Meant(tab', New("register", name, 0))
    BY <2>2 DEF Meant, New
  <2>4. QED  BY <1>1, <2>1, <2>2, <2>3, BeginOK DEF Does
<1>5. CASE RegisterPasskey
  <2>1. PICK i \in Index : Begin("regOptions", Null, i)
    BY <1>5 DEF RegisterPasskey
  <2>2. TabStays /\ tab.page = "register"
    BY <1>5, ShowsSomething DEF RegisterPasskey, Shows
  <2>3. Meant(tab', New("regOptions", Null, i))
    BY DEF Meant, New
  <2>4. QED  BY <1>1, <2>1, <2>2, <2>3, BeginOK DEF Does
<1>6. CASE UsePassword \/ CancelPassword \/ SkipPasskey
  <2>1. UNCHANGED <<calls, server>>
    BY <1>6 DEF UsePassword, CancelPassword, SkipPasskey
  <2>2. TabStays
    <3>1. CASE UsePassword
      <4>1. tab.account \in Account
        BY <3>1, TabIs DEF UsePassword, Shows, TabOK
      <4>2. QED  BY <3>1, <4>1, ShowsSomething DEF UsePassword, Flow
    <3>2. CASE CancelPassword \/ SkipPasskey
      BY <3>2, ShowsSomething DEF CancelPassword, SkipPasskey, Flow
    <3>3. QED  BY <1>6, <3>1, <3>2
  <2>3. \A d \in Call : Keeps(calls[d], calls'[d])
    BY <2>1 DEF Keeps
  <2>4. QED  BY <2>1, <2>2, <2>3, CopiesGoOn, CallsStayOK
<1>7. CASE OtherLogin
  BY <1>7, LeaveOK DEF OtherLogin
<1>8. QED
  BY <1>2, <1>3, <1>4, <1>5, <1>6, <1>7, AccountButtonClickOK,
     GuestButtonClickOK DEF Clicks

-----------------------------------------------------------------------------
(* The theorems                                                            *)

LEMMA InitOK == Init => PagesInv
<1> SUFFICES ASSUME Init PROVE PagesInv
  OBVIOUS
<1>1. /\ tab \in Opened("none") /\ calls \in FirstCalls("none") /\ "none" \in Page
      /\ session = [accounts |-> <<>>, options |-> Null]
      /\ loaded = [c \in Call |-> Null] /\ others = {}
  BY DEF Init, Page
<1>2. /\ TabOK(tab) /\ tab.page = "none" /\ ~tab.send /\ tab.handed = <<>>
      /\ calls \in [Call -> OrNull(CallRecord)]
      /\ \A c \in Call : calls[c] = Null
      /\ \A c \in Call : Meant(tab, calls[c]) /\ ~Asks(calls[c])
  BY <1>1, PageIs
<1>3. Asked = {}
  BY <1>2 DEF Asked
<1>4. TokensOK /\ PagesOK /\ Types
  BY <1>1, <1>2, <1>3 DEF TokensOK, PagesOK, Types
<1>5. /\ <<>> \in Seq(Entry) /\ Len(<<>>) <= MaxUsers
      /\ Null \in OrNull([challenge: Call, account: Account])
      /\ DOMAIN session.accounts = {} /\ session.options = Null
  BY <1>1, LoginPagesAssumption DEF OrNull
<1>6. IsSession(session)
  BY <1>1, <1>5, IsASession
<1>7. CopiesOK
  BY <1>1, <1>5, <1>6 DEF CopiesOK, CopyOK
<1>8. QED  BY <1>4, <1>7 DEF PagesInv

LEMMA NextOK ==
  ASSUME PagesInv, [Next]_vars
  PROVE  PagesInv'
<1>1. CASE UNCHANGED vars
  BY <1>1 DEF vars, server, PagesInv, Types, TokensOK, Asked, PagesOK, CopiesOK
<1>2. CASE \E page \in Page \ {"none"} : Opens(page)
  BY <1>2, OpensOK
<1>3. QED
  BY <1>1, <1>2, ServeOK, FailOK, ReceiveOK, ClicksOK, OtherLoadsOK,
     OtherStoresOK, ManagerListsOK, LeaveOK DEF Next

\* The invariant all the others follow from
THEOREM PagesInvariant == Spec => []PagesInv
BY InitOK, NextOK, PTL DEF Spec

\* Pages, calls, the session and all copies of it have their types, whatever
\* requests of whatever tabs store.
THEOREM TypesAreKept == Spec => []TypeOK
<1>1. PagesInv => TypeOK
  BY DEF PagesInv, Types, TabOK, CopiesOK, CopyOK, TypeOK
<1>2. QED  BY <1>1, PagesInvariant, PTL

\* The buttons are blocked exactly while a token is asked for or was handed
\* over, and there is one at most.
THEOREM TokenOnce == Spec => []OneToken
<1>1. ASSUME PagesInv PROVE OneToken
  <2>1. Asked = {c \in Call : calls[c] # Null /\ calls[c].does = "token"}
    BY DEF Asked, Asks
  <2>2. OneToken <=> Len(tab.handed) + Cardinality(Asked) = IF tab.send THEN 1 ELSE 0
    BY <2>1 DEF OneToken
  <2>3. Cardinality({}) = 0 /\ \A c : Cardinality({c}) = 1
    BY FS_EmptySet, FS_Singleton
  <2>4. Len(<<>>) = 0
    OBVIOUS
  <2>5. TokensOK
    BY <1>1 DEF PagesInv
  <2>6. Len(tab.handed) + Cardinality(Asked) = IF tab.send THEN 1 ELSE 0
    <3>1. CASE tab.send /\ tab.handed = <<>>
      <4>1. Cardinality(Asked) = 1 \/ Len(tab.handed) = 1
        BY <2>3, <2>5, <3>1 DEF TokensOK
      <4>2. QED  BY <2>3, <2>4, <2>5, <3>1, <4>1 DEF TokensOK
    <3>2. CASE tab.send /\ tab.handed # <<>>
      <4>1. Len(tab.handed) = 1 /\ Asked = {}
        BY <2>5, <3>2 DEF TokensOK
      <4>2. Cardinality(Asked) = 0
        BY <2>3, <4>1
      <4>3. QED  BY <3>2, <4>1, <4>2
    <3>3. CASE ~tab.send
      BY <2>3, <2>4, <2>5, <3>3 DEF TokensOK
    <3>4. QED  BY <3>1, <3>2, <3>3
  <2>7. QED  BY <2>2, <2>6
<1>2. QED  BY <1>1, PagesInvariant, PTL

-----------------------------------------------------------------------------
(* Who answers with success                                                *)

Handler(c, does) ==
  CASE does = "verify" -> VerifyAuthentication(c)
    [] does = "login" -> LoginByPassword(c)
    [] does = "register" -> Register(c)
    [] does = "regVerify" -> VerifyRegistration(c)

\* Nothing but the handler of its route answers a request.
LEMMA HandlerAnswers ==
  ASSUME PagesInv, NEW c \in Call,
         NEW does \in {"verify", "login", "register", "regVerify"},
         Pending(c, does), [Next]_vars,
         calls'[c] # Null, calls'[c].answer = "success"
  PROVE  Handler(c, does)
<1>1. /\ calls[c] # Null /\ calls[c].does = does
      /\ calls[c].answer = "none" /\ calls[c] \in CallRecord
      /\ calls \in [Call -> OrNull(CallRecord)]
  BY CallIs DEF Pending, PagesInv, Types
<1>2. calls'[c] # calls[c]
  BY <1>1
<1>3. PICK d \in Call : \/ Serve(d) \/ Fail(d) \/ Receive(d) \/ Authenticator(d)
                        \/ \E other, name, index :
                             calls[d] = Null /\ Becomes(d, New(other, name, index))
  <2>1. ~Leave /\ \A page \in Page : ~Opens(page)
    BY <1>1 DEF Leave, Opens, FirstCalls, New
  <2>2. ~OtherLoads /\ ~OtherStores /\ ~ManagerLists /\ ~UNCHANGED vars
    BY <1>2 DEF OtherLoads, OtherStores, ManagerLists, vars
  <2>3. ASSUME Clicks
        PROVE  \E d \in Call : \E other, name, index :
                 calls[d] = Null /\ Becomes(d, New(other, name, index))
    <3>1. calls' # calls
      BY <1>2
    <3>2. CASE \E other, name, index : Begin(other, name, index)
      <4>1. PICK other, name, index : Begin(other, name, index)
        BY <3>2
      <4>2. PICK d \in Call :
              calls[d] = Null /\ Becomes(d, New(other, name, index))
        BY <4>1 DEF Begin, Becomes
      <4>3. QED  BY <4>2
    <3>3. QED
      BY <2>1, <2>3, <3>1, <3>2
         DEF Clicks, AccountFormSubmit, Retry, UsePassword, PasswordFormSubmit,
             CancelPassword, InfoFormSubmit, SkipPasskey, RegisterPasskey,
             OtherLogin, AccountButtonClick, GuestButtonClick
  <2>4. QED  BY <2>1, <2>2, <2>3 DEF Next
<1>4. ASSUME NEW q, Becomes(d, q) PROVE d = c /\ q = calls'[c]
  BY <1>2, <1>4, CallChanges
<1>5. Serve(d)
  <2>1. ~Fail(d)
    BY <1>4 DEF Fail, End, Becomes
  <2>2. ASSUME Receive(d) \/ Authenticator(d) PROVE FALSE
    <3>1. ASSUME End(d) \/ Leave PROVE FALSE
      BY <1>1, <1>4, <3>1 DEF End, Becomes, Leave, FirstCalls, New
    <3>2. ASSUME NEW q, GoesOn(d, q),
                 calls[d].answer # "none"
                   \/ calls[d].does \in {"authenticate", "create", "update"}
          PROVE  FALSE
      BY <1>1, <1>4, <3>2 DEF GoesOn, Becomes
    <3>3. QED
      BY <2>2, <3>1, <3>2
         DEF Receive, Authenticator, TurnBack, TryPasskey, LoggedIn,
             LoginSuccess, Switched, Reports, UserRegistered,
             StartRegistration, PasskeyRegistered, UpdateUserButton, TokenCame,
             AuthenticatorAnswers, AuthenticatorThrows, Got
  <2>3. \A other, name, index :
          ~(calls[d] = Null /\ Becomes(d, New(other, name, index)))
    BY <1>1, <1>4
  <2>4. QED  BY <1>3, <2>1, <2>2, <2>3
<1>6. d = c /\ ~Loads(d)
  <2>1. ~Loads(d)
    BY <1>2 DEF Loads
  <2>2. \E q : Becomes(d, q)
    BY <1>5, <2>1 DEF Becomes, Serve, GenerateOptions, VerifyAuthentication,
       LoginByPassword, Register, GenerateRegistration, VerifyRegistration,
       CreateToken, Reply, Enter, Stores
  <2>3. QED  BY <1>4, <2>1, <2>2
<1>7. QED
  BY <1>1, <1>5, <1>6
     DEF Handler, Serve, GenerateOptions, VerifyAuthentication, LoginByPassword,
         Register, GenerateRegistration, VerifyRegistration, CreateToken, Pending

\* An answer with success is not one of the others.
LEMMA NotAnswered ==
  ASSUME PagesInv, NEW c \in Call, NEW does, Pending(c, does),
         NEW answer \in Answer \ {"success"}, NEW s, Stores(c, Answered(c, answer), s)
  PROVE  calls'[c] # Null /\ calls'[c].answer # "success"
<1> DEFINE q == Answered(c, answer)
<1>1. q # Null /\ q.answer = answer
  BY AnswerIs
<1>2. Becomes(c, q)
  BY DEF Stores, Becomes
<1> HIDE DEF q
<1>3. calls'[c] = q
  BY <1>2, CallChanges
<1>4. QED  BY <1>1, <1>3

\* Whoever enters is found at the index of the answer.
LEMMA EnteredAtIndex ==
  ASSUME PagesInv, NEW c \in Call, NEW does, Pending(c, does), NEW names,
         NEW name \in Account, NEW options \in {Null, Mine(c).options},
         Enter(c, name, names, options)
  PROVE  session'.accounts[calls'[c].index].account \in names \cup {name}
<1> DEFINE s == Mine(c)
           i == PlaceOf(s, names)
           q == [Answered(c, "success") EXCEPT !.index = i]
           accounts == Entered(s.accounts, i, name)
<1>1. i <= MaxUsers /\ Stores(c, q, [accounts |-> accounts, options |-> options])
  BY DEF Enter
<1>2. i \in Index /\ accounts[i].account \in names \cup {name}
  BY <1>1, MineOK, EnterIs
<1>3. q.index = i
  BY <1>2, AnswerWithIndexIs DEF Answer
<1> HIDE DEF q, accounts, i
<1>4. Becomes(c, q) /\ session' = [accounts |-> accounts, options |-> options]
  BY <1>1 DEF Stores, Becomes
<1>5. calls'[c] = q /\ session'.accounts = accounts
  BY <1>4, CallChanges
<1>6. QED  BY <1>2, <1>3, <1>5

\* A login is that of the user it was meant for: the options a copy of the
\* session has are those of the call they were made for, and so is the name.
THEOREM LoginGoesToTheUser == Spec => LoginGoesToItsUser
<1>1. ASSUME PagesInv, [Next]_vars, NEW c \in Call,
             NEW does \in {"verify", "login", "register"}, Pending(c, does),
             calls'[c] # Null, calls'[c].answer = "success"
      PROVE  UserOf[session'.accounts[calls'[c].index].account]
               = UserOf[calls[c].name]
  <2> DEFINE s == Mine(c)
             name == calls[c].name
             row == {a \in Account : UserOf[a] = UserOf[name]}
  <2>1. Handler(c, does)
    BY <1>1, HandlerAnswers
  <2>2. name \in Account /\ calls[c].does = does
    BY <1>1, CallIs DEF Pending, Meant
  <2>3. CopyOK(calls, s) /\ IsSession(s)
    BY <1>1, MineOK
  <2>4. ASSUME NEW names, names \subseteq row, NEW options \in {Null, s.options},
               Enter(c, name, names, options)
        PROVE  UserOf[session'.accounts[calls'[c].index].account] = UserOf[name]
    <3>1. session'.accounts[calls'[c].index].account \in names \cup {name}
      BY <1>1, <2>2, <2>4, EnteredAtIndex
    <3>2. QED  BY <2>4, <3>1
  <2>5. CASE does = "verify"
    <3>1. VerifyAuthentication(c)
      BY <2>1, <2>5 DEF Handler
    <3>2. \A answer \in {"failed", "hasLoggedIn"} :
            ~Stores(c, Answered(c, answer), [s EXCEPT !.options = Null])
      BY <1>1, NotAnswered DEF Answer
    <3>3. /\ Matches(c, s.options)
          /\ Enter(c, s.options.account,
                   {a \in Account : UserOf[a] = UserOf[s.options.account]}, Null)
      BY <3>1, <3>2 DEF VerifyAuthentication
    <3>4. s.options.account = name
      BY <2>2, <2>3, <2>5, <3>3 DEF CopyOK, Matches, OptionsOf
    <3>5. Enter(c, name, row, Null)
      BY <3>3, <3>4
    <3>6. QED  BY <2>4, <3>5
  <2>6. CASE does = "login"
    <3>1. LoginByPassword(c)
      BY <2>1, <2>6 DEF Handler
    <3>2. \A answer \in {"forbidden", "hasLoggedIn"} : ~Reply(c, answer)
      BY <1>1, NotAnswered DEF Answer, Reply
    <3>3. Enter(c, name, {name}, s.options) /\ {name} \subseteq row
      BY <2>2, <3>1, <3>2 DEF LoginByPassword
    <3>4. QED  BY <2>4, <3>3
  <2>7. CASE does = "register"
    <3>1. Register(c)
      BY <2>1, <2>7 DEF Handler
    <3>2. Enter(c, name, {}, s.options) /\ {} \subseteq row
      BY <3>1 DEF Register
    <3>3. QED  BY <2>4, <3>2
  <2>8. QED  BY <2>5, <2>6, <2>7
<1>2. ASSUME PagesInv, [Next]_vars
      PROVE  [\A c \in Call : \A does \in {"verify", "login", "register"} :
                Pending(c, does) /\ calls'[c] # Null
                  /\ calls'[c].answer = "success" =>
                    UserOf[session'.accounts[calls'[c].index].account]
                      = UserOf[calls[c].name]]_vars
  BY <1>1, <1>2
<1>3. QED  BY <1>2, PagesInvariant, PTL DEF Spec, LoginGoesToItsUser

\* A passkey is stored for the user whose account the authenticator was told:
\* the challenge went with the user, and is that of a call about this account.
THEOREM PasskeyGoesToTheUser == Spec => PasskeyGoesToItsUser
<1>1. ASSUME PagesInv, [Next]_vars, NEW c \in Call, Pending(c, "regVerify"),
             calls'[c] # Null, calls'[c].answer = "success"
      PROVE  Mine(c).accounts[calls[c].index].account = calls[c].of
  <2> DEFINE s == Mine(c)
             i == calls[c].index
  <2>1. VerifyRegistration(c)
    BY <1>1, HandlerAnswers DEF Handler
  <2>2. /\ ~Reply(c, "hasNotLoggedIn")
        /\ ~Stores(c, Answered(c, "failed"),
                   [s EXCEPT !.accounts[i].challenge = Null])
    BY <1>1, NotAnswered DEF Answer, Reply
  <2>3. Expects(s, i, c) /\ IsIn(s, i)
    BY <2>1, <2>2 DEF VerifyRegistration
  <2>4. c # Null /\ CopyOK(calls, s)
    BY <1>1, MineOK, LoginPagesAssumption
  <2>5. ChallengeOf(calls[c], s.accounts[i].account)
    BY <2>3, <2>4 DEF CopyOK, Expects, IsIn
  <2>6. QED  BY <2>5 DEF ChallengeOf
<1>2. ASSUME PagesInv, [Next]_vars
      PROVE  [\A c \in Call :
                Pending(c, "regVerify") /\ calls'[c] # Null
                  /\ calls'[c].answer = "success" =>
                    Mine(c).accounts[calls[c].index].account = calls[c].of]_vars
  BY <1>1, <1>2
<1>3. QED  BY <1>2, PagesInvariant, PTL DEF Spec, PasskeyGoesToItsUser
=============================================================================
