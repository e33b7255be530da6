------------------------ MODULE ConsoleAccessProofs ------------------------
(***************************************************************************)
(* The users, sessions and organizations of a node (ConsoleAccess), for    *)
(* any number of clients, tokens and organizations: the types, and the     *)
(* invariants that the theorems of AdministrationProofs about logins and   *)
(* requests rest on.                                                       *)
(***************************************************************************)
EXTENDS ConsoleAccess, FiniteSetTheorems, TLAPS

USE ConsoleAssumption

UserRows == [id: Nat, email: Emails, pass: Nat]
CallShape ==
  [pc: ConsolePcs, op: ConsoleOps, token: Tokens \cup {0}, cookie: AnyCookie, user: Nat,
   by: {"none", "token", "cookie", "hook", "nobody", "code"}, late: BOOLEAN, looked: Nat,
   edition: Nat, listed: SUBSET Orgs, open: SUBSET Orgs, alone: BOOLEAN]

(* Where a request has a token of SSO.                                     *)
WithToken == {"cache", "asking", "answered", "open", "member"}
TokenKnown(r) == r.pc \in WithToken \/ (r.pc = "sso" /\ r.op = "otp") => r.token \in Tokens

UsersOK(table_, last) ==
  /\ table_ \subseteq UserRows /\ IsFiniteSet(table_) /\ last \in Nat
  /\ \A u \in table_ : u.id <= last
  /\ \A u, v \in table_ : (u.email = v.email \/ u.id = v.id) => u = v
JarOK ==
  /\ jar \in [Clients -> [ui: AnyCookie, shared: Tokens \cup {0}]]
  /\ \A c \in Clients : jar[c].ui.kind \in {"sso", "otp"} => jar[c].ui.id \in Tokens
CallOK == call \in [Callers -> CallShape] /\ \A c \in Callers : TokenKnown(call[c])
RemovalsOK == removals \in Nat /\ emptied \in {"never", "fresh", "alone", "together", "cli"}
SessionOK ==
  /\ session \in [Tokens -> [state: {"new", "live", "ended"}, age: 0..TTL]]
  /\ cached \in [Tokens -> 0..TTL] /\ raced \in [Tokens -> BOOLEAN]
BillingOK ==
  /\ billing \in [edition: Nat, listed: SUBSET Orgs, open: SUBSET Orgs]
  /\ billing.open \subseteq billing.listed
DirectoryOK == active \subseteq Orgs /\ heard \in [edition: Nat, open: SUBSET Orgs, tangled: BOOLEAN]
QuotaOK == quota \in [{"request", "outside"} -> Nat]

ConsoleTypes ==
  /\ sso \in BOOLEAN /\ UsersOK(users, serial) /\ RemovalsOK
  /\ JarOK /\ CallOK /\ SessionOK /\ BillingOK /\ DirectoryOK /\ QuotaOK

-----------------------------------------------------------------------------
LEMMA RestShape == Rest \in CallShape /\ TokenKnown(Rest)
BY DEF Rest, CallShape, TokenKnown, ConsolePcs, ConsoleOps, UserOps, AnyCookie, Kinds, NoCookie, Cookie,
       WithToken

(* A request that becomes another is still one.                            *)
LEMMA CallMoves ==
  ASSUME CallOK, NEW c \in Callers, NEW r \in CallShape, TokenKnown(r), Become(c, r)
  PROVE  CallOK'
<1>1. call' = [call EXCEPT ![c] = r]
  BY DEF Become
<1>2. call' \in [Callers -> CallShape]
  BY <1>1 DEF CallOK
<1>3. ASSUME NEW d \in Callers PROVE TokenKnown(call'[d])
  <2>1. CASE d = c
    <3>1. call'[d] = r
      BY <1>1, <2>1 DEF CallOK
    <3> QED
      BY <3>1, Zenon
  <2>2. CASE d # c
    <3>1. call'[d] = call[d]
      BY <1>1, <2>2 DEF CallOK
    <3> QED
      BY <3>1, Zenon DEF CallOK
  <2> QED
    BY <2>1, <2>2
<1> QED
  BY <1>2, <1>3 DEF CallOK

LEMMA CallRests ==
  ASSUME CallOK, NEW c \in Callers, Finish(c)
  PROVE  CallOK'
BY RestShape, CallMoves DEF Finish

LEMMA NoSessionShape ==
  ASSUME NEW c, NEW r \in CallShape, NEW q \in NoSession(c, r)
  PROVE  /\ q \in CallShape /\ TokenKnown(q) /\ q.pc \in {"hook", "first"}
         /\ q.op = r.op /\ q.by = r.by /\ q.token = r.token /\ q.late = r.late
<1>1. q = [r EXCEPT !.pc = "hook"] \/ q = [r EXCEPT !.pc = "first"]
  BY DEF NoSession
<1> QED
  BY <1>1 DEF CallShape, TokenKnown, ConsolePcs, WithToken

LEMMA CookiesShape ==
  ASSUME JarOK, NEW c \in Clients, NEW r \in CallShape, NEW q \in Cookies(c, r)
  PROVE  /\ q \in CallShape /\ TokenKnown(q) /\ q.pc \in {"hook", "first", "cache", "row"}
         /\ q.op = r.op /\ q.by = r.by /\ q.late = r.late
<1> DEFINE ui    == jar[c].ui
           token == IF ui.kind = "sso" THEN ui.id ELSE jar[c].shared
           needed == [r EXCEPT !.cookie = ui, !.token = token]
<1>1. q \in NoSession(c, r) \/ (token # 0 /\ q = [needed EXCEPT !.pc = "cache"])
        \/ q = [needed EXCEPT !.pc = "row"]
  BY DEF Cookies
<1>2. ui \in AnyCookie /\ token \in Tokens \cup {0}
  BY DEF JarOK
<1>3. ASSUME NEW t \in Tokens \cup {0}, NEW k \in AnyCookie, NEW pc \in {"cache", "row"},
             pc = "cache" => t # 0,
             q = [[r EXCEPT !.cookie = k, !.token = t] EXCEPT !.pc = pc]
      PROVE  /\ q \in CallShape /\ TokenKnown(q) /\ q.pc \in {"cache", "row"}
             /\ q.op = r.op /\ q.by = r.by /\ q.late = r.late
  BY <1>3 DEF CallShape, TokenKnown, ConsolePcs, WithToken
<1> HIDE DEF ui, token
<1>4. CASE q \in NoSession(c, r)
  BY <1>4, NoSessionShape
<1>5. CASE token # 0 /\ q = [needed EXCEPT !.pc = "cache"]
  BY <1>2, <1>3, <1>5
<1>6. CASE q = [needed EXCEPT !.pc = "row"]
  BY <1>2, <1>3, <1>6
<1> QED
  BY <1>1, <1>4, <1>5, <1>6

(* Moving on within a request; being admitted.                             *)
LEMMA StepShape ==
  ASSUME NEW r \in CallShape, TokenKnown(r), NEW pc \in ConsolePcs, pc # "sso",
         pc \in WithToken => r.pc \in WithToken
  PROVE  [r EXCEPT !.pc = pc] \in CallShape /\ TokenKnown([r EXCEPT !.pc = pc])
BY DEF CallShape, TokenKnown

LEMMA AdmitShape ==
  ASSUME NEW r \in CallShape, NEW by \in {"none", "token", "cookie", "hook", "nobody", "code"}
  PROVE  [r EXCEPT !.pc = "act", !.by = by] \in CallShape
           /\ TokenKnown([r EXCEPT !.pc = "act", !.by = by])
BY DEF CallShape, TokenKnown, WithToken, ConsolePcs

(* Adding, changing and removing users.                                    *)
LEMMA CreatedOK ==
  ASSUME UsersOK(users, serial), NEW email \in Emails, Created(email)
  PROVE  UsersOK(users, serial)'
<1> DEFINE new == [id |-> serial + 1, email |-> email, pass |-> serial + 1]
<1>1. /\ users' = users \cup {new} /\ serial' = serial + 1 /\ \A u \in users : u.email # email
  BY DEF Created
<1>2. serial \in Nat /\ users \subseteq UserRows /\ IsFiniteSet(users) /\ \A u \in users : u.id <= serial
  BY DEF UsersOK
<1>3. new \in UserRows /\ new.id = serial + 1 /\ new.email = email
  BY <1>2 DEF UserRows
<1>4. IsFiniteSet(users')
  BY <1>1, <1>2, FS_AddElement
<1> HIDE DEF new
<1>5. \A u \in users : u.id \in Nat /\ u.id # new.id
  BY <1>2, <1>3 DEF UserRows
<1>6. \A u \in users' : u.id <= serial'
  BY <1>1, <1>2, <1>3, <1>5
<1>7. \A u, v \in users' : (u.email = v.email \/ u.id = v.id) => u = v
  BY <1>1, <1>3, <1>5 DEF UsersOK
<1> QED
  BY <1>1, <1>2, <1>3, <1>4, <1>6, <1>7 DEF UsersOK

LEMMA RemovedOK ==
  ASSUME UsersOK(users, serial), NEW u \in users, users' = users \ {u}, serial' = serial
  PROVE  UsersOK(users, serial)'
<1>1. IsFiniteSet(users \ {u})
  BY FS_RemoveElement DEF UsersOK
<1> QED
  BY <1>1 DEF UsersOK

LEMMA ChangedOK ==
  ASSUME UsersOK(users, serial), NEW u \in users, NEW w \in UserRows, w.id = u.id,
         \A v \in users \ {u} : v.email # w.email,
         users' = (users \ {u}) \cup {w}, serial' \in {serial, serial + 1}
  PROVE  UsersOK(users, serial)'
<1>1. IsFiniteSet(users')
  BY FS_RemoveElement, FS_AddElement DEF UsersOK
<1>2. serial \in Nat /\ serial' \in Nat /\ serial <= serial'
  BY DEF UsersOK
<1>3. \A v \in users' : v.id \in Nat /\ v.id <= serial
  BY DEF UsersOK, UserRows
<1>4. \A v \in users' : v.id <= serial'
  BY <1>2, <1>3
<1>5. \A v \in users \ {u} : v.id # w.id
  BY DEF UsersOK
<1>6. \A v, x \in users' : (v.email = x.email \/ v.id = x.id) => v = x
  BY <1>5 DEF UsersOK
<1> QED
  BY <1>1, <1>2, <1>4, <1>6 DEF UsersOK

(* A rest of a budget, a step of a request, a cookie.                      *)
LEMMA PayOK == ASSUME QuotaOK, NEW kind \in {"request", "outside"}, Pay(kind) PROVE QuotaOK'
BY DEF QuotaOK, Pay

LEMMA GiveOK ==
  ASSUME JarOK, NEW c \in Callers, NEW ui \in AnyCookie, ui.kind \in {"sso", "otp"} => ui.id \in Tokens,
         Give(c, ui)
  PROVE  JarOK'
<1>1. jar' = [jar EXCEPT ![c].ui = ui]
  BY DEF Give
<1>2. jar' \in [Clients -> [ui: AnyCookie, shared: Tokens \cup {0}]]
  BY <1>1 DEF JarOK
<1>3. ASSUME NEW d \in Clients PROVE jar'[d].ui = jar[d].ui \/ jar'[d].ui = ui
  BY <1>1 DEF JarOK
<1>4. ASSUME NEW d \in Clients, NEW e, e = jar'[d].ui, e.kind \in {"sso", "otp"} PROVE e.id \in Tokens
  BY <1>3, <1>4, Zenon DEF JarOK
<1> QED
  BY <1>2, <1>4 DEF JarOK

LEMMA GiveTokenOK ==
  ASSUME JarOK, NEW c \in Callers, NEW t \in Tokens, GiveToken(c, t)
  PROVE  JarOK'
<1> DEFINE j == [ui |-> Cookie("sso", t, 0), shared |-> t]
<1>1. jar' = [jar EXCEPT ![c] = j]
  BY DEF GiveToken
<1>2. j \in [ui: AnyCookie, shared: Tokens \cup {0}] /\ j.ui.id \in Tokens
  BY DEF AnyCookie, Cookie, Kinds
<1> HIDE DEF j
<1>3. jar' \in [Clients -> [ui: AnyCookie, shared: Tokens \cup {0}]]
  BY <1>1, <1>2 DEF JarOK
<1>4. ASSUME NEW d \in Clients PROVE jar'[d] = jar[d] \/ jar'[d] = j
  BY <1>1 DEF JarOK
<1>5. ASSUME NEW d \in Clients, NEW e, e = jar'[d].ui, e.kind \in {"sso", "otp"} PROVE e.id \in Tokens
  BY <1>2, <1>4, <1>5, Zenon DEF JarOK
<1> QED
  BY <1>3, <1>5 DEF JarOK

LEMMA StepOK ==
  ASSUME CallOK, NEW c \in Callers, NEW pc \in ConsolePcs, pc # "sso",
         pc \in WithToken => call[c].pc \in WithToken, Step(c, pc)
  PROVE  CallOK'
<1>1. call[c] \in CallShape /\ TokenKnown(call[c])
  BY DEF CallOK
<1>2. [call[c] EXCEPT !.pc = pc] \in CallShape /\ TokenKnown([call[c] EXCEPT !.pc = pc])
  BY <1>1, StepShape
<1> QED
  BY <1>2, CallMoves DEF Step

LEMMA AdmitOK ==
  ASSUME CallOK, NEW c \in Callers, NEW by \in {"token", "cookie", "hook", "nobody"}, Admit(c, by)
  PROVE  CallOK'
<1>1. call[c] \in CallShape
  BY DEF CallOK
<1>2. [call[c] EXCEPT !.pc = "act", !.by = by] \in CallShape
        /\ TokenKnown([call[c] EXCEPT !.pc = "act", !.by = by])
  BY <1>1, AdmitShape
<1> QED
  BY <1>2, CallMoves DEF Admit

LEMMA RefuseOK ==
  ASSUME CallOK, NEW c \in Callers, \E r \in NoSession(c, call[c]) : Become(c, r)
  PROVE  CallOK'
<1>1. PICK r \in NoSession(c, call[c]) : Become(c, r)
  OBVIOUS
<1>2. r \in CallShape /\ TokenKnown(r)
  BY <1>1, NoSessionShape DEF CallOK
<1> QED
  BY <1>1, <1>2, CallMoves

LEMMA OfToken ==
  ASSUME CallOK, NEW c \in Callers, call[c].pc \in WithToken
  PROVE  call[c].token \in Tokens
BY DEF CallOK, TokenKnown

(* A request of a client.                                                  *)
LEMMA RequestTypes ==
  ASSUME ConsoleTypes, NEW c \in Callers,
         \/ ConsoleRequest(c) \/ LookUp(c) \/ Answer(c) \/ Receive(c) \/ CheckOrganization(c)
         \/ ReadUser(c) \/ CheckWebhook(c) \/ CheckFirstBoot(c)
         \/ Show(c) \/ CountUsers(c) \/ BeginLogin(c) \/ BeginCode(c) \/ HasUsers(c)
  PROVE  ConsoleTypes'
<1> USE DEF ConsoleTypes
<1>1. UsersOK(users, serial)' /\ RemovalsOK' /\ JarOK' /\ BillingOK' /\ DirectoryOK' /\ (sso \in BOOLEAN)'
  <2>1. UNCHANGED <<sso, users, serial, removals, emptied, jar, billing, active, heard>>
    BY DEF ConsoleRequest, LookUp, Answer, Receive, CheckOrganization, ReadUser, CheckWebhook,
           CheckFirstBoot, Show, CountUsers, BeginLogin, BeginCode, HasUsers, local, remote, directory
  <2> QED
    BY <2>1 DEF UsersOK, RemovalsOK, JarOK, BillingOK, DirectoryOK
<1>2. CallOK' /\ QuotaOK' /\ SessionOK'
  <2>0. call[c] \in CallShape /\ TokenKnown(call[c])
    BY DEF CallOK
  <2>a. UNCHANGED <<session, cached, raced>> => SessionOK'
    BY DEF SessionOK
  <2>b. UNCHANGED quota => QuotaOK'
    BY DEF QuotaOK
  <2>1. CASE ConsoleRequest(c)
    <3>1. PICK op \in {"page", "cameras"} \cup (IF sso THEN {"sync"} ELSE UserOps) :
            \E r \in Cookies(c, [Rest EXCEPT !.op = op]) : Become(c, r)
      BY <2>1 DEF ConsoleRequest
    <3>2. op \in ConsoleOps
      BY DEF ConsoleOps, UserOps
    <3>3. [Rest EXCEPT !.op = op] \in CallShape
      BY <3>2, RestShape DEF CallShape
    <3>4. PICK r \in Cookies(c, [Rest EXCEPT !.op = op]) : Become(c, r)
      BY <3>1
    <3>5. c \in Clients /\ Pay("request")
      BY <2>1 DEF ConsoleRequest
    <3>6. r \in CallShape /\ TokenKnown(r)
      BY <3>3, <3>4, <3>5, CookiesShape
    <3>7. UNCHANGED <<session, cached, raced>>
      BY <2>1 DEF ConsoleRequest, remote
    <3> QED
      BY <2>a, <3>4, <3>5, <3>6, <3>7, CallMoves, PayOK
  <2>2. CASE LookUp(c)
    <3> DEFINE t    == call[c].token
               late == session[t].state = "ended" /\ session[t].age >= TTL
               pc   == IF Hit(t) THEN "open" ELSE "asking"
    <3>1. Become(c, [call[c] EXCEPT !.pc = pc, !.late = late]) /\ On(c, "cache")
      BY <2>2 DEF LookUp
    <3>2. late \in BOOLEAN /\ pc \in {"open", "asking"}
      OBVIOUS
    <3>3. t \in Tokens
      BY <3>1, OfToken DEF On, WithToken
    <3> HIDE DEF late, pc
    <3>4. /\ [call[c] EXCEPT !.pc = pc, !.late = late] \in CallShape
          /\ TokenKnown([call[c] EXCEPT !.pc = pc, !.late = late])
      BY <2>0, <3>2, <3>3 DEF CallShape, TokenKnown, ConsolePcs
    <3>5. UNCHANGED <<session, cached, raced, quota>>
      BY <2>2 DEF LookUp, remote
    <3> QED
      BY <2>a, <2>b, <3>1, <3>4, <3>5, CallMoves
  <2>3. CASE Answer(c)
    <3>1. UNCHANGED <<session, cached, raced, quota>>
      BY <2>3 DEF Answer, remote
    <3>2. CASE Step(c, "answered")
      <4>1. call[c].pc = "asking"
        BY <2>3 DEF Answer, On
      <4>2. CallOK'
        BY <3>2, <4>1, StepOK DEF WithToken, ConsolePcs
      <4> QED
        BY <2>a, <2>b, <3>1, <4>2
    <3>3. CASE \E r \in NoSession(c, call[c]) : Become(c, r)
      BY <2>a, <2>b, <3>1, <3>3, RefuseOK
    <3> QED
      BY <2>3, <3>2, <3>3 DEF Answer
  <2>4. CASE Receive(c)
    <3>1. On(c, "answered") /\ Step(c, "open") /\ UNCHANGED <<session, raced, quota>>
      BY <2>4 DEF Receive, remote
    <3>2. CallOK'
      BY <3>1, StepOK DEF On, WithToken, ConsolePcs
    <3>3. cached' \in [Tokens -> 0..TTL]
      <4>0. TTL \in 0..TTL /\ 0 \in 0..TTL
        OBVIOUS
      <4>1. /\ [cached EXCEPT ![call[c].token] = TTL] \in [Tokens -> 0..TTL]
            /\ [u \in Tokens |-> IF u = call[c].token THEN TTL ELSE 0] \in [Tokens -> 0..TTL]
        BY <4>0 DEF SessionOK
      <4> QED
        BY <2>4, <4>1 DEF Receive
    <3> QED
      BY <2>b, <3>1, <3>2, <3>3 DEF SessionOK
  <2>5. CASE CheckOrganization(c)
    <3>1. UNCHANGED <<session, cached, raced, quota>>
      BY <2>5 DEF CheckOrganization, remote
    <3>2. Admit(c, "token") \/ \E r \in NoSession(c, call[c]) : Become(c, r)
      BY <2>5, Zenon DEF CheckOrganization
    <3>3. CallOK'
      BY <3>2, AdmitOK, RefuseOK
    <3> QED
      BY <2>a, <2>b, <3>1, <3>3
  <2>6. CASE ReadUser(c)
    <3>1. ASSUME Become(c, [call[c] EXCEPT !.pc = "act", !.by = "cookie", !.user = call[c].cookie.id])
          PROVE  CallOK'
      <4>1. /\ [call[c] EXCEPT !.pc = "act", !.by = "cookie", !.user = call[c].cookie.id] \in CallShape
            /\ TokenKnown([call[c] EXCEPT !.pc = "act", !.by = "cookie", !.user = call[c].cookie.id])
        BY <2>0 DEF CallShape, TokenKnown, WithToken, ConsolePcs, AnyCookie
      <4> QED
        BY <3>1, <4>1, CallMoves
    <3>2. UNCHANGED <<session, cached, raced, quota>>
      BY <2>6 DEF ReadUser, remote
    <3>3. \/ Become(c, [call[c] EXCEPT !.pc = "act", !.by = "cookie", !.user = call[c].cookie.id])
          \/ \E r \in NoSession(c, call[c]) : Become(c, r)
      BY <2>6, Zenon DEF ReadUser
    <3>4. ASSUME \E r \in NoSession(c, call[c]) : Become(c, r) PROVE CallOK'
      BY <3>4, RefuseOK
    <3>5. CallOK'
      BY <3>1, <3>3, <3>4
    <3> QED
      BY <2>a, <2>b, <3>2, <3>5
  <2>7. CASE CheckWebhook(c)
    BY <2>7, <2>a, <2>b, AdmitOK, CallRests DEF CheckWebhook, remote
  <2>8. CASE CheckFirstBoot(c)
    BY <2>8, <2>a, <2>b, AdmitOK, CallRests DEF CheckFirstBoot, remote
  <2>9. CASE Show(c)
    BY <2>9, <2>a, <2>b, CallRests DEF Show, remote
  <2>10. CASE CountUsers(c)
    <3>1. ASSUME Become(c, [call[c] EXCEPT !.pc = "delete", !.looked = removals]) PROVE CallOK'
      <4>1. /\ [call[c] EXCEPT !.pc = "delete", !.looked = removals] \in CallShape
            /\ TokenKnown([call[c] EXCEPT !.pc = "delete", !.looked = removals])
        BY <2>0 DEF CallShape, TokenKnown, WithToken, ConsolePcs, RemovalsOK
      <4> QED
        BY <3>1, <4>1, CallMoves
    <3>2. UNCHANGED <<session, cached, raced, quota>>
      BY <2>10 DEF CountUsers, remote
    <3> QED
      BY <2>10, <2>a, <2>b, <3>1, <3>2, CallRests DEF CountUsers
  <2>11. CASE BeginLogin(c)
    <3>1. PICK op \in {"login", "callback"} :
            Become(c, [Rest EXCEPT !.op = op, !.pc = IF sso THEN "sso" ELSE "users"])
      BY <2>11 DEF BeginLogin
    <3>2. ASSUME NEW pc \in {"sso", "users"}
          PROVE  [Rest EXCEPT !.op = op, !.pc = pc] \in CallShape
                   /\ TokenKnown([Rest EXCEPT !.op = op, !.pc = pc])
      BY RestShape DEF CallShape, TokenKnown, WithToken, ConsolePcs, ConsoleOps
    <3>3. CallOK'
      BY <3>1, <3>2, CallMoves
    <3> QED
      BY <2>11, <2>a, <3>3, PayOK DEF BeginLogin, remote
  <2>12. CASE BeginCode(c)
    <3>1. /\ c \in Clients /\ jar[c].ui.kind = "otp" /\ Pay("request")
          /\ Become(c, [Rest EXCEPT !.op = "otp", !.pc = "sso", !.token = jar[c].ui.id])
      BY <2>12 DEF BeginCode
    <3>2. jar[c].ui.id \in Tokens
      BY <3>1 DEF JarOK
    <3>3. ASSUME NEW t \in Tokens
          PROVE  [Rest EXCEPT !.op = "otp", !.pc = "sso", !.token = t] \in CallShape
                   /\ TokenKnown([Rest EXCEPT !.op = "otp", !.pc = "sso", !.token = t])
      BY RestShape DEF CallShape, TokenKnown, WithToken, ConsolePcs, ConsoleOps
    <3>4. CallOK'
      BY <3>1, <3>2, <3>3, CallMoves
    <3> QED
      BY <2>12, <2>a, <3>1, <3>4, PayOK DEF BeginCode, remote
  <2>13. CASE HasUsers(c)
    <3>1. Step(c, "create") \/ Step(c, "verify")
      BY <2>13 DEF HasUsers
    <3>2. CallOK'
      BY <3>1, StepOK DEF WithToken, ConsolePcs
    <3> QED
      BY <2>13, <2>a, <2>b, <3>2 DEF HasUsers, remote
  <2> QED
    BY <2>1, <2>2, <2>3, <2>4, <2>5, <2>6, <2>7, <2>8, <2>9, <2>10, <2>11, <2>12, <2>13
<1> QED
  BY <1>1, <1>2

(* Users, cookies and the sessions of SSO.                                 *)
LEMMA AccountTypes ==
  ASSUME ConsoleTypes, NEW c \in Callers,
         \/ PostUser(c) \/ PutUser(c) \/ DeleteUser(c) \/ Logout(c) \/ CreateFirst(c)
         \/ Verify(c) \/ SsoReplies(c) \/ CheckMember(c)
  PROVE  ConsoleTypes'
<1> USE DEF ConsoleTypes
<1>1. BillingOK' /\ DirectoryOK' /\ (sso \in BOOLEAN)'
  <2>1. UNCHANGED <<sso, billing, active, heard>>
    BY DEF PostUser, PutUser, DeleteUser, Logout, CreateFirst, Verify, SsoReplies, CheckMember,
           remote, directory
  <2> QED
    BY <2>1 DEF BillingOK, DirectoryOK
<1>a. UNCHANGED <<session, cached, raced>> => SessionOK'
  BY DEF SessionOK
<1>b. UNCHANGED quota => QuotaOK'
  BY DEF QuotaOK
<1>c. UNCHANGED <<removals, emptied>> => RemovalsOK'
  BY DEF RemovalsOK
<1>d. UNCHANGED jar => JarOK'
  BY DEF JarOK
<1>e. UNCHANGED <<users, serial>> => UsersOK(users, serial)'
  BY DEF UsersOK
<1>0. call[c] \in CallShape /\ TokenKnown(call[c])
  BY DEF CallOK
<1>2. CASE PostUser(c)
  <2>1. PICK email \in Emails : Created(email) \/ UNCHANGED <<users, serial>>
    BY <1>2 DEF PostUser
  <2>2. UsersOK(users, serial)'
    BY <1>e, <2>1, CreatedOK
  <2>3. Finish(c) /\ UNCHANGED <<removals, emptied, jar, session, cached, raced, quota>>
    BY <1>2 DEF PostUser, remote
  <2>4. CallOK'
    BY <2>3, CallRests
  <2> QED
    BY <1>1, <1>a, <1>b, <1>c, <1>d, <2>2, <2>3, <2>4
<1>3. CASE PutUser(c)
  <2>1. UsersOK(users, serial)'
    <3>1. CASE UNCHANGED <<users, serial>>
      BY <1>e, <3>1
    <3>2. CASE \E u \in users, email \in Emails, pass \in {serial, serial + 1} :
                 /\ \A v \in users \ {u} : v.email # email
                 /\ users' = (users \ {u}) \cup {[u EXCEPT !.email = email,
                                                          !.pass = IF pass = serial THEN @ ELSE pass]}
                 /\ serial' = pass
      <4>1. PICK u \in users, email \in Emails, pass \in {serial, serial + 1} :
                 /\ \A v \in users \ {u} : v.email # email
                 /\ users' = (users \ {u}) \cup {[u EXCEPT !.email = email,
                                                          !.pass = IF pass = serial THEN @ ELSE pass]}
                 /\ serial' = pass
        BY <3>2
      <4> DEFINE w == [u EXCEPT !.email = email, !.pass = IF pass = serial THEN @ ELSE pass]
      <4>2. u \in UserRows /\ serial \in Nat
        BY DEF UsersOK
      <4>3. w \in UserRows /\ w.id = u.id /\ w.email = email
        <5>1. ASSUME NEW p \in Nat
              PROVE  LET x == [u EXCEPT !.email = email, !.pass = p]
                     IN  x \in UserRows /\ x.id = u.id /\ x.email = email
          BY <4>2 DEF UserRows
        <5>2. CASE pass = serial
          <6>1. w = [u EXCEPT !.email = email, !.pass = u.pass]
            BY <5>2
          <6>2. u.pass \in Nat
            BY <4>2 DEF UserRows
          <6> QED
            BY <5>1, <6>1, <6>2
        <5>3. CASE pass # serial
          <6>1. w = [u EXCEPT !.email = email, !.pass = pass]
            BY <5>3
          <6>2. pass \in Nat
            BY <4>2
          <6> QED
            BY <5>1, <6>1, <6>2
        <5> QED
          BY <5>2, <5>3
      <4>4. users' = (users \ {u}) \cup {w}
        BY <4>1
      <4> HIDE DEF w
      <4> QED
        BY <4>1, <4>3, <4>4, ChangedOK
    <3> QED
      BY <1>3, <3>1, <3>2, Zenon DEF PutUser
  <2>2. Finish(c) /\ UNCHANGED <<removals, emptied, jar, session, cached, raced, quota>>
    BY <1>3 DEF PutUser, remote
  <2>3. CallOK'
    BY <2>2, CallRests
  <2> QED
    BY <1>1, <1>a, <1>b, <1>c, <1>d, <2>1, <2>2, <2>3
<1>4. CASE DeleteUser(c)
  <2>1. Finish(c) /\ UNCHANGED <<serial, jar, session, cached, raced, quota>>
    BY <1>4 DEF DeleteUser, remote
  <2>2. CallOK'
    BY <2>1, CallRests
  <2>3. CASE UNCHANGED <<users, removals, emptied>>
    BY <1>1, <1>a, <1>b, <1>c, <1>d, <1>e, <2>1, <2>2, <2>3
  <2>4. CASE \E u \in users :
               /\ u.id # call[c].user
               /\ users' = users \ {u} /\ removals' = removals + 1
               /\ Emptied(IF call[c].looked = removals THEN "alone" ELSE "together")
    <3>1. PICK u \in users :
               /\ users' = users \ {u} /\ removals' = removals + 1
               /\ Emptied(IF call[c].looked = removals THEN "alone" ELSE "together")
      BY <2>4
    <3>2. UsersOK(users, serial)'
      BY <2>1, <3>1, RemovedOK
    <3>3. RemovalsOK'
      BY <3>1 DEF RemovalsOK, Emptied
    <3> QED
      BY <1>1, <1>a, <1>b, <1>d, <2>1, <2>2, <3>2, <3>3
  <2> QED
    BY <1>4, <2>3, <2>4 DEF DeleteUser
<1>5. CASE Logout(c)
  <2>1. /\ jar' = [jar EXCEPT ![c] = NoJar] /\ Pay("request")
        /\ UNCHANGED <<users, serial, removals, emptied, call, session, cached, raced>>
    BY <1>5 DEF Logout, local, remote
  <2>2. NoJar \in [ui: AnyCookie, shared: Tokens \cup {0}] /\ NoJar.ui.kind = "none"
    BY DEF NoJar, NoCookie, Cookie, AnyCookie, Kinds
  <2>3. jar' \in [Clients -> [ui: AnyCookie, shared: Tokens \cup {0}]]
    BY <2>1, <2>2 DEF JarOK
  <2>4. ASSUME NEW d \in Clients PROVE jar'[d] = jar[d] \/ jar'[d] = NoJar
    BY <2>1 DEF JarOK
  <2>5. ASSUME NEW d \in Clients, NEW k, k = jar'[d].ui, k.kind \in {"sso", "otp"} PROVE k.id \in Tokens
    <3>1. CASE jar'[d] = jar[d]
      BY <2>5, <3>1 DEF JarOK
    <3>2. CASE jar'[d] = NoJar
      <4>1. k.kind = "none"
        BY <2>2, <2>5, <3>2
      <4> QED
        BY <2>5, <4>1
    <3> QED
      BY <2>4, <3>1, <3>2
  <2>6. JarOK'
    BY <2>3, <2>5 DEF JarOK
  <2>7. CallOK'
    BY <2>1 DEF CallOK
  <2> QED
    BY <1>1, <1>a, <1>c, <1>e, <2>1, <2>6, <2>7, PayOK
<1>6. CASE CreateFirst(c)
  <2>1. Finish(c) /\ UNCHANGED <<removals, emptied, session, cached, raced, quota>>
    BY <1>6 DEF CreateFirst, remote
  <2>2. CallOK'
    BY <2>1, CallRests
  <2>3. PICK email \in Emails : \/ Created(email) /\ Give(c, Cookie("local", serial + 1, serial + 1))
                                \/ UNCHANGED <<users, serial, jar>>
    BY <1>6 DEF CreateFirst
  <2>4. /\ Cookie("local", serial + 1, serial + 1) \in AnyCookie
        /\ Cookie("local", serial + 1, serial + 1).kind = "local"
    BY DEF UsersOK, Cookie, AnyCookie, Kinds
  <2>5. CASE Created(email) /\ Give(c, Cookie("local", serial + 1, serial + 1))
    <3>1. JarOK'
      BY <2>4, <2>5, GiveOK
    <3> QED
      BY <1>1, <1>a, <1>b, <1>c, <2>1, <2>2, <2>5, <3>1, CreatedOK
  <2>6. CASE UNCHANGED <<users, serial, jar>>
    BY <1>1, <1>a, <1>b, <1>c, <1>d, <1>e, <2>1, <2>2, <2>6
  <2> QED
    BY <2>3, <2>5, <2>6
<1>7. CASE Verify(c)
  <2>1. Finish(c) /\ UNCHANGED <<users, serial, removals, emptied, session, cached, raced, quota>>
    BY <1>7 DEF Verify, local, remote
  <2>2. CallOK'
    BY <2>1, CallRests
  <2>3. ASSUME NEW u \in users, Give(c, Cookie("local", u.id, u.pass)) PROVE JarOK'
    <3>1. u \in UserRows
      BY DEF UsersOK
    <3>2. Cookie("local", u.id, u.pass) \in AnyCookie /\ Cookie("local", u.id, u.pass).kind = "local"
      BY <3>1 DEF UserRows, Cookie, AnyCookie, Kinds
    <3> QED
      BY <2>3, <3>2, GiveOK
  <2>4. JarOK'
    BY <1>7, <1>d, <2>3 DEF Verify
  <2> QED
    BY <1>1, <1>a, <1>b, <1>c, <1>e, <2>1, <2>2, <2>4
<1>8. CASE SsoReplies(c)
  <2>1. UNCHANGED <<users, serial, removals, emptied, jar, cached, raced, quota>>
    BY <1>8 DEF SsoReplies, local
  <2>2. CASE Finish(c) /\ UNCHANGED session
    BY <1>1, <1>a, <1>b, <1>c, <1>d, <1>e, <2>1, <2>2, CallRests
  <2>3. ASSUME NEW t \in Tokens,
               Become(c, [call[c] EXCEPT !.pc = "member", !.token = t])
                 \/ Become(c, [call[c] EXCEPT !.pc = "member", !.token = t, !.by = "code"])
        PROVE  CallOK'
    <3>1. /\ [call[c] EXCEPT !.pc = "member", !.token = t] \in CallShape
          /\ TokenKnown([call[c] EXCEPT !.pc = "member", !.token = t])
          /\ [call[c] EXCEPT !.pc = "member", !.token = t, !.by = "code"] \in CallShape
          /\ TokenKnown([call[c] EXCEPT !.pc = "member", !.token = t, !.by = "code"])
      BY <1>0 DEF CallShape, TokenKnown, WithToken, ConsolePcs
    <3> QED
      BY <2>3, <3>1, CallMoves
  <2>4. ASSUME NEW t \in Tokens, session' = [session EXCEPT ![t].state = "live"] \/ UNCHANGED session
        PROVE  SessionOK'
    BY <2>1, <2>4 DEF SessionOK
  <2>5. CASE ~(Finish(c) /\ UNCHANGED session)
    <3>1. PICK t \in Tokens :
            \/ /\ session' = [session EXCEPT ![t].state = "live"]
               /\ Become(c, [call[c] EXCEPT !.pc = "member", !.token = t])
            \/ /\ Become(c, [call[c] EXCEPT !.pc = "member", !.token = t, !.by = "code"])
               /\ UNCHANGED session
      BY <1>8, <2>5 DEF SsoReplies
    <3> QED
      BY <1>1, <1>b, <1>c, <1>d, <1>e, <2>1, <2>3, <2>4, <3>1
  <2> QED
    BY <2>2, <2>5
<1>9. CASE CheckMember(c)
  <2>1. Finish(c) /\ UNCHANGED <<users, serial, removals, emptied, session, cached, raced, quota>>
    BY <1>9 DEF CheckMember, local, remote
  <2>2. CallOK'
    BY <2>1, CallRests
  <2> DEFINE t == call[c].token
  <2>3. t \in Tokens
    BY <1>9, OfToken DEF CheckMember, On, WithToken
  <2>4. Cookie("otp", t, 0) \in AnyCookie /\ Cookie("otp", t, 0).id = t
    BY <2>3 DEF Cookie, AnyCookie, Kinds
  <2>5. UNCHANGED jar \/ Give(c, Cookie("otp", t, 0)) \/ GiveToken(c, t)
    BY <1>9 DEF CheckMember
  <2> HIDE DEF t
  <2>6. JarOK'
    BY <1>d, <2>3, <2>4, <2>5, GiveOK, GiveTokenOK
  <2> QED
    BY <1>1, <1>a, <1>b, <1>c, <1>e, <2>1, <2>2, <2>6
<1> QED
  BY <1>2, <1>3, <1>4, <1>5, <1>6, <1>7, <1>8, <1>9

(* What happens outside of the API, and the directory of organizations.    *)
LEMMA OutsideTypes ==
  ASSUME ConsoleTypes,
         \/ \E c \in Callers : AskBilling(c) \/ Apply(c)
         \/ \E c \in Callers, t \in Tokens : LoginElsewhere(c, t)
         \/ \E t \in Tokens : EndSession(t)
         \/ CliAdd \/ CliDelete \/ BillingChanges \/ Tick \/ WatchWakes
         \/ UNCHANGED consoleVars
  PROVE  ConsoleTypes'
<1> USE DEF ConsoleTypes
<1>a. UNCHANGED <<session, cached, raced>> => SessionOK'
  BY DEF SessionOK
<1>b. UNCHANGED quota => QuotaOK'
  BY DEF QuotaOK
<1>c. UNCHANGED <<removals, emptied>> => RemovalsOK'
  BY DEF RemovalsOK
<1>d. UNCHANGED jar => JarOK'
  BY DEF JarOK
<1>e. UNCHANGED <<users, serial>> => UsersOK(users, serial)'
  BY DEF UsersOK
<1>f. UNCHANGED call => CallOK'
  BY DEF CallOK
<1>g. UNCHANGED billing => BillingOK'
  BY DEF BillingOK
<1>h. UNCHANGED <<active, heard>> => DirectoryOK'
  BY DEF DirectoryOK
<1>i. sso' = sso
  BY DEF AskBilling, Apply, LoginElsewhere, EndSession, CliAdd, CliDelete, BillingChanges, Tick,
         WatchWakes, consoleVars
<1>1. ASSUME NEW c \in Callers, AskBilling(c) PROVE ConsoleTypes'
  <2>1. UNCHANGED <<users, serial, removals, emptied, jar, session, raced, billing, cached, active,
                    heard, quota>>
    BY <1>1 DEF AskBilling, local, remote, directory
  <2>2. CASE Finish(c)
    BY <1>a, <1>b, <1>c, <1>d, <1>e, <1>g, <1>h, <1>i, <2>1, <2>2, CallRests
  <2>3. CASE ~Finish(c)
    <3> DEFINE others == {d \in Callers \ {c} : On(d, "apply")}
    <3>1. PICK refused \in BOOLEAN :
            call' = [d \in Callers |->
                      IF d = c THEN [[call[c] EXCEPT !.pc = "apply", !.edition = billing.edition,
                                             !.listed = IF refused THEN {} ELSE billing.listed,
                                             !.open = IF refused THEN {} ELSE billing.open]
                                      EXCEPT !.alone = others = {}]
                      ELSE IF d \in others THEN [call[d] EXCEPT !.alone = FALSE]
                      ELSE call[d]]
      BY <1>1, <2>3 DEF AskBilling
    <3>2. ASSUME NEW l \in SUBSET Orgs, NEW o \in SUBSET Orgs, NEW a \in BOOLEAN
          PROVE  LET r == [[call[c] EXCEPT !.pc = "apply", !.edition = billing.edition, !.listed = l,
                                          !.open = o] EXCEPT !.alone = a]
                 IN  r \in CallShape /\ TokenKnown(r)
      <4>1. call[c] \in CallShape /\ billing.edition \in Nat
        BY DEF CallOK, BillingOK
      <4> QED
        BY <4>1 DEF CallShape, TokenKnown, WithToken, ConsolePcs
    <3>3. ASSUME NEW r \in CallShape, TokenKnown(r)
          PROVE  [r EXCEPT !.alone = FALSE] \in CallShape /\ TokenKnown([r EXCEPT !.alone = FALSE])
      BY <3>3 DEF CallShape, TokenKnown
    <3> DEFINE l == IF refused THEN {} ELSE billing.listed
               o == IF refused THEN {} ELSE billing.open
               a == others = {}
    <3>4. l \in SUBSET Orgs /\ o \in SUBSET Orgs /\ a \in BOOLEAN
      BY DEF BillingOK
    <3>5. call'[c] = [[call[c] EXCEPT !.pc = "apply", !.edition = billing.edition, !.listed = l,
                                      !.open = o] EXCEPT !.alone = a]
      BY <3>1
    <3> HIDE DEF l, o, a
    <3>6. ASSUME NEW d \in Callers, d # c
          PROVE  call'[d] = [call[d] EXCEPT !.alone = FALSE] \/ call'[d] = call[d]
      BY <3>1, <3>6
    <3>7. ASSUME NEW d \in Callers, NEW e, e = call'[d] PROVE e \in CallShape /\ TokenKnown(e)
      <4>1. CASE d = c
        <5>1. e = [[call[c] EXCEPT !.pc = "apply", !.edition = billing.edition, !.listed = l,
                                  !.open = o] EXCEPT !.alone = a]
          BY <3>5, <3>7, <4>1
        <5> QED
          BY <3>2, <3>4, <5>1
      <4>2. CASE d # c
        <5>1. call[d] \in CallShape /\ TokenKnown(call[d])
          BY DEF CallOK
        <5>2. e = [call[d] EXCEPT !.alone = FALSE] \/ e = call[d]
          BY <3>6, <3>7, <4>2
        <5> QED
          BY <3>3, <5>1, <5>2
      <4> QED
        BY <4>1, <4>2
    <3>8. DOMAIN call' = Callers /\ call' = [d \in Callers |-> call'[d]]
      BY <3>1
    <3>9. CallOK'
      BY <3>7, <3>8 DEF CallOK
    <3> QED
      BY <1>a, <1>b, <1>c, <1>d, <1>e, <1>g, <1>h, <1>i, <2>1, <3>9
  <2> QED
    BY <2>2, <2>3
<1>2. ASSUME NEW c \in Callers, Apply(c) PROVE ConsoleTypes'
  <2>1. UNCHANGED <<users, serial, removals, emptied, jar, session, raced, billing, cached, quota>>
    BY <1>2 DEF Apply, local, remote
  <2>2. CallOK'
    BY <1>2, CallRests DEF Apply
  <2>3. call[c] \in CallShape
    BY DEF CallOK
  <2>4. DirectoryOK'
    <3>1. active' = Directory(call[c])
      BY <1>2 DEF Apply
    <3>2. active' \subseteq Orgs
      BY <2>3, <3>1 DEF Directory, CallShape
    <3>3. /\ [edition |-> call[c].edition, open |-> call[c].open, tangled |-> FALSE]
                \in [edition: Nat, open: SUBSET Orgs, tangled: BOOLEAN]
          /\ [heard EXCEPT !.tangled = ~call[c].alone]
                \in [edition: Nat, open: SUBSET Orgs, tangled: BOOLEAN]
      BY <2>3 DEF CallShape, DirectoryOK
    <3>4. \/ heard' = [edition |-> call[c].edition, open |-> call[c].open, tangled |-> FALSE]
          \/ heard' = [heard EXCEPT !.tangled = ~call[c].alone]
      BY <1>2 DEF Apply
    <3> QED
      BY <3>2, <3>3, <3>4 DEF DirectoryOK
  <2> QED
    BY <1>a, <1>b, <1>c, <1>d, <1>e, <1>g, <1>i, <2>1, <2>2, <2>4
<1>3. ASSUME NEW c \in Callers, NEW t \in Tokens, LoginElsewhere(c, t) PROVE ConsoleTypes'
  <2>1. /\ session' = [session EXCEPT ![t].state = "live"] /\ jar' = [jar EXCEPT ![c].shared = t]
        /\ Pay("outside")
        /\ UNCHANGED <<users, serial, removals, emptied, call, cached, raced, billing, active, heard>>
    BY <1>3 DEF LoginElsewhere, local, directory
  <2>2. SessionOK'
    BY <2>1 DEF SessionOK
  <2>3. jar' \in [Clients -> [ui: AnyCookie, shared: Tokens \cup {0}]]
    BY <2>1 DEF JarOK
  <2>4. ASSUME NEW d \in Clients PROVE jar'[d].ui = jar[d].ui
    BY <2>1 DEF JarOK
  <2>5. JarOK'
    BY <2>3, <2>4 DEF JarOK
  <2> QED
    BY <1>c, <1>e, <1>f, <1>g, <1>h, <1>i, <2>1, <2>2, <2>5, PayOK
<1>4. ASSUME NEW t \in Tokens, EndSession(t) PROVE ConsoleTypes'
  <2> DEFINE r == \E c \in Clients : On(c, "answered") /\ call[c].token = t
  <2>1. /\ session' = [session EXCEPT ![t].state = "ended"] /\ raced' = [raced EXCEPT ![t] = r]
        /\ Pay("outside")
        /\ UNCHANGED <<users, serial, removals, emptied, jar, call, cached, billing, active, heard>>
    BY <1>4 DEF EndSession, local, directory
  <2>2. r \in BOOLEAN
    OBVIOUS
  <2> HIDE DEF r
  <2>3. SessionOK'
    BY <2>1, <2>2 DEF SessionOK
  <2> QED
    BY <1>c, <1>d, <1>e, <1>f, <1>g, <1>h, <1>i, <2>1, <2>3, PayOK
<1>5. CASE CliAdd
  <2>1. PICK email \in Emails : Created(email)
    BY <1>5 DEF CliAdd
  <2>2. /\ Pay("outside")
        /\ UNCHANGED <<removals, emptied, jar, call, session, raced, billing, cached, active, heard>>
    BY <1>5 DEF CliAdd, remote, directory
  <2> QED
    BY <1>a, <1>c, <1>d, <1>f, <1>g, <1>h, <1>i, <2>1, <2>2, CreatedOK, PayOK
<1>6. CASE CliDelete
  <2>1. PICK u \in users : users' = users \ {u}
    BY <1>6 DEF CliDelete
  <2>2. /\ Pay("outside") /\ removals' = removals + 1 /\ Emptied("cli") /\ serial' = serial
        /\ UNCHANGED <<jar, call, session, raced, billing, cached, active, heard>>
    BY <1>6 DEF CliDelete, remote, directory
  <2>3. RemovalsOK'
    BY <2>2 DEF RemovalsOK, Emptied
  <2> QED
    BY <1>a, <1>d, <1>f, <1>g, <1>h, <1>i, <2>1, <2>2, <2>3, RemovedOK, PayOK
<1>7. CASE BillingChanges
  <2>1. PICK listed_ \in SUBSET Orgs :
          \E open \in SUBSET listed_ :
            billing' = [edition |-> billing.edition + 1, listed |-> listed_, open |-> open]
    BY <1>7 DEF BillingChanges
  <2>2. BillingOK'
    BY <2>1 DEF BillingOK
  <2>3. /\ Pay("outside")
        /\ UNCHANGED <<users, serial, removals, emptied, jar, call, session, raced, cached, active, heard>>
    BY <1>7 DEF BillingChanges, local, directory
  <2> QED
    BY <1>a, <1>c, <1>d, <1>e, <1>f, <1>h, <1>i, <2>2, <2>3, PayOK
<1>8. CASE Tick
  <2>1. /\ cached' = [t \in Tokens |-> IF cached[t] > 0 THEN cached[t] - 1 ELSE 0]
        /\ session' = [t \in Tokens |-> IF session[t].state = "ended" /\ session[t].age < TTL
                                        THEN [session[t] EXCEPT !.age = @ + 1] ELSE session[t]]
        /\ UNCHANGED <<users, serial, removals, emptied, jar, call, raced, billing, active, heard, quota>>
    BY <1>8 DEF Tick, local, directory
  <2>2. cached' \in [Tokens -> 0..TTL]
    BY <2>1 DEF SessionOK
  <2>3. session' \in [Tokens -> [state: {"new", "live", "ended"}, age: 0..TTL]]
    BY <2>1 DEF SessionOK
  <2>4. SessionOK'
    BY <2>1, <2>2, <2>3 DEF SessionOK
  <2> QED
    BY <1>b, <1>c, <1>d, <1>e, <1>f, <1>g, <1>h, <1>i, <2>1, <2>4
<1>9. CASE WatchWakes
  <2>1. /\ Become(Watch, [Rest EXCEPT !.pc = "act", !.op = "sync"]) /\ Pay("outside")
        /\ UNCHANGED <<users, serial, removals, emptied, jar, session, raced, billing, cached, active, heard>>
    BY <1>9 DEF WatchWakes, local, remote, directory
  <2>2. /\ [Rest EXCEPT !.pc = "act", !.op = "sync"] \in CallShape
        /\ TokenKnown([Rest EXCEPT !.pc = "act", !.op = "sync"])
    BY RestShape DEF CallShape, TokenKnown, WithToken, ConsolePcs, ConsoleOps
  <2>3. Watch \in Callers
    BY DEF Callers
  <2> QED
    BY <1>a, <1>c, <1>d, <1>e, <1>g, <1>h, <1>i, <2>1, <2>2, <2>3, CallMoves, PayOK
<1>10. CASE UNCHANGED consoleVars
  BY <1>10, <1>a, <1>b, <1>c, <1>d, <1>e, <1>f, <1>g, <1>h, <1>i DEF consoleVars
<1> QED
  BY <1>1, <1>2, <1>3, <1>4, <1>5, <1>6, <1>7, <1>8, <1>9, <1>10

LEMMA ConsoleNextTypes == ConsoleTypes /\ [ConsoleNext]_consoleVars => ConsoleTypes'
BY RequestTypes, AccountTypes, OutsideTypes DEF ConsoleNext

LEMMA ConsoleInitTypes == ConsoleInit => ConsoleTypes
<1> SUFFICES ASSUME ConsoleInit PROVE ConsoleTypes
  OBVIOUS
<1> DEFINE two == {[id |-> n, email |-> n, pass |-> n] : n \in Emails}
<1>1. PICK here \in BOOLEAN :
       LET isIn(c) == here /\ c \in (IF sso THEN Tokens ELSE Emails)
       IN  /\ users = IF here /\ ~sso THEN two ELSE {}
           /\ serial = Cardinality(users)
           /\ emptied = IF users = {} THEN "fresh" ELSE "never"
           /\ jar = [c \in Clients |->
                      IF ~isIn(c) THEN NoJar
                      ELSE IF sso THEN [ui |-> Cookie("sso", c, 0), shared |-> c]
                      ELSE [ui |-> Cookie("local", c, c), shared |-> 0]]
           /\ session = [t \in Tokens |->
                          [state |-> IF sso /\ t \in Clients /\ isIn(t) THEN "live" ELSE "new", age |-> 0]]
           /\ active = IF here /\ sso THEN Orgs ELSE {}
           /\ heard = [edition |-> IF here THEN 1 ELSE 0, open |-> active, tangled |-> FALSE]
  BY DEF ConsoleInit
<1>2. UsersOK(users, serial)
  <2>1. CASE users = {}
    <3>1. IsFiniteSet(users) /\ Cardinality(users) = 0
      BY <2>1, FS_EmptySet
    <3>2. serial = 0
      BY <1>1, <3>1
    <3> QED
      BY <2>1, <3>1, <3>2 DEF UsersOK
  <2>2. CASE users = two
    <3> DEFINE one == [id |-> 1, email |-> 1, pass |-> 1]
               other == [id |-> 2, email |-> 2, pass |-> 2]
    <3>1. two = {one} \cup {other}
      BY DEF Emails
    <3>2. one # other
      OBVIOUS
    <3>3. IsFiniteSet(two) /\ Cardinality(two) = 2
      <4> HIDE DEF one, other, two
      <4>1. IsFiniteSet({one}) /\ Cardinality({one}) = 1
        BY FS_Singleton
      <4>2. other \notin {one}
        BY <3>2
      <4>3. IsFiniteSet({one} \cup {other}) /\ Cardinality({one} \cup {other}) = 1 + 1
        BY <4>1, <4>2, FS_AddElement
      <4> QED
        BY <3>1, <4>3
    <3>4. \A u \in two : u.id \in {1, 2} /\ u.email = u.id /\ u.pass = u.id /\ u = [id |-> u.id, email |-> u.id, pass |-> u.id]
      BY DEF Emails
    <3>5. two \subseteq UserRows
      BY DEF Emails, UserRows
    <3>6. serial = 2
      BY <1>1, <2>2, <3>3
    <3> HIDE DEF two
    <3> QED
      BY <2>2, <3>3, <3>4, <3>5, <3>6 DEF UsersOK
  <2> QED
    BY <1>1, <2>1, <2>2
<1>3. RemovalsOK
  BY <1>1 DEF ConsoleInit, RemovalsOK
<1>4. JarOK
  <2>1. ASSUME NEW c \in Clients
        PROVE  jar[c] \in [ui: AnyCookie, shared: Tokens \cup {0}]
                 /\ (jar[c].ui.kind \in {"sso", "otp"} => jar[c].ui.id \in Tokens)
    <3>1. CASE jar[c] = NoJar
      <4>1. NoJar \in [ui: AnyCookie, shared: Tokens \cup {0}] /\ NoJar.ui.kind = "none"
        BY DEF NoJar, NoCookie, Cookie, AnyCookie, Kinds
      <4> QED
        BY <3>1, <4>1
    <3>2. CASE c \in Tokens /\ jar[c] = [ui |-> Cookie("sso", c, 0), shared |-> c]
      BY <3>2 DEF Cookie, AnyCookie, Kinds
    <3>3. CASE jar[c] = [ui |-> Cookie("local", c, c), shared |-> 0]
      <4>1. c \in Nat
        OBVIOUS
      <4>2. Cookie("local", c, c) \in AnyCookie /\ Cookie("local", c, c).kind = "local"
        BY <4>1 DEF Cookie, AnyCookie, Kinds
      <4>3. jar[c].ui = Cookie("local", c, c) /\ jar[c].shared = 0
        BY <3>3
      <4>4. jar[c] \in [ui: AnyCookie, shared: Tokens \cup {0}]
        BY <3>3, <4>2
      <4> QED
        BY <4>2, <4>3, <4>4
    <3>4. jar[c] = IF ~(here /\ c \in (IF sso THEN Tokens ELSE Emails)) THEN NoJar
                   ELSE IF sso THEN [ui |-> Cookie("sso", c, 0), shared |-> c]
                   ELSE [ui |-> Cookie("local", c, c), shared |-> 0]
      BY <1>1
    <3>5. CASE here /\ sso /\ c \in Tokens
      BY <3>2, <3>4, <3>5, Zenon
    <3>6. CASE here /\ ~sso /\ c \in Emails
      BY <3>3, <3>4, <3>6, Zenon
    <3>7. CASE ~(here /\ c \in (IF sso THEN Tokens ELSE Emails))
      BY <3>1, <3>4, <3>7, Zenon
    <3>8. c \in (IF sso THEN Tokens ELSE Emails) <=> (sso /\ c \in Tokens) \/ (~sso /\ c \in Emails)
      OBVIOUS
    <3> QED
      BY <3>5, <3>6, <3>7, <3>8, Zenon
  <2>2. jar = [c \in Clients |-> jar[c]]
    BY <1>1
  <2> QED
    BY <2>1, <2>2 DEF JarOK
<1>5. CallOK
  BY RestShape DEF ConsoleInit, CallOK
<1>6. SessionOK
  BY <1>1 DEF ConsoleInit, SessionOK
<1>7. BillingOK
  BY DEF ConsoleInit, BillingOK
<1>8. DirectoryOK
  BY <1>1 DEF DirectoryOK
<1>9. QuotaOK
  BY DEF ConsoleInit, QuotaOK
<1> QED
  BY <1>2, <1>3, <1>4, <1>5, <1>6, <1>7, <1>8, <1>9 DEF ConsoleTypes, ConsoleInit

-----------------------------------------------------------------------------
(* Open only at the first boot.                                            *)

(* A request that waits to remove a user after nobody else has removed one *)
(* leaves another user: there are two of them still.                       *)
TwoUsers == \E u, v \in users : u # v
Deleting ==
  \A c \in Callers : call[c].pc = "delete" =>
    call[c].looked <= removals /\ (call[c].looked = removals => TwoUsers)
OpenInv ==
  /\ emptied # "alone" /\ (emptied = "never" => users # {})
  /\ \A c \in Callers : call[c].by = "nobody" => emptied # "never"
  /\ Deleting

(* Nobody is admitted as nobody but into a node without users, and a       *)
(* request comes to the removal by the count alone.                        *)
Goes(d) ==
  /\ call'[d].by = "nobody" => call[d].by = "nobody" \/ (users = {} /\ emptied' = emptied)
  /\ call'[d].pc = "delete" =>
       \/ call[d].pc = "delete" /\ call'[d].looked = call[d].looked
       \/ /\ call'[d].looked = removals /\ Enough(Cardinality(users))
          /\ UNCHANGED <<users, removals, emptied>>

LEMMA GoesBy ==
  ASSUME CallOK, NEW c \in Callers, NEW r, Become(c, r), r.pc # "delete",
         r.by = "nobody" => call[c].by = "nobody" \/ (users = {} /\ emptied' = emptied)
  PROVE  \A d \in Callers : Goes(d)
<1> TAKE d \in Callers
<1>1. CASE d = c
  <2>1. call'[d] = r
    BY <1>1 DEF Become, CallOK
  <2> QED
    BY <1>1, <2>1 DEF Goes
<1>2. CASE d # c
  <2>1. call'[d] = call[d]
    BY <1>2 DEF Become, CallOK
  <2> QED
    BY <2>1 DEF Goes
<1> QED
  BY <1>1, <1>2

LEMMA RequestGoes ==
  ASSUME ConsoleTypes, NEW c \in Callers,
         \/ ConsoleRequest(c) \/ LookUp(c) \/ Answer(c) \/ Receive(c) \/ CheckOrganization(c)
         \/ ReadUser(c) \/ CheckWebhook(c) \/ CheckFirstBoot(c)
         \/ Show(c) \/ CountUsers(c) \/ BeginLogin(c) \/ BeginCode(c) \/ HasUsers(c)
  PROVE  \A d \in Callers : Goes(d)
<1>0. CallOK /\ call[c] \in CallShape
  BY DEF ConsoleTypes, CallOK
<1>a. Rest.pc = "idle" /\ Rest.by = "none"
  BY DEF Rest
<1>b. ASSUME Finish(c) PROVE \A d \in Callers : Goes(d)
  BY <1>0, <1>a, <1>b, GoesBy DEF Finish
<1>c. ASSUME \E r \in NoSession(c, call[c]) : Become(c, r) PROVE \A d \in Callers : Goes(d)
  <2>1. PICK r \in NoSession(c, call[c]) : Become(c, r)
    BY <1>c
  <2>2. r.pc # "delete" /\ r.by = call[c].by
    BY <1>0, <2>1, NoSessionShape
  <2> QED
    BY <1>0, <2>1, <2>2, GoesBy
<1>d. ASSUME NEW pc \in ConsolePcs, pc # "delete", Step(c, pc) PROVE \A d \in Callers : Goes(d)
  <2>1. [call[c] EXCEPT !.pc = pc].pc # "delete" /\ [call[c] EXCEPT !.pc = pc].by = call[c].by
    BY <1>0, <1>d DEF CallShape
  <2> QED
    BY <1>0, <1>d, <2>1, GoesBy DEF Step
<1>e. ASSUME NEW by \in {"token", "cookie", "hook", "nobody"}, Admit(c, by),
             by = "nobody" => users = {} /\ emptied' = emptied
      PROVE  \A d \in Callers : Goes(d)
  <2>1. /\ [call[c] EXCEPT !.pc = "act", !.by = by].pc # "delete"
        /\ [call[c] EXCEPT !.pc = "act", !.by = by].by = by
    BY <1>0 DEF CallShape
  <2> QED
    BY <1>0, <1>e, <2>1, GoesBy DEF Admit
<1>1. CASE ConsoleRequest(c)
  <2>1. PICK op \in {"page", "cameras"} \cup (IF sso THEN {"sync"} ELSE UserOps) :
          \E r \in Cookies(c, [Rest EXCEPT !.op = op]) : Become(c, r)
    BY <1>1 DEF ConsoleRequest
  <2>2. op \in ConsoleOps
    BY DEF ConsoleOps, UserOps
  <2>3. [Rest EXCEPT !.op = op] \in CallShape /\ [Rest EXCEPT !.op = op].by = "none"
    BY <2>2, RestShape DEF CallShape, Rest
  <2>4. PICK r \in Cookies(c, [Rest EXCEPT !.op = op]) : Become(c, r)
    BY <2>1
  <2>5. c \in Clients /\ JarOK
    BY <1>1 DEF ConsoleRequest, ConsoleTypes
  <2> DEFINE first == [Rest EXCEPT !.op = op]
  <2>6. first \in CallShape /\ first.by = "none" /\ r \in Cookies(c, first)
    BY <2>3, <2>4
  <2> HIDE DEF first
  <2>7. r.pc \in {"hook", "first", "cache", "row"} /\ r.by = first.by
    BY <2>5, <2>6, CookiesShape
  <2>8. r.pc # "delete" /\ r.by # "nobody"
    BY <2>6, <2>7
  <2> QED
    BY <1>0, <2>4, <2>8, GoesBy
<1>2. CASE LookUp(c)
  <2> DEFINE late == session[call[c].token].state = "ended" /\ session[call[c].token].age >= TTL
             pc   == IF Hit(call[c].token) THEN "open" ELSE "asking"
  <2>1. Become(c, [call[c] EXCEPT !.pc = pc, !.late = late])
    BY <1>2 DEF LookUp
  <2>2. pc # "delete"
    OBVIOUS
  <2> HIDE DEF late, pc
  <2>3. /\ [call[c] EXCEPT !.pc = pc, !.late = late].pc = pc
        /\ [call[c] EXCEPT !.pc = pc, !.late = late].by = call[c].by
    BY <1>0 DEF CallShape
  <2> QED
    BY <1>0, <2>1, <2>2, <2>3, GoesBy
<1>3. CASE Answer(c)
  BY <1>3, <1>c, <1>d DEF Answer, ConsolePcs
<1>4. CASE Receive(c)
  BY <1>4, <1>d DEF Receive, ConsolePcs
<1>5. CASE CheckOrganization(c)
  BY <1>5, <1>c, <1>e DEF CheckOrganization
<1>6. CASE ReadUser(c)
  <2>1. ASSUME Become(c, [call[c] EXCEPT !.pc = "act", !.by = "cookie", !.user = call[c].cookie.id])
        PROVE  \A d \in Callers : Goes(d)
    <3>1. LET r == [call[c] EXCEPT !.pc = "act", !.by = "cookie", !.user = call[c].cookie.id]
          IN  r.pc # "delete" /\ r.by = "cookie"
      BY <1>0 DEF CallShape
    <3> QED
      BY <1>0, <2>1, <3>1, GoesBy
  <2> QED
    BY <1>6, <1>c, <2>1 DEF ReadUser
<1>7. CASE CheckWebhook(c)
  BY <1>7, <1>b, <1>e DEF CheckWebhook
<1>8. CASE CheckFirstBoot(c)
  BY <1>8, <1>b, <1>e DEF CheckFirstBoot, local
<1>9. CASE Show(c)
  BY <1>9, <1>b DEF Show
<1>10. CASE CountUsers(c)
  <2>1. CASE Finish(c)
    BY <1>b, <2>1
  <2>2. CASE /\ Enough(Cardinality(users))
             /\ Become(c, [call[c] EXCEPT !.pc = "delete", !.looked = removals])
    <3>1. UNCHANGED <<users, removals, emptied>>
      BY <1>10 DEF CountUsers, local
    <3>2. ASSUME NEW d \in Callers PROVE Goes(d)
      <4>1. CASE d = c
        <5>1. call'[d] = [call[c] EXCEPT !.pc = "delete", !.looked = removals]
          BY <1>0, <2>2, <4>1 DEF Become, CallOK
        <5>2. call'[d].looked = removals /\ call'[d].by = call[d].by
          BY <1>0, <4>1, <5>1 DEF CallShape
        <5> QED
          BY <2>2, <3>1, <5>2 DEF Goes
      <4>2. CASE d # c
        <5>1. call'[d] = call[d]
          BY <1>0, <2>2, <4>2 DEF Become, CallOK
        <5> QED
          BY <5>1 DEF Goes
      <4> QED
        BY <4>1, <4>2
    <3> QED
      BY <3>2
  <2> QED
    BY <1>10, <2>1, <2>2 DEF CountUsers
<1>11. CASE BeginLogin(c)
  <2>1. PICK op \in {"login", "callback"} :
          Become(c, [Rest EXCEPT !.op = op, !.pc = IF sso THEN "sso" ELSE "users"])
    BY <1>11 DEF BeginLogin
  <2>2. ASSUME NEW pc \in {"sso", "users"}
        PROVE  [Rest EXCEPT !.op = op, !.pc = pc].pc # "delete" /\ [Rest EXCEPT !.op = op, !.pc = pc].by = "none"
    BY DEF Rest
  <2> QED
    BY <1>0, <2>1, <2>2, GoesBy
<1>12. CASE BeginCode(c)
  <2>1. Become(c, [Rest EXCEPT !.op = "otp", !.pc = "sso", !.token = jar[c].ui.id])
    BY <1>12 DEF BeginCode
  <2>2. /\ [Rest EXCEPT !.op = "otp", !.pc = "sso", !.token = jar[c].ui.id].pc # "delete"
        /\ [Rest EXCEPT !.op = "otp", !.pc = "sso", !.token = jar[c].ui.id].by = "none"
    BY DEF Rest
  <2> QED
    BY <1>0, <2>1, <2>2, GoesBy
<1>13. CASE HasUsers(c)
  <2>1. Step(c, "create") \/ Step(c, "verify")
    BY <1>13 DEF HasUsers
  <2> QED
    BY <1>d, <2>1 DEF ConsolePcs
<1> QED
  BY <1>1, <1>2, <1>3, <1>4, <1>5, <1>6, <1>7, <1>8, <1>9, <1>10, <1>11, <1>12, <1>13

LEMMA OtherGoes ==
  ASSUME ConsoleTypes,
         \/ \E c \in Callers :
              \/ PostUser(c) \/ PutUser(c) \/ DeleteUser(c) \/ Logout(c) \/ CreateFirst(c)
              \/ Verify(c) \/ SsoReplies(c) \/ CheckMember(c)
              \/ AskBilling(c) \/ Apply(c)
              \/ \E t \in Tokens : LoginElsewhere(c, t)
         \/ \E t \in Tokens : EndSession(t)
         \/ CliAdd \/ CliDelete \/ BillingChanges \/ Tick \/ WatchWakes
         \/ UNCHANGED consoleVars
  PROVE  \A d \in Callers : Goes(d)
<1>0. CallOK
  BY DEF ConsoleTypes
<1>1. CASE UNCHANGED call
  BY <1>1 DEF Goes
<1>2. CASE \E c \in Callers : Finish(c)
  <2>1. Rest.pc # "delete" /\ Rest.by = "none"
    BY DEF Rest
  <2> QED
    BY <1>0, <1>2, <2>1, GoesBy DEF Finish
<1>3. ASSUME NEW c \in Callers, SsoReplies(c), ~Finish(c) PROVE \A d \in Callers : Goes(d)
  <2>1. call[c] \in CallShape
    BY <1>0 DEF CallOK
  <2>2. PICK t \in Tokens :
          \/ Become(c, [call[c] EXCEPT !.pc = "member", !.token = t])
          \/ Become(c, [call[c] EXCEPT !.pc = "member", !.token = t, !.by = "code"])
    BY <1>3 DEF SsoReplies
  <2>3. /\ [call[c] EXCEPT !.pc = "member", !.token = t].pc # "delete"
        /\ [call[c] EXCEPT !.pc = "member", !.token = t].by = call[c].by
        /\ [call[c] EXCEPT !.pc = "member", !.token = t, !.by = "code"].pc # "delete"
        /\ [call[c] EXCEPT !.pc = "member", !.token = t, !.by = "code"].by = "code"
    BY <2>1 DEF CallShape
  <2> QED
    BY <1>0, <2>2, <2>3, GoesBy
<1>4. ASSUME NEW c \in Callers, AskBilling(c), ~Finish(c) PROVE \A d \in Callers : Goes(d)
  <2> DEFINE others == {d \in Callers \ {c} : On(d, "apply")}
  <2>1. PICK refused \in BOOLEAN :
          call' = [d \in Callers |->
                    IF d = c THEN [[call[c] EXCEPT !.pc = "apply", !.edition = billing.edition,
                                           !.listed = IF refused THEN {} ELSE billing.listed,
                                           !.open = IF refused THEN {} ELSE billing.open]
                                    EXCEPT !.alone = others = {}]
                    ELSE IF d \in others THEN [call[d] EXCEPT !.alone = FALSE]
                    ELSE call[d]]
    BY <1>4 DEF AskBilling
  <2>2. ASSUME NEW r \in CallShape, NEW e, NEW l, NEW o, NEW a
        PROVE  LET q == [[r EXCEPT !.pc = "apply", !.edition = e, !.listed = l, !.open = o] EXCEPT !.alone = a]
               IN  q.pc = "apply" /\ q.by = r.by
    BY DEF CallShape
  <2>3. ASSUME NEW r \in CallShape, NEW q, q = [r EXCEPT !.alone = FALSE]
        PROVE  q.pc = r.pc /\ q.by = r.by /\ q.looked = r.looked
    BY <2>3 DEF CallShape
  <2>4. ASSUME NEW d \in Callers PROVE Goes(d)
    <3>0. call[d] \in CallShape
      BY <1>0 DEF CallOK
    <3> DEFINE l == IF refused THEN {} ELSE billing.listed
               o == IF refused THEN {} ELSE billing.open
               a == others = {}
    <3>1. CASE d = c
      <4>1. call'[d] = [[call[d] EXCEPT !.pc = "apply", !.edition = billing.edition, !.listed = l,
                                       !.open = o] EXCEPT !.alone = a]
        BY <2>1, <3>1
      <4> HIDE DEF l, o, a
      <4>2. call'[d].pc = "apply" /\ call'[d].by = call[d].by
        BY <2>2, <3>0, <4>1
      <4> QED
        BY <4>2 DEF Goes
    <3>2. CASE d \in others
      <4>1. call'[d] = [call[d] EXCEPT !.alone = FALSE]
        BY <2>1, <3>2
      <4>2. call'[d].pc = call[d].pc /\ call'[d].by = call[d].by /\ call'[d].looked = call[d].looked
        BY <2>3, <3>0, <4>1
      <4> QED
        BY <4>2 DEF Goes
    <3>3. CASE d # c /\ d \notin others
      <4>1. call'[d] = call[d]
        BY <2>1, <3>3
      <4> QED
        BY <4>1 DEF Goes
    <3> QED
      BY <3>1, <3>2, <3>3
  <2> QED
    BY <2>4
<1>5. CASE WatchWakes
  <2>1. Become(Watch, [Rest EXCEPT !.pc = "act", !.op = "sync"]) /\ Watch \in Callers
    BY <1>5 DEF WatchWakes, Callers
  <2>2. /\ [Rest EXCEPT !.pc = "act", !.op = "sync"].pc # "delete"
        /\ [Rest EXCEPT !.pc = "act", !.op = "sync"].by = "none"
    BY DEF Rest
  <2> QED
    BY <1>0, <2>1, <2>2, GoesBy
<1> QED
  BY <1>1, <1>2, <1>3, <1>4, <1>5
     DEF PostUser, PutUser, DeleteUser, Logout, CreateFirst, Verify, CheckMember, Apply,
         LoginElsewhere, EndSession, CliAdd, CliDelete, BillingChanges, Tick, consoleVars

LEMMA ConsoleGoes == ConsoleTypes /\ [ConsoleNext]_consoleVars => \A d \in Callers : Goes(d)
BY RequestGoes, OtherGoes DEF ConsoleNext

(* How the users come and go.                                              *)
Pairs == TwoUsers => TwoUsers'
Stay  == UNCHANGED <<removals, emptied>> /\ Pairs /\ (users # {} => users' # {})
Gone(how) == removals' = removals + 1 /\ Emptied(how)

LEMMA TwoOf ==
  ASSUME IsFiniteSet(users), Enough(Cardinality(users))
  PROVE  TwoUsers
<1>1. CASE users = {}
  <2>1. Cardinality(users) = 0
    BY <1>1, FS_EmptySet
  <2> QED
    BY <2>1 DEF Enough
<1>2. ASSUME NEW u \in users, \A v \in users : v = u PROVE FALSE
  <2>1. users = {u}
    BY <1>2
  <2>2. Cardinality(users) = 1
    BY <2>1, FS_Singleton
  <2> QED
    BY <2>2 DEF Enough
<1> QED
  BY <1>1, <1>2 DEF TwoUsers

LEMMA UsersMove ==
  ASSUME ConsoleTypes, [ConsoleNext]_consoleVars
  PROVE  \/ Stay
         \/ \E c \in Callers, u \in users :
              /\ users' = users \ {u} /\ call[c].pc = "delete"
              /\ Gone(IF call[c].looked = removals THEN "alone" ELSE "together")
         \/ Gone("cli")
<1>0. UsersOK(users, serial)
  BY DEF ConsoleTypes
<1>1. CASE UNCHANGED <<users, removals, emptied>>
  BY <1>1 DEF Stay, Pairs, TwoUsers
<1>2. ASSUME NEW email \in Emails, Created(email), UNCHANGED <<removals, emptied>> PROVE Stay
  BY <1>2 DEF Created, Stay, Pairs, TwoUsers
<1>3. CASE CliAdd
  BY <1>2, <1>3 DEF CliAdd
<1>4. ASSUME NEW c \in Callers, PostUser(c) PROVE Stay
  BY <1>1, <1>2, <1>4 DEF PostUser, Stay, Pairs, TwoUsers
<1>5. ASSUME NEW c \in Callers, CreateFirst(c) PROVE Stay
  BY <1>1, <1>2, <1>5 DEF CreateFirst, Stay, Pairs, TwoUsers
<1>6. ASSUME NEW c \in Callers, PutUser(c) PROVE Stay
  <2>0. UNCHANGED <<removals, emptied>>
    BY <1>6 DEF PutUser
  <2>1. CASE UNCHANGED <<users, serial>>
    BY <2>0, <2>1 DEF Stay, Pairs, TwoUsers
  <2>2. CASE ~UNCHANGED <<users, serial>>
    <3>1. PICK u \in users, email \in Emails, pass \in {serial, serial + 1} :
             /\ \A v \in users \ {u} : v.email # email
             /\ users' = (users \ {u}) \cup {[u EXCEPT !.email = email,
                                                      !.pass = IF pass = serial THEN @ ELSE pass]}
      BY <1>6, <2>2, Zenon DEF PutUser
    <3> DEFINE w == [u EXCEPT !.email = email, !.pass = IF pass = serial THEN @ ELSE pass]
    <3>2. u \in UserRows
      BY <1>0 DEF UsersOK
    <3>3. w.email = email
      BY <3>2 DEF UserRows
    <3>4. users' = (users \ {u}) \cup {w} /\ \A v \in users \ {u} : v.email # email
      BY <3>1
    <3> HIDE DEF w
    <3>5. w \notin users \ {u}
      BY <3>3, <3>4
    <3>6. ASSUME TwoUsers PROVE TwoUsers'
      <4>1. PICK x \in users \ {u} : TRUE
        BY <3>6 DEF TwoUsers
      <4>2. x \in users' /\ w \in users' /\ x # w
        BY <3>4, <3>5, <4>1
      <4> QED
        BY <4>2 DEF TwoUsers
    <3>7. users' # {}
      BY <3>4
    <3> QED
      BY <2>0, <3>6, <3>7 DEF Stay, Pairs
  <2> QED
    BY <2>1, <2>2
<1>7. ASSUME NEW c \in Callers, DeleteUser(c), ~UNCHANGED <<users, removals, emptied>>
      PROVE  \E u \in users :
               /\ users' = users \ {u} /\ call[c].pc = "delete"
               /\ Gone(IF call[c].looked = removals THEN "alone" ELSE "together")
  BY <1>7 DEF DeleteUser, Gone, On
<1>8. CASE CliDelete
  BY <1>8 DEF CliDelete, Gone
<1>9. ASSUME NEW c \in Callers,
             \/ ConsoleRequest(c) \/ LookUp(c) \/ Answer(c) \/ Receive(c) \/ CheckOrganization(c)
             \/ ReadUser(c) \/ CheckWebhook(c) \/ CheckFirstBoot(c)
             \/ Show(c) \/ CountUsers(c) \/ BeginLogin(c) \/ BeginCode(c) \/ HasUsers(c)
             \/ Logout(c) \/ Verify(c) \/ SsoReplies(c) \/ CheckMember(c) \/ AskBilling(c) \/ Apply(c)
      PROVE  UNCHANGED <<users, removals, emptied>>
  BY <1>9 DEF ConsoleRequest, LookUp, Answer, Receive, CheckOrganization, ReadUser, CheckWebhook,
         CheckFirstBoot, Show, CountUsers, BeginLogin, BeginCode, HasUsers, Logout, Verify,
         SsoReplies, CheckMember, AskBilling, Apply, local
<1>10. ASSUME \/ \E c \in Callers, t \in Tokens : LoginElsewhere(c, t)
              \/ \E t \in Tokens : EndSession(t)
              \/ BillingChanges \/ Tick \/ WatchWakes \/ UNCHANGED consoleVars
       PROVE  UNCHANGED <<users, removals, emptied>>
  BY <1>10 DEF LoginElsewhere, EndSession, BillingChanges, Tick, WatchWakes, local, consoleVars
<1> QED
  BY <1>1, <1>3, <1>4, <1>5, <1>6, <1>7, <1>8, <1>9, <1>10 DEF ConsoleNext

LEMMA OpenNextInv == ConsoleTypes /\ OpenInv /\ [ConsoleNext]_consoleVars => OpenInv'
<1> SUFFICES ASSUME ConsoleTypes, OpenInv, [ConsoleNext]_consoleVars PROVE OpenInv'
  OBVIOUS
<1>0. RemovalsOK /\ IsFiniteSet(users) /\ call \in [Callers -> CallShape]
  BY DEF ConsoleTypes, UsersOK, CallOK
<1>1. \A d \in Callers : Goes(d)
  BY ConsoleGoes
<1>2. ConsoleTypes'
  BY ConsoleNextTypes
<1>3. removals \in Nat /\ \A d \in Callers : call[d].looked \in Nat /\ call'[d].looked \in Nat
  BY <1>0, <1>2 DEF RemovalsOK, CallShape, ConsoleTypes, CallOK
<1>4. CASE Stay
  <2>1. ASSUME NEW d \in Callers, call'[d].pc = "delete"
        PROVE  call'[d].looked <= removals' /\ (call'[d].looked = removals' => TwoUsers')
    <3>1. CASE call[d].pc = "delete" /\ call'[d].looked = call[d].looked
      BY <1>4, <3>1 DEF Stay, Pairs, OpenInv, Deleting
    <3>2. CASE call'[d].looked = removals /\ Enough(Cardinality(users))
      <4>1. TwoUsers
        BY <1>0, <3>2, TwoOf
      <4> QED
        BY <1>3, <1>4, <3>2, <4>1 DEF Stay, Pairs
    <3> QED
      BY <1>1, <2>1, <3>1, <3>2 DEF Goes
  <2>2. ASSUME NEW d \in Callers, call'[d].by = "nobody" PROVE emptied' # "never"
    <3>1. call[d].by = "nobody" \/ users = {}
      BY <1>1, <2>2 DEF Goes
    <3> QED
      BY <1>4, <3>1 DEF Stay, OpenInv
  <2>3. emptied' # "alone" /\ (emptied' = "never" => users' # {})
    BY <1>4 DEF Stay, OpenInv
  <2> QED
    BY <2>1, <2>2, <2>3 DEF OpenInv, Deleting
<1>5. CASE removals' = removals + 1
  <2>1. ASSUME NEW d \in Callers, call'[d].pc = "delete"
        PROVE  call'[d].looked < removals'
    <3>1. call[d].pc = "delete" /\ call'[d].looked = call[d].looked
      <4>1. removals' # removals
        BY <1>3, <1>5
      <4> QED
        BY <1>1, <2>1, <4>1 DEF Goes
    <3>2. call[d].looked <= removals
      BY <3>1 DEF OpenInv, Deleting
    <3> QED
      BY <1>3, <1>5, <3>1, <3>2
  <2>2. Deleting'
    <3>1. ASSUME NEW d \in Callers, call'[d].pc = "delete"
          PROVE  call'[d].looked <= removals' /\ (call'[d].looked = removals' => TwoUsers')
      BY <1>3, <1>5, <2>1, <3>1
    <3> QED
      BY <3>1 DEF Deleting
  <2>3. ASSUME NEW how \in {"together", "cli", "alone"}, Emptied(how), how = "alone" => users' # {}
        PROVE  OpenInv'
    <3>1. emptied' # "alone" /\ (emptied' = "never" => users' # {})
      BY <2>3 DEF Emptied, OpenInv
    <3>2. ASSUME NEW d \in Callers, call'[d].by = "nobody" PROVE emptied' # "never"
      BY <1>1, <2>3, <3>2 DEF Goes, OpenInv, Emptied
    <3> QED
      BY <2>2, <3>1, <3>2 DEF OpenInv
  <2>4. CASE Gone("cli")
    BY <2>3, <2>4 DEF Gone
  <2>5. ASSUME NEW c \in Callers, NEW u \in users, users' = users \ {u}, call[c].pc = "delete",
               Gone(IF call[c].looked = removals THEN "alone" ELSE "together")
        PROVE  OpenInv'
    <3>1. CASE call[c].looked = removals
      <4>1. TwoUsers
        BY <2>5, <3>1 DEF OpenInv, Deleting
      <4>2. users' # {}
        BY <2>5, <4>1 DEF TwoUsers
      <4> QED
        BY <2>3, <2>5, <3>1, <4>2 DEF Gone
    <3>2. CASE call[c].looked # removals
      BY <2>3, <2>5, <3>2 DEF Gone
    <3> QED
      BY <3>1, <3>2
  <2>6. ~Stay
    BY <1>3, <1>5 DEF Stay
  <2> QED
    BY <2>4, <2>5, <2>6, UsersMove
<1> QED
  BY <1>4, <1>5, UsersMove DEF Gone

-----------------------------------------------------------------------------
(* Admitted means allowed in.                                              *)

(* What is known of a request whose token is being checked: an answer is   *)
(* on its way about a live session, or one that ended meanwhile, and a     *)
(* request that came when the time of the cache was over gets no further   *)
(* than to the call of SSO, unless such an answer filled the cache.        *)
Told(r, s, g) ==
  /\ r.pc = "answered" => s[r.token].state = "live" \/ (s[r.token].state = "ended" /\ g[r.token])
  /\ r.pc \in {"asking", "answered", "open"} /\ r.late =>
       s[r.token].state = "ended" /\ (r.pc = "asking" \/ g[r.token])
WatchSyncs == call[Watch].pc \in {"idle", "act", "apply"} /\ call[Watch].op \in {"none", "sync"}
Aged ==
  \A t \in Tokens :
    /\ session[t].state # "ended" => session[t].age = 0
    /\ session[t].state = "ended" /\ ~raced[t] => cached[t] = 0 \/ cached[t] + session[t].age <= TTL
SessionInv == WatchSyncs /\ Aged /\ \A c \in Clients : Told(call[c], session, raced)

BeingAsked == {"asking", "answered", "open"}

LEMMA ToldOutside ==
  ASSUME NEW r, r.pc \notin BeingAsked, NEW s, NEW g
  PROVE  Told(r, s, g)
BY DEF Told, BeingAsked

LEMMA SessionStays ==
  ASSUME CallOK, SessionInv, NEW c \in Callers, NEW r, Become(c, r), c = Watch => WatchSyncs',
         Told(r, session, raced), UNCHANGED <<session, raced, cached>>
  PROVE  SessionInv'
<1>1. Aged'
  BY DEF SessionInv, Aged
<1>2. ASSUME NEW d \in Callers PROVE call'[d] = IF d = c THEN r ELSE call[d]
  BY DEF Become, CallOK
<1>3. Watch \in Callers
  BY DEF Callers
<1>4. WatchSyncs'
  BY <1>2, <1>3, Zenon DEF SessionInv, WatchSyncs
<1>5. ASSUME NEW d \in Clients, NEW e, e = call'[d] PROVE Told(e, session, raced)
  <2>1. e = r \/ e = call[d]
    BY <1>2, <1>5 DEF Callers
  <2> QED
    BY <2>1, Zenon DEF SessionInv
<1>6. ASSUME NEW d \in Clients PROVE Told(call[d], session, raced)'
  BY <1>5, Zenon
<1> QED
  BY <1>1, <1>4, <1>6 DEF SessionInv

(* The watch does nothing else.                                            *)
LEMMA WatchOnly ==
  ASSUME SessionInv, Watch \in Callers
  PROVE  ~(\/ ConsoleRequest(Watch) \/ LookUp(Watch) \/ Answer(Watch) \/ Receive(Watch)
           \/ CheckOrganization(Watch) \/ ReadUser(Watch) \/ CheckWebhook(Watch)
           \/ CheckFirstBoot(Watch) \/ Show(Watch) \/ PostUser(Watch) \/ PutUser(Watch)
           \/ CountUsers(Watch) \/ DeleteUser(Watch) \/ BeginLogin(Watch) \/ BeginCode(Watch)
           \/ Logout(Watch) \/ HasUsers(Watch) \/ CreateFirst(Watch) \/ Verify(Watch)
           \/ SsoReplies(Watch) \/ CheckMember(Watch)
           \/ \E t \in Tokens : LoginElsewhere(Watch, t))
<1>1. Watch \notin Clients
  BY DEF Watch
<1>2. call[Watch].pc \in {"idle", "act", "apply"} /\ call[Watch].op \in {"none", "sync"}
  BY DEF SessionInv, WatchSyncs
<1> QED
  BY <1>1, <1>2
     DEF ConsoleRequest, LookUp, Answer, Receive, CheckOrganization, ReadUser, CheckWebhook,
         CheckFirstBoot, Show, PostUser, PutUser, CountUsers, DeleteUser, BeginLogin, BeginCode,
         Logout, HasUsers, CreateFirst, Verify, SsoReplies, CheckMember, LoginElsewhere, On

LEMMA CheckingNext ==
  ASSUME ConsoleTypes, SessionInv, NEW c \in Clients,
         LookUp(c) \/ Answer(c) \/ Receive(c)
  PROVE  SessionInv'
<1>0. /\ CallOK /\ c \in Callers /\ c # Watch /\ call[c] \in CallShape
      /\ SessionOK /\ Told(call[c], session, raced)
  BY DEF ConsoleTypes, CallOK, Callers, Watch, SessionInv
<1>1. CASE LookUp(c)
  <2> DEFINE t    == call[c].token
             late == session[t].state = "ended" /\ session[t].age >= TTL
             pc   == IF Hit(t) THEN "open" ELSE "asking"
             r    == [call[c] EXCEPT !.pc = pc, !.late = late]
  <2>1. Become(c, r) /\ call[c].pc = "cache" /\ UNCHANGED <<session, raced, cached>>
    BY <1>1 DEF LookUp, On, remote
  <2>2. t \in Tokens
    BY <1>0, <2>1, OfToken DEF WithToken
  <2>3. r.pc = pc /\ r.token = t /\ (r.late <=> late)
    BY <1>0 DEF CallShape
  <2>4. pc = "open" => cached[t] > 0
    BY DEF Hit
  <2>5. ASSUME late, cached[t] > 0 PROVE raced[t]
    <3>1. SessionOK /\ Aged
      BY <1>0 DEF SessionInv
    <3>2. cached[t] \in 0..TTL /\ session[t].age \in 0..TTL
      BY <2>2, <3>1 DEF SessionOK
    <3>3. session[t].state = "ended" /\ session[t].age >= TTL
      BY <2>5
    <3>4. ~(cached[t] = 0 \/ cached[t] + session[t].age <= TTL)
      BY <2>5, <3>2, <3>3
    <3> QED
      BY <2>2, <3>1, <3>3, <3>4 DEF Aged
  <2>6. pc \in {"open", "asking"} /\ (late => session[t].state = "ended")
    OBVIOUS
  <2> HIDE DEF t, late, pc, r
  <2>7. Told(r, session, raced)
    BY <2>3, <2>4, <2>5, <2>6 DEF Told
  <2> QED
    BY <1>0, <2>1, <2>7, SessionStays
<1>2. CASE Answer(c)
  <2>1. call[c].pc = "asking" /\ UNCHANGED <<session, raced, cached>>
    BY <1>2 DEF Answer, On, remote
  <2>2. CASE session[call[c].token].state = "live" /\ Step(c, "answered")
    <3> DEFINE r == [call[c] EXCEPT !.pc = "answered"]
    <3>1. r.pc = "answered" /\ r.token = call[c].token /\ r.late = call[c].late
      BY <1>0 DEF CallShape
    <3>2. Become(c, r)
      BY <2>2 DEF Step
    <3> HIDE DEF r
    <3>3. ~call[c].late
      BY <1>0, <2>1, <2>2 DEF Told
    <3>4. Told(r, session, raced)
      BY <2>2, <3>1, <3>3 DEF Told
    <3> QED
      BY <1>0, <2>1, <3>2, <3>4, SessionStays
  <2>3. ASSUME NEW r \in NoSession(c, call[c]), Become(c, r) PROVE SessionInv'
    <3>1. r.pc \in {"hook", "first"}
      BY <1>0, NoSessionShape
    <3>2. r.pc \notin BeingAsked
      BY <3>1 DEF BeingAsked
    <3> QED
      BY <1>0, <2>1, <2>3, <3>2, ToldOutside, SessionStays
  <2> QED
    BY <1>2, <2>2, <2>3 DEF Answer
<1>3. CASE Receive(c)
  <2> DEFINE t == call[c].token
             r == [call[c] EXCEPT !.pc = "open"]
  <2>1. Become(c, r) /\ call[c].pc = "answered" /\ UNCHANGED <<session, raced>>
    BY <1>3 DEF Receive, Step, On, remote
  <2>2. t \in Tokens
    BY <1>0, <2>1, OfToken DEF WithToken
  <2>3. r.pc = "open" /\ r.token = t /\ r.late = call[c].late
    BY <1>0 DEF CallShape
  <2>4. session[t].state = "live" \/ (session[t].state = "ended" /\ raced[t])
    BY <1>0, <2>1 DEF Told
  <2>5. ASSUME NEW u \in Tokens PROVE u # t => cached'[u] = cached[u] \/ cached'[u] = 0
    BY <1>0, <1>3 DEF Receive, SessionOK
  <2>6. Aged'
    <3>1. ASSUME NEW u \in Tokens
          PROVE  /\ session[u].state # "ended" => session[u].age = 0
                 /\ session[u].state = "ended" /\ ~raced[u] =>
                      cached'[u] = 0 \/ cached'[u] + session[u].age <= TTL
      BY <2>4, <2>5 DEF SessionInv, Aged
    <3> QED
      BY <2>1, <3>1 DEF Aged
  <2> HIDE DEF t, r
  <2>7. Told(r, session, raced)
    BY <1>0, <2>1, <2>3, <2>4 DEF Told, t
  <2>8. ASSUME NEW d \in Callers PROVE call'[d] = IF d = c THEN r ELSE call[d]
    BY <1>0, <2>1 DEF Become, CallOK
  <2>9. WatchSyncs'
    BY <1>0, <2>8 DEF SessionInv, WatchSyncs, Callers
  <2>10. ASSUME NEW d \in Clients, NEW e, e = call'[d] PROVE Told(e, session, raced)
    <3>1. e = r \/ e = call[d]
      BY <2>8, <2>10 DEF Callers
    <3> QED
      BY <2>7, <3>1, Zenon DEF SessionInv
  <2>11. ASSUME NEW d \in Clients PROVE Told(call[d], session, raced)'
    BY <2>1, <2>10, Zenon
  <2> QED
    BY <2>6, <2>9, <2>11 DEF SessionInv
<1> QED
  BY <1>1, <1>2, <1>3

(* A request of a client that is not between its checks of a token.        *)
LEMMA ClientNext ==
  ASSUME ConsoleTypes, SessionInv, NEW c \in Clients,
         \/ ConsoleRequest(c) \/ CheckOrganization(c) \/ ReadUser(c) \/ CheckWebhook(c)
         \/ CheckFirstBoot(c) \/ Show(c) \/ PostUser(c) \/ PutUser(c) \/ CountUsers(c)
         \/ DeleteUser(c) \/ BeginLogin(c) \/ BeginCode(c) \/ Logout(c) \/ HasUsers(c)
         \/ CreateFirst(c) \/ Verify(c) \/ CheckMember(c)
  PROVE  SessionInv'
<1>0. /\ CallOK /\ JarOK /\ c \in Callers /\ c # Watch /\ call[c] \in CallShape
  BY DEF ConsoleTypes, CallOK, Callers, Watch
<1>1. UNCHANGED <<session, raced, cached>>
  BY DEF ConsoleRequest, CheckOrganization, ReadUser, CheckWebhook, CheckFirstBoot, Show, PostUser,
         PutUser, CountUsers, DeleteUser, BeginLogin, BeginCode, Logout, HasUsers, CreateFirst,
         Verify, CheckMember, remote
<1>a. ASSUME NEW r, Become(c, r), r.pc \notin BeingAsked PROVE SessionInv'
  BY <1>0, <1>1, <1>a, ToldOutside, SessionStays
<1>b. ASSUME Finish(c) PROVE SessionInv'
  <2>1. Rest.pc \notin BeingAsked
    BY DEF Rest, BeingAsked
  <2> QED
    BY <1>a, <1>b, <2>1 DEF Finish
<1>c. ASSUME NEW r \in NoSession(c, call[c]), Become(c, r) PROVE SessionInv'
  <2>1. r.pc \in {"hook", "first"}
    BY <1>0, NoSessionShape
  <2>2. r.pc \notin BeingAsked
    BY <2>1 DEF BeingAsked
  <2> QED
    BY <1>a, <1>c, <2>2
<1>d. ASSUME NEW pc, pc \notin BeingAsked, Step(c, pc) PROVE SessionInv'
  <2>1. [call[c] EXCEPT !.pc = pc].pc = pc
    BY <1>0 DEF CallShape
  <2> QED
    BY <1>a, <1>d, <2>1 DEF Step
<1>e. ASSUME NEW by, Admit(c, by) PROVE SessionInv'
  <2>1. [call[c] EXCEPT !.pc = "act", !.by = by].pc = "act"
    BY <1>0 DEF CallShape
  <2>2. [call[c] EXCEPT !.pc = "act", !.by = by].pc \notin BeingAsked
    BY <2>1 DEF BeingAsked
  <2> QED
    BY <1>a, <1>e, <2>2 DEF Admit
<1>2. CASE ConsoleRequest(c)
  <2>1. PICK op \in {"page", "cameras"} \cup (IF sso THEN {"sync"} ELSE UserOps) :
          \E r \in Cookies(c, [Rest EXCEPT !.op = op]) : Become(c, r)
    BY <1>2 DEF ConsoleRequest
  <2> DEFINE first == [Rest EXCEPT !.op = op]
  <2>2. op \in ConsoleOps
    BY DEF ConsoleOps, UserOps
  <2>3. first \in CallShape
    BY <2>2, RestShape DEF CallShape
  <2>4. PICK r \in Cookies(c, first) : Become(c, r)
    BY <2>1
  <2> HIDE DEF first
  <2>5. r.pc \in {"hook", "first", "cache", "row"}
    BY <1>0, <2>3, <2>4, CookiesShape
  <2>6. r.pc \notin BeingAsked
    BY <2>5 DEF BeingAsked
  <2> QED
    BY <1>a, <2>4, <2>6
<1>3. CASE CheckOrganization(c)
  BY <1>3, <1>c, <1>e DEF CheckOrganization
<1>4. CASE ReadUser(c)
  <2>1. ASSUME Become(c, [call[c] EXCEPT !.pc = "act", !.by = "cookie", !.user = call[c].cookie.id])
        PROVE  SessionInv'
    <3>1. [call[c] EXCEPT !.pc = "act", !.by = "cookie", !.user = call[c].cookie.id].pc = "act"
      BY <1>0 DEF CallShape
    <3>2. [call[c] EXCEPT !.pc = "act", !.by = "cookie", !.user = call[c].cookie.id].pc \notin BeingAsked
      BY <3>1 DEF BeingAsked
    <3> QED
      BY <1>a, <2>1, <3>2
  <2> QED
    BY <1>4, <1>c, <2>1 DEF ReadUser
<1>5. CASE CheckWebhook(c)
  BY <1>5, <1>b, <1>e DEF CheckWebhook
<1>6. CASE CheckFirstBoot(c)
  BY <1>6, <1>b, <1>e DEF CheckFirstBoot
<1>7. CASE CountUsers(c)
  <2>1. ASSUME Become(c, [call[c] EXCEPT !.pc = "delete", !.looked = removals]) PROVE SessionInv'
    <3>1. [call[c] EXCEPT !.pc = "delete", !.looked = removals].pc = "delete"
      BY <1>0 DEF CallShape
    <3>2. [call[c] EXCEPT !.pc = "delete", !.looked = removals].pc \notin BeingAsked
      BY <3>1 DEF BeingAsked
    <3> QED
      BY <1>a, <2>1, <3>2
  <2> QED
    BY <1>7, <1>b, <2>1 DEF CountUsers
<1>8. CASE BeginLogin(c)
  <2>1. PICK op \in {"login", "callback"} :
          Become(c, [Rest EXCEPT !.op = op, !.pc = IF sso THEN "sso" ELSE "users"])
    BY <1>8 DEF BeginLogin
  <2>2. ASSUME NEW pc \in {"sso", "users"}
        PROVE  [Rest EXCEPT !.op = op, !.pc = pc].pc \notin BeingAsked
    BY DEF Rest, BeingAsked
  <2> QED
    BY <1>a, <2>1, <2>2
<1>9. CASE BeginCode(c)
  <2>1. Become(c, [Rest EXCEPT !.op = "otp", !.pc = "sso", !.token = jar[c].ui.id])
    BY <1>9 DEF BeginCode
  <2>2. [Rest EXCEPT !.op = "otp", !.pc = "sso", !.token = jar[c].ui.id].pc \notin BeingAsked
    BY DEF Rest, BeingAsked
  <2> QED
    BY <1>a, <2>1, <2>2
<1>10. CASE HasUsers(c)
  <2>1. Step(c, "create") \/ Step(c, "verify")
    BY <1>10 DEF HasUsers
  <2> QED
    BY <1>d, <2>1 DEF BeingAsked
<1>11. CASE Logout(c)
  <2>1. UNCHANGED call
    BY <1>11 DEF Logout
  <2>2. WatchSyncs' /\ Aged'
    BY <1>1, <2>1 DEF SessionInv, WatchSyncs, Aged
  <2>3. ASSUME NEW d \in Clients PROVE Told(call[d], session, raced)'
    BY <1>1, <2>1, Zenon DEF SessionInv
  <2> QED
    BY <2>2, <2>3 DEF SessionInv
<1> QED
  BY <1>2, <1>3, <1>4, <1>5, <1>6, <1>7, <1>8, <1>9, <1>10, <1>11, <1>b
     DEF Show, PostUser, PutUser, DeleteUser, CreateFirst, Verify, CheckMember

(* What is known of a token stays true when the sessions change.           *)
LEMMA ToldLater ==
  ASSUME NEW r, Told(r, session, raced), r.pc \in BeingAsked => r.token \in Tokens,
         \A t \in Tokens :
           /\ session[t].state = "ended" => session'[t].state = "ended" /\ (raced[t] => raced'[t])
           /\ session[t].state = "live" /\ r.pc = "answered" /\ r.token = t =>
                session'[t].state = "live" \/ (session'[t].state = "ended" /\ raced'[t])
  PROVE  Told(r, session', raced')
<1>1. CASE r.pc \notin BeingAsked
  BY <1>1, ToldOutside
<1>2. CASE r.pc \in BeingAsked
  <2>1. r.token \in Tokens /\ r.pc \in {"asking", "answered", "open"}
    BY <1>2 DEF BeingAsked
  <2>2. r.pc = "answered" =>
          session'[r.token].state = "live" \/ (session'[r.token].state = "ended" /\ raced'[r.token])
    BY <2>1 DEF Told
  <2>3. r.late => session'[r.token].state = "ended" /\ (r.pc = "asking" \/ raced'[r.token])
    BY <2>1 DEF Told
  <2> QED
    BY <2>2, <2>3 DEF Told
<1> QED
  BY <1>1, <1>2

LEMMA SessionMoves ==
  ASSUME ConsoleTypes, SessionInv,
         \/ \E c \in Callers : AskBilling(c) \/ Apply(c) \/ SsoReplies(c)
         \/ \E c \in Callers, t \in Tokens : LoginElsewhere(c, t)
         \/ \E t \in Tokens : EndSession(t)
         \/ CliAdd \/ CliDelete \/ BillingChanges \/ Tick \/ WatchWakes
         \/ UNCHANGED consoleVars
  PROVE  SessionInv'
<1>0. CallOK /\ SessionOK /\ Watch \in Callers /\ \A c \in Clients : c \in Callers /\ c # Watch
  BY DEF ConsoleTypes, Callers, Watch
<1>a. ASSUME NEW d \in Clients, call[d].pc \in BeingAsked PROVE call[d].token \in Tokens
  BY <1>0, <1>a, OfToken DEF BeingAsked, WithToken
<1>1. CASE UNCHANGED <<call, session, raced, cached>>
  <2>1. WatchSyncs' /\ Aged'
    BY <1>1 DEF SessionInv, WatchSyncs, Aged
  <2>2. ASSUME NEW d \in Clients PROVE Told(call[d], session, raced)'
    BY <1>1, Zenon DEF SessionInv
  <2> QED
    BY <2>1, <2>2 DEF SessionInv
<1>b. ASSUME NEW c \in Callers, Finish(c), UNCHANGED <<session, raced, cached>> PROVE SessionInv'
  <2>1. Rest.pc = "idle" /\ Rest.op = "none"
    BY DEF Rest
  <2>2. c = Watch => call'[Watch] = Rest
    BY <1>0, <1>b DEF Finish, Become, CallOK
  <2>3. c = Watch => WatchSyncs'
    BY <2>1, <2>2 DEF WatchSyncs
  <2>4. Told(Rest, session, raced)
    BY <2>1 DEF Told
  <2> QED
    BY <1>0, <1>b, <2>3, <2>4, SessionStays DEF Finish
<1>2. ASSUME NEW c \in Callers, AskBilling(c) PROVE SessionInv'
  <2>1. UNCHANGED <<session, raced, cached>> /\ call[c].pc = "act" /\ call[c].op = "sync"
    BY <1>2 DEF AskBilling, remote, On
  <2>2. CASE ~Finish(c)
    <3> DEFINE others == {d \in Callers \ {c} : On(d, "apply")}
    <3>1. PICK refused \in BOOLEAN :
            call' = [d \in Callers |->
                      IF d = c THEN [[call[c] EXCEPT !.pc = "apply", !.edition = billing.edition,
                                             !.listed = IF refused THEN {} ELSE billing.listed,
                                             !.open = IF refused THEN {} ELSE billing.open]
                                      EXCEPT !.alone = others = {}]
                      ELSE IF d \in others THEN [call[d] EXCEPT !.alone = FALSE]
                      ELSE call[d]]
      BY <1>2, <2>2 DEF AskBilling
    <3>2. ASSUME NEW r \in CallShape, NEW e, NEW l, NEW o, NEW a
          PROVE  LET q == [[r EXCEPT !.pc = "apply", !.edition = e, !.listed = l, !.open = o] EXCEPT !.alone = a]
                 IN  q.pc = "apply" /\ q.op = r.op
      BY DEF CallShape
    <3>3. ASSUME NEW r \in CallShape, NEW q, q = [r EXCEPT !.alone = FALSE]
          PROVE  q.pc = r.pc /\ q.op = r.op
      BY <3>3 DEF CallShape
    <3>4. ASSUME NEW d \in Callers
          PROVE  \/ call'[d].pc = "apply" /\ call'[d].op \in {"sync", call[d].op}
                 \/ call'[d] = call[d]
      <4>0. call[d] \in CallShape
        BY <1>0 DEF CallOK
      <4> DEFINE l == IF refused THEN {} ELSE billing.listed
                 o == IF refused THEN {} ELSE billing.open
                 a == others = {}
      <4>1. CASE d = c
        <5>1. call'[d] = [[call[d] EXCEPT !.pc = "apply", !.edition = billing.edition, !.listed = l,
                                         !.open = o] EXCEPT !.alone = a]
          BY <3>1, <4>1
        <5> HIDE DEF l, o, a
        <5> QED
          BY <3>2, <4>0, <5>1
      <4>2. CASE d \in others
        <5>1. call'[d] = [call[d] EXCEPT !.alone = FALSE] /\ call[d].pc = "apply"
          BY <3>1, <4>2 DEF On
        <5> QED
          BY <3>3, <4>0, <5>1
      <4>3. CASE d # c /\ d \notin others
        BY <3>1, <4>3
      <4> QED
        BY <4>1, <4>2, <4>3
    <3>5. WatchSyncs'
      BY <1>0, <3>4 DEF SessionInv, WatchSyncs
    <3>6. ASSUME NEW d \in Clients, NEW e, e = call'[d] PROVE Told(e, session, raced)
      <4>1. CASE e.pc = "apply"
        BY <4>1 DEF Told
      <4>2. CASE e = call[d]
        BY <4>2, Zenon DEF SessionInv
      <4> QED
        BY <1>0, <3>4, <3>6, <4>1, <4>2
    <3>7. ASSUME NEW d \in Clients PROVE Told(call[d], session, raced)'
      BY <2>1, <3>6, Zenon
    <3>8. Aged'
      BY <2>1 DEF SessionInv, Aged
    <3> QED
      BY <3>5, <3>7, <3>8 DEF SessionInv
  <2> QED
    BY <1>b, <2>1, <2>2
<1>3. ASSUME NEW c \in Callers, Apply(c) PROVE SessionInv'
  BY <1>3, <1>b DEF Apply, remote
<1>c. ASSUME UNCHANGED call, WatchSyncs, Aged',
             \A t \in Tokens :
               /\ session[t].state = "ended" => session'[t].state = "ended" /\ (raced[t] => raced'[t])
               /\ session[t].state = "live" =>
                    \/ session'[t].state = "live"
                    \/ session'[t].state = "ended"
                         /\ (raced'[t] <=> \E d \in Clients : call[d].pc = "answered" /\ call[d].token = t)
      PROVE  SessionInv'
  <2>1. ASSUME NEW d \in Clients PROVE Told(call[d], session', raced')
    <3>1. Told(call[d], session, raced)
      BY Zenon DEF SessionInv
    <3> QED
      BY <1>a, <1>c, <3>1, ToldLater
  <2>2. ASSUME NEW d \in Clients PROVE Told(call[d], session, raced)'
    BY <1>c, <2>1, Zenon
  <2>3. WatchSyncs'
    BY <1>c DEF WatchSyncs
  <2> QED
    BY <1>c, <2>2, <2>3 DEF SessionInv
<1>4. ASSUME NEW c \in Callers, SsoReplies(c) PROVE SessionInv'
  <2>1. UNCHANGED <<cached, raced>> /\ call[c].pc = "sso"
    BY <1>4 DEF SsoReplies, On
  <2>2. CASE Finish(c) /\ UNCHANGED session
    BY <1>b, <2>1, <2>2
  <2>3. CASE ~(Finish(c) /\ UNCHANGED session)
    <3>1. PICK t \in Tokens :
            /\ session[t].state \in {"new", "live"}
            /\ \/ /\ session' = [session EXCEPT ![t].state = "live"]
                  /\ Become(c, [call[c] EXCEPT !.pc = "member", !.token = t])
               \/ /\ Become(c, [call[c] EXCEPT !.pc = "member", !.token = t, !.by = "code"])
                  /\ UNCHANGED session
      BY <1>4, <2>3 DEF SsoReplies
    <3>2. ASSUME NEW u \in Tokens
          PROVE  /\ session'[u].age = session[u].age
                 /\ session'[u].state = session[u].state
                      \/ (session'[u].state = "live" /\ session[u].state # "ended")
      BY <1>0, <3>1 DEF SessionOK
    <3>3. Aged'
      BY <2>1, <3>2 DEF SessionInv, Aged
    <3>4. /\ [call[c] EXCEPT !.pc = "member", !.token = t].pc = "member"
          /\ [call[c] EXCEPT !.pc = "member", !.token = t, !.by = "code"].pc = "member"
      BY <1>0 DEF CallOK, CallShape
    <3>5. PICK r : Become(c, r) /\ r.pc = "member"
      BY <3>1, <3>4
    <3>6. c # Watch
      BY <2>1 DEF SessionInv, WatchSyncs
    <3>7. ASSUME NEW d \in Callers PROVE call'[d] = IF d = c THEN r ELSE call[d]
      BY <1>0, <3>5 DEF Become, CallOK
    <3>8. WatchSyncs'
      BY <1>0, <3>6, <3>7 DEF SessionInv, WatchSyncs
    <3>9. ASSUME NEW d \in Clients, NEW e, e = call'[d] PROVE Told(e, session', raced')
      <4>1. CASE d = c
        <5>1. e.pc \notin BeingAsked
          BY <1>0, <3>5, <3>7, <3>9, <4>1 DEF BeingAsked
        <5> QED
          BY <5>1, ToldOutside
      <4>2. CASE d # c
        <5>1. e = call[d] /\ Told(call[d], session, raced)
          BY <1>0, <3>7, <3>9, <4>2 DEF SessionInv
        <5>2. Told(call[d], session', raced')
          BY <1>a, <2>1, <3>2, <5>1, ToldLater
        <5> QED
          BY <5>1, <5>2, Zenon
      <4> QED
        BY <4>1, <4>2
    <3>10. ASSUME NEW d \in Clients PROVE Told(call[d], session, raced)'
      BY <3>9, Zenon
    <3> QED
      BY <3>3, <3>8, <3>10 DEF SessionInv
  <2> QED
    BY <2>2, <2>3
<1>5. ASSUME NEW c \in Callers, NEW t \in Tokens, LoginElsewhere(c, t) PROVE SessionInv'
  <2>1. /\ session[t].state = "new" /\ session' = [session EXCEPT ![t].state = "live"]
        /\ UNCHANGED <<call, cached, raced>>
    BY <1>5 DEF LoginElsewhere
  <2>2. ASSUME NEW u \in Tokens
        PROVE  /\ session'[u].age = session[u].age
               /\ session'[u].state = session[u].state
                    \/ (session'[u].state = "live" /\ session[u].state = "new")
    BY <1>0, <2>1 DEF SessionOK
  <2>3. Aged'
    BY <2>1, <2>2 DEF SessionInv, Aged
  <2> QED
    BY <1>c, <2>1, <2>2, <2>3 DEF SessionInv
<1>6. ASSUME NEW t \in Tokens, EndSession(t) PROVE SessionInv'
  <2> DEFINE g == \E c \in Clients : On(c, "answered") /\ call[c].token = t
  <2>1. /\ session[t].state = "live" /\ session' = [session EXCEPT ![t].state = "ended"]
        /\ raced' = [raced EXCEPT ![t] = g]
        /\ UNCHANGED <<call, cached>>
    BY <1>6 DEF EndSession
  <2>2. g <=> \E d \in Clients : call[d].pc = "answered" /\ call[d].token = t
    BY DEF On
  <2> HIDE DEF g
  <2>3. ASSUME NEW u \in Tokens, u # t
        PROVE  session'[u] = session[u] /\ raced'[u] = raced[u]
    BY <1>0, <2>1, <2>3 DEF SessionOK
  <2>4. session'[t].state = "ended" /\ session'[t].age = session[t].age /\ raced'[t] = g
    BY <1>0, <2>1 DEF SessionOK
  <2>5. Aged'
    <3>1. ASSUME NEW u \in Tokens
          PROVE  /\ session'[u].state # "ended" => session'[u].age = 0
                 /\ session'[u].state = "ended" /\ ~raced'[u] =>
                      cached'[u] = 0 \/ cached'[u] + session'[u].age <= TTL
      <4>1. CASE u # t
        BY <2>1, <2>3, <4>1 DEF SessionInv, Aged
      <4>2. CASE u = t
        <5>1. session[u].age = 0 /\ cached[u] \in 0..TTL
          BY <1>0, <2>1, <4>2 DEF SessionInv, Aged, SessionOK
        <5> QED
          BY <2>1, <2>4, <4>2, <5>1
      <4> QED
        BY <4>1, <4>2
    <3> QED
      BY <3>1 DEF Aged
  <2> QED
    BY <1>c, <2>1, <2>2, <2>3, <2>4, <2>5 DEF SessionInv
<1>7. CASE Tick
  <2>1. /\ cached' = [t \in Tokens |-> IF cached[t] > 0 THEN cached[t] - 1 ELSE 0]
        /\ session' = [t \in Tokens |-> IF session[t].state = "ended" /\ session[t].age < TTL
                                        THEN [session[t] EXCEPT !.age = @ + 1] ELSE session[t]]
        /\ UNCHANGED <<call, raced>>
    BY <1>7 DEF Tick
  <2>2. ASSUME NEW u \in Tokens
        PROVE  /\ session'[u].state = session[u].state
               /\ session'[u].age = IF session[u].state = "ended" /\ session[u].age < TTL
                                    THEN session[u].age + 1 ELSE session[u].age
               /\ cached'[u] = IF cached[u] > 0 THEN cached[u] - 1 ELSE 0
    <3>1. session[u] \in [state: {"new", "live", "ended"}, age: 0..TTL]
      BY <1>0 DEF SessionOK
    <3> QED
      BY <2>1, <3>1
  <2>3. Aged'
    <3>1. ASSUME NEW u \in Tokens
          PROVE  /\ session'[u].state # "ended" => session'[u].age = 0
                 /\ session'[u].state = "ended" /\ ~raced'[u] =>
                      cached'[u] = 0 \/ cached'[u] + session'[u].age <= TTL
      <4>1. cached[u] \in 0..TTL /\ session[u].age \in 0..TTL
        BY <1>0 DEF SessionOK
      <4>2. /\ session[u].state # "ended" => session[u].age = 0
            /\ session[u].state = "ended" /\ ~raced[u] => cached[u] = 0 \/ cached[u] + session[u].age <= TTL
        BY DEF SessionInv, Aged
      <4> QED
        BY <2>1, <2>2, <4>1, <4>2
    <3> QED
      BY <3>1 DEF Aged
  <2> QED
    BY <1>c, <2>1, <2>2, <2>3 DEF SessionInv
<1>8. CASE WatchWakes
  <2> DEFINE r == [Rest EXCEPT !.pc = "act", !.op = "sync"]
  <2>1. Become(Watch, r) /\ UNCHANGED <<session, raced, cached>>
    BY <1>8 DEF WatchWakes, remote
  <2>2. r.pc = "act" /\ r.op = "sync"
    BY DEF Rest
  <2> HIDE DEF r
  <2>3. call'[Watch] = r
    BY <1>0, <2>1 DEF Become, CallOK
  <2>4. WatchSyncs'
    BY <2>2, <2>3 DEF WatchSyncs
  <2>5. Told(r, session, raced)
    BY <2>2 DEF Told
  <2> QED
    BY <1>0, <2>1, <2>4, <2>5, SessionStays
<1> QED
  BY <1>1, <1>2, <1>3, <1>4, <1>5, <1>6, <1>7, <1>8
     DEF CliAdd, CliDelete, BillingChanges, consoleVars, remote

LEMMA SessionNextInv == ConsoleTypes /\ SessionInv /\ [ConsoleNext]_consoleVars => SessionInv'
<1> SUFFICES ASSUME ConsoleTypes, SessionInv, [ConsoleNext]_consoleVars PROVE SessionInv'
  OBVIOUS
<1>1. Callers = Clients \cup {Watch} /\ Watch \in Callers
  BY DEF Callers
<1> QED
  BY <1>1, WatchOnly, CheckingNext, ClientNext, SessionMoves DEF ConsoleNext

(* What is applied from billing: unless overlapping syncs mixed the        *)
(* answers up the active organizations are those of the newest answer, and *)
(* a sync that overlaps with no other has an answer as new as that.        *)
Applying(c) ==
  /\ call[c].open \subseteq call[c].listed /\ call[c].edition <= billing.edition
  /\ call[c].alone => /\ call[c].edition >= heard.edition
                      /\ \A d \in Callers \ {c} : call[d].pc # "apply"
DirectoryInv ==
  /\ heard.tangled \/ active = heard.open
  /\ heard.edition <= billing.edition
  /\ \A c \in Callers : call[c].pc = "apply" => Applying(c)

LEMMA DirectoryStays ==
  ASSUME DirectoryInv, UNCHANGED <<heard, active>>, BillingOK,
         billing' = billing \/ (billing'.edition \in Nat /\ billing'.edition > billing.edition),
         ConsoleTypes,
         \A d \in Callers : call'[d] = call[d] \/ call'[d].pc # "apply"
  PROVE  DirectoryInv'
<1>1. billing.edition <= billing'.edition /\ billing.edition \in Nat /\ billing'.edition \in Nat
  BY DEF BillingOK
<1>2. heard.edition \in Nat /\ \A d \in Callers : call[d].edition \in Nat
  BY DEF ConsoleTypes, DirectoryOK, CallOK, CallShape
<1>3. ASSUME NEW c \in Callers, call'[c].pc = "apply" PROVE Applying(c)'
  <2>1. call'[c] = call[c] /\ Applying(c)
    BY <1>3 DEF DirectoryInv
  <2>2. call'[c].edition <= billing'.edition
    BY <1>1, <1>2, <2>1 DEF Applying
  <2>3. ASSUME call'[c].alone, NEW d \in Callers \ {c} PROVE call'[d].pc # "apply"
    BY <2>1, <2>3 DEF Applying
  <2> QED
    BY <2>1, <2>2, <2>3 DEF Applying
<1>4. heard'.edition <= billing'.edition
  BY <1>1, <1>2 DEF DirectoryInv
<1> QED
  BY <1>3, <1>4 DEF DirectoryInv

LEMMA AskNext ==
  ASSUME ConsoleTypes, DirectoryInv, NEW c \in Callers, AskBilling(c)
  PROVE  DirectoryInv'
<1>0. CallOK /\ BillingOK /\ UNCHANGED <<heard, active, billing>>
  BY DEF ConsoleTypes, AskBilling, directory, remote
<1>1. CASE Finish(c)
  <2>1. Rest.pc # "apply"
    BY DEF Rest
  <2>2. \A d \in Callers : call'[d] = call[d] \/ call'[d].pc # "apply"
    BY <1>0, <1>1, <2>1 DEF Finish, Become, CallOK
  <2> QED
    BY <1>0, <2>2, DirectoryStays
<1>2. CASE ~Finish(c)
  <2> DEFINE others == {d \in Callers \ {c} : On(d, "apply")}
  <2>1. PICK refused \in BOOLEAN :
          call' = [d \in Callers |->
                    IF d = c THEN [[call[c] EXCEPT !.pc = "apply", !.edition = billing.edition,
                                           !.listed = IF refused THEN {} ELSE billing.listed,
                                           !.open = IF refused THEN {} ELSE billing.open]
                                    EXCEPT !.alone = others = {}]
                    ELSE IF d \in others THEN [call[d] EXCEPT !.alone = FALSE]
                    ELSE call[d]]
    BY <1>2 DEF AskBilling
  <2> DEFINE l == IF refused THEN {} ELSE billing.listed
             o == IF refused THEN {} ELSE billing.open
             a == others = {}
  <2>2. call'[c] = [[call[c] EXCEPT !.pc = "apply", !.edition = billing.edition, !.listed = l,
                                    !.open = o] EXCEPT !.alone = a]
    BY <2>1
  <2>3. o \subseteq l
    BY <1>0 DEF BillingOK
  <2>4. a => \A d \in Callers \ {c} : call[d].pc # "apply"
    BY DEF On
  <2>5. ~a => \E d \in Callers \ {c} : call[d].pc = "apply"
    BY DEF On
  <2>6. ASSUME NEW d \in Callers \ {c}
        PROVE  IF call[d].pc = "apply" THEN call'[d] = [call[d] EXCEPT !.alone = FALSE]
                                       ELSE call'[d] = call[d]
    BY <2>1 DEF On
  <2> HIDE DEF l, o, a, others
  <2>7. /\ call'[c].pc = "apply" /\ call'[c].edition = billing.edition /\ call'[c].listed = l
        /\ call'[c].open = o /\ call'[c].alone = a
    <3>1. call[c] \in CallShape
      BY <1>0 DEF CallOK
    <3> DEFINE q1 == [call[c] EXCEPT !.pc = "apply", !.edition = billing.edition, !.listed = l,
                                     !.open = o]
    <3>2. /\ q1 \in [DOMAIN call[c] -> {q1[f] : f \in DOMAIN call[c]}]
          /\ DOMAIN q1 = DOMAIN call[c] /\ "alone" \in DOMAIN q1
      BY <3>1 DEF CallShape
    <3>3. q1.pc = "apply" /\ q1.edition = billing.edition /\ q1.listed = l /\ q1.open = o
      BY <3>1 DEF CallShape
    <3>4. call'[c] = [q1 EXCEPT !.alone = a]
      BY <2>2
    <3> HIDE DEF q1
    <3> QED
      BY <3>2, <3>3, <3>4, <3>1 DEF CallShape
  <2>8. ASSUME NEW d \in Callers \ {c}, call'[d].pc = "apply"
        PROVE  /\ call[d].pc = "apply" /\ call'[d].edition = call[d].edition
               /\ call'[d].listed = call[d].listed /\ call'[d].open = call[d].open
               /\ call'[d].alone = FALSE
    <3>0. call[d] \in CallShape
      BY <1>0 DEF CallOK
    <3>1. ASSUME NEW r, r = call[d], NEW q, q = [r EXCEPT !.alone = FALSE]
          PROVE  /\ q.pc = r.pc /\ q.edition = r.edition /\ q.listed = r.listed /\ q.open = r.open
                 /\ q.alone = FALSE
      BY <3>0, <3>1 DEF CallShape
    <3>2. CASE call[d].pc = "apply"
      <4>1. call'[d] = [call[d] EXCEPT !.alone = FALSE]
        BY <2>6, <3>2
      <4> QED
        BY <3>1, <3>2, <4>1
    <3>3. CASE call[d].pc # "apply"
      BY <2>6, <2>8, <3>3
    <3> QED
      BY <3>2, <3>3
  <2>9. heard.edition <= billing.edition /\ billing.edition \in Nat
    BY <1>0 DEF DirectoryInv, BillingOK
  <2>10. ASSUME NEW d \in Callers, call'[d].pc = "apply" PROVE Applying(d)'
    <3>1. CASE d = c
      <4>1. a => \A e \in Callers \ {c} : call'[e].pc # "apply"
        BY <2>4, <2>8
      <4> QED
        BY <1>0, <2>3, <2>7, <2>9, <3>1, <4>1 DEF Applying
    <3>2. CASE d # c
      <4>1. Applying(d)
        BY <2>8, <2>10, <3>2 DEF DirectoryInv
      <4> QED
        BY <1>0, <2>8, <2>10, <3>2, <4>1 DEF Applying
    <3> QED
      BY <3>1, <3>2
  <2> QED
    BY <1>0, <2>10 DEF DirectoryInv
<1> QED
  BY <1>1, <1>2

LEMMA ApplyNext ==
  ASSUME ConsoleTypes, DirectoryInv, NEW c \in Callers, Apply(c)
  PROVE  DirectoryInv'
<1>0. CallOK /\ BillingOK /\ DirectoryOK /\ billing' = billing /\ call[c].pc = "apply"
  BY DEF ConsoleTypes, Apply, remote, On
<1>1. Applying(c) /\ call[c] \in CallShape
  BY <1>0 DEF DirectoryInv, CallOK
<1>2. ASSUME NEW d \in Callers PROVE call'[d] = IF d = c THEN Rest ELSE call[d]
  BY <1>0 DEF Apply, Finish, Become, CallOK
<1>3. Rest.pc # "apply"
  BY DEF Rest
<1>4. active' = call[c].open
  BY <1>1 DEF Apply, Directory, Applying
<1>5. /\ heard'.edition \in {heard.edition, call[c].edition}
      /\ heard'.tangled \/ active' = heard'.open
  <2>1. CASE call[c].edition >= heard.edition
    <3>1. heard' = [edition |-> call[c].edition, open |-> call[c].open, tangled |-> FALSE]
      BY <2>1 DEF Apply
    <3> QED
      BY <1>4, <3>1
  <2>2. CASE ~(call[c].edition >= heard.edition)
    <3>1. heard' = [heard EXCEPT !.tangled = ~call[c].alone]
      BY <2>2 DEF Apply
    <3>2. ~call[c].alone
      BY <1>1, <2>2 DEF Applying
    <3>3. heard'.edition = heard.edition /\ heard'.tangled = ~call[c].alone
      BY <1>0, <3>1 DEF DirectoryOK
    <3> QED
      BY <3>2, <3>3
  <2> QED
    BY <2>1, <2>2
<1>6. heard'.edition <= billing'.edition
  BY <1>0, <1>1, <1>5 DEF DirectoryInv, Applying
<1>7. ASSUME NEW d \in Callers, call'[d].pc = "apply" PROVE Applying(d)'
  <2>1. d # c /\ call'[d] = call[d] /\ Applying(d)
    BY <1>2, <1>3, <1>7 DEF DirectoryInv
  <2>2. ~call[d].alone
    BY <1>0, <2>1 DEF Applying
  <2> QED
    BY <1>0, <2>1, <2>2 DEF Applying
<1> QED
  BY <1>5, <1>6, <1>7 DEF DirectoryInv

LEMMA RecordsApply ==
  ASSUME ConsoleTypes, [ConsoleNext]_consoleVars, ~\E c \in Callers : AskBilling(c) \/ Apply(c)
  PROVE  \A d \in Callers : call'[d] = call[d] \/ call'[d].pc # "apply"
<1>0. CallOK /\ JarOK
  BY DEF ConsoleTypes
<1>1. ASSUME NEW c \in Callers, NEW r, Become(c, r), r.pc # "apply"
      PROVE  \A d \in Callers : call'[d] = call[d] \/ call'[d].pc # "apply"
  BY <1>0, <1>1 DEF Become, CallOK
<1>2. ASSUME NEW c \in Callers, Finish(c)
      PROVE  \A d \in Callers : call'[d] = call[d] \/ call'[d].pc # "apply"
  <2>1. Rest.pc # "apply"
    BY DEF Rest
  <2> QED
    BY <1>1, <1>2, <2>1 DEF Finish
<1>3. ASSUME NEW c \in Callers, NEW r \in NoSession(c, call[c]), Become(c, r)
      PROVE  \A d \in Callers : call'[d] = call[d] \/ call'[d].pc # "apply"
  <2>1. r.pc \in {"hook", "first"}
    BY <1>0, NoSessionShape DEF CallOK
  <2> QED
    BY <1>1, <1>3, <2>1
<1>4. ASSUME NEW c \in Callers, NEW pc, pc # "apply", Step(c, pc)
      PROVE  \A d \in Callers : call'[d] = call[d] \/ call'[d].pc # "apply"
  <2>1. [call[c] EXCEPT !.pc = pc].pc = pc
    BY <1>0 DEF CallOK, CallShape
  <2> QED
    BY <1>1, <1>4, <2>1 DEF Step
<1>5. ASSUME NEW c \in Callers, NEW by, Admit(c, by)
      PROVE  \A d \in Callers : call'[d] = call[d] \/ call'[d].pc # "apply"
  <2>1. [call[c] EXCEPT !.pc = "act", !.by = by].pc = "act"
    BY <1>0 DEF CallOK, CallShape
  <2> QED
    BY <1>1, <1>5, <2>1 DEF Admit
<1>6. ASSUME NEW c \in Callers, ConsoleRequest(c)
      PROVE  \A d \in Callers : call'[d] = call[d] \/ call'[d].pc # "apply"
  <2>1. PICK op \in {"page", "cameras"} \cup (IF sso THEN {"sync"} ELSE UserOps) :
          \E r \in Cookies(c, [Rest EXCEPT !.op = op]) : Become(c, r)
    BY <1>6 DEF ConsoleRequest
  <2> DEFINE first == [Rest EXCEPT !.op = op]
  <2>2. op \in ConsoleOps
    BY DEF ConsoleOps, UserOps
  <2>3. first \in CallShape
    BY <2>2, RestShape DEF CallShape
  <2>4. PICK r \in Cookies(c, first) : Become(c, r)
    BY <2>1
  <2>5. c \in Clients
    BY <1>6 DEF ConsoleRequest
  <2> HIDE DEF first
  <2>6. r.pc \in {"hook", "first", "cache", "row"}
    BY <1>0, <2>3, <2>4, <2>5, CookiesShape
  <2> QED
    BY <1>1, <2>4, <2>6
<1>7. ASSUME NEW c \in Callers, LookUp(c)
      PROVE  \A d \in Callers : call'[d] = call[d] \/ call'[d].pc # "apply"
  <2>0. PICK pc \in {"open", "asking"} :
          \E late : Become(c, [call[c] EXCEPT !.pc = pc, !.late = late])
    BY <1>7 DEF LookUp
  <2>1. PICK late : Become(c, [call[c] EXCEPT !.pc = pc, !.late = late])
    BY <2>0
  <2>2. [call[c] EXCEPT !.pc = pc, !.late = late].pc = pc
    BY <1>0 DEF CallOK, CallShape
  <2> QED
    BY <1>1, <2>1, <2>2
<1>8. ASSUME NEW c \in Callers, ReadUser(c)
      PROVE  \A d \in Callers : call'[d] = call[d] \/ call'[d].pc # "apply"
  <2>1. [call[c] EXCEPT !.pc = "act", !.by = "cookie", !.user = call[c].cookie.id].pc = "act"
    BY <1>0 DEF CallOK, CallShape
  <2> QED
    BY <1>1, <1>3, <1>8, <2>1 DEF ReadUser
<1>9. ASSUME NEW c \in Callers, CountUsers(c)
      PROVE  \A d \in Callers : call'[d] = call[d] \/ call'[d].pc # "apply"
  <2>1. [call[c] EXCEPT !.pc = "delete", !.looked = removals].pc = "delete"
    BY <1>0 DEF CallOK, CallShape
  <2> QED
    BY <1>1, <1>2, <1>9, <2>1 DEF CountUsers
<1>10. ASSUME NEW c \in Callers, BeginLogin(c)
       PROVE  \A d \in Callers : call'[d] = call[d] \/ call'[d].pc # "apply"
  <2>1. PICK op \in IF sso THEN {"login", "callback"} ELSE {"login"} :
          Become(c, [Rest EXCEPT !.op = op, !.pc = IF sso THEN "sso" ELSE "users"])
    BY <1>10 DEF BeginLogin
  <2>2. ASSUME NEW pc PROVE [Rest EXCEPT !.op = op, !.pc = pc].pc = pc
    BY DEF Rest
  <2>3. [Rest EXCEPT !.op = op, !.pc = IF sso THEN "sso" ELSE "users"].pc # "apply"
    BY <2>2
  <2> QED
    BY <1>1, <2>1, <2>3
<1>11. ASSUME NEW c \in Callers, BeginCode(c)
       PROVE  \A d \in Callers : call'[d] = call[d] \/ call'[d].pc # "apply"
  <2>1. [Rest EXCEPT !.op = "otp", !.pc = "sso", !.token = jar[c].ui.id].pc = "sso"
    BY DEF Rest
  <2> QED
    BY <1>1, <1>11, <2>1 DEF BeginCode
<1>12. ASSUME NEW c \in Callers, SsoReplies(c)
       PROVE  \A d \in Callers : call'[d] = call[d] \/ call'[d].pc # "apply"
  <2>1. \/ Finish(c)
        \/ \E t \in Tokens : \/ Become(c, [call[c] EXCEPT !.pc = "member", !.token = t])
                             \/ Become(c, [call[c] EXCEPT !.pc = "member", !.token = t, !.by = "code"])
    BY <1>12 DEF SsoReplies
  <2>2. ASSUME NEW t
        PROVE  /\ [call[c] EXCEPT !.pc = "member", !.token = t].pc = "member"
               /\ [call[c] EXCEPT !.pc = "member", !.token = t, !.by = "code"].pc = "member"
    BY <1>0 DEF CallOK, CallShape
  <2> QED
    BY <1>1, <1>2, <2>1, <2>2
<1>13. ASSUME WatchWakes
       PROVE  \A d \in Callers : call'[d] = call[d] \/ call'[d].pc # "apply"
  <2>1. [Rest EXCEPT !.pc = "act", !.op = "sync"].pc = "act" /\ Watch \in Callers
    BY DEF Rest, Callers
  <2> QED
    BY <1>1, <1>13, <2>1 DEF WatchWakes
<1>14. ASSUME NEW c \in Callers, HasUsers(c)
       PROVE  \A d \in Callers : call'[d] = call[d] \/ call'[d].pc # "apply"
  <2>1. Step(c, "create") \/ Step(c, "verify")
    BY <1>14 DEF HasUsers
  <2> QED
    BY <1>4, <2>1
<1>15. ASSUME NEW c \in Callers,
              \/ Answer(c) \/ Receive(c) \/ CheckOrganization(c) \/ CheckWebhook(c) \/ CheckFirstBoot(c)
              \/ Show(c) \/ PostUser(c) \/ PutUser(c) \/ DeleteUser(c) \/ Logout(c) \/ CreateFirst(c)
              \/ Verify(c) \/ CheckMember(c) \/ \E t \in Tokens : LoginElsewhere(c, t)
       PROVE  \A d \in Callers : call'[d] = call[d] \/ call'[d].pc # "apply"
  BY <1>15, <1>2, <1>3, <1>4, <1>5
     DEF Answer, Receive, CheckOrganization, CheckWebhook, CheckFirstBoot, Show, PostUser, PutUser,
         DeleteUser, Logout, CreateFirst, Verify, CheckMember, LoginElsewhere
<1>16. ASSUME \/ \E t \in Tokens : EndSession(t)
              \/ CliAdd \/ CliDelete \/ BillingChanges \/ Tick \/ UNCHANGED consoleVars
       PROVE  \A d \in Callers : call'[d] = call[d] \/ call'[d].pc # "apply"
  BY <1>16 DEF EndSession, CliAdd, CliDelete, BillingChanges, Tick, consoleVars
<1> QED
  BY <1>6, <1>7, <1>8, <1>9, <1>10, <1>11, <1>12, <1>13, <1>14, <1>15, <1>16 DEF ConsoleNext

LEMMA DirectoryNextInv == ConsoleTypes /\ DirectoryInv /\ [ConsoleNext]_consoleVars => DirectoryInv'
<1> SUFFICES ASSUME ConsoleTypes, DirectoryInv, [ConsoleNext]_consoleVars PROVE DirectoryInv'
  OBVIOUS
<1>1. CASE \E c \in Callers : AskBilling(c) \/ Apply(c)
  BY <1>1, AskNext, ApplyNext
<1>2. CASE ~\E c \in Callers : AskBilling(c) \/ Apply(c)
  <2>1. \A d \in Callers : call'[d] = call[d] \/ call'[d].pc # "apply"
    BY <1>2, RecordsApply
  <2>2. UNCHANGED <<heard, active>>
    BY <1>2 DEF ConsoleNext, ConsoleRequest, LookUp, Answer, Receive, CheckOrganization, ReadUser,
          CheckWebhook, CheckFirstBoot, Show, PostUser, PutUser, CountUsers, DeleteUser, BeginLogin,
          BeginCode, Logout, HasUsers, CreateFirst, Verify, SsoReplies, CheckMember, LoginElsewhere,
          EndSession, CliAdd, CliDelete, BillingChanges, Tick, WatchWakes, consoleVars, directory
  <2>3. BillingOK
    BY DEF ConsoleTypes
  <2>4. CASE BillingChanges
    <3>1. billing'.edition = billing.edition + 1
      BY <2>4 DEF BillingChanges
    <3>2. billing'.edition \in Nat /\ billing'.edition > billing.edition
      BY <2>3, <3>1 DEF BillingOK
    <3> QED
      BY <2>1, <2>2, <2>3, <3>2, DirectoryStays
  <2>5. CASE ~BillingChanges
    <3>1. UNCHANGED billing
      BY <1>2, <2>5 DEF ConsoleNext, ConsoleRequest, LookUp, Answer, Receive, CheckOrganization, ReadUser,
            CheckWebhook, CheckFirstBoot, Show, PostUser, PutUser, CountUsers, DeleteUser, BeginLogin,
            BeginCode, Logout, HasUsers, CreateFirst, Verify, SsoReplies, CheckMember, LoginElsewhere,
            EndSession, CliAdd, CliDelete, Tick, WatchWakes, consoleVars, remote
    <3> QED
      BY <2>1, <2>2, <2>3, <3>1, DirectoryStays
  <2> QED
    BY <2>4, <2>5
<1> QED
  BY <1>1, <1>2

(* Whoever is admitted may come in.                                        *)
MayEnter(r) ==
  /\ r.by = "token" => /\ r.late => raced[r.token]
                       /\ OrgOf[r.token] \subseteq heard.open \/ heard.tangled
  /\ r.by = "cookie" => \E u \in users : u.id = r.cookie.id /\ u.pass = r.cookie.pass
Enters(d) == call[d].pc # "act" /\ call'[d].pc = "act" => \E r : r = call'[d] /\ MayEnter(r)

LEMMA EntersBy ==
  ASSUME CallOK, NEW c \in Callers, NEW r, Become(c, r), r.pc = "act" => MayEnter(r)
  PROVE  \A d \in Clients : Enters(d)
<1> TAKE d \in Clients
<1>0. d \in Callers
  BY DEF Callers
<1>1. CASE d = c
  <2>1. call'[d] = r
    BY <1>0, <1>1 DEF Become, CallOK
  <2> QED
    BY <2>1, Zenon DEF Enters
<1>2. CASE d # c
  <2>1. call'[d] = call[d]
    BY <1>0, <1>2 DEF Become, CallOK
  <2> QED
    BY <2>1, Zenon DEF Enters
<1> QED
  BY <1>1, <1>2

(* A request with a token, one with a cookie, and one with neither.        *)
LEMMA TokenEnters ==
  ASSUME ConsoleTypes, SessionInv, DirectoryInv, NEW c \in Callers, CheckOrganization(c)
  PROVE  \A d \in Clients : Enters(d)
<1>0. CallOK /\ call[c] \in CallShape /\ call[c].pc = "open" /\ TokenKnown(call[c])
  BY DEF ConsoleTypes, CallOK, CheckOrganization, On
<1>1. CASE Opened(call[c].token) /\ Admit(c, "token")
  <2>1. c \in Clients
    BY <1>0 DEF SessionInv, WatchSyncs, Callers
  <2>2. Told(call[c], session, raced)
    BY <2>1 DEF SessionInv
  <2>3. call[c].late => raced[call[c].token]
    BY <1>0, <2>2, Zenon DEF Told
  <2>4. OrgOf[call[c].token] \subseteq heard.open \/ heard.tangled
    BY <1>1 DEF DirectoryInv, Opened
  <2> DEFINE r == [call[c] EXCEPT !.pc = "act", !.by = "token"]
  <2>5. Become(c, r)
    BY <1>1 DEF Admit
  <2>6. r.by = "token" /\ r.token = call[c].token /\ r.late = call[c].late
    BY <1>0 DEF CallShape
  <2> HIDE DEF r
  <2>7. MayEnter(r)
    BY <2>3, <2>4, <2>6 DEF MayEnter
  <2> QED
    BY <1>0, <2>5, <2>7, EntersBy
<1>2. CASE \E r \in NoSession(c, call[c]) : Become(c, r)
  <2>1. PICK r \in NoSession(c, call[c]) : Become(c, r)
    BY <1>2
  <2>2. r.pc # "act"
    BY <1>0, <2>1, NoSessionShape
  <2> QED
    BY <1>0, <2>1, <2>2, EntersBy
<1> QED
  BY <1>1, <1>2 DEF CheckOrganization

LEMMA CookieEnters ==
  ASSUME ConsoleTypes, NEW c \in Callers, ReadUser(c)
  PROVE  \A d \in Clients : Enters(d)
<1>0. CallOK /\ call[c] \in CallShape
  BY DEF ConsoleTypes, CallOK
<1>1. CASE /\ \E u \in users : Matches(u, call[c].cookie)
           /\ Become(c, [call[c] EXCEPT !.pc = "act", !.by = "cookie", !.user = call[c].cookie.id])
  <2> DEFINE r == [call[c] EXCEPT !.pc = "act", !.by = "cookie", !.user = call[c].cookie.id]
  <2>1. r.by = "cookie" /\ r.cookie = call[c].cookie
    BY <1>0 DEF CallShape
  <2>2. Become(c, r)
    BY <1>1
  <2> HIDE DEF r
  <2>3. MayEnter(r)
    BY <1>1, <2>1 DEF MayEnter, Matches
  <2> QED
    BY <1>0, <2>2, <2>3, EntersBy
<1>2. CASE \E r \in NoSession(c, call[c]) : Become(c, r)
  <2>1. PICK r \in NoSession(c, call[c]) : Become(c, r)
    BY <1>2
  <2>2. r.pc # "act"
    BY <1>0, <2>1, NoSessionShape
  <2> QED
    BY <1>0, <2>1, <2>2, EntersBy
<1> QED
  BY <1>1, <1>2 DEF ReadUser

LEMMA NamelessEnters ==
  ASSUME ConsoleTypes, NEW c \in Callers, CheckWebhook(c) \/ CheckFirstBoot(c)
  PROVE  \A d \in Clients : Enters(d)
<1>0. CallOK /\ call[c] \in CallShape
  BY DEF ConsoleTypes, CallOK
<1>1. ASSUME NEW by \in {"hook", "nobody"}, Admit(c, by) PROVE \A d \in Clients : Enters(d)
  <2> DEFINE r == [call[c] EXCEPT !.pc = "act", !.by = by]
  <2>1. r.by = by /\ Become(c, r)
    BY <1>0, <1>1 DEF CallShape, Admit
  <2> HIDE DEF r
  <2>2. MayEnter(r)
    BY <2>1 DEF MayEnter
  <2> QED
    BY <1>0, <2>1, <2>2, EntersBy
<1>2. ASSUME Finish(c) PROVE \A d \in Clients : Enters(d)
  <2>1. Rest.pc # "act"
    BY DEF Rest
  <2> QED
    BY <1>0, <1>2, <2>1, EntersBy DEF Finish
<1> QED
  BY <1>1, <1>2 DEF CheckWebhook, CheckFirstBoot

LEMMA OthersStayOut ==
  ASSUME ConsoleTypes, [ConsoleNext]_consoleVars,
         ~\E c \in Callers : CheckOrganization(c) \/ ReadUser(c) \/ CheckWebhook(c) \/ CheckFirstBoot(c)
  PROVE  \A d \in Clients : Enters(d)
<1>0. CallOK /\ JarOK
  BY DEF ConsoleTypes
<1>1. ASSUME NEW c \in Callers, NEW r, Become(c, r), r.pc # "act" PROVE \A d \in Clients : Enters(d)
  BY <1>0, <1>1, EntersBy
<1>2. ASSUME NEW c \in Callers, Finish(c) PROVE \A d \in Clients : Enters(d)
  <2>1. Rest.pc # "act"
    BY DEF Rest
  <2> QED
    BY <1>1, <1>2, <2>1 DEF Finish
<1>3. ASSUME NEW c \in Callers, NEW r \in NoSession(c, call[c]), Become(c, r)
      PROVE  \A d \in Clients : Enters(d)
  <2>1. r.pc \in {"hook", "first"}
    BY <1>0, NoSessionShape DEF CallOK
  <2> QED
    BY <1>1, <1>3, <2>1
<1>4. ASSUME NEW c \in Callers, NEW pc, pc # "act", Step(c, pc) PROVE \A d \in Clients : Enters(d)
  <2>1. [call[c] EXCEPT !.pc = pc].pc = pc
    BY <1>0 DEF CallOK, CallShape
  <2> QED
    BY <1>1, <1>4, <2>1 DEF Step
<1>6. ASSUME NEW c \in Callers, ConsoleRequest(c) PROVE \A d \in Clients : Enters(d)
  <2>1. PICK op \in {"page", "cameras"} \cup (IF sso THEN {"sync"} ELSE UserOps) :
          \E r \in Cookies(c, [Rest EXCEPT !.op = op]) : Become(c, r)
    BY <1>6 DEF ConsoleRequest
  <2> DEFINE first == [Rest EXCEPT !.op = op]
  <2>2. op \in ConsoleOps
    BY DEF ConsoleOps, UserOps
  <2>3. first \in CallShape
    BY <2>2, RestShape DEF CallShape
  <2>4. PICK r \in Cookies(c, first) : Become(c, r)
    BY <2>1
  <2>5. c \in Clients
    BY <1>6 DEF ConsoleRequest
  <2> HIDE DEF first
  <2>6. r.pc \in {"hook", "first", "cache", "row"}
    BY <1>0, <2>3, <2>4, <2>5, CookiesShape
  <2> QED
    BY <1>1, <2>4, <2>6
<1>7. ASSUME NEW c \in Callers, LookUp(c) PROVE \A d \in Clients : Enters(d)
  <2>0. PICK pc \in {"open", "asking"} :
          \E late : Become(c, [call[c] EXCEPT !.pc = pc, !.late = late])
    BY <1>7 DEF LookUp
  <2>1. PICK late : Become(c, [call[c] EXCEPT !.pc = pc, !.late = late])
    BY <2>0
  <2>2. [call[c] EXCEPT !.pc = pc, !.late = late].pc = pc
    BY <1>0 DEF CallOK, CallShape
  <2> QED
    BY <1>1, <2>1, <2>2
<1>9. ASSUME NEW c \in Callers, CountUsers(c) PROVE \A d \in Clients : Enters(d)
  <2>1. [call[c] EXCEPT !.pc = "delete", !.looked = removals].pc = "delete"
    BY <1>0 DEF CallOK, CallShape
  <2> QED
    BY <1>1, <1>2, <1>9, <2>1 DEF CountUsers
<1>10. ASSUME NEW c \in Callers, BeginLogin(c) PROVE \A d \in Clients : Enters(d)
  <2>1. PICK op \in IF sso THEN {"login", "callback"} ELSE {"login"} :
          Become(c, [Rest EXCEPT !.op = op, !.pc = IF sso THEN "sso" ELSE "users"])
    BY <1>10 DEF BeginLogin
  <2>2. ASSUME NEW pc PROVE [Rest EXCEPT !.op = op, !.pc = pc].pc = pc
    BY DEF Rest
  <2>3. [Rest EXCEPT !.op = op, !.pc = IF sso THEN "sso" ELSE "users"].pc # "act"
    BY <2>2
  <2> QED
    BY <1>1, <2>1, <2>3
<1>11. ASSUME NEW c \in Callers, BeginCode(c) PROVE \A d \in Clients : Enters(d)
  <2>1. [Rest EXCEPT !.op = "otp", !.pc = "sso", !.token = jar[c].ui.id].pc = "sso"
    BY DEF Rest
  <2> QED
    BY <1>1, <1>11, <2>1 DEF BeginCode
<1>12. ASSUME NEW c \in Callers, SsoReplies(c) PROVE \A d \in Clients : Enters(d)
  <2>1. \/ Finish(c)
        \/ \E t \in Tokens : \/ Become(c, [call[c] EXCEPT !.pc = "member", !.token = t])
                             \/ Become(c, [call[c] EXCEPT !.pc = "member", !.token = t, !.by = "code"])
    BY <1>12 DEF SsoReplies
  <2>2. ASSUME NEW t
        PROVE  /\ [call[c] EXCEPT !.pc = "member", !.token = t].pc = "member"
               /\ [call[c] EXCEPT !.pc = "member", !.token = t, !.by = "code"].pc = "member"
    BY <1>0 DEF CallOK, CallShape
  <2> QED
    BY <1>1, <1>2, <2>1, <2>2
<1>13. ASSUME WatchWakes, NEW d \in Clients PROVE Enters(d)
  <2>1. d \in Callers /\ d # Watch
    BY DEF Callers, Watch
  <2>2. call'[d] = call[d]
    BY <1>0, <1>13, <2>1 DEF WatchWakes, Become, CallOK
  <2> QED
    BY <2>2, Zenon DEF Enters
<1>14. ASSUME NEW c \in Callers, HasUsers(c) PROVE \A d \in Clients : Enters(d)
  <2>1. Step(c, "create") \/ Step(c, "verify")
    BY <1>14 DEF HasUsers
  <2> QED
    BY <1>4, <2>1
<1>15. ASSUME NEW c \in Callers,
              \/ Answer(c) \/ Receive(c) \/ Show(c) \/ PostUser(c) \/ PutUser(c) \/ DeleteUser(c)
              \/ CreateFirst(c) \/ Verify(c) \/ CheckMember(c) \/ Apply(c)
       PROVE  \A d \in Clients : Enters(d)
  BY <1>15, <1>2, <1>3, <1>4
     DEF Answer, Receive, Show, PostUser, PutUser, DeleteUser, CreateFirst, Verify, CheckMember, Apply
<1>16. ASSUME UNCHANGED call PROVE \A d \in Clients : Enters(d)
  BY <1>16, Zenon DEF Enters
<1>17. ASSUME NEW c \in Callers, AskBilling(c), NEW d \in Clients PROVE Enters(d)
  <2>1. CASE Finish(c)
    BY <1>2, <2>1
  <2>2. CASE ~Finish(c)
    <3>0. d \in Callers
      BY DEF Callers
    <3>1. call[d].pc # "act" => d # c \/ ~On(c, "act")
      BY DEF On
    <3> DEFINE others == {e \in Callers \ {c} : On(e, "apply")}
    <3>2. d # c => call'[d] = [call[d] EXCEPT !.alone = FALSE] \/ call'[d] = call[d]
      <4>1. PICK refused \in BOOLEAN :
          call' = [e \in Callers |->
                    IF e = c THEN [[call[c] EXCEPT !.pc = "apply", !.edition = billing.edition,
                                           !.listed = IF refused THEN {} ELSE billing.listed,
                                           !.open = IF refused THEN {} ELSE billing.open]
                                    EXCEPT !.alone = others = {}]
                    ELSE IF e \in others THEN [call[e] EXCEPT !.alone = FALSE]
                    ELSE call[e]]
        BY <1>17, <2>2 DEF AskBilling
      <4> QED
        BY <3>0, <4>1
    <3>3. [call[d] EXCEPT !.alone = FALSE].pc = call[d].pc
      BY <1>0, <3>0 DEF CallOK, CallShape
    <3>4. On(c, "act")
      BY <1>17 DEF AskBilling
    <3>5. call[d].pc # "act" => call'[d].pc # "act"
      BY <3>1, <3>2, <3>3, <3>4
    <3> QED
      BY <3>5, Zenon DEF Enters
  <2> QED
    BY <2>1, <2>2
<1>18. ASSUME \/ \E t \in Tokens : EndSession(t)
              \/ \E c \in Callers : Logout(c) \/ \E t \in Tokens : LoginElsewhere(c, t)
              \/ CliAdd \/ CliDelete \/ BillingChanges \/ Tick \/ UNCHANGED consoleVars
       PROVE  UNCHANGED call
  BY <1>18 DEF EndSession, Logout, LoginElsewhere, CliAdd, CliDelete, BillingChanges, Tick, consoleVars
<1> QED
  BY <1>6, <1>7, <1>9, <1>10, <1>11, <1>12, <1>13, <1>14, <1>15, <1>16, <1>17, <1>18 DEF ConsoleNext

LEMMA ConsoleInitInvs == ConsoleInit => SessionInv /\ DirectoryInv
<1> SUFFICES ASSUME ConsoleInit PROVE SessionInv /\ DirectoryInv
  OBVIOUS
<1>1. \A d \in Callers : call[d] = Rest
  BY DEF ConsoleInit
<1>2. Rest.pc = "idle" /\ Rest.op = "none"
  BY DEF Rest
<1>3. ASSUME NEW d \in Clients PROVE Told(call[d], session, raced)
  <2>1. call[d].pc \notin BeingAsked
    BY <1>1, <1>2 DEF BeingAsked, Callers
  <2> QED
    BY <2>1, ToldOutside
<1>4. WatchSyncs
  BY <1>1, <1>2 DEF WatchSyncs, Callers
<1>5. \A t \in Tokens : session[t].age = 0 /\ session[t].state # "ended"
  BY DEF ConsoleInit
<1>6. heard.edition \in {0, 1} /\ billing.edition = 1 /\ heard.open = active
  BY DEF ConsoleInit
<1> QED
  BY <1>1, <1>2, <1>3, <1>4, <1>5, <1>6 DEF SessionInv, Aged, DirectoryInv
=============================================================================
